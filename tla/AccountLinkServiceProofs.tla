---------------------- MODULE AccountLinkServiceProofs ----------------------
(***************************************************************************)
(* Proofs about AccountLinkService for any number of requests, instances,  *)
(* keys and connections: Inv is inductive, and the safety properties that  *)
(* TLC checks on small instances follow from it.                           *)
(***************************************************************************)
EXTENDS AccountLinkService, FiniteSetTheorems, TLAPS

-----------------------------------------------------------------------------
(* Facts about calls and values                                             *)

\* A create is not a get, and its trimmed key is one of Keys or absent.
LEMMA CallKinds ==
  /\ \A c \in Calls : c.op = "create" /\ c.key.text \in Keys \cup {NoKey}
  /\ \A c \in GetCalls : c.op = "get" /\ c.id \in Requests \cup {BadID}
  /\ Calls \cap GetCalls = {}
BY CallsAssumption DEF GetCalls

\* What Create builds from a call is a link, a hash, a record; none is NULL.
LEMMA CallValues ==
  /\ \A c \in Calls : /\ NewAccountLink(c) \in Link
                      /\ NewAccountLink(c) # NULL
                      /\ RequestHash(c) \in Hashes
  /\ NULL \notin Link /\ NULL \notin Row /\ NULL \notin Event /\ NULL \notin Tx
  /\ NULL \notin Response /\ NULL \notin Calls /\ NULL \notin GetCalls
  /\ NULL \notin Instances
BY NullAssumption DEF Link, Hashes

\* Two calls with the same trimmed payload have the same hash.
LEMMA SamePayloadSameHash ==
  ASSUME NEW c, NEW d, NewAccountLink(c) = NewAccountLink(d)
  PROVE  RequestHash(c) = RequestHash(d)
BY DEF NewAccountLink, RequestHash

-----------------------------------------------------------------------------
(* The pool                                                                 *)

\* A step that moves r between two program points that both hold a connection,
\* or both hold none, leaves the pools' balance alone.
LEMMA PoolKept ==
  ASSUME TypeOK, PoolInv, NEW r \in Requests, NEW l,
         pc' = [pc EXCEPT ![r] = l], UNCHANGED conns,
         l \in HoldsConn <=> pc[r] \in HoldsConn,
         UNCHANGED at \/ (pc[r] \notin HoldsConn /\ \E i : at' = [at EXCEPT ![r] = i])
  PROVE  PoolInv'
<1>1. \A i \in Instances : Holders(i)' = Holders(i)
  BY DEF Holders, TypeOK
<1>2. QED
  BY <1>1 DEF PoolInv

\* A step that takes a connection for r.
LEMMA PoolTaken ==
  ASSUME TypeOK, PoolInv, NEW r \in Requests, NEW l \in HoldsConn,
         at[r] \in Instances, pc[r] \notin HoldsConn,
         pc' = [pc EXCEPT ![r] = l], UNCHANGED at, Acquire(r)
  PROVE  PoolInv' /\ conns' \in [Instances -> 0..MaxConns]
<1>0. PICK j \in Instances : j = at[r]
  OBVIOUS
<1>1. /\ conns' = [conns EXCEPT ![j] = @ - 1] /\ conns[j] > 0
      /\ conns \in [Instances -> 0..MaxConns] /\ MaxConns \in Nat
  BY <1>0, ConnsAssumption DEF Acquire, Available, TypeOK
<1>2. \A i \in Instances \ {j} : Holders(i)' = Holders(i) /\ conns'[i] = conns[i]
  BY <1>0, <1>1 DEF Holders, TypeOK
<1>3. Holders(j)' = Holders(j) \cup {r} /\ r \notin Holders(j)
  BY <1>0 DEF Holders, TypeOK
<1>4. IsFiniteSet(Holders(j)) /\ conns[j] + Cardinality(Holders(j)) = MaxConns
  BY DEF PoolInv
<1>5. /\ IsFiniteSet(Holders(j)') 
      /\ Cardinality(Holders(j)') = Cardinality(Holders(j)) + 1
      /\ Cardinality(Holders(j)) \in Nat
  BY <1>3, <1>4, FS_AddElement, FS_CardinalityType
<1>6. conns'[j] + Cardinality(Holders(j)') = MaxConns
  BY <1>1, <1>4, <1>5
<1>7. conns' \in [Instances -> 0..MaxConns]
  BY <1>1
<1>8. QED
  BY <1>2, <1>5, <1>6, <1>7 DEF PoolInv

\* A step that gives back the connection of r.
LEMMA PoolGiven ==
  ASSUME TypeOK, PoolInv, NEW r \in Requests, NEW l,
         at[r] \in Instances, pc[r] \in HoldsConn, l \notin HoldsConn,
         pc' = [pc EXCEPT ![r] = l], UNCHANGED at, Release(r)
  PROVE  PoolInv' /\ conns' \in [Instances -> 0..MaxConns]
<1>0. PICK j \in Instances : j = at[r]
  OBVIOUS
<1>1. /\ conns' = [conns EXCEPT ![j] = @ + 1]
      /\ conns \in [Instances -> 0..MaxConns] /\ MaxConns \in Nat
  BY <1>0, ConnsAssumption DEF Release, TypeOK
<1>2. \A i \in Instances \ {j} : Holders(i)' = Holders(i) /\ conns'[i] = conns[i]
  BY <1>0, <1>1 DEF Holders, TypeOK
<1>3. Holders(j)' = Holders(j) \ {r} /\ r \in Holders(j)
  BY <1>0 DEF Holders, TypeOK
<1>4. IsFiniteSet(Holders(j)) /\ conns[j] + Cardinality(Holders(j)) = MaxConns
  BY DEF PoolInv
<1>5. /\ IsFiniteSet(Holders(j)')
      /\ Cardinality(Holders(j)') = Cardinality(Holders(j)) - 1
      /\ Cardinality(Holders(j)) \in Nat /\ Cardinality(Holders(j)') \in Nat
  BY <1>3, <1>4, FS_RemoveElement, FS_CardinalityType
<1>6. conns'[j] + Cardinality(Holders(j)') = MaxConns
  BY <1>1, <1>4, <1>5
<1>7. conns' \in [Instances -> 0..MaxConns]
  BY <1>1, <1>5, <1>6
<1>8. QED
  BY <1>2, <1>5, <1>6, <1>7 DEF PoolInv

-----------------------------------------------------------------------------
(* Frames: what a step keeps because it leaves the variables alone          *)

\* Bound keys stay sound while the tables and the calls stay.
LEMMA FrameKeys ==
  ASSUME KeyInv, UNCHANGED <<tables, call>>
  PROVE  KeyInv'
BY DEF KeyInv, Key, TrimSpace, tables

\* Answers stay sound while the tables and the calls stay.
LEMMA FrameResp ==
  ASSUME RespInv, UNCHANGED <<tables, call, resp>>
  PROVE  RespInv'
BY DEF RespInv, AnswerOK, Keyed, Key, TrimSpace, tables

\* The transaction of q, when the step is another request's.
LEMMA FrameTx ==
  ASSUME NEW q, TxOK(q), pc'[q] = pc[q], tx'[q] = tx[q], inserted'[q] = inserted[q],
         call'[q] = call[q], UNCHANGED <<account_links, idempotency_keys>>
  PROVE  TxOK(q)'
BY DEF TxOK, Keyed, Key, TrimSpace, IdempotencyRecord

\* No new key is pending.
LEMMA FramePending ==
  ASSUME PendingInv, UNCHANGED <<idempotency_keys, call>>,
         \A q \in Requests : tx'[q] # NULL /\ tx'[q].rec # NULL =>
                               tx[q] # NULL /\ tx[q].rec # NULL
  PROVE  PendingInv'
BY DEF PendingInv, KeyPending, Key, TrimSpace

\* The key of a create in progress is one of Keys or absent.
LEMMA KeyType ==
  ASSUME NEW r \in Requests, call[r] \in Calls
  PROVE  Key(r) \in Keys \cup {NoKey}
BY CallKinds DEF Key, TrimSpace

-----------------------------------------------------------------------------
(* Answers                                                                  *)

\* A client that gives up leaves the server a transaction in good order.
LEMMA AbandonedOK ==
  ASSUME Inv, NEW r \in Requests, pc[r] \in InFlight,
         pc'[r] \in {"done", "crashed"}, tx'[r] = Abandoned(r),
         call'[r] = call[r], UNCHANGED <<account_links, idempotency_keys>>
  PROVE  /\ TxOK(r)' /\ Abandoned(r) \in Tx \cup {NULL}
         /\ pc[r] \notin InTx => Abandoned(r) = NULL /\ tx[r] = NULL
         /\ tx'[r] # NULL /\ tx'[r].rec # NULL => tx[r] # NULL /\ tx[r].rec # NULL
<1>1. TxOK(r) /\ tx[r] \in Tx \cup {NULL}
  BY DEF Inv, TypeOK, TxInv
<1>2. CASE pc[r] = "commit"
  <2>1. tx[r] \in Tx /\ tx[r] # NULL /\ Abandoned(r) = [tx[r] EXCEPT !.sent = TRUE]
    BY <1>1, <1>2 DEF TxOK, InTx, Abandoned
  <2>2. PICK t \in Tx : /\ t = Abandoned(r) /\ t.link = tx[r].link /\ t.rec = tx[r].rec
                        /\ t.event = tx[r].event /\ t.sent
    BY <2>1 DEF Tx
  <2>3. QED
    BY <1>1, <1>2, <2>1, <2>2
       DEF TxOK, InTx, Keyed, Key, TrimSpace, IdempotencyRecord
<1>3. CASE pc[r] # "commit"
  <2>1. Abandoned(r) = tx[r] /\ (tx[r] # NULL => pc[r] \in InTx)
    BY <1>1, <1>3 DEF TxOK, InTx, Abandoned, InFlight, Reading, HoldsConn
  <2>2. QED
    BY <1>1, <1>3, <2>1 DEF TxOK, InTx, Keyed, Key, TrimSpace, IdempotencyRecord
<1>4. QED
  BY <1>2, <1>3

\* A step that answers r with a, leaves its transaction and touches no table.
LEMMA Answering ==
  ASSUME Inv, NEW r \in Requests, NEW a \in Response,
         pc[r] \in InFlight, Reply(r, a), AnswerOK(r, a),
         tx' = [tx EXCEPT ![r] = Abandoned(r)], UNCHANGED <<tables, locals>>,
         conns' \in [Instances -> 0..MaxConns], PoolInv'
  PROVE  Inv'
<1>1. /\ pc' = [pc EXCEPT ![r] = "done"] /\ resp' = [resp EXCEPT ![r] = a]
      /\ UNCHANGED <<account_links, idempotency_keys, outbox_events>>
      /\ UNCHANGED <<call, at, inserted, rec>>
  BY DEF Reply, tables, locals
<1>2. /\ TxOK(r)' /\ Abandoned(r) \in Tx \cup {NULL}
      /\ tx'[r] # NULL /\ tx'[r].rec # NULL => tx[r] # NULL /\ tx[r].rec # NULL
      /\ \A q \in Requests \ {r} : tx'[q] = tx[q] /\ pc'[q] = pc[q]
  <2>1. pc'[r] = "done" /\ tx'[r] = Abandoned(r)
    BY <1>1 DEF Inv, TypeOK
  <2>2. QED
    BY <1>1, <2>1, AbandonedOK DEF Inv, TypeOK
<1>3. TypeOK'
  BY <1>1, <1>2 DEF Inv, TypeOK, PCs
<1>4. CallInv'
  BY <1>1 DEF Inv, TypeOK, CallInv, Creating, Unsaved, InTx, Keyed, Key, TrimSpace,
              InFlight, Reading, HoldsConn
<1>5. TxInv'
  BY <1>1, <1>2, FrameTx DEF Inv, TxInv
<1>6. PendingInv'
  BY <1>1, <1>2, FramePending DEF Inv
<1>7. KeyInv'
  BY FrameKeys DEF Inv, locals
<1>8. LinkInv'
  BY <1>1 DEF Inv, TypeOK, LinkInv, Unsaved, InTx, Keyed, Key, TrimSpace
<1>9. ReplayInv'
  BY <1>1 DEF Inv, TypeOK, ReplayInv, Key, TrimSpace
<1>10. RespInv'
  <2> SUFFICES ASSUME NEW q \in Requests, resp'[q] # NULL
               PROVE  AnswerOK(q, resp[q])'
    BY DEF RespInv
  <2>1. CASE q = r
    <3>1. resp'[q] = a
      BY <1>1, <2>1 DEF Inv, TypeOK
    <3>2. QED
      BY <1>1, <2>1, <3>1 DEF AnswerOK, Keyed, Key, TrimSpace
  <2>2. CASE q # r
    <3>1. resp'[q] = resp[q]
      BY <1>1, <2>2 DEF Inv, TypeOK
    <3>2. AnswerOK(q, resp[q])
      BY <3>1 DEF Inv, RespInv
    <3>3. QED
      BY <1>1, <3>1, <3>2 DEF AnswerOK, Keyed, Key, TrimSpace
  <2>3. QED
    BY <2>1, <2>2
<1>11. QED
  BY <1>3, <1>4, <1>5, <1>6, <1>7, <1>8, <1>9, <1>10 DEF Inv

\* The answers the code gives are responses.
LEMMA Responses ==
  /\ \A id \in Requests : Found("OK", id) \in Response /\ Found("Created", id) \in Response
  /\ Problem("BadRequest", "bad request") \in Response
  /\ Problem("NotFound", "not found") \in Response
  /\ Problem("Conflict", "conflict") \in Response
  /\ Problem("InternalServerError", "request failed") \in Response
BY DEF Found, Problem, Response, Statuses, Ids, Details

\* The fields of the 400 a handler gives.
LEMMA RefusedFields ==
  /\ Problem("BadRequest", "bad request").status = "BadRequest"
  /\ Problem("BadRequest", "bad request").detail = "bad request"
BY DEF Problem

\* An error that is not a conflict rests on nothing.
LEMMA FailedOK ==
  ASSUME NEW r \in Requests
  PROVE  /\ AnswerOK(r, Problem("InternalServerError", "request failed"))
         /\ AnswerOK(r, Problem("NotFound", "not found"))
BY DEF AnswerOK, Problem

\* A failed call, at whatever point of the request.
LEMMA FailInv ==
  ASSUME Inv, NEW r \in Requests, Fail(r)
  PROVE  Inv'
<1>1. /\ pc[r] \in InFlight /\ Reply(r, Problem("InternalServerError", "request failed"))
      /\ tx' = [tx EXCEPT ![r] = Abandoned(r)] /\ UNCHANGED <<tables, locals>>
  BY DEF Fail
<1>2. /\ pc' = [pc EXCEPT ![r] = "done"] /\ UNCHANGED at
      /\ at[r] \in Instances /\ "done" \notin HoldsConn
  BY <1>1 DEF Reply, locals, Inv, CallInv, InFlight, Reading, HoldsConn, InTx
<1>3. PoolInv' /\ conns' \in [Instances -> 0..MaxConns]
  <2>1. CASE pc[r] \in HoldsConn
    BY <1>2, <2>1, PoolGiven DEF Fail, Inv
  <2>2. CASE pc[r] \notin HoldsConn
    BY <1>2, <2>2, PoolKept DEF Fail, Inv, TypeOK
  <2>3. QED
    BY <2>1, <2>2
<1>4. QED
  BY <1>1, <1>3, Answering, Responses, FailedOK

\* A step that answers r where it holds no connection.
LEMMA ReadAnswers ==
  ASSUME Inv, NEW r \in Requests, NEW a \in Response,
         pc[r] \in Reading, Reply(r, a), AnswerOK(r, a),
         UNCHANGED <<tables, locals, tx, conns>>
  PROVE  Inv'
<1>1. /\ pc[r] \in InFlight /\ pc[r] \notin HoldsConn /\ "done" \notin HoldsConn
      /\ pc' = [pc EXCEPT ![r] = "done"] /\ UNCHANGED at
  BY DEF Reading, InFlight, HoldsConn, InTx, Reply, locals
<1>2. PoolInv' /\ conns' \in [Instances -> 0..MaxConns]
  BY <1>1, PoolKept DEF Inv, TypeOK
<1>3. tx' = [tx EXCEPT ![r] = Abandoned(r)]
  BY <1>1 DEF Inv, TypeOK, Abandoned, HoldsConn, InTx
<1>4. QED
  BY <1>1, <1>2, <1>3, Answering

\* GET answers what is committed.
LEMMA GetByIDInv ==
  ASSUME Inv, NEW r \in Requests, GetByID(r)
  PROVE  Inv'
<1>1. call[r] \in GetCalls /\ call[r] \notin Calls /\ call[r].id \in Requests
  BY CallKinds DEF GetByID, LinkRow, Inv, CallInv
<1>2. CASE account_links[call[r].id] = NULL
  BY <1>2, ReadAnswers, Responses, FailedOK DEF GetByID, LinkRow, Reading
<1>3. CASE account_links[call[r].id] # NULL
  <2>1. AnswerOK(r, Found("OK", call[r].id))
    BY <1>1, <1>3 DEF AnswerOK, Found
  <2>2. QED
    BY <1>1, <1>3, <2>1, ReadAnswers, Responses DEF GetByID, LinkRow, Reading
<1>4. QED
  BY <1>2, <1>3

\* The link a bound key names is always there to be replayed.
LEMMA FindReplayedInv ==
  ASSUME Inv, NEW r \in Requests, FindReplayed(r)
  PROVE  Inv'
<1>1. /\ Keyed(r) /\ Key(r) \in Keys /\ call[r] \in Calls
      /\ rec[r] = idempotency_keys[Key(r)] /\ rec[r] # NULL
  BY KeyType DEF FindReplayed, LinkRow, Inv, CallInv, ReplayInv, Creating, Keyed
<1>2. PICK id \in Requests : id = rec[r].account_link_id
  BY <1>1 DEF Inv, TypeOK, Row
<1>3. account_links[id] # NULL
  BY <1>1, <1>2 DEF Inv, KeyInv, LinkInv
<1>4. AnswerOK(r, Found("OK", id))
  BY <1>1, <1>2, <1>3 DEF AnswerOK, Found
<1>5. QED
  BY <1>2, <1>3, <1>4, ReadAnswers, Responses DEF FindReplayed, LinkRow, Reading

\* A step in which replay answers or goes on to read the recorded link.
LEMMA ReplayStep ==
  ASSUME Inv, NEW r \in Requests, pc[r] \in {"find_key", "refind_key"},
         NEW row, row = idempotency_keys[Key(r)], row # NULL, Replay(r, row),
         UNCHANGED <<tables, call, at, tx, inserted, conns>>,
         outbox_events[r] = NULL
  PROVE  Inv'
<1>1. Keyed(r) /\ Key(r) \in Keys /\ call[r] \in Calls /\ row \in Row
  BY KeyType DEF Inv, CallInv, TypeOK, Creating, Unsaved, Keyed
<1>2. CASE row.request_hash # RequestHash(call[r])
  <2>1. AnswerOK(r, Problem("Conflict", "conflict"))
    BY <1>1, <1>2 DEF AnswerOK, Problem
  <2>2. QED
    BY <1>2, <2>1, ReadAnswers, Responses DEF Replay, Reading, locals
<1>3. CASE row.request_hash = RequestHash(call[r])
  <2>1. /\ rec' = [rec EXCEPT ![r] = row] /\ pc' = [pc EXCEPT ![r] = "find_link"]
        /\ UNCHANGED resp /\ UNCHANGED <<call, at, tx, inserted, conns>>
        /\ UNCHANGED <<account_links, idempotency_keys, outbox_events>>
    BY <1>3 DEF Replay, Goto, tables
  <2>2. TypeOK'
    BY <1>1, <2>1 DEF Inv, TypeOK, PCs, InFlight, Reading
  <2>3. CallInv'
    BY <1>1, <2>1 DEF Inv, TypeOK, CallInv, Creating, Unsaved, Keyed, Key, TrimSpace
  <2>4. TxInv' /\ PendingInv'
    BY <2>1 DEF Inv, TypeOK, TxInv, TxOK, InTx, Keyed, Key, TrimSpace, IdempotencyRecord,
                PendingInv, KeyPending
  <2>5. KeyInv' /\ RespInv'
    BY <2>1, FrameKeys, FrameResp DEF Inv, tables
  <2>6. LinkInv'
    BY <2>1 DEF Inv, TypeOK, LinkInv, Unsaved, InTx, Keyed, Key, TrimSpace
  <2>7. ReplayInv'
    BY <1>3, <2>1 DEF Inv, TypeOK, ReplayInv, Key, TrimSpace
  <2>8. PoolInv'
    BY <2>1, PoolKept DEF Inv, HoldsConn, InTx
  <2>9. QED
    BY <2>2, <2>3, <2>4, <2>5, <2>6, <2>7, <2>8 DEF Inv
<1>4. QED
  BY <1>2, <1>3

\* After a lost insert the key can be read.
LEMMA FindByKeyAgainInv ==
  ASSUME Inv, NEW r \in Requests, FindByKeyAgain(r)
  PROVE  Inv'
<1>1. idempotency_keys[Key(r)] # NULL /\ outbox_events[r] = NULL
  BY DEF FindByKeyAgain, KeyRow, Inv, ReplayInv
<1>2. QED
  BY <1>1, ReplayStep DEF FindByKeyAgain, KeyRow

\* The first lookup of the key: free, conflicting or to be replayed.
LEMMA FindByKeyInv ==
  ASSUME Inv, NEW r \in Requests, FindByKey(r)
  PROVE  Inv'
<1>1. CASE idempotency_keys[Key(r)] # NULL
  <2>1. outbox_events[r] = NULL
    BY DEF FindByKey, KeyRow, Inv, LinkInv, Unsaved
  <2>2. QED
    BY <1>1, <2>1, ReplayStep DEF FindByKey, KeyRow
<1>2. CASE idempotency_keys[Key(r)] = NULL
  <2>1. /\ pc[r] = "find_key" /\ pc' = [pc EXCEPT ![r] = "begin"]
        /\ UNCHANGED <<call, at, tx, inserted, rec, resp, conns>>
        /\ UNCHANGED <<account_links, idempotency_keys, outbox_events>>
    BY <1>2 DEF FindByKey, KeyRow, Goto, tables
  <2>2. TypeOK'
    BY <2>1 DEF Inv, TypeOK, PCs, InFlight
  <2>3. CallInv'
    BY <2>1 DEF Inv, TypeOK, CallInv, Creating, Unsaved, Keyed, Key, TrimSpace
  <2>4. TxInv' /\ PendingInv'
    BY <2>1 DEF Inv, TypeOK, TxInv, TxOK, InTx, Keyed, Key, TrimSpace, IdempotencyRecord,
                PendingInv, KeyPending
  <2>5. KeyInv' /\ RespInv'
    BY <2>1, FrameKeys, FrameResp DEF Inv, tables
  <2>6. LinkInv' /\ ReplayInv'
    BY <2>1 DEF Inv, TypeOK, LinkInv, ReplayInv, Unsaved, InTx, Keyed, Key, TrimSpace
  <2>7. PoolInv'
    BY <2>1, PoolKept DEF Inv, HoldsConn, InTx
  <2>8. QED
    BY <2>2, <2>3, <2>4, <2>5, <2>6, <2>7 DEF Inv
<1>3. QED
  BY <1>1, <1>2

-----------------------------------------------------------------------------
(* The transaction of Create                                                *)

\* Begin takes a connection.
LEMMA BeginInv ==
  ASSUME Inv, NEW r \in Requests, Begin(r)
  PROVE  Inv'
<1>1. /\ pc[r] = "begin" /\ pc' = [pc EXCEPT ![r] = "save"] /\ Acquire(r)
      /\ tx' = [tx EXCEPT ![r] = EmptyTx]
      /\ UNCHANGED <<call, at, inserted, rec, resp>>
      /\ UNCHANGED <<account_links, idempotency_keys, outbox_events>>
  BY DEF Begin, Goto, tables, locals
<1>2. PoolInv' /\ conns' \in [Instances -> 0..MaxConns]
  BY <1>1, PoolTaken DEF Inv, CallInv, HoldsConn, InTx
<1>3. /\ EmptyTx \in Tx /\ EmptyTx # NULL
      /\ EmptyTx.rec = NULL /\ EmptyTx.event = NULL /\ ~ EmptyTx.sent
  <2>1. EmptyTx \in Tx
    BY DEF EmptyTx, Tx
  <2>2. QED
    BY <2>1, CallValues DEF EmptyTx
<1>4. TypeOK'
  BY <1>1, <1>2, <1>3 DEF Inv, TypeOK, PCs, InFlight, HoldsConn, InTx
<1>5. CallInv'
  BY <1>1 DEF Inv, TypeOK, CallInv, Creating, Unsaved, InTx, Keyed, Key, TrimSpace
<1>6. TxInv'
  <2>1. /\ pc'[r] = "save" /\ tx'[r] = EmptyTx /\ account_links'[r] = NULL
        /\ call'[r] \in Calls /\ ~ BadRequest(call'[r])
    BY <1>1 DEF Inv, TypeOK, CallInv, LinkInv, Creating, Unsaved
  <2>2. TxOK(r)'
    BY <1>3, <2>1 DEF TxOK, InTx
  <2>3. \A q \in Requests \ {r} : TxOK(q)'
    BY <1>1, FrameTx DEF Inv, TypeOK, TxInv
  <2>4. QED
    BY <2>2, <2>3 DEF TxInv
<1>7. PendingInv'
  BY <1>1, <1>3, FramePending DEF Inv, TypeOK
<1>8. KeyInv' /\ RespInv'
  BY <1>1, FrameKeys, FrameResp DEF Inv, tables
<1>9. LinkInv' /\ ReplayInv'
  BY <1>1 DEF Inv, TypeOK, LinkInv, ReplayInv, Unsaved, InTx, Keyed, Key, TrimSpace
<1>10. QED
  BY <1>2, <1>4, <1>5, <1>6, <1>7, <1>8, <1>9 DEF Inv

\* The link is pending, in its own transaction.
LEMMA SaveInv ==
  ASSUME Inv, NEW r \in Requests, Save(r)
  PROVE  Inv'
<1>1. /\ pc[r] = "save"
      /\ pc' = [pc EXCEPT ![r] = IF Keyed(r) THEN "try_insert" ELSE "add_outbox"]
      /\ tx' = [tx EXCEPT ![r].link = NewAccountLink(call[r])]
      /\ inserted' = [inserted EXCEPT ![r] = ~ Keyed(r)]
      /\ UNCHANGED <<call, at, rec, resp, conns>>
      /\ UNCHANGED <<account_links, idempotency_keys, outbox_events>>
  BY DEF Save, Goto, tables, Keyed
<1>2. /\ call[r] \in Calls /\ NewAccountLink(call[r]) \in Link
      /\ tx[r] \in Tx /\ tx[r] # NULL /\ TxOK(r)
  BY <1>1, CallValues DEF Inv, TypeOK, CallInv, TxInv, TxOK, Creating, Unsaved, InTx
<1>3. PICK t \in Tx : /\ t.link = NewAccountLink(call[r]) /\ t.rec = NULL
                      /\ t.event = NULL /\ ~ t.sent /\ tx' = [tx EXCEPT ![r] = t]
  <2> DEFINE t == [tx[r] EXCEPT !.link = NewAccountLink(call[r])]
  <2>1. /\ t \in Tx /\ t.link = NewAccountLink(call[r])
        /\ t.rec = tx[r].rec /\ t.event = tx[r].event /\ t.sent = tx[r].sent
    BY <1>2 DEF Tx
  <2>2. tx' = [tx EXCEPT ![r] = t]
    BY <1>1 DEF Inv, TypeOK
  <2>3. tx[r].rec = NULL /\ tx[r].event = NULL /\ ~ tx[r].sent
    BY <1>1, <1>2 DEF TxOK, InTx
  <2>4. QED
    BY <2>1, <2>2, <2>3
<1>4. TypeOK'
  BY <1>1, <1>3 DEF Inv, TypeOK, PCs, InFlight, HoldsConn, InTx
<1>5. CallInv'
  BY <1>1 DEF Inv, TypeOK, CallInv, Creating, Unsaved, InTx, Keyed, Key, TrimSpace
<1>6. TxInv'
  <2>1. /\ tx'[r] = t /\ t # NULL /\ account_links'[r] = NULL
        /\ call'[r] \in Calls /\ ~ BadRequest(call'[r])
        /\ NewAccountLink(call'[r]) = NewAccountLink(call[r])
        /\ Keyed(r)' <=> Keyed(r)
    BY <1>1, <1>2, <1>3, CallValues DEF Inv, TypeOK, TxOK, Keyed, Key, TrimSpace
  <2>2. TxOK(r)'
    <3>1. CASE Keyed(r)
      <4>1. pc'[r] = "try_insert"
        BY <1>1, <3>1 DEF Inv, TypeOK
      <4>2. QED
        BY <1>3, <2>1, <4>1 DEF TxOK, InTx
    <3>2. CASE ~ Keyed(r)
      <4>1. pc'[r] = "add_outbox" /\ inserted'[r]
        BY <1>1, <3>2 DEF Inv, TypeOK
      <4>2. QED
        BY <1>3, <2>1, <3>2, <4>1 DEF TxOK, InTx
    <3>3. QED
      BY <3>1, <3>2
  <2>3. \A q \in Requests \ {r} : TxOK(q)'
    BY <1>1, <1>3, FrameTx DEF Inv, TypeOK, TxInv
  <2>4. QED
    BY <2>2, <2>3 DEF TxInv
<1>7. PendingInv'
  BY <1>1, <1>3, FramePending DEF Inv, TypeOK
<1>8. KeyInv' /\ RespInv'
  BY <1>1, FrameKeys, FrameResp DEF Inv, tables
<1>9. LinkInv' /\ ReplayInv'
  BY <1>1 DEF Inv, TypeOK, LinkInv, ReplayInv, Unsaved, InTx, Keyed, Key, TrimSpace
<1>10. PoolInv'
  BY <1>1, PoolKept DEF Inv, HoldsConn, InTx
<1>11. QED
  BY <1>4, <1>5, <1>6, <1>7, <1>8, <1>9, <1>10 DEF Inv

\* The event is pending beside its link.
LEMMA AddOutboxInv ==
  ASSUME Inv, NEW r \in Requests, AddOutbox(r)
  PROVE  Inv'
<1>1. PICK now \in Times :
        /\ pc[r] = "add_outbox" /\ pc' = [pc EXCEPT ![r] = "commit"]
        /\ tx' = [tx EXCEPT ![r].event = OutboxEvent(r, now)]
        /\ UNCHANGED <<call, at, inserted, rec, resp, conns>>
        /\ UNCHANGED <<account_links, idempotency_keys, outbox_events>>
  BY DEF AddOutbox, Goto, tables, locals
<1>2. /\ call[r] \in Calls /\ tx[r] \in Tx /\ tx[r] # NULL /\ TxOK(r)
      /\ tx[r].link = NewAccountLink(call[r]) /\ tx[r].link \in Link
  BY <1>1, CallValues DEF Inv, TypeOK, CallInv, TxInv, TxOK, Creating, Unsaved, InTx
<1>3. /\ OutboxEvent(r, now) \in Event /\ OutboxEvent(r, now) # NULL
      /\ OutboxEvent(r, now).aggregate_id = r
      /\ OutboxEvent(r, now).payload = NewAccountLink(call[r])
  BY <1>2, CallValues DEF OutboxEvent, Event
<1>4. PICK t \in Tx : /\ t.link = NewAccountLink(call[r]) /\ t.rec = tx[r].rec
                      /\ t.event = OutboxEvent(r, now) /\ ~ t.sent
                      /\ tx' = [tx EXCEPT ![r] = t]
  <2> DEFINE t == [tx[r] EXCEPT !.event = OutboxEvent(r, now)]
  <2>1. /\ t \in Tx /\ t.link = tx[r].link /\ t.rec = tx[r].rec
        /\ t.event = OutboxEvent(r, now) /\ t.sent = tx[r].sent
    BY <1>2, <1>3 DEF Tx
  <2>2. tx' = [tx EXCEPT ![r] = t]
    BY <1>1 DEF Inv, TypeOK
  <2>3. ~ tx[r].sent
    BY <1>1, <1>2 DEF TxOK, InTx
  <2>4. QED
    BY <1>2, <2>1, <2>2, <2>3
<1>5. TypeOK'
  BY <1>1, <1>4 DEF Inv, TypeOK, PCs, InFlight, HoldsConn, InTx
<1>6. CallInv'
  BY <1>1 DEF Inv, TypeOK, CallInv, Creating, Unsaved, InTx, Keyed, Key, TrimSpace
<1>7. TxInv'
  <2>0. /\ tx'[r] = t /\ t # NULL /\ pc'[r] = "commit" /\ inserted' = inserted
        /\ call' = call /\ account_links' = account_links
    BY <1>1, <1>4, CallValues DEF Inv, TypeOK
  <2>1. TxOK(r)'
    <3>1. /\ inserted[r] /\ (Keyed(r) <=> tx[r].rec # NULL) /\ account_links[r] = NULL
          /\ tx[r].rec # NULL => tx[r].rec = IdempotencyRecord(r)
      BY <1>1, <1>2 DEF TxOK
    <3>2. QED
      BY <1>2, <1>3, <1>4, <2>0, <3>1
         DEF TxOK, InTx, Keyed, Key, TrimSpace, IdempotencyRecord
  <2>2. \A q \in Requests \ {r} : TxOK(q)'
    BY <1>1, <1>4, FrameTx DEF Inv, TypeOK, TxInv
  <2>3. QED
    BY <2>1, <2>2 DEF TxInv
<1>8. PendingInv'
  <2>1. tx[r] # NULL
    BY <1>2, CallValues
  <2>2. QED
    BY <1>1, <1>4, <2>1, FramePending DEF Inv, TypeOK
<1>9. KeyInv' /\ RespInv'
  BY <1>1, FrameKeys, FrameResp DEF Inv, tables
<1>10. LinkInv' /\ ReplayInv'
  BY <1>1 DEF Inv, TypeOK, LinkInv, ReplayInv, Unsaved, InTx, Keyed, Key, TrimSpace
<1>11. PoolInv'
  BY <1>1, PoolKept DEF Inv, HoldsConn, InTx
<1>12. QED
  BY <1>5, <1>6, <1>7, <1>8, <1>9, <1>10, <1>11 DEF Inv

\* The step of the race: the key is pending afterwards only if it was free.
LEMMA TryInsertInv ==
  ASSUME Inv, NEW r \in Requests, TryInsert(r)
  PROVE  Inv'
<1>1. /\ pc[r] = "try_insert" /\ ~ KeyPending(r)
      /\ UNCHANGED <<call, at, rec, resp, conns>>
      /\ UNCHANGED <<account_links, idempotency_keys, outbox_events>>
  BY DEF TryInsert, tables
<1>2. /\ call[r] \in Calls /\ ~ BadRequest(call[r]) /\ Keyed(r) /\ Key(r) \in Keys
      /\ tx[r] \in Tx /\ tx[r] # NULL
      /\ tx[r].link = NewAccountLink(call[r]) /\ tx[r].rec = NULL /\ tx[r].event = NULL
      /\ ~ tx[r].sent /\ account_links[r] = NULL
  BY <1>1, CallValues, KeyType
     DEF Inv, TypeOK, CallInv, TxInv, TxOK, Creating, Unsaved, InTx, Keyed
<1>3. KeyInv' /\ RespInv'
  BY <1>1, FrameKeys, FrameResp DEF Inv, tables
<1>4. CASE idempotency_keys[Key(r)] = NULL
  <2>1. /\ pc' = [pc EXCEPT ![r] = "add_outbox"]
        /\ inserted' = [inserted EXCEPT ![r] = TRUE]
        /\ tx' = [tx EXCEPT ![r].rec = IdempotencyRecord(r)]
    BY <1>4 DEF TryInsert, Goto
  <2>2. IdempotencyRecord(r) \in Row /\ IdempotencyRecord(r) # NULL
    BY <1>2, CallValues DEF IdempotencyRecord, Row
  <2>3. PICK t \in Tx : /\ t.link = NewAccountLink(call[r]) /\ t.event = NULL
                        /\ t.rec = IdempotencyRecord(r) /\ ~ t.sent
                        /\ tx' = [tx EXCEPT ![r] = t]
    <3> DEFINE t == [tx[r] EXCEPT !.rec = IdempotencyRecord(r)]
    <3>1. /\ t \in Tx /\ t.link = tx[r].link /\ t.event = tx[r].event
          /\ t.rec = IdempotencyRecord(r) /\ t.sent = tx[r].sent
      BY <1>2, <2>2 DEF Tx
    <3>2. tx' = [tx EXCEPT ![r] = t]
      BY <2>1 DEF Inv, TypeOK
    <3>3. QED
      BY <1>2, <3>1, <3>2
  <2>4. TypeOK'
    BY <1>1, <2>1, <2>3 DEF Inv, TypeOK, PCs, InFlight, HoldsConn, InTx
  <2>5. CallInv'
    BY <1>1, <2>1 DEF Inv, TypeOK, CallInv, Creating, Unsaved, InTx, Keyed, Key, TrimSpace
  <2>6. TxInv'
    <3>0. /\ tx'[r] = t /\ t # NULL /\ pc'[r] = "add_outbox" /\ inserted'[r]
          /\ call' = call /\ account_links' = account_links
      BY <1>1, <2>1, <2>3, CallValues DEF Inv, TypeOK
    <3>1. TxOK(r)'
      BY <1>2, <2>2, <2>3, <3>0 DEF TxOK, InTx, Keyed, Key, TrimSpace, IdempotencyRecord
    <3>2. \A q \in Requests \ {r} : TxOK(q)'
      BY <1>1, <2>1, <2>3, FrameTx DEF Inv, TypeOK, TxInv
    <3>3. QED
      BY <3>1, <3>2 DEF TxInv
  <2>7. PendingInv'
    <3>1. tx'[r] = t /\ \A q \in Requests \ {r} : tx'[q] = tx[q]
      BY <2>3 DEF Inv, TypeOK
    <3>2. QED
      BY <1>1, <1>4, <3>1 DEF Inv, PendingInv, KeyPending, Key, TrimSpace
  <2>8. LinkInv' /\ ReplayInv'
    BY <1>1, <2>1 DEF Inv, TypeOK, LinkInv, ReplayInv, Unsaved, InTx, Keyed, Key, TrimSpace
  <2>9. PoolInv'
    BY <1>1, <2>1, PoolKept DEF Inv, HoldsConn, InTx
  <2>10. QED
    BY <1>3, <2>4, <2>5, <2>6, <2>7, <2>8, <2>9 DEF Inv
<1>5. CASE idempotency_keys[Key(r)] # NULL
  <2>1. /\ pc' = [pc EXCEPT ![r] = "commit"] /\ UNCHANGED tx
        /\ inserted' = [inserted EXCEPT ![r] = FALSE]
    BY <1>5 DEF TryInsert, Goto
  <2>2. TypeOK'
    BY <1>1, <2>1 DEF Inv, TypeOK, PCs, InFlight, HoldsConn, InTx
  <2>3. CallInv'
    BY <1>1, <2>1 DEF Inv, TypeOK, CallInv, Creating, Unsaved, InTx, Keyed, Key, TrimSpace
  <2>4. TxInv'
    <3>0. pc'[r] = "commit" /\ ~ inserted'[r]
      BY <2>1 DEF Inv, TypeOK
    <3>1. TxOK(r)'
      BY <1>1, <1>2, <1>5, <2>1, <3>0 DEF TxOK, InTx, Keyed, Key, TrimSpace
    <3>2. \A q \in Requests \ {r} : TxOK(q)'
      BY <1>1, <2>1, FrameTx DEF Inv, TypeOK, TxInv
    <3>3. QED
      BY <3>1, <3>2 DEF TxInv
  <2>5. PendingInv'
    BY <1>1, <2>1, FramePending DEF Inv
  <2>6. LinkInv' /\ ReplayInv'
    BY <1>1, <2>1 DEF Inv, TypeOK, LinkInv, ReplayInv, Unsaved, InTx, Keyed, Key, TrimSpace
  <2>7. PoolInv'
    BY <1>1, <2>1, PoolKept DEF Inv, HoldsConn, InTx
  <2>8. QED
    BY <1>3, <2>2, <2>3, <2>4, <2>5, <2>6, <2>7 DEF Inv
<1>6. QED
  BY <1>4, <1>5

\* A transaction that commits only adds rows: it never rebinds a key.
LEMMA ApplyGrows ==
  ASSUME Inv, NEW r \in Requests, tx[r] # NULL, pc[r] = "commit" \/ tx[r].sent, Apply(r)
  PROVE  /\ call[r] \in Calls /\ account_links'[r] = NewAccountLink(call[r])
         /\ IdempotencyRecord(r) # NULL
         /\ outbox_events[r] = NULL
         /\ outbox_events'[r] # NULL <=> tx[r].event # NULL
         /\ tx[r].event # NULL => /\ outbox_events'[r].aggregate_id = r
                                  /\ outbox_events'[r].payload = NewAccountLink(call[r])
         /\ tx[r].event # NULL /\ Keyed(r) =>
              /\ idempotency_keys[Key(r)] = NULL /\ ~ KeyPending(r)
              /\ idempotency_keys' =
                   [idempotency_keys EXCEPT ![Key(r)] = IdempotencyRecord(r)]
         /\ ~ (tx[r].event # NULL /\ Keyed(r)) => UNCHANGED idempotency_keys
         /\ tx[r].event = NULL => Keyed(r) /\ idempotency_keys[Key(r)] # NULL
         /\ \A q \in Requests \ {r} : /\ account_links'[q] = account_links[q]
                                      /\ outbox_events'[q] = outbox_events[q]
         /\ account_links' \in [Requests -> Link \cup {NULL}]
         /\ idempotency_keys' \in [Keys -> Row \cup {NULL}]
         /\ outbox_events' \in [Requests -> Event \cup {NULL}]
<1>1. /\ TxOK(r) /\ tx[r] \in Tx /\ call[r] \in Calls
      /\ NewAccountLink(call[r]) \in Link
  BY CallValues DEF Inv, TypeOK, TxInv, TxOK
<1>2. /\ tx[r].link = NewAccountLink(call[r])
      /\ account_links[r] = NULL /\ outbox_events[r] = NULL
  BY <1>1 DEF TxOK, Inv, LinkInv
<1>3. /\ tx[r].event # NULL => /\ tx[r].event \in Event
                               /\ tx[r].event.aggregate_id = r
                               /\ tx[r].event.payload = NewAccountLink(call[r])
                               /\ Keyed(r) => tx[r].rec # NULL
                               /\ Keyed(r) => tx[r].rec = IdempotencyRecord(r)
                               /\ ~ Keyed(r) => tx[r].rec = NULL
      /\ tx[r].event = NULL => /\ tx[r].rec = NULL
                               /\ Keyed(r) /\ idempotency_keys[Key(r)] # NULL
  BY <1>1 DEF TxOK, Tx
<1>4. /\ IdempotencyRecord(r) \in Row /\ IdempotencyRecord(r) # NULL
      /\ Keyed(r) => Key(r) \in Keys
  BY <1>1, CallValues, KeyType DEF IdempotencyRecord, Row, Keyed
<1>5. account_links' = [account_links EXCEPT ![r] = tx[r].link]
  BY DEF Apply
<1>6. tx[r].event # NULL /\ Keyed(r) =>
        /\ idempotency_keys[Key(r)] = NULL /\ ~ KeyPending(r)
        /\ idempotency_keys' = [idempotency_keys EXCEPT ![Key(r)] = IdempotencyRecord(r)]
  BY <1>3 DEF Apply, Inv, PendingInv
<1>7. ~ (tx[r].event # NULL /\ Keyed(r)) => UNCHANGED idempotency_keys
  BY <1>3 DEF Apply
<1>8. idempotency_keys' \in [Keys -> Row \cup {NULL}]
  BY <1>4, <1>6, <1>7 DEF Inv, TypeOK
<1>9. /\ tx[r].event # NULL => outbox_events' = [outbox_events EXCEPT ![r] = tx[r].event]
      /\ tx[r].event = NULL => UNCHANGED outbox_events
  BY DEF Apply
<1>10. QED
  BY <1>1, <1>2, <1>3, <1>4, <1>5, <1>6, <1>7, <1>8, <1>9 DEF Inv, TypeOK

\* A commit, acknowledged or not, of a live request or of one that is gone.
LEMMA ApplyInv ==
  ASSUME Inv, NEW r \in Requests, tx[r] # NULL, pc[r] = "commit" \/ tx[r].sent,
         Apply(r), EndTx(r), UNCHANGED <<locals, resp, conns>>,
         \/ pc[r] = "commit" /\ pc' = [pc EXCEPT ![r] = "ack"]
         \/ pc[r] \in {"done", "crashed"} /\ pc' = pc
  PROVE  Inv'
<1>1. /\ tx' = [tx EXCEPT ![r] = NULL]
      /\ UNCHANGED <<call, at, inserted, rec, resp, conns>>
      /\ pc' \in [Requests -> PCs] /\ \A q \in Requests \ {r} : pc'[q] = pc[q]
      /\ pc'[r] \in {"ack", "done", "crashed"}
      /\ pc'[r] = "ack" => pc[r] = "commit"
      /\ pc'[r] # "ack" => pc'[r] = pc[r]
  BY DEF EndTx, locals, Inv, TypeOK, PCs, InFlight, HoldsConn
<1>2. \A q \in Requests : /\ Key(q)' = Key(q) /\ (Keyed(q)' <=> Keyed(q))
                          /\ call[q] \in Calls /\ Keyed(q) => Key(q) \in Keys
  BY <1>1, KeyType DEF Keyed, Key, TrimSpace
<1>3. \A k \in Keys : idempotency_keys[k] # NULL =>
                        idempotency_keys'[k] = idempotency_keys[k]
  BY ApplyGrows DEF Inv, TypeOK
<1>4. TypeOK'
  BY <1>1, ApplyGrows DEF Inv, TypeOK
<1>5. CallInv'
  BY <1>1 DEF Inv, TypeOK, CallInv, Creating, Unsaved, InTx, Keyed, Key, TrimSpace
<1>6. TxInv'
  <2>1. TxOK(r)'
    BY <1>1 DEF Inv, TypeOK, TxOK, InTx
  <2>2. ASSUME NEW q \in Requests \ {r} PROVE TxOK(q)'
    <3>1. /\ pc'[q] = pc[q] /\ tx'[q] = tx[q] /\ TxOK(q) /\ call' = call
          /\ inserted' = inserted /\ account_links'[q] = account_links[q]
      BY <1>1, ApplyGrows DEF Inv, TypeOK, TxInv
    <3>2. tx[q] # NULL /\ Keyed(q) /\ idempotency_keys[Key(q)] # NULL =>
            idempotency_keys'[Key(q)] # NULL
      BY <1>2, <1>3, <3>1 DEF TxOK
    <3>3. QED
      BY <3>1, <3>2 DEF TxOK, IdempotencyRecord, Keyed, Key, TrimSpace
  <2>3. QED
    BY <2>1, <2>2 DEF TxInv
<1>7. PendingInv'
  <2>1. tx'[r] = NULL /\ \A q \in Requests \ {r} : tx'[q] = tx[q]
    BY <1>1 DEF Inv, TypeOK
  <2>2. ASSUME NEW q \in Requests, tx'[q] # NULL, tx'[q].rec # NULL
        PROVE  idempotency_keys'[Key(q)] = NULL /\ ~ KeyPending(q)'
    <3>1. /\ q # r /\ tx[q] # NULL /\ tx[q].rec # NULL
          /\ idempotency_keys[Key(q)] = NULL /\ ~ KeyPending(q)
      BY <2>1, <2>2 DEF Inv, PendingInv
    <3>2. ~ KeyPending(q)'
      BY <1>2, <2>1, <3>1 DEF KeyPending
    <3>3. tx[r].event # NULL /\ Keyed(r) => Key(q) # Key(r)
      BY <3>1, ApplyGrows DEF KeyPending
    <3>4. Key(q) \in Keys
      BY <1>2, <3>1 DEF Inv, TxInv, TxOK
    <3>5. QED
      BY <3>1, <3>2, <3>3, <3>4, ApplyGrows DEF Inv, TypeOK
  <2>3. QED
    BY <1>2, <2>2 DEF PendingInv
<1>8. KeyInv'
  <2>1. ASSUME NEW k \in Keys, idempotency_keys'[k] # NULL
        PROVE  \E id \in Requests :
                 /\ id = idempotency_keys'[k].account_link_id
                 /\ outbox_events'[id] # NULL /\ Key(id) = k
                 /\ idempotency_keys'[k].request_hash = RequestHash(call[id])
    <3>1. CASE tx[r].event # NULL /\ Keyed(r) /\ k = Key(r)
      <4>1. idempotency_keys'[k] = IdempotencyRecord(r)
        BY <3>1, ApplyGrows DEF Inv, TypeOK
      <4>2. QED
        BY <3>1, <4>1, ApplyGrows DEF IdempotencyRecord
    <3>2. CASE ~ (tx[r].event # NULL /\ Keyed(r) /\ k = Key(r))
      <4>1. idempotency_keys'[k] = idempotency_keys[k]
        BY <3>2, ApplyGrows DEF Inv, TypeOK
      <4>2. idempotency_keys[k] \in Row
        BY <2>1, <4>1 DEF Inv, TypeOK
      <4>3. PICK id \in Requests :
              /\ id = idempotency_keys[k].account_link_id
              /\ outbox_events[id] # NULL /\ Key(id) = k
              /\ idempotency_keys[k].request_hash = RequestHash(call[id])
        BY <2>1, <4>1, <4>2 DEF Inv, KeyInv, Row
      <4>4. outbox_events'[id] # NULL
        BY <4>3, ApplyGrows
      <4>5. QED
        BY <4>1, <4>3, <4>4
    <3>3. QED
      BY <3>1, <3>2
  <2>2. QED
    BY <1>1, <2>1 DEF KeyInv, Key, TrimSpace
<1>9. LinkInv'
  <2>1. ASSUME NEW q \in Requests \ {r}
        PROVE  /\ account_links'[q] = account_links[q] /\ pc'[q] = pc[q]
               /\ outbox_events'[q] = outbox_events[q] /\ call'[q] = call[q]
               /\ call[q] \in Calls /\ Keyed(q) /\ idempotency_keys[Key(q)] # NULL =>
                    idempotency_keys'[Key(q)] = idempotency_keys[Key(q)]
    BY <1>1, <1>2, <1>3, ApplyGrows DEF Inv, TypeOK
  <2>2. tx[r].event # NULL /\ Keyed(r) =>
          /\ idempotency_keys'[Key(r)] # NULL
          /\ idempotency_keys'[Key(r)].account_link_id = r
    BY <1>2, ApplyGrows, CallValues DEF Inv, TypeOK, IdempotencyRecord
  <2>3. QED
    BY <1>1, <1>2, <2>1, <2>2, ApplyGrows, CallValues
       DEF Inv, LinkInv, Unsaved, InTx
<1>10. ReplayInv'
  <2>1. ASSUME NEW q \in Requests \ {r}, pc[q] \in {"refind_key", "find_link"}
        PROVE  Key(q) \in Keys
    BY <1>2, <2>1 DEF Inv, CallInv, Creating
  <2>2. pc'[r] = "ack" => (inserted[r] <=> tx[r].event # NULL)
    BY <1>1 DEF Inv, TxInv, TxOK
  <2>3. QED
    BY <1>1, <1>2, <1>3, <2>1, <2>2, ApplyGrows, CallValues DEF Inv, TypeOK, ReplayInv
<1>11. RespInv'
  <2>1. ASSUME NEW q \in Requests, resp[q] # NULL PROVE AnswerOK(q, resp[q])'
    <3>1. AnswerOK(q, resp[q])
      BY <2>1 DEF Inv, RespInv
    <3>2. \A id \in Requests : account_links[id] # NULL => account_links'[id] # NULL
      BY ApplyGrows, CallValues
    <3>3. outbox_events[q] # NULL => outbox_events'[q] # NULL
      BY ApplyGrows
    <3>4. call[q] \in Calls /\ Keyed(q) /\ idempotency_keys[Key(q)] # NULL =>
            idempotency_keys'[Key(q)] = idempotency_keys[Key(q)]
      BY <1>2, <1>3
    <3>5. resp' = resp /\ call' = call
      BY <1>1
    <3>6. QED
      BY <3>1, <3>2, <3>3, <3>4, <3>5 DEF AnswerOK, Keyed, Key, TrimSpace
  <2>2. QED
    BY <1>1, <2>1 DEF RespInv
<1>12. PoolInv'
  <2>1. CASE pc' = pc
    BY <1>1, <2>1 DEF Inv, PoolInv, Holders
  <2>2. CASE pc[r] = "commit" /\ pc' = [pc EXCEPT ![r] = "ack"]
    BY <1>1, <2>2, PoolKept DEF Inv, HoldsConn, InTx
  <2>3. QED
    BY <2>1, <2>2
<1>13. QED
  BY <1>4, <1>5, <1>6, <1>7, <1>8, <1>9, <1>10, <1>11, <1>12 DEF Inv

\* COMMIT of a live request.
LEMMA CommitInv ==
  ASSUME Inv, NEW r \in Requests, Commit(r)
  PROVE  Inv'
<1>1. tx[r] # NULL
  BY DEF Commit, Inv, TxInv, TxOK, InTx
<1>2. QED
  BY <1>1, ApplyInv DEF Commit, Goto

\* The end of an abandoned transaction, rolled back or committed late.
LEMMA ReapInv ==
  ASSUME Inv, NEW r \in Requests, Reap(r)
  PROVE  Inv'
<1>1. CASE tx[r].sent /\ Apply(r)
  BY <1>1, ApplyInv DEF Reap
<1>2. CASE UNCHANGED tables
  <2>1. /\ tx' = [tx EXCEPT ![r] = NULL] /\ pc[r] \in {"done", "crashed"}
        /\ UNCHANGED <<account_links, idempotency_keys, outbox_events>>
        /\ UNCHANGED <<pc, call, at, inserted, rec, resp, conns>>
    BY <1>2 DEF Reap, EndTx, tables, locals
  <2>2. TypeOK' /\ CallInv'
    BY <2>1 DEF Inv, TypeOK, CallInv, Keyed, Key, TrimSpace
  <2>3. TxInv'
    <3>1. TxOK(r)'
      BY <2>1 DEF Inv, TypeOK, TxOK, InTx
    <3>2. \A q \in Requests \ {r} : TxOK(q)'
      BY <2>1, FrameTx DEF Inv, TypeOK, TxInv
    <3>3. QED
      BY <3>1, <3>2 DEF TxInv
  <2>4. PendingInv'
    BY <2>1, FramePending DEF Inv, TypeOK
  <2>5. KeyInv' /\ RespInv'
    BY <2>1, FrameKeys, FrameResp DEF Inv, tables
  <2>6. LinkInv' /\ ReplayInv' /\ PoolInv'
    BY <2>1 DEF Inv, LinkInv, ReplayInv, PoolInv, Holders, Keyed, Key, TrimSpace
  <2>7. QED
    BY <2>2, <2>3, <2>4, <2>5, <2>6 DEF Inv
<1>3. QED
  BY <1>1, <1>2 DEF Reap

\* tx.Commit returns: the winner answers 201, the loser reads the key again.
LEMMA AckInv ==
  ASSUME Inv, NEW r \in Requests, Ack(r)
  PROVE  Inv'
<1>1. /\ pc[r] = "ack" /\ Release(r) /\ UNCHANGED <<tables, locals, tx>>
      /\ at[r] \in Instances /\ call[r] \in Calls /\ UNCHANGED at
  BY DEF Ack, Inv, CallInv, Creating, locals
<1>2. CASE inserted[r]
  <2>1. PoolInv' /\ conns' \in [Instances -> 0..MaxConns]
    BY <1>1, <1>2, PoolGiven DEF Ack, Reply, Inv, HoldsConn, InTx
  <2>2. AnswerOK(r, Found("Created", r))
    BY <1>1, <1>2 DEF AnswerOK, Found, Inv, ReplayInv
  <2>3. tx' = [tx EXCEPT ![r] = Abandoned(r)]
    BY <1>1 DEF Inv, TypeOK, Abandoned
  <2>4. QED
    BY <1>1, <1>2, <2>1, <2>2, <2>3, Answering, Responses DEF Ack, InFlight, HoldsConn
<1>3. CASE ~ inserted[r]
  <2>1. /\ pc' = [pc EXCEPT ![r] = "refind_key"]
        /\ UNCHANGED <<call, inserted, rec, resp>>
        /\ UNCHANGED <<account_links, idempotency_keys, outbox_events>>
    BY <1>1, <1>3 DEF Ack, Goto, tables, locals
  <2>2. outbox_events[r] = NULL /\ Keyed(r) /\ idempotency_keys[Key(r)] # NULL
    BY <1>1, <1>3 DEF Inv, ReplayInv, LinkInv
  <2>3. PoolInv' /\ conns' \in [Instances -> 0..MaxConns]
    BY <1>1, <2>1, PoolGiven DEF Inv, HoldsConn, InTx
  <2>4. TypeOK'
    BY <1>1, <2>1, <2>3 DEF Inv, TypeOK, PCs, InFlight, Reading
  <2>5. CallInv'
    BY <1>1, <2>1, <2>2 DEF Inv, TypeOK, CallInv, Creating, Unsaved, Keyed, Key, TrimSpace
  <2>6. TxInv' /\ PendingInv'
    BY <1>1, <2>1 DEF Inv, TypeOK, TxInv, TxOK, InTx, Keyed, Key, TrimSpace,
                      IdempotencyRecord, PendingInv, KeyPending
  <2>7. KeyInv' /\ RespInv'
    BY <2>1, FrameKeys, FrameResp DEF Inv, tables
  <2>8. LinkInv'
    BY <1>1, <2>1 DEF Inv, TypeOK, LinkInv, Unsaved, InTx, Keyed, Key, TrimSpace
  <2>9. ReplayInv'
    BY <1>1, <2>1, <2>2 DEF Inv, TypeOK, ReplayInv, Key, TrimSpace
  <2>10. QED
    BY <2>3, <2>4, <2>5, <2>6, <2>7, <2>8, <2>9 DEF Inv
<1>4. QED
  BY <1>2, <1>3

-----------------------------------------------------------------------------
(* Arrivals and crashes                                                     *)

\* A new request r with call c is refused at once or goes to its first read.
LEMMA Arriving ==
  ASSUME Inv, NEW r \in Requests, NEW i \in Instances, NEW c \in Calls \cup GetCalls,
         NEW l \in {"done", "find_key", "begin", "get"}, pc[r] = "new",
         NEW a \in Response \cup {NULL},
         a # NULL => l = "done" /\ a = Problem("BadRequest", "bad request"),
         l \in {"find_key", "begin"} => c \in Calls /\ ~ BadRequest(c),
         l = "find_key" => TrimSpace(c.key) # NoKey,
         l = "get" => c \in GetCalls /\ c.id \in Requests,
         pc' = [pc EXCEPT ![r] = l], call' = [call EXCEPT ![r] = c],
         at' = [at EXCEPT ![r] = i], resp' = [resp EXCEPT ![r] = a],
         UNCHANGED <<tables, tx, inserted, rec, conns>>
  PROVE  Inv'
<1>1. /\ UNCHANGED <<account_links, idempotency_keys, outbox_events>>
      /\ UNCHANGED <<tx, inserted, rec, conns>>
  BY DEF tables
<1>2. \A q \in Requests \ {r} :
        /\ pc'[q] = pc[q] /\ call'[q] = call[q] /\ at'[q] = at[q]
        /\ resp'[q] = resp[q] /\ Key(q)' = Key(q) /\ (Keyed(q)' <=> Keyed(q))
  BY DEF Inv, TypeOK, Keyed, Key, TrimSpace
<1>3. /\ pc'[r] = l /\ call'[r] = c /\ at'[r] = i /\ resp'[r] = a
      /\ tx[r] = NULL /\ account_links[r] = NULL /\ outbox_events[r] = NULL
  <2>1. tx[r] = NULL
    BY DEF Inv, TxInv, TxOK, InTx
  <2>2. QED
    BY <2>1 DEF Inv, TypeOK, LinkInv
<1>4. TypeOK'
  BY <1>1 DEF Inv, TypeOK, PCs, InFlight, Reading
<1>5. CallInv'
  BY <1>2, <1>3, ZenonT(60) DEF Inv, CallInv, Creating, Unsaved, InTx, Keyed, Key, TrimSpace
<1>6. TxInv'
  <2>1. TxOK(r)'
    BY <1>1, <1>3 DEF TxOK, InTx
  <2>2. \A q \in Requests \ {r} : TxOK(q)'
    BY <1>1, <1>2, FrameTx DEF Inv, TxInv
  <2>3. QED
    BY <2>1, <2>2 DEF TxInv
<1>7. PendingInv'
  <2>1. ASSUME NEW q \in Requests, tx[q] # NULL, tx[q].rec # NULL
        PROVE  idempotency_keys[Key(q)'] = NULL /\ ~ KeyPending(q)'
    <3>1. q # r /\ Key(q)' = Key(q)
      BY <1>2, <1>3, <2>1
    <3>2. idempotency_keys[Key(q)] = NULL /\ ~ KeyPending(q)
      BY <2>1 DEF Inv, PendingInv
    <3>3. \A p \in Requests : tx[p] # NULL => Key(p)' = Key(p)
      BY <1>2, <1>3
    <3>4. ~ KeyPending(q)'
      BY <1>1, <3>1, <3>2, <3>3 DEF KeyPending
    <3>5. QED
      BY <3>1, <3>2, <3>4
  <2>2. QED
    BY <1>1, <2>1 DEF PendingInv
<1>8. KeyInv'
  <2>1. ASSUME NEW k \in Keys, idempotency_keys[k] # NULL
        PROVE  idempotency_keys[k].account_link_id \in Requests \ {r}
    BY <1>3, <2>1 DEF Inv, TypeOK, KeyInv, Row
  <2>2. QED
    <3>1. SUFFICES ASSUME NEW k \in Keys, idempotency_keys[k] # NULL,
                          NEW id, id = idempotency_keys[k].account_link_id
                   PROVE  /\ outbox_events[id] # NULL /\ Key(id)' = k
                          /\ idempotency_keys[k].request_hash = RequestHash(call'[id])
      BY <1>1 DEF KeyInv
    <3>2. /\ outbox_events[id] # NULL /\ Key(id) = k
          /\ idempotency_keys[k].request_hash = RequestHash(call[id])
      BY <3>1 DEF Inv, KeyInv
    <3>3. id \in Requests \ {r}
      BY <2>1, <3>1
    <3>4. QED
      BY <1>2, <3>2, <3>3
<1>9. LinkInv'
  <2>1. ASSUME NEW q \in Requests, account_links[q] # NULL \/ outbox_events[q] # NULL
        PROVE  q # r
    BY <1>3, <2>1
  <2>2. ASSUME NEW q \in Requests, account_links'[q] # NULL
        PROVE  /\ pc'[q] \notin Unsaved \cup {"new", "get"}
               /\ call'[q] \in Calls
               /\ account_links'[q] = NewAccountLink(call'[q])
               /\ outbox_events'[q] = NULL => Keyed(q)' /\ idempotency_keys'[Key(q)'] # NULL
    <3>1. pc'[q] = pc[q] /\ call'[q] = call[q] /\ (Keyed(q)' <=> Keyed(q)) /\ Key(q)' = Key(q)
      BY <1>1, <1>2, <2>1, <2>2
    <3>2. QED
      BY <1>1, <2>2, <3>1 DEF Inv, LinkInv
  <2>3. ASSUME NEW q \in Requests, outbox_events'[q] # NULL
        PROVE  /\ account_links'[q] # NULL
               /\ outbox_events'[q].aggregate_id = q
               /\ outbox_events'[q].payload = account_links'[q]
               /\ Keyed(q)' => /\ idempotency_keys'[Key(q)'] # NULL
                               /\ idempotency_keys'[Key(q)'].account_link_id = q
    <3>1. (Keyed(q)' <=> Keyed(q)) /\ Key(q)' = Key(q)
      BY <1>1, <1>2, <2>1, <2>3
    <3>2. QED
      BY <1>1, <2>3, <3>1 DEF Inv, LinkInv
  <2>4. QED
    BY <2>2, <2>3 DEF LinkInv
<1>10. ReplayInv'
  <2>1. pc'[r] \notin {"ack", "refind_key", "find_link"}
    BY <1>3
  <2>2. ASSUME NEW q \in Requests, pc'[q] \in {"ack", "refind_key", "find_link"}
        PROVE  pc'[q] = pc[q] /\ call'[q] = call[q] /\ Key(q)' = Key(q)
    BY <1>2, <2>1, <2>2
  <2>3. QED
    BY <1>1, <2>2 DEF Inv, ReplayInv
<1>11. RespInv'
  <2>1. ASSUME NEW q \in Requests \ {r}, resp[q] # NULL PROVE AnswerOK(q, resp[q])'
    <3>1. AnswerOK(q, resp[q])
      BY <2>1 DEF Inv, RespInv
    <3>2. QED
      BY <1>1, <1>2, <3>1 DEF AnswerOK, Keyed, Key, TrimSpace
  <2>2. a # NULL => AnswerOK(r, resp[r])'
    <3>1. a # NULL => a.status = "BadRequest" /\ a.detail = "bad request"
      BY RefusedFields
    <3>2. QED
      BY <1>3, <3>1 DEF AnswerOK
  <2>3. QED
    BY <1>2, <1>3, <2>1, <2>2 DEF RespInv
<1>12. PoolInv'
  BY PoolKept DEF Inv, HoldsConn, InTx
<1>13. QED
  BY <1>4, <1>5, <1>6, <1>7, <1>8, <1>9, <1>10, <1>11, <1>12 DEF Inv

\* The handlers hand the service sound calls only.
LEMMA ArriveInv ==
  ASSUME Inv, NEW r \in Requests, NEW i \in Instances, Arrive(r, i)
  PROVE  Inv'
<1>1. pc[r] = "new" => resp = [resp EXCEPT ![r] = NULL]
  BY DEF Inv, TypeOK, CallInv
<1>2. CASE CreateAccountLink(r, i)
  <2>1. PICK c \in Calls :
          /\ call' = [call EXCEPT ![r] = c]
          /\ \/ BadRequest(c) /\ Reply(r, Problem("BadRequest", "bad request"))
             \/ /\ ~ BadRequest(c)
                /\ Goto(r, IF TrimSpace(c.key) = NoKey THEN "begin" ELSE "find_key")
                /\ UNCHANGED resp
    BY <1>2 DEF CreateAccountLink
  <2>2. CASE BadRequest(c)
    BY <1>2, <2>1, <2>2, Arriving, Responses DEF CreateAccountLink, Reply
  <2>3. CASE ~ BadRequest(c)
    BY <1>1, <1>2, <2>1, <2>3, Arriving DEF CreateAccountLink, Goto
  <2>4. QED
    BY <2>2, <2>3
<1>3. CASE GetAccountLink(r, i)
  <2>1. PICK id \in Requests \cup {BadID} :
          /\ call' = [call EXCEPT ![r] = [op |-> "get", id |-> id]]
          /\ \/ id = BadID /\ Reply(r, Problem("BadRequest", "bad request"))
             \/ id # BadID /\ Goto(r, "get") /\ UNCHANGED resp
    BY <1>3 DEF GetAccountLink
  <2>2. PICK c \in GetCalls : c = [op |-> "get", id |-> id] /\ c.id = id
    <3>1. /\ [op |-> "get", id |-> id] \in GetCalls
          /\ [op |-> "get", id |-> id].id = id
      BY DEF GetCalls
    <3>2. QED
      BY <3>1
  <2>3. CASE id = BadID
    BY <1>3, <2>1, <2>2, <2>3, Arriving, Responses DEF GetAccountLink, Reply
  <2>4. CASE id # BadID
    BY <1>1, <1>3, <2>1, <2>2, <2>4, Arriving DEF GetAccountLink, Goto
  <2>5. QED
    BY <2>3, <2>4
<1>4. QED
  BY <1>2, <1>3 DEF Arrive

\* The death of a process.
LEMMA CrashInv ==
  ASSUME Inv, NEW i \in Instances, Crash(i)
  PROVE  Inv'
<1> DEFINE hit == {r \in Requests : at[r] = i /\ pc[r] \in InFlight}
<1>1. /\ pc' = [r \in Requests |-> IF r \in hit THEN "crashed" ELSE pc[r]]
      /\ tx' = [r \in Requests |-> IF r \in hit THEN Abandoned(r) ELSE tx[r]]
      /\ conns' = [conns EXCEPT ![i] = MaxConns]
      /\ UNCHANGED <<account_links, idempotency_keys, outbox_events>>
      /\ UNCHANGED <<call, at, inserted, rec, resp>>
  BY DEF Crash, tables, locals
<1>2. \A r \in Requests : Key(r)' = Key(r) /\ (Keyed(r)' <=> Keyed(r))
  BY <1>1 DEF Keyed, Key, TrimSpace
<1>3. ASSUME NEW q \in Requests
      PROVE  /\ TxOK(q)' /\ tx'[q] \in Tx \cup {NULL}
             /\ tx'[q] # NULL /\ tx'[q].rec # NULL => tx[q] # NULL /\ tx[q].rec # NULL
  <2>1. CASE q \in hit
    BY <1>1, <2>1, AbandonedOK
  <2>2. CASE q \notin hit
    BY <1>1, <2>2, FrameTx DEF Inv, TypeOK, TxInv
  <2>3. QED
    BY <2>1, <2>2
<1>4. TypeOK'
  BY <1>1, <1>3, ConnsAssumption DEF Inv, TypeOK, PCs
<1>5. CallInv'
  BY <1>1, <1>2 DEF Inv, CallInv, Creating, Unsaved, InTx, InFlight, Reading, HoldsConn
<1>6. TxInv'
  BY <1>3 DEF TxInv
<1>7. PendingInv'
  BY <1>1, <1>3, FramePending DEF Inv
<1>8. KeyInv' /\ RespInv'
  BY <1>1, FrameKeys, FrameResp DEF Inv, tables
<1>9. LinkInv' /\ ReplayInv'
  BY <1>1, <1>2 DEF Inv, LinkInv, ReplayInv, Unsaved, InTx
<1>10. PoolInv'
  <2>1. Holders(i)' = {}
    BY <1>1 DEF Holders, InFlight, HoldsConn, InTx
  <2>2. \A j \in Instances \ {i} : Holders(j)' = Holders(j) /\ conns'[j] = conns[j]
    BY <1>1 DEF Holders, HoldsConn, InTx, InFlight, Inv, TypeOK
  <2>3. conns'[i] = MaxConns
    BY <1>1 DEF Inv, TypeOK
  <2>4. IsFiniteSet({}) /\ Cardinality({}) = 0
    BY FS_EmptySet
  <2>5. QED
    BY <2>1, <2>2, <2>3, <2>4, ConnsAssumption DEF Inv, PoolInv
<1>11. QED
  BY <1>4, <1>5, <1>6, <1>7, <1>8, <1>9, <1>10 DEF Inv

-----------------------------------------------------------------------------
(* The invariant                                                            *)

\* The empty database with idle servers.
LEMMA InitInv ==
  ASSUME Init
  PROVE  Inv
<1>1. TypeOK
  BY ConnsAssumption DEF Init, TypeOK, PCs
<1>2. CallInv /\ LinkInv /\ ReplayInv
  BY DEF Init, CallInv, LinkInv, ReplayInv, Creating, Unsaved, InTx
<1>3. TxInv /\ PendingInv /\ KeyInv /\ RespInv
  BY DEF Init, TxInv, TxOK, PendingInv, KeyInv, RespInv, InTx
<1>4. PoolInv
  <2>1. \A i \in Instances : Holders(i) = {} /\ conns[i] = MaxConns
    BY DEF Init, Holders, HoldsConn, InTx
  <2>2. QED
    BY <2>1, FS_EmptySet, ConnsAssumption DEF PoolInv
<1>5. QED
  BY <1>1, <1>2, <1>3, <1>4 DEF Inv

\* Inv reads nothing but vars.
LEMMA StutterInv ==
  ASSUME Inv, UNCHANGED vars
  PROVE  Inv'
<1>1. /\ UNCHANGED <<account_links, idempotency_keys, outbox_events>>
      /\ UNCHANGED <<pc, call, at, tx, inserted, rec, resp, conns>>
  BY DEF vars, tables
<1>2. TypeOK' /\ CallInv' /\ TxInv'
  BY <1>1 DEF Inv, TypeOK, CallInv, TxInv, TxOK, Keyed, Key, TrimSpace, IdempotencyRecord
<1>3. PendingInv' /\ LinkInv' /\ ReplayInv'
  BY <1>1 DEF Inv, PendingInv, KeyPending, LinkInv, ReplayInv, Keyed, Key, TrimSpace
<1>4. KeyInv' /\ RespInv'
  BY <1>1, FrameKeys, FrameResp DEF Inv, tables
<1>5. PoolInv'
  BY <1>1 DEF Inv, PoolInv, Holders
<1>6. QED
  BY <1>2, <1>3, <1>4, <1>5 DEF Inv

\* Every step of every request, failure and crash keeps Inv.
LEMMA NextInv ==
  ASSUME Inv, [Next]_vars
  PROVE  Inv'
<1>1. ASSUME NEW r \in Requests, NEW i \in Instances, Arrive(r, i) PROVE Inv'
  BY <1>1, ArriveInv
<1>2. ASSUME NEW r \in Requests, Serve(r) PROVE Inv'
  BY <1>2, FindByKeyInv, BeginInv, SaveInv, TryInsertInv, AddOutboxInv, CommitInv,
     AckInv, FindByKeyAgainInv, FindReplayedInv, GetByIDInv DEF Serve
<1>3. ASSUME NEW r \in Requests, Fail(r) \/ Reap(r) PROVE Inv'
  BY <1>3, FailInv, ReapInv
<1>4. ASSUME NEW i \in Instances, Crash(i) PROVE Inv'
  BY <1>4, CrashInv
<1>5. CASE UNCHANGED vars
  BY <1>5, StutterInv
<1>6. QED
  BY <1>1, <1>2, <1>3, <1>4, <1>5 DEF Next

\* The transactions, tables, locals and answers of Create and GetByID agree in
\* every reachable state, for any number of requests, instances, connections
\* and keys, and through any sequence of failures and crashes.
THEOREM Invariance == Spec => []Inv
<1>1. Init => Inv
  BY InitInv
<1>2. Inv /\ [Next]_vars => Inv'
  BY NextInv
<1>3. QED
  BY <1>1, <1>2, PTL DEF Spec

-----------------------------------------------------------------------------
(* What follows from it                                                     *)

\* Every variable keeps its type; in particular no pool hands out or takes back
\* more connections than it has.
THEOREM TypeCorrect == Spec => []TypeOK
<1>1. Inv => TypeOK
  BY DEF Inv
<1>2. QED
  BY <1>1, Invariance, PTL

\* A successful answer to a create with key k names the link k is bound to.
LEMMA SuccessIsBound ==
  ASSUME Inv, NEW k \in Keys, NEW r \in Requests, CreateOf(r, k), Succeeded(r)
  PROVE  resp[r].link = idempotency_keys[k].account_link_id
<1>1. call[r] \in Calls /\ Key(r) = k /\ Keyed(r)
  BY CallKinds, CallsAssumption DEF Inv, CallInv, CreateOf, Keyed
<1>2. AnswerOK(r, resp[r]) /\ resp[r].status \in {"OK", "Created"}
  BY DEF Inv, RespInv, Succeeded, Answered
<1>3. QED
  BY <1>1, <1>2 DEF AnswerOK, Inv, LinkInv

\* Idempotent create, for every number of concurrent retries: all successful
\* answers to POSTs with one Idempotency-Key name the same account link.
THEOREM OneLinkPerKeyAlways == Spec => []OneLinkPerKey
<1>1. Inv => OneLinkPerKey
  BY SuccessIsBound DEF OneLinkPerKey
<1>2. QED
  BY <1>1, Invariance, PTL

\* No answer rests on an uncommitted row or on the link of a lost race: a link
\* that was answered is committed, with its event when a POST answered it.
THEOREM AcknowledgedIsDurableAlways == Spec => []AcknowledgedIsDurable
<1>1. ASSUME Inv, NEW r \in Requests, Succeeded(r)
      PROVE  LET id == resp[r].link IN
             /\ account_links[id] # NULL
             /\ call[r].op = "create" => /\ outbox_events[id] # NULL
                                         /\ outbox_events[id].aggregate_id = id
                                         /\ outbox_events[id].payload = account_links[id]
  <2>1. AnswerOK(r, resp[r]) /\ resp[r].status \in {"OK", "Created"}
    BY <1>1 DEF Inv, RespInv, Succeeded, Answered
  <2>2. resp[r].link \in Requests /\ account_links[resp[r].link] # NULL
    BY <1>1, <2>1 DEF AnswerOK, Inv, LinkInv
  <2>3. ASSUME call[r].op = "create" PROVE outbox_events[resp[r].link] # NULL
    <3>1. call[r] \in Calls
      BY <1>1, <2>3, CallKinds DEF Inv, CallInv, Succeeded, Answered
    <3>2. CASE resp[r].status = "Created"
      BY <2>1, <3>2 DEF AnswerOK
    <3>3. CASE resp[r].status = "OK"
      <4>1. /\ Key(r) \in Keys /\ idempotency_keys[Key(r)] # NULL
            /\ resp[r].link = idempotency_keys[Key(r)].account_link_id
        BY <2>1, <3>1, <3>3, KeyType DEF AnswerOK, Keyed
      <4>2. QED
        BY <1>1, <4>1 DEF Inv, KeyInv
    <3>4. QED
      BY <2>1, <3>2, <3>3
  <2>4. QED
    BY <1>1, <2>2, <2>3 DEF Inv, LinkInv
<1>2. Inv => AcknowledgedIsDurable
  BY <1>1 DEF AcknowledgedIsDurable
<1>3. QED
  BY <1>2, Invariance, PTL

\* Retries of one key never put two events in the outbox.
THEOREM OneEventPerKeyAlways == Spec => []OneEventPerKey
<1>1. ASSUME Inv, NEW k \in Keys, NEW r \in Requests, CreateOf(r, k),
             outbox_events[r] # NULL
      PROVE  r = idempotency_keys[k].account_link_id
  BY <1>1, CallsAssumption DEF Inv, LinkInv, CreateOf, Keyed
<1>2. Inv => OneEventPerKey
  BY <1>1 DEF OneEventPerKey
<1>3. QED
  BY <1>2, Invariance, PTL

\* A link is committed without an event only by a request that lost its key to
\* another link.
THEOREM OrphanOnlyFromLostRaceAlways == Spec => []OrphanOnlyFromLostRace
<1>1. ASSUME Inv, NEW r \in Requests, account_links[r] # NULL, outbox_events[r] = NULL
      PROVE  /\ Key(r) # NoKey
             /\ idempotency_keys[Key(r)] # NULL
             /\ idempotency_keys[Key(r)].account_link_id # r
  <2>1. Keyed(r) /\ idempotency_keys[Key(r)] # NULL /\ Key(r) \in Keys
    BY <1>1, KeyType DEF Inv, LinkInv, Keyed
  <2>2. QED
    BY <1>1, <2>1 DEF Inv, KeyInv, Keyed
<1>2. Inv => OrphanOnlyFromLostRace
  BY <1>1 DEF OrphanOnlyFromLostRace
<1>3. QED
  BY <1>2, Invariance, PTL

\* A 409 is never the answer to a faithful retry: the key is bound to a link
\* made from another trimmed payload.
THEOREM ConflictMeansOtherPayloadAlways == Spec => []ConflictMeansOtherPayload
<1>1. ASSUME Inv, NEW r \in Requests, Answered(r, "Conflict")
      PROVE  /\ idempotency_keys[Key(r)] # NULL
             /\ account_links[idempotency_keys[Key(r)].account_link_id]
                  # NewAccountLink(call[r])
  <2>1. /\ call[r] \in Calls /\ Key(r) \in Keys /\ idempotency_keys[Key(r)] # NULL
        /\ idempotency_keys[Key(r)].request_hash # RequestHash(call[r])
    BY <1>1, KeyType DEF Inv, RespInv, Answered, AnswerOK, Keyed
  <2>2. PICK id \in Requests :
          /\ id = idempotency_keys[Key(r)].account_link_id
          /\ account_links[id] = NewAccountLink(call[id])
          /\ idempotency_keys[Key(r)].request_hash = RequestHash(call[id])
    BY <1>1, <2>1 DEF Inv, TypeOK, Row, KeyInv, LinkInv
  <2>3. QED
    BY <2>1, <2>2, SamePayloadSameHash
<1>2. Inv => ConflictMeansOtherPayload
  BY <1>1 DEF ConflictMeansOtherPayload
<1>3. QED
  BY <1>2, Invariance, PTL

\* The two errors that Create and replay guard against never happen.
THEOREM NoImpossibleErrorAlways == Spec => []NoImpossibleError
<1>1. Inv => NoImpossibleError
  BY DEF Inv, RespInv, AnswerOK, NoImpossibleError
<1>2. QED
  BY <1>1, Invariance, PTL

\* No path of Create, no failure and no crash leaks a connection.
THEOREM PoolConservedAlways == Spec => []PoolConserved
<1>1. Inv => PoolConserved
  BY DEF Inv, PoolInv, PoolConserved
<1>2. QED
  BY <1>1, Invariance, PTL

-----------------------------------------------------------------------------
(* What is committed or answered stays so                                   *)

\* A step binds no bound key again, changes no committed link or event, and answers
\* no request a second time.
Final ==
  /\ \A k \in Keys :
       idempotency_keys[k] # NULL => idempotency_keys'[k] = idempotency_keys[k]
  /\ \A r \in Requests :
       /\ account_links[r] # NULL => account_links'[r] = account_links[r]
       /\ outbox_events[r] # NULL => outbox_events'[r] = outbox_events[r]
       /\ resp[r] # NULL => resp'[r] = resp[r]

\* The COMMIT of a create, on time or late, writes only rows that are not there.
LEMMA ApplyFinal ==
  ASSUME Inv, NEW r \in Requests, tx[r] # NULL, Apply(r), UNCHANGED resp
  PROVE  Final
<1>1. account_links[r] = NULL /\ outbox_events[r] = NULL
  BY DEF Inv, TxInv, TxOK, LinkInv
<1>2. tx[r].rec # NULL => idempotency_keys[Key(r)] = NULL
  BY DEF Inv, PendingInv
<1>3. QED
  BY <1>1, <1>2 DEF Apply, Final, Inv, TypeOK

\* A reply goes to a request that has none.
LEMMA ReplyFinal ==
  ASSUME Inv, NEW r \in Requests, NEW a, pc[r] # "done", Reply(r, a) \/ UNCHANGED resp,
         UNCHANGED tables
  PROVE  Final
<1>1. resp[r] = NULL
  BY DEF Inv, CallInv
<1>2. QED
  BY <1>1 DEF Reply, Final, tables, Inv, TypeOK

\* One step per action.
LEMMA StepFinal ==
  ASSUME Inv, [Next]_vars
  PROVE  Final
<1>1. ASSUME NEW r \in Requests, NEW i \in Instances, Arrive(r, i) PROVE Final
  <2>1. pc[r] # "done" /\ UNCHANGED tables
    BY <1>1 DEF Arrive, CreateAccountLink, GetAccountLink
  <2>2. PICK a : Reply(r, a) \/ UNCHANGED resp
    BY <1>1 DEF Arrive, CreateAccountLink, GetAccountLink
  <2>3. QED
    BY <2>1, <2>2, ReplyFinal
<1>2. ASSUME NEW r \in Requests, Serve(r), ~ Commit(r) PROVE Final
  <2>1. pc[r] # "done" /\ UNCHANGED tables
    BY <1>2 DEF Serve, FindByKey, Begin, Save, TryInsert, AddOutbox, Ack, FindByKeyAgain,
       FindReplayed, GetByID
  <2>2. PICK a : Reply(r, a) \/ UNCHANGED resp
    BY <1>2 DEF Serve, FindByKey, Begin, Save, TryInsert, AddOutbox, Ack, FindByKeyAgain,
       FindReplayed, GetByID, Replay
  <2>3. QED
    BY <2>1, <2>2, ReplyFinal
<1>3. ASSUME NEW r \in Requests, Commit(r) PROVE Final
  BY <1>3, ApplyFinal DEF Commit, Inv, TxInv, TxOK, InTx
<1>4. ASSUME NEW r \in Requests, Fail(r) PROVE Final
  <2>1. pc[r] # "done" /\ UNCHANGED tables
    BY <1>4 DEF Fail, InFlight, Reading, HoldsConn, InTx
  <2>2. PICK a : Reply(r, a)
    BY <1>4 DEF Fail
  <2>3. QED
    BY <2>1, <2>2, ReplyFinal
<1>5. ASSUME NEW r \in Requests, Reap(r) PROVE Final
  BY <1>5, ApplyFinal DEF Reap, tables, Final
<1>6. ASSUME NEW i \in Instances, Crash(i) PROVE Final
  BY <1>6 DEF Crash, tables, Final
<1>7. CASE UNCHANGED vars
  BY <1>7 DEF vars, tables, Final
<1>8. QED
  BY <1>1, <1>2, <1>3, <1>4, <1>5, <1>6, <1>7 DEF Next, Serve

\* Nothing is taken back: no race, error, crash or late COMMIT changes a committed
\* row of the three tables or an answer that was given (accountlink_service.go:71-157,
\* idempotency_store.go:38-50).
THEOREM NothingTakenBack == Spec => [][Final]_vars
<1>1. Inv /\ [Next]_vars => [Final]_vars
  BY StepFinal
<1>2. QED
  BY <1>1, Invariance, PTL DEF Spec
=============================================================================
