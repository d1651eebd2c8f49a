----------------------- MODULE IdempotentCreateProofs -----------------------
(***************************************************************************)
(* AccountLinkService implements IdempotentCreate, for any number of       *)
(* requests, instances, keys and connections: each step of the code is,    *)
(* under the mapping of AccountLinkService, one step of the promise or     *)
(* none.  COMMIT, on time or late, is Create; the answers are Answers;     *)
(* everything else is invisible.                                           *)
(***************************************************************************)
EXTENDS AccountLinkServiceProofs

-----------------------------------------------------------------------------
(* The mapping                                                              *)

\* What the promise sees.
Bars == <<askedBar, idempotency_keys, announcedBar, answerBar>>

\* A request is seen by the promise when the service has begun a create for it.
LEMMA SeenCalls ==
  ASSUME Inv, NEW r \in Requests
  PROVE  /\ Seen(r) <=> call[r] \in Calls /\ ~ BadRequest(call[r])
         /\ pc[r] \in Creating => Seen(r)
         /\ pc[r] = "get" => ~ Seen(r)
<1>1. /\ pc[r] = "new" => call[r] = NULL
      /\ pc[r] # "new" => call[r] \in Calls \cup GetCalls
      /\ pc[r] \in Creating => call[r] \in Calls /\ ~ BadRequest(call[r])
      /\ pc[r] = "get" => call[r] \in GetCalls
  BY DEF Inv, CallInv
<1>2. pc[r] \in Creating => pc[r] # "new"
  BY DEF Creating, Unsaved, InTx
<1>3. QED
  BY <1>1, <1>2, CallKinds, CallValues DEF Seen

\* Its key and hash are what the promise asks for.
LEMMA SeenKeys ==
  ASSUME Inv, NEW r \in Requests, Seen(r)
  PROVE  /\ Key(r) \in Keys \cup {NoKey} /\ RequestHash(call[r]) \in Hashes
         /\ [key |-> Key(r), hash |-> RequestHash(call[r])] # NULL
<1>1. Key(r) \in Keys \cup {NoKey} /\ RequestHash(call[r]) \in Hashes
  BY SeenCalls, CallKinds, CallValues DEF Key, TrimSpace
<1>2. QED
  BY <1>1, NullAssumption

\* The four kinds of answers.
LEMMA Kinds ==
  /\ KindOf("Created") = "created" /\ KindOf("OK") = "replayed"
  /\ KindOf("Conflict") = "conflict" /\ KindOf("BadRequest") = "failed"
  /\ KindOf("NotFound") = "failed" /\ KindOf("InternalServerError") = "failed"
BY DEF KindOf

\* A step that changes no call, no key, no set of events and no answer is
\* invisible.
LEMMA Invisible ==
  ASSUME UNCHANGED <<call, idempotency_keys, resp>>,
         \A r \in Requests : (pc'[r] = "new" <=> pc[r] = "new"),
         \A r \in Requests : (outbox_events'[r] = NULL <=> outbox_events[r] = NULL)
  PROVE  UNCHANGED Bars
<1>1. \A r \in Requests : (Seen(r)' <=> Seen(r)) /\ Key(r)' = Key(r)
  BY DEF Seen, Key, TrimSpace
<1>2. askedBar' = askedBar
  BY <1>1 DEF askedBar
<1>3. answerBar' = answerBar
  BY <1>1 DEF answerBar
<1>4. announcedBar' = announcedBar
  BY DEF announcedBar
<1>5. QED
  BY <1>2, <1>3, <1>4 DEF Bars

\* An answer to a request that the promise sees.
LEMMA Answers ==
  ASSUME Inv, NEW r \in Requests, pc[r] \in Creating, NEW a,
         Reply(r, a), a # NULL, UNCHANGED <<tables, call>>
  PROVE  Promise!Answer(r, KindOf(a.status), a.link)
<1>1. Seen(r) /\ resp[r] = NULL /\ pc[r] # "new"
  BY SeenCalls DEF Inv, CallInv, Creating, Unsaved, InTx
<1>2. pc' = [pc EXCEPT ![r] = "done"] /\ resp' = [resp EXCEPT ![r] = a]
  BY DEF Reply
<1>3. \A q \in Requests : (Seen(q)' <=> Seen(q)) /\ Key(q)' = Key(q)
  BY <1>1, <1>2 DEF Seen, Key, TrimSpace, Inv, TypeOK
<1>4. askedBar' = askedBar /\ announcedBar' = announcedBar
  BY <1>3 DEF askedBar, announcedBar, tables
<1>5. askedBar[r] # NULL /\ answerBar[r] = NULL
  BY <1>1, SeenKeys DEF askedBar, answerBar
<1>6. answerBar' = [answerBar EXCEPT ![r] = [kind |-> KindOf(a.status), link |-> a.link]]
  BY <1>1, <1>2, <1>3 DEF answerBar, Inv, TypeOK
<1>7. QED
  BY <1>4, <1>5, <1>6 DEF Promise!Answer, Promise!Open, tables

\* An answer to a request that it does not see.
LEMMA UnseenAnswers ==
  ASSUME Inv, NEW r \in Requests, pc[r] = "get", NEW a, Reply(r, a),
         UNCHANGED <<tables, call>>
  PROVE  UNCHANGED Bars
<1>1. \A q \in Requests : (Seen(q)' <=> Seen(q)) /\ Key(q)' = Key(q)
  BY DEF Seen, Key, TrimSpace, Inv, TypeOK, Reply
<1>2. askedBar' = askedBar /\ announcedBar' = announcedBar
  BY <1>1 DEF askedBar, announcedBar, tables
<1>3. ~ Seen(r)
  BY SeenCalls
<1>4. answerBar' = answerBar
  BY <1>1, <1>3 DEF answerBar, Reply, Inv, TypeOK
<1>5. QED
  BY <1>2, <1>4 DEF Bars, tables

\* The record the promise finds for a keyed create.
LEMMA Bindings ==
  ASSUME Inv, NEW r \in Requests, Seen(r), Keyed(r)
  PROVE  /\ Promise!Binding(r) = idempotency_keys[Key(r)]
         /\ askedBar[r].hash = RequestHash(call[r])
BY DEF Promise!Binding, askedBar, Keyed

-----------------------------------------------------------------------------
(* One lemma per kind of step                                               *)

\* A request that arrives changes what the promise sees of this request only.
LEMMA OthersAsBefore ==
  ASSUME NEW r \in Requests, ~ Seen(r), Seen(r)' => resp'[r] = NULL,
         \A q \in Requests \ {r} :
            /\ Seen(q)' <=> Seen(q)
            /\ Key(q)' = Key(q) /\ call'[q] = call[q] /\ resp'[q] = resp[q]
  PROVE  /\ answerBar' = answerBar
         /\ askedBar' = IF Seen(r)'
                        THEN [askedBar EXCEPT ![r] = [key |-> Key(r)', hash |-> RequestHash(call'[r])]]
                        ELSE askedBar
<1>1. \A q \in Requests : answerBar'[q] = answerBar[q]
  BY DEF answerBar
<1>2. answerBar' = [q \in Requests |-> answerBar'[q]] /\ answerBar = [q \in Requests |-> answerBar[q]]
  BY DEF answerBar
<1>3. \A q \in Requests \ {r} : askedBar'[q] = askedBar[q]
  BY DEF askedBar
<1>4. /\ askedBar[r] = NULL
      /\ askedBar'[r] = IF Seen(r)' THEN [key |-> Key(r)', hash |-> RequestHash(call'[r])]
                        ELSE NULL
  BY DEF askedBar
<1>5. askedBar' = [q \in Requests |-> askedBar'[q]] /\ askedBar = [q \in Requests |-> askedBar[q]]
  BY DEF askedBar
<1>6. QED
  BY <1>1, <1>2, <1>3, <1>4, <1>5

\* The handler admits a create, or refuses it.
LEMMA CreateArrives ==
  ASSUME Inv, NEW r \in Requests, NEW i \in Instances, CreateAccountLink(r, i)
  PROVE  Promise!Ask(r) \/ UNCHANGED Bars
<1>0. pc = [q \in Requests |-> pc[q]] /\ resp = [q \in Requests |-> resp[q]]
  BY DEF Inv, TypeOK
<1>1. PICK c \in Calls :
        /\ pc[r] = "new" /\ call' = [call EXCEPT ![r] = c] /\ UNCHANGED tables
        /\ \/ BadRequest(c) /\ pc'[r] = "done"
           \/ ~ BadRequest(c) /\ UNCHANGED resp /\ pc'[r] # "new"
        /\ \A q \in Requests \ {r} : pc'[q] = pc[q] /\ resp'[q] = resp[q]
  BY <1>0 DEF CreateAccountLink, Reply, Goto
<1>2. /\ ~ Seen(r) /\ resp[r] = NULL /\ call'[r] = c
      /\ Seen(r)' <=> ~ BadRequest(c)
  BY <1>1, CallKinds DEF Seen, Inv, CallInv, TypeOK
<1>3. \A q \in Requests \ {r} :
        /\ Seen(q)' <=> Seen(q)
        /\ Key(q)' = Key(q) /\ call'[q] = call[q] /\ resp'[q] = resp[q]
  BY <1>1 DEF Seen, Key, TrimSpace, Inv, TypeOK
<1>4. /\ answerBar' = answerBar /\ announcedBar' = announcedBar
      /\ askedBar' = IF Seen(r)'
                     THEN [askedBar EXCEPT ![r] = [key |-> Key(r)', hash |-> RequestHash(call'[r])]]
                     ELSE askedBar
  <2>1. Seen(r)' => resp'[r] = NULL
    BY <1>1, <1>2
  <2>2. announcedBar' = announcedBar
    BY <1>1 DEF announcedBar, tables
  <2>3. QED
    BY <1>2, <1>3, <2>1, <2>2, OthersAsBefore
<1>5. CASE BadRequest(c)
  <2>1. askedBar' = askedBar
    BY <1>2, <1>4, <1>5
  <2>2. QED
    BY <1>1, <1>4, <2>1 DEF Bars, tables
<1>6. CASE ~ BadRequest(c)
  <2>1. askedBar[r] = NULL
    BY <1>2 DEF askedBar
  <2>2. TrimSpace(c.key) \in Keys \cup {NoKey} /\ RequestHash(c) \in Hashes
    BY CallKinds, CallValues DEF TrimSpace
  <2>3. Key(r)' = TrimSpace(c.key)
    BY <1>2 DEF Key
  <2>4. askedBar' = [askedBar EXCEPT ![r] =
                       [key |-> TrimSpace(c.key), hash |-> RequestHash(c)]]
    BY <1>2, <1>4, <1>6, <2>3
  <2>5. QED
    BY <1>1, <1>4, <2>1, <2>2, <2>4 DEF Promise!Ask, tables
<1>7. QED
  BY <1>5, <1>6

\* A GET arrives.
LEMMA GetArrives ==
  ASSUME Inv, NEW r \in Requests, NEW i \in Instances, GetAccountLink(r, i)
  PROVE  UNCHANGED Bars
<1>1. PICK c \in GetCalls :
        /\ pc[r] = "new" /\ call' = [call EXCEPT ![r] = c] /\ UNCHANGED tables
        /\ \A q \in Requests \ {r} : pc'[q] = pc[q] /\ resp'[q] = resp[q]
  BY DEF GetAccountLink, Reply, Goto, Inv, TypeOK, GetCalls
<1>2. ~ Seen(r) /\ ~ Seen(r)'
  BY <1>1, CallKinds DEF Seen, Inv, TypeOK
<1>3. \A q \in Requests \ {r} :
        /\ Seen(q)' <=> Seen(q)
        /\ Key(q)' = Key(q) /\ call'[q] = call[q] /\ resp'[q] = resp[q]
  BY <1>1 DEF Seen, Key, TrimSpace, Inv, TypeOK
<1>4. answerBar' = answerBar /\ announcedBar' = announcedBar /\ askedBar' = askedBar
  <2>1. announcedBar' = announcedBar
    BY <1>1 DEF announcedBar, tables
  <2>2. QED
    BY <1>2, <1>3, <2>1, OthersAsBefore
<1>5. QED
  BY <1>1, <1>4 DEF Bars, tables

\* A call of the database that neither answers nor commits.
LEMMA QuietStep ==
  ASSUME Inv, NEW r \in Requests, pc[r] # "new", NEW l, l # "new", Goto(r, l),
         UNCHANGED <<tables, call, resp>>
  PROVE  UNCHANGED Bars
<1>1. \A q \in Requests : (pc'[q] = "new" <=> pc[q] = "new")
  BY DEF Goto, Inv, TypeOK
<1>2. QED
  BY <1>1, Invisible DEF tables

\* replay: a conflict is answered, a match goes on to read the link.
LEMMA ReplayPromised ==
  ASSUME Inv, NEW r \in Requests, pc[r] \in {"find_key", "refind_key"},
         idempotency_keys[Key(r)] # NULL, Replay(r, idempotency_keys[Key(r)]),
         UNCHANGED <<tables, call>>
  PROVE  Promise!AnswerConflict(r) \/ UNCHANGED Bars
<1>1. pc[r] \in Creating /\ Seen(r) /\ Keyed(r)
  BY SeenCalls DEF Inv, CallInv, Creating, Unsaved
<1>2. CASE /\ idempotency_keys[Key(r)].request_hash # RequestHash(call[r])
           /\ Reply(r, Problem("Conflict", "conflict"))
  <2>1. Promise!Answer(r, "conflict", NULL)
    <3>1. Problem("Conflict", "conflict") # NULL
      BY Responses, CallValues
    <3>2. QED
      BY <1>1, <1>2, <3>1, Answers, Kinds DEF Problem
  <2>2. QED
    BY <1>1, <1>2, <2>1, Bindings DEF Promise!AnswerConflict, Promise!Answer
<1>3. CASE Goto(r, "find_link") /\ UNCHANGED resp
  BY <1>1, <1>3, QuietStep
<1>4. QED
  BY <1>2, <1>3 DEF Replay

\* The two lookups of the key.
LEMMA LookupPromised ==
  ASSUME Inv, NEW r \in Requests, FindByKey(r) \/ FindByKeyAgain(r)
  PROVE  Promise!AnswerConflict(r) \/ UNCHANGED Bars
<1>1. CASE idempotency_keys[Key(r)] # NULL
  BY <1>1, ReplayPromised DEF FindByKey, FindByKeyAgain, KeyRow
<1>2. CASE idempotency_keys[Key(r)] = NULL
  <2>1. pc[r] = "find_key" /\ Goto(r, "begin") /\ UNCHANGED <<tables, call, resp>>
    BY <1>2 DEF FindByKey, FindByKeyAgain, KeyRow, Inv, ReplayInv
  <2>2. QED
    BY <2>1, QuietStep
<1>3. QED
  BY <1>1, <1>2

\* BEGIN and the statements of the transaction.
LEMMA StatementsPromised ==
  ASSUME Inv, NEW r \in Requests, Begin(r) \/ Save(r) \/ TryInsert(r) \/ AddOutbox(r)
  PROVE  UNCHANGED Bars
<1>1. /\ pc[r] # "new" /\ UNCHANGED <<tables, call, resp>>
      /\ \E l \in {"save", "add_outbox", "try_insert", "commit"} : Goto(r, l)
  BY DEF Begin, Save, TryInsert, AddOutbox, locals
<1>2. QED
  BY <1>1, QuietStep

\* COMMIT takes effect, on time or after the client has given up: the create
\* happens, unless the transaction is that of the loser of a race.
LEMMA ApplyPromised ==
  ASSUME Inv, NEW r \in Requests, tx[r] # NULL, pc[r] = "commit" \/ tx[r].sent,
         Apply(r), UNCHANGED <<call, resp>>,
         \A q \in Requests : (pc'[q] = "new" <=> pc[q] = "new")
  PROVE  Promise!Create(r) \/ UNCHANGED Bars
<1>1. /\ TxOK(r) /\ Seen(r) /\ call[r] \in Calls /\ account_links[r] = NULL
      /\ tx[r] \in Tx
  BY SeenCalls DEF Inv, TypeOK, TxInv, TxOK
<1>2. outbox_events[r] = NULL
  BY <1>1 DEF Inv, LinkInv
<1>3. CASE tx[r].event = NULL
  <2>1. tx[r].rec = NULL
    BY <1>1, <1>3 DEF TxOK
  <2>2. UNCHANGED <<idempotency_keys, outbox_events>>
    BY <1>3, <2>1 DEF Apply
  <2>3. QED
    BY <2>2, Invisible
<1>4. CASE tx[r].event # NULL
  <2>1. /\ Keyed(r) <=> tx[r].rec # NULL
        /\ tx[r].rec # NULL => tx[r].rec = IdempotencyRecord(r) /\ idempotency_keys[Key(r)] = NULL
    BY <1>1, <1>4 DEF TxOK, Inv, PendingInv
  <2>2. /\ askedBar' = askedBar /\ answerBar' = answerBar
    <3>1. \A q \in Requests : (Seen(q)' <=> Seen(q)) /\ Key(q)' = Key(q)
      BY DEF Seen, Key, TrimSpace
    <3>2. QED
      BY <3>1 DEF askedBar, answerBar
  <2>3. r \notin announcedBar /\ announcedBar' = announcedBar \cup {r}
    BY <1>2, <1>4 DEF announcedBar, Apply, Inv, TypeOK
  <2>4. /\ askedBar[r] = [key |-> Key(r), hash |-> RequestHash(call[r])]
        /\ askedBar[r] # NULL
    BY <1>1, SeenKeys DEF askedBar
  <2>5. answerBar[r] = NULL \/ answerBar[r].kind = "failed"
    <3>1. SUFFICES ASSUME resp[r] # NULL PROVE KindOf(resp[r].status) = "failed"
      BY <1>1 DEF answerBar
    <3>2. AnswerOK(r, resp[r]) /\ resp[r].status \in Statuses
      BY <3>1 DEF Inv, RespInv, TypeOK, Response
    <3>3. resp[r].status \notin {"Created", "OK", "Conflict"}
      BY <1>1, <1>2, <2>1, <3>2 DEF AnswerOK
    <3>4. QED
      BY <3>2, <3>3, Kinds DEF Statuses
  <2>6. CASE Keyed(r)
    <3>1. idempotency_keys' = [idempotency_keys EXCEPT ![Key(r)] =
             [request_hash |-> RequestHash(call[r]), account_link_id |-> r]]
      BY <2>1, <2>6 DEF Apply, IdempotencyRecord
    <3>2. QED
      BY <2>1, <2>2, <2>3, <2>4, <2>5, <2>6, <3>1 DEF Promise!Create, Keyed
  <2>7. CASE ~ Keyed(r)
    <3>1. UNCHANGED idempotency_keys
      BY <2>1, <2>7 DEF Apply
    <3>2. QED
      BY <2>2, <2>3, <2>4, <2>5, <2>7, <3>1 DEF Promise!Create, Keyed
  <2>8. QED
    BY <2>6, <2>7
<1>5. QED
  BY <1>3, <1>4

\* COMMIT of a create that has its key, or needs none, is Create; COMMIT of one that lost
\* its key is nothing to the promise.
LEMMA CommitPromised ==
  ASSUME Inv, NEW r \in Requests, Commit(r)
  PROVE  Promise!Create(r) \/ UNCHANGED Bars
<1>1. /\ pc[r] = "commit" /\ Apply(r) /\ UNCHANGED <<call, resp>>
      /\ \A q \in Requests : (pc'[q] = "new" <=> pc[q] = "new")
  BY DEF Commit, Goto, locals, Inv, TypeOK
<1>2. tx[r] # NULL
  BY <1>1 DEF Inv, TxInv, TxOK, InTx
<1>3. QED
  BY <1>1, <1>2, ApplyPromised

\* The server ends an abandoned transaction.
LEMMA ReapPromised ==
  ASSUME Inv, NEW r \in Requests, Reap(r)
  PROVE  Promise!Create(r) \/ UNCHANGED Bars
<1>1. /\ tx[r] # NULL /\ UNCHANGED <<pc, call, resp>>
      /\ UNCHANGED tables \/ (tx[r].sent /\ Apply(r))
  BY DEF Reap, locals
<1>2. CASE UNCHANGED tables
  BY <1>1, <1>2, Invisible DEF tables
<1>3. CASE tx[r].sent /\ Apply(r)
  BY <1>1, <1>3, ApplyPromised
<1>4. QED
  BY <1>1, <1>2, <1>3

\* tx.Commit returns: the winner is answered 201.
LEMMA AckPromised ==
  ASSUME Inv, NEW r \in Requests, Ack(r)
  PROVE  Promise!AnswerCreated(r) \/ UNCHANGED Bars
<1>1. /\ pc[r] = "ack" /\ UNCHANGED <<tables, call>>
      /\ \/ inserted[r] /\ Reply(r, Found("Created", r))
         \/ Goto(r, "refind_key") /\ UNCHANGED resp
  BY DEF Ack, locals
<1>2. CASE inserted[r] /\ Reply(r, Found("Created", r))
  <2>1. r \in announcedBar
    BY <1>1, <1>2 DEF Inv, ReplayInv, announcedBar
  <2>2. Found("Created", r) # NULL
    BY Responses, CallValues
  <2>3. Promise!Answer(r, "created", r)
    BY <1>1, <1>2, <2>2, Answers, Kinds DEF Found, Creating
  <2>4. QED
    BY <2>1, <2>3 DEF Promise!AnswerCreated
<1>3. CASE Goto(r, "refind_key") /\ UNCHANGED resp
  BY <1>1, <1>3, QuietStep
<1>4. QED
  BY <1>1, <1>2, <1>3

\* replay answers 200 with the link that the key is bound to.
LEMMA FindReplayedPromised ==
  ASSUME Inv, NEW r \in Requests, FindReplayed(r)
  PROVE  Promise!AnswerReplayed(r)
<1>1. /\ pc[r] = "find_link" /\ UNCHANGED <<tables, call>>
      /\ pc[r] \in Creating /\ Seen(r) /\ Keyed(r)
  BY SeenCalls DEF FindReplayed, locals, Creating, Inv, CallInv
<1>2. /\ outbox_events[r] = NULL /\ idempotency_keys[Key(r)] # NULL
      /\ rec[r] = idempotency_keys[Key(r)] /\ rec[r].request_hash = RequestHash(call[r])
  BY <1>1 DEF Inv, ReplayInv
<1>3. PICK id \in Requests : id = rec[r].account_link_id
  BY <1>1, <1>2, KeyType DEF Inv, TypeOK, Row
<1>4. account_links[id] # NULL
  <2>1. Key(r) \in Keys
    BY <1>1, KeyType, SeenCalls DEF Keyed
  <2>2. outbox_events[id] # NULL
    BY <1>2, <1>3, <2>1 DEF Inv, KeyInv
  <2>3. QED
    BY <2>2 DEF Inv, LinkInv
<1>5. Reply(r, Found("OK", id)) /\ Found("OK", id) # NULL
  BY <1>3, <1>4, Responses, CallValues DEF FindReplayed, LinkRow
<1>6. Promise!Answer(r, "replayed", id)
  BY <1>1, <1>5, Answers, Kinds DEF Found
<1>7. r \notin announcedBar
  BY <1>2 DEF announcedBar
<1>8. QED
  BY <1>1, <1>2, <1>3, <1>6, <1>7, Bindings DEF Promise!AnswerReplayed, Promise!Answer

\* A failed call is answered 500, of which the promise says nothing.
LEMMA FailPromised ==
  ASSUME Inv, NEW r \in Requests, Fail(r)
  PROVE  Promise!AnswerFailed(r) \/ UNCHANGED Bars
<1> DEFINE a == Problem("InternalServerError", "request failed")
<1>1. /\ pc[r] \in Creating \cup {"get"} /\ Reply(r, a) /\ UNCHANGED <<tables, call>>
  BY DEF Fail, locals, Creating, Unsaved, InFlight, Reading, HoldsConn
<1>2. CASE pc[r] = "get"
  BY <1>1, <1>2, UnseenAnswers
<1>3. CASE pc[r] \in Creating
  <2>1. a # NULL
    BY Responses, CallValues
  <2>2. a.status = "InternalServerError" /\ a.link = NULL
    BY DEF Problem
  <2> HIDE DEF a
  <2>3. QED
    BY <1>1, <1>3, <2>1, <2>2, Answers, Kinds DEF Promise!AnswerFailed
<1>4. QED
  BY <1>1, <1>2, <1>3

\* A GET is answered.
LEMMA GetPromised ==
  ASSUME Inv, NEW r \in Requests, GetByID(r)
  PROVE  UNCHANGED Bars
BY UnseenAnswers DEF GetByID, locals

\* A process dies: its requests get no answer.
LEMMA CrashPromised ==
  ASSUME Inv, NEW i \in Instances, Crash(i)
  PROVE  UNCHANGED Bars
<1>1. UNCHANGED <<tables, call, resp>>
  BY DEF Crash, locals
<1>2. \A q \in Requests : (pc'[q] = "new" <=> pc[q] = "new")
  BY DEF Crash, InFlight, Reading, HoldsConn, InTx
<1>3. QED
  BY <1>1, <1>2, Invisible DEF tables

-----------------------------------------------------------------------------
(* The refinement                                                           *)

\* Before the first request nothing is asked, bound, announced or answered.
LEMMA InitPromised ==
  ASSUME Init
  PROVE  Promise!Init
<1>1. /\ askedBar = [r \in Requests |-> NULL] /\ answerBar = [r \in Requests |-> NULL]
      /\ announcedBar = {}
  BY DEF Init, askedBar, answerBar, announcedBar, Seen
<1>2. QED
  BY <1>1 DEF Init, Promise!Init

\* Every step of the code is a step of the promise, or none.
LEMMA NextPromised ==
  ASSUME Inv, [Next]_vars
  PROVE  [Promise!Next]_Bars
<1> USE DEF Promise!Next
<1>1. ASSUME NEW r \in Requests, NEW i \in Instances, Arrive(r, i)
      PROVE  Promise!Next \/ UNCHANGED Bars
  BY <1>1, CreateArrives, GetArrives DEF Arrive
<1>2. ASSUME NEW r \in Requests, Serve(r)
      PROVE  Promise!Next \/ UNCHANGED Bars
  BY <1>2, LookupPromised, StatementsPromised, CommitPromised, AckPromised,
     FindReplayedPromised, GetPromised DEF Serve
<1>3. ASSUME NEW r \in Requests, Fail(r) \/ Reap(r)
      PROVE  Promise!Next \/ UNCHANGED Bars
  BY <1>3, FailPromised, ReapPromised
<1>4. ASSUME NEW i \in Instances, Crash(i)
      PROVE  UNCHANGED Bars
  BY <1>4, CrashPromised
<1>5. CASE UNCHANGED vars
  BY <1>5, Invisible DEF vars, tables
<1>6. QED
  BY <1>1, <1>2, <1>3, <1>4, <1>5 DEF Next

\* POST keeps its promise: handlers, transactions and stores together behave like
\* one indivisible create per key, through every race, error, crash and late
\* COMMIT, for any number of requests, instances, keys and connections
\* (accountlink_service.go:101-218).
THEOREM PromiseKept == Spec => ImplementsPromise
<1>1. Init => Promise!Init
  BY InitPromised
<1>2. Inv /\ [Next]_vars => [Promise!Next]_Bars
  BY NextPromised
<1>3. [Promise!Next]_Bars => [Promise!Next]_(Promise!vars)
  BY DEF Bars, Promise!vars
<1>4. QED
  BY <1>1, <1>2, <1>3, Invariance, PTL DEF Spec, Promise!Spec, ImplementsPromise
=============================================================================
