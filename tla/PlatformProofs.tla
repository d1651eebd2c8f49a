--------------------------- MODULE PlatformProofs ---------------------------
(***************************************************************************)
(* Proofs about Platform: the process that serves requests and polls the   *)
(* outbox is, seen by either component, nothing but that component, so     *)
(* what was proved of each one alone holds of the two together.            *)
(*                                                                         *)
(* A step of the platform is looked at three times: as a step of the       *)
(* service over rows that are never published and a pool without the       *)
(* processor (the lemmas named ...Seen), as a step of the processor over   *)
(* rows that are two timestamps (...Polled, Add...), and for what only the *)
(* composition has, the shared tables and pool (...Step).                  *)
(***************************************************************************)
EXTENDS Platform, FiniteSetTheorems, TLAPS

\* The components with their proofs, under the mappings of Platform.
S == INSTANCE IdempotentCreateProofs
       WITH outbox_events <- eventsBar, conns <- connsBar
O == INSTANCE OutboxProcessorProofs
       WITH Processors <- Instances, Events <- Requests, pc <- poll, tx <- ptx,
            outbox_events <- rowsBar

-----------------------------------------------------------------------------
(* One module, two names                                                    *)

\* Service and S are one module under two names: so are their definitions.
LEMMA SameService ==
  /\ Service!Init <=> S!Init
  /\ Service!Next <=> S!Next
  /\ Service!vars = S!vars /\ Service!vars' = S!vars'
<1>1. Service!Init <=> S!Init
  BY Zenon DEF Service!Init, S!Init
<1>2. Service!vars = S!vars /\ Service!vars' = S!vars'
  BY Zenon DEF Service!vars, S!vars, Service!tables, S!tables
<1>3. Service!Next <=> S!Next
BY Zenon DEF Service!Next, S!Next, Service!Arrive, S!Arrive, Service!Serve, S!Serve,
   Service!Crash, S!Crash, Service!Fail, S!Fail, Service!Reap, S!Reap,
   Service!CreateAccountLink, S!CreateAccountLink, Service!GetAccountLink,
   S!GetAccountLink, Service!GetByID, S!GetByID, Service!FindByKey, S!FindByKey,
   Service!Begin, S!Begin, Service!Save, S!Save, Service!TryInsert, S!TryInsert,
   Service!AddOutbox, S!AddOutbox, Service!Commit, S!Commit, Service!Ack, S!Ack,
   Service!FindByKeyAgain, S!FindByKeyAgain, Service!FindReplayed, S!FindReplayed,
   Service!Apply, S!Apply, Service!EndTx, S!EndTx, Service!tables, S!tables,
   Service!locals, S!locals, Service!Key, S!Key, Service!TrimSpace, S!TrimSpace,
   Service!Replay, S!Replay, Service!Reply, S!Reply, Service!Goto, S!Goto,
   Service!Problem, S!Problem, Service!Found, S!Found, Service!Acquire, S!Acquire,
   Service!Release, S!Release, Service!Available, S!Available, Service!KeyRow, S!KeyRow,
   Service!LinkRow, S!LinkRow, Service!BadRequest, S!BadRequest, Service!Validate,
   S!Validate, Service!NewAccountLink, S!NewAccountLink, Service!KeyPending,
   S!KeyPending, Service!IdempotencyRecord, S!IdempotencyRecord, Service!OutboxEvent,
   S!OutboxEvent, Service!EmptyTx, S!EmptyTx, Service!RequestHash, S!RequestHash,
   Service!Blank, S!Blank, Service!LinkStatuses, S!LinkStatuses, Service!NoKey, S!NoKey,
   Service!InFlight, S!InFlight, Service!Reading, S!Reading, Service!HoldsConn,
   S!HoldsConn, Service!InTx, S!InTx, Service!Abandoned, S!Abandoned
<1> QED BY <1>1, <1>2, <1>3

\* The invariant and its parts.
LEMMA SameServiceInv == (Service!Inv <=> S!Inv) /\ (Service!Inv' <=> S!Inv')
BY Zenon DEF Service!Inv, S!Inv, Service!TypeOK, S!TypeOK, Service!CallInv, S!CallInv,
   Service!TxInv, S!TxInv, Service!TxOK, S!TxOK, Service!PendingInv, S!PendingInv,
   Service!KeyInv, S!KeyInv, Service!LinkInv, S!LinkInv, Service!ReplayInv, S!ReplayInv,
   Service!RespInv, S!RespInv, Service!AnswerOK, S!AnswerOK, Service!PoolInv, S!PoolInv,
   Service!Holders, S!Holders, Service!Keyed, S!Keyed, Service!Unsaved, S!Unsaved,
   Service!Creating, S!Creating, Service!Key, S!Key, Service!TrimSpace, S!TrimSpace,
   Service!NoKey, S!NoKey, Service!Blank, S!Blank, Service!BadRequest, S!BadRequest,
   Service!RequestHash, S!RequestHash, Service!NewAccountLink, S!NewAccountLink,
   Service!IdempotencyRecord, S!IdempotencyRecord, Service!KeyPending, S!KeyPending,
   Service!PCs, S!PCs, Service!InFlight, S!InFlight, Service!Reading, S!Reading,
   Service!HoldsConn, S!HoldsConn, Service!InTx, S!InTx, Service!Link, S!Link,
   Service!Row, S!Row, Service!Event, S!Event, Service!Tx, S!Tx, Service!GetCalls,
   S!GetCalls, Service!Response, S!Response, Service!Statuses, S!Statuses, Service!Ids,
   S!Ids, Service!Details, S!Details, Service!Hashes, S!Hashes, Service!IsFiniteSet,
   S!IsFiniteSet, Service!Cardinality, S!Cardinality

\* Outbox and O likewise.
LEMMA SameOutbox ==
  /\ Outbox!Init <=> O!Init
  /\ Outbox!Next <=> O!Next
  /\ Outbox!vars = O!vars /\ Outbox!vars' = O!vars'
  /\ Outbox!Inv <=> O!Inv
  /\ Outbox!Inv' <=> O!Inv'
<1>1. Outbox!Init <=> O!Init
  BY Zenon DEF Outbox!Init, O!Init
<1>2. Outbox!vars = O!vars /\ Outbox!vars' = O!vars'
  BY Zenon DEF Outbox!vars, O!vars, Outbox!locals, O!locals
<1>3. Outbox!Next <=> O!Next
  BY Zenon DEF Outbox!Next, O!Next, Outbox!Add, O!Add, Outbox!Work, O!Work, Outbox!Fail,
     O!Fail, Outbox!LoseSession, O!LoseSession, Outbox!Reap, O!Reap, Outbox!Begin,
     O!Begin, Outbox!FindUnpublishedForUpdateSkipLocked,
     O!FindUnpublishedForUpdateSkipLocked, Outbox!Publish, O!Publish,
     Outbox!MarkPublished, O!MarkPublished, Outbox!Commit, O!Commit, Outbox!Ack, O!Ack,
     Outbox!FindSessionLost, O!FindSessionLost, Outbox!Fault, O!Fault, Outbox!GiveUp,
     O!GiveUp, Outbox!Forget, O!Forget, Outbox!Goto, O!Goto, Outbox!Loop, O!Loop,
     Outbox!Apply, O!Apply, Outbox!IsBatch, O!IsBatch, Outbox!NoLater, O!NoLater,
     Outbox!Claimable, O!Claimable, Outbox!LockedRows, O!LockedRows, Outbox!EmptyTx,
     O!EmptyTx, Outbox!Pending, O!Pending, Outbox!Row, O!Row, Outbox!Oldest, O!Oldest,
     Outbox!Accept, O!Accept, Outbox!InFlight, O!InFlight, Outbox!locals, O!locals,
     Outbox!Cardinality, O!Cardinality
<1>4. (Outbox!Inv <=> O!Inv) /\ (Outbox!Inv' <=> O!Inv')
  BY Zenon DEF Outbox!Inv, O!Inv, Outbox!TypeOK, O!TypeOK, Outbox!ClaimInv, O!ClaimInv,
     Outbox!TxSound, O!TxSound, Outbox!ProcInv, O!ProcInv, Outbox!ProcOK, O!ProcOK,
     Outbox!PublishedWasDelivered, O!PublishedWasDelivered, Outbox!Delivered,
     O!Delivered, Outbox!Stamped, O!Stamped, Outbox!Pending, O!Pending, Outbox!Rows,
     O!Rows, Outbox!Tx, O!Tx, Outbox!Stamps, O!Stamps, Outbox!Ghost, O!Ghost,
     Outbox!InFlight, O!InFlight, Outbox!Cardinality, O!Cardinality
<1> QED BY <1>1, <1>2, <1>3, <1>4

-----------------------------------------------------------------------------
(* The proofs of the components                                             *)

\* What the proofs of the service establish, for the service as Platform instantiates
\* it; its assumptions on the constants are those of Platform.
LEMMA ServiceStarts ==
  ASSUME S!Init
  PROVE  S!Inv /\ S!Promise!Init
BY S!InitInv, S!InitPromised, ConnsAssumption, CallsAssumption, NullAssumption DEF Link,
   Row, Event, Tx, Response, Hashes, GetCalls, NewAccountLink, TrimSpace, RequestHash,
   Ids, Details, Statuses, NoKey, S!Link, S!Row, S!Event, S!Tx, S!Response, S!Hashes,
   S!GetCalls, S!NewAccountLink, S!TrimSpace, S!RequestHash, S!Ids, S!Details,
   S!Statuses, S!NoKey

LEMMA ServiceKept ==
  ASSUME S!Inv, [S!Next]_(S!vars)
  PROVE  S!Inv' /\ [S!Promise!Next]_(S!Bars) /\ S!Final
BY S!NextInv, S!NextPromised, S!StepFinal, ConnsAssumption, CallsAssumption,
   NullAssumption DEF Link,
   Row, Event, Tx, Response, Hashes, GetCalls, NewAccountLink, TrimSpace, RequestHash,
   Ids, Details, Statuses, NoKey, S!Link, S!Row, S!Event, S!Tx, S!Response, S!Hashes,
   S!GetCalls, S!NewAccountLink, S!TrimSpace, S!RequestHash, S!Ids, S!Details,
   S!Statuses, S!NoKey

\* The same for the processor; finiteness is that of FiniteSets in either module.
LEMMA OutboxStarts ==
  ASSUME O!Init
  PROVE  O!Inv /\ O!DuplicateInv
BY O!InitInv, O!InitPaid, PlatformAssumption, NullRowAssumption DEF O!IsFiniteSet,
   IsFiniteSet, O!Rows, O!Tx, O!Stamps, D!Rows, D!Tx, D!Stamps

LEMMA OutboxKept ==
  ASSUME O!Inv, [O!Next]_(O!vars)
  PROVE  O!Inv' /\ (O!DuplicateInv => O!DuplicateInv')
BY O!NextInv, O!NextPaid, PlatformAssumption, NullRowAssumption DEF O!IsFiniteSet,
   IsFiniteSet, O!Rows, O!Tx, O!Stamps, D!Rows, D!Tx, D!Stamps

\* A published row is final.
LEMMA OutboxFinal ==
  ASSUME O!Inv, O!Next, NEW e \in Requests, rowsBar[e] # NULL, ~ O!Pending(e)
  PROVE  rowsBar'[e] = rowsBar[e]
BY O!StepFinal, PlatformAssumption, NullRowAssumption DEF O!IsFiniteSet, IsFiniteSet,
   O!Rows, O!Tx, O!Stamps, D!Rows, D!Tx, D!Stamps

\* At most one message more than failures.
LEMMA OutboxBound ==
  ASSUME O!Inv, O!DuplicateInv
  PROVE  O!DuplicatesOnlyFromFaults
BY O!PaidBound, PlatformAssumption, NullRowAssumption DEF O!IsFiniteSet, IsFiniteSet,
   O!Rows, O!Tx, O!Stamps, D!Rows, D!Tx, D!Stamps

-----------------------------------------------------------------------------
(* Steps of the service, as the service and as the processor see them       *)

\* What a request asks of the shared pool it gets of the pool the service sees:
\* with the processor's connection there is only more of it.
LEMMA PoolSeen ==
  ASSUME SharedInv, UNCHANGED poll, NEW r \in Requests, at[r] \in Instances
  PROVE  /\ Available(r) => Service!Available(r)
         /\ Acquire(r) => Service!Acquire(r)
         /\ Release(r) => Service!Release(r)
         /\ UNCHANGED conns => UNCHANGED connsBar
<1>1. /\ conns = [i \in Instances |-> conns[i]]
      /\ \A i \in Instances : conns[i] \in Nat
  BY DEF SharedInv
<1>2. Available(r) => Service!Available(r)
  BY <1>1 DEF Available, Service!Available, connsBar
<1>3. Acquire(r) => Service!Acquire(r)
  <2>1. HAVE Acquire(r)
  <2>2. \A i \in Instances :
          connsBar'[i] = IF i = at[r] THEN connsBar[i] - 1 ELSE connsBar[i]
    BY <1>1, <2>1 DEF Acquire, connsBar
  <2>3. connsBar' = [connsBar EXCEPT ![at[r]] = @ - 1]
    BY <2>2 DEF connsBar
  <2> QED BY <1>2, <2>1, <2>3 DEF Acquire, Service!Acquire
<1>4. Release(r) => Service!Release(r)
  <2>1. HAVE Release(r)
  <2>2. \A i \in Instances :
          connsBar'[i] = IF i = at[r] THEN connsBar[i] + 1 ELSE connsBar[i]
    BY <1>1, <2>1 DEF Release, connsBar
  <2>3. connsBar' = [connsBar EXCEPT ![at[r]] = @ + 1]
    BY <2>2 DEF connsBar
  <2> QED BY <2>3 DEF Service!Release
<1>5. UNCHANGED conns => UNCHANGED connsBar
  BY DEF connsBar
<1> QED BY <1>2, <1>3, <1>4, <1>5

\* Rows that do not change do not seem to.
LEMMA RowsSeen == UNCHANGED outbox_events => UNCHANGED eventsBar /\ UNCHANGED rowsBar
BY DEF eventsBar, rowsBar

\* The COMMIT of a create writes the row that the service sees.
LEMMA ApplySeen ==
  ASSUME Service!Inv, SharedInv, NEW r \in Requests, tx[r] # NULL, Apply(r)
  PROVE  Service!Apply(r)
<1>1. tx[r].event # NULL => tx[r].event \in Event
  BY DEF Service!Inv, Service!TypeOK, Service!Tx, Service!Event, Event, Service!Link,
     Link, Service!NewAccountLink, NewAccountLink, Service!TrimSpace, TrimSpace
<1>2. CASE tx[r].event = NULL
  BY <1>2, RowsSeen DEF Apply, Service!Apply, Key, Service!Key, TrimSpace,
     Service!TrimSpace
<1>3. CASE tx[r].event # NULL
  <2>1. outbox_events' = [outbox_events EXCEPT ![r] = tx[r].event]
    BY <1>3 DEF Apply
  <2>2. [tx[r].event EXCEPT !.published_at = NULL] = tx[r].event
    BY <1>1, <1>3 DEF Event
  <2>3. \A q \in Requests : eventsBar'[q] = IF q = r THEN tx[r].event ELSE eventsBar[q]
    BY <1>3, <2>1, <2>2 DEF eventsBar, SharedInv
  <2>4. eventsBar' = [eventsBar EXCEPT ![r] = tx[r].event]
    BY <2>3 DEF eventsBar
  <2> QED
    BY <1>3, <2>4 DEF Apply, Service!Apply, Key, Service!Key, TrimSpace,
       Service!TrimSpace
<1> QED BY <1>2, <1>3

\* The handlers touch neither rows nor pool.
LEMMA ArriveSeen ==
  ASSUME NEW r \in Requests, NEW i \in Instances, Arrive(r, i), UNCHANGED poll
  PROVE  Service!Arrive(r, i)
<1>1. UNCHANGED outbox_events /\ UNCHANGED conns
  BY DEF Arrive, CreateAccountLink, GetAccountLink, tables
<1>2. UNCHANGED eventsBar /\ UNCHANGED connsBar
  BY <1>1, RowsSeen DEF connsBar
<1>3. CASE CreateAccountLink(r, i)
  <2>1. Service!CreateAccountLink(r, i)
    BY <1>2, <1>3 DEF CreateAccountLink, Service!CreateAccountLink, BadRequest,
       Service!BadRequest, Blank, Service!Blank, TrimSpace, Service!TrimSpace, Reply,
       Service!Reply, Problem, Service!Problem, Goto, Service!Goto, tables,
       Service!tables, NoKey, Service!NoKey
  <2> QED BY <2>1 DEF Service!Arrive
<1>4. CASE GetAccountLink(r, i)
  <2>1. Service!GetAccountLink(r, i)
    BY <1>2, <1>4 DEF GetAccountLink, Service!GetAccountLink, Reply, Service!Reply,
       Problem, Service!Problem, Goto, Service!Goto, tables, Service!tables
  <2> QED BY <2>1 DEF Service!Arrive
<1> QED BY <1>3, <1>4 DEF Arrive

\* Every call of a request that succeeds, one case per call.
LEMMA ServeSeen ==
  ASSUME Service!Inv, SharedInv, NEW r \in Requests, Serve(r), UNCHANGED poll
  PROVE  Service!Serve(r)
<1> USE DEF Goto, Service!Goto, Reply, Service!Reply, Problem, Service!Problem, Found,
            Service!Found, tables, Service!tables, locals, Service!locals, Key,
            Service!Key, TrimSpace, Service!TrimSpace, KeyRow, Service!KeyRow, LinkRow,
            Service!LinkRow, RequestHash, Service!RequestHash
<1>1. pc[r] # "new" => at[r] \in Instances
  BY DEF Service!Inv, Service!CallInv
<1>2. pc[r] \in {"save", "try_insert", "add_outbox", "commit"} => tx[r] # NULL
  BY DEF Service!Inv, Service!TxInv, Service!TxOK, Service!InTx
<1>3. CASE FindByKey(r)
  <2>1. Service!FindByKey(r)
    BY <1>1, <1>3, PoolSeen, RowsSeen DEF FindByKey, Service!FindByKey, Replay,
       Service!Replay
  <2> QED BY <2>1 DEF Service!Serve
<1>4. CASE Begin(r)
  <2>1. Service!Begin(r)
    BY <1>1, <1>4, PoolSeen, RowsSeen DEF Begin, Service!Begin, EmptyTx, Service!EmptyTx
  <2> QED BY <2>1 DEF Service!Serve
<1>5. CASE Save(r)
  <2>1. Service!Save(r)
    BY <1>1, <1>5, PoolSeen, RowsSeen DEF Save, Service!Save, Validate,
       Service!Validate, NewAccountLink, Service!NewAccountLink, NoKey, Service!NoKey,
       LinkStatuses, Service!LinkStatuses, Blank, Service!Blank
  <2> QED BY <2>1 DEF Service!Serve
<1>6. CASE TryInsert(r)
  <2>1. Service!TryInsert(r)
    BY <1>1, <1>6, PoolSeen, RowsSeen DEF TryInsert, Service!TryInsert, KeyPending,
       Service!KeyPending, IdempotencyRecord, Service!IdempotencyRecord
  <2> QED BY <2>1 DEF Service!Serve
<1>7. CASE AddOutbox(r)
  <2>1. Service!AddOutbox(r)
    BY <1>1, <1>7, PoolSeen, RowsSeen DEF AddOutbox, Service!AddOutbox, OutboxEvent,
       Service!OutboxEvent
  <2> QED BY <2>1 DEF Service!Serve
<1>8. CASE Commit(r)
  <2>1. Service!Commit(r)
    BY <1>1, <1>2, <1>8, PoolSeen, ApplySeen DEF Commit, Service!Commit, EndTx,
       Service!EndTx
  <2> QED BY <2>1 DEF Service!Serve
<1>9. CASE Ack(r)
  <2>1. Service!Ack(r)
    BY <1>1, <1>9, PoolSeen, RowsSeen DEF Ack, Service!Ack
  <2> QED BY <2>1 DEF Service!Serve
<1>10. CASE FindByKeyAgain(r)
  <2>1. Service!FindByKeyAgain(r)
    BY <1>1, <1>10, PoolSeen, RowsSeen DEF FindByKeyAgain, Service!FindByKeyAgain,
       Replay, Service!Replay
  <2> QED BY <2>1 DEF Service!Serve
<1>11. CASE FindReplayed(r)
  <2>1. Service!FindReplayed(r)
    BY <1>1, <1>11, PoolSeen, RowsSeen DEF FindReplayed, Service!FindReplayed
  <2> QED BY <2>1 DEF Service!Serve
<1>12. CASE GetByID(r)
  <2>1. Service!GetByID(r)
    BY <1>1, <1>12, PoolSeen, RowsSeen DEF GetByID, Service!GetByID
  <2> QED BY <2>1 DEF Service!Serve
<1> QED BY <1>3, <1>4, <1>5, <1>6, <1>7, <1>8, <1>9, <1>10, <1>11, <1>12 DEF Serve

\* A failed call gives its connection back to either pool.
LEMMA FailSeen ==
  ASSUME Service!Inv, SharedInv, NEW r \in Requests, Fail(r), UNCHANGED poll
  PROVE  Service!Fail(r)
<1>1. at[r] \in Instances
  BY DEF Fail, InFlight, Reading, HoldsConn, InTx, Service!Inv, Service!CallInv
<1>2. UNCHANGED eventsBar
  BY RowsSeen DEF Fail, tables
<1> QED
  BY <1>1, <1>2, PoolSeen DEF Fail, Service!Fail, Reply, Service!Reply, Problem,
     Service!Problem, Abandoned, Service!Abandoned, tables, Service!tables, locals,
     Service!locals, InFlight, Service!InFlight, Reading, Service!Reading, HoldsConn,
     Service!HoldsConn, InTx, Service!InTx

\* The end of an abandoned transaction, its late COMMIT included.
LEMMA ReapSeen ==
  ASSUME Service!Inv, SharedInv, NEW r \in Requests, Reap(r), UNCHANGED poll
  PROVE  Service!Reap(r)
<1>1. UNCHANGED connsBar
  BY DEF Reap, connsBar
<1>2. UNCHANGED tables => UNCHANGED Service!tables
  BY RowsSeen DEF tables, Service!tables
<1>3. Apply(r) => Service!Apply(r)
  BY ApplySeen DEF Reap
<1> QED
  BY <1>1, <1>2, <1>3 DEF Reap, Service!Reap, EndTx, Service!EndTx, locals, Service!locals

\* A process that dies leaves a full pool behind, and an idle processor.
LEMMA CrashSeen ==
  ASSUME SharedInv, NEW i \in Instances, Crash(i), poll = [j \in Instances |-> poll[j]],
         poll' = [poll EXCEPT ![i] = "idle"]
  PROVE  Service!Crash(i)
<1>1. \A j \in Instances : connsBar'[j] = IF j = i THEN MaxConns ELSE connsBar[j]
  BY DEF Crash, SharedInv, connsBar
<1>2. connsBar' = [connsBar EXCEPT ![i] = MaxConns]
  BY <1>1 DEF connsBar
<1>3. UNCHANGED eventsBar
  BY RowsSeen DEF Crash, tables
<1> QED
  BY <1>2, <1>3 DEF Crash, Service!Crash, Abandoned, Service!Abandoned, tables,
     Service!tables, locals, Service!locals, InFlight, Service!InFlight, Reading,
     Service!Reading, HoldsConn, Service!HoldsConn, InTx, Service!InTx

\* The service sees a row where there is one.
LEMMA EventSeen ==
  ASSUME SharedInv, NEW r \in Requests
  PROVE  eventsBar[r] = NULL <=> outbox_events[r] = NULL
<1>1. outbox_events[r] # NULL =>
        [outbox_events[r] EXCEPT !.published_at = NULL] \in EventRow
  BY DEF SharedInv, EventRow
<1> QED BY <1>1, NullRowAssumption DEF eventsBar

\* The COMMIT of a create with an event is the Add of the processor, without one it
\* is nothing to it.
LEMMA AddSeen ==
  ASSUME Service!Inv, SharedInv, NEW r \in Requests, tx[r] # NULL, Apply(r),
         UNCHANGED processor
  PROVE  [Outbox!Next]_(Outbox!vars)
<1>1. tx[r].event # NULL => tx[r].event \in Event
  BY DEF Service!Inv, Service!TypeOK, Service!Tx, Service!Event, Event, Service!Link,
     Link, Service!NewAccountLink, NewAccountLink, Service!TrimSpace, TrimSpace
<1>2. CASE tx[r].event = NULL
  BY <1>2, RowsSeen DEF Apply, processor, Outbox!vars, Outbox!locals
<1>3. CASE tx[r].event # NULL
  <2>1. eventsBar[r] = NULL
    BY DEF Service!Inv, Service!TxInv, Service!TxOK, Service!LinkInv
  <2>2. outbox_events[r] = NULL
    BY <2>1, EventSeen
  <2>3. outbox_events' = [outbox_events EXCEPT ![r] = tx[r].event]
    BY <1>3 DEF Apply
  <2> DEFINE t == tx[r].event.created_at
  <2>4. t \in Times /\ tx[r].event.published_at = NULL
    BY <1>1, <1>3 DEF Event
  <2>5. \A e \in Requests : rowsBar'[e] = IF e = r THEN Outbox!Row(t) ELSE rowsBar[e]
    BY <1>3, <2>3, <2>4 DEF rowsBar, SharedInv, Outbox!Row
  <2>6. rowsBar' = [rowsBar EXCEPT ![r] = Outbox!Row(t)]
    BY <2>5 DEF rowsBar
  <2>7. Outbox!Add(r)
    BY <2>2, <2>4, <2>6 DEF Outbox!Add, rowsBar, processor, Outbox!locals
  <2> QED BY <2>7 DEF Outbox!Next
<1> QED BY <1>2, <1>3

-----------------------------------------------------------------------------
(* Steps of the processor                                                   *)

\* The processor sees a row where there is one, and whether it is published.
LEMMA PendingSeen ==
  ASSUME SharedInv, NEW e \in Requests
  PROVE  /\ rowsBar[e] # NULL <=> outbox_events[e] # NULL
         /\ Outbox!Pending(e) <=> D!Pending(e)
<1>1. outbox_events[e] \in EventRow \cup {NULL}
  BY DEF SharedInv
<1>2. outbox_events[e] # NULL =>
        [created_at |-> outbox_events[e].created_at,
         published_at |-> outbox_events[e].published_at] # NULL
  <2>1. outbox_events[e] # NULL =>
          [created_at |-> outbox_events[e].created_at,
           published_at |-> outbox_events[e].published_at] \in D!Rows
    BY <1>1 DEF EventRow, D!Rows
  <2> QED BY <2>1, NullRowAssumption
<1> QED BY <1>1, <1>2 DEF rowsBar, Outbox!Pending, D!Pending

\* ORDER BY created_at is the same order.
LEMMA OrderSeen ==
  ASSUME NEW e \in Requests, NEW f \in Requests, outbox_events[e] # NULL,
         outbox_events[f] # NULL
  PROVE  Outbox!NoLater(e, f) <=> D!NoLater(e, f)
BY DEF rowsBar, Outbox!NoLater, D!NoLater

\* The SELECT ranges over the same rows.
LEMMA ClaimableSeen ==
  ASSUME SharedInv
  PROVE  Outbox!Claimable = D!Claimable
<1>1. Outbox!LockedRows = D!LockedRows
  BY Zenon DEF Outbox!LockedRows, D!LockedRows
<1> QED BY <1>1, PendingSeen DEF Outbox!Claimable, D!Claimable

\* The loop takes the batch in the same order, even a processor whose session is gone.
LEMMA OldestSeen ==
  ASSUME HeardInv, Outbox!Inv, NEW p \in Instances
  PROVE  Outbox!Oldest(p) = D!Oldest(p)
<1>1. \A e \in todo[p] : e \in Requests /\ outbox_events[e] # NULL
  BY DEF HeardInv, Outbox!Inv, Outbox!TypeOK
<1> QED BY <1>1, OrderSeen DEF Outbox!Oldest, D!Oldest

\* LIMIT counts the same rows.
LEMMA BatchSeen ==
  ASSUME SharedInv, NEW b \in SUBSET D!Claimable, D!IsBatch(b)
  PROVE  Outbox!IsBatch(b)
<1>1. \A e \in D!Claimable : e \in Requests /\ outbox_events[e] # NULL
  BY DEF D!Claimable, D!Pending
<1>2. Outbox!Cardinality(b) = D!Cardinality(b)
  BY Zenon DEF Outbox!Cardinality, D!Cardinality
<1> QED BY <1>1, <1>2, OrderSeen, ClaimableSeen DEF Outbox!IsBatch, D!IsBatch

\* A step takes no row of outbox_events away.
RowsKept ==
  /\ outbox_events' \in [Requests -> EventRow \cup {NULL}]
  /\ \A e \in Requests : outbox_events[e] # NULL => outbox_events'[e] # NULL

\* The COMMIT of a processor stamps committed rows, and the service sees nothing of it.
LEMMA StampSeen ==
  ASSUME SharedInv, NEW t, t.stamp \in [Requests -> Times \cup {NULL}],
         \A e \in Requests : t.stamp[e] # NULL => outbox_events[e] # NULL,
         outbox_events' = D!Apply(t)
  PROVE  /\ rowsBar' = Outbox!Apply(t)
         /\ UNCHANGED eventsBar
         /\ RowsKept
<1>1. \A e \in Requests :
        outbox_events'[e] = IF t.stamp[e] = NULL THEN outbox_events[e]
                            ELSE [outbox_events[e] EXCEPT !.published_at = t.stamp[e]]
  BY DEF D!Apply
<1>2. \A e \in Requests : outbox_events[e] \in EventRow \cup {NULL}
  BY DEF SharedInv
<1>3. ASSUME NEW e \in Requests, t.stamp[e] # NULL
      PROVE  /\ outbox_events'[e] \in EventRow
             /\ outbox_events'[e].created_at = outbox_events[e].created_at
             /\ outbox_events'[e].published_at = t.stamp[e]
             /\ [outbox_events'[e] EXCEPT !.published_at = NULL]
                  = [outbox_events[e] EXCEPT !.published_at = NULL]
  <2>1. outbox_events'[e] = [outbox_events[e] EXCEPT !.published_at = t.stamp[e]]
    BY <1>1, <1>3
  <2>2. outbox_events[e] \in EventRow /\ t.stamp[e] \in Times
    BY <1>2, <1>3
  <2>3. outbox_events'[e] \in EventRow
    BY <2>1, <2>2 DEF EventRow
  <2> QED BY <2>1, <2>2, <2>3 DEF EventRow
<1>4. \A e \in Requests : t.stamp[e] # NULL => outbox_events'[e] # NULL
  BY <1>3, NullRowAssumption
<1>5. \A e \in Requests : eventsBar'[e] = eventsBar[e]
  BY <1>1, <1>3, <1>4 DEF eventsBar
<1>6. UNCHANGED eventsBar
  BY <1>5 DEF eventsBar
<1>7. \A e \in Requests : rowsBar'[e] = Outbox!Apply(t)[e]
  BY <1>1, <1>3, <1>4 DEF rowsBar, Outbox!Apply
<1>8. rowsBar' = Outbox!Apply(t)
  BY <1>7 DEF rowsBar, Outbox!Apply
<1>9. RowsKept
  <2>1. \A e \in Requests : D!Apply(t)[e] \in EventRow \cup {NULL}
    BY <1>1, <1>2, <1>3
  <2>2. D!Apply(t) \in [Requests -> EventRow \cup {NULL}]
    BY <2>1 DEF D!Apply
  <2> QED BY <1>1, <1>4, <2>2 DEF RowsKept
<1> QED BY <1>6, <1>8, <1>9

\* Nobody hears of an event before its row is committed, if rows stay.
LEMMA Heard ==
  ASSUME HeardInv, RowsKept,
         \A i \in Instances : \A e \in todo'[i] :
            e \in Requests /\ (e \in todo[i] \/ outbox_events[e] # NULL),
         \A e \in Requests : delivered'[e] = delivered[e] \/ outbox_events[e] # NULL
  PROVE  HeardInv'
BY DEF HeardInv, RowsKept

\* A step that leaves outbox_events alone.
LEMMA SameRows ==
  ASSUME SharedInv, UNCHANGED outbox_events
  PROVE  RowsKept /\ UNCHANGED eventsBar /\ UNCHANGED rowsBar
BY RowsSeen DEF SharedInv, RowsKept

\* An open transaction marks committed rows only.
LEMMA TxStamps ==
  ASSUME Outbox!Inv, SharedInv, NEW p \in Instances, ptx[p] # NULL
  PROVE  /\ ptx[p].stamp \in [Requests -> Times \cup {NULL}]
         /\ \A e \in Requests : ptx[p].stamp[e] # NULL => outbox_events[e] # NULL
<1>1. ptx[p] \in Outbox!Tx /\ Outbox!TxSound(ptx[p])
  BY DEF Outbox!Inv, Outbox!TypeOK, Outbox!ClaimInv
<1> QED
  BY <1>1, PendingSeen DEF Outbox!TxSound, Outbox!Stamped, Outbox!Tx, Outbox!Stamps,
     Outbox!Pending

\* So does an abandoned one.
LEMMA GhostStamps ==
  ASSUME Outbox!Inv, SharedInv, NEW g \in ghosts
  PROVE  /\ g.stamp \in [Requests -> Times \cup {NULL}]
         /\ \A e \in Requests : g.stamp[e] # NULL => outbox_events[e] # NULL
<1>1. g \in Outbox!Ghost /\ Outbox!TxSound(g)
  BY DEF Outbox!Inv, Outbox!TypeOK, Outbox!ClaimInv
<1> QED
  BY <1>1, PendingSeen DEF Outbox!TxSound, Outbox!Stamped, Outbox!Ghost, Outbox!Stamps,
     Outbox!Pending

\* What a step of a processor is to the rest.
PollSeen == /\ Outbox!Next
            /\ RowsKept /\ HeardInv'
            /\ UNCHANGED eventsBar

\* The shapes of the processor's variables.
LEMMA Todo ==
  ASSUME Outbox!Inv
  PROVE  /\ \A i \in Instances : todo[i] \in SUBSET Requests
         /\ todo = [i \in Instances |-> todo[i]]
         /\ delivered = [e \in Requests |-> delivered[e]]
         /\ poll = [i \in Instances |-> poll[i]]
BY DEF Outbox!Inv, Outbox!TypeOK

\* BEGIN of PublishOnce.
LEMMA BeginPolled ==
  ASSUME PlatformInv, NEW p \in Instances, D!Begin(p)
  PROVE  PollSeen /\ Outbox!Begin(p)
<1>1. Outbox!Begin(p)
  BY RowsSeen DEF D!Begin, Outbox!Begin, D!Goto, Outbox!Goto, D!EmptyTx, Outbox!EmptyTx,
     D!locals, Outbox!locals
<1>2. RowsKept /\ UNCHANGED eventsBar
  BY SameRows DEF PlatformInv, D!Begin
<1>3. HeardInv'
  BY <1>2, Heard, Todo DEF PlatformInv, D!Begin, D!locals
<1> QED BY <1>1, <1>2, <1>3 DEF PollSeen, Outbox!Next, Outbox!Work

\* The SELECT claims committed rows.
LEMMA FindPolled ==
  ASSUME PlatformInv, NEW p \in Instances, D!FindUnpublishedForUpdateSkipLocked(p)
  PROVE  PollSeen
<1>1. PICK b \in SUBSET D!Claimable : /\ D!IsBatch(b)
                                      /\ ptx' = [ptx EXCEPT ![p].locked = b]
                                      /\ D!Loop(p, b)
  BY DEF D!FindUnpublishedForUpdateSkipLocked
<1>2. RowsKept /\ UNCHANGED eventsBar /\ UNCHANGED rowsBar
  BY SameRows DEF PlatformInv, D!FindUnpublishedForUpdateSkipLocked
<1>3. b \in SUBSET Outbox!Claimable /\ Outbox!IsBatch(b)
  BY <1>1, ClaimableSeen, BatchSeen DEF PlatformInv
<1>4. Outbox!Loop(p, b)
  BY <1>1 DEF D!Loop, Outbox!Loop, D!Forget, Outbox!Forget, D!Goto, Outbox!Goto
<1>5. Outbox!FindUnpublishedForUpdateSkipLocked(p)
  BY <1>1, <1>2, <1>3, <1>4 DEF D!FindUnpublishedForUpdateSkipLocked,
     Outbox!FindUnpublishedForUpdateSkipLocked
<1>6. \A e \in b : e \in Requests /\ outbox_events[e] # NULL
  BY DEF D!Claimable, D!Pending
<1>7. \A i \in Instances : todo'[i] = IF i = p THEN b ELSE todo[i]
  BY <1>1, Todo DEF D!Loop, PlatformInv
<1>8. HeardInv'
  BY <1>2, <1>6, <1>7, Heard, Todo DEF PlatformInv, D!FindUnpublishedForUpdateSkipLocked
<1> QED BY <1>2, <1>5, <1>8 DEF PollSeen, Outbox!Next, Outbox!Work

\* Publish announces a row of the batch, which is committed although the session may
\* be lost.
LEMMA PublishPolled ==
  ASSUME PlatformInv, NEW p \in Instances, D!Publish(p)
  PROVE  PollSeen
<1>1. PICK e \in D!Oldest(p), t \in Times : /\ cur' = [cur EXCEPT ![p] = e]
                                            /\ now' = [now EXCEPT ![p] = t]
                                            /\ D!Accept(e, t)
  BY DEF D!Publish
<1>2. RowsKept /\ UNCHANGED eventsBar /\ UNCHANGED rowsBar
  BY SameRows DEF PlatformInv, D!Publish
<1>3. e \in Outbox!Oldest(p) /\ Outbox!Accept(e, t)
  BY <1>1, OldestSeen DEF PlatformInv, D!Accept, Outbox!Accept
<1>4. Outbox!Publish(p)
  BY <1>1, <1>2, <1>3 DEF D!Publish, Outbox!Publish, D!Goto, Outbox!Goto
<1>5. e \in Requests /\ outbox_events[e] # NULL
  BY <1>1, Todo DEF D!Oldest, PlatformInv, HeardInv
<1>6. \A f \in Requests : f # e => delivered'[f] = delivered[f]
  BY <1>1, Todo DEF D!Accept, PlatformInv
<1>7. HeardInv'
  BY <1>2, <1>5, <1>6, Heard, Todo DEF PlatformInv, D!Publish
<1> QED BY <1>2, <1>4, <1>7 DEF PollSeen, Outbox!Next, Outbox!Work

\* The UPDATE is pending in the transaction.
LEMMA MarkPolled ==
  ASSUME PlatformInv, NEW p \in Instances, D!MarkPublished(p)
  PROVE  PollSeen
<1>1. RowsKept /\ UNCHANGED eventsBar /\ UNCHANGED rowsBar
  BY SameRows DEF PlatformInv, D!MarkPublished
<1>2. Outbox!MarkPublished(p)
  BY <1>1 DEF D!MarkPublished, Outbox!MarkPublished, D!Loop, Outbox!Loop, D!Forget,
     Outbox!Forget, D!Goto, Outbox!Goto
<1>3. \A i \in Instances : todo'[i] = IF i = p THEN todo[p] \ {cur[p]} ELSE todo[i]
  BY Todo DEF D!MarkPublished, D!Loop, PlatformInv
<1>4. HeardInv'
  BY <1>1, <1>3, Heard, Todo DEF PlatformInv, D!MarkPublished
<1> QED BY <1>1, <1>2, <1>4 DEF PollSeen, Outbox!Next, Outbox!Work

\* The COMMIT of a batch.
LEMMA CommitPolled ==
  ASSUME PlatformInv, NEW p \in Instances, D!Commit(p)
  PROVE  PollSeen
<1>1. /\ rowsBar' = Outbox!Apply(ptx[p])
      /\ UNCHANGED eventsBar
      /\ RowsKept
  BY TxStamps, StampSeen DEF PlatformInv, D!Commit
<1>2. Outbox!Commit(p)
  BY <1>1 DEF D!Commit, Outbox!Commit, D!Goto, Outbox!Goto, D!locals, Outbox!locals
<1>3. HeardInv'
  BY <1>1, Heard, Todo DEF PlatformInv, D!Commit, D!locals
<1> QED BY <1>1, <1>2, <1>3 DEF PollSeen, Outbox!Next, Outbox!Work

\* PublishOnce returns nil.
LEMMA AckPolled ==
  ASSUME PlatformInv, NEW p \in Instances, D!Ack(p)
  PROVE  PollSeen
<1>1. RowsKept /\ UNCHANGED eventsBar /\ UNCHANGED rowsBar
  BY SameRows DEF PlatformInv, D!Ack
<1>2. Outbox!Ack(p)
  BY <1>1 DEF D!Ack, Outbox!Ack, D!Goto, Outbox!Goto, D!locals, Outbox!locals
<1>3. HeardInv'
  BY <1>1, Heard, Todo DEF PlatformInv, D!Ack, D!locals
<1> QED BY <1>1, <1>2, <1>3 DEF PollSeen, Outbox!Next, Outbox!Work

\* PublishOnce fails, its message accepted or not.
LEMMA FailPolled ==
  ASSUME PlatformInv, NEW p \in Instances, D!Fail(p)
  PROVE  PollSeen
<1>1. RowsKept /\ UNCHANGED eventsBar /\ UNCHANGED rowsBar
  BY SameRows DEF PlatformInv, D!Fail
<1>2. Outbox!Oldest(p) = D!Oldest(p)
  BY OldestSeen DEF PlatformInv
<1>3. Outbox!Fail(p)
  BY <1>1, <1>2 DEF D!Fail, Outbox!Fail, D!GiveUp, Outbox!GiveUp, D!Forget,
     Outbox!Forget, D!Goto, Outbox!Goto, D!Fault, Outbox!Fault, D!InFlight,
     Outbox!InFlight, D!Accept, Outbox!Accept
<1>4. \A i \in Instances : todo'[i] \subseteq todo[i]
  BY Todo DEF D!Fail, D!GiveUp, PlatformInv
<1>5. \A e \in Requests : delivered'[e] = delivered[e] \/ e \in todo[p]
  BY Todo DEF D!Fail, D!Accept, D!Oldest, PlatformInv
<1>6. HeardInv'
  <2>1. \A e \in todo[p] : outbox_events[e] # NULL
    BY DEF PlatformInv, HeardInv
  <2> QED BY <1>1, <1>4, <1>5, <2>1, Heard, Todo DEF PlatformInv
<1> QED BY <1>1, <1>3, <1>6 DEF PollSeen, Outbox!Next

\* The server ends the session.
LEMMA LoseSessionPolled ==
  ASSUME PlatformInv, NEW p \in Instances, D!LoseSession(p)
  PROVE  PollSeen
<1>1. RowsKept /\ UNCHANGED eventsBar /\ UNCHANGED rowsBar
  BY SameRows DEF PlatformInv, D!LoseSession
<1>2. Outbox!LoseSession(p)
  BY <1>1 DEF D!LoseSession, Outbox!LoseSession, D!Fault, Outbox!Fault, D!locals,
     Outbox!locals
<1>3. HeardInv'
  BY <1>1, Heard, Todo DEF PlatformInv, D!LoseSession, D!locals
<1> QED BY <1>1, <1>2, <1>3 DEF PollSeen, Outbox!Next

\* The processor learns of it.
LEMMA FindSessionLostPolled ==
  ASSUME PlatformInv, NEW p \in Instances, D!FindSessionLost(p)
  PROVE  PollSeen
<1>1. RowsKept /\ UNCHANGED eventsBar /\ UNCHANGED rowsBar
  BY SameRows DEF PlatformInv, D!FindSessionLost
<1>2. Outbox!FindSessionLost(p)
  BY <1>1 DEF D!FindSessionLost, Outbox!FindSessionLost, D!GiveUp, Outbox!GiveUp,
     D!Forget, Outbox!Forget, D!Goto, Outbox!Goto
<1>3. \A i \in Instances : todo'[i] \subseteq todo[i]
  BY Todo DEF D!FindSessionLost, D!GiveUp, PlatformInv
<1>4. HeardInv'
  BY <1>1, <1>3, Heard, Todo DEF PlatformInv, D!FindSessionLost
<1> QED BY <1>1, <1>2, <1>4 DEF PollSeen, Outbox!Next, Outbox!Work

\* The server ends an abandoned transaction of a processor, its late COMMIT included.
LEMMA GhostPolled ==
  ASSUME PlatformInv, NEW g \in ghosts, D!Reap(g)
  PROVE  PollSeen
<1>1. CASE UNCHANGED outbox_events
  <2>1. RowsKept /\ UNCHANGED eventsBar /\ UNCHANGED rowsBar
    BY <1>1, SameRows DEF PlatformInv
  <2>2. Outbox!Reap(g)
    BY <2>1 DEF D!Reap, Outbox!Reap, D!locals, Outbox!locals
  <2>3. HeardInv'
    BY <2>1, Heard, Todo DEF PlatformInv, D!Reap, D!locals
  <2> QED BY <2>1, <2>2, <2>3 DEF PollSeen, Outbox!Next
<1>2. CASE g.committing /\ outbox_events' = D!Apply(g)
  <2>1. /\ rowsBar' = Outbox!Apply(g)
        /\ UNCHANGED eventsBar
        /\ RowsKept
    BY <1>2, GhostStamps, StampSeen DEF PlatformInv
  <2>2. Outbox!Reap(g)
    BY <1>2, <2>1 DEF D!Reap, Outbox!Reap, D!locals, Outbox!locals
  <2>3. HeardInv'
    BY <2>1, Heard, Todo DEF PlatformInv, D!Reap, D!locals
  <2> QED BY <2>1, <2>2, <2>3 DEF PollSeen, Outbox!Next
<1> QED BY <1>1, <1>2 DEF D!Reap

-----------------------------------------------------------------------------
(* Steps of the platform                                                    *)

\* The processor's connection is not of the pool the service sees.
LEMMA PollConns ==
  ASSUME SharedInv, Outbox!Inv, NEW p \in Instances, NEW l,
         poll' = [poll EXCEPT ![p] = l],
         \/ Take(p) /\ poll[p] = "idle" /\ l # "idle"
         \/ UNCHANGED conns /\ poll[p] # "idle" /\ l # "idle"
         \/ GiveBack(p) /\ poll[p] # "idle" /\ l = "idle"
  PROVE  UNCHANGED connsBar /\ conns' \in [Instances -> Nat]
<1>1. /\ conns = [i \in Instances |-> conns[i]]
      /\ \A i \in Instances : conns[i] \in Nat
  BY DEF SharedInv
<1>2. poll = [i \in Instances |-> poll[i]]
  BY Todo
<1>3. \A i \in Instances : connsBar'[i] = connsBar[i]
  BY <1>1, <1>2 DEF Take, GiveBack, connsBar
<1>4. UNCHANGED connsBar
  BY <1>3 DEF connsBar
<1>5. conns' \in [Instances -> Nat]
  BY DEF SharedInv, Take, GiveBack
<1> QED BY <1>4, <1>5

\* What a step of the platform is to its two components, and what it keeps.
StepSeen == /\ [Service!Next]_(Service!vars)
            /\ [Outbox!Next]_(Outbox!vars)
            /\ SharedInv' /\ HeardInv'

\* A step of the processor is none to the service.
LEMMA PollStep ==
  ASSUME PlatformInv, PollSeen, UNCHANGED service, UNCHANGED connsBar,
         conns' \in [Instances -> Nat]
  PROVE  StepSeen
<1>1. UNCHANGED Service!vars
  BY DEF PollSeen, service, locals, Service!vars, Service!tables
<1> QED BY <1>1 DEF PollSeen, StepSeen, SharedInv, RowsKept

\* Every call of PublishOnce that succeeds, with the connection it takes, holds or
\* gives back.
LEMMA PollingStep ==
  ASSUME PlatformInv, NEW p \in Instances, Polling(p)
  PROVE  StepSeen
<1> USE DEF PlatformInv
<1>1. CASE D!Begin(p) /\ Take(p)
  BY <1>1, BeginPolled, PollConns, PollStep DEF D!Begin, D!Goto, Polling
<1>2. CASE D!FindUnpublishedForUpdateSkipLocked(p) /\ UNCHANGED conns
  <2>1. PICK l \in {"publish", "commit"} : poll' = [poll EXCEPT ![p] = l]
    BY <1>2 DEF D!FindUnpublishedForUpdateSkipLocked, D!Loop, D!Goto
  <2> QED
    BY <1>2, <2>1, FindPolled, PollConns, PollStep DEF
       D!FindUnpublishedForUpdateSkipLocked, Polling
<1>3. CASE D!Publish(p) /\ UNCHANGED conns
  BY <1>3, PublishPolled, PollConns, PollStep DEF D!Publish, D!Goto, Polling
<1>4. CASE D!MarkPublished(p) /\ UNCHANGED conns
  <2>1. PICK l \in {"publish", "commit"} : poll' = [poll EXCEPT ![p] = l]
    BY <1>4 DEF D!MarkPublished, D!Loop, D!Goto
  <2> QED BY <1>4, <2>1, MarkPolled, PollConns, PollStep DEF D!MarkPublished, Polling
<1>5. CASE D!Commit(p) /\ UNCHANGED conns
  BY <1>5, CommitPolled, PollConns, PollStep DEF D!Commit, D!Goto, Polling
<1>6. CASE D!Ack(p) /\ GiveBack(p)
  BY <1>6, AckPolled, PollConns, PollStep DEF D!Ack, D!Goto, Polling
<1>7. CASE D!FindSessionLost(p) /\ GiveBack(p)
  BY <1>7, FindSessionLostPolled, PollConns, PollStep DEF D!FindSessionLost, D!GiveUp,
     D!Goto, Polling
<1> QED BY <1>1, <1>2, <1>3, <1>4, <1>5, <1>6, <1>7 DEF Polling

\* A failed PublishOnce gives its connection back.
LEMMA PollFailsStep ==
  ASSUME PlatformInv, NEW p \in Instances, PollFails(p)
  PROVE  StepSeen
BY FailPolled, PollConns, PollStep DEF PlatformInv, PollFails, D!Fail, D!GiveUp, D!Goto,
   D!InFlight

\* The end of a session leaves the pool alone.
LEMMA SessionEndsStep ==
  ASSUME PlatformInv, NEW p \in Instances, SessionEnds(p)
  PROVE  StepSeen
<1>1. UNCHANGED connsBar /\ conns' \in [Instances -> Nat]
  BY DEF PlatformInv, SharedInv, SessionEnds, D!LoseSession, connsBar
<1> QED BY <1>1, LoseSessionPolled, PollStep DEF PlatformInv, SessionEnds

\* So does the end of an abandoned transaction.
LEMMA GhostEndsStep ==
  ASSUME PlatformInv, GhostEnds
  PROVE  StepSeen
<1>1. UNCHANGED connsBar /\ conns' \in [Instances -> Nat]
  BY DEF PlatformInv, SharedInv, GhostEnds, D!Reap, connsBar
<1> QED BY <1>1, GhostPolled, PollStep DEF PlatformInv, GhostEnds

\* A step of the requests while the processor stands still.
LEMMA StillHeard ==
  ASSUME PlatformInv, RowsKept, UNCHANGED processor
  PROVE  HeardInv'
BY Heard, Todo DEF PlatformInv, processor

\* The processor does not notice a step of the requests that commits no event.
LEMMA RowsUntouched ==
  ASSUME PlatformInv, UNCHANGED outbox_events, UNCHANGED processor
  PROVE  /\ [Outbox!Next]_(Outbox!vars)
         /\ HeardInv'
         /\ outbox_events' \in [Requests -> EventRow \cup {NULL}]
<1>1. RowsKept /\ UNCHANGED rowsBar
  BY SameRows DEF PlatformInv
<1> QED BY <1>1, StillHeard DEF processor, Outbox!vars, Outbox!locals, RowsKept

\* It notices the others as Add.
LEMMA RowAdded ==
  ASSUME PlatformInv, NEW r \in Requests, tx[r] # NULL, Apply(r), UNCHANGED processor
  PROVE  /\ [Outbox!Next]_(Outbox!vars)
         /\ HeardInv'
         /\ outbox_events' \in [Requests -> EventRow \cup {NULL}]
<1>1. tx[r].event # NULL => tx[r].event \in EventRow
  BY DEF PlatformInv, Service!Inv, Service!TypeOK, Service!Tx, Service!Event, EventRow,
     Service!Link, Link, Service!NewAccountLink, NewAccountLink, Service!TrimSpace,
     TrimSpace
<1>2. RowsKept
  BY <1>1 DEF PlatformInv, SharedInv, Apply, RowsKept
<1> QED BY <1>2, AddSeen, StillHeard DEF PlatformInv, RowsKept

\* Arrivals.
LEMMA ArrivingStep ==
  ASSUME PlatformInv, NEW r \in Requests, NEW i \in Instances, Arriving(r, i)
  PROVE  StepSeen
<1>1. UNCHANGED outbox_events /\ UNCHANGED conns
  BY DEF Arriving, Arrive, CreateAccountLink, GetAccountLink, tables
<1>2. Service!Next
  BY ArriveSeen DEF Arriving, processor, Service!Next
<1> QED BY <1>1, <1>2, RowsUntouched DEF Arriving, PlatformInv, SharedInv, StepSeen

\* A pool has a natural number of connections.
LEMMA ConnsKept ==
  ASSUME SharedInv, NEW r \in Requests, at[r] \in Instances,
         Acquire(r) \/ Release(r) \/ UNCHANGED conns
  PROVE  conns' \in [Instances -> Nat]
BY DEF SharedInv, Acquire, Available, Release

\* Calls of requests that succeed.
LEMMA ServingStep ==
  ASSUME PlatformInv, NEW r \in Requests, Serving(r)
  PROVE  StepSeen
<1>1. Service!Next
  BY ServeSeen DEF Serving, PlatformInv, processor, Service!Next
<1>2. Commit(r) \/ UNCHANGED outbox_events
  BY DEF Serving, Serve, FindByKey, Begin, Save, TryInsert, AddOutbox, Ack,
     FindByKeyAgain, FindReplayed, GetByID, tables
<1>3. Commit(r) => tx[r] # NULL /\ Apply(r)
  BY DEF Commit, PlatformInv, Service!Inv, Service!TxInv, Service!TxOK, Service!InTx
<1>4. pc[r] # "new" => at[r] \in Instances
  BY DEF PlatformInv, Service!Inv, Service!CallInv
<1>5. pc[r] # "new" /\ (Acquire(r) \/ Release(r) \/ UNCHANGED conns)
  BY DEF Serving, Serve, FindByKey, Begin, Save, TryInsert, AddOutbox, Commit, Ack,
     FindByKeyAgain, FindReplayed, GetByID
<1>6. conns' \in [Instances -> Nat]
  BY <1>4, <1>5, ConnsKept DEF PlatformInv
<1> QED
  BY <1>1, <1>2, <1>3, <1>6, RowsUntouched, RowAdded DEF Serving, SharedInv, StepSeen

\* Calls that fail.
LEMMA FailingStep ==
  ASSUME PlatformInv, NEW r \in Requests, Failing(r)
  PROVE  StepSeen
<1>1. Service!Next
  BY FailSeen DEF Failing, PlatformInv, processor, Service!Next
<1>2. at[r] \in Instances
  BY DEF Failing, Fail, InFlight, Reading, HoldsConn, InTx, PlatformInv, Service!Inv,
     Service!CallInv
<1>3. conns' \in [Instances -> Nat]
  BY <1>2, ConnsKept DEF Failing, Fail, PlatformInv
<1> QED
  BY <1>1, <1>3, RowsUntouched DEF Failing, Fail, tables, SharedInv, StepSeen

\* Abandoned transactions of requests.
LEMMA EndingStep ==
  ASSUME PlatformInv, NEW r \in Requests, Ending(r)
  PROVE  StepSeen
<1>1. Service!Next
  BY ReapSeen DEF Ending, PlatformInv, processor, Service!Next
<1>2. conns' \in [Instances -> Nat]
  BY DEF Ending, Reap, PlatformInv, SharedInv
<1> QED
  BY <1>1, <1>2, RowsUntouched, RowAdded DEF Ending, Reap, tables, SharedInv, StepSeen

\* The process dies: a Crash of the service and a Fail of its processor, or nothing
\* to an idle one.
LEMMA ProcessDiesStep ==
  ASSUME PlatformInv, NEW i \in Instances, ProcessDies(i)
  PROVE  StepSeen
<1>1. poll = [j \in Instances |-> poll[j]]
  BY Todo DEF PlatformInv
<1>2. poll' = [poll EXCEPT ![i] = "idle"]
  BY <1>1 DEF ProcessDies, D!Fail, D!GiveUp, D!Goto, processor
<1>3. Service!Next
  BY <1>1, <1>2, CrashSeen DEF ProcessDies, PlatformInv, Service!Next
<1>4. conns' \in [Instances -> Nat]
  BY ConnsAssumption DEF ProcessDies, Crash, PlatformInv, SharedInv
<1>5. CASE D!Fail(i)
  BY <1>3, <1>4, <1>5, FailPolled DEF PollSeen, RowsKept, StepSeen, SharedInv
<1>6. CASE UNCHANGED processor
  BY <1>3, <1>4, <1>6, RowsUntouched DEF ProcessDies, Crash, tables, SharedInv, StepSeen
<1> QED BY <1>5, <1>6 DEF ProcessDies

\* Stuttering.
LEMMA StutterStep ==
  ASSUME PlatformInv, UNCHANGED all
  PROVE  StepSeen
<1>1. UNCHANGED outbox_events /\ UNCHANGED conns /\ UNCHANGED processor
  BY DEF all, vars, tables
<1>2. UNCHANGED Service!vars
  BY <1>1, RowsSeen DEF all, vars, tables, Service!vars, Service!tables, connsBar,
     processor
<1> QED BY <1>1, <1>2, RowsUntouched DEF PlatformInv, SharedInv, StepSeen

\* Every step of the platform is a step of each component, or none.
LEMMA Step ==
  ASSUME PlatformInv, [PlatformNext]_all
  PROVE  StepSeen
BY ArrivingStep, ServingStep, FailingStep, EndingStep, PollingStep, PollFailsStep,
   SessionEndsStep, ProcessDiesStep, GhostEndsStep, StutterStep DEF PlatformNext

\* Each component keeps its own invariant.
LEMMA NextPlatformInv ==
  ASSUME PlatformInv, [PlatformNext]_all
  PROVE  PlatformInv'
<1>1. StepSeen
  BY Step
<1>2. Service!Inv'
  <2>1. S!Inv /\ [S!Next]_(S!vars)
    BY <1>1, SameService, SameServiceInv DEF PlatformInv, StepSeen
  <2>2. S!Inv'
    BY <2>1, ServiceKept
  <2> QED BY <2>2, SameServiceInv
<1>3. Outbox!Inv'
  <2>1. O!Inv /\ [O!Next]_(O!vars)
    BY <1>1, SameOutbox DEF PlatformInv, StepSeen
  <2>2. O!Inv'
    BY <2>1, OutboxKept
  <2> QED BY <2>2, SameOutbox
<1> QED BY <1>1, <1>2, <1>3 DEF PlatformInv, StepSeen

\* The platform starts as its components do.
LEMMA PlatformStarts ==
  ASSUME PlatformInit
  PROVE  Service!Init /\ Outbox!Init /\ PlatformInv
<1>1. Service!Init
  BY ConnsAssumption DEF PlatformInit, Init, D!Init, Service!Init, eventsBar, connsBar
<1>2. Outbox!Init
  BY DEF PlatformInit, Init, D!Init, Outbox!Init, rowsBar
<1>3. Service!Inv
  <2>1. S!Init
    BY <1>1, SameService
  <2>2. S!Inv
    BY <2>1, ServiceStarts
  <2> QED BY <2>2, SameServiceInv
<1>4. Outbox!Inv
  <2>1. O!Init
    BY <1>2, SameOutbox
  <2>2. O!Inv
    BY <2>1, OutboxStarts
  <2> QED BY <2>2, SameOutbox
<1>5. SharedInv /\ HeardInv
  BY ConnsAssumption DEF PlatformInit, Init, D!Init, SharedInv, HeardInv
<1> QED BY <1>1, <1>2, <1>3, <1>4, <1>5 DEF PlatformInv

-----------------------------------------------------------------------------
(* The platform                                                             *)

\* The invariants of both components, and what only the composition knows, hold in
\* every state of the platform.
THEOREM PlatformInvariance == PlatformSpec => []PlatformInv
<1>1. PlatformInit => PlatformInv
  BY PlatformStarts
<1>2. PlatformInv /\ [PlatformNext]_all => PlatformInv'
  BY NextPlatformInv
<1> QED BY <1>1, <1>2, PTL DEF PlatformSpec

\* The processor is to the requests nothing but a slower pool: it changes of their
\* rows only published_at (outbox_store.go:80-86).
THEOREM ServiceImplemented == PlatformSpec => ImplementsService
<1>1. PlatformInit => Service!Init
  BY PlatformStarts
<1>2. PlatformInv /\ [PlatformNext]_all => [Service!Next]_(Service!vars)
  BY Step DEF StepSeen
<1> QED
  BY <1>1, <1>2, PlatformInvariance, PTL DEF PlatformSpec, ImplementsService,
     Service!Spec

\* The service is to the processor nothing but its action Add: each event appears once,
\* unpublished, in one step (accountlink_service.go:231-239).
THEOREM OutboxImplemented == PlatformSpec => ImplementsOutbox
<1>1. PlatformInit => Outbox!Init
  BY PlatformStarts
<1>2. PlatformInv /\ [PlatformNext]_all => [Outbox!Next]_(Outbox!vars)
  BY Step DEF StepSeen
<1> QED
  BY <1>1, <1>2, PlatformInvariance, PTL DEF PlatformSpec, ImplementsOutbox, Outbox!Spec

\* Subscribers hear only of links that are committed and, if keyed, bound to their key
\* (accountlink_service.go:140-154, outbox_processor.go:101-118).
THEOREM AnnouncedIsCommittedAlways == PlatformSpec => []AnnouncedIsCommitted
<1>1. ASSUME PlatformInv, NEW e \in Requests, delivered[e] # <<>>
      PROVE  /\ account_links[e] # NULL
             /\ Keyed(e) => /\ idempotency_keys[Key(e)] # NULL
                            /\ idempotency_keys[Key(e)].account_link_id = e
  <2>1. outbox_events[e] # NULL
    BY <1>1 DEF PlatformInv, HeardInv
  <2>2. eventsBar[e] # NULL
    BY <1>1, <2>1, EventSeen DEF PlatformInv
  <2> QED
    BY <1>1, <2>2 DEF PlatformInv, Service!Inv, Service!LinkInv, Service!Keyed, Keyed,
       Service!Key, Key, Service!TrimSpace, TrimSpace, Service!NoKey, NoKey
<1>2. PlatformInv => AnnouncedIsCommitted
  BY <1>1 DEF AnnouncedIsCommitted
<1> QED BY <1>2, PlatformInvariance, PTL

\* Requests and processor neither leak a connection of their common pool nor give one
\* back twice (main.go:57-77).
THEOREM SharedPoolConservedAlways == PlatformSpec => []SharedPoolConserved
<1>1. ASSUME PlatformInv, NEW i \in Instances
      PROVE  conns[i] + Cardinality(Holders(i)) + (IF poll[i] = "idle" THEN 0 ELSE 1)
               = MaxConns
  <2>1. Service!Holders(i) = Holders(i)
    BY DEF Service!Holders, Holders, Service!HoldsConn, HoldsConn, Service!InTx, InTx
  <2>2. Service!IsFiniteSet(Holders(i)) <=> IsFiniteSet(Holders(i))
    BY Zenon DEF Service!IsFiniteSet, IsFiniteSet
  <2>3. Service!Cardinality(Holders(i)) = Cardinality(Holders(i))
    BY Zenon DEF Service!Cardinality, Cardinality
  <2>4. /\ IsFiniteSet(Holders(i))
        /\ connsBar[i] + Cardinality(Holders(i)) = MaxConns
    BY <1>1, <2>1, <2>2, <2>3 DEF PlatformInv, Service!Inv, Service!PoolInv
  <2>5. Cardinality(Holders(i)) \in Nat
    BY <2>4, FS_CardinalityType
  <2>6. conns[i] \in Nat
    BY <1>1 DEF PlatformInv, SharedInv
  <2> QED BY <2>4, <2>5, <2>6 DEF connsBar
<1>2. PlatformInv => SharedPoolConserved
  BY <1>1 DEF SharedPoolConserved
<1> QED BY <1>2, PlatformInvariance, PTL

\* What the promise sees of a request is not in the tables and the pool.
LEMMA SameAsked ==
  /\ S!askedBar = askedBar /\ S!askedBar' = askedBar'
  /\ S!answerBar = answerBar /\ S!answerBar' = answerBar'
  /\ S!Hashes = Hashes /\ S!NoKey = NoKey
<1>1. S!askedBar = askedBar /\ S!askedBar' = askedBar'
  BY Zenon DEF S!askedBar, askedBar, S!Seen, Seen, S!BadRequest, BadRequest,
     S!TrimSpace, TrimSpace, S!Blank, Blank, S!Key, Key, S!RequestHash, RequestHash
<1>2. S!answerBar = answerBar /\ S!answerBar' = answerBar'
  BY Zenon DEF S!answerBar, answerBar, S!Seen, Seen, S!BadRequest, BadRequest,
     S!TrimSpace, TrimSpace, S!Blank, Blank, S!KindOf, KindOf
<1>3. S!Hashes = Hashes /\ S!NoKey = NoKey
  BY Zenon DEF S!Hashes, Hashes, S!RequestHash, RequestHash, S!TrimSpace, TrimSpace,
     S!NoKey, NoKey
<1> QED BY <1>1, <1>2, <1>3

\* A link is announced whether its event is published or not.
LEMMA SameAnnounced ==
  /\ SharedInv => S!announcedBar = announcedBar
  /\ SharedInv' => S!announcedBar' = announcedBar'
<1>1. SharedInv => S!announcedBar = announcedBar
  BY EventSeen DEF S!announcedBar, announcedBar
<1>2. (SharedInv => S!announcedBar = announcedBar)'
  BY <1>1, PTL
<1> QED BY <1>1, <1>2

\* Hence a step that keeps the promise of the service keeps that of the platform.
LEMMA SamePromise ==
  ASSUME SharedInv, SharedInv', [S!Promise!Next]_(S!Bars)
  PROVE  [Promise!Next]_(Promise!vars)
<1>1. S!Bars = Promise!vars /\ S!Bars' = Promise!vars'
  BY SameAsked, SameAnnounced DEF S!Bars, Promise!vars
<1>2. ASSUME NEW r \in Requests, S!Promise!Ask(r) \/ S!Promise!Create(r)
      PROVE  Promise!Ask(r) \/ Promise!Create(r)
  BY <1>2, SameAsked, SameAnnounced DEF S!Promise!Ask, Promise!Ask, S!Promise!Create,
     Promise!Create
<1>3. ASSUME NEW r \in Requests, NEW kind, NEW link, S!Promise!Answer(r, kind, link)
      PROVE  Promise!Answer(r, kind, link)
  BY <1>3, SameAsked, SameAnnounced DEF S!Promise!Answer, Promise!Answer, S!Promise!Open,
     Promise!Open
<1>4. \A r \in Requests : /\ S!Promise!Open(r) <=> Promise!Open(r)
                         /\ S!Promise!Binding(r) = Promise!Binding(r)
  BY SameAsked DEF S!Promise!Open, Promise!Open, S!Promise!Binding, Promise!Binding
<1>5. ASSUME NEW r \in Requests,
             \/ S!Promise!AnswerCreated(r) \/ S!Promise!AnswerReplayed(r)
             \/ S!Promise!AnswerConflict(r) \/ S!Promise!AnswerFailed(r)
      PROVE  \/ Promise!AnswerCreated(r) \/ Promise!AnswerReplayed(r)
             \/ Promise!AnswerConflict(r) \/ Promise!AnswerFailed(r)
  BY <1>3, <1>4, <1>5, SameAsked, SameAnnounced DEF S!Promise!AnswerCreated,
     Promise!AnswerCreated, S!Promise!AnswerReplayed, Promise!AnswerReplayed,
     S!Promise!AnswerConflict, Promise!AnswerConflict, S!Promise!AnswerFailed,
     Promise!AnswerFailed
<1>6. S!Promise!Next => Promise!Next
  BY <1>2, <1>5 DEF S!Promise!Next, Promise!Next
<1> QED BY <1>1, <1>6

\* The whole platform keeps the promise of IdempotentCreate: no work of the processor,
\* and no competition for the pool, shows in what a POST binds, announces or answers
\* (accountlink_service.go:71-157).
THEOREM PlatformPromise == PlatformSpec => ImplementsPromise
<1>1. PlatformInit => Promise!Init
  <2>1. HAVE PlatformInit
  <2>2. S!Promise!Init
    BY <2>1, PlatformStarts, SameService, ServiceStarts
  <2>3. SharedInv
    BY <2>1, PlatformStarts DEF PlatformInv
  <2> QED BY <2>2, <2>3, SameAsked, SameAnnounced DEF S!Promise!Init, Promise!Init
<1>2. ASSUME PlatformInv, [PlatformNext]_all
      PROVE  [Promise!Next]_(Promise!vars)
  <2>1. S!Inv /\ [S!Next]_(S!vars) /\ SharedInv /\ SharedInv'
    BY <1>2, Step, SameService, SameServiceInv DEF PlatformInv, StepSeen
  <2>2. [S!Promise!Next]_(S!Bars)
    BY <2>1, ServiceKept
  <2> QED BY <2>1, <2>2, SamePromise
<1>3. PlatformInv /\ [PlatformNext]_all => [Promise!Next]_(Promise!vars)
  BY <1>2
<1> QED
  BY <1>1, <1>3, PlatformInvariance, PTL DEF PlatformSpec, ImplementsPromise,
     Promise!Spec

\* With the real service in the place of Add, no event is lost and each failure costs at
\* most one more message (outbox_processor.go:80-126).
THEOREM PlatformDelivery ==
  PlatformSpec => [](D!PublishedWasDelivered /\ D!DuplicatesOnlyFromFaults)
<1>1. PlatformInit => O!DuplicateInv
  BY PlatformStarts, SameOutbox, OutboxStarts
<1>2. ASSUME PlatformInv, O!DuplicateInv, [PlatformNext]_all
      PROVE  O!DuplicateInv'
  <2>1. O!Inv /\ [O!Next]_(O!vars)
    BY <1>2, Step, SameOutbox DEF PlatformInv, StepSeen
  <2> QED BY <1>2, <2>1, OutboxKept
<1>3. ASSUME PlatformInv, O!DuplicateInv
      PROVE  D!PublishedWasDelivered /\ D!DuplicatesOnlyFromFaults
  <2>1. O!DuplicatesOnlyFromFaults
    BY <1>3, SameOutbox, OutboxBound DEF PlatformInv
  <2>2. D!PublishedWasDelivered
    BY <1>3, PendingSeen DEF D!PublishedWasDelivered, PlatformInv, Outbox!Inv,
       Outbox!PublishedWasDelivered, D!Delivered, Outbox!Delivered, rowsBar, D!Pending
  <2> QED BY <2>1, <2>2 DEF O!DuplicatesOnlyFromFaults, D!DuplicatesOnlyFromFaults
<1> QED BY <1>1, <1>2, <1>3, PlatformInvariance, PTL DEF PlatformSpec

\* Requests and processors together change of a committed event only its published_at,
\* and that once; no link, key or answer changes at all.
PlatformFinal ==
  /\ \A k \in Keys :
       idempotency_keys[k] # NULL => idempotency_keys'[k] = idempotency_keys[k]
  /\ \A r \in Requests :
       /\ account_links[r] # NULL => account_links'[r] = account_links[r]
       /\ resp[r] # NULL => resp'[r] = resp[r]
       /\ outbox_events[r] # NULL =>
            \/ outbox_events'[r] = outbox_events[r]
            \/ /\ outbox_events[r].published_at = NULL
               /\ \E t \in Times :
                    outbox_events'[r] = [outbox_events[r] EXCEPT !.published_at = t]

\* A row is the two images of it that the components see.
LEMMA RowsFinal ==
  ASSUME SharedInv, SharedInv', NEW e \in Requests, outbox_events[e] # NULL,
         eventsBar'[e] = eventsBar[e],
         outbox_events[e].published_at # NULL => rowsBar'[e] = rowsBar[e]
  PROVE  \/ outbox_events'[e] = outbox_events[e]
         \/ /\ outbox_events[e].published_at = NULL
            /\ \E t \in Times :
                 outbox_events'[e] = [outbox_events[e] EXCEPT !.published_at = t]
<1>1. eventsBar[e] # NULL
  BY EventSeen
<1>2. outbox_events'[e] # NULL
  BY <1>1 DEF eventsBar
<1>3. outbox_events[e] \in EventRow /\ outbox_events'[e] \in EventRow
  BY <1>2 DEF SharedInv
<1>4. [outbox_events'[e] EXCEPT !.published_at = NULL]
        = [outbox_events[e] EXCEPT !.published_at = NULL]
  BY <1>2 DEF eventsBar
<1>5. /\ outbox_events'[e].aggregate_id = outbox_events[e].aggregate_id
      /\ outbox_events'[e].payload = outbox_events[e].payload
      /\ outbox_events'[e].created_at = outbox_events[e].created_at
  BY <1>3, <1>4 DEF EventRow
<1>6. outbox_events'[e]
        = [outbox_events[e] EXCEPT !.published_at = outbox_events'[e].published_at]
  BY <1>3, <1>5 DEF EventRow
<1>7. outbox_events[e].published_at # NULL =>
        outbox_events'[e].published_at = outbox_events[e].published_at
  BY <1>2 DEF rowsBar
<1>8. outbox_events'[e].published_at = outbox_events[e].published_at =>
        outbox_events'[e] = outbox_events[e]
  BY <1>3, <1>5 DEF EventRow
<1>9. \/ outbox_events'[e].published_at = NULL
      \/ outbox_events'[e].published_at \in Times
  BY <1>3 DEF EventRow
<1> QED BY <1>6, <1>7, <1>8, <1>9

\* Nothing is taken back by the platform either (accountlink_service.go:71-157,
\* outbox_store.go:80-86).
THEOREM PlatformTakesNothingBack == PlatformSpec => [][PlatformFinal]_all
<1>1. ASSUME PlatformInv, [PlatformNext]_all
      PROVE  PlatformFinal
  <2>1. /\ S!Inv /\ [S!Next]_(S!vars) /\ O!Inv /\ [O!Next]_(O!vars)
        /\ SharedInv /\ SharedInv'
    BY <1>1, Step, SameService, SameServiceInv, SameOutbox DEF PlatformInv, StepSeen
  <2>2. S!Final
    BY <2>1, ServiceKept
  <2>3. ASSUME NEW e \in Requests, outbox_events[e] # NULL
        PROVE  /\ eventsBar'[e] = eventsBar[e]
               /\ outbox_events[e].published_at # NULL => rowsBar'[e] = rowsBar[e]
    <3>1. eventsBar'[e] = eventsBar[e]
      BY <2>1, <2>2, <2>3, EventSeen DEF S!Final
    <3>2. /\ rowsBar[e] # NULL
          /\ outbox_events[e].published_at # NULL => ~ O!Pending(e)
      BY <2>1, <2>3, PendingSeen DEF O!Pending, rowsBar
    <3>3. UNCHANGED O!vars => rowsBar'[e] = rowsBar[e]
      BY DEF O!vars
    <3> QED BY <2>1, <3>1, <3>2, <3>3, OutboxFinal
  <2> QED BY <2>1, <2>2, <2>3, RowsFinal DEF S!Final, PlatformFinal
<1>2. PlatformInv /\ [PlatformNext]_all => [PlatformFinal]_all
  BY <1>1
<1> QED BY <1>2, PlatformInvariance, PTL DEF PlatformSpec
=============================================================================
