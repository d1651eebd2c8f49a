------------------------------ MODULE Platform ------------------------------
(***************************************************************************)
(* The service as it runs: every server process serves requests            *)
(* (AccountLinkService) and polls the outbox (OutboxProcessor) over one    *)
(* database and one connection pool per process (cmd/server/main.go).      *)
(*                                                                         *)
(* The two components meet in outbox_events, which Create fills and the    *)
(* processor drains, in the pool, where the processor's transaction and    *)
(* the requests compete for connections, and in the process, whose death   *)
(* ends both.  The commit of a create takes the place of the action Add of *)
(* OutboxProcessor, which ImplementsOutbox makes precise.                  *)
(***************************************************************************)
EXTENDS AccountLinkService

CONSTANTS BatchSize, MaxFaults   \* of OutboxProcessor

VARIABLES poll,                  \* the pc of the processor of each instance
          ptx,                   \* its transaction
          todo, cur, now, ghosts, delivered, faults

D == INSTANCE OutboxProcessor
       WITH Processors <- Instances, Events <- Requests, pc <- poll, tx <- ptx

ASSUME PlatformAssumption ==
  /\ IsFiniteSet(Requests) /\ IsFiniteSet(Instances)
  /\ Times \subseteq Nat /\ NULL \notin Nat
  /\ BatchSize \in Nat /\ MaxFaults \in Nat

processor == <<poll, ptx, todo, cur, now, ghosts, delivered, faults>>
service == <<account_links, idempotency_keys, pc, locals, tx, resp>>
all == <<vars, processor>>

PlatformInit == Init /\ D!Init

-----------------------------------------------------------------------------
(* Each component moves while the other stands still                        *)

Serving(r) == Serve(r) /\ UNCHANGED processor

Arriving(r, i) == Arrive(r, i) /\ UNCHANGED processor
Failing(r) == Fail(r) /\ UNCHANGED processor
Ending(r) == Reap(r) /\ UNCHANGED processor

Take(i) == conns[i] > 0 /\ conns' = [conns EXCEPT ![i] = @ - 1]
GiveBack(i) == conns' = [conns EXCEPT ![i] = @ + 1]

\* PublishOnce holds a connection from its Begin to its return.
Polling(i) ==
  /\ \/ D!Begin(i) /\ Take(i)
     \/ /\ \/ D!FindUnpublishedForUpdateSkipLocked(i) \/ D!Publish(i)
           \/ D!MarkPublished(i) \/ D!Commit(i)
        /\ UNCHANGED conns
     \/ (D!Ack(i) \/ D!FindSessionLost(i)) /\ GiveBack(i)
  /\ UNCHANGED service

\* Mutant: PublishOnce without the deferred Rollback.
PollFailsLeaks(i) == D!Fail(i) /\ UNCHANGED <<service, conns>>

PollFails(i) == D!Fail(i) /\ GiveBack(i) /\ UNCHANGED service

SessionEnds(i) == D!LoseSession(i) /\ UNCHANGED <<service, conns>>
GhostEnds == (\E g \in ghosts : D!Reap(g)) /\ UNCHANGED <<service, conns>>

\* The process of instance i dies with its requests and its processor.
ProcessDies(i) ==
  /\ Crash(i)
  /\ D!Fail(i) \/ (poll[i] = "idle" /\ UNCHANGED processor)

PlatformNext ==
  \/ \E r \in Requests, i \in Instances : Arriving(r, i)
  \/ \E r \in Requests : Serving(r) \/ Failing(r) \/ Ending(r)
  \/ \E i \in Instances : Polling(i) \/ PollFails(i) \/ SessionEnds(i) \/ ProcessDies(i)
  \/ GhostEnds

PlatformSpec == PlatformInit /\ [][PlatformNext]_all

\* As in the components; strong, because the pool serves those who wait for a
\* connection in their order: whoever may have one again and again gets one.
PlatformFairness ==
  /\ \A r \in Requests : SF_all(Serving(r)) /\ WF_all(Ending(r))
  /\ \A i \in Instances : SF_all(Polling(i))
  /\ WF_all(GhostEnds)
PlatformFairSpec == PlatformSpec /\ PlatformFairness

-----------------------------------------------------------------------------
(* Properties                                                               *)

\* Subscribers hear only of what is so: a message was accepted only for a link
\* that is committed and, if its POST carried a key, is bound to that key; no
\* loser of a race, conflict or rolled back create is ever announced
\* (accountlink_service.go:140-154, outbox_processor.go:101-118).
AnnouncedIsCommitted ==
  \A e \in Requests : delivered[e] # <<>> =>
    /\ account_links[e] # NULL
    /\ Keyed(e) => /\ idempotency_keys[Key(e)] # NULL
                   /\ idempotency_keys[Key(e)].account_link_id = e

\* Requests and processor together neither leak a connection nor give one back
\* twice, through errors, lost sessions and restarts (main.go:57-77).
SharedPoolConserved ==
  \A i \in Instances :
    conns[i] + Cardinality(Holders(i)) + (IF poll[i] = "idle" THEN 0 ELSE 1) = MaxConns

\* What a POST acknowledges is announced in the end, a replay included, even
\* when the process that gave the answer died right after it.
EventuallyAnnounced ==
  \A r, l \in Requests :
    Succeeded(r) /\ call[r].op = "create" /\ resp[r].link = l ~> delivered[l] # <<>>

-----------------------------------------------------------------------------
(* The composition implements its components                                *)

\* To the processor a row is its two timestamps.
rowsBar ==
  [e \in Requests |-> IF outbox_events[e] = NULL THEN NULL
                      ELSE [created_at |-> outbox_events[e].created_at,
                            published_at |-> outbox_events[e].published_at]]

Outbox == INSTANCE OutboxProcessor
            WITH Processors <- Instances, Events <- Requests, pc <- poll, tx <- ptx,
                 outbox_events <- rowsBar

\* To the requests a row is never published, and the processor's connection is
\* one that has not been asked for.
eventsBar == [r \in Requests |-> IF outbox_events[r] = NULL THEN NULL
                                 ELSE [outbox_events[r] EXCEPT !.published_at = NULL]]
connsBar == [i \in Instances |-> IF poll[i] = "idle" THEN conns[i] ELSE conns[i] + 1]

Service == INSTANCE AccountLinkService
             WITH outbox_events <- eventsBar, conns <- connsBar

\* The service is to the processor nothing but its action Add: each event
\* appears once, unpublished, in one step, and is not touched again
\* (accountlink_service.go:231-239).
ImplementsOutbox == Outbox!Spec

\* The processor is to the requests nothing but a slower pool: it changes of
\* their rows only published_at (outbox_store.go:80-86).
ImplementsService == Service!Spec

-----------------------------------------------------------------------------
(* The inductive invariant                                                  *)

\* A row of outbox_events with all its columns.
EventRow == [aggregate_id : Requests, payload : Link, created_at : Times,
             published_at : Times \cup {NULL}]

ASSUME NullRowAssumption == NULL \notin EventRow \cup D!Rows \cup D!Tx

\* The two shared variables; the invariants of the components see images of them.
SharedInv ==
  /\ outbox_events \in [Requests -> EventRow \cup {NULL}]
  /\ conns \in [Instances -> Nat]

\* A processor, its session alive or not, knows only of events that are committed,
\* and so does the topic.
HeardInv ==
  /\ \A i \in Instances : \A e \in todo[i] : outbox_events[e] # NULL
  /\ \A e \in Requests : delivered[e] # <<>> => outbox_events[e] # NULL

PlatformInv == Service!Inv /\ Outbox!Inv /\ SharedInv /\ HeardInv
=============================================================================
