--------------------------- MODULE OutboxProcessor ---------------------------
(***************************************************************************)
(* The outbox publisher (internal/app/outbox_processor.go, the SQL of      *)
(* internal/persistence/outbox_store.go): one processor per server         *)
(* instance polls outbox_events, claims the oldest unpublished rows with   *)
(* FOR UPDATE SKIP LOCKED, publishes each one and marks it, and commits.   *)
(*                                                                         *)
(* Publishing is not transactional: between Publish and the commit of the  *)
(* mark a call may fail, a process may die, a database session may be      *)
(* lost.  The database side of a transaction is therefore separate from    *)
(* the goroutine that opened it: a session may end under a processor that  *)
(* does not know it yet, and a transaction may outlive its client until    *)
(* the server notices (`ghosts').                                          *)
(*                                                                         *)
(* Abstractions.  A row is its two timestamps, an event its identity.  The *)
(* batch slice is a set; its order is that of created_at, ties in any      *)
(* order.  A process that stops is replaced by one that polls again.       *)
(***************************************************************************)
EXTENDS Naturals, Sequences, FiniteSets

CONSTANTS Processors,  \* one polling goroutine per server instance
          Events,      \* rows that may ever be in outbox_events
          Times,       \* clock readings
          BatchSize,   \* OUTBOX_BATCH_SIZE
          MaxFaults,   \* bound on failed calls, lost sessions and crashes
          NULL         \* absent row, SQL NULL, no transaction

ASSUME OutboxAssumption ==
  /\ IsFiniteSet(Events) /\ IsFiniteSet(Processors)
  /\ Times \subseteq Nat /\ NULL \notin Nat
  /\ BatchSize \in Nat /\ MaxFaults \in Nat

VARIABLES
  outbox_events,  \* committed rows: event -> [created_at, published_at] or NULL
  pc,             \* the call each processor is about to make
  todo,           \* events of its batch that it has not marked
  cur,            \* the event it has published and is about to mark, or NULL
  now,            \* the PublishedAt of that event
  tx,             \* its transaction at the server, NULL if there is none
  ghosts,         \* open transactions whose client is gone
  delivered,      \* event -> PublishedAt of each Publish the topic accepted
  faults          \* failures so far

locals == <<todo, cur, now>>
vars == <<outbox_events, pc, locals, tx, ghosts, delivered, faults>>

InFlight == {"find", "publish", "mark", "commit", "ack"}

Init ==
  /\ outbox_events = [e \in Events |-> NULL]
  /\ pc = [p \in Processors |-> "idle"]
  /\ todo = [p \in Processors |-> {}]
  /\ cur = [p \in Processors |-> NULL]
  /\ now = [p \in Processors |-> NULL]
  /\ tx = [p \in Processors |-> NULL]
  /\ ghosts = {}
  /\ delivered = [e \in Events |-> <<>>]
  /\ faults = 0

-----------------------------------------------------------------------------
(* Rows and transactions                                                    *)

Row(created) == [created_at |-> created, published_at |-> NULL]

Pending(e) == outbox_events[e] # NULL /\ outbox_events[e].published_at = NULL

EmptyTx == [locked |-> {}, stamp |-> [e \in Events |-> NULL]]

LockedRows == (UNION {tx[p].locked : p \in {q \in Processors : tx[q] # NULL}})
                \cup (UNION {g.locked : g \in ghosts})

\* Mutant: without WHERE published_at IS NULL.
ClaimablePublished == {e \in Events : outbox_events[e] # NULL} \ LockedRows

\* Mutant: without FOR UPDATE SKIP LOCKED.
ClaimableLocked == {e \in Events : Pending(e)}

\* What the SELECT ranges over: unpublished rows nobody has locked.
Claimable == {e \in Events : Pending(e)} \ LockedRows

NoLater(e, f) == outbox_events[e].created_at <= outbox_events[f].created_at

\* Mutant: no LIMIT.
IsBatchUnlimited(b) == b = Claimable

\* ORDER BY created_at LIMIT BatchSize
IsBatch(b) ==
  /\ Cardinality(b) <= BatchSize
  /\ b = Claimable \/ Cardinality(b) = BatchSize
  /\ \A e \in b, f \in Claimable \ b : NoLater(e, f)

\* Mutant: published rows are deleted.
ApplyDeletes(t) ==
  [e \in Events |-> IF t.stamp[e] = NULL THEN outbox_events[e] ELSE NULL]

\* The rows as the commit of t leaves them.
Apply(t) ==
  [e \in Events |-> IF t.stamp[e] = NULL THEN outbox_events[e]
                    ELSE [outbox_events[e] EXCEPT !.published_at = t.stamp[e]]]

Goto(p, label) == pc' = [pc EXCEPT ![p] = label]

Forget(p) == /\ cur' = [cur EXCEPT ![p] = NULL]
             /\ now' = [now EXCEPT ![p] = NULL]

\* The head of the loop over the batch.
Loop(p, rest) == /\ todo' = [todo EXCEPT ![p] = rest]
                 /\ Forget(p)
                 /\ Goto(p, IF rest = {} THEN "commit" ELSE "publish")

-----------------------------------------------------------------------------
\* A create commits its event (AccountLinkService!Commit).
Add(e) ==
  /\ outbox_events[e] = NULL
  /\ \E t \in Times : outbox_events' = [outbox_events EXCEPT ![e] = Row(t)]
  /\ UNCHANGED <<pc, locals, tx, ghosts, delivered, faults>>

\* The ticker fires and PublishOnce begins.
Begin(p) ==
  /\ pc[p] = "idle"
  /\ tx' = [tx EXCEPT ![p] = EmptyTx]
  /\ Goto(p, "find")
  /\ UNCHANGED <<outbox_events, locals, ghosts, delivered, faults>>

FindUnpublishedForUpdateSkipLocked(p) ==
  /\ pc[p] = "find" /\ tx[p] # NULL
  /\ \E b \in SUBSET Claimable :
       /\ IsBatch(b)
       /\ tx' = [tx EXCEPT ![p].locked = b]
       /\ Loop(p, b)
  /\ UNCHANGED <<outbox_events, ghosts, delivered, faults>>

\* The loop takes the batch in created_at order.
Oldest(p) == {e \in todo[p] : \A f \in todo[p] : NoLater(e, f)}

Accept(e, t) == delivered' = [delivered EXCEPT ![e] = Append(@, t)]

\* Mutant: the error of Publish is dropped.
PublishUnchecked(p) ==
  /\ pc[p] = "publish"
  /\ \E e \in Oldest(p), t \in Times :
       /\ cur' = [cur EXCEPT ![p] = e]
       /\ now' = [now EXCEPT ![p] = t]
       /\ Accept(e, t) \/ UNCHANGED delivered
  /\ Goto(p, "mark")
  /\ UNCHANGED <<outbox_events, todo, tx, ghosts, faults>>

\* The topic accepts the message and Publish returns nil.
Publish(p) ==
  /\ pc[p] = "publish"
  /\ \E e \in Oldest(p), t \in Times :
       /\ cur' = [cur EXCEPT ![p] = e]
       /\ now' = [now EXCEPT ![p] = t]
       /\ Accept(e, t)
  /\ Goto(p, "mark")
  /\ UNCHANGED <<outbox_events, todo, tx, ghosts, faults>>

\* The UPDATE is by id alone; the lock of the SELECT is what protects the row.
MarkPublished(p) ==
  /\ pc[p] = "mark" /\ tx[p] # NULL
  /\ tx' = [tx EXCEPT ![p].stamp[cur[p]] = now[p]]
  /\ Loop(p, todo[p] \ {cur[p]})
  /\ UNCHANGED <<outbox_events, ghosts, delivered, faults>>

\* COMMIT takes effect at the server.
Commit(p) ==
  /\ pc[p] = "commit" /\ tx[p] # NULL
  /\ outbox_events' = Apply(tx[p])
  /\ tx' = [tx EXCEPT ![p] = NULL]
  /\ Goto(p, "ack")
  /\ UNCHANGED <<locals, ghosts, delivered, faults>>

\* tx.Commit returns, PublishOnce returns nil, Start waits for the next tick.
Ack(p) ==
  /\ pc[p] = "ack"
  /\ Goto(p, "idle")
  /\ UNCHANGED <<outbox_events, locals, tx, ghosts, delivered, faults>>

-----------------------------------------------------------------------------
(* Failures                                                                 *)

Fault == faults < MaxFaults /\ faults' = faults + 1

\* PublishOnce returns an error: its batch is forgotten, Start polls again.
GiveUp(p) == /\ Goto(p, "idle")
             /\ todo' = [todo EXCEPT ![p] = {}]
             /\ Forget(p)

\* Mutant: Start returns at the first error.
FailHalts(p) ==
  /\ pc[p] \in InFlight /\ Fault
  /\ Goto(p, "halted") /\ tx' = [tx EXCEPT ![p] = NULL]
  /\ UNCHANGED <<outbox_events, locals, ghosts, delivered>>

\* The pending call of p fails, its context is cancelled or its process dies.
\* A message whose Publish failed may have been accepted all the same.  Either
\* the deferred Rollback reaches the server or the connection is just dropped;
\* in that case a COMMIT already sent may still be on its way.
Fail(p) ==
  /\ pc[p] \in InFlight /\ Fault
  /\ GiveUp(p)
  /\ \/ UNCHANGED delivered
     \/ /\ pc[p] = "publish"
        /\ \E e \in Oldest(p), t \in Times : Accept(e, t)
  /\ tx' = [tx EXCEPT ![p] = NULL]
  /\ \/ UNCHANGED ghosts
     \/ /\ tx[p] # NULL
        /\ ghosts' = ghosts \cup {[locked |-> tx[p].locked, stamp |-> tx[p].stamp,
                                   committing |-> pc[p] = "commit"]}
  /\ UNCHANGED outbox_events

\* The server ends the session of p (restart, failover, network): transaction
\* and locks are gone, and p learns of it at its next call.
LoseSession(p) ==
  /\ tx[p] # NULL /\ Fault
  /\ tx' = [tx EXCEPT ![p] = NULL]
  /\ UNCHANGED <<outbox_events, pc, locals, ghosts, delivered>>

\* That next call fails.
FindSessionLost(p) ==
  /\ pc[p] \in {"find", "mark", "commit"} /\ tx[p] = NULL
  /\ GiveUp(p)
  /\ UNCHANGED <<outbox_events, tx, ghosts, delivered, faults>>

\* The server ends a transaction whose client is gone.
Reap(g) ==
  /\ ghosts' = ghosts \ {g}
  /\ \/ UNCHANGED outbox_events
     \/ g.committing /\ outbox_events' = Apply(g)
  /\ UNCHANGED <<pc, locals, tx, delivered, faults>>

-----------------------------------------------------------------------------
Work(p) ==
  \/ Begin(p) \/ FindUnpublishedForUpdateSkipLocked(p) \/ Publish(p)
  \/ MarkPublished(p) \/ Commit(p) \/ Ack(p) \/ FindSessionLost(p)

Next ==
  \/ \E e \in Events : Add(e)
  \/ \E p \in Processors : Work(p) \/ Fail(p) \/ LoseSession(p)
  \/ \E g \in ghosts : Reap(g)

Spec == Init /\ [][Next]_vars

\* The ticker fires, the database and the topic answer, and the server ends
\* abandoned sessions.
Fairness == /\ \A p \in Processors : WF_vars(Work(p))
            /\ WF_vars(\E g \in ghosts : Reap(g))
FairSpec == Spec /\ Fairness
-----------------------------------------------------------------------------
(* Properties                                                               *)

Stamps == [Events -> Times \cup {NULL}]
Tx == [locked : SUBSET Events, stamp : Stamps]
Ghost == [locked : SUBSET Events, stamp : Stamps, committing : BOOLEAN]
Rows == [created_at : Times, published_at : Times \cup {NULL}]

\* NULL is neither a row nor a transaction.
ASSUME NullAssumption == NULL \notin Rows \cup Tx

\* Every variable holds a value of its kind, and no processor ever works on
\* more rows than its batch size.
TypeOK ==
  /\ outbox_events \in [Events -> Rows \cup {NULL}]
  /\ pc \in [Processors -> InFlight \cup {"idle"}]
  /\ todo \in [Processors -> SUBSET Events]
  /\ cur \in [Processors -> Events \cup {NULL}]
  /\ now \in [Processors -> Times \cup {NULL}]
  /\ tx \in [Processors -> Tx \cup {NULL}]
  /\ ghosts \subseteq Ghost
  /\ delivered \in [Events -> Seq(Times)]
  /\ faults \in 0..MaxFaults
  /\ \A p \in Processors : Cardinality(todo[p]) <= BatchSize

Delivered(e, t) == \E n \in DOMAIN delivered[e] : delivered[e][n] = t

\* No event is lost: a row is marked published only if the topic accepted its
\* message, and the published_at stored is the PublishedAt of that Publish.
PublishedWasDelivered ==
  \A e \in Events : outbox_events[e] # NULL /\ ~ Pending(e) =>
    Delivered(e, outbox_events[e].published_at)

Stamped(t) == {e \in Events : t.stamp[e] # NULL}

\* A processor whose session is alive owns its batch: every row it still has to
\* publish, or has marked, is unpublished and in nobody else's transaction,
\* abandoned ones included.
ExclusiveClaim ==
  \A p \in Processors : tx[p] # NULL =>
    \A e \in todo[p] \cup Stamped(tx[p]) :
      /\ Pending(e)
      /\ \A q \in Processors \ {p} : tx[q] # NULL => e \notin tx[q].locked
      /\ \A g \in ghosts : e \notin g.locked

\* At least once, and more than once only after a failure: an event is accepted
\* by the topic at most once more than the number of failures so far, however
\* many processors poll.
DuplicatesOnlyFromFaults ==
  \A e \in Events : Len(delivered[e]) <= 1 + faults

\* Published is final: no later transaction, not even one whose session was
\* lost or whose COMMIT arrives late, changes a published row.
PublishedIsFinal ==
  [][\A e \in Events : outbox_events[e] # NULL /\ ~ Pending(e)
       => outbox_events'[e] = outbox_events[e]]_vars

\* Every committed event is published in the end, as long as failures end:
\* no row stays behind in a batch, a lost session or an abandoned lock.
EventuallyPublished ==
  \A e \in Events : outbox_events[e] # NULL ~> outbox_events[e] # NULL /\ ~ Pending(e)
-----------------------------------------------------------------------------
(* The inductive invariant                                                  *)

\* An open transaction, abandoned or not, has locked what it marks, the rows it
\* has locked are unpublished, and what it marks was delivered.
TxSound(t) ==
  /\ Stamped(t) \subseteq t.locked
  /\ \A e \in t.locked : Pending(e)
  /\ \A e \in Stamped(t) : Delivered(e, t.stamp[e])

\* No two open transactions have locked the same row.
ClaimInv ==
  /\ \A p \in Processors : tx[p] # NULL => TxSound(tx[p])
  /\ \A g \in ghosts : TxSound(g)
  /\ \A p, q \in Processors : p # q /\ tx[p] # NULL /\ tx[q] # NULL =>
       tx[p].locked \cap tx[q].locked = {}
  /\ \A p \in Processors, g \in ghosts : tx[p] # NULL =>
       tx[p].locked \cap g.locked = {}
  /\ \A g, h \in ghosts : g # h => g.locked \cap h.locked = {}

\* Where processor p stands.
ProcOK(p) ==
  /\ pc[p] \in {"idle", "ack"} => tx[p] = NULL
  /\ pc[p] \in {"idle", "find", "commit", "ack"} => todo[p] = {}
  /\ pc[p] = "find" /\ tx[p] # NULL => tx[p].locked = {}
  /\ tx[p] # NULL => todo[p] \subseteq tx[p].locked \ Stamped(tx[p])
  /\ pc[p] = "mark" => /\ cur[p] \in todo[p] /\ now[p] \in Times
                       /\ Delivered(cur[p], now[p])

ProcInv == \A p \in Processors : ProcOK(p)

Inv == TypeOK /\ ClaimInv /\ ProcInv /\ PublishedWasDelivered

\* The mark of e is under way in a session of p that is alive.
Marking(p, e) ==
  /\ tx[p] # NULL
  /\ e \in Stamped(tx[p]) \/ (pc[p] = "mark" /\ cur[p] = e)

\* Event e was accepted, and its row is published or about to be.
Settled(e) == \/ outbox_events[e] # NULL /\ ~ Pending(e)
              \/ \E p \in Processors : Marking(p, e)

\* Processors that may still publish e although they have lost its row.
Zombies(e) == {p \in Processors : tx[p] = NULL /\ pc[p] = "publish" /\ e \in todo[p]}

\* Each failure pays for one more message: a lost mark, a message accepted by a
\* Publish that failed, or a processor that has not noticed its session is gone.
Paid(e) == Len(delivered[e]) + Cardinality(Zombies(e))
             <= faults + (IF Settled(e) THEN 1 ELSE 0)
DuplicateInv == \A e \in Events : Paid(e)
=============================================================================
