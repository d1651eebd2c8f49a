------------------------------- MODULE Migrate -------------------------------
(***************************************************************************)
(* Schema migration at start-up (internal/db/migrate.go and                *)
(* migrateWithRetry in cmd/server/main.go).  Every server instance runs    *)
(* the migrations embedded in its binary before it serves: under an        *)
(* advisory lock it reads flyway_schema_history, applies what is missing,  *)
(* each file with its history row in one transaction, and unlocks; after   *)
(* an error it tries again until DB_STARTUP_MAX_WAIT has passed.           *)
(*                                                                         *)
(* The lock belongs to a database session, the code holds a pool.  Used by *)
(* one goroutine, the pool hands out one session again and again, unless   *)
(* that session is lost: then the calls that follow run on a new session,  *)
(* without the lock, and nobody notices.  A session that the client has    *)
(* given up lingers at the server, with its lock and its transaction,      *)
(* until the server ends it.                                               *)
(*                                                                         *)
(* Abstractions.  A file is its version (MigrationVersions) and its        *)
(* CRC-32; its statements are one step.  A process that dies is started    *)
(* again with the same files.                                              *)
(* External: PostgreSQL's locks and transactions, pgxpool's sessions.      *)
(***************************************************************************)
EXTENDS MigrationVersions

CONSTANTS Instances,   \* server instances
          Deployments, \* instance -> the files its binary embeds: the cases
          Rerunnable,  \* versions whose statements may run twice (IF NOT EXISTS)
          MaxInt4,     \* largest value of the checksum INT column
          MaxFaults,   \* bound on failed calls, lost sessions and crashes
          NULL

Files == UNION {UNION {d[i] : i \in Instances} : d \in Deployments}
Versions == {f.version : f \in Files}
Sums == {f.checksum : f \in Files}

ASSUME MigrateAssumption ==
  /\ \A d \in Deployments : DOMAIN d = Instances
  /\ Files \subseteq [version : Versions, checksum : Sums] /\ Sums \subseteq Nat
  /\ Rerunnable \subseteq Versions
  /\ MaxInt4 \in Nat /\ MaxFaults \in Nat
  /\ IsFiniteSet(Instances) /\ NULL \notin Instances
  /\ Instances \cap Nat = {} /\ NULL \notin Nat

VARIABLES
  files,    \* instance -> the files of its release
  history,  \* rows of flyway_schema_history in the order of installed_rank;
            \* NULL while there is no table
  schema,   \* version -> how often its statements have taken effect
  lock,     \* session that holds the advisory lock: an instance's, a lingering
            \* one's id, or NULL
  tx,       \* instance -> its open transaction, or NULL
  ghosts,   \* lingering sessions
  pc,       \* instance -> the call it is about to make
  applied,  \* instance -> what loadAppliedMigrations returned
  todo,     \* instance -> files the loop has not visited
  expired,  \* instance -> has deadlineCtx expired?
  fails,    \* calls that failed so far
  lost      \* sessions lost so far

db == <<history, schema>>
locals == <<applied, todo>>
counters == <<fails, lost>>
vars == <<files, db, lock, tx, ghosts, pc, locals, expired, counters>>

InTx == {"run", "runwait", "record", "insert", "commit"}
CtxCalls == {"lock", "ensure", "load", "loop"} \cup InTx
Started == {"ready", "failed"}

Init ==
  /\ files \in Deployments
  /\ history = NULL /\ schema = [v \in Versions |-> 0]
  /\ lock = NULL /\ tx = [i \in Instances |-> NULL] /\ ghosts = {}
  /\ pc = [i \in Instances |-> "lock"]
  /\ applied = [i \in Instances |-> <<>>]
  /\ todo = [i \in Instances |-> {}]
  /\ expired = [i \in Instances |-> FALSE]
  /\ fails = 0 /\ lost = 0

-----------------------------------------------------------------------------
Rows == IF history = NULL THEN <<>> ELSE history
Count(v) == Cardinality({k \in DOMAIN Rows : Rows[k].version = v})
Recorded(f) == \E k \in DOMAIN Rows : Rows[k] = f

Goto(i, label) == pc' = [pc EXCEPT ![i] = label]

\* The files that the loop may visit next.
NextFile(i) == First(todo[i])

\* The transactions open beside that of i.
OtherTxs(i) == {tx[j] : j \in {k \in Instances \ {i} : tx[k] # NULL}}
                 \cup {g.tx : g \in {h \in ghosts : h.tx # NULL}}

\* An uncommitted transaction has run the same statements: DDL on the same
\* names waits for it to end.
DDLBlocked(i) ==
  \E t \in OtherTxs(i) : t.effect = 1 /\ t.file.version = tx[i].file.version

\* An uncommitted row has the same installed_rank: the insert waits.
RankBlocked(i) == \E t \in OtherTxs(i) : t.inserted /\ t.rank = tx[i].rank

\* The database as the commit of t leaves it.
Committed(t) ==
  /\ history' = Append(history, t.file)
  /\ schema' = [schema EXCEPT ![t.file.version] = @ + t.effect]

-----------------------------------------------------------------------------
(* Migrate: one action per call of the database.                            *)

\* pg_advisory_lock returns: the lock is free, or the session's own.
LockFree(i) == lock \in {NULL, i}

Lock(i) ==
  /\ pc[i] = "lock" /\ ~expired[i]
  /\ LockFree(i)
  /\ lock' = i
  /\ Goto(i, "ensure")
  /\ UNCHANGED <<files, db, tx, ghosts, locals, expired, counters>>

\* CREATE TABLE IF NOT EXISTS, then listMigrations.
EnsureSchemaHistory(i) ==
  /\ pc[i] = "ensure" /\ ~expired[i]
  /\ history' = Rows
  /\ \/ /\ Lists(files[i])
        /\ todo' = [todo EXCEPT ![i] = files[i]]
        /\ Goto(i, "load")
     \/ ~ Lists(files[i]) /\ Goto(i, "abort") /\ UNCHANGED todo
  /\ UNCHANGED <<files, schema, lock, tx, ghosts, applied, expired, counters>>

\* The rows come in any order: of two with one version the last read counts.
LoadAppliedMigrations(i) ==
  /\ pc[i] = "load" /\ ~expired[i]
  /\ \E m \in [{Rows[k].version : k \in DOMAIN Rows} -> Sums] :
       /\ \A v \in DOMAIN m :
            \E k \in DOMAIN Rows : Rows[k] = [version |-> v, checksum |-> m[v]]
       /\ applied' = [applied EXCEPT ![i] = m]
  /\ Goto(i, "loop")
  /\ UNCHANGED <<files, db, lock, tx, ghosts, todo, expired, counters>>

\* Mutant: a version that is recorded is skipped whatever its checksum.
SameSumAlways(i, f) == TRUE

SameSum(i, f) == applied[i][f.version] = f.checksum

\* The file is recorded with the same checksum: continue.
Skip(i) ==
  /\ pc[i] = "loop"
  /\ \E f \in NextFile(i) :
       /\ f.version \in DOMAIN applied[i] /\ SameSum(i, f)
       /\ todo' = [todo EXCEPT ![i] = @ \ {f}]
  /\ UNCHANGED <<files, db, lock, tx, ghosts, pc, applied, expired, counters>>

\* The file is recorded with another checksum: an error.
Mismatch(i) ==
  /\ pc[i] = "loop"
  /\ \E f \in NextFile(i) : f.version \in DOMAIN applied[i] /\ ~SameSum(i, f)
  /\ Goto(i, "abort")
  /\ UNCHANGED <<files, db, lock, tx, ghosts, locals, expired, counters>>

\* applyMigration begins its transaction.
Begin(i) ==
  /\ pc[i] = "loop" /\ ~expired[i]
  /\ \E f \in NextFile(i) :
       /\ f.version \notin DOMAIN applied[i]
       /\ tx' = [tx EXCEPT ![i] =
                   [file |-> f, effect |-> 0, rank |-> 0, inserted |-> FALSE]]
  /\ Goto(i, "run")
  /\ UNCHANGED <<files, db, lock, ghosts, locals, expired, counters>>

\* Mutant: the statements run on the pool, outside the transaction.
StatementsOutside(i) ==
  /\ schema' = [schema EXCEPT ![tx[i].file.version] = @ + 1]
  /\ UNCHANGED tx

Statements(i) ==
  /\ tx' = [tx EXCEPT ![i].effect = 1]
  /\ UNCHANGED schema

\* The statements find their names taken by a committed transaction: an
\* error, unless they say IF NOT EXISTS and did not have to wait for it.
NamesTaken(i) == /\ schema[tx[i].file.version] > 0
                 /\ pc[i] = "runwait" \/ tx[i].file.version \notin Rerunnable

Run(i) ==
  /\ pc[i] \in {"run", "runwait"} /\ ~expired[i] /\ ~DDLBlocked(i)
  /\ IF NamesTaken(i) THEN Goto(i, "rollback") /\ UNCHANGED <<schema, tx>>
     ELSE Goto(i, "record") /\ Statements(i)
  /\ UNCHANGED <<files, history, lock, ghosts, locals, expired, counters>>

RunWaits(i) ==
  /\ pc[i] = "run" /\ ~expired[i] /\ DDLBlocked(i)
  /\ Goto(i, "runwait")
  /\ UNCHANGED <<files, db, lock, tx, ghosts, locals, expired, counters>>

\* Mutant: no check of the range.
FitsAlways(i) == TRUE

\* int64(crc32) fits the INT column.
Fits(i) == tx[i].file.checksum <= MaxInt4

\* The INSERT begins: installed_rank is MAX + 1 over the committed rows.
Record(i) ==
  /\ pc[i] = "record" /\ ~expired[i]
  /\ IF Fits(i) THEN /\ tx' = [tx EXCEPT ![i].rank = Len(history) + 1]
                     /\ Goto(i, "insert")
     ELSE Goto(i, "rollback") /\ UNCHANGED tx
  /\ UNCHANGED <<files, db, lock, ghosts, locals, expired, counters>>

\* The primary key admits the row, unless another row took its rank.
Insert(i) ==
  /\ pc[i] = "insert" /\ ~expired[i] /\ ~RankBlocked(i)
  /\ IF tx[i].rank > Len(history)
     THEN Goto(i, "commit") /\ tx' = [tx EXCEPT ![i].inserted = TRUE]
     ELSE Goto(i, "rollback") /\ UNCHANGED tx
  /\ UNCHANGED <<files, db, lock, ghosts, locals, expired, counters>>

Commit(i) ==
  /\ pc[i] = "commit" /\ ~expired[i]
  /\ Committed(tx[i])
  /\ tx' = [tx EXCEPT ![i] = NULL]
  /\ todo' = [todo EXCEPT ![i] = @ \ {tx[i].file}]
  /\ Goto(i, "loop")
  /\ UNCHANGED <<files, lock, ghosts, applied, expired, counters>>

\* The deferred rollback of applyMigration.
Rollback(i) ==
  /\ pc[i] = "rollback"
  /\ tx' = [tx EXCEPT ![i] = NULL]
  /\ Goto(i, "abort")
  /\ UNCHANGED <<files, db, lock, ghosts, locals, expired, counters>>

\* The loop is over: Migrate returns nil.
Finish(i) ==
  /\ pc[i] = "loop" /\ todo[i] = {}
  /\ Goto(i, "done")
  /\ UNCHANGED <<files, db, lock, tx, ghosts, locals, expired, counters>>

\* Mutant: the unlock is forgotten.
UnlockedNever(i) == lock

\* pg_advisory_unlock has no effect in a session that does not hold the lock.
Unlocked(i) == IF lock = i THEN NULL ELSE lock

\* The deferred unlock; the caller gets nil or the error.
Unlock(i) ==
  /\ pc[i] \in {"done", "abort"}
  /\ lock' = Unlocked(i)
  /\ Goto(i, IF pc[i] = "done" THEN "ready" ELSE "retry")
  /\ UNCHANGED <<files, db, tx, ghosts, locals, expired, counters>>

\* migrateWithRetry after an error: again, or give up once the time is over.
Retry(i) ==
  /\ pc[i] = "retry"
  /\ Goto(i, IF expired[i] THEN "failed" ELSE "lock")
  /\ UNCHANGED <<files, db, lock, tx, ghosts, locals, expired, counters>>

-----------------------------------------------------------------------------
(* Failures.                                                                *)

\* deadlineCtx expires, or the process is told to stop.
Deadline(i) ==
  /\ pc[i] \notin Started /\ ~expired[i]
  /\ expired' = [expired EXCEPT ![i] = TRUE]
  /\ UNCHANGED <<files, db, lock, tx, ghosts, pc, locals, counters>>

\* Where Migrate goes when the call at `label' returns an error.
ErrorLabel(label) == CASE label = "lock" -> "retry"
                       [] label \in InTx -> "rollback"
                       [] OTHER -> "abort"

\* A call that takes the context needs one: the loop's only when it begins a
\* transaction.
CallsDatabase(i) ==
  /\ pc[i] \in CtxCalls
  /\ pc[i] = "loop" => \E f \in NextFile(i) : f.version \notin DOMAIN applied[i]

\* The context is done: the call returns its error without being sent.
CallExpires(i) ==
  /\ CallsDatabase(i) /\ expired[i]
  /\ Goto(i, ErrorLabel(pc[i]))
  /\ UNCHANGED <<files, db, lock, tx, ghosts, locals, expired, counters>>

\* A call fails and leaves the session as it is.
CallFails(i) ==
  /\ CallsDatabase(i) /\ ~expired[i] /\ fails + lost < MaxFaults
  /\ fails' = fails + 1
  /\ Goto(i, ErrorLabel(pc[i]))
  /\ UNCHANGED <<files, db, lock, tx, ghosts, locals, expired, lost>>

\* The session of i is gone for its client.  The server has ended it, or lets
\* it linger: a COMMIT or a wait for the lock may still be under way there.
SessionLost(i) ==
  /\ fails + lost < MaxFaults
  /\ lost' = lost + 1
  /\ tx' = [tx EXCEPT ![i] = NULL]
  /\ \/ /\ lock' = IF lock = i THEN NULL ELSE lock
        /\ UNCHANGED ghosts
     \/ /\ lock' = IF lock = i THEN lost + 1 ELSE lock
        /\ ghosts' = ghosts \cup
             {[id |-> lost + 1, waiting |-> pc[i] = "lock",
               committing |-> pc[i] = "commit", tx |-> tx[i]]}
  /\ UNCHANGED <<files, db, fails>>

\* The call under way returns an error.
SessionFails(i) ==
  /\ CallsDatabase(i)
  /\ SessionLost(i)
  /\ Goto(i, ErrorLabel(pc[i]))
  /\ UNCHANGED <<locals, expired>>

\* Between two calls outside a transaction the pool finds the session dead
\* and opens another, or an error is ignored, as those of the rollback and
\* of the unlock are.
SessionReplaced(i) ==
  /\ pc[i] \in {"ensure", "load", "loop", "rollback", "done", "abort"}
  /\ SessionLost(i)
  /\ UNCHANGED <<pc, locals, expired>>

\* The process dies and is started again.
Crash(i) ==
  /\ pc[i] \notin Started
  /\ SessionLost(i)
  /\ Goto(i, "lock")
  /\ applied' = [applied EXCEPT ![i] = <<>>]
  /\ todo' = [todo EXCEPT ![i] = {}]
  /\ expired' = [expired EXCEPT ![i] = FALSE]

\* A lingering session is granted the lock it was waiting for.
GhostLocks(g) ==
  /\ g.waiting /\ lock = NULL
  /\ lock' = g.id
  /\ ghosts' = (ghosts \ {g}) \cup {[g EXCEPT !.waiting = FALSE]}
  /\ UNCHANGED <<files, db, tx, pc, locals, expired, counters>>

\* The server ends a lingering session, its COMMIT done or not.
Reap(g) ==
  /\ ghosts' = ghosts \ {g}
  /\ lock' = IF lock = g.id THEN NULL ELSE lock
  /\ (g.committing /\ Committed(g.tx)) \/ UNCHANGED db
  /\ UNCHANGED <<files, tx, pc, locals, expired, counters>>

Step(i) == \/ EnsureSchemaHistory(i) \/ LoadAppliedMigrations(i)
           \/ Skip(i) \/ Mismatch(i) \/ Begin(i) \/ Run(i) \/ RunWaits(i)
           \/ Record(i) \/ Insert(i) \/ Commit(i) \/ Rollback(i)
           \/ Finish(i) \/ Unlock(i) \/ Retry(i) \/ CallExpires(i)

Fault(i) == \/ Deadline(i) \/ CallFails(i) \/ SessionFails(i)
            \/ SessionReplaced(i) \/ Crash(i)

Next == \/ \E i \in Instances : Lock(i) \/ Step(i) \/ Fault(i)
        \/ \E g \in ghosts : GhostLocks(g) \/ Reap(g)

Spec == Init /\ [][Next]_vars

\* Every instance goes on, and the server ends lingering sessions.  Waiters
\* for an advisory lock are served in their order, so one that waits is not
\* passed over for ever.  No failure is fair, the deadline included.
Fairness == /\ \A i \in Instances : WF_vars(Step(i)) /\ SF_vars(Lock(i))
            /\ WF_vars(\E g \in ghosts : Reap(g))

FairSpec == Spec /\ Fairness

-----------------------------------------------------------------------------
Row4 == [version : Versions, checksum : 0 .. MaxInt4]
Tx == [file : Files, effect : {0, 1}, rank : Nat, inserted : BOOLEAN]
Applied == UNION {[S -> Sums] : S \in SUBSET Versions}
Ghost == [id : 1 .. MaxFaults, waiting : BOOLEAN, committing : BOOLEAN, tx : Tx \cup {NULL}]

ASSUME NullAssumption == NULL \notin Tx \cup Seq(Row4)

\* Every variable holds a value of its kind; the history has no checksum that
\* the INT column could not hold.
TypeOK ==
  /\ files \in Deployments
  /\ history = NULL \/ history \in Seq(Row4)
  /\ schema \in [Versions -> Nat]
  /\ lock \in Instances \cup {NULL} \cup (1 .. MaxFaults)
  /\ tx \in [Instances -> Tx \cup {NULL}]
  /\ ghosts \subseteq Ghost
  /\ pc \in [Instances -> CtxCalls \cup Started \cup
                           {"rollback", "abort", "done", "retry"}]
  /\ applied \in [Instances -> Applied]
  /\ todo \in [Instances -> SUBSET Files]
  /\ \A i \in Instances : todo[i] \subseteq files[i]
  /\ expired \in [Instances -> BOOLEAN]
  /\ fails \in Nat /\ lost \in Nat /\ fails + lost <= MaxFaults

\* An instance serves only on the schema it was built for: each of its files
\* is recorded with the checksum of that file, also after lost sessions,
\* retries and other releases' migrations (migrate.go:56-76).
ReadyMeansMigrated ==
  \A i \in Instances : pc[i] = "ready" =>
    \A f \in files[i] : Recorded(f)

\* The history is the truth about the schema: statements have taken effect
\* exactly as often as they are recorded, whatever failed in between
\* (migrate.go:131-176).
HistoryMatchesSchema == \A v \in Versions : schema[v] = Count(v)

\* A version is applied a second time only by an instance whose session, and
\* with it the lock, was lost (migrate.go:34).
TwiceOnlyAfterLoss == \A v \in Versions : Count(v) <= 1 + lost

OrderStep ==
  \A k \in DOMAIN Rows' \ DOMAIN Rows :
    \E i \in Instances :
      /\ Rows'[k] \in files[i]
      /\ \A f \in files[i] :
           Number(Parts(f)) < Number(Parts(Rows'[k])) => Count(f.version) > 0

\* A file is recorded only after the files of lower version in the same binary,
\* versions taken as numbers, not as texts or lists (migrate.go:56, 208, 256).
AppliedInOrder == [][OrderStep]_vars

\* The files of i are in order, fit the column and no other release disagrees.
Startable(i) ==
  /\ Lists(files[i])
  /\ \A f \in files[i] :
       /\ f.checksum <= MaxInt4
       /\ \A j \in Instances : \A g \in files[j] : g.version = f.version => g = f

\* Every instance that can start does, or its time runs out: no failed call,
\* lost session, crash or hopeless neighbour keeps the lock for ever
\* (migrate.go:38-40, main.go:129-148).
EventuallyStarted ==
  \A i \in Instances : Startable(i) ~> pc[i] \in Started

-----------------------------------------------------------------------------
(* The inductive invariant                                                  *)

Applying == {"loop"} \cup InTx
Migrating == {"ensure", "load"} \cup Applying

\* What Migrate knows at each call: the files are in order, those it has passed
\* are recorded, what it has read still is, and an open transaction has done
\* what the calls before this one do.
CallInv(i) ==
  /\ pc[i] \in {"load", "done", "ready"} \cup Applying =>
       /\ history # NULL /\ Lists(files[i])
       /\ \A f \in files[i] \ todo[i] : Recorded(f)
  /\ pc[i] \in {"done", "ready"} => todo[i] = {}
  /\ pc[i] \in Applying => \A v \in DOMAIN applied[i] :
                             Recorded([version |-> v, checksum |-> applied[i][v]])
  /\ pc[i] \in InTx => /\ tx[i] # NULL /\ tx[i].file \in NextFile(i)
                       /\ tx[i].file.version \notin DOMAIN applied[i]
  /\ pc[i] \in {"record", "insert", "commit"} => tx[i].effect = 1
  /\ pc[i] \in {"insert", "commit"} => tx[i].file.checksum <= MaxInt4

\* The lower files of some release that has f are recorded.
InOrder(f) ==
  \E i \in Instances :
    /\ f \in files[i] /\ Lists(files[i])
    /\ \A g \in files[i] : Less(Parts(g), Parts(f)) => Recorded(g)

\* A COMMIT that is under way without its client is as good as any other.
GhostInv ==
  \A g \in ghosts : g.committing =>
    /\ ~g.waiting /\ history # NULL /\ g.tx # NULL /\ g.tx.effect = 1
    /\ g.tx.file.checksum <= MaxInt4 /\ InOrder(g.tx.file)

\* Those that migrate without the lock, and COMMITs without a client: each has
\* cost a session.
Outlaws == {i \in Instances : pc[i] \in Migrating /\ lock # i}
Committing == {g \in ghosts : g.committing}
LossInv ==
  /\ IsFiniteSet(ghosts)
  /\ Cardinality(Outlaws) + Cardinality(Committing) <= lost

\* Those that have yet to apply version v, by their own lights.
Pending(v) == {i \in Instances : /\ pc[i] \in Applying /\ v \notin DOMAIN applied[i]
                                 /\ \E f \in todo[i] : f.version = v}
CommittingOf(v) == {g \in Committing : g.tx.file.version = v}
TwiceInv ==
  \A v \in Versions :
    Count(v) + Cardinality(Pending(v)) + Cardinality(CommittingOf(v)) <= 1 + lost

Inv == /\ TypeOK /\ (\A i \in Instances : CallInv(i)) /\ GhostInv
       /\ HistoryMatchesSchema /\ LossInv /\ TwiceInv
=============================================================================
