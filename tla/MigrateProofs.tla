--------------------------- MODULE MigrateProofs ---------------------------
(***************************************************************************)
(* Proofs about Migrate for any number of instances, any deployment of     *)
(* releases and any number of faults.  Most steps change one instance and  *)
(* no row (LocalStep); a step with a lost session pays for what it leaves  *)
(* behind with that session (LossStep); the others, which read or write    *)
(* rows, are treated one by one.                                           *)
(***************************************************************************)
EXTENDS Migrate, FiniteSetTheorems, SequenceTheorems, TLAPS

-----------------------------------------------------------------------------
(* Rows of the history                                                      *)

\* A file is its version and its checksum.
LEMMA FileRecords ==
  ASSUME NEW f \in Files
  PROVE  /\ f.version \in Versions /\ f.checksum \in Nat
         /\ f = [version |-> f.version, checksum |-> f.checksum]
<1>1. f \in [version : Versions, checksum : Sums] /\ Sums \subseteq Nat
  BY MigrateAssumption
<1>2. QED
  BY <1>1

\* Releases and what is left of them hold files.
LEMMA FileTypes ==
  ASSUME TypeOK, NEW i \in Instances
  PROVE  files[i] \subseteq Files /\ todo[i] \subseteq Files
BY DEF TypeOK, Files

\* The rows are a sequence, whether or not there is a table.
LEMMA RowsType == TypeOK => Rows \in Seq(Row4) /\ (history # NULL => history = Rows)
BY NullAssumption DEF TypeOK, Rows

\* The set of places of version v in a history.
Places(h, v) == {k \in DOMAIN h : h[k].version = v}

\* There are finitely many of them.
LEMMA PlacesFinite ==
  ASSUME NEW h \in Seq(Row4), NEW v
  PROVE  IsFiniteSet(Places(h, v)) /\ Cardinality(Places(h, v)) \in Nat
<1>1. DOMAIN h = 1 .. Len(h) /\ Len(h) \in Nat
  OBVIOUS
<1>2. IsFiniteSet(DOMAIN h)
  BY <1>1, FS_Interval
<1>3. QED
  BY <1>2, FS_Subset, FS_CardinalityType DEF Places

\* A row more is a place more for its version and for no other.
LEMMA PlacesAppend ==
  ASSUME NEW h \in Seq(Row4), NEW f \in Row4, NEW v
  PROVE  Cardinality(Places(Append(h, f), v)) =
           Cardinality(Places(h, v)) + (IF f.version = v THEN 1 ELSE 0)
<1> DEFINE n == Len(h) + 1
<1>1. /\ DOMAIN h = 1 .. Len(h) /\ Len(h) \in Nat
      /\ DOMAIN Append(h, f) = 1 .. n
      /\ \A k \in 1 .. Len(h) : Append(h, f)[k] = h[k]
      /\ Append(h, f)[n] = f
  OBVIOUS
<1>2. n \notin Places(h, v)
  BY <1>1 DEF Places
<1>3. CASE f.version = v
  <2>1. Places(Append(h, f), v) = Places(h, v) \cup {n}
    BY <1>1, <1>3 DEF Places
  <2>2. Cardinality(Places(h, v) \cup {n}) = Cardinality(Places(h, v)) + 1
    BY <1>2, PlacesFinite, FS_AddElement
  <2>3. QED
    BY <2>1, <2>2, <1>3
<1>4. CASE f.version # v
  <2>1. Places(Append(h, f), v) = Places(h, v)
    BY <1>1, <1>4 DEF Places
  <2>2. QED
    BY <2>1, <1>4, PlacesFinite
<1>5. QED
  BY <1>3, <1>4

\* Count is their number.
LEMMA CountPlaces == \A v : Count(v) = Cardinality(Places(Rows, v))
BY DEF Count, Places

\* What the commit of t does to history, schema and counts.
LEMMA CommitRows ==
  ASSUME TypeOK, history # NULL, NEW t \in Tx, t.file.checksum <= MaxInt4, Committed(t)
  PROVE  /\ history' \in Seq(Row4) /\ history' # NULL /\ Rows' = Append(Rows, t.file)
         /\ Recorded(t.file)' /\ \A f : Recorded(f) => Recorded(f)'
         /\ \A v : Count(v)' = Count(v) + (IF t.file.version = v THEN 1 ELSE 0)
         /\ \A v : Count(v) \in Nat
<1>1. history \in Seq(Row4) /\ Rows = history
  BY RowsType
<1>2. t.file \in Row4
  BY FileRecords, MigrateAssumption DEF Tx, Row4
<1>3. history' = Append(history, t.file) /\ history' \in Seq(Row4)
  BY <1>1, <1>2 DEF Committed
<1>4. history' # NULL /\ Rows' = Append(Rows, t.file)
  BY <1>1, <1>3, NullAssumption DEF Rows
<1>5. Recorded(t.file)' /\ \A f : Recorded(f) => Recorded(f)'
  BY <1>1, <1>2, <1>4 DEF Recorded
<1>6. \A v : Count(v)' = Cardinality(Places(Rows', v))
  BY DEF Count, Places
<1>7. QED
  BY <1>1, <1>2, <1>3, <1>4, <1>5, <1>6, PlacesAppend, PlacesFinite, CountPlaces

-----------------------------------------------------------------------------
(* What steps leave alone                                                   *)

\* No step takes a row, or the table, away.
Grows == /\ history # NULL => history' # NULL
         /\ \A f : Recorded(f) => Recorded(f)'

\* A step that at most creates the table changes no row.
LEMMA RowsKept ==
  ASSUME TypeOK, history' = history \/ history' = Rows
  PROVE  Grows /\ Rows' = Rows /\ \A v : Count(v)' = Count(v)
<1>1. Rows' = Rows
  BY NullAssumption DEF Rows
<1>2. Rows # NULL
  BY RowsType, NullAssumption
<1>3. QED
  BY <1>1, <1>2 DEF Grows, Recorded, Count, Rows

\* What an instance knows stays true while others go on.
LEMMA OtherCall ==
  ASSUME NEW j \in Instances, CallInv(j), Grows, files' = files,
         pc'[j] = pc[j], tx'[j] = tx[j], applied'[j] = applied[j], todo'[j] = todo[j]
  PROVE  CallInv(j)'
BY DEF CallInv, Grows, NextFile

\* Lingering sessions stay as good as they were.
LEMMA GhostsKept ==
  ASSUME GhostInv, Grows, files' = files, \A g \in ghosts' : g \in ghosts \/ ~g.committing
  PROVE  GhostInv'
BY DEF GhostInv, InOrder, Grows

\* The sets that are counted are finite.
LEMMA OutlawsFinite ==
  ASSUME IsFiniteSet(ghosts)
  PROVE  /\ IsFiniteSet(Outlaws) /\ IsFiniteSet(Committing)
         /\ \A v : IsFiniteSet(Pending(v)) /\ IsFiniteSet(CommittingOf(v))
         /\ Cardinality(Outlaws) \in Nat /\ Cardinality(Committing) \in Nat
         /\ \A v : Cardinality(Pending(v)) \in Nat /\ Cardinality(CommittingOf(v)) \in Nat
<1>1. /\ IsFiniteSet(Outlaws) /\ IsFiniteSet(Committing)
      /\ \A v : IsFiniteSet(Pending(v)) /\ IsFiniteSet(CommittingOf(v))
  BY FS_Subset, MigrateAssumption DEF Outlaws, Committing, Pending, CommittingOf
<1>2. QED
  BY <1>1, FS_CardinalityType

\* Nobody more is without the lock.
LEMMA LossKept ==
  ASSUME LossInv, lost \in Nat, lost' = lost, IsFiniteSet(ghosts'),
         Outlaws' \subseteq Outlaws, Committing' \subseteq Committing
  PROVE  LossInv'
<1>1. /\ Cardinality(Outlaws') <= Cardinality(Outlaws) /\ Cardinality(Outlaws') \in Nat
      /\ Cardinality(Committing') <= Cardinality(Committing) /\ Cardinality(Committing') \in Nat
  BY OutlawsFinite, FS_Subset, FS_CardinalityType DEF LossInv
<1>2. QED
  BY <1>1, OutlawsFinite DEF LossInv

\* Counts are numbers.
LEMMA CountType == TypeOK => \A v : Count(v) \in Nat
BY RowsType, PlacesFinite, CountPlaces

\* Nobody more has yet to apply a version.
LEMMA TwiceKept ==
  ASSUME TypeOK, TwiceInv, LossInv, lost' = lost, \A v : Count(v)' = Count(v),
         \A v : Pending(v)' \subseteq Pending(v),
         \A v : CommittingOf(v)' \subseteq CommittingOf(v)
  PROVE  TwiceInv'
<1> SUFFICES ASSUME NEW v \in Versions
             PROVE  Count(v)' + Cardinality(Pending(v)') + Cardinality(CommittingOf(v)')
                      <= 1 + lost'
  BY DEF TwiceInv
<1>1. IsFiniteSet(Pending(v)) /\ IsFiniteSet(CommittingOf(v))
  BY OutlawsFinite DEF LossInv
<1>2. Pending(v)' \subseteq Pending(v) /\ CommittingOf(v)' \subseteq CommittingOf(v)
  OBVIOUS
<1>3. /\ Cardinality(Pending(v)') <= Cardinality(Pending(v)) /\ Cardinality(Pending(v)') \in Nat
      /\ Cardinality(CommittingOf(v)') <= Cardinality(CommittingOf(v))
      /\ Cardinality(CommittingOf(v)') \in Nat
  BY <1>1, <1>2, FS_Subset, FS_CardinalityType
<1>4. /\ Cardinality(Pending(v)) \in Nat /\ Cardinality(CommittingOf(v)) \in Nat
      /\ Count(v) \in Nat /\ Count(v)' = Count(v) /\ lost \in Nat
  BY <1>1, FS_CardinalityType, CountType DEF TypeOK
<1>5. Count(v) + Cardinality(Pending(v)) + Cardinality(CommittingOf(v)) <= 1 + lost
  BY DEF TwiceInv
<1>6. QED
  BY <1>3, <1>4, <1>5

-----------------------------------------------------------------------------
(* Steps of an instance that leave the database and its rows as they are    *)

Frame(i) == \A j \in Instances \ {i} : /\ pc'[j] = pc[j] /\ tx'[j] = tx[j]
                                       /\ applied'[j] = applied[j] /\ todo'[j] = todo[j]

\* The instances that did not move, and the one that did.
LEMMA AllCalls ==
  ASSUME \A j \in Instances : CallInv(j), NEW i \in Instances, CallInv(i)', Frame(i),
         Grows, files' = files
  PROVE  \A j \in Instances : CallInv(j)'
BY OtherCall DEF Frame

\* Neither history nor schema changed.
LEMMA HistoryKept ==
  ASSUME HistoryMatchesSchema, schema' = schema, \A v : Count(v)' = Count(v)
  PROVE  HistoryMatchesSchema'
BY DEF HistoryMatchesSchema

\* How such a step may move the lock and the instance.
LocalMove(i) ==
  /\ lock' = lock \/ (lock = NULL /\ lock' = i) \/ (lock = i /\ pc'[i] \notin Migrating)
  /\ pc'[i] \in Migrating => lock' = i \/ pc[i] \in Migrating
  /\ pc'[i] \in Applying =>
       pc[i] \in Applying /\ applied'[i] = applied[i] /\ todo'[i] \subseteq todo[i]

\* No instance becomes an outlaw, or has more to apply, by such a step.
LEMMA LocalSets ==
  ASSUME NEW i \in Instances, Frame(i), LocalMove(i), ghosts' = ghosts
  PROVE  /\ Outlaws' \subseteq Outlaws /\ Committing' \subseteq Committing
         /\ \A v : Pending(v)' \subseteq Pending(v)
         /\ \A v : CommittingOf(v)' \subseteq CommittingOf(v)
<1>1. Outlaws' \subseteq Outlaws
  <2>1. SUFFICES ASSUME NEW j \in Instances, pc'[j] \in Migrating, lock' # j
                 PROVE  pc[j] \in Migrating /\ lock # j
    BY DEF Outlaws
  <2>2. CASE j = i
    BY <2>1, <2>2 DEF LocalMove
  <2>3. CASE j # i
    BY <2>1, <2>3, MigrateAssumption DEF LocalMove, Frame
  <2>4. QED BY <2>2, <2>3
<1>2. ASSUME NEW v PROVE Pending(v)' \subseteq Pending(v)
  <2>1. SUFFICES ASSUME NEW j \in Instances, pc'[j] \in Applying, v \notin DOMAIN applied'[j],
                        \E f \in todo'[j] : f.version = v
                 PROVE  /\ pc[j] \in Applying /\ v \notin DOMAIN applied[j]
                        /\ \E f \in todo[j] : f.version = v
    BY DEF Pending
  <2>2. CASE j = i
    BY <2>1, <2>2 DEF LocalMove
  <2>3. CASE j # i
    BY <2>1, <2>3 DEF Frame
  <2>4. QED BY <2>2, <2>3
<1>3. QED
  BY <1>1, <1>2 DEF Committing, CommittingOf

\* Such a step keeps Inv.
LEMMA LocalStep ==
  ASSUME Inv, NEW i \in Instances, TypeOK', CallInv(i)', Frame(i), LocalMove(i),
         UNCHANGED <<files, ghosts, schema, lost>>, history' = history \/ history' = Rows
  PROVE  Inv'
<1>1. Grows /\ \A v : Count(v)' = Count(v)
  BY RowsKept DEF Inv
<1>2. \A j \in Instances : CallInv(j)'
  BY <1>1, AllCalls DEF Inv
<1>3. GhostInv'
  BY <1>1, GhostsKept DEF Inv
<1>4. HistoryMatchesSchema'
  BY <1>1, HistoryKept DEF Inv
<1>5. LossInv'
  BY LocalSets, LossKept DEF Inv, TypeOK, LossInv
<1>6. TwiceInv'
  BY <1>1, LocalSets, TwiceKept DEF Inv
<1>7. QED
  BY <1>2, <1>3, <1>4, <1>5, <1>6 DEF Inv

-----------------------------------------------------------------------------
(* One lemma per action                                                     *)

\* A mismatch ends the attempt.
LEMMA MismatchStep == ASSUME Inv, NEW i \in Instances, Mismatch(i) PROVE Inv'
<1> USE DEF Goto, InTx, CtxCalls, Started, Applying, Migrating, db, locals, counters
<1>1. TypeOK'
  BY DEF Inv, Mismatch, TypeOK
<1>2. CallInv(i)'
  BY DEF Inv, Mismatch, TypeOK, CallInv, NextFile, Recorded, Rows
<1>3. Frame(i) /\ LocalMove(i)
  BY DEF Inv, Mismatch, TypeOK, Frame, LocalMove
<1>4. QED
  BY <1>1, <1>2, <1>3, LocalStep DEF Mismatch

\* The statements wait.
LEMMA RunWaitsStep == ASSUME Inv, NEW i \in Instances, RunWaits(i) PROVE Inv'
<1> USE DEF Goto, InTx, CtxCalls, Started, Applying, Migrating, db, locals, counters
<1>1. TypeOK'
  BY DEF Inv, RunWaits, TypeOK
<1>2. CallInv(i)'
  BY DEF Inv, RunWaits, TypeOK, CallInv, NextFile, Recorded, Rows
<1>3. Frame(i) /\ LocalMove(i)
  BY DEF Inv, RunWaits, TypeOK, Frame, LocalMove
<1>4. QED
  BY <1>1, <1>2, <1>3, LocalStep DEF RunWaits

\* The loop is over.
LEMMA FinishStep == ASSUME Inv, NEW i \in Instances, Finish(i) PROVE Inv'
<1> USE DEF Goto, InTx, CtxCalls, Started, Applying, Migrating, db, locals, counters
<1>1. TypeOK'
  BY DEF Inv, Finish, TypeOK
<1>2. CallInv(i)'
  BY DEF Inv, Finish, TypeOK, CallInv, NextFile, Recorded, Rows
<1>3. Frame(i) /\ LocalMove(i)
  BY DEF Inv, Finish, TypeOK, Frame, LocalMove
<1>4. QED
  BY <1>1, <1>2, <1>3, LocalStep DEF Finish

\* The next attempt, or none.
LEMMA RetryStep == ASSUME Inv, NEW i \in Instances, Retry(i) PROVE Inv'
<1> USE DEF Goto, InTx, CtxCalls, Started, Applying, Migrating, db, locals, counters
<1>1. TypeOK'
  BY DEF Inv, Retry, TypeOK
<1>2. CallInv(i)'
  BY DEF Inv, Retry, TypeOK, CallInv, NextFile, Recorded, Rows
<1>3. Frame(i) /\ LocalMove(i)
  BY DEF Inv, Retry, TypeOK, Frame, LocalMove
<1>4. QED
  BY <1>1, <1>2, <1>3, LocalStep DEF Retry

\* The transaction is gone.
LEMMA RollbackStep == ASSUME Inv, NEW i \in Instances, Rollback(i) PROVE Inv'
<1> USE DEF Goto, InTx, CtxCalls, Started, Applying, Migrating, db, locals, counters
<1>1. TypeOK'
  BY DEF Inv, Rollback, TypeOK
<1>2. CallInv(i)'
  BY DEF Inv, Rollback, TypeOK, CallInv, NextFile, Recorded, Rows
<1>3. Frame(i) /\ LocalMove(i)
  BY DEF Inv, Rollback, TypeOK, Frame, LocalMove
<1>4. QED
  BY <1>1, <1>2, <1>3, LocalStep DEF Rollback

\* Time is up.
LEMMA DeadlineStep == ASSUME Inv, NEW i \in Instances, Deadline(i) PROVE Inv'
<1> USE DEF Goto, InTx, CtxCalls, Started, Applying, Migrating, db, locals, counters
<1>1. TypeOK'
  BY DEF Inv, Deadline, TypeOK
<1>2. CallInv(i)'
  BY DEF Inv, Deadline, TypeOK, CallInv, NextFile, Recorded, Rows
<1>3. Frame(i) /\ LocalMove(i)
  BY DEF Inv, Deadline, TypeOK, Frame, LocalMove
<1>4. QED
  BY <1>1, <1>2, <1>3, LocalStep DEF Deadline

\* The lock is taken.
LEMMA LockStep == ASSUME Inv, NEW i \in Instances, Lock(i) PROVE Inv'
<1> USE DEF Goto, InTx, CtxCalls, Started, Applying, Migrating, db, locals, counters
<1>1. TypeOK'
  BY DEF Inv, Lock, TypeOK
<1>2. CallInv(i)'
  BY DEF Inv, Lock, TypeOK, CallInv
<1>3. Frame(i) /\ LocalMove(i)
  BY DEF Inv, Lock, LockFree, TypeOK, Frame, LocalMove
<1>4. QED
  BY <1>1, <1>2, <1>3, LocalStep DEF Lock

\* The lock is given back, if it is there.
LEMMA UnlockStep == ASSUME Inv, NEW i \in Instances, Unlock(i) PROVE Inv'
<1> USE DEF Goto, InTx, CtxCalls, Started, Applying, Migrating, db, locals, counters
<1>1. TypeOK'
  BY DEF Inv, Unlock, Unlocked, TypeOK
<1>2. CallInv(i)'
  BY DEF Inv, Unlock, TypeOK, CallInv, Recorded, Rows
<1>3. Frame(i) /\ LocalMove(i)
  BY DEF Inv, Unlock, Unlocked, TypeOK, Frame, LocalMove
<1>4. QED
  BY <1>1, <1>2, <1>3, LocalStep DEF Unlock

\* There is a table, and the files are listed.
LEMMA EnsureStep == ASSUME Inv, NEW i \in Instances, EnsureSchemaHistory(i) PROVE Inv'
<1> USE DEF Goto, InTx, CtxCalls, Started, Applying, Migrating, counters
<1>1. Rows \in Seq(Row4) /\ Rows # NULL
  BY RowsType, NullAssumption DEF Inv
<1>2. files[i] \subseteq Files
  BY FileTypes DEF Inv
<1>3. TypeOK'
  BY <1>1, <1>2 DEF Inv, EnsureSchemaHistory, TypeOK
<1>4. CallInv(i)'
  BY <1>1 DEF Inv, EnsureSchemaHistory, TypeOK, CallInv
<1>5. Frame(i) /\ LocalMove(i)
  BY DEF Inv, EnsureSchemaHistory, TypeOK, Frame, LocalMove
<1>6. QED
  BY <1>3, <1>4, <1>5, LocalStep DEF EnsureSchemaHistory

\* A file that is recorded is passed.
LEMMA SkipStep == ASSUME Inv, NEW i \in Instances, Skip(i) PROVE Inv'
<1> USE DEF InTx, CtxCalls, Started, Applying, Migrating, db, counters
<1>1. PICK f \in NextFile(i) : /\ f.version \in DOMAIN applied[i] /\ SameSum(i, f)
                               /\ todo' = [todo EXCEPT ![i] = @ \ {f}]
  BY DEF Skip
<1>2. f \in todo[i] /\ f \in Files
  BY <1>1, FileTypes DEF NextFile, First, Inv
<1>3. Recorded(f)
  <2>1. Recorded([version |-> f.version, checksum |-> applied[i][f.version]])
    BY <1>1 DEF Inv, Skip, CallInv
  <2>2. QED
    BY <2>1, <1>1, <1>2, FileRecords DEF SameSum
<1>4. TypeOK'
  BY <1>1, <1>2 DEF Inv, Skip, TypeOK
<1>5. todo'[i] = todo[i] \ {f}
  BY <1>1 DEF Inv, TypeOK
<1>6. \A g : Recorded(g)' <=> Recorded(g)
  BY DEF Skip, Recorded, Rows
<1>7. CallInv(i)'
  BY <1>3, <1>5, <1>6 DEF Inv, Skip, CallInv
<1>8. Frame(i) /\ LocalMove(i)
  BY <1>1, <1>5 DEF Inv, Skip, TypeOK, Frame, LocalMove
<1>9. QED
  BY <1>4, <1>7, <1>8, LocalStep DEF Skip

\* A transaction begins.
LEMMA BeginStep == ASSUME Inv, NEW i \in Instances, Begin(i) PROVE Inv'
<1> USE DEF Goto, InTx, CtxCalls, Started, Applying, Migrating, db, locals, counters
<1>1. PICK f \in NextFile(i) :
        /\ f.version \notin DOMAIN applied[i]
        /\ tx' = [tx EXCEPT ![i] =
                    [file |-> f, effect |-> 0, rank |-> 0, inserted |-> FALSE]]
  BY DEF Begin
<1>2. f \in todo[i] /\ f \in Files
  BY <1>1, FileTypes DEF NextFile, First, Inv
<1>3. [file |-> f, effect |-> 0, rank |-> 0, inserted |-> FALSE] \in Tx
  BY <1>2 DEF Tx
<1>4. TypeOK'
  BY <1>1, <1>3 DEF Inv, Begin, TypeOK
<1>5. tx'[i] = [file |-> f, effect |-> 0, rank |-> 0, inserted |-> FALSE] /\ tx'[i] # NULL
  BY <1>1, <1>3, NullAssumption DEF Inv, TypeOK
<1>6. CallInv(i)'
  BY <1>1, <1>5 DEF Inv, Begin, TypeOK, CallInv, NextFile, Recorded, Rows
<1>7. Frame(i) /\ LocalMove(i)
  BY <1>1 DEF Inv, Begin, TypeOK, Frame, LocalMove
<1>8. QED
  BY <1>4, <1>6, <1>7, LocalStep DEF Begin

\* The statements run, or find their names taken.
LEMMA RunStep == ASSUME Inv, NEW i \in Instances, Run(i) PROVE Inv'
<1> USE DEF Goto, InTx, CtxCalls, Started, Applying, Migrating, db, locals, counters
<1>1. tx[i] \in Tx
  BY DEF Inv, Run, CallInv, TypeOK
<1>2. [tx[i] EXCEPT !.effect = 1] \in Tx /\ [tx[i] EXCEPT !.effect = 1].effect = 1
      /\ [tx[i] EXCEPT !.effect = 1].file = tx[i].file
  BY <1>1 DEF Tx
<1>3. CASE NamesTaken(i)
  <2>1. TypeOK'
    BY <1>3 DEF Inv, Run, TypeOK
  <2>2. CallInv(i)'
    BY <1>3 DEF Inv, Run, TypeOK, CallInv
  <2>3. Frame(i) /\ LocalMove(i)
    BY <1>3 DEF Inv, Run, TypeOK, Frame, LocalMove
  <2>4. QED
    BY <1>3, <2>1, <2>2, <2>3, LocalStep DEF Run
<1>4. CASE ~NamesTaken(i)
  <2>1. TypeOK'
    BY <1>2, <1>4 DEF Inv, Run, Statements, TypeOK
  <2>2. tx'[i] = [tx[i] EXCEPT !.effect = 1] /\ tx'[i] # NULL
    BY <1>2, <1>4, NullAssumption DEF Inv, Run, Statements, TypeOK
  <2>3. CallInv(i)'
    BY <1>2, <1>4, <2>2 DEF Inv, Run, TypeOK, CallInv, NextFile, Recorded, Rows
  <2>4. Frame(i) /\ LocalMove(i)
    BY <1>4 DEF Inv, Run, Statements, TypeOK, Frame, LocalMove
  <2>5. QED
    BY <1>4, <2>1, <2>3, <2>4, LocalStep DEF Run, Statements
<1>5. QED
  BY <1>3, <1>4

\* The INSERT begins, or does not fit.
LEMMA RecordStep == ASSUME Inv, NEW i \in Instances, Record(i) PROVE Inv'
<1> USE DEF Goto, InTx, CtxCalls, Started, Applying, Migrating, db, locals, counters
<1>1. tx[i] \in Tx /\ history \in Seq(Row4)
  BY DEF Inv, Record, CallInv, TypeOK
<1>2. Len(history) + 1 \in Nat
  BY <1>1
<1> DEFINE t == [tx[i] EXCEPT !.rank = Len(history) + 1]
<1>3. t \in Tx /\ t.effect = tx[i].effect /\ t.file = tx[i].file
  BY <1>1, <1>2 DEF Tx
<1>4. CASE Fits(i)
  <2>1. tx' = [tx EXCEPT ![i] = t] /\ pc' = [pc EXCEPT ![i] = "insert"]
    BY <1>4 DEF Record
  <2> HIDE DEF t
  <2>2. TypeOK'
    BY <1>3, <2>1 DEF Inv, Record, TypeOK
  <2>3. tx'[i] = t /\ tx'[i] # NULL
    BY <1>3, <2>1, NullAssumption DEF Inv, TypeOK
  <2>4. CallInv(i)'
    BY <1>3, <1>4, <2>1, <2>3 DEF Inv, Record, Fits, TypeOK, CallInv, NextFile, Recorded, Rows
  <2>5. Frame(i) /\ LocalMove(i)
    BY <2>1 DEF Inv, Record, TypeOK, Frame, LocalMove
  <2>6. QED
    BY <2>2, <2>4, <2>5, LocalStep DEF Record
<1>5. CASE ~Fits(i)
  <2>1. TypeOK'
    BY <1>5 DEF Inv, Record, TypeOK
  <2>2. CallInv(i)'
    BY <1>5 DEF Inv, Record, TypeOK, CallInv
  <2>3. Frame(i) /\ LocalMove(i)
    BY <1>5 DEF Inv, Record, TypeOK, Frame, LocalMove
  <2>4. QED
    BY <2>1, <2>2, <2>3, LocalStep DEF Record
<1>6. QED
  BY <1>4, <1>5

\* The row is admitted, or its rank is taken.
LEMMA InsertStep == ASSUME Inv, NEW i \in Instances, Insert(i) PROVE Inv'
<1> USE DEF Goto, InTx, CtxCalls, Started, Applying, Migrating, db, locals, counters
<1>1. tx[i] \in Tx
  BY DEF Inv, Insert, CallInv, TypeOK
<1> DEFINE t == [tx[i] EXCEPT !.inserted = TRUE]
<1>2. t \in Tx /\ t.effect = tx[i].effect /\ t.file = tx[i].file
  BY <1>1 DEF Tx
<1>3. CASE tx[i].rank > Len(history)
  <2>1. tx' = [tx EXCEPT ![i] = t] /\ pc' = [pc EXCEPT ![i] = "commit"]
    BY <1>3 DEF Insert
  <2> HIDE DEF t
  <2>2. TypeOK'
    BY <1>2, <2>1 DEF Inv, Insert, TypeOK
  <2>3. tx'[i] = t /\ tx'[i] # NULL
    BY <1>2, <2>1, NullAssumption DEF Inv, TypeOK
  <2>4. CallInv(i)'
    BY <1>2, <2>1, <2>3 DEF Inv, Insert, TypeOK, CallInv, NextFile, Recorded, Rows
  <2>5. Frame(i) /\ LocalMove(i)
    BY <2>1 DEF Inv, Insert, TypeOK, Frame, LocalMove
  <2>6. QED
    BY <2>2, <2>4, <2>5, LocalStep DEF Insert
<1>4. CASE ~(tx[i].rank > Len(history))
  <2>1. TypeOK'
    BY <1>4 DEF Inv, Insert, TypeOK
  <2>2. CallInv(i)'
    BY <1>4 DEF Inv, Insert, TypeOK, CallInv
  <2>3. Frame(i) /\ LocalMove(i)
    BY <1>4 DEF Inv, Insert, TypeOK, Frame, LocalMove
  <2>4. QED
    BY <2>1, <2>2, <2>3, LocalStep DEF Insert
<1>5. QED
  BY <1>3, <1>4

\* Where an error leads, nothing is known.
LEMMA ErrorLabels == \A l : ErrorLabel(l) \in {"retry", "rollback", "abort"}
BY DEF ErrorLabel

\* The context is done.
LEMMA CallExpiresStep == ASSUME Inv, NEW i \in Instances, CallExpires(i) PROVE Inv'
<1> USE DEF Goto, InTx, CtxCalls, Started, Applying, Migrating, db, locals
<1>1. PICK l \in {"retry", "rollback", "abort"} : pc' = [pc EXCEPT ![i] = l]
  BY ErrorLabels DEF CallExpires
<1>2. TypeOK'
  BY <1>1, MigrateAssumption DEF Inv, CallExpires, TypeOK, counters
<1>3. pc'[i] = l
  BY <1>1 DEF Inv, TypeOK
<1>4. CallInv(i)'
  BY <1>3 DEF CallInv
<1>5. Frame(i) /\ LocalMove(i)
  BY <1>1, <1>3 DEF Inv, CallExpires, TypeOK, Frame, LocalMove, counters
<1>6. QED
  BY <1>2, <1>4, <1>5, LocalStep DEF CallExpires, counters

\* A call fails.
LEMMA CallFailsStep == ASSUME Inv, NEW i \in Instances, CallFails(i) PROVE Inv'
<1> USE DEF Goto, InTx, CtxCalls, Started, Applying, Migrating, db, locals
<1>1. PICK l \in {"retry", "rollback", "abort"} : pc' = [pc EXCEPT ![i] = l]
  BY ErrorLabels DEF CallFails
<1>2. TypeOK'
  BY <1>1, MigrateAssumption DEF Inv, CallFails, TypeOK, counters
<1>3. pc'[i] = l
  BY <1>1 DEF Inv, TypeOK
<1>4. CallInv(i)'
  BY <1>3 DEF CallInv
<1>5. Frame(i) /\ LocalMove(i)
  BY <1>1, <1>3 DEF Inv, CallFails, TypeOK, Frame, LocalMove, counters
<1>6. QED
  BY <1>2, <1>4, <1>5, LocalStep DEF CallFails, counters

-----------------------------------------------------------------------------
(* Reading and writing the history                                          *)

\* One element more is one element more.
LEMMA SubsetPlusOne ==
  ASSUME NEW S, NEW T, NEW x, IsFiniteSet(S), T \subseteq S \cup {x}
  PROVE  /\ IsFiniteSet(T) /\ Cardinality(T) <= Cardinality(S) + 1
         /\ Cardinality(T) \in Nat /\ Cardinality(S) \in Nat
<1>1. /\ IsFiniteSet(S \cup {x}) /\ Cardinality(S) \in Nat
      /\ Cardinality(S \cup {x}) <= Cardinality(S) + 1
  <2>1. Cardinality(S) \in Nat
    BY FS_CardinalityType
  <2>2. CASE x \in S
    <3>1. S \cup {x} = S BY <2>2
    <3>2. QED BY <2>1, <3>1
  <2>3. CASE x \notin S
    <3>1. IsFiniteSet(S \cup {x}) /\ Cardinality(S \cup {x}) = Cardinality(S) + 1
      BY <2>3, FS_AddElement
    <3>2. QED BY <2>1, <3>1
  <2>4. QED BY <2>2, <2>3
<1>2. /\ IsFiniteSet(T) /\ Cardinality(T) <= Cardinality(S \cup {x})
      /\ Cardinality(T) \in Nat /\ Cardinality(S \cup {x}) \in Nat
  BY <1>1, FS_Subset, FS_CardinalityType
<1>3. QED
  BY <1>1, <1>2

\* The applied versions are read.  Nobody who does not find v can be one too
\* many: at most one has the lock, and the others have cost a session each.
LEMMA LoadStep == ASSUME Inv, NEW i \in Instances, LoadAppliedMigrations(i) PROVE Inv'
<1> USE DEF Goto, InTx, CtxCalls, Started, Applying, Migrating, db, counters
<1> DEFINE VS == {Rows[k].version : k \in DOMAIN Rows}
<1>1. PICK m \in [VS -> Sums] :
        /\ \A v \in DOMAIN m :
             \E k \in DOMAIN Rows : Rows[k] = [version |-> v, checksum |-> m[v]]
        /\ applied' = [applied EXCEPT ![i] = m]
  BY DEF LoadAppliedMigrations
<1>2. VS \subseteq Versions
  <2>1. Rows \in Seq(Row4)
    BY RowsType DEF Inv
  <2>2. \A k \in DOMAIN Rows : Rows[k] \in Row4
    BY <2>1
  <2>3. QED
    BY <2>2 DEF Row4
<1>3. m \in Applied
  BY <1>1, <1>2 DEF Applied
<1> HIDE DEF VS
<1>4. TypeOK'
  BY <1>1, <1>3 DEF Inv, LoadAppliedMigrations, TypeOK
<1>5. /\ Grows /\ Rows' = Rows /\ (\A v : Count(v)' = Count(v))
      /\ \A f : Recorded(f)' <=> Recorded(f)
  BY RowsKept DEF Inv, LoadAppliedMigrations, Recorded
<1>6. applied'[i] = m /\ pc'[i] = "loop" /\ pc[i] = "load" /\ todo' = todo
  BY <1>1 DEF Inv, LoadAppliedMigrations, TypeOK
<1>7. \A v \in DOMAIN m : Recorded([version |-> v, checksum |-> m[v]])
  BY <1>1 DEF Recorded
<1>8. CallInv(i)'
  BY <1>5, <1>6, <1>7 DEF Inv, LoadAppliedMigrations, CallInv
<1>9. Frame(i)
  BY <1>1 DEF Inv, LoadAppliedMigrations, TypeOK, Frame
<1>10. (\A j \in Instances : CallInv(j)') /\ GhostInv' /\ HistoryMatchesSchema'
  BY <1>5, <1>8, <1>9, AllCalls, GhostsKept, HistoryKept DEF Inv, LoadAppliedMigrations
<1>11. Outlaws' \subseteq Outlaws /\ Committing' = Committing
  BY <1>6, <1>9 DEF Outlaws, Committing, Frame, LoadAppliedMigrations
<1>12. LossInv'
  BY <1>11, LossKept DEF Inv, LossInv, TypeOK, LoadAppliedMigrations
<1>13. TwiceInv'
  <2> SUFFICES ASSUME NEW v \in Versions
               PROVE  Count(v)' + Cardinality(Pending(v)') + Cardinality(CommittingOf(v)')
                        <= 1 + lost'
    BY DEF TwiceInv
  <2>1. IsFiniteSet(ghosts) /\ IsFiniteSet(ghosts')
    BY <1>12 DEF Inv, LossInv
  <2>2. CommittingOf(v)' = CommittingOf(v) /\ CommittingOf(v)' \subseteq Committing'
    BY <1>11 DEF CommittingOf
  <2>3. /\ IsFiniteSet(Pending(v)) /\ IsFiniteSet(Outlaws') /\ IsFiniteSet(Committing')
        /\ Cardinality(Pending(v)) \in Nat /\ Cardinality(CommittingOf(v)) \in Nat
    BY <2>1, OutlawsFinite, FS_Subset, MigrateAssumption DEF Outlaws, Committing
  <2>4. Count(v) \in Nat /\ Count(v)' = Count(v) /\ lost \in Nat /\ lost' = lost
    BY <1>5, CountType DEF Inv, TypeOK, LoadAppliedMigrations
  <2>5. CASE v \in VS
    <3>1. Pending(v)' \subseteq Pending(v)
      BY <2>5, <1>1, <1>6, <1>9 DEF Pending, Frame
    <3>2. Cardinality(Pending(v)') <= Cardinality(Pending(v)) /\ Cardinality(Pending(v)') \in Nat
      BY <3>1, <2>3, FS_Subset, FS_CardinalityType
    <3>3. QED
      BY <3>2, <2>2, <2>3, <2>4 DEF Inv, TwiceInv
  <2>6. CASE v \notin VS
    <3>1. Count(v) = 0
      <4>1. Places(Rows, v) = {}
        BY <2>6 DEF Places, VS
      <4>2. QED
        BY <4>1, CountPlaces, FS_EmptySet
    <3>2. Pending(v)' \subseteq Outlaws' \cup {lock'}
      BY DEF Pending, Outlaws
    <3>3. /\ Cardinality(Pending(v)') <= Cardinality(Outlaws') + 1
          /\ Cardinality(Pending(v)') \in Nat /\ Cardinality(Outlaws') \in Nat
      BY <3>2, <2>3, SubsetPlusOne
    <3>4. /\ Cardinality(CommittingOf(v)') <= Cardinality(Committing')
          /\ Cardinality(Committing') \in Nat
      BY <2>2, <2>3, FS_Subset, FS_CardinalityType
    <3>5. Cardinality(Outlaws') + Cardinality(Committing') <= lost'
      BY <1>12 DEF LossInv
    <3>6. QED
      BY <3>1, <3>3, <3>4, <3>5, <2>2, <2>3, <2>4
  <2>7. QED
    BY <2>5, <2>6
<1>14. QED
  BY <1>4, <1>10, <1>12, <1>13 DEF Inv

\* An instance's row is committed: one that had yet to apply it less.
LEMMA CommitStep == ASSUME Inv, NEW i \in Instances, Commit(i) PROVE Inv'
<1> USE DEF Goto, InTx, CtxCalls, Started, Applying, Migrating, counters
<1>0. PICK t, f : t = tx[i] /\ f = tx[i].file
  OBVIOUS
<1>1. /\ t \in Tx /\ t.effect = 1 /\ t.file = f /\ f.checksum <= MaxInt4 /\ history # NULL
      /\ f \in todo[i] /\ f.version \notin DOMAIN applied[i] /\ Lists(files[i])
      /\ pc[i] = "commit" /\ Committed(t)
  BY <1>0 DEF Inv, Commit, CallInv, TypeOK, NextFile, First
<1>2. f \in Files /\ f.version \in Versions
  BY <1>1, FileRecords DEF Tx
<1>3. /\ history' \in Seq(Row4) /\ history' # NULL /\ Recorded(f)' /\ Grows
      /\ \A v : Count(v)' = Count(v) + (IF f.version = v THEN 1 ELSE 0)
      /\ \A v : Count(v) \in Nat
  BY <1>1, CommitRows DEF Inv, Grows
<1>4. schema' = [schema EXCEPT ![f.version] = @ + 1]
  BY <1>1 DEF Committed
<1>5. /\ pc'[i] = "loop" /\ todo'[i] = todo[i] \ {f} /\ UNCHANGED <<files, ghosts, lost, lock, applied>>
      /\ tx' = [tx EXCEPT ![i] = NULL] /\ pc' = [pc EXCEPT ![i] = "loop"]
      /\ todo' = [todo EXCEPT ![i] = todo[i] \ {f}] /\ UNCHANGED <<expired, fails>>
  BY <1>0 DEF Inv, Commit, TypeOK
<1>6. TypeOK'
  BY <1>2, <1>3, <1>4, <1>5 DEF Inv, TypeOK
<1>7. Frame(i)
  BY <1>5 DEF Inv, TypeOK, Frame
<1>8. CallInv(i)'
  BY <1>1, <1>3, <1>5 DEF Inv, CallInv, Grows
<1>9. (\A j \in Instances : CallInv(j)') /\ GhostInv'
  BY <1>3, <1>5, <1>7, <1>8, AllCalls, GhostsKept DEF Inv
<1>10. HistoryMatchesSchema'
  BY <1>2, <1>3, <1>4 DEF Inv, HistoryMatchesSchema, TypeOK
<1>11. LossInv'
  <2>1. Outlaws' \subseteq Outlaws /\ Committing' \subseteq Committing
    BY <1>1, <1>5, <1>7 DEF Outlaws, Committing, Frame
  <2>2. QED
    BY <2>1, <1>5, LossKept DEF Inv, LossInv, TypeOK
<1>12. TwiceInv'
  <2> SUFFICES ASSUME NEW v \in Versions
               PROVE  Count(v)' + Cardinality(Pending(v)') + Cardinality(CommittingOf(v)')
                        <= 1 + lost'
    BY DEF TwiceInv
  <2>1. CommittingOf(v)' = CommittingOf(v)
    BY <1>5 DEF CommittingOf, Committing
  <2>2. IsFiniteSet(Pending(v)) /\ Cardinality(CommittingOf(v)) \in Nat
    BY OutlawsFinite DEF Inv, LossInv
  <2>3. Count(v) + Cardinality(Pending(v)) + Cardinality(CommittingOf(v)) <= 1 + lost
    BY DEF Inv, TwiceInv
  <2>4. Pending(v)' \subseteq Pending(v)
    BY <1>1, <1>5, <1>7 DEF Pending, Frame
  <2>5. /\ lost \in Nat /\ lost' = lost /\ Count(v) \in Nat
        /\ Count(v)' = Count(v) + (IF f.version = v THEN 1 ELSE 0)
    BY <1>3, <1>5 DEF Inv, TypeOK
  <2>6. CASE v = f.version
    <3>1. i \in Pending(v)
      BY <1>1, <2>6 DEF Pending
    <3>2. i \notin Pending(v)'
      BY <1>1, <1>5, <2>6 DEF Pending, Lists, Inv, TypeOK
    <3>3. Pending(v)' \subseteq Pending(v) \ {i}
      BY <2>4, <3>2
    <3>4. /\ IsFiniteSet(Pending(v) \ {i})
          /\ Cardinality(Pending(v) \ {i}) = Cardinality(Pending(v)) - 1
      BY <2>2, <3>1, FS_RemoveElement
    <3>5. /\ Cardinality(Pending(v)') <= Cardinality(Pending(v) \ {i})
          /\ Cardinality(Pending(v)') \in Nat /\ Cardinality(Pending(v)) \in Nat
      BY <2>2, <3>3, <3>4, FS_Subset, FS_CardinalityType
    <3>6. QED
      BY <2>1, <2>2, <2>3, <2>5, <2>6, <3>4, <3>5
  <2>7. CASE v # f.version
    <3>1. /\ Cardinality(Pending(v)') <= Cardinality(Pending(v))
          /\ Cardinality(Pending(v)') \in Nat /\ Cardinality(Pending(v)) \in Nat
      BY <2>2, <2>4, FS_Subset, FS_CardinalityType
    <3>2. QED
      BY <2>1, <2>2, <2>3, <2>5, <2>7, <3>1
  <2>8. QED
    BY <2>6, <2>7
<1>13. QED
  BY <1>6, <1>9, <1>10, <1>11, <1>12 DEF Inv

-----------------------------------------------------------------------------
(* Lost sessions                                                            *)

\* What SessionLost does, seen from outside: one session more is lost, the lock
\* moves only from i, and at most one session more lingers.
LEMMA LossEffect ==
  ASSUME TypeOK, NEW i \in Instances, SessionLost(i)
  PROVE  /\ lost' = lost + 1 /\ lost + 1 \in 1 .. MaxFaults /\ fails' = fails
         /\ fails + (lost + 1) <= MaxFaults
         /\ UNCHANGED <<files, history, schema>>
         /\ tx' = [tx EXCEPT ![i] = NULL]
         /\ lock' = lock \/ (lock = i /\ lock' \in {NULL, lost + 1})
         /\ \/ ghosts' = ghosts
            \/ ghosts' = ghosts \cup {[id |-> lost + 1, waiting |-> pc[i] = "lock",
                                       committing |-> pc[i] = "commit", tx |-> tx[i]]}
BY MigrateAssumption DEF SessionLost, TypeOK, db

\* The types of what SessionLost changes.
LEMMA LossTypes ==
  ASSUME TypeOK, NEW i \in Instances, SessionLost(i)
  PROVE  /\ ghosts' \subseteq Ghost
         /\ lock' \in Instances \cup {NULL} \cup (1 .. MaxFaults)
         /\ tx' \in [Instances -> Tx \cup {NULL}]
         /\ lost' \in Nat /\ fails' \in Nat /\ fails' + lost' <= MaxFaults
<1>1. [id |-> lost + 1, waiting |-> pc[i] = "lock",
       committing |-> pc[i] = "commit", tx |-> tx[i]] \in Ghost
  <2>1. tx[i] \in Tx \cup {NULL} /\ lost + 1 \in 1 .. MaxFaults
    BY LossEffect DEF TypeOK
  <2>2. (pc[i] = "lock") \in BOOLEAN /\ (pc[i] = "commit") \in BOOLEAN
    OBVIOUS
  <2>3. QED
    BY <2>1, <2>2 DEF Ghost
<1>2. ghosts' \subseteq Ghost
  BY <1>1, LossEffect DEF TypeOK
<1>3. QED
  BY <1>2, LossEffect DEF TypeOK

\* The instance goes on where it is, outside a transaction, or leaves Migrate.
LossMove(i) ==
  /\ (applied'[i] = applied[i] /\ todo'[i] = todo[i]) \/ pc'[i] \notin Applying
  /\ pc'[i] \in Migrating => pc'[i] = pc[i] /\ pc[i] # "commit"

\* A lost session keeps Inv.
LEMMA LossStep ==
  ASSUME Inv, NEW i \in Instances, SessionLost(i), TypeOK', CallInv(i)', Frame(i), LossMove(i)
  PROVE  Inv'
<1> USE DEF InTx, Applying, Migrating
<1>0. PICK g : g = [id |-> lost + 1, waiting |-> pc[i] = "lock",
                    committing |-> pc[i] = "commit", tx |-> tx[i]]
  OBVIOUS
<1>1. g.tx = tx[i] /\ (g.committing => pc[i] = "commit") /\ (g.waiting => pc[i] = "lock")
  BY <1>0, Zenon
<1>2. ghosts' \subseteq ghosts \cup {g}
  BY <1>0, LossEffect DEF Inv
<1>3. Grows /\ (\A v : Count(v)' = Count(v)) /\ (\A f : Recorded(f)' <=> Recorded(f))
  BY RowsKept, LossEffect DEF Inv, Recorded
<1>4. (\A j \in Instances : CallInv(j)') /\ HistoryMatchesSchema'
  BY <1>3, AllCalls, HistoryKept, LossEffect DEF Inv
<1>5. GhostInv'
  <2>1. SUFFICES ASSUME pc[i] = "commit"
                 PROVE  /\ history # NULL /\ tx[i] # NULL /\ tx[i].effect = 1
                        /\ tx[i].file.checksum <= MaxInt4 /\ InOrder(tx[i].file)
    BY <1>1, <1>2, <1>3, LossEffect DEF Inv, GhostInv, InOrder
  <2>2. /\ history # NULL /\ tx[i] # NULL /\ tx[i].effect = 1
        /\ tx[i].file.checksum <= MaxInt4 /\ tx[i].file \in First(todo[i])
        /\ Lists(files[i]) /\ \A f \in files[i] \ todo[i] : Recorded(f)
    BY <2>1 DEF Inv, CallInv, NextFile
  <2>3. InOrder(tx[i].file)
    BY <2>2 DEF InOrder, First, Inv, TypeOK
  <2>4. QED
    BY <2>2, <2>3
<1>6. IsFiniteSet(ghosts) /\ IsFiniteSet(ghosts') /\ lost \in Nat /\ lost' = lost + 1
  BY <1>2, SubsetPlusOne, LossEffect DEF Inv, LossInv, TypeOK
<1>7. LossInv'
  <2>1. IsFiniteSet(Outlaws) /\ IsFiniteSet(Committing)
    BY <1>6, OutlawsFinite
  <2>2. /\ Cardinality(Outlaws) + Cardinality(Committing) <= lost
        /\ Cardinality(Outlaws) \in Nat /\ Cardinality(Committing) \in Nat
    BY <2>1, FS_CardinalityType DEF Inv, LossInv
  <2>3. \A j \in Instances \ {i} : j \in Outlaws' => j \in Outlaws
    BY LossEffect, MigrateAssumption DEF Outlaws, Frame, Inv
  <2>4. CASE pc[i] = "commit"
    <3>1. Outlaws' \subseteq Outlaws
      BY <2>3, <2>4 DEF Outlaws, LossMove
    <3>2. Committing' \subseteq Committing \cup {g}
      BY <1>2 DEF Committing
    <3>3. /\ Cardinality(Outlaws') <= Cardinality(Outlaws) /\ Cardinality(Outlaws') \in Nat
          /\ Cardinality(Committing') <= Cardinality(Committing) + 1
          /\ Cardinality(Committing') \in Nat
      BY <2>1, <3>1, <3>2, SubsetPlusOne, FS_Subset, FS_CardinalityType
    <3>4. QED
      BY <1>6, <2>2, <3>3 DEF LossInv
  <2>5. CASE pc[i] # "commit"
    <3>1. Outlaws' \subseteq Outlaws \cup {i}
      BY <2>3 DEF Outlaws
    <3>2. Committing' \subseteq Committing
      BY <1>1, <1>2, <2>5 DEF Committing
    <3>3. /\ Cardinality(Outlaws') <= Cardinality(Outlaws) + 1 /\ Cardinality(Outlaws') \in Nat
          /\ Cardinality(Committing') <= Cardinality(Committing)
          /\ Cardinality(Committing') \in Nat
      BY <2>1, <3>1, <3>2, SubsetPlusOne, FS_Subset, FS_CardinalityType
    <3>4. QED
      BY <1>6, <2>2, <3>3 DEF LossInv
  <2>6. QED
    BY <2>4, <2>5
<1>8. TwiceInv'
  <2> SUFFICES ASSUME NEW v \in Versions
               PROVE  Count(v)' + Cardinality(Pending(v)') + Cardinality(CommittingOf(v)')
                        <= 1 + lost'
    BY DEF TwiceInv
  <2>1. Pending(v)' \subseteq Pending(v)
    BY DEF Pending, Frame, LossMove
  <2>2. CommittingOf(v)' \subseteq CommittingOf(v) \cup {g}
    BY <1>2 DEF CommittingOf, Committing
  <2>3. IsFiniteSet(Pending(v)) /\ IsFiniteSet(CommittingOf(v))
    BY <1>6, OutlawsFinite
  <2>4. /\ Cardinality(Pending(v)') <= Cardinality(Pending(v)) /\ Cardinality(Pending(v)') \in Nat
        /\ Cardinality(CommittingOf(v)') <= Cardinality(CommittingOf(v)) + 1
        /\ Cardinality(CommittingOf(v)') \in Nat
        /\ Cardinality(Pending(v)) \in Nat /\ Cardinality(CommittingOf(v)) \in Nat
    BY <2>1, <2>2, <2>3, SubsetPlusOne, FS_Subset, FS_CardinalityType
  <2>5. Count(v) + Cardinality(Pending(v)) + Cardinality(CommittingOf(v)) <= 1 + lost
    BY DEF Inv, TwiceInv
  <2>6. Count(v) \in Nat /\ Count(v)' = Count(v)
    BY <1>3, CountType DEF Inv
  <2>7. QED
    BY <1>6, <2>4, <2>5, <2>6
<1>9. QED
  BY <1>4, <1>5, <1>7, <1>8 DEF Inv

\* The call under way finds the session gone.
LEMMA SessionFailsStep == ASSUME Inv, NEW i \in Instances, SessionFails(i) PROVE Inv'
<1> USE DEF Goto, InTx, CtxCalls, Started, Applying, Migrating, locals
<1>1. PICK l \in {"retry", "rollback", "abort"} : pc' = [pc EXCEPT ![i] = l]
  BY ErrorLabels DEF SessionFails
<1>2. pc'[i] = l
  BY <1>1 DEF Inv, TypeOK
<1>3. TypeOK'
  BY <1>1, LossTypes, LossEffect DEF Inv, SessionFails, TypeOK
<1>4. CallInv(i)' /\ LossMove(i)
  BY <1>2 DEF CallInv, LossMove
<1>5. Frame(i)
  BY <1>1, LossEffect DEF Inv, SessionFails, TypeOK, Frame
<1>6. QED
  BY <1>3, <1>4, <1>5, LossStep DEF SessionFails

\* The pool opens another session, and nobody notices.
LEMMA SessionReplacedStep == ASSUME Inv, NEW i \in Instances, SessionReplaced(i) PROVE Inv'
<1> USE DEF InTx, CtxCalls, Started, Applying, Migrating, locals
<1>1. TypeOK'
  BY LossTypes, LossEffect DEF Inv, SessionReplaced, TypeOK
<1>2. \A f : Recorded(f)' <=> Recorded(f)
  BY LossEffect DEF Inv, SessionReplaced, Recorded, Rows
<1>3. CallInv(i)' /\ LossMove(i)
  BY <1>2, LossEffect DEF Inv, SessionReplaced, CallInv, LossMove
<1>4. Frame(i)
  BY LossEffect DEF Inv, SessionReplaced, TypeOK, Frame
<1>5. QED
  BY <1>1, <1>3, <1>4, LossStep DEF SessionReplaced

\* The process dies.
LEMMA CrashStep == ASSUME Inv, NEW i \in Instances, Crash(i) PROVE Inv'
<1> USE DEF Goto, InTx, CtxCalls, Started, Applying, Migrating
<1>1. <<>> \in Applied
  BY DEF Applied
<1>2. TypeOK'
  BY <1>1, LossTypes, LossEffect DEF Inv, Crash, TypeOK
<1>3. pc'[i] = "lock"
  BY DEF Inv, Crash, TypeOK
<1>4. CallInv(i)' /\ LossMove(i)
  BY <1>3 DEF CallInv, LossMove
<1>5. Frame(i)
  BY LossEffect DEF Inv, Crash, TypeOK, Frame
<1>6. QED
  BY <1>2, <1>4, <1>5, LossStep DEF Crash

\* A lingering session gets the lock.
LEMMA GhostLocksStep == ASSUME Inv, NEW g \in ghosts, GhostLocks(g) PROVE Inv'
<1> USE DEF db, locals, counters
<1> DEFINE h == [g EXCEPT !.waiting = FALSE]
<1>1. g \in Ghost
  BY DEF Inv, TypeOK
<1>2. h \in Ghost /\ (h.committing <=> g.committing) /\ h.tx = g.tx
  BY <1>1, Zenon DEF Ghost
<1>3. ghosts' = (ghosts \ {g}) \cup {h}
  BY DEF GhostLocks
<1> HIDE DEF h
<1>4. TypeOK'
  BY <1>1, <1>2, <1>3 DEF Inv, GhostLocks, TypeOK, Ghost
<1>5. ~h.committing /\ ~g.committing
  BY <1>2 DEF Inv, GhostInv, GhostLocks
<1>6. Grows /\ (\A v : Count(v)' = Count(v)) /\ UNCHANGED <<pc, tx, applied, todo, files, lost>>
  BY RowsKept DEF Inv, GhostLocks
<1>7. (\A j \in Instances : CallInv(j)') /\ HistoryMatchesSchema'
  BY <1>6, OtherCall, HistoryKept DEF Inv, GhostLocks
<1>8. GhostInv'
  BY <1>3, <1>5, <1>6, GhostsKept DEF Inv
<1>9. IsFiniteSet(ghosts')
  <2>1. ghosts' \subseteq ghosts \cup {h}
    BY <1>3
  <2>2. QED
    BY <2>1, SubsetPlusOne DEF Inv, LossInv
<1>10. /\ Outlaws' \subseteq Outlaws /\ Committing' \subseteq Committing
       /\ \A v : Pending(v)' \subseteq Pending(v)
       /\ \A v : CommittingOf(v)' \subseteq CommittingOf(v)
  BY <1>3, <1>5, <1>6, MigrateAssumption
     DEF Outlaws, Committing, Pending, CommittingOf, GhostLocks
<1>11. LossInv' /\ TwiceInv'
  BY <1>6, <1>9, <1>10, LossKept, TwiceKept DEF Inv, TypeOK
<1>12. QED
  BY <1>4, <1>7, <1>8, <1>11 DEF Inv

\* The server ends a lingering session, or finishes its COMMIT.
LEMMA ReapStep == ASSUME Inv, NEW g \in ghosts, Reap(g) PROVE Inv'
<1> USE DEF db, locals, counters
<1>1. g \in Ghost /\ g.id \in Nat
  BY MigrateAssumption DEF Inv, TypeOK, Ghost
<1>2. UNCHANGED <<pc, tx, applied, todo, files, lost, fails, expired>> /\ ghosts' = ghosts \ {g}
  BY DEF Reap
<1>3. IsFiniteSet(ghosts) /\ IsFiniteSet(ghosts')
  BY <1>2, FS_Subset DEF Inv, LossInv
<1>4. /\ Outlaws' \subseteq Outlaws /\ Committing' \subseteq Committing
      /\ \A v : Pending(v)' = Pending(v)
      /\ \A v : CommittingOf(v)' = CommittingOf(v) \ {g}
  <2>1. Outlaws' \subseteq Outlaws
    BY <1>1, <1>2, MigrateAssumption DEF Outlaws, Reap
  <2>2. QED
    BY <1>2, <2>1 DEF Committing, Pending, CommittingOf
<1>5. LossInv'
  BY <1>2, <1>3, <1>4, LossKept DEF Inv, TypeOK
<1>6. CASE UNCHANGED <<history, schema>>
  <2>1. TypeOK'
    BY <1>2, <1>6 DEF Inv, TypeOK, Reap
  <2>2. Grows /\ \A v : Count(v)' = Count(v)
    BY <1>6, RowsKept DEF Inv
  <2>3. (\A j \in Instances : CallInv(j)') /\ HistoryMatchesSchema' /\ GhostInv'
    BY <1>2, <1>6, <2>2, OtherCall, HistoryKept, GhostsKept DEF Inv
  <2>4. TwiceInv'
    BY <1>2, <1>4, <2>2, TwiceKept DEF Inv
  <2>5. QED
    BY <1>5, <2>1, <2>3, <2>4 DEF Inv
<1>7. CASE g.committing /\ Committed(g.tx)
  <2>1. /\ g.tx \in Tx /\ g.tx.effect = 1 /\ g.tx.file.checksum <= MaxInt4 /\ history # NULL
    BY <1>1, <1>7 DEF Inv, GhostInv, Ghost
  <2>2. PICK f : f = g.tx.file
    OBVIOUS
  <2>3. f \in Files /\ f.version \in Versions
    BY <2>1, <2>2, FileRecords DEF Tx
  <2>4. /\ history' \in Seq(Row4) /\ history' # NULL /\ Grows
        /\ \A v : Count(v)' = Count(v) + (IF f.version = v THEN 1 ELSE 0)
        /\ \A v : Count(v) \in Nat
    BY <1>7, <2>1, <2>2, CommitRows DEF Inv, Grows
  <2>5. schema' = [schema EXCEPT ![f.version] = @ + 1]
    BY <1>7, <2>1, <2>2 DEF Committed
  <2>6. TypeOK'
    BY <1>2, <2>3, <2>4, <2>5 DEF Inv, TypeOK, Reap
  <2>7. (\A j \in Instances : CallInv(j)') /\ GhostInv'
    BY <1>2, <2>4, OtherCall, GhostsKept DEF Inv
  <2>8. HistoryMatchesSchema'
    BY <2>3, <2>4, <2>5 DEF Inv, HistoryMatchesSchema, TypeOK
  <2>9. TwiceInv'
    <3> SUFFICES ASSUME NEW v \in Versions
                 PROVE  Count(v)' + Cardinality(Pending(v)') + Cardinality(CommittingOf(v)')
                          <= 1 + lost'
      BY DEF TwiceInv
    <3>1. /\ IsFiniteSet(CommittingOf(v)) /\ Cardinality(CommittingOf(v)) \in Nat
          /\ Cardinality(Pending(v)) \in Nat
      BY <1>3, OutlawsFinite
    <3>2. Count(v) + Cardinality(Pending(v)) + Cardinality(CommittingOf(v)) <= 1 + lost
      BY DEF Inv, TwiceInv
    <3>3. CommittingOf(v)' = CommittingOf(v) \ {g} /\ Pending(v)' = Pending(v)
      BY <1>4
    <3>4. CASE v = f.version
      <4>1. g \in CommittingOf(v)
        BY <1>7, <2>2, <3>4 DEF CommittingOf, Committing
      <4>2. Cardinality(CommittingOf(v)') = Cardinality(CommittingOf(v)) - 1
        BY <3>1, <3>3, <4>1, FS_RemoveElement
      <4>3. QED
        BY <1>2, <2>4, <3>1, <3>2, <3>3, <3>4, <4>2 DEF Inv, TypeOK
    <3>5. CASE v # f.version
      <4>1. /\ Cardinality(CommittingOf(v)') <= Cardinality(CommittingOf(v))
            /\ Cardinality(CommittingOf(v)') \in Nat
        BY <3>1, <3>3, FS_Subset, FS_CardinalityType
      <4>2. QED
        BY <1>2, <2>4, <3>1, <3>2, <3>3, <3>5, <4>1 DEF Inv, TypeOK
    <3>6. QED
      BY <3>4, <3>5
  <2>10. QED
    BY <1>5, <2>6, <2>7, <2>8, <2>9 DEF Inv
<1>8. QED
  BY <1>6, <1>7 DEF Reap

-----------------------------------------------------------------------------
(* Inv is an invariant                                                      *)

\* Inv holds at first.
LEMMA Initial == Init => Inv
<1> SUFFICES ASSUME Init PROVE Inv
  OBVIOUS
<1> USE DEF InTx, CtxCalls, Started, Applying, Migrating
<1>1. <<>> \in Applied
  BY DEF Applied
<1>2. TypeOK
  BY <1>1, MigrateAssumption DEF Init, TypeOK
<1>3. (\A i \in Instances : CallInv(i)) /\ GhostInv
  BY DEF Init, CallInv, GhostInv
<1>4. \A v : Count(v) = 0
  <2>1. Rows = <<>>
    BY DEF Init, Rows
  <2>2. \A v : Places(Rows, v) = {}
    BY <2>1 DEF Places
  <2>3. QED
    BY <2>2, CountPlaces, FS_EmptySet
<1>5. HistoryMatchesSchema
  BY <1>4 DEF Init, HistoryMatchesSchema
<1>6. /\ ghosts = {} /\ Outlaws = {} /\ Committing = {}
      /\ \A v : Pending(v) = {} /\ CommittingOf(v) = {}
  BY DEF Init, Outlaws, Committing, Pending, CommittingOf
<1>7. Cardinality({}) = 0 /\ IsFiniteSet({})
  BY FS_EmptySet
<1>8. /\ IsFiniteSet(ghosts) /\ Cardinality(Outlaws) = 0 /\ Cardinality(Committing) = 0
      /\ \A v : Cardinality(Pending(v)) = 0 /\ Cardinality(CommittingOf(v)) = 0
      /\ lost = 0
  BY <1>6, <1>7 DEF Init
<1>9. LossInv /\ TwiceInv
  BY <1>4, <1>8 DEF LossInv, TwiceInv
<1>10. QED
  BY <1>2, <1>3, <1>5, <1>9 DEF Inv

\* Nothing changes.
LEMMA Stutter == Inv /\ UNCHANGED vars => Inv'
BY DEF Inv, vars, db, locals, counters, TypeOK, CallInv, GhostInv, HistoryMatchesSchema,
       LossInv, TwiceInv, NextFile, Recorded, Rows, Count, InOrder, Outlaws, Committing,
       Pending, CommittingOf

\* Every step keeps Inv.
LEMMA Inductive == Inv /\ [Next]_vars => Inv'
<1> SUFFICES ASSUME Inv, [Next]_vars PROVE Inv'
  OBVIOUS
<1>1. ASSUME NEW i \in Instances, Lock(i) \/ Step(i) PROVE Inv'
  BY <1>1, LockStep, EnsureStep, LoadStep, SkipStep, MismatchStep, BeginStep, RunStep,
     RunWaitsStep, RecordStep, InsertStep, CommitStep, RollbackStep, FinishStep,
     UnlockStep, RetryStep, CallExpiresStep DEF Step
<1>2. ASSUME NEW i \in Instances, Fault(i) PROVE Inv'
  BY <1>2, DeadlineStep, CallFailsStep, SessionFailsStep, SessionReplacedStep, CrashStep
     DEF Fault
<1>3. ASSUME NEW g \in ghosts, GhostLocks(g) \/ Reap(g) PROVE Inv'
  BY <1>3, GhostLocksStep, ReapStep
<1>4. QED
  BY <1>1, <1>2, <1>3, Stutter DEF Next

\* Inv is an invariant of Migrate: history, schema, locals and lingering sessions
\* agree in every reachable state.
THEOREM Invariance == Spec => []Inv
<1>1. QED
  BY Initial, Inductive, PTL DEF Spec

\* Every variable keeps its type, the checksum column included (migrate.go:87).
THEOREM TypeCorrect == Spec => []TypeOK
<1>1. Inv => TypeOK
  BY DEF Inv
<1>2. QED
  BY <1>1, Invariance, PTL

\* An instance that serves finds each of its files recorded with its checksum
\* (migrate.go:56-76).
THEOREM ReadyMeansMigratedAlways == Spec => []ReadyMeansMigrated
<1>1. Inv => ReadyMeansMigrated
  BY DEF Inv, CallInv, ReadyMeansMigrated
<1>2. QED
  BY <1>1, Invariance, PTL

\* Statements have taken effect exactly as often as the history says
\* (migrate.go:131-176).
THEOREM HistoryMatchesSchemaAlways == Spec => []HistoryMatchesSchema
<1>1. Inv => HistoryMatchesSchema
  BY DEF Inv
<1>2. QED
  BY <1>1, Invariance, PTL

\* A version is applied at most once more than sessions were lost
\* (migrate.go:34).
THEOREM TwiceOnlyAfterLossAlways == Spec => []TwiceOnlyAfterLoss
<1>1. Inv => TwiceOnlyAfterLoss
  <2> SUFFICES ASSUME Inv, NEW v \in Versions PROVE Count(v) <= 1 + lost
    BY DEF TwiceOnlyAfterLoss
  <2>1. Cardinality(Pending(v)) \in Nat /\ Cardinality(CommittingOf(v)) \in Nat
    BY OutlawsFinite DEF Inv, LossInv
  <2>2. Count(v) \in Nat /\ lost \in Nat
    BY CountType DEF Inv, TypeOK
  <2>3. QED
    BY <2>1, <2>2 DEF Inv, TwiceInv
<1>2. QED
  BY <1>1, Invariance, PTL

-----------------------------------------------------------------------------
(* The order of versions                                                    *)

\* Two digits in base B.
LEMMA Digits ==
  ASSUME NEW B \in Nat, NEW a \in Nat, NEW c \in Nat, NEW b \in 0 .. B - 1, NEW d \in 0 .. B - 1,
         a * B + b < c * B + d
  PROVE  a < c \/ (a = c /\ b < d)
<1>1. SUFFICES ASSUME a > c PROVE FALSE
  OBVIOUS
<1>2. PICK n \in Nat : a = c + 1 + n
  <2>1. a - c - 1 \in Nat /\ a = c + 1 + (a - c - 1)
    BY <1>1
  <2>2. QED
    BY <2>1
<1>3. a * B = c * B + B + n * B /\ n * B >= 0
  BY <1>2
<1>4. QED
  BY <1>3

\* A number has one representation.
LEMMA SameDigits ==
  ASSUME NEW B \in Nat, NEW a \in Nat, NEW c \in Nat, NEW b \in 0 .. B - 1, NEW d \in 0 .. B - 1,
         a * B + b = c * B + d
  PROVE  a = c /\ b = d
<1>1. ASSUME NEW m \in Nat, NEW n \in Nat, NEW k \in 0 .. B - 1, NEW l \in 0 .. B - 1,
             m * B + k = n * B + l
      PROVE  ~(m > n)
  <2>1. SUFFICES ASSUME m > n PROVE FALSE
    OBVIOUS
  <2>2. PICK e \in Nat : m = n + 1 + e
    <3>1. m - n - 1 \in Nat /\ m = n + 1 + (m - n - 1)
      BY <2>1
    <3>2. QED
      BY <3>1
  <2>3. m * B = n * B + B + e * B /\ e * B >= 0
    BY <2>2
  <2>4. QED
    BY <1>1, <2>3
<1>2. ~(a > c) /\ ~(c > a)
  BY <1>1
<1>3. a = c
  BY <1>2
<1>4. QED
  BY <1>3

\* Versions that are smaller as numbers come first.
LEMMA NumberLess ==
  ASSUME NEW f, NEW g, Parses(f), Parses(g), Number(Parts(f)) < Number(Parts(g))
  PROVE  Less(Parts(f), Parts(g))
<1> DEFINE p == Parts(f)
           q == Parts(g)
           B == MaxAtoi + 1
<1>1. /\ p \in Seq(Nat \cup {Empty}) /\ \A k \in DOMAIN p : p[k] \in 0 .. MaxAtoi
      /\ q \in Seq(Nat \cup {Empty}) /\ \A k \in DOMAIN q : q[k] \in 0 .. MaxAtoi
  BY TokensAssumption DEF Parses, Parts
<1>2. B \in Nat /\ MaxAtoi \in Nat
  BY TokensAssumption
<1>3. \A k : Part(p, k) \in 0 .. B - 1 /\ Part(q, k) \in 0 .. B - 1
  BY <1>1, <1>2 DEF Part
<1>4. ASSUME NEW k \in 1 .. 3, Part(p, k) < Part(q, k), \A j \in 1 .. k - 1 : Part(p, j) = Part(q, j)
      PROVE  Less(p, q)
  <2>1. k \in 1 .. Len(q)
    BY <1>1, <1>3, <1>4 DEF Part
  <2>2. k \in 1 .. (IF Len(p) > Len(q) THEN Len(p) ELSE Len(q))
    BY <1>1, <2>1
  <2>3. QED
    BY <1>4, <2>2 DEF Less
<1> HIDE DEF p, q, B
<1> DEFINE x == Part(p, 1) * B + Part(p, 2)
           y == Part(q, 1) * B + Part(q, 2)
<1>5. x * B + Part(p, 3) < y * B + Part(q, 3)
  BY DEF Number, p, q, B
<1>6. x \in Nat /\ y \in Nat
  BY <1>2, <1>3
<1>7. x < y \/ (x = y /\ Part(p, 3) < Part(q, 3))
  <2> HIDE DEF x, y
  <2>1. QED
    BY <1>2, <1>3, <1>5, <1>6, Digits
<1>8. Part(p, 1) \in Nat /\ Part(q, 1) \in Nat
  BY <1>2, <1>3
<1>9. CASE x < y
  <2>1. Part(p, 1) < Part(q, 1) \/ (Part(p, 1) = Part(q, 1) /\ Part(p, 2) < Part(q, 2))
    BY <1>2, <1>3, <1>8, <1>9, Digits
  <2>2. QED
    BY <1>4, <2>1 DEF p, q
<1>10. CASE x = y /\ Part(p, 3) < Part(q, 3)
  <2>1. Part(p, 1) = Part(q, 1) /\ Part(p, 2) = Part(q, 2)
    BY <1>2, <1>3, <1>8, <1>10, SameDigits
  <2>2. \A j \in 1 .. 3 - 1 : Part(p, j) = Part(q, j)
    BY <2>1
  <2>3. QED
    BY <1>4, <1>10, <2>2 DEF p, q
<1>11. QED
  BY <1>7, <1>9, <1>10

\* A row of version v is one that is counted.
LEMMA RecordedCounts ==
  ASSUME TypeOK, NEW f, Recorded(f)
  PROVE  Count(f.version) > 0
<1>1. Places(Rows, f.version) # {}
  BY DEF Recorded, Places
<1>2. QED
  BY <1>1, RowsType, PlacesFinite, CountPlaces, FS_EmptySet

\* The commit of a transaction, whoever may still wait for its answer.
LEMMA OrderCommit ==
  ASSUME Inv, NEW t \in Tx, t.file.checksum <= MaxInt4, history # NULL, Committed(t),
         InOrder(t.file)
  PROVE  OrderStep
<1>1. Rows' = Append(Rows, t.file) /\ Rows \in Seq(Row4) /\ t.file \in Row4
  <2>1. t.file \in Row4
    BY FileRecords, MigrateAssumption DEF Tx, Row4
  <2>2. Rows' = Append(Rows, t.file)
    BY CommitRows DEF Inv
  <2>3. QED
    BY <2>1, <2>2, RowsType DEF Inv
<1>2. ASSUME NEW k \in DOMAIN Rows' \ DOMAIN Rows PROVE Rows'[k] = t.file
  BY <1>1
<1>3. PICK i \in Instances : /\ t.file \in files[i] /\ Lists(files[i])
                             /\ \A g \in files[i] : Less(Parts(g), Parts(t.file)) => Recorded(g)
  BY DEF InOrder
<1>4. ASSUME NEW f \in files[i], Number(Parts(f)) < Number(Parts(t.file))
      PROVE  Count(f.version) > 0
  <2>1. Less(Parts(f), Parts(t.file))
    BY <1>3, <1>4, NumberLess DEF Lists
  <2>2. QED
    BY <1>3, <2>1, RecordedCounts DEF Inv
<1>5. QED
  BY <1>2, <1>3, <1>4 DEF OrderStep

\* No row is added.
LEMMA OrderKept == ASSUME Rows' = Rows PROVE OrderStep
BY DEF OrderStep

\* A file is recorded only after the files of lower version in the same binary,
\* by a COMMIT that is answered or by one that is finished without its client
\* (migrate.go:56, 208, 256).
THEOREM AppliedInOrderAlways == Spec => AppliedInOrder
<1>1. Inv /\ [Next]_vars => [OrderStep]_vars
  <2> SUFFICES ASSUME Inv, Next PROVE OrderStep
    BY DEF OrderStep
  <2>1. ASSUME NEW i \in Instances, Commit(i) PROVE OrderStep
    <3>1. PICK t : t = tx[i]
      OBVIOUS
    <3>2. /\ t \in Tx /\ t.file.checksum <= MaxInt4 /\ history # NULL /\ Committed(t)
          /\ t.file \in First(todo[i]) /\ Lists(files[i])
          /\ \A f \in files[i] \ todo[i] : Recorded(f)
      BY <2>1, <3>1 DEF Inv, Commit, CallInv, TypeOK, NextFile, InTx, Applying
    <3>3. InOrder(t.file)
      BY <3>2 DEF InOrder, First, Inv, TypeOK
    <3>4. QED
      BY <3>2, <3>3, OrderCommit
  <2>2. ASSUME NEW g \in ghosts, Reap(g) PROVE OrderStep
    <3>1. CASE g.committing /\ Committed(g.tx)
      <4>1. g.tx \in Tx /\ g.tx.file.checksum <= MaxInt4 /\ history # NULL /\ InOrder(g.tx.file)
        BY <3>1 DEF Inv, GhostInv, TypeOK, Ghost
      <4>2. QED
        BY <3>1, <4>1, OrderCommit
    <3>2. CASE UNCHANGED db
      BY <3>2, OrderKept DEF db, Rows
    <3>3. QED
      BY <2>2, <3>1, <3>2 DEF Reap
  <2>3. ASSUME NEW i \in Instances, Lock(i) \/ Step(i) \/ Fault(i), ~Commit(i) PROVE OrderStep
    <3>1. history' = history \/ history' = Rows
      BY <2>3 DEF Step, Fault, Lock, EnsureSchemaHistory, LoadAppliedMigrations, Skip, Mismatch,
             Begin, Run, RunWaits, Record, Insert, Rollback, Finish, Unlock, Retry,
             CallExpires, Deadline, CallFails, SessionFails, SessionReplaced, Crash,
             SessionLost, db
    <3>2. QED
      BY <3>1, RowsKept, OrderKept DEF Inv
  <2>4. ASSUME NEW g \in ghosts, GhostLocks(g) PROVE OrderStep
    BY <2>4, OrderKept DEF GhostLocks, db, Rows
  <2>5. QED
    BY <2>1, <2>2, <2>3, <2>4 DEF Next
<1>2. QED
  BY <1>1, Invariance, PTL DEF Spec, AppliedInOrder
=============================================================================
