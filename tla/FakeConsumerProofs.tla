------------------------- MODULE FakeConsumerProofs -------------------------
(***************************************************************************)
(* Proofs about FakeConsumer for any number of messages: Inv is inductive, *)
(* hence every message read is accounted for and none is missed without a  *)
(* signal.                                                                 *)
(***************************************************************************)
EXTENDS FakeConsumer, SequenceTheorems, TLAPS

\* The messages read and not in hand.
Read == IF main = "handling" THEN i - 2 ELSE i - 1

\* Inv with its sequence facts spelled out.
LEMMA InvFacts ==
  ASSUME Inv
  PROVE  /\ N \in Nat /\ N > 0 /\ i \in Nat /\ i >= 1 /\ i <= N + 1 /\ Read \in Int
         /\ Len(finished) \in Nat /\ Len(finished) <= Read
         /\ finished \in Seq(1 .. N)
         /\ \A k \in 1 .. Len(finished) : finished[k] = k
         /\ aborted = (Len(finished) + 1) .. Read
         /\ aborted # {} => ctx
<1>1. Len(finished) \in Nat
  BY LenProperties DEF Inv, TypeOK
<1>2. QED
  BY <1>1, NAssumption DEF Inv, TypeOK, Accounted, Read

\* Steps that leave the messages and the place of main alone.
LEMMA SameMessages ==
  ASSUME Inv, UNCHANGED <<finished, aborted, i>>,
         (main = "handling") <=> (main' = "handling"), ctx' = ctx \/ ctx' = TRUE
  PROVE  Accounted' /\ Len(finished') <= Read'
BY DEF Inv, Accounted, Read

\* The producer keeps Inv.
LEMMA ProducerStep == Inv /\ Producer => Inv'
<1>1. SUFFICES ASSUME Inv, Producer PROVE Inv'
  OBVIOUS
<1>2. Accounted' /\ Len(finished') <= Read'
  BY <1>1, SameMessages DEF Producer, Offer, ProducerReturns
<1>3. TypeOK'
  BY <1>1 DEF Inv, Producer, Offer, ProducerReturns, Leave, TypeOK
<1>4. QED
  BY <1>1, <1>2, <1>3
  DEF Inv, Read, Producer, Offer, ProducerReturns, MayOffer, LoopEnds, Leave

\* A rendezvous keeps Inv.
LEMMA ReceiveStep == Inv /\ Receive => Inv'
<1>1. SUFFICES ASSUME Inv, Receive PROVE Inv'
  OBVIOUS
<1>2. i \in Nat /\ i >= 1 /\ i <= N /\ N \in Nat
  BY <1>1, InvFacts DEF Inv, Receive
<1>3. /\ producer' = "waiting" /\ main' = "handling" /\ main = "reading"
      /\ i' = i + 1 /\ msg' = i /\ (late' <=> ctx)
      /\ UNCHANGED <<ctx, closed, msgsClosed, finished, aborted>>
  BY <1>1 DEF Receive
<1>4. TypeOK'
  BY <1>1, <1>2, <1>3 DEF Inv, TypeOK, Receive
<1>5. Read' = Read /\ Read = i - 1
  BY <1>2, <1>3 DEF Read
<1>6. Accounted' /\ Len(finished') <= Read'
  BY <1>1, <1>2, <1>3, <1>5 DEF Inv, Accounted, Read
<1>7. msg' = i' - 1 /\ i' > 1
  BY <1>2, <1>3
<1>8. late' => ctx'
  BY <1>3
<1>9. aborted' # {} => late'
  BY <1>1, <1>3, InvFacts
<1>10. ~closed' /\ ~msgsClosed'
  BY <1>1, <1>2, <1>3 DEF Inv
<1>11. QED
  BY <1>3, <1>4, <1>6, <1>7, <1>8, <1>9, <1>10 DEF Inv, Read

\* The main goroutine keeps Inv.
LEMMA MainStep == Inv /\ (Main \/ Signal) => Inv'
<1>1. CASE Inv /\ ReadFails
  <2>1. Accounted' /\ Len(finished') <= Read'
    BY <1>1, SameMessages DEF ReadFails
  <2>2. TypeOK'
    BY <1>1 DEF Inv, TypeOK, ReadFails
  <2>3. QED
    BY <1>1, <2>1, <2>2 DEF Inv, Read, ReadFails
<1>2. CASE Inv /\ Close
  <2>1. Accounted' /\ Len(finished') <= Read'
    BY <1>2, SameMessages DEF Close
  <2>2. TypeOK'
    BY <1>2 DEF Inv, TypeOK, Close
  <2>3. QED
    BY <1>2, <2>1, <2>2 DEF Inv, Read, Close
<1>3. CASE Inv /\ Signal
  <2>1. Accounted' /\ Len(finished') <= Read'
    BY <1>3, SameMessages DEF Signal
  <2>2. TypeOK'
    BY <1>3 DEF Inv, TypeOK, Signal
  <2>3. QED
    BY <1>3, <2>1, <2>2 DEF Inv, Read, Signal
<1>4. CASE Inv /\ Finish
  <2> USE <1>4
  <2>1. /\ main = "handling" /\ main' = "reading" /\ finished' = Append(finished, msg)
        /\ UNCHANGED <<producer, i, msg, late, ctx, closed, msgsClosed, aborted>>
        /\ ~late /\ msg = i - 1 /\ i > 1 /\ aborted = {}
    BY DEF Finish, MayFinish, Inv
  <2>2. Len(finished) = i - 2
    BY <2>1, InvFacts DEF Read
  <2>3. msg \in 1 .. N
    BY <2>1, InvFacts
  <2>4. /\ finished' \in Seq(1 .. N) /\ Len(finished') = i - 1
        /\ \A k \in 1 .. i - 1 : finished'[k] = IF k = i - 1 THEN msg ELSE finished[k]
    BY <2>1, <2>2, <2>3, InvFacts, AppendProperties
  <2>5. TypeOK'
    BY <2>1, <2>4 DEF Inv, TypeOK
  <2>6. \A k \in 1 .. Len(finished') : finished'[k] = k
    BY <2>1, <2>2, <2>4, InvFacts
  <2>7. aborted' = (Len(finished') + 1) .. (i' - 1)
    BY <2>1, <2>4, InvFacts
  <2>8. Accounted' /\ Len(finished') <= Read'
    BY <2>1, <2>4, <2>6, <2>7, InvFacts DEF Accounted, Read
  <2>9. QED
    BY <2>1, <2>5, <2>8 DEF Inv, Read
<1>5. CASE Inv /\ Abort
  <2> USE <1>5
  <2>1. /\ main = "handling" /\ main' = "reading" /\ aborted' = aborted \cup {msg} /\ ctx
        /\ UNCHANGED <<producer, i, msg, late, ctx, closed, msgsClosed, finished>>
        /\ msg = i - 1 /\ i > 1
    BY DEF Abort, Inv
  <2>2. aborted' = (Len(finished) + 1) .. (i - 1)
    <3>1. aborted = (Len(finished) + 1) .. (i - 2) /\ Len(finished) <= i - 2
      BY <2>1, InvFacts DEF Read
    <3>2. QED
      BY <2>1, <3>1, InvFacts
  <2>3. TypeOK'
    BY <2>1, InvFacts DEF Inv, TypeOK
  <2>4. Accounted' /\ Len(finished') <= Read'
    BY <2>1, <2>2, InvFacts DEF Accounted, Read
  <2>5. QED
    BY <2>1, <2>3, <2>4 DEF Inv, Read
<1>6. QED
  BY <1>1, <1>2, <1>3, <1>4, <1>5 DEF Main

-----------------------------------------------------------------------------
\* Inv holds for any number of messages and however the goroutines run.
THEOREM Invariance == Spec => []Inv
<1>1. Init => Inv
  <2>1. SUFFICES ASSUME Init PROVE Inv
    OBVIOUS
  <2>2. finished = <<>> /\ finished \in Seq(1 .. N) /\ Len(finished) = 0
    BY <2>1, EmptySeq DEF Init
  <2>3. TypeOK
    <3>1. i \in 1 .. N + 1 /\ msg \in 0 .. N
      BY <2>1, NAssumption DEF Init
    <3>2. QED
      BY <2>1, <2>2, <3>1 DEF Init, TypeOK
  <2>4. Accounted
    BY <2>1, <2>2 DEF Init, Accounted
  <2>5. QED
    BY <2>1, <2>2, <2>3, <2>4, NAssumption DEF Init, Inv
<1>2. Inv /\ [Next]_vars => Inv'
  <2>1. CASE Inv /\ UNCHANGED vars
    BY <2>1 DEF Inv, vars, TypeOK, Accounted
  <2>2. QED
    BY <2>1, ProducerStep, ReceiveStep, MainStep DEF Next
<1>3. QED
  BY <1>1, <1>2, PTL DEF Spec

\* Every variable keeps its type.
THEOREM TypeCorrect == Spec => []TypeOK
<1>1. Inv => TypeOK
  BY DEF Inv
<1>2. QED
  BY <1>1, Invariance, PTL

\* Every message read is finished in order, given up after a signal, or in hand.
THEOREM AccountedAlways == Spec => []Accounted
<1>1. Inv => Accounted
  BY DEF Inv
<1>2. QED
  BY <1>1, Invariance, PTL

\* Without a signal every message is handled before main leaves.
THEOREM CompleteUnlessSignalledAlways == Spec => []CompleteUnlessSignalled
<1>1. Inv => CompleteUnlessSignalled
  <2>1. SUFFICES ASSUME Inv, main = "gone", ~ctx PROVE Len(finished) = N
    BY DEF CompleteUnlessSignalled
  <2>2. i = N + 1 /\ aborted = {}
    BY <2>1, InvFacts DEF Inv
  <2>3. (Len(finished) + 1) .. N = {} /\ Len(finished) <= N
    BY <2>1, <2>2, InvFacts DEF Read
  <2>4. QED
    BY <2>3, InvFacts, <2>1
<1>2. QED
  BY <1>1, Invariance, PTL
=============================================================================
