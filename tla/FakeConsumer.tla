---------------------------- MODULE FakeConsumer ----------------------------
(***************************************************************************)
(* The consumer experiment (cmd/playground/main.go): a producer goroutine  *)
(* offers messages over an unbuffered channel, the main goroutine reads    *)
(* and handles them one by one until a signal comes or the channel is      *)
(* closed.                                                                 *)
(*                                                                         *)
(* A message is its number; a send and its receive are one step.  Of a     *)
(* select with several ready cases any may be taken; one that is entered   *)
(* with a single ready case takes that one, so a timer cannot win against  *)
(* a context that was done before.                                         *)
(***************************************************************************)
EXTENDS Naturals, Sequences

CONSTANT N      \* messages the producer offers

ASSUME NAssumption == N \in Nat \ {0}

VARIABLES
  producer,     \* "waiting" (its select), "sending", "gone"
  i,            \* the loop variable of the producer
  main,         \* "reading", "handling", "closing" (the deferred Close), "gone"
  msg,          \* the message being handled, 0 before the first
  late,         \* was the context done when handleMessage was entered?
  ctx,          \* has a signal come?
  closed,       \* channel closed, by Close
  msgsClosed,   \* channel msgs closed, by the producer
  finished,     \* messages handled to the end, in their order
  aborted       \* messages whose handling was given up

vars == <<producer, i, main, msg, late, ctx, closed, msgsClosed, finished, aborted>>

Init ==
  /\ producer = "waiting" /\ i = 1
  /\ main = "reading" /\ msg = 0 /\ late = FALSE
  /\ ctx = FALSE /\ closed = FALSE /\ msgsClosed = FALSE
  /\ finished = <<>> /\ aborted = {}

-----------------------------------------------------------------------------
(* The producer                                                             *)

\* Mutant: the channel is not closed when the loop ends.
LeaveOpen == producer' = "gone" /\ UNCHANGED msgsClosed

\* The goroutine returns, and closes msgs.
Leave == producer' = "gone" /\ msgsClosed' = TRUE

\* Mutant: one message more.
OfferMore == i <= N + 1

MayOffer == i <= N

\* Half a second has passed; the send is outside the select.
Offer ==
  /\ producer = "waiting" /\ MayOffer
  /\ producer' = "sending"
  /\ UNCHANGED <<i, main, msg, late, ctx, closed, msgsClosed, finished, aborted>>

\* Mutant: the loop ends one message early.
LoopEndsEarly == i >= N \/ closed

LoopEnds == i > N \/ closed

\* The loop ends, or Close is seen.
ProducerReturns ==
  /\ producer = "waiting" /\ LoopEnds
  /\ Leave
  /\ UNCHANGED <<i, main, msg, late, ctx, closed, finished, aborted>>

-----------------------------------------------------------------------------
(* The main goroutine                                                       *)

\* ReadMessage receives, also when the context is done as well.
Receive ==
  /\ main = "reading" /\ producer = "sending"
  /\ producer' = "waiting" /\ i' = i + 1
  /\ msg' = i /\ late' = ctx
  /\ main' = "handling"
  /\ UNCHANGED <<ctx, closed, msgsClosed, finished, aborted>>

\* ReadMessage returns the context's error or errConsumerClosed: main returns.
ReadFails ==
  /\ main = "reading" /\ (ctx \/ closed \/ msgsClosed)
  /\ main' = "closing"
  /\ UNCHANGED <<producer, i, msg, late, ctx, closed, msgsClosed, finished, aborted>>

\* Mutant: two seconds pass whatever the context says.
MayFinishAlways == TRUE

\* The timer may win only if the select was entered before the signal came.
MayFinish == ~late

\* handleMessage returns after its two seconds.
Finish ==
  /\ main = "handling" /\ MayFinish
  /\ finished' = Append(finished, msg)
  /\ main' = "reading"
  /\ UNCHANGED <<producer, i, msg, late, ctx, closed, msgsClosed, aborted>>

\* handleMessage returns the context's error, which main only logs.
Abort ==
  /\ main = "handling" /\ ctx
  /\ aborted' = aborted \cup {msg}
  /\ main' = "reading"
  /\ UNCHANGED <<producer, i, msg, late, ctx, closed, msgsClosed, finished>>

\* The deferred Close, then the end of the process.
Close ==
  /\ main = "closing"
  /\ closed' = TRUE /\ main' = "gone"
  /\ UNCHANGED <<producer, i, msg, late, ctx, msgsClosed, finished, aborted>>

Signal ==
  /\ ~ctx /\ main # "gone"
  /\ ctx' = TRUE
  /\ UNCHANGED <<producer, i, main, msg, late, closed, msgsClosed, finished, aborted>>

Producer == Offer \/ ProducerReturns
Main == ReadFails \/ Finish \/ Abort \/ Close

Next == Producer \/ Receive \/ Main \/ Signal

Spec == Init /\ [][Next]_vars

\* Timers fire and both goroutines run; no signal is promised.
Fairness == WF_vars(Producer) /\ WF_vars(Receive) /\ WF_vars(Main)
FairSpec == Spec /\ Fairness
-----------------------------------------------------------------------------
(* Properties                                                               *)

\* Every variable holds a value of its kind.
TypeOK ==
  /\ producer \in {"waiting", "sending", "gone"} /\ i \in 1 .. N + 1
  /\ main \in {"reading", "handling", "closing", "gone"} /\ msg \in 0 .. N
  /\ late \in BOOLEAN /\ ctx \in BOOLEAN /\ closed \in BOOLEAN /\ msgsClosed \in BOOLEAN
  /\ finished \in Seq(1 .. N) /\ aborted \subseteq 1 .. N

\* Every message that was read is finished, given up after a signal, or the one
\* in hand, and just one of these; the finished ones are the first, in order, so
\* that a reader could commit its position (main.go:90-112).
Accounted ==
  LET n == Len(finished) IN
  /\ \A k \in 1 .. n : finished[k] = k
  /\ aborted = (n + 1) .. (IF main = "handling" THEN i - 2 ELSE i - 1)
  /\ aborted # {} => ctx

\* Without a signal main leaves only when every message has been handled.
CompleteUnlessSignalled == main = "gone" /\ ~ctx => Len(finished) = N

\* The consumer stops, by itself or after a signal, although the producer may be
\* blocked for ever in a send that nobody receives (main.go:48, 56-68).
EventuallyStops == <>(main = "gone")
-----------------------------------------------------------------------------
(* The inductive invariant                                                  *)

\* A message in hand is the last one read, and is not finished after another
\* was given up; who leaves without a signal has seen the end of the loop.
Inv ==
  /\ TypeOK /\ Accounted
  /\ Len(finished) <= (IF main = "handling" THEN i - 2 ELSE i - 1)
  /\ late => ctx
  /\ main = "handling" => msg = i - 1 /\ i > 1 /\ (aborted # {} => late)
  /\ producer = "sending" => i <= N
  /\ closed => main = "gone"
  /\ msgsClosed => i > N \/ closed
  /\ main \in {"closing", "gone"} => ctx \/ i > N
=============================================================================
