------------------------ MODULE ServerLifecycleProofs ------------------------
(***************************************************************************)
(* Proofs about ServerLifecycle for any number of requests and any size of *)
(* the pool: Inv is inductive; hence a process that reports success has    *)
(* answered every request, and only a panic ends one under a transaction.  *)
(***************************************************************************)
EXTENDS ServerLifecycle, FiniteSetTheorems, TLAPS

-----------------------------------------------------------------------------
(* Connections                                                              *)

\* Steps that touch neither handlers, processor nor pool keep the account.
LEMMA PoolUnchanged ==
  ASSUME PoolInv, UNCHANGED <<req, proc, idle>>
  PROVE  PoolInv'
BY DEF PoolInv, Holders

\* A connection that is out was in the pool, and the pool has room for it.
LEMMA PoolBounds ==
  ASSUME TypeOK, PoolInv
  PROVE  /\ Cardinality(Holders) \in Nat
         /\ idle + Cardinality(Holders) <= MaxConns
         /\ proc = "holding" => idle + Cardinality(Holders) + 1 = MaxConns
         /\ idle = MaxConns => Holders = {} /\ proc # "holding"
         /\ \A r \in Requests : req[r] = "holding" => idle < MaxConns
<1>1. Cardinality(Holders) \in Nat /\ (Cardinality(Holders) = 0 <=> Holders = {})
  BY FS_CardinalityType, FS_EmptySet DEF PoolInv
<1>2. MaxConns \in Nat /\ idle \in Nat
  BY LifecycleAssumption DEF TypeOK
<1>3. ASSUME NEW r \in Requests, req[r] = "holding" PROVE Holders # {}
  BY <1>3 DEF Holders
<1>4. QED
  BY <1>1, <1>2, <1>3 DEF PoolInv

\* A handler that holds no connection goes from one place to another.
LEMMA PoolOther ==
  ASSUME TypeOK, PoolInv, NEW r \in Requests, NEW l, l # "holding",
         req[r] # "holding", req' = [req EXCEPT ![r] = l], UNCHANGED <<proc, idle>>
  PROVE  PoolInv'
<1>1. Holders' = Holders
  BY DEF Holders, TypeOK
<1>2. QED
  BY <1>1 DEF PoolInv

\* A handler takes a connection.
LEMMA PoolHold ==
  ASSUME TypeOK, PoolInv, NEW r \in Requests, req[r] # "holding",
         req' = [req EXCEPT ![r] = "holding"], idle > 0, idle' = idle - 1,
         UNCHANGED proc
  PROVE  PoolInv' /\ idle' \in 0 .. MaxConns
<1>1. Holders' = Holders \cup {r} /\ r \notin Holders
  BY DEF Holders, TypeOK
<1>2. IsFiniteSet(Holders') /\ Cardinality(Holders') = Cardinality(Holders) + 1
  BY <1>1, FS_AddElement DEF PoolInv
<1>3. Cardinality(Holders) \in Nat /\ idle \in Nat /\ MaxConns \in Nat
  BY PoolBounds, LifecycleAssumption DEF TypeOK
<1>4. QED
  BY <1>2, <1>3 DEF PoolInv, TypeOK

\* A handler gives its connection back.
LEMMA PoolReturn ==
  ASSUME TypeOK, PoolInv, NEW r \in Requests, NEW l, l # "holding",
         req[r] = "holding", req' = [req EXCEPT ![r] = l], idle' = idle + 1,
         UNCHANGED proc
  PROVE  PoolInv' /\ idle' \in 0 .. MaxConns
<1>1. Holders' = Holders \ {r} /\ r \in Holders
  BY DEF Holders, TypeOK
<1>2. IsFiniteSet(Holders') /\ Cardinality(Holders') = Cardinality(Holders) - 1
  BY <1>1, FS_RemoveElement DEF PoolInv
<1>3. Cardinality(Holders) \in Nat /\ idle \in Nat /\ MaxConns \in Nat /\ idle < MaxConns
  BY PoolBounds, LifecycleAssumption DEF TypeOK
<1>4. QED
  BY <1>2, <1>3 DEF PoolInv, TypeOK

-----------------------------------------------------------------------------
(* One lemma per goroutine                                                  *)

\* The main goroutine keeps Inv.
LEMMA MainStep == Inv /\ Main => Inv'
<1> SUFFICES ASSUME Inv, Main PROVE Inv'
  OBVIOUS
<1> USE DEF Inv, AloneInv, LeaveInv, ExitInv, At, Alive, Serving, Starting, Leaving,
            NoneLeft, server, pool
<1>1. UNCHANGED <<req, idle>> /\ (proc' = proc \/ proc' = "start")
  BY DEF Main, Load, Connect, Migrate, BuildPublisher, Spawn, SelectDone, SelectErr,
         ShutdownDone, ShutdownTimesOut, PoolCloses, PoolClosed, Stop, Exit
<1>2. CASE Load
  <2>1. PoolInv' BY <1>2, PoolUnchanged DEF Load
  <2>2. QED BY <1>2, <2>1, LifecycleAssumption DEF Load, ReturnError, TypeOK, Exits
<1>3. CASE Connect
  <2>1. PoolInv' BY <1>3, PoolUnchanged DEF Connect
  <2>2. QED BY <1>3, <2>1 DEF Connect, ReturnError, TypeOK
<1>4. CASE Migrate
  <2>1. PoolInv' BY <1>4, PoolUnchanged DEF Migrate
  <2>2. QED BY <1>4, <2>1 DEF Migrate, ReturnError, TypeOK
<1>5. CASE BuildPublisher
  <2>1. PoolInv' BY <1>5, PoolUnchanged DEF BuildPublisher
  <2>2. QED BY <1>5, <2>1 DEF BuildPublisher, ReturnError, TypeOK
<1>6. CASE Spawn
  <2>1. proc = "none" BY <1>6 DEF Spawn
  <2>2. PoolInv' BY <1>6, <2>1 DEF Spawn, PoolInv, Holders
  <2>3. QED BY <1>6, <2>2 DEF Spawn, TypeOK
<1>7. CASE SelectDone
  <2>1. PoolInv' BY <1>7, PoolUnchanged DEF SelectDone
  <2>2. QED BY <1>7, <2>1 DEF SelectDone, TypeOK
<1>8. CASE SelectErr
  <2>1. PoolInv' BY <1>8, PoolUnchanged DEF SelectErr
  <2>2. QED BY <1>8, <2>1 DEF SelectErr, ReturnError, TypeOK
<1>9. CASE ShutdownDone
  <2>1. PoolInv' BY <1>9, PoolUnchanged DEF ShutdownDone
  <2>2. NoneLeft BY <1>9 DEF ShutdownDone, Drained, TypeOK
  <2>3. QED BY <1>9, <2>1, <2>2 DEF ShutdownDone, TypeOK
<1>10. CASE ShutdownTimesOut
  <2>1. PoolInv' BY <1>10, PoolUnchanged DEF ShutdownTimesOut
  <2>2. QED BY <1>10, <2>1 DEF ShutdownTimesOut, ReturnError, TypeOK
<1>11. CASE PoolCloses
  <2>1. PoolInv' BY <1>11, PoolUnchanged DEF PoolCloses
  <2>2. QED BY <1>11, <2>1 DEF PoolCloses, TypeOK
<1>12. CASE PoolClosed
  <2>1. PoolInv' BY <1>12, PoolUnchanged DEF PoolClosed
  <2>2. QED BY <1>12, <2>1 DEF PoolClosed, AllReturned, TypeOK
<1>13. CASE Stop
  <2>1. PoolInv' BY <1>13, PoolUnchanged DEF Stop
  <2>2. QED BY <1>13, <2>1 DEF Stop, TypeOK
<1>14. CASE Exit
  <2>1. PoolInv' BY <1>14, PoolUnchanged DEF Exit
  <2>2. QED BY <1>14, <2>1 DEF Exit, Status, TypeOK, Exits
<1>15. QED
  BY <1>2, <1>3, <1>4, <1>5, <1>6, <1>7, <1>8, <1>9, <1>10, <1>11, <1>12, <1>13,
     <1>14 DEF Main

\* Signals and the listener keep Inv.
LEMMA SignalOrListenerStep == Inv /\ (Signal \/ Listener) => Inv'
<1> SUFFICES ASSUME Inv, Signal \/ Listener PROVE Inv'
  OBVIOUS
<1> USE DEF Inv, AloneInv, LeaveInv, ExitInv, Alive, Serving, Starting, Leaving,
            NoneLeft, server, pool
<1>1. PoolInv'
  BY PoolUnchanged DEF Signal, Listener, Listen, ListenFails, SendErr
<1>2. CASE Signal
  <2>1. \/ exit' = "killed" /\ main \in {"config", "return"} /\ UNCHANGED ctx
        \/ exit' = NULL /\ ctx' = TRUE
    BY <1>2 DEF Signal
  <2>2. UNCHANGED <<main, cfg, err, listener, errCh, bound, stopped, req, proc, idle, closing>>
    BY <1>2 DEF Signal
  <2>3. TypeOK'
    <3>1. exit' \in Exits \cup {NULL} /\ ctx' \in BOOLEAN
      BY <2>1 DEF Exits, TypeOK
    <3>2. QED
      BY <2>2, <3>1 DEF TypeOK
  <2>4. AloneInv' /\ LeaveInv'
    BY <2>1, <2>2
  <2>5. ExitInv'
    BY <2>1, <2>2, LifecycleAssumption DEF Exits
  <2>6. QED
    BY <1>1, <2>3, <2>4, <2>5
<1>3. CASE Listen
  BY <1>1, <1>3 DEF Listen, TypeOK
<1>4. CASE ListenFails
  BY <1>1, <1>4 DEF ListenFails, TypeOK
<1>5. CASE SendErr
  BY <1>1, <1>5 DEF SendErr, TypeOK
<1>6. QED
  BY <1>2, <1>3, <1>4, <1>5 DEF Listener

\* The processor keeps Inv.
LEMMA ProcessorStep == Inv /\ Processor => Inv'
<1> SUFFICES ASSUME Inv, Processor PROVE Inv'
  OBVIOUS
<1> USE DEF Inv, AloneInv, LeaveInv, ExitInv, Alive, Serving, Starting, Leaving,
            NoneLeft, server, pool, rest
<1>1. Holders' = Holders /\ Cardinality(Holders) \in Nat /\ idle \in Nat /\ MaxConns \in Nat
  BY PoolBounds, LifecycleAssumption
  DEF Processor, StartProcessor, Tick, BeginTick, EndTick, StopProcessor, Holders, TypeOK
<1>2. CASE StartProcessor
  <2>1. PoolInv' BY <1>1, <1>2 DEF StartProcessor, PoolInv
  <2>2. QED BY <1>2, <2>1 DEF StartProcessor, TypeOK, Exits
<1>3. CASE Tick
  <2>1. PoolInv' BY <1>1, <1>3 DEF Tick, PoolInv
  <2>2. QED BY <1>3, <2>1 DEF Tick, TypeOK
<1>4. CASE BeginTick
  <2>1. PoolInv' BY <1>1, <1>4 DEF BeginTick, Acquire, PoolInv
  <2>2. idle' \in 0 .. MaxConns BY <1>1, <1>4 DEF BeginTick, Acquire, TypeOK
  <2>3. closing /\ main \in {"stop", "return"} => idle' = idle
    BY <1>4 DEF BeginTick, Acquire
  <2>4. QED BY <1>4, <2>1, <2>2, <2>3 DEF BeginTick, TypeOK
<1>5. CASE EndTick
  <2>1. PoolInv' BY <1>1, <1>5 DEF EndTick, Release, PoolInv
  <2>2. idle + 1 <= MaxConns BY <1>1, <1>5, PoolBounds DEF EndTick
  <2>3. idle' \in 0 .. MaxConns BY <1>1, <1>5, <2>2 DEF EndTick, Release
  <2>4. ~(main \in {"stop", "return"} /\ Serving)
    BY <1>1, <2>2
  <2>5. QED BY <1>5, <2>1, <2>3, <2>4 DEF EndTick, TypeOK
<1>6. CASE StopProcessor
  <2>1. PoolInv' BY <1>1, <1>6 DEF StopProcessor, PoolInv
  <2>2. QED BY <1>6, <2>1 DEF StopProcessor, TypeOK
<1>7. QED
  BY <1>2, <1>3, <1>4, <1>5, <1>6 DEF Processor

\* A handler keeps Inv.
LEMMA RequestStep ==
  ASSUME Inv, NEW r \in Requests, Request(r)
  PROVE  Inv'
<1> USE DEF Inv, Alive
<1>1. UNCHANGED <<others, closing>> /\ exit = NULL
  BY DEF Request, Admit, Dispatch, Hold, Return, Answer, Panic, pool
<1>2. PICK l \in {"reading", "working", "holding", "answered", "failed"} :
        /\ req' = [req EXCEPT ![r] = l]
        /\ req[r] \in {"new"} \cup Admitted
        /\ req[r] = "new" => bound /\ (stopped => main = "shutdown")
        /\ \/ l # "holding" /\ req[r] # "holding" /\ idle' = idle
           \/ l = "holding" /\ req[r] # "holding" /\ idle > 0 /\ idle' = idle - 1 /\ ~closing
           \/ l # "holding" /\ req[r] = "holding" /\ idle' = idle + 1
  BY DEF Request, Admit, Dispatch, Hold, Return, Answer, Panic, SetReq, Acquire,
         Release, pool, Admitted
<1>3. PoolInv' /\ idle' \in 0 .. MaxConns
  <2>1. UNCHANGED proc BY <1>1 DEF others
  <2>2. CASE l # "holding" /\ req[r] # "holding" /\ idle' = idle
    BY <1>2, <2>1, <2>2, PoolOther DEF TypeOK
  <2>3. CASE l = "holding" /\ req[r] # "holding" /\ idle > 0 /\ idle' = idle - 1
    BY <1>2, <2>1, <2>3, PoolHold
  <2>4. CASE l # "holding" /\ req[r] = "holding" /\ idle' = idle + 1
    BY <1>2, <2>1, <2>4, PoolReturn
  <2>5. QED BY <1>2, <2>2, <2>3, <2>4
<1>4. TypeOK'
  BY <1>1, <1>2, <1>3 DEF TypeOK, others, server, Admitted, Answered
<1>5. Serving
  BY <1>2 DEF AloneInv, Serving, Admitted
<1>6. AloneInv'
  BY <1>1, <1>5 DEF AloneInv, Serving, others, server
<1>7. LeaveInv'
  <2>1. ~(main \in Leaving /\ ~err)
    <3>1. SUFFICES ASSUME main \in Leaving, ~err PROVE FALSE
      OBVIOUS
    <3>2. stopped /\ req[r] \in {"new"} \cup Answered
      BY <3>1 DEF LeaveInv, NoneLeft
    <3>3. req[r] = "new"
      BY <1>2, <3>2 DEF Admitted, Answered
    <3>4. QED
      BY <1>2, <3>1, <3>2, <3>3 DEF Leaving
  <2>2. main \in {"stop", "return"} => idle' = idle
    <3>1. SUFFICES ASSUME main \in {"stop", "return"} PROVE idle' = idle
      OBVIOUS
    <3>2. closing /\ idle = MaxConns
      BY <1>5, <3>1 DEF LeaveInv
    <3>3. Holders = {} BY <3>2, PoolBounds
    <3>4. req[r] # "holding" BY <3>3 DEF Holders
    <3>5. QED BY <1>2, <3>1, <3>2, <3>4
  <2>3. QED
    BY <1>1, <2>1, <2>2 DEF LeaveInv, others, server, Serving
<1>8. ExitInv'
  BY <1>1 DEF ExitInv, others
<1>9. QED
  BY <1>3, <1>4, <1>6, <1>7, <1>8

-----------------------------------------------------------------------------
\* Inv holds from the start of the process to its end, whatever its clients,
\* its signals and its scheduler do.
THEOREM Invariance == Spec => []Inv
<1>1. Init => Inv
  <2>1. SUFFICES ASSUME Init PROVE Inv
    OBVIOUS
  <2>2. Holders = {}
    BY <2>1 DEF Init, Holders
  <2>3. PoolInv
    BY <2>1, <2>2, FS_EmptySet, LifecycleAssumption DEF Init, PoolInv
  <2>4. TypeOK
    <3>1. idle \in 0 .. MaxConns
      BY <2>1, LifecycleAssumption DEF Init
    <3>2. req \in [Requests -> {"new"} \cup Admitted \cup Answered]
      BY <2>1 DEF Init
    <3>3. QED
      BY <2>1, <3>1, <3>2 DEF Init, TypeOK, Starting
  <2>5. AloneInv /\ LeaveInv /\ ExitInv
    BY <2>1, LifecycleAssumption
    DEF Init, AloneInv, LeaveInv, ExitInv, Serving, Starting, Leaving, Exits
  <2>6. QED
    BY <2>3, <2>4, <2>5 DEF Inv
<1>2. Inv /\ [Next]_vars => Inv'
  <2>1. SUFFICES ASSUME Inv, [Next]_vars PROVE Inv'
    OBVIOUS
  <2>2. CASE UNCHANGED vars
    BY <2>1, <2>2 DEF vars, server, pool, Inv, TypeOK, AloneInv, PoolInv, Holders, LeaveInv,
       ExitInv, Serving, NoneLeft
  <2>3. QED
    BY <2>1, <2>2, MainStep, SignalOrListenerStep, ProcessorStep, RequestStep DEF Next
<1>3. QED
  BY <1>1, <1>2, PTL DEF Spec

\* Every variable keeps its type, and the pool neither goes below zero nor above
\* its size.
THEOREM TypeCorrect == Spec => []TypeOK
<1>1. Inv => TypeOK
  BY DEF Inv
<1>2. QED
  BY <1>1, Invariance, PTL

\* A process that reports success was told to stop and has answered every
\* request it admitted.
THEOREM GracefulExitAlways == Spec => []GracefulExit
<1>1. Inv => GracefulExit
  BY DEF Inv, GracefulExit, ExitInv, LeaveInv, Leaving
<1>2. QED
  BY <1>1, Invariance, PTL

\* No process ends under an open transaction, unless the ticker panics.
THEOREM NoTransactionCutAlways == Spec => []NoTransactionCut
<1>1. Inv => NoTransactionCut
  <2>1. SUFFICES ASSUME Inv, ~Alive, Holders # {} \/ proc = "holding"
                 PROVE  exit = "panic" /\ ~cfg.delay
    BY DEF NoTransactionCut
  <2>2. Serving
    BY <2>1 DEF Inv, AloneInv, Holders
  <2>3. idle # MaxConns
    BY <2>1, PoolBounds DEF Inv
  <2>4. main \notin {"config", "stop", "return"}
    BY <2>1, <2>2, <2>3 DEF Inv, AloneInv, LeaveInv, Starting
  <2>5. exit \in Exits
    BY <2>1 DEF Inv, TypeOK, Alive
  <2>6. QED
    BY <2>1, <2>4, <2>5 DEF Inv, ExitInv, Exits
<1>2. QED
  BY <1>1, Invariance, PTL
=============================================================================
