--------------------------- MODULE ServerLifecycle ---------------------------
(***************************************************************************)
(* The life of one server process: run in cmd/server/main.go, Server.Run   *)
(* in internal/server/server.go and the Start of the outbox processor.     *)
(* The main goroutine starts up, then waits for a signal or for the end of *)
(* the listener, and leaves through its deferred calls.  Beside it run the *)
(* listener, one goroutine per request and the processor; nobody waits for *)
(* them by name, the process ends when main does.                          *)
(*                                                                         *)
(* Abstractions.  A request is what it holds: the body its client still    *)
(* sends, a connection of the pool, or an answer to give.  What the SQL    *)
(* does is in AccountLinkService and OutboxProcessor, how migrations end   *)
(* in Migrate.  External: net/http (a stopped server finishes the requests *)
(* it has admitted, and may still admit one from an open connection) and   *)
(* pgxpool (Close refuses new callers and waits for every connection).     *)
(***************************************************************************)
EXTENDS Naturals, FiniteSets

CONSTANTS Requests,   \* requests that clients may send to this process
          MaxConns,   \* connections in the pool
          NULL        \* absent value

Exits == {"ok", "error", "panic", "killed"}

ASSUME LifecycleAssumption == MaxConns \in Nat \ {0} /\ NULL \notin Exits

VARIABLES
  main,      \* where the main goroutine is
  cfg,       \* what config.Load returned, NULL before
  ctx,       \* has the context of NotifyContext been cancelled?
  err,       \* does run return an error?
  exit,      \* how the process ended, NULL while it lives
  listener,  \* the goroutine of Server.Run
  errCh,     \* does the buffered channel hold the listener's error?
  bound,     \* did it ever listen?
  stopped,   \* has Shutdown been called?
  req,       \* request -> where its handler is
  proc,      \* where the processor's goroutine is
  idle,      \* connections in the pool
  closing    \* has pool.Close been called?

server == <<listener, errCh, bound, stopped>>
pool == <<idle, closing>>
vars == <<main, cfg, ctx, err, exit, server, req, proc, pool>>

\* EVENT_TARGET=sns, whether the topic is named, whether OUTBOX_POLL_DELAY_MS
\* is positive.
Configs == [sns : BOOLEAN, arn : BOOLEAN, delay : BOOLEAN]

Alive == exit = NULL
Admitted == {"reading", "working", "holding"}
Answered == {"answered", "failed"}

Init ==
  /\ main = "config" /\ cfg = NULL /\ ctx = FALSE /\ err = FALSE /\ exit = NULL
  /\ listener = "none" /\ errCh = FALSE /\ bound = FALSE /\ stopped = FALSE
  /\ req = [r \in Requests |-> "new"]
  /\ proc = "none"
  /\ idle = MaxConns /\ closing = FALSE

-----------------------------------------------------------------------------
(* The main goroutine                                                       *)

At(label) == main = label /\ Alive

\* run returns an error; what it has deferred by then still runs.
ReturnError(label) == main' = label /\ err' = TRUE

\* config.Load: before NotifyContext, and with nothing deferred.
Load ==
  /\ At("config")
  /\ \/ \E c \in Configs : cfg' = c /\ main' = "connect" /\ UNCHANGED err
     \/ ReturnError("return") /\ UNCHANGED cfg
  /\ UNCHANGED <<ctx, exit, server, req, proc, pool>>

\* pgxpool.New fails on a bad DSN only; it connects later.
Connect ==
  /\ At("connect")
  /\ \/ main' = "migrate" /\ UNCHANGED err
     \/ ReturnError("stop")
  /\ UNCHANGED <<cfg, ctx, exit, server, req, proc, pool>>

\* migrateWithRetry returns nil or, in the end, its last error.
Migrate ==
  /\ At("migrate")
  /\ \/ main' = "publisher" /\ UNCHANGED err
     \/ ReturnError("close")
  /\ UNCHANGED <<cfg, ctx, exit, server, req, proc, pool>>

\* buildPublisher; with SNS also the AWS configuration may fail to load.
BuildPublisher ==
  /\ At("publisher")
  /\ \/ (cfg.sns => cfg.arn) /\ main' = "spawn" /\ UNCHANGED err
     \/ cfg.sns /\ ReturnError("close")
  /\ UNCHANGED <<cfg, ctx, exit, server, req, proc, pool>>

\* go processor.Start(ctx), then Run starts the listener and waits.
Spawn ==
  /\ At("spawn")
  /\ main' = "select"
  /\ proc' = "start" /\ listener' = "start"
  /\ UNCHANGED <<cfg, ctx, err, exit, errCh, bound, stopped, req, pool>>

\* ctx.Done is chosen: Shutdown closes the listener.
SelectDone ==
  /\ At("select") /\ ctx
  /\ main' = "shutdown" /\ stopped' = TRUE
  /\ UNCHANGED <<cfg, ctx, err, exit, listener, errCh, bound, req, proc, pool>>

\* The listener's error is chosen, also when the context is done as well.
SelectErr ==
  /\ At("select") /\ errCh
  /\ errCh' = FALSE
  /\ ReturnError("close")
  /\ UNCHANGED <<cfg, ctx, exit, listener, bound, stopped, req, proc, pool>>

\* Mutant: http.Server.Close, which waits for no request.
DrainedAlways == TRUE

Drained == \A r \in Requests : req[r] \notin Admitted

\* Shutdown returns nil.
ShutdownDone ==
  /\ At("shutdown") /\ Drained
  /\ main' = "close"
  /\ UNCHANGED <<cfg, ctx, err, exit, server, req, proc, pool>>

\* Mutant: Shutdown is given a context without timeout.
ShutdownNever == FALSE /\ UNCHANGED vars

\* Ten seconds have passed before Shutdown has found every request answered:
\* it returns the context's error.
ShutdownTimesOut ==
  /\ At("shutdown")
  /\ ReturnError("close")
  /\ UNCHANGED <<cfg, ctx, exit, server, req, proc, pool>>

\* The deferred pool.Close begins ...
PoolCloses ==
  /\ At("close") /\ ~closing
  /\ closing' = TRUE
  /\ UNCHANGED <<main, cfg, ctx, err, exit, server, req, proc, idle>>

\* Mutant: the deferred Close is missing.
AllReturnedAlways == TRUE

AllReturned == closing /\ idle = MaxConns

\* ... and returns when every connection has come back.
PoolClosed ==
  /\ At("close") /\ AllReturned
  /\ main' = "stop"
  /\ UNCHANGED <<cfg, ctx, err, exit, server, req, proc, pool>>

\* The deferred stop cancels the context.
Stop ==
  /\ At("stop")
  /\ ctx' = TRUE /\ main' = "return"
  /\ UNCHANGED <<cfg, err, exit, server, req, proc, pool>>

Status == IF err THEN "error" ELSE "ok"

\* main returns or calls os.Exit(1): every other goroutine ends where it is.
Exit ==
  /\ At("return")
  /\ exit' = Status
  /\ UNCHANGED <<main, cfg, ctx, err, server, req, proc, pool>>

-----------------------------------------------------------------------------
(* SIGINT and SIGTERM                                                       *)

\* Before NotifyContext and after stop a signal kills the process; in between
\* it cancels the context, and a second one changes nothing.
Signal ==
  /\ Alive
  /\ \/ main \in {"config", "return"} /\ exit' = "killed" /\ UNCHANGED ctx
     \/ main \notin {"config", "return"} /\ ~ctx /\ ctx' = TRUE /\ UNCHANGED exit
  /\ UNCHANGED <<main, cfg, err, server, req, proc, pool>>

-----------------------------------------------------------------------------
(* The listener                                                             *)

\* The port is bound; ListenAndServe accepts connections.
Listen ==
  /\ Alive /\ listener = "start" /\ ~stopped
  /\ listener' = "listening" /\ bound' = TRUE
  /\ UNCHANGED <<main, cfg, ctx, err, exit, errCh, stopped, req, proc, pool>>

\* ListenAndServe returns: the port is taken, Accept failed, or Shutdown was
\* called, perhaps before the goroutine got here (ErrServerClosed).
ListenFails ==
  /\ Alive /\ listener \in {"start", "listening"}
  /\ listener' = "sending"
  /\ UNCHANGED <<main, cfg, ctx, err, exit, errCh, bound, stopped, req, proc, pool>>

\* The channel has room for the one error, whether or not Run still selects.
SendErr ==
  /\ Alive /\ listener = "sending" /\ ~errCh
  /\ errCh' = TRUE /\ listener' = "gone"
  /\ UNCHANGED <<main, cfg, ctx, err, exit, bound, stopped, req, proc, pool>>

-----------------------------------------------------------------------------
(* Requests                                                                 *)

SetReq(r, label) == req' = [req EXCEPT ![r] = label]
others == <<main, cfg, ctx, err, exit, server, proc>>

\* Mutant: a connection is given back twice, by Commit and by Rollback.
ReleaseTwice == idle' = idle + 2

Acquire == /\ idle > 0 /\ ~closing
           /\ idle' = idle - 1
Release == idle' = idle + 1

\* A request comes in, perhaps over a connection that outlives the listener;
\* Shutdown returns when it has found them all idle, and closed them.
Admit(r) ==
  /\ Alive /\ req[r] = "new"
  /\ bound /\ (stopped => main = "shutdown")
  /\ SetReq(r, "reading")
  /\ UNCHANGED <<others, pool>>

\* enforceMethod answers 405, or the handler has read the body.
Dispatch(r) ==
  /\ Alive /\ req[r] = "reading"
  /\ SetReq(r, "working") \/ SetReq(r, "answered")
  /\ UNCHANGED <<others, pool>>

\* The handler takes a connection, for a statement or for a transaction ...
Hold(r) ==
  /\ Alive /\ req[r] = "working"
  /\ Acquire
  /\ SetReq(r, "holding")
  /\ UNCHANGED <<others, closing>>

\* ... and has it no more, at the end of the statement, Commit or Rollback.
Return(r) ==
  /\ Alive /\ req[r] = "holding"
  /\ Release
  /\ SetReq(r, "working")
  /\ UNCHANGED <<others, closing>>

\* The handler answers; a pool that is closing makes it a 500.
Answer(r) ==
  /\ Alive /\ req[r] = "working"
  /\ SetReq(r, "answered")
  /\ UNCHANGED <<others, pool>>

\* Mutant: the panic leaves the transaction open.
PanicLeaks(r) ==
  /\ Alive /\ req[r] \in {"working", "holding"}
  /\ SetReq(r, "failed")
  /\ UNCHANGED <<others, pool>>

\* The handler panics: the deferred Rollback gives the connection back, then
\* recoverMiddleware answers 500.
Panic(r) ==
  /\ Alive /\ req[r] \in {"working", "holding"}
  /\ SetReq(r, "failed")
  /\ IF req[r] = "holding" THEN Release ELSE UNCHANGED idle
  /\ UNCHANGED <<others, closing>>

-----------------------------------------------------------------------------
(* The outbox processor                                                     *)

rest == <<main, cfg, ctx, err, server, req>>

\* time.NewTicker panics on a delay that is not positive: no recover is in
\* this goroutine, so the process dies.
StartProcessor ==
  /\ Alive /\ proc = "start"
  /\ \/ cfg.delay /\ proc' = "waiting" /\ UNCHANGED exit
     \/ ~cfg.delay /\ exit' = "panic" /\ UNCHANGED proc
  /\ UNCHANGED <<rest, pool>>

\* The ticker fires; the select may prefer it to a context that is done.
Tick ==
  /\ Alive /\ proc = "waiting"
  /\ proc' = "begin"
  /\ UNCHANGED <<rest, exit, pool>>

\* PublishOnce begins its transaction, or fails on the context or the pool.
BeginTick ==
  /\ Alive /\ proc = "begin"
  /\ \/ ~ctx /\ Acquire /\ proc' = "holding"
     \/ (ctx \/ closing) /\ proc' = "waiting" /\ UNCHANGED idle
  /\ UNCHANGED <<rest, exit, closing>>

\* PublishOnce commits or rolls back, the context done or not.
EndTick ==
  /\ Alive /\ proc = "holding"
  /\ Release
  /\ proc' = "waiting"
  /\ UNCHANGED <<rest, exit, closing>>

\* ctx.Done: Start returns.
StopProcessor ==
  /\ Alive /\ proc = "waiting" /\ ctx
  /\ proc' = "gone"
  /\ UNCHANGED <<rest, exit, pool>>

-----------------------------------------------------------------------------
Main == \/ Load \/ Connect \/ Migrate \/ BuildPublisher \/ Spawn
        \/ SelectDone \/ SelectErr \/ ShutdownDone \/ ShutdownTimesOut
        \/ PoolCloses \/ PoolClosed \/ Stop \/ Exit
Listener == Listen \/ ListenFails \/ SendErr
Request(r) == Admit(r) \/ Dispatch(r) \/ Hold(r) \/ Return(r) \/ Answer(r) \/ Panic(r)
Processor == StartProcessor \/ Tick \/ BeginTick \/ EndTick \/ StopProcessor

Next == Main \/ Signal \/ Listener \/ Processor \/ \E r \in Requests : Request(r)

Spec == Init /\ [][Next]_vars

\* The main goroutine goes on, its timer included; an error of the listener is
\* sent; the database answers those who hold a connection, so that they give
\* it back.  Nobody promises that a client sends its body, that a handler
\* answers, that a signal comes or that the ticker fires.
Fairness == /\ WF_vars(Main) /\ WF_vars(SendErr) /\ WF_vars(EndTick)
            /\ \A r \in Requests : WF_vars(Return(r))
FairSpec == Spec /\ Fairness

-----------------------------------------------------------------------------
(* Properties                                                               *)

Starting == {"config", "connect", "migrate", "publisher", "spawn"}
Leaving == {"close", "stop", "return"}
Holders == {r \in Requests : req[r] = "holding"}
NoneLeft == \A r \in Requests : req[r] \in {"new"} \cup Answered

\* Every variable holds a value of its kind; the pool never lends or takes back
\* more connections than it has.
TypeOK ==
  /\ main \in Starting \cup {"select", "shutdown"} \cup Leaving
  /\ cfg \in Configs \cup {NULL}
  /\ ctx \in BOOLEAN /\ err \in BOOLEAN
  /\ exit \in Exits \cup {NULL}
  /\ listener \in {"none", "start", "listening", "sending", "gone"}
  /\ errCh \in BOOLEAN /\ bound \in BOOLEAN /\ stopped \in BOOLEAN
  /\ req \in [Requests -> {"new"} \cup Admitted \cup Answered]
  /\ proc \in {"none", "start", "waiting", "begin", "holding", "gone"}
  /\ idle \in 0 .. MaxConns /\ closing \in BOOLEAN

\* A process that reports success was asked to stop, and has answered every
\* request it admitted, those that came in during Shutdown included
\* (server.go:98-102, main.go:27-33).
GracefulExit == exit = "ok" => ctx /\ stopped /\ NoneLeft

\* The process never ends under an open transaction, of a request or of the
\* processor, neither after Shutdown timed out nor after the listener failed:
\* pool.Close waits (main.go:51).  Only the ticker's panic cuts one
\* (outbox_processor.go:76).
NoTransactionCut ==
  ~Alive /\ (Holders # {} \/ proc = "holding") => exit = "panic" /\ ~cfg.delay

\* Told to stop, or without a listener, the process ends, whatever clients and
\* handlers do: Shutdown has a timeout, and no path keeps a connection that
\* pool.Close would wait for (server.go:97-106, main.go:43-51).
EventuallyExits == (ctx \/ errCh) ~> ~Alive

-----------------------------------------------------------------------------
(* The inductive invariant                                                  *)

\* Before Spawn there is nobody but the main goroutine.
Serving == listener # "none"
AloneInv ==
  /\ main \in Starting => ~Serving
  /\ main \in {"select", "shutdown"} => Serving
  /\ ~Serving => /\ proc = "none" /\ ~bound /\ ~stopped
                 /\ \A r \in Requests : req[r] = "new"

\* Whoever holds a connection has it from the pool.
PoolInv ==
  /\ IsFiniteSet(Holders)
  /\ idle + Cardinality(Holders) + (IF proc = "holding" THEN 1 ELSE 0) = MaxConns

\* How far the main goroutine has come on its way out.
LeaveInv ==
  /\ main = "shutdown" => ctx /\ stopped
  /\ stopped => main \in {"shutdown"} \cup Leaving
  /\ main \in Leaving /\ ~err => ctx /\ stopped /\ NoneLeft
  /\ closing => main \in Leaving
  /\ main \in {"stop", "return"} /\ Serving => closing /\ idle = MaxConns

\* What each way to end says of the process.
ExitInv ==
  /\ exit \in {"ok", "error"} => main = "return" /\ (exit = "ok" => ~err)
  /\ exit = "killed" => main \in {"config", "return"}
  /\ exit = "panic" => ~cfg.delay

Inv == TypeOK /\ AloneInv /\ PoolInv /\ LeaveInv /\ ExitInv
=============================================================================
