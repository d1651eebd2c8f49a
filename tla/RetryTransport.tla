---------------------------- MODULE RetryTransport ----------------------------
(***************************************************************************)
(* The retrying HTTP transport (internal/httpclient/retry.go): one call of *)
(* RoundTrip, which sends the request again after a transport error or a   *)
(* 5xx answer, at most MaxRetries times, and hands the caller the last     *)
(* answer.  What is at stake is who closes which response body, and what   *)
(* is left of the request body for the next attempt.                       *)
(*                                                                         *)
(* Abstractions.  The wait between two attempts and the log line are left  *)
(* out.  A response is the attempt that got it, its class and its body; a  *)
(* body is the number of the attempt that got it, or Shared when the base  *)
(* transport gives the same object to every response (http.NoBody, a stub).*)
(* RoundTrip keeps its state in locals, so concurrent calls share nothing. *)
(* External: failsafe's policy and the base transport, as used here.       *)
(***************************************************************************)
EXTENDS Naturals, FiniteSets

CONSTANTS MaxRetries,  \* httpRetryConfig.retryMax
          NULL         \* no response

Shared == 0
Limit == MaxRetries + 1
Bodies == 0 .. Limit
Response == [attempt : 1 .. Limit, body : Bodies, failed : BOOLEAN]

ASSUME RetryAssumption == MaxRetries \in Nat /\ NULL \notin Response

VARIABLES
  request,   \* "empty" (no Body), "replayable" (GetBody set) or "once"
  unread,    \* is the whole request body still to be read?
  cut,       \* attempts that were sent less than the whole request body
  attempt,   \* attempts made
  err,       \* the error of the last attempt: "none", "clone", "call", "status"
  lastResp,  \* the response RoundTrip remembers, or NULL
  open,      \* response bodies that nobody has closed
  result     \* "running", or what RoundTrip returned: "response" or "error"

vars == <<request, unread, cut, attempt, err, lastResp, open, result>>

Init ==
  /\ request \in {"empty", "replayable", "once"}
  /\ unread = TRUE /\ cut = {}
  /\ attempt = 0 /\ err = "none"
  /\ lastResp = NULL /\ open = {}
  /\ result = "running"

-----------------------------------------------------------------------------
\* Mutant: one retry too many.
MayTryLimitPlusOne ==
  /\ result = "running"
  /\ attempt = 0 \/ (err # "none" /\ attempt <= Limit)

\* Mutant: the first attempt counted as a retry.
MayTryOneShort ==
  /\ result = "running"
  /\ attempt = 0 \/ (err # "none" /\ attempt < MaxRetries)

\* failsafe: the first attempt, then one more after each error.
MayTry ==
  /\ result = "running"
  /\ attempt = 0 \/ (err # "none" /\ attempt < Limit)

\* cloneRequest accepts the request.
Replayable == request # "once"

\* The base transport reads the request body, all of it or less; the clone
\* shares it with the request, so the next attempt finds what is left.
Send ==
  /\ attempt' = attempt + 1
  /\ unread' \in (IF request = "empty" THEN {TRUE} ELSE {FALSE, unread})
  /\ cut' = IF unread THEN cut ELSE cut \cup {attempt + 1}

DrainAndClose(body) == open \ {body}

\* cloneRequest refuses the request.
CloneFails ==
  /\ MayTry /\ ~Replayable
  /\ attempt' = attempt + 1
  /\ err' = "clone"
  /\ UNCHANGED <<request, unread, cut, lastResp, open, result>>

\* The call fails; a response that comes with the error is drained and closed
\* at once, so it shows only when its body is the shared one.
CallFails ==
  /\ MayTry /\ Replayable
  /\ Send
  /\ err' = "call"
  /\ open' \in {open, DrainAndClose(Shared)}
  /\ UNCHANGED <<request, lastResp, result>>

\* Mutant: the previous response is dropped without being closed.
KeepOpen(body) == open \cup {body}

\* Mutant: closed without comparing the two bodies.
CloseReplacedAlways(body) ==
  IF lastResp = NULL THEN open \cup {body}
  ELSE (open \cup {body}) \ {lastResp.body}

\* A 5xx answer takes the place of the one remembered, which is closed
\* unless both have the same body.
CloseReplaced(body) ==
  IF lastResp # NULL /\ lastResp.body # body
  THEN DrainAndClose(lastResp.body) \cup {body}
  ELSE open \cup {body}

ServerFails ==
  /\ MayTry /\ Replayable
  /\ Send
  /\ \E b \in {Shared, attempt + 1} :
       /\ open' = CloseReplaced(b)
       /\ lastResp' = [attempt |-> attempt + 1, body |-> b, failed |-> TRUE]
  /\ err' = "status"
  /\ UNCHANGED <<request, result>>

\* An answer below 500: the policy is content.
Answered ==
  /\ MayTry /\ Replayable
  /\ Send
  /\ \E b \in {Shared, attempt + 1} :
       /\ open' = open \cup {b}
       /\ lastResp' = [attempt |-> attempt + 1, body |-> b, failed |-> FALSE]
  /\ err' = "none"
  /\ UNCHANGED <<request, result>>

\* The base transport returns neither a response nor an error.
NoAnswer ==
  /\ MayTry /\ Replayable
  /\ Send
  /\ lastResp' = NULL
  /\ err' = "none"
  /\ UNCHANGED <<request, open, result>>

\* Mutant: any remembered response is returned, whatever the last error was.
GivesResponseStale == lastResp # NULL

\* The last error is a 5xx status, or there is none, and a response is there.
GivesResponse == err \in {"none", "status"} /\ lastResp # NULL

\* The policy is content, or it has no attempt left.
Return ==
  /\ result = "running" /\ attempt > 0 /\ ~MayTry
  /\ result' = IF GivesResponse THEN "response" ELSE "error"
  /\ UNCHANGED <<request, unread, cut, attempt, err, lastResp, open>>

Next == CloneFails \/ CallFails \/ ServerFails \/ Answered \/ NoAnswer \/ Return

Spec == Init /\ [][Next]_vars

-----------------------------------------------------------------------------
TypeOK ==
  /\ request \in {"empty", "replayable", "once"}
  /\ unread \in BOOLEAN /\ cut \subseteq 1 .. Limit
  /\ attempt \in 0 .. Limit
  /\ err \in {"none", "clone", "call", "status"}
  /\ lastResp \in Response \cup {NULL}
  /\ open \subseteq Bodies
  /\ result \in {"running", "response", "error"}

\* The bodies that are open and that the caller does not have.
Left == open \ (IF result = "response" THEN {lastResp.body} ELSE {})

\* RoundTrip never leaves more than one own body of a response open behind
\* the caller's back, however many 5xx answers it saw: each one that takes
\* another's place closes it (retry.go:151-157).
AtMostOneLeft ==
  result # "running" => Cardinality(Left \ {Shared}) <= 1

\* The caller can read what it gets: the body of the returned response is
\* open, also when two answers share one body object (retry.go:152).
ReturnedBodyIsOpen == result = "response" => lastResp.body \in open

\* The answer is that of the last attempt: an earlier 5xx is never returned
\* once a later attempt failed, and an answer of the last attempt is never
\* turned into an error (retry.go:161-184).
AnswerIsOfLastAttempt ==
  /\ result = "response" => lastResp.attempt = attempt
  /\ result = "error" => lastResp = NULL \/ lastResp.attempt < attempt

\* RoundTrip gives up only at the limit: a 5xx or an error of the call is
\* returned after exactly MaxRetries + 1 attempts (retry.go:64-69).
GivesUpAtTheLimit ==
  (result # "running" /\ err # "none") => attempt = Limit

\* retry.go:142: "Body is either returned to caller or closed on retry/error
\* paths."
EveryBodyReturnedOrClosed == result # "running" => Left \subseteq {Shared}

\* retry.go:191 refuses a request because its "request body is not replayable
\* for retries": one that is accepted is sent whole at every attempt.
EveryAttemptSendsWholeBody == cut = {}
===============================================================================
