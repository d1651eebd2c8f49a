------------------------- MODULE RetryTransportProofs -------------------------
(* What a call of RoundTrip guarantees for every retry limit.                *)
EXTENDS RetryTransport, TLAPS, FiniteSetTheorems

\* The bodies that are open while RoundTrip runs: at most the shared one and
\* the one of the remembered response; after an answer below 500 (or none)
\* also one 5xx body that the remembered response has replaced.
OpenInv ==
  /\ (lastResp # NULL /\ err = "status") => lastResp.body \in open
  /\ err # "none" =>
       /\ lastResp = NULL => open \subseteq {Shared}
       /\ lastResp # NULL => open \subseteq {Shared, lastResp.body}
  /\ (attempt > 0 /\ err = "none" /\ lastResp = NULL) =>
       \E b \in Bodies : open \subseteq {Shared, b}
  /\ (err = "none" /\ lastResp # NULL) =>
       /\ lastResp.body \in open
       /\ \E b \in Bodies : open \subseteq {Shared, b, lastResp.body}
  /\ attempt = 0 => open = {}

\* Which attempt the remembered response is of.
LastInv ==
  /\ attempt = 0 => err = "none" /\ lastResp = NULL /\ result = "running"
  /\ lastResp # NULL => lastResp.attempt <= attempt
  /\ lastResp # NULL =>
       (lastResp.attempt = attempt <=> err \in {"none", "status"})
  /\ (err = "status") => lastResp # NULL

\* What has been returned.
ResultInv ==
  /\ result = "response" <=> (result # "running" /\ GivesResponse)
  /\ result # "running" => (err = "none" \/ attempt = Limit)

Inv == TypeOK /\ OpenInv /\ LastInv /\ ResultInv

LEMMA InitInv == Init => Inv
  BY RetryAssumption
  DEF Init, Inv, TypeOK, OpenInv, LastInv, ResultInv, GivesResponse, Limit,
      Response, Bodies

\* Before an attempt at most one body is open beside the shared one, that of
\* the remembered response.
LEMMA OpenBefore ==
  ASSUME Inv, attempt = 0 \/ err # "none"
  PROVE  /\ lastResp = NULL => open \subseteq {Shared}
         /\ lastResp # NULL => /\ lastResp.body \in Bodies
                               /\ open \subseteq {Shared, lastResp.body}
  <1>1. lastResp # NULL => lastResp.body \in Bodies
    BY DEF Inv, TypeOK, Response
  <1> QED
    BY <1>1 DEF Inv, OpenInv, LastInv

LEMMA NextInv == Inv /\ [Next]_vars => Inv'
  <1> SUFFICES ASSUME Inv, [Next]_vars PROVE Inv'
    OBVIOUS
  <1> USE RetryAssumption DEF Limit, Bodies, Response, Shared
  <1>1. CASE CloneFails
    BY <1>1 DEF CloneFails, MayTry, Inv, TypeOK, OpenInv, LastInv, ResultInv,
                GivesResponse
  <1>2. CASE CallFails
    <2> USE <1>2 DEF CallFails, Send, MayTry, Inv
    <2>1. /\ attempt \in 0 .. MaxRetries /\ attempt' = attempt + 1
          /\ result = "running" /\ result' = "running"
          /\ attempt = 0 \/ err # "none"
      BY DEF TypeOK
    <2>2. TypeOK'
      <3>1. unread' \in BOOLEAN
        BY DEF TypeOK
      <3>2. cut' \subseteq 1 .. Limit
        BY <2>1 DEF TypeOK
      <3>3. lastResp' \in Response \cup {NULL} /\ open' \subseteq Bodies
        BY <2>1 DEF DrainAndClose, TypeOK
      <3> QED
        BY <2>1, <3>1, <3>2, <3>3 DEF TypeOK
    <2>3. OpenInv'
      BY <2>1 DEF DrainAndClose, TypeOK, OpenInv, LastInv
    <2>4. LastInv'
      BY <2>1 DEF TypeOK, LastInv
    <2>5. ResultInv'
      BY <2>1 DEF ResultInv
    <2> QED
      BY <2>2, <2>3, <2>4, <2>5
  <1>3. CASE ServerFails
    <2> USE <1>3 DEF ServerFails, Send, MayTry, Inv
    <2>1. /\ attempt \in 0 .. MaxRetries /\ attempt' = attempt + 1
          /\ result = "running" /\ result' = "running"
          /\ attempt = 0 \/ err # "none"
      BY DEF TypeOK
    <2>b. PICK b \in {Shared, attempt + 1} :
            /\ open' = CloseReplaced(b)
            /\ lastResp' = [attempt |-> attempt + 1, body |-> b, failed |-> TRUE]
      OBVIOUS
    <2>r. /\ b \in Bodies /\ lastResp' \in Response /\ lastResp' # NULL
          /\ lastResp'.attempt = attempt' /\ lastResp'.body = b
      <3>1. b \in Bodies /\ attempt + 1 \in 1 .. Limit
        BY <2>1
      <3>2. lastResp' \in Response
        BY <2>b, <3>1
      <3>3. lastResp' # NULL
        BY <3>2, RetryAssumption
      <3> QED
        BY <2>1, <2>b, <3>1, <3>2, <3>3
    <2>o. /\ b \in open' /\ open' \subseteq open \cup {b}
          /\ open' \subseteq {Shared, b}
      BY <2>1, <2>b, OpenBefore DEF CloseReplaced, DrainAndClose
    <2>2. TypeOK'
      <3>1. unread' \in BOOLEAN
        BY DEF TypeOK
      <3>2. cut' \subseteq 1 .. Limit
        BY <2>1 DEF TypeOK
      <3> QED
        BY <2>1, <2>r, <2>o, <3>1, <3>2 DEF TypeOK
    <2>3. OpenInv'
      BY <2>1, <2>r, <2>o DEF OpenInv
    <2>4. LastInv'
      BY <2>1, <2>r DEF LastInv
    <2>5. ResultInv'
      BY <2>1 DEF ResultInv
    <2> QED
      BY <2>2, <2>3, <2>4, <2>5
  <1>4. CASE Answered
    <2> USE <1>4 DEF Answered, Send, MayTry, Inv
    <2>1. /\ attempt \in 0 .. MaxRetries /\ attempt' = attempt + 1
          /\ result = "running" /\ result' = "running"
          /\ attempt = 0 \/ err # "none"
      BY DEF TypeOK
    <2>b. PICK b \in {Shared, attempt + 1} :
            /\ open' = open \cup {b}
            /\ lastResp' = [attempt |-> attempt + 1, body |-> b, failed |-> FALSE]
      OBVIOUS
    <2>r. /\ b \in Bodies /\ lastResp' \in Response /\ lastResp' # NULL
          /\ lastResp'.attempt = attempt' /\ lastResp'.body = b
      <3>1. b \in Bodies /\ attempt + 1 \in 1 .. Limit
        BY <2>1
      <3>2. lastResp' \in Response
        BY <2>b, <3>1
      <3>3. lastResp' # NULL
        BY <3>2, RetryAssumption
      <3> QED
        BY <2>1, <2>b, <3>1, <3>2, <3>3
    <2>o. /\ b \in open' /\ open' \subseteq open \cup {b}
      BY <2>b
    <2>2. TypeOK'
      <3>1. unread' \in BOOLEAN
        BY DEF TypeOK
      <3>2. cut' \subseteq 1 .. Limit
        BY <2>1 DEF TypeOK
      <3> QED
        BY <2>1, <2>r, <2>o, <3>1, <3>2 DEF TypeOK
    <2>3. OpenInv'
      <3>1. \E c \in Bodies : open' \subseteq {Shared, c, b}
        BY <2>1, <2>r, <2>o, OpenBefore
      <3> QED
        BY <2>1, <2>r, <2>o, <3>1 DEF OpenInv
    <2>4. LastInv'
      BY <2>1, <2>r DEF LastInv
    <2>5. ResultInv'
      BY <2>1 DEF ResultInv
    <2> QED
      BY <2>2, <2>3, <2>4, <2>5
  <1>5. CASE NoAnswer
    <2> USE <1>5 DEF NoAnswer, Send, MayTry, Inv
    <2>1. /\ attempt \in 0 .. MaxRetries /\ attempt' = attempt + 1
          /\ result = "running" /\ result' = "running"
          /\ attempt = 0 \/ err # "none"
      BY DEF TypeOK
    <2>2. TypeOK'
      <3>1. unread' \in BOOLEAN
        BY DEF TypeOK
      <3>2. cut' \subseteq 1 .. Limit
        BY <2>1 DEF TypeOK
      <3>3. lastResp' \in Response \cup {NULL} /\ open' \subseteq Bodies
        BY <2>1 DEF TypeOK
      <3> QED
        BY <2>1, <3>1, <3>2, <3>3 DEF TypeOK
    <2>3. OpenInv'
      <3>1. \E c \in Bodies : open' \subseteq {Shared, c}
        BY <2>1, OpenBefore
      <3> QED
        BY <2>1, <3>1 DEF OpenInv
    <2>4. LastInv'
      BY <2>1 DEF TypeOK, LastInv
    <2>5. ResultInv'
      BY <2>1 DEF ResultInv
    <2> QED
      BY <2>2, <2>3, <2>4, <2>5
  <1>6. CASE Return
    BY <1>6 DEF Return, MayTry, Inv, TypeOK, OpenInv, LastInv, ResultInv,
                GivesResponse
  <1>7. CASE UNCHANGED vars
    BY <1>7 DEF vars, Inv, TypeOK, OpenInv, LastInv, ResultInv, GivesResponse
  <1> QED
    BY <1>1, <1>2, <1>3, <1>4, <1>5, <1>6, <1>7 DEF Next

LEMMA Invariance == Spec => []Inv
  BY InitInv, NextInv, PTL DEF Spec

\* The variables of a call keep their types: in particular there are never
\* more than MaxRetries + 1 attempts (retry.go:64-69).
THEOREM TypeCorrect == Spec => []TypeOK
  BY Invariance, PTL DEF Inv

\* The caller can read the body of the response it gets (retry.go:152).
THEOREM ReturnedBodyIsOpenAlways == Spec => []ReturnedBodyIsOpen
  <1>1. Inv => ReturnedBodyIsOpen
    BY DEF Inv, OpenInv, ResultInv, GivesResponse, ReturnedBodyIsOpen
  <1> QED
    BY <1>1, Invariance, PTL

\* The answer returned is that of the last attempt (retry.go:161-184).
THEOREM AnswerIsOfLastAttemptAlways == Spec => []AnswerIsOfLastAttempt
  <1>1. Inv => AnswerIsOfLastAttempt
    <2> SUFFICES ASSUME Inv PROVE AnswerIsOfLastAttempt
      OBVIOUS
    <2>1. attempt \in Nat /\ (lastResp # NULL => lastResp.attempt \in Nat)
      BY RetryAssumption DEF Inv, TypeOK, Response, Limit
    <2> QED
      BY <2>1 DEF Inv, TypeOK, LastInv, ResultInv, GivesResponse,
                  AnswerIsOfLastAttempt
  <1> QED
    BY <1>1, Invariance, PTL

\* RoundTrip returns a failure only after MaxRetries + 1 attempts
\* (retry.go:64-69).
THEOREM GivesUpAtTheLimitAlways == Spec => []GivesUpAtTheLimit
  <1>1. Inv => GivesUpAtTheLimit
    BY DEF Inv, ResultInv, GivesUpAtTheLimit
  <1> QED
    BY <1>1, Invariance, PTL

\* At most one response body is left open behind the caller's back, whatever
\* the limit and however many 5xx answers there were (retry.go:151-157).
THEOREM AtMostOneLeftAlways == Spec => []AtMostOneLeft
  <1>1. Inv => AtMostOneLeft
    <2> SUFFICES ASSUME Inv, result # "running"
                 PROVE  Cardinality(Left \ {Shared}) <= 1
      BY DEF AtMostOneLeft
    <2>1. attempt > 0
      BY RetryAssumption DEF Inv, TypeOK, LastInv, Limit
    <2>2. PICK c \in Bodies : Left \ {Shared} \subseteq {c}
      <3>1. Shared \in Bodies /\ (lastResp # NULL => lastResp.body \in Bodies)
        BY RetryAssumption DEF Inv, TypeOK, Response, Bodies, Limit, Shared
      <3>2. CASE err # "none"
        BY <3>1, <3>2 DEF Left, Inv, OpenInv
      <3>3. CASE err = "none" /\ lastResp = NULL
        BY <2>1, <3>3 DEF Left, Inv, OpenInv, ResultInv, GivesResponse
      <3>4. CASE err = "none" /\ lastResp # NULL
        BY <3>4 DEF Left, Inv, OpenInv, ResultInv, GivesResponse
      <3> QED
        BY <3>2, <3>3, <3>4
    <2>3. IsFiniteSet({c}) /\ Cardinality({c}) = 1
      BY FS_Singleton
    <2>4. /\ IsFiniteSet(Left \ {Shared})
          /\ Cardinality(Left \ {Shared}) <= Cardinality({c})
      BY <2>2, <2>3, FS_Subset
    <2> QED
      BY <2>3, <2>4
  <1> QED
    BY <1>1, Invariance, PTL
===============================================================================
