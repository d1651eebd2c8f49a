--------------------------- MODULE IdempotentCreate ---------------------------
(***************************************************************************)
(* What POST /account-links promises its clients, with no database,        *)
(* transaction, pool or process in sight: a link is created and announced  *)
(* in one indivisible step, a key is bound to the first link created under *)
(* it and never rebound, and every answer that is not an error is true of  *)
(* the bindings at the moment it is given.                                 *)
(***************************************************************************)
CONSTANTS Requests, Keys, NoKey, Hashes, NULL

VARIABLES asked,      \* request -> its key and request hash, or NULL
          bound,      \* key -> the record that binds it, or NULL
          announced,  \* links created together with their event
          answer      \* request -> the answer it got, or NULL

vars == <<asked, bound, announced, answer>>

Init ==
  /\ asked = [r \in Requests |-> NULL]
  /\ bound = [k \in Keys |-> NULL]
  /\ announced = {}
  /\ answer = [r \in Requests |-> NULL]

Ask(r) ==
  /\ asked[r] = NULL
  /\ \E k \in Keys \cup {NoKey}, h \in Hashes :
       asked' = [asked EXCEPT ![r] = [key |-> k, hash |-> h]]
  /\ UNCHANGED <<bound, announced, answer>>

Open(r) == asked[r] # NULL /\ answer[r] = NULL

\* The one step with an effect.  A keyed request takes it only on a free key.
\* It may come after the client was told of an error.
Create(r) ==
  /\ asked[r] # NULL
  /\ answer[r] = NULL \/ answer[r].kind = "failed"
  /\ r \notin announced
  /\ announced' = announced \cup {r}
  /\ \/ asked[r].key = NoKey /\ UNCHANGED bound
     \/ /\ asked[r].key # NoKey
        /\ bound[asked[r].key] = NULL
        /\ bound' = [bound EXCEPT ![asked[r].key] =
                       [request_hash |-> asked[r].hash, account_link_id |-> r]]
  /\ UNCHANGED <<asked, answer>>

Answer(r, kind, link) ==
  /\ Open(r)
  /\ answer' = [answer EXCEPT ![r] = [kind |-> kind, link |-> link]]
  /\ UNCHANGED <<asked, bound, announced>>

AnswerCreated(r) == r \in announced /\ Answer(r, "created", r)

\* The record that binds the key of r, or NULL.
Binding(r) == IF asked[r].key = NoKey THEN NULL ELSE bound[asked[r].key]

AnswerReplayed(r) ==
  /\ Open(r)
  /\ r \notin announced
  /\ Binding(r) # NULL
  /\ Binding(r).request_hash = asked[r].hash
  /\ Answer(r, "replayed", Binding(r).account_link_id)

AnswerConflict(r) ==
  /\ Open(r)
  /\ Binding(r) # NULL
  /\ Binding(r).request_hash # asked[r].hash
  /\ Answer(r, "conflict", NULL)

\* An error promises nothing: the link may have been created, or be created
\* later.
AnswerFailed(r) == Answer(r, "failed", NULL)

Next == \E r \in Requests :
  \/ Ask(r) \/ Create(r) \/ AnswerCreated(r) \/ AnswerReplayed(r)
  \/ AnswerConflict(r) \/ AnswerFailed(r)

Spec == Init /\ [][Next]_vars
=============================================================================
