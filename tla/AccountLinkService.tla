-------------------------- MODULE AccountLinkService --------------------------
(***************************************************************************)
(* POST /account-links and GET /account-links/{id}: the HTTP handler       *)
(* (internal/api), the service (internal/app) and the SQL the stores run   *)
(* (internal/persistence), for any number of requests served concurrently  *)
(* by the goroutines of several server instances over one PostgreSQL.      *)
(*                                                                         *)
(* One action is one call that leaves the process (an SQL statement, BEGIN *)
(* or COMMIT) with the straight-line code after it; between two actions of *)
(* a request every other request may run.  Reads go through the pool and   *)
(* see committed rows only; the writes of a request are pending in its     *)
(* transaction until COMMIT (READ COMMITTED).  A transaction may outlive   *)
(* the request that opened it, and a COMMIT the connection it was sent on. *)
(*                                                                         *)
(* Abstractions.  A request identity doubles as the UUIDs uuid.New() mints *)
(* while serving it (one link, one event): fresh and never nil.  A text is *)
(* the sequence of its "|"-separated segments, so that a \o b is the text  *)
(* a + "|" + b; sha256 is taken to be injective.  PostgreSQL and pgxpool   *)
(* are external and modelled from how the stores use them.                 *)
(***************************************************************************)
EXTENDS Naturals, Sequences, FiniteSets

CONSTANTS Requests,   \* HTTP requests, in flight, answered or still to come
          Instances,  \* server processes, each with its own connection pool
          Keys,       \* non-blank Idempotency-Key values, trimmed
          Calls,      \* the POST bodies and headers a client may send
          Times,      \* clock readings of the instances (skewed, unordered)
          MaxConns,   \* connections in the pool of an instance
          BadID,      \* a path that is not a UUID
          NULL        \* absent row, SQL NULL, absent value

NoKey == ""                       \* no (or a blank) Idempotency-Key header
Blank == <<"">>                   \* the empty text
LinkStatuses == {"PENDING", "ACTIVE", "FAILED"}

ASSUME ConnsAssumption == MaxConns \in Nat \ {0}

\* A raw string is its text and whether white space surrounds it.
ASSUME CallsAssumption ==
  /\ NoKey \notin Keys
  /\ \A c \in Calls : /\ c.op = "create"
                      /\ c.malformed \in BOOLEAN
                      /\ c.key.text \in Keys \cup {NoKey}

VARIABLES
  \* the three tables, committed rows only
  account_links,     \* link id -> row or NULL
  idempotency_keys,  \* idem_key -> row or NULL
  outbox_events,     \* event id -> row or NULL
  \* the goroutine serving each request
  pc,                \* the call it is about to make
  call,              \* what the client asked
  at,                \* the instance that serves it
  tx,                \* pending writes of its open transaction, or NULL; it
                     \* is the server's, and may be open when the request is not
  inserted,          \* the local `inserted` of Create
  rec,               \* the idempotency record being replayed, or NULL
  resp,              \* the response, or NULL
  \* per instance
  conns              \* connections its pool can still hand out

tables == <<account_links, idempotency_keys, outbox_events>>
locals == <<call, at, inserted, rec>>
vars == <<tables, pc, call, at, tx, inserted, rec, resp, conns>>

-----------------------------------------------------------------------------
(* Values                                                                   *)

TrimSpace(s) == s.text

Key(r) == TrimSpace(call[r].key)

\* Mutant: the untrimmed strings are hashed.
RequestHashRaw(c) == <<c.userID, c.externalInstitution>>

RequestHash(c) == TrimSpace(c.userID) \o TrimSpace(c.externalInstitution)

NewAccountLink(c) ==
  [user_id |-> TrimSpace(c.userID),
   external_institution |-> TrimSpace(c.externalInstitution),
   status |-> "PENDING"]

Validate(link) == /\ link.user_id # Blank
                  /\ link.external_institution # Blank
                  /\ link.status \in LinkStatuses

\* The handler's own checks, before it calls the service.
BadRequest(c) == \/ c.malformed
                 \/ TrimSpace(c.userID) = Blank
                 \/ TrimSpace(c.externalInstitution) = Blank

IdempotencyRecord(r) == [request_hash |-> RequestHash(call[r]),
                         account_link_id |-> r]

\* Mutant: the event is written as published.
OutboxEventPublished(r, now) ==
  [aggregate_id |-> r, payload |-> tx[r].link, created_at |-> now, published_at |-> now]

OutboxEvent(r, now) == [aggregate_id |-> r, payload |-> tx[r].link,
                        created_at |-> now, published_at |-> NULL]

\* sent: the client is gone, its COMMIT may still arrive.
EmptyTx == [link |-> NULL, rec |-> NULL, event |-> NULL, sent |-> FALSE]

Problem(status, detail) ==
  [status |-> status, link |-> NULL, detail |-> detail]
Found(status, link) == [status |-> status, link |-> link, detail |-> "ok"]

-----------------------------------------------------------------------------
(* Program counters                                                         *)

Reading == {"find_key", "refind_key", "find_link", "get"}
InTx == {"save", "try_insert", "add_outbox", "commit"}
HoldsConn == InTx \cup {"ack"}
InFlight == Reading \cup {"begin"} \cup HoldsConn
PCs == {"new", "done", "crashed"} \cup InFlight

Goto(r, label) == pc' = [pc EXCEPT ![r] = label]

Reply(r, answer) == /\ pc' = [pc EXCEPT ![r] = "done"]
                    /\ resp' = [resp EXCEPT ![r] = answer]

-----------------------------------------------------------------------------
(* The connection pool of an instance (pgxpool)                             *)

Available(r) == conns[at[r]] > 0
Acquire(r) == /\ Available(r)
              /\ conns' = [conns EXCEPT ![at[r]] = @ - 1]
Release(r) == conns' = [conns EXCEPT ![at[r]] = @ + 1]

-----------------------------------------------------------------------------
Init ==
  /\ account_links = [r \in Requests |-> NULL]
  /\ idempotency_keys = [k \in Keys |-> NULL]
  /\ outbox_events = [r \in Requests |-> NULL]
  /\ pc = [r \in Requests |-> "new"]
  /\ call = [r \in Requests |-> NULL]
  /\ at = [r \in Requests |-> NULL]
  /\ tx = [r \in Requests |-> NULL]
  /\ inserted = [r \in Requests |-> FALSE]
  /\ rec = [r \in Requests |-> NULL]
  /\ resp = [r \in Requests |-> NULL]
  /\ conns = [i \in Instances |-> MaxConns]

-----------------------------------------------------------------------------
(* The reads of the stores: committed rows                                  *)

KeyRow(key) == idempotency_keys[key]
LinkRow(id) == account_links[id]

-----------------------------------------------------------------------------
(* POST /account-links                                                      *)

\* Handler.CreateAccountLink up to the first call of AccountLinkService.Create.
CreateAccountLink(r, i) ==
  /\ pc[r] = "new"
  /\ at' = [at EXCEPT ![r] = i]
  /\ \E c \in Calls :
       /\ call' = [call EXCEPT ![r] = c]
       /\ \/ BadRequest(c) /\ Reply(r, Problem("BadRequest", "bad request"))
          \/ /\ ~ BadRequest(c)
             /\ Goto(r, IF TrimSpace(c.key) = NoKey THEN "begin" ELSE "find_key")
             /\ UNCHANGED resp
  /\ UNCHANGED <<tables, tx, inserted, rec, conns>>

\* Mutant: the request hash is not compared.
ReplayAnyPayload(r, row) ==
  /\ rec' = [rec EXCEPT ![r] = row]
  /\ Goto(r, "find_link")
  /\ UNCHANGED resp

\* Mutant: a key bound to another payload is looked up again.
ReplayRetries(r, row) ==
  /\ rec' = [rec EXCEPT ![r] = row]
  /\ Goto(r, IF row.request_hash = RequestHash(call[r]) THEN "find_link" ELSE "find_key")
  /\ UNCHANGED resp

\* AccountLinkService.replay up to its read of the link.
Replay(r, row) ==
  \/ /\ row.request_hash # RequestHash(call[r])
     /\ Reply(r, Problem("Conflict", "conflict"))
     /\ UNCHANGED rec
  \/ /\ row.request_hash = RequestHash(call[r])
     /\ rec' = [rec EXCEPT ![r] = row]
     /\ Goto(r, "find_link")
     /\ UNCHANGED resp

\* The first FindByKey of Create.
FindByKey(r) ==
  /\ pc[r] = "find_key"
  /\ Available(r)
  /\ LET row == KeyRow(Key(r)) IN
       \/ row = NULL /\ Goto(r, "begin") /\ UNCHANGED <<rec, resp>>
       \/ row # NULL /\ Replay(r, row)
  /\ UNCHANGED <<tables, call, at, tx, inserted, conns>>

Begin(r) ==
  /\ pc[r] = "begin"
  /\ Acquire(r)
  /\ tx' = [tx EXCEPT ![r] = EmptyTx]
  /\ Goto(r, "save")
  /\ UNCHANGED <<tables, locals, resp>>

\* Mutant: the non-idempotent path forgets the outbox.
SaveWithoutOutbox(r) ==
  /\ pc[r] = "save"
  /\ tx' = [tx EXCEPT ![r].link = NewAccountLink(call[r])]
  /\ inserted' = [inserted EXCEPT ![r] = (Key(r) = NoKey)]
  /\ Goto(r, IF Key(r) = NoKey THEN "commit" ELSE "try_insert")
  /\ UNCHANGED <<tables, call, at, rec, resp, conns>>

\* createNew; a link without a key goes straight on to the outbox.
Save(r) ==
  /\ pc[r] = "save"
  /\ Validate(NewAccountLink(call[r]))
  /\ tx' = [tx EXCEPT ![r].link = NewAccountLink(call[r])]
  /\ inserted' = [inserted EXCEPT ![r] = (Key(r) = NoKey)]
  /\ Goto(r, IF Key(r) = NoKey THEN "add_outbox" ELSE "try_insert")
  /\ UNCHANGED <<tables, call, at, rec, resp, conns>>

\* INSERT waits while another open transaction has the same key pending.
KeyPending(r) ==
  \E q \in Requests \ {r} : /\ tx[q] # NULL
                            /\ tx[q].rec # NULL
                            /\ Key(q) = Key(r)

\* Mutant: ON CONFLICT DO UPDATE, which always affects one row.
TryInsertUpsert(r) ==
  /\ pc[r] = "try_insert"
  /\ ~ KeyPending(r)
  /\ tx' = [tx EXCEPT ![r].rec = IdempotencyRecord(r)]
  /\ inserted' = [inserted EXCEPT ![r] = TRUE]
  /\ Goto(r, "add_outbox")
  /\ UNCHANGED <<tables, call, at, rec, resp, conns>>

\* Mutant: the event is written whether or not the key was inserted.
TryInsertAlwaysOutbox(r) ==
  /\ pc[r] = "try_insert"
  /\ ~ KeyPending(r)
  /\ inserted' = [inserted EXCEPT ![r] = (idempotency_keys[Key(r)] = NULL)]
  /\ tx' = [tx EXCEPT ![r].rec = IF inserted'[r] THEN IdempotencyRecord(r) ELSE NULL]
  /\ Goto(r, "add_outbox")
  /\ UNCHANGED <<tables, call, at, rec, resp, conns>>

\* Mutant: the key is inserted through the pool, outside the transaction.
TryInsertAutocommit(r) ==
  /\ pc[r] = "try_insert"
  /\ inserted' = [inserted EXCEPT ![r] = (idempotency_keys[Key(r)] = NULL)]
  /\ idempotency_keys' = [idempotency_keys EXCEPT ![Key(r)] =
                            IF inserted'[r] THEN IdempotencyRecord(r) ELSE @]
  /\ Goto(r, IF inserted'[r] THEN "add_outbox" ELSE "commit")
  /\ UNCHANGED <<account_links, outbox_events, tx, call, at, rec, resp, conns>>

\* INSERT ... ON CONFLICT (idem_key) DO NOTHING.
TryInsert(r) ==
  /\ pc[r] = "try_insert"
  /\ ~ KeyPending(r)
  /\ \/ /\ idempotency_keys[Key(r)] = NULL
        /\ tx' = [tx EXCEPT ![r].rec = IdempotencyRecord(r)]
        /\ inserted' = [inserted EXCEPT ![r] = TRUE]
        /\ Goto(r, "add_outbox")
     \/ /\ idempotency_keys[Key(r)] # NULL
        /\ inserted' = [inserted EXCEPT ![r] = FALSE]
        /\ Goto(r, "commit")
        /\ UNCHANGED tx
  /\ UNCHANGED <<tables, call, at, rec, resp, conns>>

\* writeAccountLinkCreatedOutbox.
AddOutbox(r) ==
  /\ pc[r] = "add_outbox"
  /\ \E now \in Times : tx' = [tx EXCEPT ![r].event = OutboxEvent(r, now)]
  /\ Goto(r, "commit")
  /\ UNCHANGED <<tables, locals, resp, conns>>

Apply(r) ==
  /\ account_links' = [account_links EXCEPT ![r] = tx[r].link]
  /\ idempotency_keys' = IF tx[r].rec = NULL THEN idempotency_keys
                         ELSE [idempotency_keys EXCEPT ![Key(r)] = tx[r].rec]
  /\ outbox_events' = IF tx[r].event = NULL THEN outbox_events
                      ELSE [outbox_events EXCEPT ![r] = tx[r].event]

EndTx(r) == tx' = [tx EXCEPT ![r] = NULL]

\* COMMIT takes effect at the server; the process does not know it yet.
Commit(r) ==
  /\ pc[r] = "commit"
  /\ Apply(r)
  /\ EndTx(r)
  /\ Goto(r, "ack")
  /\ UNCHANGED <<locals, resp, conns>>

\* Mutant: `inserted` is ignored and the request's own link answered.
AckOwnLink(r) ==
  /\ pc[r] = "ack"
  /\ Release(r)
  /\ Reply(r, Found("Created", r))
  /\ UNCHANGED <<tables, locals, tx>>

\* Mutant: after a lost insert the connection is kept until Create returns.
AckKeepsConn(r) ==
  /\ pc[r] = "ack"
  /\ \/ inserted[r] /\ Reply(r, Found("Created", r)) /\ Release(r)
     \/ ~ inserted[r] /\ Goto(r, "refind_key") /\ UNCHANGED <<resp, conns>>
  /\ UNCHANGED <<tables, locals, tx>>

\* tx.Commit returns nil: the connection goes back to the pool.
Ack(r) ==
  /\ pc[r] = "ack"
  /\ Release(r)
  /\ \/ inserted[r] /\ Reply(r, Found("Created", r))
     \/ ~ inserted[r] /\ Goto(r, "refind_key") /\ UNCHANGED resp
  /\ UNCHANGED <<tables, locals, tx>>

\* The second FindByKey of Create, after a lost insert.
FindByKeyAgain(r) ==
  /\ pc[r] = "refind_key"
  /\ Available(r)
  /\ LET row == KeyRow(Key(r)) IN
       IF row = NULL
         THEN Reply(r, Problem("InternalServerError", "unreadable key")) /\ UNCHANGED rec
         ELSE Replay(r, row)
  /\ UNCHANGED <<tables, call, at, tx, inserted, conns>>

\* The rest of replay: FindByID of the recorded link.
FindReplayed(r) ==
  /\ pc[r] = "find_link"
  /\ Available(r)
  /\ LET id == rec[r].account_link_id IN
       Reply(r, IF LinkRow(id) = NULL
                  THEN Problem("InternalServerError", "missing link") ELSE Found("OK", id))
  /\ UNCHANGED <<tables, locals, tx, conns>>

-----------------------------------------------------------------------------
(* GET /account-links/{id}                                                  *)

GetAccountLink(r, i) ==
  /\ pc[r] = "new"
  /\ at' = [at EXCEPT ![r] = i]
  /\ \E id \in Requests \cup {BadID} :
       /\ call' = [call EXCEPT ![r] = [op |-> "get", id |-> id]]
       /\ \/ id = BadID /\ Reply(r, Problem("BadRequest", "bad request"))
          \/ id # BadID /\ Goto(r, "get") /\ UNCHANGED resp
  /\ UNCHANGED <<tables, tx, inserted, rec, conns>>

GetByID(r) ==
  /\ pc[r] = "get"
  /\ Available(r)
  /\ LET id == call[r].id IN
       Reply(r, IF LinkRow(id) = NULL
                  THEN Problem("NotFound", "not found") ELSE Found("OK", id))
  /\ UNCHANGED <<tables, locals, tx, conns>>

-----------------------------------------------------------------------------
(* Failures                                                                 *)

\* Mutant: no deferred Rollback.
FailWithoutRollback(r) ==
  /\ pc[r] \in InFlight
  /\ Reply(r, Problem("InternalServerError", "request failed"))
  /\ UNCHANGED <<tables, locals, tx, conns>>

\* Mutant: a connection is given back on every error, held or not.
FailReleasesTwice(r) ==
  /\ pc[r] \in InFlight
  /\ Reply(r, Problem("InternalServerError", "request failed"))
  /\ Release(r)
  /\ UNCHANGED <<tables, locals, tx>>

\* What the server is left with when the client of r's transaction gives up.
Abandoned(r) == IF pc[r] = "commit" THEN [tx[r] EXCEPT !.sent = TRUE] ELSE tx[r]

\* The pending call returns an error (database, network, cancelled context,
\* payload encoding): the deferred Rollback runs, the connection goes back or
\* is replaced, the handler answers 500.
Fail(r) ==
  /\ pc[r] \in InFlight
  /\ Reply(r, Problem("InternalServerError", "request failed"))
  /\ tx' = [tx EXCEPT ![r] = Abandoned(r)]
  /\ IF pc[r] \in HoldsConn THEN Release(r) ELSE UNCHANGED conns
  /\ UNCHANGED <<tables, locals>>

\* The process of instance i dies and is restarted with a new pool.
Crash(i) ==
  LET hit == {r \in Requests : at[r] = i /\ pc[r] \in InFlight} IN
  /\ hit # {}
  /\ pc' = [r \in Requests |-> IF r \in hit THEN "crashed" ELSE pc[r]]
  /\ tx' = [r \in Requests |-> IF r \in hit THEN Abandoned(r) ELSE tx[r]]
  /\ conns' = [conns EXCEPT ![i] = MaxConns]
  /\ UNCHANGED <<tables, locals, resp>>

\* The server ends a transaction whose client has given up: it rolls back,
\* at the deferred Rollback or when it notices the dead connection, unless a
\* COMMIT sent before arrives first.
Reap(r) ==
  /\ tx[r] # NULL /\ pc[r] \in {"done", "crashed"}
  /\ \/ UNCHANGED tables
     \/ tx[r].sent /\ Apply(r)
  /\ EndTx(r)
  /\ UNCHANGED <<pc, locals, resp, conns>>

-----------------------------------------------------------------------------
Arrive(r, i) == CreateAccountLink(r, i) \/ GetAccountLink(r, i)

\* The calls of request r that return without an error.
Serve(r) ==
  \/ FindByKey(r) \/ Begin(r) \/ Save(r) \/ TryInsert(r) \/ AddOutbox(r)
  \/ Commit(r) \/ Ack(r) \/ FindByKeyAgain(r) \/ FindReplayed(r) \/ GetByID(r)

Next ==
  \/ \E r \in Requests, i \in Instances : Arrive(r, i)
  \/ \E r \in Requests : Serve(r) \/ Fail(r) \/ Reap(r)
  \/ \E i \in Instances : Crash(i)

Spec == Init /\ [][Next]_vars

\* The database answers every call it can serve and ends every abandoned
\* transaction, and the runtime schedules every goroutine; nobody promises
\* arrivals, failures or crashes.
Fairness == \A r \in Requests : WF_vars(Serve(r)) /\ WF_vars(Reap(r))
FairSpec == Spec /\ Fairness
-----------------------------------------------------------------------------
(* Properties                                                               *)

Ids == Requests \cup {NULL}
Hashes == {RequestHash(c) : c \in Calls}
Link == {NewAccountLink(c) : c \in Calls}
Row == [request_hash : Hashes, account_link_id : Requests]
Event == [aggregate_id : Requests, payload : Link, created_at : Times,
          published_at : {NULL}]
GetCalls == [op : {"get"}, id : Requests \cup {BadID}]
Tx == [link : Link \cup {NULL}, rec : Row \cup {NULL}, event : Event \cup {NULL},
       sent : BOOLEAN]
Details == {"ok", "bad request", "conflict", "not found", "request failed",
            "unreadable key", "missing link"}
Statuses == {"OK", "Created", "BadRequest", "NotFound", "Conflict",
             "InternalServerError"}
Response == [status : Statuses, link : Ids, detail : Details]

\* NULL is none of the values it stands in for.
ASSUME NullAssumption ==
  /\ NULL \notin Link \cup Row \cup Event \cup Tx \cup Response
  /\ NULL \notin Calls \cup GetCalls \cup Instances
  /\ NULL \notin [key : Keys \cup {NoKey}, hash : Hashes]

CreateOf(r, k) == pc[r] # "new" /\ call[r].op = "create" /\ Key(r) = k
Answered(r, status) == resp[r] # NULL /\ resp[r].status = status
Succeeded(r) == Answered(r, "OK") \/ Answered(r, "Created")

\* Every variable holds a value of its column, field or local; in particular no
\* pool ever lends or takes back more connections than it has.
TypeOK ==
  /\ account_links \in [Requests -> Link \cup {NULL}]
  /\ idempotency_keys \in [Keys -> Row \cup {NULL}]
  /\ outbox_events \in [Requests -> Event \cup {NULL}]
  /\ pc \in [Requests -> PCs]
  /\ call \in [Requests -> Calls \cup GetCalls \cup {NULL}]
  /\ at \in [Requests -> Instances \cup {NULL}]
  /\ tx \in [Requests -> Tx \cup {NULL}]
  /\ inserted \in [Requests -> BOOLEAN]
  /\ rec \in [Requests -> Row \cup {NULL}]
  /\ resp \in [Requests -> Response \cup {NULL}]
  /\ conns \in [Instances -> 0..MaxConns]

\* Idempotent create: whatever the interleaving of lookups, inserts, commits,
\* failures and restarts, all successful answers to POSTs that carry one
\* Idempotency-Key name one account link (hence at most one of them is a 201).
OneLinkPerKey ==
  \A k \in Keys, q, r \in Requests :
    CreateOf(q, k) /\ CreateOf(r, k) /\ Succeeded(q) /\ Succeeded(r)
      => resp[q].link = resp[r].link

\* A link named in any 200 or 201 is a committed row, and when a POST named it
\* its AccountLinkCreated event is a committed outbox row too: no answer rests
\* on a transaction that may still roll back, or on the link of a lost race.
AcknowledgedIsDurable ==
  \A r \in Requests : Succeeded(r) =>
    LET id == resp[r].link IN
      /\ account_links[id] # NULL
      /\ call[r].op = "create" => /\ outbox_events[id] # NULL
                                  /\ outbox_events[id].aggregate_id = id
                                  /\ outbox_events[id].payload = account_links[id]

\* Retries of one key, however they race, put at most one event in the outbox.
OneEventPerKey ==
  \A k \in Keys, q, r \in Requests :
    CreateOf(q, k) /\ CreateOf(r, k) /\ outbox_events[q] # NULL
      /\ outbox_events[r] # NULL => q = r

\* The only links committed without an event are those of requests that lost
\* the insert of their key: the key is bound to another link, which has one.
OrphanOnlyFromLostRace ==
  \A r \in Requests : account_links[r] # NULL /\ outbox_events[r] = NULL =>
    /\ Key(r) # NoKey
    /\ idempotency_keys[Key(r)] # NULL
    /\ idempotency_keys[Key(r)].account_link_id # r

\* A 409 is never given to a faithful retry: the key is bound, and the link it
\* is bound to was created from a different trimmed payload.
ConflictMeansOtherPayload ==
  \A r \in Requests : Answered(r, "Conflict") =>
    /\ idempotency_keys[Key(r)] # NULL
    /\ account_links[idempotency_keys[Key(r)].account_link_id]
         # NewAccountLink(call[r])

\* The two "cannot happen" errors of Create and replay (a key that was taken
\* but cannot be read, a record whose link is missing) never happen.
NoImpossibleError ==
  \A r \in Requests : resp[r] # NULL =>
    resp[r].detail \notin {"unreadable key", "missing link"}

Holders(i) == {r \in Requests : at[r] = i /\ pc[r] \in HoldsConn}

\* Every path of Create, error and crash paths included, gives back the
\* connection that Begin took, and takes no second one.
PoolConserved ==
  \A i \in Instances : conns[i] + Cardinality(Holders(i)) = MaxConns

\* README "Behavior parity": "Outbox write on create".  Every committed account
\* link has its outbox event.  Create breaks it: the loser of an insert race
\* commits its link without one.
EveryLinkHasEvent ==
  \A r \in Requests : account_links[r] # NULL => outbox_events[r] # NULL

\* README "Behavior parity": 409 when a key is reused with a different payload.
\* A replay is answered only to the payload the link was created from.  The
\* request hash breaks it: "a|b" + "|" + "c" is "a" + "|" + "b|c".
ReplayMeansSamePayload ==
  \A r \in Requests : Answered(r, "OK") /\ call[r].op = "create" =>
    account_links[resp[r].link] = NewAccountLink(call[r])

\* No request waits forever, neither for a connection of its pool nor for the
\* transaction that holds its key: each one is answered unless its process dies.
EventuallyAnswered ==
  \A r \in Requests : pc[r] # "new" ~> pc[r] \in {"done", "crashed"}
-----------------------------------------------------------------------------
(* The inductive invariant                                                  *)

Keyed(r) == Key(r) # NoKey
Unsaved == {"find_key", "begin"} \cup InTx
Creating == Unsaved \cup {"ack", "refind_key", "find_link"}

\* What the handler has established for the service.
CallInv ==
  \A r \in Requests :
    /\ pc[r] = "new" => call[r] = NULL
    /\ pc[r] # "new" => call[r] \in Calls \cup GetCalls /\ at[r] \in Instances
    /\ pc[r] \in Creating => call[r] \in Calls /\ ~ BadRequest(call[r])
    /\ pc[r] \in {"find_key", "try_insert", "refind_key", "find_link"} => Keyed(r)
    /\ pc[r] = "get" => call[r] \in GetCalls /\ call[r].id \in Requests
    /\ resp[r] # NULL => pc[r] = "done"

\* What an open transaction holds, statement by statement.
TxOK(r) ==
  /\ pc[r] \in InTx => tx[r] # NULL /\ ~ tx[r].sent
  /\ tx[r] # NULL => /\ pc[r] \in InTx \cup {"done", "crashed"}
                     /\ call[r] \in Calls /\ ~ BadRequest(call[r])
                     /\ account_links[r] = NULL
  /\ pc[r] = "save" => tx[r].rec = NULL /\ tx[r].event = NULL
  /\ pc[r] \in {"try_insert", "add_outbox"} =>
       /\ tx[r].link = NewAccountLink(call[r])
       /\ tx[r].event = NULL
  /\ pc[r] = "try_insert" => tx[r].rec = NULL
  /\ pc[r] = "add_outbox" => inserted[r] /\ (Keyed(r) <=> tx[r].rec # NULL)
  /\ pc[r] = "commit" => (inserted[r] <=> tx[r].event # NULL)
  /\ tx[r] # NULL /\ tx[r].rec # NULL => Keyed(r) /\ tx[r].rec = IdempotencyRecord(r)
  /\ tx[r] # NULL /\ (pc[r] = "commit" \/ tx[r].sent) =>
       /\ tx[r].link = NewAccountLink(call[r])
       /\ tx[r].event # NULL => /\ tx[r].event.aggregate_id = r
                                /\ tx[r].event.payload = NewAccountLink(call[r])
                                /\ Keyed(r) <=> tx[r].rec # NULL
       /\ tx[r].event = NULL => /\ tx[r].rec = NULL /\ Keyed(r)
                                /\ idempotency_keys[Key(r)] # NULL

TxInv == \A r \in Requests : TxOK(r)

\* A key is pending in one transaction only, and not while it is bound.
PendingInv ==
  \A r \in Requests : tx[r] # NULL /\ tx[r].rec # NULL =>
    idempotency_keys[Key(r)] = NULL /\ ~ KeyPending(r)

\* A bound key names the link of a create with that key and hash, with its event.
KeyInv ==
  \A k \in Keys : idempotency_keys[k] # NULL =>
    LET id == idempotency_keys[k].account_link_id IN
      /\ outbox_events[id] # NULL
      /\ Key(id) = k
      /\ idempotency_keys[k].request_hash = RequestHash(call[id])

\* A committed link is its create's; an event comes with its link and, if the
\* create is keyed, with its key; a keyed link without one lost its key.
LinkInv ==
  \A r \in Requests :
    /\ account_links[r] # NULL =>
         /\ pc[r] \notin Unsaved \cup {"new", "get"}
         /\ call[r] \in Calls
         /\ account_links[r] = NewAccountLink(call[r])
         /\ outbox_events[r] = NULL => Keyed(r) /\ idempotency_keys[Key(r)] # NULL
    /\ outbox_events[r] # NULL =>
         /\ account_links[r] # NULL
         /\ outbox_events[r].aggregate_id = r
         /\ outbox_events[r].payload = account_links[r]
         /\ Keyed(r) => /\ idempotency_keys[Key(r)] # NULL
                        /\ idempotency_keys[Key(r)].account_link_id = r

\* Where Create stands after its commit.
ReplayInv ==
  \A r \in Requests :
    /\ pc[r] = "ack" => account_links[r] # NULL
    /\ pc[r] = "ack" => (outbox_events[r] # NULL <=> inserted[r])
    /\ pc[r] \in {"refind_key", "find_link"} =>
         outbox_events[r] = NULL /\ idempotency_keys[Key(r)] # NULL
    /\ pc[r] = "find_link" =>
         /\ rec[r] = idempotency_keys[Key(r)]
         /\ rec[r].request_hash = RequestHash(call[r])

\* What an answer a to r rests on.
AnswerOK(r, a) ==
  /\ a.status = "Created" => /\ call[r] \in Calls
                       /\ a.link = r
                       /\ outbox_events[r] # NULL
  /\ a.status = "OK" => /\ a.link \in Requests
                       /\ account_links[a.link] # NULL
  /\ a.status = "OK" /\ call[r] \in Calls =>
       /\ Keyed(r)
       /\ idempotency_keys[Key(r)] # NULL
       /\ a.link = idempotency_keys[Key(r)].account_link_id
  /\ a.status = "Conflict" =>
       /\ call[r] \in Calls /\ Keyed(r)
       /\ idempotency_keys[Key(r)] # NULL
       /\ idempotency_keys[Key(r)].request_hash # RequestHash(call[r])
  /\ a.detail \notin {"unreadable key", "missing link"}

RespInv == \A r \in Requests : resp[r] # NULL => AnswerOK(r, resp[r])

\* A connection is out for every request between its Begin and its Ack.
PoolInv ==
  \A i \in Instances : /\ IsFiniteSet(Holders(i))
                       /\ conns[i] + Cardinality(Holders(i)) = MaxConns

\* Every committed row, pending write, local and answer agrees with the others;
\* each step of Create, its failures included, keeps it that way.
Inv == /\ TypeOK /\ CallInv /\ TxInv /\ PendingInv /\ KeyInv /\ LinkInv
       /\ ReplayInv /\ RespInv /\ PoolInv
-----------------------------------------------------------------------------
(* Refinement of IdempotentCreate.  Requests the handler refuses, and GETs, *)
(* are not seen by the promise; a key is bound when its row is committed, a *)
(* link announced when its event is.                                        *)

Seen(r) == pc[r] # "new" /\ call[r].op = "create" /\ ~ BadRequest(call[r])

askedBar ==
  [r \in Requests |-> IF Seen(r) THEN [key |-> Key(r), hash |-> RequestHash(call[r])]
                      ELSE NULL]
announcedBar == {r \in Requests : outbox_events[r] # NULL}
KindOf(status) == CASE status = "Created" -> "created" [] status = "OK" -> "replayed"
                    [] status = "Conflict" -> "conflict" [] OTHER -> "failed"
answerBar ==
  [r \in Requests |-> IF Seen(r) /\ resp[r] # NULL
                      THEN [kind |-> KindOf(resp[r].status), link |-> resp[r].link]
                      ELSE NULL]

Promise == INSTANCE IdempotentCreate
             WITH asked <- askedBar, bound <- idempotency_keys,
                  announced <- announcedBar, answer <- answerBar

\* The handlers, the transactions and the stores together implement
\* IdempotentCreate, through every race, error and crash: COMMIT is the one
\* step at which a create takes effect, and each 201, 200 and 409 is true of
\* the committed keys when it is sent.
ImplementsPromise == Promise!Spec
=============================================================================
