# Verification of the account link platform

TLA+ models of `accountlink-platform-go`, a Go service that stores account links
in PostgreSQL and announces each one through a transactional outbox. The modules
follow the code under `src/`; `PROJECT.json` maps each definition to its lines.

## 1. The system

### Components

| Component | State it keeps | Operations | Hard part |
|---|---|---|---|
| HTTP handlers (`internal/api`) | none | `CreateAccountLink`, `GetAccountLink`, `Health` | what is trimmed, refused and answered |
| Service (`internal/app/accountlink_service.go`) | locals of each request | `Create`, `createNonIdempotent`, `replay`, `GetByID` | check-then-act on the key, one transaction with three writes, commits of unknown outcome |
| Stores (`internal/persistence`) | `account_links`, `idempotency_keys`, `outbox_events`; open transactions; connection pool | `FindByKey`, `TryInsert`, `Save`, `FindByID`, `Add`, `FindUnpublishedForUpdateSkipLocked`, `MarkPublished`, `Begin`, `Commit`, `Rollback` | waits on uncommitted keys, row locks, pool exhaustion |
| Domain (`internal/domain`) | none | `NewAccountLink`, `Validate` | |
| Outbox processor (`internal/app/outbox_processor.go`) | the batch of the current tick | `Start`, `PublishOnce` | several instances on one table, publishing outside the transaction |
| Publishers (`internal/events`) | none | `Publish` to the log or to SNS | an error does not mean that the message was refused |
| Migrations (`internal/db`) | `flyway_schema_history`, an advisory lock | `Migrate`, `listMigrations`, `compareVersionParts` | a session lock taken through a pool; several instances starting at once; versions known by text and ordered by number |
| Server process (`cmd/server`, `internal/server`, `internal/middleware`) | signal context, listener, goroutines, exit status | `run`, `migrateWithRetry`, `buildPublisher`, `Run`, panic recovery | start-up deadline, shutdown order, a pool that closes under running handlers |
| Retrying HTTP client (`internal/httpclient`) | attempts and responses of a call | `RoundTrip` | which body is closed, which is returned |
| Playground (`cmd/playground`) | channels of a toy consumer | produce, handle, close | shutdown with a message in hand |
| Configuration, collections, infrastructure | | | no state of interest |

A POST goes handler -> service -> stores; `Create` writes link, key and event in
one transaction. The processors of all instances read what it committed and
publish it. Requests and processors meet only in the tables, in the locks of
open transactions and in the pool of their instance.

### What makes it correct

* **Create.** All successful answers under one `Idempotency-Key` name one link
  and put one event in the outbox, through races, errors, crashes and retries;
  what was acknowledged is committed; a faithful retry never gets a 409; every
  request is answered.
* **Outbox.** A row is marked published only after the topic took its message; a
  row is in at most one live batch; a message is sent twice only when something
  failed; a published row never changes; every event is published in the end.
* **Migrations.** An instance serves only on the schema of its own files; versions are
  applied in order, twice only when the lock was lost; every instance that can
  start does.
* **Retrying client.** At most `retryMax + 1` attempts; the caller gets the last answer;
  every response that is not returned has its body closed.
* **Lifecycle.** The process ends when told to, whatever clients and handlers do; it
  never ends under an open transaction; exit status 0 means that all was answered.
* **Composition.** Requests and processor see of each other only what their own models
  allow; only committed links are announced, every acknowledged one is; neither
  starves the other of connections.
* **Playground.** Every message read is finished in order, given up after a signal, or in
  hand; the consumer stops.

`PROJECT.json` lists the hazards, each at its line.

## 2. The modules

* `IdempotentCreate` is the promise of POST alone: `Create` makes a link and binds
  the key in one step, and each answer is true of the bindings when it is given.
* `AccountLinkService` is the code. An action is one call that leaves the process
  (a statement, BEGIN, COMMIT) with the code after it. `pc` says which call a
  request is about to make. The path of a keyed create is `find_key`, `begin`,
  `save`, `try_insert`, `add_outbox`, `commit`, `ack`, and after a lost insert
  `refind_key` and `find_link`; a create without a key starts at `begin` and goes
  from `save` to `add_outbox`. `tx` holds the uncommitted writes. COMMIT is two
  steps, its effect at the server (`Commit`) and its return (`Ack`), so that a
  failure between them is a commit of unknown outcome. `Fail` is any pending call
  returning an error; `Crash` kills an instance and all its requests. Both leave
  the transaction open at the server, where `Reap` ends it by rollback or, if the
  COMMIT had been sent, by a late commit.
* `OutboxProcessor` is `Start` and `PublishOnce` for any number of instances: `find`,
  `publish`, `mark` (repeated over the batch), `commit`, `ack`. The transaction
  at the server (`tx`: row locks and pending marks) is separate from the
  goroutine: `LoseSession` ends it under a processor that goes on publishing,
  and `Fail` may leave one behind (`ghosts`) whose locks last until `Reap`. A failed
  Publish may have been accepted. `Add` stands for the commit of a create.
* `Migrate` is `Migrate` and `migrateWithRetry` for instances that start together, each
  with the files of its release. `pc` is the call about to be made: `lock`, `ensure`,
  `load`, `loop` (which skips a file, finds a mismatch or begins), `run`, `record`,
  `insert`, `commit`, and after an error `rollback`, `abort` (unlock), `retry`. The lock
  is held by a session. `SessionFails` and `SessionReplaced` take the session away from
  an instance that gets an error, or that goes on unknowing with a new one; the old
  one is gone or lingers (`ghosts`) with its lock, its transaction and perhaps its
  COMMIT until `Reap`. A cancelled call is such a loss. A lingering session is taken
  to do nothing more than finish a COMMIT or get the lock it waits for.
  `RunWaits` and `RankBlocked` are the waits of two instances that both migrate.
* `MigrationVersions` is what `Migrate` knows of versions. A version is a text; `Tokens`
  gives its parts. `Lists` is the verdict of `listMigrations` (every name parses, no text
  twice), `Less` is `compareVersionParts`, and `First` are the files `sort.Slice` may put
  first: 2 and 2.0 are two texts and one number, so that either may be. `Number` is
  the order by definition, which `AppliedInOrder` compares with.
* `ServerLifecycle` is one process from `config.Load` to its exit status. `main` is where
  `run` and `Server.Run` are; beside it go the listener, a goroutine per request and
  the processor, and any of them may hold a connection. The deferred calls are steps
  of their own (`PoolCloses`, `PoolClosed`, `Stop`). A signal may come at any moment:
  before `NotifyContext` and after `stop` it kills. `net/http` and `pgxpool` are external.
* `Platform` composes `AccountLinkService` and one `OutboxProcessor` per instance over one
  `outbox_events` and one pool per instance; the commit of a create takes the place of
  the processor's action `Add`, and a crash ends both. `ImplementsOutbox` and
  `ImplementsService` map the whole back to each part.
* `FakeConsumer` is the playground: a producer, an unbuffered channel, a reader.
* `RetryTransport` is one call of `RoundTrip`: one action per way an attempt can end,
  and `Return`. `open` are the response bodies nobody has closed; `unread` and `cut`
  follow the request body, which clones share.
* `MCAccountLinkService`, `MCOutboxProcessor`, `MCMigrate`, `MCPlatform` hold the values of
  constants for TLC; the other modules are run as they are.
* `AccountLinkServiceProofs`, `IdempotentCreateProofs` (the refinement of the promise),
  `OutboxProcessorProofs`, `PlatformProofs`, `RetryTransportProofs`, `MigrateProofs`,
  `ServerLifecycleProofs`, `FakeConsumerProofs` hold the theorems.

Abstractions. The UUIDs minted while serving a request are the request's identity.
A text is the sequence of its `|`-separated segments, which keeps what the request
hash does to it; white space around a string is a flag that trimming drops.
SHA-256 is injective. An outbox row is its two timestamps. PostgreSQL is modelled
from the SQL used: READ COMMITTED, an INSERT that waits while another transaction
holds the same key, `FOR UPDATE SKIP LOCKED`. `ORDER BY created_at` leaves ties open.
A migration file is its version text and its CRC-32; its statements are one step. A
response is its attempt, class and body. In `ServerLifecycle` a request is what it
holds: a body its client still sends, a connection, or an answer to give.

## 3. The runs

| Run | Question | Bounds |
|---|---|---|
| `service_safety` | the eight invariants of create and get; does the code implement `IdempotentCreate` | 3 requests, 2 instances, 2 connections each, one key |
| `service_orphan` | does every link have its event (it does not) | 2 requests |
| `service_hash` | does a replay mean the same payload (it does not) | 2 requests |
| `outbox_safety` | four invariants and an action property | 2 processors, 3 events, batch of 2, 2 failures |
| `outbox_liveness` | is every event published | 2 processors, 2 events, batch of 1, 2 failures |
| `retry_safety` | five invariants of a call | `retryMax` 3, the default |
| `retry_bodies` | is every body returned or closed (it is not) | as above |
| `retry_replay` | does every attempt send the whole body (it does not) | as above |
| `migrate` | four invariants, the order of files, does every instance that can start do so | 2 instances, 12 pairs of 5 releases, 1 fault |
| `lifecycle` | graceful exit, no transaction cut, does the process end | 3 requests, 2 connections |
| `platform` | two invariants of the composition, both refinements, is every request answered and every acknowledged link announced | 2 requests, 1 instance, 1 connection, batch of 1, 1 fault |
| `consumer` | are all messages accounted for, does the consumer stop | 10 messages, as in the code |

Three requests are enough for a winner, a loser and a bystander or late retry on
one key; keys do not interact except through the pool, which the instances of
`service_safety` contend for. The calls include two payloads, a padded copy of one, a
blank key, and the bodies the handler refuses. Three events with batches of two leave
a row for the other processor; two failures allow a lost session followed by a crash.
The releases of `migrate` have versions of one and of two parts, two versions that are
one number, an edited file, a checksum above the column, a version twice and a
name that does not parse; every pair runs side by side, except two refused ones. One
fault is what two instances need to migrate at once; with two, the safety part
was checked as well and is proved for any number. Three requests on two connections
leave one waiting while the pool closes. The single connection of `platform` makes
requests and processor wait for each other, which is the point; its second request
is the retry, the conflict or the rival of the first. Symmetry is used in safety
runs only. Deadlock checking is off: when every request is answered, every instance
started, the call returned or the process ended, the system is at rest.

Fairness. Arrivals, signals, failures and crashes are never assumed.

* `outbox_liveness`: weak fairness of each processor (the ticker fires) and of `Reap`;
  failures are finite in number. A message the topic refuses for ever is outside
  that assumption: it stops every batch it is in (hazard at `outbox_processor.go:116`).
* `migrate`: weak fairness of each instance's calls and of `Reap`, strong fairness of
  `Lock`, because PostgreSQL serves the waiters of a lock in order; without it an
  instance that can never succeed and retries could pass a waiting one for ever. No
  deadline is assumed to expire.
* `lifecycle`: weak fairness of the main goroutine (its timer included), of the listener's
  send, and of those who hold a connection, because the database answers. No client
  is assumed to send its body, no handler to answer, no ticker to fire.
* `platform`: PostgreSQL answers what it can serve and ends the sessions of dead clients;
  strong fairness of requests and processor, because a pool serves those who wait for
  a connection in their order.
* `consumer`: timers fire and both goroutines run.

## 4. Findings

* `service_orphan`: two concurrent POSTs with one key both miss the lookup. The
  second insert waits, affects no row, and `Create` (line 152) still commits the
  link it had written. That link has no event and no key, and no client is told
  of it. The README of the repository says "Outbox write on create".
  `OrphanOnlyFromLostRace` shows that this is the only way to such a link.
* `service_hash`: the hash joins user and institution with `|`, which both may
  contain; a different payload is answered 200 with the first one's link instead
  of 409. `ConflictMeansOtherPayload` shows that the other direction is right.
* `retry_bodies`: a comment in `RoundTrip` says that each body is returned or closed;
  after a 503 and then a 200, or a transport error, the body of the 503 stays
  open. `AtMostOneLeft` bounds the damage to one body per call.
* `retry_replay`: `cloneRequest` accepts a request that has `GetBody` and never calls it,
  so a retry sends what the first attempt left of the shared body.

A remark on the playground: the comment at `main.go:107`, "Finish the message already
admitted to this process.", holds only without a signal. `handleMessage` gives the
message up when the context is done, as its own comment allows; `Accounted` says
exactly which messages that may hit. The producer may stay blocked in its send
(`main.go:48`) for as long as the process lives; `EventuallyStops` shows that the reader
does not depend on it.

## 5. The proofs

All are for arbitrary constants under the assumptions named in the modules.

**Service** (`ConnsAssumption`: a pool has a connection; `CallsAssumption`: the shape of
a call; `NullAssumption`: NULL is no value). The properties of answers are not inductive:
they relate an answer to rows that were committed by another request, or to
writes still pending when a transaction was abandoned. `Inv` adds what `Create`
knows at each call (`CallInv`, `ReplayInv`), what an open transaction contains, its
client alive or not (`TxInv`), that a key is pending in one transaction only and
not while it is bound (`PendingInv`, where the wait of `TryInsert` is used), that a
bound key has its link and event (`KeyInv`, `LinkInv`), what each answer rests on
(`RespInv`), and the balance of the pools with finiteness (`PoolInv`). One lemma per
action. From `Inv` follow `TypeOK`, `OneLinkPerKey`, `AcknowledgedIsDurable`,
`OneEventPerKey`, `OrphanOnlyFromLostRace`, `ConflictMeansOtherPayload`,
`NoImpossibleError` and `PoolConserved`. `NothingTakenBack` says of every step that it changes
no committed row and no answer: a COMMIT, late or not, writes only rows that are not there.

**Promise of the service.** `PromiseKept` is `Spec => ImplementsPromise`. What the promise sees
of a request is computed from `pc`, `call`, `resp` and the committed rows, so most steps are
invisible: lookups, statements in a transaction, crashes and rollbacks. Accepting a
create is `Ask`. COMMIT is `Create` when the transaction has an event, and nothing
when its key was lost. A late COMMIT, from `Reap`, is `Create` too, which is why the
promise allows it after a failure: `TxInv` gives that it was a create the handler
accepted and whose link is not there yet, `PendingInv` that its key is still free, and
with `RespInv` that its answer, if it has one, can only be an error. Each of
201, 200, 409 and 500 is the answer action of that name, from `ReplayInv` and `KeyInv`.

**Outbox** (`OutboxAssumption`: finitely many events and processors, times and bounds
are naturals; `NullAssumption`). `Inv` says that the open transactions, abandoned
ones included, lock disjoint sets of unpublished rows and mark only what they
have locked and was delivered (`ClaimInv`), and where each processor stands
(`ProcInv`). It gives `TypeOK`, `PublishedWasDelivered`, `ExclusiveClaim` and the action
property `PublishedIsFinal`. `DuplicatesOnlyFromFaults` needs an account of debts,
`DuplicateInv`: messages sent, plus processors about to send for a row they have
lost, never exceed failures plus one if the event is settled; it is inductive
relative to `Inv`.

**Platform** (the assumptions of both components; `PlatformAssumption`, `NullRowAssumption`).
`PlatformProofs` instantiates the proofs of both components under the refinement
mappings of `Platform` and shows that each step of the platform is a step of each one,
or none. `PlatformInv` is the two invariants under these mappings together with what
neither component can say: the shared rows keep all their columns and the pool stays
a natural number (`SharedInv`), and a processor's batch and the topic name committed
rows only (`HeardInv`). The last is needed because a processor that has lost its
session goes on publishing, and nothing but its memory then says that the rows
exist. The mappings are used both ways: a request gets a connection of the pool it
imagines because that pool is never smaller, and the processor's COMMIT is
invisible to requests because it writes `published_at` alone, on rows that exist.
Proved are `ImplementsService`, `ImplementsOutbox`, `AnnouncedIsCommitted`,
`SharedPoolConserved`, and what then carries over from the components: the platform
implements `IdempotentCreate` (`PlatformPromise`), and loses no event and sends at most
one more message per failure (`PlatformDelivery`), and of a committed event only
`published_at` ever changes, once (`PlatformTakesNothingBack`). The components' assumptions on
constants are discharged from those of `Platform`, never taken from the instance.

**Retrying client** (`RetryAssumption`: the limit is a natural number, NULL no response).
`Inv` says which bodies are open after each kind of error (`OpenInv`), which attempt
the remembered response is of (`LastInv`) and what has been returned (`ResultInv`);
all five invariants of the run follow for every limit.

**Migrations** (`TokensAssumption`, `MigrateAssumption`: releases are sets of files, the
sessions have names apart from each other; `NullAssumption`). `Inv` says what `Migrate`
knows at each call: what it has passed and what it has read is still recorded
(`CallInv`), and a COMMIT without a client is one that its client was entitled to
(`GhostInv`). `TwiceOnlyAfterLoss` needs two accounts. Those that migrate without the
lock, and the COMMITs under way without a client, are never more than the sessions
lost (`LossInv`). For each version, its rows, the instances that still believe they
have to apply it and the lingering COMMITs of it are never more than one plus the
sessions lost (`TwiceInv`): an instance that loads the history while it holds the lock
adds itself only if the version is not recorded, and then only outlaws can be
before it. `AppliedInOrder` needs that `Less` is the order of `Number` on parsed
versions, and that a file is never visited before a lower one of its release.

**Lifecycle** (`LifecycleAssumption`: a pool has a connection). `Inv` adds to the types that
main is alone before `Spawn` (`AloneInv`), the balance of the pool (`PoolInv`), how far
main has come on its way out (`LeaveInv`: past `PoolClosed` every connection is back
and none can be taken) and what each way to end says (`ExitInv`).

**Playground** (`NAssumption`: at least one message). `Inv` says which message is in hand and
that none is finished after another was given up.

Only model-checked: liveness (`EventuallyAnswered`, `EventuallyAnnounced`,
`EventuallyPublished`, `EventuallyStarted`, `EventuallyExits`, `EventuallyStops`), which is
out of the prover's reach, and the properties of the violation runs, which are false.
The refinements are proved for the safety part of the specifications; no module is
claimed to implement the fairness of another.

## 6. Not modelled

* Parsing of the environment and the DSN (`internal/config`), log lines and the access
  log, `Health`, the collection helper: no state, or none that a property could be about.
  `ServerLifecycle` takes from the configuration what decides the course of the process.
* `splitSQLStatements`: the statements of a file are one step of a transaction, so where
  they are cut does not show.
* Message attributes and the JSON of an event; the waits between the attempts of the
  HTTP client.
* A poll batch of zero, which makes every tick empty, is allowed by the safety proofs
  and excluded from the liveness runs; an event that is refused for ever is a hazard without a property,
  for no document promises progress past it.
* CDK and developer scripts: declarative, no run-time state of the program.

## 7. What is left

Every invariant, action property and refinement the passing runs check is proved; liveness
is left to TLC. What a first proof of liveness would need, outside the
reach of the prover, is a measure for each chain of calls; the safety part of it
(that no request waits for a connection or a key nobody holds) could be stated as
invariants of `AccountLinkService` and proved.
