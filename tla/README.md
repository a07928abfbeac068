# TLA+ verification of the Hojo memory engine

The memory engine is a Python service (FastAPI, `src/backend/src/memory_engine`)
that keeps what language-model applications learn about a person. It stores
field definitions in MySQL, the memory itself in MongoDB, vectors in Qdrant,
caches and streams in Redis, and it talks to Kafka, to Temporal and to language
models. Almost every operation is a sequence of calls to two or more of these
stores, without a transaction around them. That is what this project models:
what the requests of one person or one tenant can do to each other between two
calls, and what is left behind when one of the calls fails or the process ends.

Paths below are relative to `src/backend/src/memory_engine`, and `client.py` is
that of `src/sdk/python/src/memory_engine_sdk`.

## 1. The system

### Components

| | Component | State it keeps | Operations | Module | Status |
|---|---|---|---|---|---|
| A | Claim engine V2: `services/memory_claim.py`, `integrations/memory_claim_store.py` | Mongo `memory_claim`, `memory_claim_head`, `memory_source_event`; Qdrant points of claims | ingest, revoke, resolve a conflict | `MemoryClaim` | modelled |
| B | Summary circuit breaker: `services/memory_data.py:92-270` | module globals: state, failures, cooldown, half-open slot, ping task | one summary request, ping loop | `SummaryBreaker` | modelled |
| C | V1 memory data: `services/memory_data.py`, `services/user_memory_list.py`, `integrations/mongo_store.py`, `integrations/qdrant_index_queue.py` | Mongo `memory_data`; the in-process index queue; Qdrant points | create (direct or through Temporal), update, append, merge, delete, delete-all, mark-used, item edit and delete, index worker | `MemoryData` | modelled |
| D | Schema registry: `services/memory_field.py` | MySQL `memory_field` (versioned, soft-deleted rows), MySQL named lock, the field cache | create, update, upsert, delete of a field definition | `SchemaRegistry` | modelled |
| E | Schema changelog: `integrations/schema_sync.py`, `consumers/*`, `services/schema_changelog.py` | Kafka topics and offsets, Redis cache, stream and dedup marks | publish, consume, Canal forward, poll, follow | `SchemaChangelog` | modelled |
| F | Governance and dreaming: `services/governance*.py`, `temporal/activities/dreaming_activities.py` | MySQL proposals, runs, locks, audit | propose, approve, reject, apply, lock, run | `Governance` | modelled, but for the status row of a run |
| G | Billing: `services/billing_service.py`, `services/billing_quota.py`, `consumers/billing_events_consumer.py` | MySQL usage events, quotas, invoices | emit, consume quota, process, invoice | `Billing` | partly: quotas exist before the month begins |
| H | AML adapter: `services/aml_adapter.py`, `integrations/aml_store.py` | Mongo add records and units, Qdrant points | add, search, clear | `AmlAdapter` | modelled |
| I | V2 retrieval, bundle and call: `services/memory_v2_retrieve.py`, `services/memory_policy.py` | Mongo bundles | retrieve, call | `MemoryBundle` | modelled |
| J | Rules: `services/rules.py` | MySQL rows of parse, merge, retrieve and call rules | create, update, soft delete, lookup | `RuleStore` | modelled |
| K | Capabilities: `services/capability_registry.py` | MySQL rows, a Redis entry | register, heartbeat, delete, lookup | `CapabilityStore` | modelled |
| L | Accounts and keys: `services/onboarding_service.py`, `services/admin_service.py`, `api/deps.py` | MySQL `tenant`, `app_user`, `api_key` | apply, link, bootstrap, further keys, create and delete users, key lookup | `Onboarding` | partly: no name changes, no end-user tokens |
| M | Requests that ask a model: `services/memory_retrieve.py`, `data_search.py`, `memory_candidate.py`, `memory_parse.py` | none | get, search, retrieve, call; extract and compare candidates; parse | `MemoryAsk` | modelled |
| N | Python SDK: `client.py`, `changelog.py` | two process-wide caches | getOrCreate, get, list, merge rule, watcher | `SdkCatalog` | partly: class `Schema` |
| O | Temporal workflows: `temporal/` | the workflow engine's | retries and timeouts of the activities | in C, D, F | |
| P | DSL, listing and export, document loading, e-mail, end-user tokens, gateways, configuration, Java SDK, dashboard | none | pure computation, reads, forwarding | | not modelled |

### How they interact

- HTTP routes call the services directly. One process serves many requests in
  one event loop: a request gives up control at each `await` and nowhere else.
- A `data_create` of V1 can go through Temporal (`workflow_launch.py`,
  `data_write_workflow.py`): the same service code then runs in another process
  and is retried up to five times.
- V1 writes hand an index task to a bounded queue in the process; one worker
  applies the tasks to Qdrant. The claim engine writes to Qdrant itself and
  swallows its errors. Both use the same collection, as does the AML adapter.
- Retrieval (V1, V2 and AML) reads vectors first and then re-reads the rows, claims
  or units it hit in Mongo, so that a stale vector costs recall or precision but
  must never show a value that is gone.
- A V1 write also asks the claim engine to ingest (dual write): an ordinary
  ingest request of component A.
- Registry changes (D) are announced over Kafka by the API or by Canal (E); caches
  are refreshed or dropped by the consumers, and SDK processes (N) poll what the
  consumers append to a Redis stream. Governance (F) changes the registry and the
  memory data through D and C. Every completion of a model is reported to billing (G).
- Rules (J) are bound to the id of a memory field, which an update of the field (D)
  replaces, and name capabilities (K).

### What is hard

- *Read, await, write.* Nearly every update reads a row, awaits, and writes a
  document made from what it read: `upsert_memory_data`, `MERGE`, every decision of
  the claim engine, the review, the quota check, the proposal state machine, a
  heartbeat. No operation uses a version or a compare-and-set; unique indexes are the
  only guards.
- *Snapshots.* MySQL runs at REPEATABLE READ: what a request checked may be older than
  what its write meets, also when it holds a named lock.
- *Several writes, one request.* Demote, number, store, mark, index in the claim
  engine; row and vector in V1; reserve, store, index, complete in AML; registry, cache,
  event in D and E; apply and audit in F. A crash or an error between two of them is not
  rolled back.
- *Several reads, one answer.* A V2 retrieval reads claims at up to seven awaits, an AML
  search at three, a request that asks a model reads before and answers after it.
- *Retries that are not idempotent.* Temporal retries `data_write`, `schema_crud` and
  the dreaming activities; AML clients repeat adds; consumers get messages again.
- *Two stores, one truth.* Qdrant, Redis and the SDK follow Mongo and MySQL without a
  protocol: full queues drop tasks, errors are logged, a restart forgets.
- *Shared state in the process.* The circuit breaker's globals, the queue, the SDK's
  caches under threads.
- *Liveness.* The breaker must leave its open state although no request comes.

### What makes each component correct

- A: one current claim per identity; revisions and lineage that history can be
  sorted by; a conflicting claim stays out of retrieval until reviewed; a revoked
  one is not served; no history is rewritten; nothing served is invisible to
  vector recall because of the order of two requests.
- B: one real request while half-open; the slot neither leaks nor is freed under
  a running probe; the open state always ends.
- C: one attempt at a write contributes what it stores at most once (a Temporal retry of an APPEND is a new attempt and may
  store its input again); what was deleted does not come back but through a write that was under way; an append that nothing overlapped loses nothing; once the
  queue has drained the index agrees with the rows wherever the code ever tried to
  make it agree.
- D, E: at most the newest version of a name is active; versions are never reused
  or skipped; no update is lost; a cache never decides what is found; a change
  reaches the stream although consumers crash, and a subscriber gets it once.
- F: nothing is applied that nobody approved; a proposal is applied once and leaves its
  audit row; a decision stands; what is meant to be applied automatically is applied.
- G: no usage is counted twice; a month has one invoice.
- H: an acknowledged add is stored whole; a search serves what is there.
- I: a bundle contains what its policy admits, and a call nothing that has gone since.
- J, K: one active rule or capability, and it is the one that is served.
- L: a key opens the account it was made for; an account has one user.
- M: what is answered is grounded in memory, and what was spent is billed.
- N: the caches follow the server; the callers that return from getOrCreate hold the one active field, and one that
  raises because it lost a race finds the field with its next call.

The full list of hazards, each at its line with the properties that cover it,
is in `PROJECT.json`.

## 2. Modules

| Module | What it is |
|---|---|
| `ClaimFacts` | pure part of the claim engine: fact authority, fact time, when a statement completes, replaces or contradicts another |
| `MemoryClaim`, `SummaryBreaker`, `MemoryData`, `SchemaRegistry`, `SchemaChangelog`, `Governance`, `Billing`, `AmlAdapter`, `MemoryBundle`, `RuleStore`, `CapabilityStore`, `Onboarding`, `MemoryAsk`, `SdkCatalog` | components A to N |
| `ClaimLedger` | abstract specification of A: atomic receive, withdraw and accept on a ledger of claims |
| `VersionedField` | abstract specification of D: an atomic register of versions |
| `ClaimSerial` | A with one request at a time, and the mapping under which it implements `ClaimLedger` |
| `Services` | F, G, H, I, L and M beside each other |
| `Registries` | D, E, J, K and N beside each other |
| `MCMemoryClaim`, `MCMemoryData`, `MCServices`, `MCRegistries` | TLC instances of A, of C, and of the two sums |
| `MemoryClaimProofs`, `MemoryClaimCurrentProofs`, `SummaryBreakerProofs`, `MemoryDataProofs`, `SchemaRegistryProofs`, `GovernanceProofs`, `ServicesProofs`, `RegistriesProofs` | theorems |

`Services` and `Registries` are disjoint sums. Which component runs is chosen in the initial
state (`part`); every variable and constant of a component has a name of its own there, given to it by
`INSTANCE ... WITH` where two components use the same one; a step is one of the component that runs, and
leaves the others alone, whose variables are `None`. (`Governance` and `SchemaRegistry` are extended
instead and always have a state; they move when it is their turn.) Components of one sum
share no store, so that running one of them from the start reaches every state that it would reach beside
the others. The sums have properties that say of the component that runs what its own module
says of it; these are what the runs check and what the theorems state. In the `MC` modules
the model values `a`, `b` and `c` stand for whatever is interchangeable in the component that
runs, which keeps one symmetry group for all.

An operator whose comment begins with "Mutant of" is a plausible bug of the
definition after it. Nothing in the specification uses it; `PROJECT.json` pairs
it with the property that would catch it. Variables whose comment begins with "history"
are read by properties only.

### MemoryClaim and ClaimFacts

The state is the collection `claims` (one document per claim id), the revision
counter `head`, the saved source events, the Qdrant point of each claim, and the
locals of every request: its program counter `pc`, the document it builds, the
decision it took, the claim it read (`prev`), its target. Claims of different
identities never meet in any query, so the module has one identity. A request is
a chain of actions, one per Mongo or Qdrant call:

| Action | Code |
|---|---|
| `IngestStart` | `save_source_event`, validation, the confidence policy |
| `IngestRead` | `get_latest_claim`, then the decision taken from it, and the document prepared for it |
| `IngestConfirm` | `confirm_claim` (`$addToSet`, `$max`, by id) |
| `InsertDemote`, `InsertAllocate`, `InsertStore` | the three awaits of `insert_claim`: `update_many`, `$inc` of the head, `insert_one` under the unique partial index |
| `IngestMark`, `IngestUnindex`, `IngestIndex` | mark the old claim superseded by id, hide its point, write the new point |
| `RevokeStart` .. `RevokeUnindex` | `revoke_claim` |
| `ReviewStart` .. `ReviewIndex` | `resolve_conflict` |
| `Crash` | a request that is cut off anywhere: an exception, a cancelled client, a killed worker |

A value is a set of key-datum pairs, enough to tell "equal", "completes" and
"contradicts" apart; confidences and times are small numbers, time 0 is "no
usable stamp". `qdrant = "flaky"` lets each index write be lost.

`ClaimLedger` says what a caller who sends one request at a time may rely on.
Its `Seen` mapping (in `ClaimSerial`) hides the steps in which the old claim is
already demoted and the new one not yet stored.

### SummaryBreaker

The module globals are variables; each lock body is one step, because no lock body
awaits. Time is counted in ping intervals; `openLeft`, `pingLeft` and `left` are what is
left of the cooldown, the ping loop's sleep or call, and each caller's call. The
generation counter of the code needs no variable: the step that raises it also
cancels the task that compares it.

### MemoryData

What is stored is abstracted to what it was made of: a text maps each *piece*
(an attempt of a write, or an item edit) to how many times what it contributed
is in the value. `OVERWRITE` stores the writer's piece, `APPEND` adds it to what was
read, `MERGE` lets the model fuse both. Thus a lost update, a doubled append and
resurrected content are visible in the value itself. The actions follow the
awaits of `create` and `update` (`CreateRead`, `MergeRead`, `Fuse`, `UpsertFind`,
`UpsertReplace`, `WriteEnqueue`), of the deletes and of delete-all (`DeleteRow`,
`DeleteEnqueue`, `WipeRows`, `WipeScan`, `WipeMark`, `WipeSkip`), single-call edits
(`MarkUsed`, `EditItem`, `RemoveItem`), and the index worker (`WorkerTake`,
`WorkerApply`, `WorkerSkip`). `WriteRetry` is Temporal's retry; the attempt it
replaces may still be running. `Restart` ends the API process: its requests and
queue are gone, and since point ids are made with Python's salted `hash()`, the
points written before become `orphans`, found by a search but by no later task.

Four variables are history, read by properties only: `raced` (two requests
overlapped on the document), `adrift` (a change never got to the queue, or was
dropped), `erased` and `across` (what a deletion erased, and whether a write was
under way then).

### SchemaRegistry and VersionedField

The module has one field name: names meet neither in a lock nor in a row. (The lock key is
cut at 64 characters, so long names may share a lock; that only serializes more.)
A row is its version number; `field` holds the committed rows and the active ones.
MySQL runs at its default, REPEATABLE READ, and three of its rules are modelled, because the
code's correctness turns on them:

- A transaction's SELECTs see the rows committed before its first SELECT: `view`. A
  request may have read before it asks for the lock, `early`: an API request has looked
  up its key, and `schema_upsert` has looked for the field.
- Its UPDATEs and INSERTs act on the latest rows and wait for uncommitted rows of others
  (`Retire`, `Insert`); a taken version fails the flush (`InsertDuplicate`).
- `GET_LOCK` belongs to a connection. Commit gives the connection back, so
  `RELEASE_LOCK` runs on any idle one (`Release`) and may do nothing; after a failed flush
  it is not run at all. A lock left behind lets in whoever gets that connection, as often as it
  likes (`depth`), until the connection is closed (`CloseIdle`, `Crash`).

| Action | Code |
|---|---|
| `Begin` | the routes and Temporal activities that reach `create`, `update`, `delete_soft` |
| `Acquire`, `AcquireTimeout`, `Release` | `_acquire_name_lock`, `_release_name_lock` |
| `ReadCache`, `ReadLocked`, `Refuse`, `ReadUpsert`, `UpsertNothing` | `get_active_by_name` and what is decided on it |
| `ReadDelete` | the SELECT of `delete_soft`, which takes no lock |
| `Retire`, `Insert`, `InsertDuplicate`, `Commit` | the statements of the transaction |
| `Publish`, `HandleEvent` | the changelog event, and a consumer that writes what it says into the cache |

Events form a set from which any may be handled at any time, again or never: this covers
loss, repetition and reordering, and both places where consumers mark an event as seen.

`VersionedField` has two steps: publish the next version as the only active one, or withdraw.
The variable `field` is the same, so the refinement mapping is the identity.

### Governance

The module has one target, a memory field, since proposals for different targets never meet.
(Proposals for memory data go the same way through `memory_data`; what they have of their own
is when they are refused.) Reviews (`approve_proposal`) and applications
(`apply_proposal`) are requests with a step `pc`, a proposal `on` and what they hold
between two awaits, `held`: the verdict, or what the snapshot says of the target.

| Action | Code |
|---|---|
| `CreateProposal`, `TakeLock`, `DropLock` | the routes, `create_memory_lock`, `release_memory_lock`, expiry |
| `ReviewRead`, `ReviewCommit` | `approve_proposal`: the status check, and approval row and status in one commit |
| `ApplyCheck` | `apply_proposal` up to its last check: status and locks, in one snapshot |
| `ApplyWrite`, `ApplyRefused` | the call of the schema service, which commits or raises |
| `ApplyRecord` | audit row and status "applied" in a second commit |
| `EditTarget` | any other change of the field through the API |
| `AnalyseNothing`, `AnalysePropose`, `AutoApprove`, `AnalyseFails` | `dreaming_execute_analytics` with `create_proposal_from_dreaming`, retried `MaxAttempts` times |
| `Crash` | a request cut off anywhere, also by an error after the schema service's commit |

The registry is one atomic step here. It keeps what `SchemaRegistry` says of stale snapshots: a
create that saw nothing finds its version taken, an update may publish over a deletion, and a
delete only marks the rows it saw (`Moved`, `Outcomes`). The branch of
`dreaming_execute_analytics` for names with two active rows (lines 71-98) never runs, by
`OnlyNewestActive` of `SchemaRegistry`. `raced` and `cut` are history: proposals on which requests
overlapped, and those whose application ended between its two commits.

### MemoryBundle

Retrieval (`retrieve`) and use (`call`) of V2 memory, against claims that change at every
await. `status` is what a read sees of each claim, `recent` the order in which Mongo lists
them, and `Moves` what the claim engine may do to one between two reads. A retrieve is a chain of reads: `ListCandidates`, `RecallActions`, `RecallTerms`,
`Compose` (relation to `current_context`), `SearchFacets` (vectors), `Hydrate` (vector hits that
are not yet candidates, read by id), `RecallNeighbors`, `Rank`, `Rerank`, `Select`
(diversity, facet coverage, token and item limits, each as the pure operator it is in
the code). Which step comes next is in each action's `Goto`, as in the code's branches on method,
profile and facets. The loops of the selection are recursive functions over the length of the list, and what a
listing keeps of a list is given by its places (`Picked`). `CallBegin` and `CallCheck` are the call with its second reading.
The world moves by `ClaimChanges`, `ClaimExpires` and `Withdraw`; what a claim's text has to do with
the request is a constant of the claim, and scores are left open.

### AmlAdapter

A ledger row per request id, a unit per message, a point per unit. An add reserves
(`Reserve`), stores units one by one (`StoreUnit`), indexes (`IndexUnits`, `IndexFails`) and completes
(`Complete`), and may be cut off anywhere (`Fail`); clients send it again (`Send`), beside another
add with its id. A clear is `ClearUnits`, `ClearRows`, `ClearPoints`, or ends early (`ClearFails`). A
search is `SearchList`, `SearchVectors`, `Hydrate`, `Rank`, the last with its fusion,
session diversity and reranking.

### RuleStore and CapabilityStore

Both are versioned rows behind snapshots. In `RuleStore` a request sees `snap`, in which it finds
the rule to replace (`Served`) and the next version (`IsNext`); what it writes meets `rows`, and
the unique key of versions (`Clashes`) is the only thing that turns it away. `Resolve` is the commit
inside `resolve_capability_id`, which ends the snapshot half way; `FieldChanges` is an update of the
memory field, which gets another id. In `CapabilityStore` a request also reads and writes the Redis
entry, which late changelog events write too (`Feed`). Its snapshot is taken when it begins, with the check of the API key, so
what it reads from the rows after a miss may be older than the entry.

### SchemaChangelog

The two topics with their consumers' offsets, and what each handler has done so far (`phase`):
cache, stream, mark, forward. `Crash` sets a consumer back to the offset it committed, `Expire` lets a
dedup mark go, and an error of Redis makes a handler pass over its message. Clients poll with a cursor
(`Watch`) or follow the stream (`Follow`, `Push`, `Reconnect`); the stream keeps `MaxLen` entries.

### Billing

An emit commits its event (`Store`), reads and writes the quota of tokens and that of cost
(`ReadQuota`, `WriteQuota`), and publishes (`Publish`). `consumed` is history: the total that emits were
allowed of each quota. The consumer reads an event as pending and
writes it as processed in two steps (`Receive`, `Process`), and may get it again. Two requests for the invoice
read the month (`Sum`) and insert (`Insert`).

### Onboarding

Tables `tenant`, `app_user`, `api_key`. An application looks for its user (`Look`), then links
(`Link`) or makes one (`Bootstrap`), then issues a key whose prefix is free in its snapshot (`Issue`,
`IssueFails`); `Lost` is a commit whose answer never arrives. `Opens` is the key lookup of a request.

### MemoryAsk

One request at a time beside writers of memory, schema and claims (`Change`), since these requests write
nothing that another one reads. A request reads (`Rule`, `CheckField`, `ReadDoc`, `List`, `Hits`, `Reread`, `Fill`,
`Items`), lets the model reply (`Complete`: any reply, also one that names what it was not given), bills
(`Bill`) and answers from the reply (`Use`). Which reads an operation makes, and in which order, is `First` and
the actions' guards. With `Leave` the request is gone, before the next one begins.

### SdkCatalog

Class `Schema` of the Python SDK: `cache` and `catalog` are its two process-wide caches, filled by
application threads some time after the server read the answer (`Ask`, `Keep`, `Page`, `Store`, `Again`, `Kept`) and
emptied by the changelog watcher (`Watch`). The server is the set of active fields, whose ids give the order of their
updates, with the last version of each name and of each field's merge rule. `torn` and `steady` are history: names that changed while a thread held an answer on them, and calls beside which
nobody else changed anything. The grain is one HTTP request with what follows it: races between two bytecodes are
below it (see "Not modelled"), and so are the order of the two caches' writes after one answer (`client.py:218`, `:256`; `Store`)
and the second write of a hit after a refusal (`:276`; `Look` and `Keep` made the first).

A request that writes is two steps, because the server reads in the view of the database that it opened with the check of the
API key, before it asks for the lock of the name:

| Action | Code |
|---|---|
| `Post` | POST /schema/create up to the lock: `search_by_mode` finds a field (409), or the request keeps what it saw, `seen` |
| `Create` | under the lock, but in the old view: a newer version makes the unique key refuse the row, which no handler catches (500, `raise_for_status`, "lost"); otherwise the row is inserted |
| `Blocked` | `GET_LOCK` times out: a 409 too, though there may be no field yet |
| `Again` | after a 409 the caches are emptied and the field is looked for once more |
| `Rule`, `NewRule`, `AddRule` | `ensure_merge_rule`: GET, then POST /schema/merge/create, without a lock, whose insert the unique key may refuse |
| `Fail` | any other error or timeout |

## 3. What the runs show

| Run | Instance | Shows |
|---|---|---|
| `claim_race` | 3 ingests, 1 revoke, 1 review, any interleaving, crashes, flaky or working Qdrant | `CurrentSound`, `LineageSound`, `ConflictNeedsReview`, `RevokedNotServed`, `ServedIsIndexed`, `HistoryAppendOnly` |
| `claim_serial` | 3 ingests, 1 revoke, 1 review, one at a time, no crash, six kinds of input | the multi-step requests implement `ClaimLedger` |
| `breaker` | 3 callers, threshold 2, cooldown 3 intervals, calls of at most 2 | `CircuitSound`, and that the open state ends (`OpenEnds`) |
| `data_race` | 2 writes of up to 2 attempts, a delete, a delete-all, an item edit, queue of 1, one API restart | `StoredOnce`, `ErasedStaysErased`, `LoneWriteKeeps`, `IndexAgrees` |
| `services` | F: 2 proposals, 2 reviews, 2 applications, a lock, a dreaming run with 3 attempts | `NothingUnapproved`, `RecordsAgree` |
| | I: 3 claims, two of one identity, 4 kinds of request, 2 changes of claims | `BundleSound`, `CallSound` |
| | H: an add, its repetition, and another payload under its id, 3 attempts, 1 clear, 1 search | `AckedIsStored`, `SearchServesStored` |
| | G: 3 calls, of which two exceed the quota together, 2 invoice requests | `MeteringSound` |
| | L: 3 applications of 2 accounts and 2 addresses, a further key, 2 prefixes | `AccountsSound`, `LinkStands` |
| | M: 2 fields, values and claims, every operation and method, 1 change while it runs | `AnswersGrounded`, `CompletionsBilled` |
| `registries` | D: 3 requests of any kind on one field, 2 pooled connections, crashes, leaked locks, a stale cache | `VersionsSound`, `NoUpdateLost`, `CacheTransparent`, `ImplementsVersionedField` |
| | J: 3 requests of 10 kinds, an update of the field | `OneActive`, `LoneWriteServed` |
| | K: 3 requests, 2 bodies, late events | `CapabilityServed` |
| | E: 2 changes, 1 crash, 1 error of Redis, batches of 2, a stream of 3 | `ChangesArrive`, `SubscribersInOrder` |
| | N: 2 threads, 2 names, 2 rows, 1 deletion | `CacheFollows`, `CallersAgree` |

Violations, explained below: `claim_fill_rollback`, `claim_resurrect`, `data_wipe`, `dreaming_auto_apply`,
`bundle_conflict`, `rules_two_active`.

### Properties and their provisos

Each property is stated in words above its definition. Several carry conditions that
are worth knowing, because the behaviour they exclude really happens:

- `CurrentSound`: a request cut off between `update_many` and `insert_one` leaves an identity
  without a current claim until the next ingest; of two overlapping reviews of one claim, one can
  mark the claim superseded which the other has just activated.
- `ServedIsIndexed`: likewise two reviews of one claim can serve again a claim whose point an ingest is
  about to hide. It stays served and is no longer found by vector.
- `IndexAgrees` speaks of documents no two requests touched at the same time
  and whose every change was queued and delivered. It excludes exactly what the
  code gives up on: a full queue, an error of Qdrant, a restart, writes through
  Temporal (whose worker never starts the queue), item edits and item deletes, and a fusion that came out
  empty, whose old point stays (`memory_data.py:448`).
  `StoredOnce` counts per attempt: an APPEND that Temporal retries after it was stored is stored again
  (`data_write_workflow.py:17`), as a new attempt. `ErasedStaysErased` excepts the write that was under way at the
  deletion, which does bring the row back (`mongo_store.py:134`).
  `LoneWriteKeeps` likewise speaks of writes that nothing
  overlapped: `upsert_memory_data` reads in one await and replaces in another, so
  overlapping writes do lose updates.
- `RecordsAgree` speaks of proposals that no two requests touched at the
  same time, and were not cut off between the two commits. Two applications
  that overlap both change the target; one that was cut off leaves the proposal approved, to
  be applied again; of two overlapping reviews the later commit wins. `NothingUnapproved`
  holds in any case.
- `AckedIsStored`: a clear that was cut off between units and ledger rows leaves rows that say
  "complete"; a repeated add is then acknowledged although its units are gone. A clear that ran
  beside the add may take some of its units.
- `OneActive` speaks of the time while the memory field keeps its id. After an update, the
  versions of its rules start again and the old id's rule stays active beside the new one's.
- `LoneWriteServed` speaks of a write that met no other one (`crowded`) and found the rows `Tidy`. Call
  rules are not, once there are several: `create_call` never retires one, and `update_call`
  to another slot takes the old slot's next version (`rules.py:554-563`), so a new rule may
  have a lower version than the one it should replace, or be refused by the key. A delete that raced an
  update leaves the newer rule active.
- `ChangesArrive` is stated for Canal's way. The schema consumer marks an event before it handles it
  (`schema_changelog_consumer.py:64`), so a crash in between loses an event of the API.
  With both ways on, or after a mark has expired, an older change may be delivered after a newer one and
  the cache shows it.
- `SubscribersInOrder` promises completeness from the first entry that the stream still holds, to a poller without
  exception. To a follower it cannot: each event of a batch carries the cursor behind the batch (`schema_changelog.py:77`), so one that
  reconnects within a batch misses the rest of it. The property says exactly that much: what a follower misses lies less than one batch
  behind an entry that it was given. A follower that resumed elsewhere, or a batch whose first event is lost, would violate it.
- `MeteringSound`: overlapping calls lose usage (`billing_quota.py:42`). Once a quota is exceeded its row is not
  `active`, so that later calls do not find it and pass unmetered (`billing_quota.py:24`, `:34`). An
  event whose publication fails stays "pending".
- `AccountsSound`, `LinkStands`: two applications that read one unlinked row both link it, the later one taking the account
  over (`onboarding_service.py:180-189`); an account that an administrator entered by hand
  (`user_routes.py:52`) may be a second one.
- `CacheFollows` holds whatever threads are doing, for names that are not `torn`: an answer that was read before a change and cached after its event stays until the next event
  of that name (`client.py:229-240`). Entries kept under an alias are never emptied by an event (`:240`
  against `:146-148`), which is why the property speaks of names cached as their own.
- `CallersAgree` speaks of exact names, of calls beside which nobody else changes a field and of which no request fails on its own
  account (`steady`). It does not say that all callers return. Of those that create one field at once, the one whose view
  is older than another's commit fails on the unique key and raises: the field is there for its next call ("lost"). So does one
  that loses the race for the merge rule. One that waits ten seconds in vain for the lock is told 409 and raises when there is
  still no field (`memory_field.py:81`, `client.py:274-275`). One that got a field under another name from its cache raises over the
  merge rule, which is looked for under the name that was asked for. All others that raise would violate it: whoever is refused because the
  field is there gets that field. In LLM mode the second answer may differ from the one that
  led to the refusal, and the call raises; a retried getOrCreate never creates the parse rule (`client.py:284-287`).
- `BundleSound` speaks of requests of method `LLM`. An aggregation query
  (`memory_retrieve_aggregation_rerank_enabled`, off by default) sends all candidates to the model, those with
  `allow_llm = False` included: `memory_policy.py:36` looks at the method only, and
  `memory_v2_retrieve.py:1293-1303` computes a shortlist but passes `candidates`.
- `CompletionsBilled`: the completions of `data_search.py:68` are not billed at all.

Things the models show and no property forbids. A "superseded" mark that arrives
late overwrites "revoked" (the claim stays out of service either way), and the
revision counter skips the numbers of requests that failed. In D, the lock alone would
not keep two versions from being active, since what is checked under it may be stale: the
unique key does, and an early reader that lost a race ends with a database error and
leaves the lock on its connection. A delete that falls between an update's read and its
commit is undone by the update, which publishes the next version. The marker for deleted
fields (`redis_cache.py:44`) is removed by the next call of the same handler
(`schema_changelog_consumer.py:28-29`); nothing reads it. Heartbeats that overlap lose counts
(`capability_registry.py:178`). Two bootstraps of one address make two users, after which every lookup of that
address fails (`onboarding_service.py:175-179`); a self-registered user who was deleted can
not register again (`admin_service.py:26`), and a second deletion of the same address clashes with
`uk_user_tenant_email` (`user_routes.py:112`). In the SDK, a list read page by page skips rows that moved
(`client.py:194-217`), and a refused getOrCreate drops the name from the catalog (`:174-184`). `retrieve` with method
`HYBRID` does what `SEMANTIC` does. An implicit V1 retrieve does not check that the field is still active, and the
model's answer is about the value that was listed while the document is read again after it
(`memory_retrieve.py:225-240`); the quota refuses a request after the completion was made.

### Where code and documentation disagree

- `claim_fill_rollback`: "An older replay must not roll the current value back"
  (`memory_claim.py:144`). A completion (`UPDATE`) by an older event becomes the
  current claim with that event's time, after which a statement older than the
  completed value replaces it. The same happens when two ingests overlap.
- `claim_resurrect`: "only conflicted claims can be resolved"
  (`memory_claim.py:425`). A revoke that lands between the check and the activation
  is undone.
- `data_wipe`: the index queue promises eventual consistency. Delete-all writes to
  Qdrant at once, past the queue, so a queued upsert of an earlier write puts the
  deleted row back into the index, and nothing corrects it.
- `dreaming_auto_apply`: "produces proposals for review or auto-apply"
  (`dreaming_activities.py:48`). A proposal for automatic application is stored as
  approved and then sent through `approve_proposal`, which refuses approved ones: it is
  never applied, the activity fails, each retry stores another proposal, and the run fails.
- `bundle_conflict`: "Conflicts are deliberately not injected in P0"
  (`docs/MEETING_RETRIEVAL_PROFILES.md:67` of the backend). A claim that composition left out as conflicting
  is no longer a candidate; when the vector search hits it, it is read again as a missing one
  and stored in the bundle.
- `rules_two_active`: the application sees to it that a memory field has at most one active retrieve rule
  (`migrations/mysql/schema-design-v0.5.md:315`). `create_retrieve` retires nothing; two
  creations, one after the other, leave two.

Seen while reading, and not a run: `trigger_dreaming_run` commits the row of a run only
after its workflow was started (`governance.py:61-82`), with `wait=true` after it has
ended. `dreaming_update_run_status` ignores a row it does not find
(`dreaming_activities.py:31-33`), so such a run stays "queued" although the docstring of
`dreaming_finalize_run` promises to mark it succeeded; if the workflow failed, the row
is rolled back altogether. The docstring of `get_memory_data` (`mongo_store.py:58-72`) names an order of
sources that holds only for documents filed with one. An end user's partition of memory is the prefix of the newest key
(`end_user_memory.py:33-53`): a new key starts an empty memory.

### Bounds

Every bound is a constant or a named constraint of an MC module.

- A: three ingests are needed for a supersede chain during which a third request is in
  the middle of its own insert; a review needs two ingests to have a conflict. More
  requests only add independent claims, and the theorems of section 4 cover any
  number. `ReviewInput` has a value, a contradiction of equal authority and a
  decision that contradicts one and completes the other, so each decision occurs;
  `MixedInput` adds a rejected confidence, chronological replacement and a proposal.
  Symmetry is over ingests (which differ only in name), and is not used with the
  refinement.
- B: three callers are the least with a late failure from before the trip, a probe and a
  third request that must fall back. Threshold 2 is the least with a failure that does not trip.
  3 intervals of cooldown against 2 of call is the tightest instance of
  `CallTicks < OpenTicks`; `Less` stops the timers at 0.
- C: documents of one user meet only in the queue and in delete-all, so one is
  enough for the interleavings. `FewActors` lets three
  attempts, deletes or wipes start (two to overlap, a third to see what they left);
  `FewCrashes` one early end; `MaxAttempts` 2 is a retry; `QueueMax` 1 makes a full
  queue frequent; `MaxRestarts` 1 separates points before and after. Item edits and
  mark-used are not limited.
- D: a create, then two requests that race over its row, is the least with something to
  lose; two connections are the least with one that keeps a lock and one that must wait.
  Requests and connections are symmetric. Versions are bounded by the number of requests.
- E: two changes are the least with an older one delivered after a newer; `MaxLen` 3 of at most
  four entries lets the stream drop one; `Batch` 2 lets a follower be cut off within a batch.
- F: two reviews and two applications are the least that overlap in each way (review with
  review, application with application, one with the other); a second proposal is the least
  with a retry that proposes again. `MaxAttempts` is the code's 3. With one lock, locked and not
  locked both occur.
- G: three calls: one within the quota, one that with it exceeds one type of quota, and one that is not
  metered. H: `MaxTries` 3 are two attempts beside each other and one after a failure; a payload of two
  messages has a half stored state, `Listed` 1 makes the Mongo listing and the vectors disagree, `TopK` 2 and
  `PerSession` 1 make diversity drop something. I: two claims of one identity can replace each other, a third one
  conflicts, needs a permission or may not go to a model; `TopK`, `MaxTokens` and the limits on increments are each
  reached. `MaxChanges` 2 is a change during the retrieve and another one before the call.
- J: three requests: two that overlap over what a third one left. K: as D. L: two applications of one account, a third
  by another one with the same address; two prefixes collide. M: one change during the request is enough to make
  any one of its reads stale; two values tell the stale from the fresh. N: two threads, and `PageSize` 1 so that a list
  takes two requests.

Deadlock is checked for B. Elsewhere the requests of an instance are
finitely many, and when they have ended nothing is left to do.

### Fairness

Only B has a liveness property. `LiveSpec` assumes that an LLM call ends (the
client has a timeout), that the event loop runs the ping loop when it is ready, and
that time passes. It does not assume that any caller comes, nor that the model
ever answers. The other components promise nothing that must
eventually happen: a request whose process dies is not resumed, a dropped index
task is not retried, and a handler whose store refuses it passes over its message.

## 4. What is proved

Every safety invariant and every action property that a passing run checks is also a theorem, stated as the run
checks it: TLAPS proves it for every value of the constants, under the named assumptions on them. These say
of inputs that they have a type, of bounds and limits that they are numbers, and of names that different things have
different ones (`PolicyOK`, `ConstantsOK`, `DataConstantsOK`, `RegistryConstantsOK`, and `RegistriesOK`,
`ServicesOK` for the components of the sums). What goes beyond that:

- `TimesOK`: a call with its retries is over before the cooldown is. With the default 60 s timeout and
  300 s cooldown it is.
- `GovernanceConstantsOK`: finitely many applications.
- `AmlConstantsOK`: payloads have a longest one; a body has 1 to 100 messages (`schemas/aml.py:25`).
- `OpsOK`: only retrieve rules can be implicit, as in `rules.py`.
- `RequestsOK`: the claims there are at first are current for different identities, `top_k` is positive
  and limits of the configuration are natural numbers or, where the code takes them through `max(1, ...)`, integers.
- `SdkOK`: pages have a size.

TLC evaluates each of them on every run that uses the constants.

**Claim engine** (`MemoryClaimProofs`): `TypeCorrect`, `OneCurrent`,
`DistinctRevisions`, `LineageWellFounded`, `SuccessorExists`, `ConflictsReviewed`,
`HistoryKept`. None of these is inductive alone. `IInv` adds what requests hold
between two awaits:

- `RevisionReserved`: a revision number that is allocated but not stored is not above the
  head, and neither stored nor held by another request. This is what makes revisions distinct
  although the number is used two awaits after it was allocated.
- `DocLineage`, `IngestHeld`, `ReviewHeld`: the claims a request holds are stored and
  are not its own; a claim's lineage goes to revisions below its own *because* the
  number is allocated after the read.
- `BornAtInsert`, `DocNotCurrent`, `CurrentStored`: a document gets its life in one
  step, and the current flag only there or in a review.
- `AcceptOnly`: only a review that was asked to accept comes near activation.

The proof treats the four actions that build, number and store a document one by
one; all others are `Frame` steps, which edit stored claims without touching what
they state, and one lemma shows that a `Frame` step keeps the whole invariant.

`MemoryClaimCurrentProofs` goes on from there: `CurrentAlwaysSound`, `RevokedStaysAway`,
`ServedAlwaysIndexed`. Its invariant says what a request in flight may still do to the claims that
are served:

- `ConflictedUnread`, `TargetUnread`: nobody holds as its predecessor a conflicted claim, or one a lone reviewer is
  about to activate, so no late mark or late delete hits it once it is current.
- `ReplacedStaysDown`: between the demotion of a claim and its mark, the claim stays demoted.
- `CurrentOrPending`: an identity without a current claim has a request that brings one, or somebody crashed or
  withdrew it.
- `HidesUnserved`, `RefreshedUnserved`, `ServedFound`: whoever is about to hide a point hides that of a claim out of
  service, and what is served has its point or an owner who is about to write it.

With this all properties of `claim_race` are proved, and `RefinesLedger` is that of `claim_serial`. Its
invariant, `SerialInv`, says that what a lone request has read still stands when it acts: the decision is the one it would
take now (`Decided`), the claim it replaces is active and either current or demoted by this request
(`IngestStands`), the claim it accepts is still conflicted (`ReviewStands`). So each step shows
one operation of the ledger, or nothing. For overlapping requests none of this holds.

**Breaker** (`SummaryBreakerProofs`): `TypeCorrect`, `HalfOpenOneRequest`,
`SlotNeverLeaks`, `ProbeDecides`, `AlwaysPinged`. The invariant describes the three
phases. The one that carries the argument is `OpenPhase`: while the circuit is
open, every call still in flight has less time left than the cooldown. So when
half-open begins nobody from before is at the primary, and the probe is alone. The code
relies on this and says it nowhere: the stale failure of an old call would
otherwise reopen the circuit under a probe.

**Memory data** (`MemoryDataProofs`): `TypeCorrect`, `NothingStoredTwice`,
`DeletionHolds`, `AppendKeeps`, `LabelSurvives`, `IndexKept`. The invariant follows each piece:
before an attempt stores its piece, the piece is nowhere but in that attempt
(`Fresh`), so that storing it cannot make a second copy (`HeldOnce`,
`StoredOnce`); and neither the row nor an attempt that began after a deletion
carries what was erased (`NotCarried`). The two action properties need `Alone` and
`SeenIsRow`: on a document without overlap, what the writer has read is still the row. `IndexKept` rests on
`IndexFollows`: for a document that neither raced nor went adrift, the last task about it in the queue says what the row says;
if there is none, the task the worker holds does; if it holds none, the point itself does. The one
exception is the request (the only one, by `Alone`) that has stored and has still to tell the index.

**Schema registry** (`SchemaRegistryProofs`): `TypeCorrect`, `NewestActive`,
`UpdatesKept`, `CacheHarmless`, `LockExcludes`, `FreshNeverCollides`,
`RefinesVersionedField`. The invariant relates the views of open transactions to the table:
the table and each view are `Dense` (versions 1 to n, at most n active), and a view
that has as many rows as the table has every active row of the table among its own
(`ViewOK`). A request whose version is free has therefore seen every version
(`NextIsFree`), and what it retires is everything that is active. So neither
`NewestActive` nor `UpdatesKept` needs the lock; what needs `LockOK` is
`LockExcludes` and `FreshNeverCollides`: the lock spares late readers the failure.
The refinement is proved whole, initial states and steps.

**Governance** (`GovernanceProofs`): `TypeCorrect`, `ApprovedOnly`, `Audited`,
`OnceOnly`, `DecisionFinal`. The invariant says what a request in flight may rely on:
`GrantedFirst` follows an approval from the decision to the application that is about to use
it, also after another review took the status back; without overlap a proposal has one request
(`OneRequest`), and the status that request read is still there (`StatusStill`, `Undecided`).

**The sums** (`ServicesProofs`, `RegistriesProofs`). A step of a sum is a step of the part that runs, or leaves the part's
variables alone (`AmlPart`, `BillingPart`, `LogPart` and the like). So a part's inductive invariant `I` is one
of the sum in the form `part = "..." => I`, and the theorems state the properties of the sum that the runs
check. `GovernanceAsAlone` and `FieldsAsAlone` show that what was proved of `Governance` and `SchemaRegistry`
holds there too. `ServicesTypeCorrect` and `RegistriesTypeCorrect` collect the type invariants.

**AML adapter**: `AddInvariance`, `AckedAlwaysStored`, `SearchAlwaysServesStored`. As long as no clear met a request id, the units
of the id are all of the payload in its ledger row (`OfOnePayload`), those behind an attempt's next message are
stored (`BehindIsStored`), and a row that says "complete" has them all (`CompleteIsStored`). So an
add may be overtaken, cut off and repeated at will. Of a search, what is stored while it runs is in its history,
and what it has read was in it (`ReadWasStored`). That no unit comes twice is a matter of sequences: a
ranking is a permutation of a finite set (`OrderFact`), and picking places of it, putting disjoint picks behind one
another and cutting the end off keep members `Apart`, which is what fusion, diversity, reranking and `top_k` do.

**Retrieval, bundle and call**: `BundleInvariance`, `BundleAlwaysSound`, `CallAlwaysSound`. Whatever read a candidate came from, it
`Passed` the filter of its request and, unless history was asked for, was live since the request began (`CandidateInv`); since
`live` only grows and the permissions of a request never change, later changes of claims do not undo that. For calls, at most one claim of an
identity is current at a time (`ClaimsInv`), and all that a call answers with was in one read. The limits of a bundle are facts about the
loops of the selection. They are recursive functions, and what their `CHOOSE`s define is shown to exist
by induction on the number of turns (`Turns`, `LoopRuns`), for which a set of naturals that is not empty has a least
member (`LeastNat`): `Weight` is a running total, `Selected` takes members in order, each at most once, while there is room.

**Metering**: `BillInvariance`, `MeteringAlwaysSound`. What an emit has read of a quota was consumed by then, so a write that loses
another one's shows less than was consumed, never more; until two overlap, the one between its read and its write is alone and
has read what the quota shows (`QuotaInv`). Either there is no invoice and nobody was told of one, or it is that of exactly one
request, over events on record (`InvoiceInv`).

**Accounts**: `AccountInvariance`, `AccountsAlwaysSound`, `LinkAlwaysStands`. A prefix belongs to one key, and each secret that was handed
out is that of the key under the prefix drawn for it (`KeysInv`). An application that waits to write, of an account that history does
not mark, is the only one of its account to wait, and no live user has the account (`AloneInv`); a row that
waits to be linked is linked to nobody else (`LinkInv`).

**Requests that ask a model**: `AskInvariance`, `AnswersAlwaysGrounded`, `CompletionsAlwaysBilled`. While a request runs, what the
stores hold is in its history (`StoresSeen`), so whatever it reads at whichever moment was there (`ReadSeen`); the reply is
not restricted, and what it names is looked up before it is served. `StepOf` says which operations come to a
step and `Paid` what each step has spent and billed.

**Rules**: `RuleInvariance`, `OneActiveAlways`, `LoneWriteAlwaysServed`. Versions of a retiring kind are `Closed` downwards and
`Distinct` in the table and in every snapshot, and the table `Covers` each snapshot. A row that a
snapshot lacks therefore has the very version that the snapshot would give next (`NothingNew`), so that a request whose insert
does not clash has seen, and retires, whatever is active. No lock is needed. A request beside which nothing is
written has the table for its snapshot (`LoneInv`), so the version it takes is above all that count.

**Capabilities**: `CapInvariance`, `CapabilityAlwaysServed`. A snapshot may be old, but rows are only ever retired and versions are places
in the table, so a row that is active now is active in every snapshot that has it (`SeenActive`). A registration
commits only if its snapshot has every row; then what it took for current is what is active. The Redis entry, however
stale, only says where to look first.

**Schema changelog**: `LogInvariance`, `ChangesAlwaysArrive`, `SubscribersAlwaysInOrder`. What is marked and
what was forwarded is in the stream, and so is what the Canal consumer is through with unless Redis refused it (`ArriveInv`), whatever
a crash delivers again. For the cache, without faults: there is an `h` such that the marks are those of the first `h` changes and the cache shows the last
of them or the next one, which is being handled (`MarkedTo`); a consumer put back by a crash meets marks up to `h`. For
clients, what was given and what is still to be pushed rises, and none is beyond the cursor (`ClientInv`); and each entry up to the cursor
was given, is still to be pushed, or was passed by a follower less than a batch behind one it was `Given`: `ResumeInv` says of the
cursor with which a reconnection resumes that it lies at most a batch `Behind` such an entry.

**SDK**: `SdkInvariance`, `CacheAlwaysFollows`, `CallersAlwaysAgree`. For a name that is not torn, what a thread holds is active
(`StillActive`), and what a cache holds is active or an event of its name is still to come (`CopyInv`, `Pending`). While some call is
undisturbed, everything that threads hold is active (`Clean`), because a call only begins undisturbed beside others that are; and a
refused one finds the field that led to the refusal still there (`OnCourse`). Versions only grow, so one that a writer saw and finds
passed means that another caller's row, or rule, was inserted since; while nobody deletes it is still the active one.

The invariants of A, C, D and F were also model-checked on the instances
above before they were proved. `AppendKeeps` and `LabelSurvives` of C are parts of `LoneWriteSafe`, `OneCurrent`, `DistinctRevisions`,
`LineageWellFounded` and `SuccessorExists` of A are parts of `CurrentAlwaysSound` and `LineageAlwaysSound`, and so on: the parts are theorems of their own.

Only model-checked: `OpenEnds` of B, since liveness under fairness and ENABLED are beyond TLAPS, and the six runs that end in a
violation. TLAPS here has no induction theorem over an operator, so nothing could be proved of a fold or of `SelectSeq`
for every list. Where a property depends on such a loop the model describes its result by sets of places or
writes the loop as a recursive function, which the least counterexample reaches.

## 5. Not modelled

- *Values.* Text, embeddings, prompts, scores, formatting, wording. What a language
  model returns is a nondeterministic outcome.
- *V1 memory and V2 claims in one run.* Delete-all of the V1 memory marks every point of the user in the shared
  collection, claims included (`qdrant_store.py:544`). Each component alone never meets the other's
  points, and both at once are too many states.
- *The synchronous index mode of C.* With `qdrant_async_index` off, a write calls
  Qdrant before it returns; the queue is the default and the harder case.
- *Several API processes.* Each would salt `hash()` on its own and so lose the
  others' points at once, as after a `Restart`.
- *An unparsable MERGE or query* ends a write before its first write: `Crash`
  covers it.
- *The status row of a dreaming run* (section 3): with `wait=true` it fails in every execution, and there is no
  state to explore beyond the statement.
- *Races between two bytecodes of the SDK's threads* (`client.py:147`, `:224`, `:284`): the watcher may empty a cache between the
  test and the access of another thread, which then raises `KeyError` or `TypeError`.
- *Class `Data` and the rule calls of the SDK* forward to one request each.
- *Creation of quotas, changes of a user's name, listings*: single-row writes and reads.
- *The DSL* (`dsl/`), *listing and export, document loading, e-mail, end users' tokens, the gateways, configuration, the
  Java SDK and the dashboard*: no state of their own.

## 6. Plan

What is left, in this order:

1. One small run of C and A over the shared Qdrant collection (delete-all against claims), and its theorem: what the wipe can take of the
   claims' points.
2. A refinement for I: a call as one atomic read of what it answers with.
3. Class `Data` of the SDK and the Java SDK, if they get state of their own.
