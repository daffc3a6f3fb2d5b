# Mariachi in TLA+

Mariachi (`packages/`) is a TypeScript backend framework: a modular monolith made of `@mariachi/*`
packages over Postgres, Redis and vendor SDKs. Most of a request is stateless plumbing. What is hard
to get right sits in the packages that keep shared state across processes, crashes and retries:
billing, idempotency, events, locks, jobs, realtime. This directory specifies those, model-checks
them with TLC and proves the main results with TLAPS.

Run a check with `tlc -config MCCreditLedger.cfg MCCreditLedger`, a proof with
`tlapm CreditLedgerProofs.tla`. Paths below are relative to `packages/`.

## 1. Inventory

| Component | State it keeps | Operations | Interacts with | Hard behaviour | Correct when |
|---|---|---|---|---|---|
| **Credit ledger** `billing/src/billing.ts`, `postgres/store.ts` | append-only rows of `billing_credit_transactions`, advisory locks | `grantCredits`, `consumeCredits`, `setCreditBalance` | customers, the database | concurrent consumers, retries after a lost answer, a key used in two currencies | running balance, no overdraft, a key applied once, every call returns |
| **Customers** same files | `billing_customers`, one live row per tenant | `ensureCustomer` (`verify`), `replaceCustomer`, `markCustomerDeleted` | provider, ledger, webhooks | replacement while the ledger is in use, concurrent ensures, forgotten provider keys | one live customer, entries move whole, the ledger follows the customer |
| **Idempotency** `core/src/idempotency.ts`, `cache/src/idempotency.ts` | one claim per key, with a TTL | `claim`, `complete`, `release`, `runOnce` | webhook handlers, webhook server | crashed owners, expiring claims, failing store calls | one run at a time, claims end |
| **Billing webhooks** `billing/src/webhooks/` | `billing_webhook_events`, the provider mirror | `handle`, `replay` | provider, idempotency, store, the application's handlers | redelivery while running, failures half way, late events | complete only after the handlers, failures are retried |
| **Outbox** `events/src/outbox/` | `mariachi_event_outbox` | `add`, `relayOnce`, `purge` | database, bus | several relays, crash between publish and mark | published rows are in the stream, committed rows get published |
| **Redis Streams bus** `events/src/adapters/redis-streams.ts` | stream, consumer group, dead-letter stream | `publish`, read loop, `process`, `reclaim` | outbox, handlers | crashed readers, overlapping reclaims, stale snapshots | at least once, dead letters are failures |
| **Provider mirror, usage** `billing/src/billing.ts` | subscriptions, invoices, usage | `subscribe`, `changePlan`, `cancelSubscription`, `reportUsage` | provider, webhooks | local writes racing events, retries and crashes between provider and mirror | newest state wins, a retry bills once |
| **Plan changes** `billing/src/adapters/stripe.ts` | the items of a subscription, at the provider | `changePlan` → `updateSubscription` | provider | items read before they are changed, lost answers | a change makes the items asked for |
| **Locks and cache** `cache/src/lock.ts`, `cache.ts` | tokens and owners in Redis, in-flight computations | `withLock`, `acquire`/`release`, `acquireOwned`, `getOrSet` | Redis | expiry under a running holder, failed extensions, crashed leaders | only holders release, one fill of a cold key, every call answers |
| **Jobs** `jobs/src/adapters/` | queues, dead letters | `enqueue`, `cancel`, `retryDeadLetter`, `start`, `stop` | BullMQ | stop and restart, timeouts, concurrent retries of one dead letter | accepted jobs end, a dead letter leaves as a job |
| **Realtime** `realtime/src/` | connections, channels, presence in Redis | `handleConnect`, `subscribe`, `heartbeat` | Redis, authorizer | awaits between check and act, disconnects in between, crashed instances | the limit holds across instances, ghosts leave |
| **Auth guards** `auth/src/api-keys.ts`, `brute-force.ts` | API keys, attempt counters | `rotate`, `revoke`, `guard` | store, cache | concurrent rotation, concurrent failures, commands that fail between count and lock | a rotation keeps a working key, guesses are bounded |
| **Authorization** `auth/src/authorization/` | role tables, cached roles, an index of permissions per process | `can`, `grantRole`, `revokeRole`, `defineRole`, `refreshPermissions` | store, cache | reads overtaken by edits | what is revoked stops allowing |
| **Notifications** `notifications/src/` | delivery rows | `notify`, `deliverJob`, `updateByExternalId` | jobs, channels, providers | workers that overlap, failure after the send, late callbacks | a row tells what became of its message |
| **Audit** `audit/src/` | hash chain per tenant | `log`, `retain`, `verifyChain` | database | concurrent writes, retention, verification page by page | one chain, an honest chain verifies |
| **AI sessions** `ai/src/session/` | messages, token totals | `open`, `send`, `stream` | provider, store | concurrent opens and sends, fallback models | what was answered is stored, once and in order |
| **Rate limit** `rate-limit/src/` | counters in Redis | `check`, `reset` | Redis | window boundaries, refill, expiry | the limit per window, a retry at `resetAt` passes (sliding window: finds more room) |
| **Lifecycle** `lifecycle/src/` | resources, hooks | `start`, `stop`, signals | everything | timeouts, failing hooks, order | exit code 0 means a clean drain |
| **Inbound webhooks** `webhooks/src/` | delivery log, claims | `process` in modes direct and queue | idempotency, jobs, procedures | lost answers of the queue, procedures that time out and go on | one job per event, done means worked |
| **Repository** `database-postgres/src/repositories/` | rows of a tenant | `create`, `update`, `softDelete`, `restore`, `hardDelete`, `paginateCursor` | database | writes between two pages | pages neither miss nor repeat a steady row |
| HTTP, communication, tenancy, config, storage, search, encryption, auth providers, observability, CLI, explorer | none that outlives a request, or vendor SDK wrappers | | | | not modelled |

How they interact in the modelled part: an application calls the ledger, which reads the tenant's
customer; `ensureCustomer` asks the provider and may replace that customer and move the ledger; the
provider reports changes through webhooks, which `runOnce` deduplicates and which update the same
customer and subscription rows; business transactions add events to the outbox, relays publish them to
Redis Streams, and consumer groups run the handlers. The inbound webhook server runs every delivery
under the same `runOnce`; `getOrSet` fills under the same lock that applications take. The other parts
meet only in the application's code.

`PROJECT.json` lists every hazard found, at its line, with the properties aimed at it. Three have none,
because the code itself goes wrong there or promises nothing: a claim that expires under its run
(`idempotency.ts:58`), events from before the group or after its trimming (`redis-streams.ts:59`), two
subscriptions under keys of their own (`billing.ts:199`).

## 2. Modules

| Module | Models | Composes |
|---|---|---|
| `AtomicLedger` | what `BillingStore` promises of the ledger: a balance per account, keys used once | |
| `CreditLedger` | the ledger statement by statement | implements `AtomicLedger` |
| `CustomerReplacement` | `ensureCustomer`, `replaceCustomer`, provider, `customer.deleted` | extends `CreditLedger` |
| `RunOnce` | `runOnce` over an `IdempotencyStore` | |
| `BillingWebhooks` | the billing webhook handler, its replays and its provider | extends `RunOnce` and implements it |
| `EventDelivery` | outbox, relays, one consumer group with readers and reclaims | |
| `InboundWebhooks` | the inbound webhook server | extends `RunOnce` |
| `BillingCalls` | `charge`, `refund`, `subscribe`, `reportUsage`, retried | |
| `PlanChange` | `changePlan` down to the items sent to the provider | |
| `SubscriptionMirror` | the mirror row under local writes and events | |
| `DistributedLock` | token, node-local and owned locks | |
| `CacheFill` | `getOrSet` | extends `DistributedLock` |
| `MemoryJobs`, `JobQueue` | the memory queue; the BullMQ adapter | |
| `NotificationDispatch` | `notify`, its jobs and rows | |
| `Presence` | connections and presence of one user | |
| `AuthGuards` | brute-force guard, API key rotation | |
| `AccessChecks` | `can` over its caches | |
| `AuditChain` | one hash chain | |
| `AISessions` | one session | |
| `RateLimit` | the three limiter scripts | |
| `Lifecycle` | startup and shutdown | |
| `RepositoryPages` | a repository's writes and a keyset walk | |
| `CreditLedgerProofs`, `RunOnceProofs`, `BillingWebhooksProofs`, `EventDeliveryProofs` | theorems about the module they are named after | |
| `CustomerReplacementProofs` | theorems about customers and the ledger under replacement | extends `CreditLedgerProofs` |
| `RequestsProofs` | theorems about inbound webhooks, billing calls, plan changes, repository pages, rate limits, access checks | extends `RunOnceProofs`, `SumLemmas` |
| `ServicesProofs` | theorems about the machines of `services`, one section each | |
| `SumLemmas` | sums over finite sets; division | |
| `MCServices`, `MCRequests` | several machines side by side, one per behaviour | the modules of their run |
| other `MC*` | constants and, for the ledger, one summing property | |

Every module states its type invariant. They were model-checked with the modules; only the ledger's is
a property of a run, since in the others a wrong type would show in the properties themselves.

### CreditLedger

`ledger` is the set of committed rows; a transaction's row is its `draft` until it commits, as others
see nothing of it under READ COMMITTED. `lock` is the advisory lock of (tenant, customer, currency),
held from `AcquireLock` to the end of the transaction, whichever way it ends (`Finish`). The program
counter `pc` names the statement a caller runs next:

| Action | Code |
|---|---|
| `Call` | `grantCredits`, `consumeCredits`, `setCreditBalance` (`billing.ts:436-465`); an `op` is an amount or a target with its key |
| `RequireCustomer` | `ledgerEntry` reads the customer *before* the transaction (`billing.ts:498`) |
| `AcquireLock` | `select pg_advisory_xact_lock` (`store.ts:438`) |
| `ReturnExisting`, `NoExisting` | the lookup of the key (`store.ts:440-447`) |
| `ReadBalance` | newest `balance_after` by `created_at` (`store.ts:484-494`) |
| `Insufficient`, `Unchanged` | the refusals of `appendCreditTransaction` and `setCreditLedgerBalance` |
| `InsertEntry`, `Duplicate` | the insert, which waits for an uncommitted row with its key and fails on a committed one (unique index) |
| `Commit` | COMMIT, whose answer may be lost |
| `Rollback` | any statement fails, the connection is lost |

`created_at` is `clock_timestamp()`: the model's `clock` grows with every insert, i.e. the database
clock does not run backwards and two inserts do not share a microsecond. `hashtextextended` is taken
as collision-free; a collision would only make two accounts wait for each other. One tenant is
modelled; every key, index and query carries the tenant id. Amounts are mathematical integers: the
column is a 64-bit integer and callers pass safe integers.

### CustomerReplacement

Ensurers run beside the ledger's callers. `held` lists the currencies `replaceCustomer` found, in
whatever order the SELECT returned them, and `taken` counts the locks it has of them: the loop takes one
after the other and waits at the first that is not free. `moved` are the rows its UPDATE changes; a row
that commits after that UPDATE is not moved, as in the code. `Writers` are the transactions that have
written `billing_customers`: writers of the same rows, and of the tenant's entry in the unique index,
wait for them. `Refuse` is the rollback forced by a unique violation or by Postgres breaking a deadlock,
a circle of replacements of any length that wait for each other's locks (`Deadlocked`);
`RollbackReplacement` any other. The provider (`provider`, `issued`, `created`) is external: it hands
out ids, answers a remembered idempotency key with the customer it made then, forgets keys, and loses
customers. `ReplacementInit` includes a stored customer the provider never had (made by the memory
adapter). `MarkCustomerDeleted` may have no effect, because `lastEventAt` and the event's time come from
different clocks and granularities. Usage rows move in the same transaction and are left out.

### RunOnce and BillingWebhooks

`entry` is the store, one Redis command per action. `Begin` is a call of `runOnce`, `Succeed` and
`Throw` end its function. Nobody is named in a claim, as in the code: `Release` and `Complete` act on
whatever is stored. `Expire` is the TTL of a claim; `ClaimsOutliveRuns` says whether `processingTtlMs`
(5 minutes) exceeds every run. The completed marker (7 days) outlives the provider's retries (3 days)
and does not expire in the model.

`BillingWebhooks` refines the function of `runOnce` into the statements of `handle` (`hpc`): record
`processing`, read the previous status, upsert with the `<=` guard on `lastEventAt`, dispatch the
normalized events one by one, record the outcome. `replay` takes the same path without a claim. The
provider (`awaited`, `acked`) sends an event until a delivery it still waits for is answered with
success; it may time out or see the connection close. Events of one subscription are numbered,
`Second` gives their times and `Cancels` those that show a canceled subscription.

### EventDelivery

A relay's transaction holds its `batch` FOR UPDATE SKIP LOCKED, publishes row by row, and its marks
(`marked`) take effect only at `CommitBatch`. A failed publish may or may not have reached Redis. The
backoff of a failed row is abstracted to "a later batch". `stream` is the Redis stream, `pending`,
`deliveries` and `idle` the group's pending entries list; `TurnsIdle` is the passing of `claimIdleMs`,
also while handlers still run. Workers hold a `queue`: the entries of one XREADGROUP reply, or the
snapshot of one XPENDING, with the delivery counter *seen* there. `reclaim` runs from a timer, so
several may be under way. Not modelled: creating the group, subscribing and unsubscribing, malformed
entries (dead-lettered at once), trimming of the stream, batch limits (32, 100), `purge`.

### InboundWebhooks, BillingCalls, PlanChange, SubscriptionMirror

`InboundWebhooks` puts `process` (`webhooks/src/server.ts`) inside `runOnce`'s function: log the
delivery, run the route's handler, then either call a procedure, whose timeout leaves it running
(`stray`), or enqueue a job whose id is the event's (`jobs` counts what the queue holds of it). Without
a store (`deduplicates` false) the same steps run unclaimed. A delivery log that is absent behaves as
one whose writes succeed.

`BillingCalls` is the order of statements of the calls that make the provider create something:
`charge` and `refund` ask and then store; `subscribe` first looks for an entitled subscription in the
mirror; `reportUsage` records first and reports only a new record. The provider is external and answers
a known key with its first result; `Settles` and `EventMirrors` are its later events.

`PlanChange` keeps the items of the subscription as data, a set of id, price and quantity; an id is
smaller the older the item is, and the first item is the oldest. `ItemChanges` is
`updateSubscription`'s translation of a wanted item set, or of a new price and quantity, into the items
it deletes, updates and creates, from the items `RetrieveItems` read. The provider is external: the ids
of new items are its choice, and so are its refusals (an unknown item, two items of a price, a key with
other parameters).

`SubscriptionMirror` numbers the changes of a subscription. An operation asks the provider
(`AskProvider`), stamps the answer with the instance's clock (`StampAnswer`) and writes it
(`StoreAnswer`); an event carries the second of its change. Both writes have the guard of
`upsertSubscription`.

### DistributedLock and CacheFill

`lockKey` is the Redis key, `held` the token of a caller's `withLock`, `localTokens` the instance's
`tokens` map; release compares tokens. The TTL is `ExpireLock`; `lockOutlives` says whether TTL and
extensions outlast the work, and both cases are checked. Extensions are part of that abstraction:
`withLock` ignores their failure. `acquireOwned` is its SET NX, its look at the holder and its second
try. `CacheFill` is `getOrSet` as the sequence of replies a caller awaits; callers of one instance share
a computation through `inflight`, and `Settle` is the `finally` that removes it. `FillCrash` ends a
process with its callers and its map.

### MemoryJobs, JobQueue, NotificationDispatch

`MemoryJobs` folds the pending map and the timers into one state per job; `cleared` is a timer that
`stop()` cleared but `job.timer` still names, which is why such jobs never run again. `JobQueue` takes
BullMQ as external (a job waits, is active under a worker's lock, completes, fails, stalls) and models
what the adapter adds: the 'failed' handler that adds the dead letter, `cancel`, `retryDeadLetter` in
its three commands by several operators, and `stop` with its forced close. `NotificationDispatch`
treats the queue as at least once with deduplication by id: `QueueNote` writes the row as `queued` and
then adds the job; a job may stall and overlap its retry, and the provider's callbacks come at any time.

### Presence, AuthGuards, AccessChecks

`Presence` runs `handleConnect` in steps (add to presence and count in one script, refuse or register,
listen to the socket) on several instances, with `heartbeat`, `disconnect`, crashes and the expiry of entries;
`rtTouched` says whether heartbeats reach Redis within the TTL. In `AuthGuards` one action is one
command: `guard` checks the lockout, runs the attempt, then counts (INCR, then the lockout key) or
clears (two DELs); `rotate` inserts and then revokes. A guard's commands may fail, with or without
effect (`CountFails`, `LockoutFails`, `ResetFails`), and its process may die (`GuardDies`): the failure
is then not counted, or the counter is full and no lockout is set. `bfLost` counts these lost recordings,
`MaxLost` bounds them. `AccessChecks` is `can`: ensure the permission
index (shared load, one per process), look up roles in the cache, read them from the store, cache them,
decide; an administrator grants, revokes or edits in between, and any command may fail.

### AuditChain, AISessions, RateLimit, Lifecycle, RepositoryPages

`AuditChain`: `write` under its advisory lock, `retain` by `occurredAt`, `verifyChain` one page per
action. A hash is the identity of its entry; nobody tampers. `AISessions`: the state objects that
callers share or load, `send` over its fallback models, and the save as its three statements (upsert,
count, insert what is missing by position). `RateLimit`: a script is one action at Redis time; tokens
are counted in units of 1/`Window`, so the bucket's division is exact; one refusal, of any cost, is
followed (`rlRetry` is its `resetAt`, `rlCost` its cost, `rlTaken` the members there were). `Lifecycle`: each settled
promise and each signal is a step; a disconnect that timed out goes on by itself (`HangingReturns`).
`RepositoryPages`: rows with a sort value and a tenant; `GetPage` is one query of `paginateCursor`,
`limit + 1` rows after the cursor in the order of value and id, and `steady` the rows that were visible
since the walk began and did not move.

### MCServices and MCRequests

Machines that share no state are checked in one run each: `focus`, chosen in the initial state, names
the machine that a behaviour runs, the others keep their initial values. The states of the run are the
sum of the machines' states, not their product, and each property speaks of one machine.

## 3. Runs

| Run | Shows | Bounds |
|---|---|---|
| `ledger` | `TypeOK`, `RunningBalance`, `NoOverdraft`, `KeyAppliedOnce`, `RetryNeverConflicts`, `CallsReturn`, and that the ledger implements `AtomicLedger` | 2 callers, 1 customer, 2 currencies, 2 keys (one used in both currencies), 5 operations, 4 calls |
| `replacement` | `OneLiveCustomer`, `RowsPreserved`, `NoWriteLandsWhileMoving`, `SomeoneProceeds` | 1 caller with 2 calls, 2 ensurers with 2 calls, 2 customer ids, 2 currencies |
| `replacement_webhook` | violation of `LedgerFollowsCustomer` | 1 caller, 1 ensurer, 1 call each |
| `webhooks` | `CompleteMeansHandled`, and that the handler implements `RunOnce` (`OnceSpec`) | 2 workers, an update and a cancellation one second apart |
| `webhooks_canceled` | violation of `CanceledAnnounced` | 1 worker, the same events |
| `webhooks_retried` | violation of `FailuresAreRetried` | 2 workers, the same events |
| `delivery` | `PublishedIsInStream`, `NothingDropped`, and `EventsSettle` under fairness | three shapes (below), 2 rows, 2 relays, 1 reader, 2 reclaims, 2 deliveries, 1 fault |
| `dead_letters` | violation of `DeadLettersUnacknowledged` | as `delivery` |
| `services` | see below | see below |
| `requests` | see below | see below |
| `ai_sessions` | violation of `AnswersAreStored` | 2 callers, 1 instance, 1 model |
| `guesses_race` | violation of `GuessesWithinMax` | 3 guessers, 2 attempts, no lost recording |

`services`, by machine:

| Machine | Properties | Bounds |
|---|---|---|
| tokens, owned, fill | `OnlyHoldersRelease`, `OneFillOfAColdKey`, `FillsAnswer` | 3 callers in 2 instances, 3 tokens, locks that outlive their runs and ones that do not |
| memory, bull | `AcceptedJobsEnd`, `DeadLettersLeaveAsJobs` | 2 jobs and 2 attempts each; 1 BullMQ worker, 2 operators |
| notes | `RowsTellTheTruth` | 2 intents with the same key, 1 channel, 2 workers, 2 attempts |
| presence | `ConnectionLimit`, `GhostsLeave` | 2 connections, 2 instances, at most 1 connection of a user |
| audit | `OneChain`, `HonestChainVerifies` | 2 writers, 3 entries, clock up to 2, pages of 2 |
| ai | `HistoryStored` | 2 callers in 1 instance, 2 models, a budget of 2 |
| guesses, keys | `GuessesBounded`, `RotationKeepsAKey` | 3 guessers, 2 attempts, 1 lost recording; 2 rotators, 3 keys |
| rate | `AdmittedWithinRule`, `RetryIsAdmitted` | window 3, 2 requests, costs 1, 2 and 3 (more than the rule ever admits), time up to 8 |
| lifecycle | `CleanExit` | 3 resources of two priorities, 2 of them with a time limit |
| mirror | `MirrorSettles` | 1 caller, 2 changes, instants up to 6 (two to a second) |

`requests`, by machine:

| Machine | Properties | Bounds |
|---|---|---|
| inbound | `OneRunAtATime`, `ClaimsEnd`, `DeliveredOnce` | 3 workers, 2 events (one queued, one direct), 1 stray procedure at a time |
| repository | `PagesMissNothing` | 3 rows, 2 sort values, 2 tenants, pages of 1, 2 writes |
| access | `AccessCatchesUp` | 2 checks |
| calls | `RetriesBillOnce` | 1 charge, 1 subscription, 1 usage, 2 attempts |
| plan | `ChangeMakesWanted` | 2 prices, quantity 2 beside the default, 2 changers, 2 tries each |

Why the bounds are enough to be interesting. *Ledger*: two callers meet at the lock, at the unique
index (same key in two currencies, whose locks differ) and as a retry of each other; four calls allow
a grant, two competing consumes and a retry. The proofs cover every other number. *Replacement*: two
currencies are needed for two locks and for a first entry in a currency nobody locked; two ensurers for
concurrent creation and for the deadlock; two ids because one replacement needs exactly two. *Webhooks*:
an old event, a newer one, and two workers give redelivery, replay beside delivery, and stale events.
*Delivery*: `shape` says what a behaviour is about. In `reclaims` one event passes two relays, a reader
and two overlapping reclaims with a fault anywhere; in `batch` two rows share the batches of two relays,
which a half-failed batch needs, and a reader takes what arrives; in `group` two entries wait for a
reader and a reclaim, which hold both at once. All at once would be too much for a run, and little is
lost: `PublishedIsInStream` is about rows and relays and `NothingDropped` about the group, each has a
shape in which that side is complete, and both are proved without the shapes. *Services*: two callers of one instance share a fill and a third in
another instance competes for the lock; two jobs let a replayed dead letter be a new job beside its
origin, and two operators replay the same one; two connections at a limit of one are a race for the last
place; three audit entries on pages of two make a second page that must link to the first; three
guessers at a limit of two can be under way together; a span of eight holds two whole windows with their
boundaries. *Requests*: of three workers one may be dead, one late and one retrying; three rows on
pages of one, with two writes, let a row move over the cursor and another be created behind it; two
attempts are a call and its retry, also side by side; a second change starts from the items the
first left. Faults are bounded by `MaxFaults` (delivery), calls by `MaxCalls`, `MaxEnsures`, `MaxTries`,
lost recordings by `MaxLost`, writes by `MaxWrites`, `MaxEntries` and `MaxChanges`, clocks by `MaxTime`, `LastTime` and `MaxInstant`,
procedures that outlive their timeout by `MaxStray`, key forgetting by the number of ids; nothing else
is bounded. Deadlock checking is off in every run: calls are used up, a server that has exited stays so,
or nothing is left to deliver.

Every property of a passing run has a mutant, listed in `PROJECT.json` and kept in the modules just
before the definition it changes: a plausible slip in the code (no wait for the lock, no lookup, `<`
for `<=`, acknowledging after a failed handler) that makes TLC find the property violated.

### Fairness

`CreditLedger!FairSpec`: a caller keeps issuing its statements and the database keeps answering (weak
fairness); Postgres queues the waiters of an advisory lock, so whoever waits gets it (strong fairness
of `AcquireLock`). `Call` and `Rollback` are not fair. `EventDelivery!Fairness`: relays
poll, readers read, the timer reclaims, and an unacknowledged entry grows old; nothing forces a
handler to succeed, so `EventsSettle` ends in the dead-letter stream if need be. Its liveness is checked
in the shape `reclaims`, where everybody takes part; in the others some processes never run, so that few
of their behaviours are fair and `EventsSettle` says little of them. `InboundSpec`: a
worker's promises settle, and Redis expires keys; crashes and new deliveries are not fair.
`ServicesSpec`: replies arrive (`FillStep`); a wait for the lock ends, since `lockWaitMs` bounds it and
a lock that nobody holds expires (strong fairness of `FillWaited`, because other callers may take the
lock in between, and weak fairness of `FillExpire`); timers fire, and handlers end or time out
(`MemStep`); heartbeats run and entries expire (`RtServerStep`, `EntryExpires`). `AccessSpec`: promises
settle, the index ages after its `permissionTtlMs`, and cached roles expire. Crashes, failures,
disconnects, new calls and administrators' edits are never fair. The replacement, billing webhook and AI
specifications state no fairness; only safety is checked there. `SomeoneProceeds` stands in for
progress: while anyone is in the middle of a call, someone is who waits for nobody, and calls have no
loops. `CallerWaits` and `EnsurerWaits` say who waits: for an account's lock, for an uncommitted row with
the same key, for a writer of the customers table.

### Where code and documentation disagree

Six runs end in a counterexample; `PROJECT.json` quotes the text each contradicts.

1. **`replacement_webhook`**: with the billing webhooks on, a customer deleted at the provider is
   marked deleted by `customer.deleted`. `ensureCustomer` then takes the first-use branch, and the
   credits stay with the deleted customer.
2. **`webhooks_canceled`**: a run that throws or dies after the mirror update leaves a retry that reads
   `canceled` as the previous status and completes without `subscription.canceled`.
3. **`webhooks_retried`**: a retry that arrives during a slow run is answered as a success; when the
   slow run fails, nobody retries.
4. **`dead_letters`**: `reclaim` dead-letters from its snapshot, so an entry acknowledged in between
   ends up in the dead-letter stream too.
5. **`ai_sessions`**: two concurrent opens of a persisted session load two state objects; saves append
   by position, so the second save drops the message it answered.
6. **`guesses_race`**: the lockout is checked before an attempt and its failure counted after it, so
   guesses that run in parallel do get past `maxAttempts`. What holds instead is `GuessesBounded`: each
   guard adds one failure at most to those the limit allows, and each lost recording one more.

## 4. Proofs

All theorems hold for every value of the constants under the `ASSUME`s the modules name, which TLC
evaluates in every run: names that stand for "nobody" and "none" are not real ones; operations are well
typed; bounds are naturals, and windows, limits, page sizes and attempts are not zero; events, rows and
resources are numbered; the callers of a cache or a session run in one of the instances. What is
counted or summed, or could wait in a circle, is finite: prices, rows of a repository, connections,
guessers, ensurers. Beside the ledger's
clock (see `CreditLedger` above) no theorem assumes anything of a clock or of how long something takes
that its property does not say (`lockOutlives`,
`ClaimsOutliveRuns`, `rtTouched`, `auAgree`, `subAgree` and `subApart` are variables or constants that
the modules leave open, and appear in the properties). Every safety invariant and every action property
of the passing runs is proved, and of four of the liveness properties a safety half: that whoever waits
has somebody or something to wait for, and that what is revoked stays so.

Each proof has the same layout: an inductive invariant, named, whose conjuncts say what each
participant knows at its step; the lemma that a step preserves it, one case per action; the theorem.
What is not obvious in each:

**The ledger (`CreditLedgerProofs`).** `RunningBalance` is not inductive: it holds of the committed
rows because an uncommitted row already continues the newest one. `LedgerInv` says so: a caller inside
its transaction holds the lock of its account (`Control`), hence the balance it read is still the
balance (`Fresh`), its stamp is newer than every row of the account (`Stamped`, `Drafts`), and nobody
else has an uncommitted row with its key (`Drafts`, from the unique index). Every account with rows has
a newest one (`HasNewest`), which makes the CHOOSE in `Newest` meaningful. `TypeCorrect`,
`RunningBalanceHolds` and `KeyAppliedOnceHolds` follow. `LedgerRefinesAtomicLedger`: `Commit` of a
caller's draft is `Apply` of its operation, every other step stutters. `RetryNeverConflictsHolds` adds
`LookedUp`: from the lookup of its key to its insert, no row of the caller's own account has that key,
because the account is locked; so a conflict comes from another account. `NoOverdraftHolds` adds
`SumsInv`: the entries of an account add up to its balance, and a row below zero was allowed to be.
`SomeCallerProceedsHolds`: whoever holds a lock is past `AcquireLock` (`CallerLocks`), and whoever has an
uncommitted row is at its `Commit`, which waits for nobody. So a caller waits for a lock whose holder
goes on, or for a holder that waits for a commit: the waits are two deep at most.

**Customers (`CustomerReplacementProofs`).** `LedgerInv` fails here, since a replacement joins the rows
of two accounts; `ReplacementInv` keeps of it what survives (`Control`, stamps and keys of all rows
apart, whatever their account) and adds the ensurers: the locks a replacement has taken are those of
the currencies it found (`EnsurerControl`), one transaction at a time has written the customers table
and what it wrote was allowed (`OneWriter`), and the rows it will move are still committed rows of the
old customer (`MovesOwnRows`); every lock is that of a caller in a transaction or one a replacement has
counted (`LocksOwned`), and no replacement meets a lock of its own, since the currencies it found differ
(`HeldApart`). Theorems: `OneLiveCustomerHolds`, `KeyAppliedOnceWhileReplacing`,
`RowsPreservedHolds` (each row goes on as one row, told by its time) and
`NoWriteLandsWhileMovingHolds` (a caller that commits holds a lock that no replacement has).
`SomeoneProceedsHolds`: were everybody waiting, nobody would be writing the customers table and no caller
would be in a transaction, so each busy ensurer would wait for a lock of another. As ensurers are
finite, following these waits closes a circle (`CycleOfWaits`), and a circle is refused.

**runOnce (`RunOnceProofs`) and what implements it.** `OneRunAtATimeHolds`, from `OwnedIsMarked`: while
a worker owns a key, the store does not say it is free. `WebhooksImplementRunOnce`
(`BillingWebhooksProofs`) and `ServerImplementsRunOnce` (`RequestsProofs`) show that each step of the
billing handler and of the inbound server is a step of `runOnce` or leaves its state alone, so mutual
exclusion carries over (`OneHandlerAtATime`, `OneDeliveryAtATime`). `CompleteMeansHandledHolds` needs to
know how the steps of the handler and of `runOnce` go together (`InStep`) and what a worker about to
conclude knows of its event (`Concluding`): its handler ran, or a newer event is in the mirror, and the
mirror's time never goes back. `DeliveredOnceHolds` is alike: `Claims` relates the two programs and
`WorkDone` carries the fact that the work was done from the step that did it to the store and the log.

**Events (`EventDeliveryProofs`).** `DeliveryTypeCorrect`; `PublishedIsInStreamHolds`, from "a relay
marks after its XADD" (`MarkedInStream`); `NothingDroppedHolds`, from "a worker acknowledges what was
handled or buried" (`AcksFollow`), which must hold of an entry that another worker acknowledges or
redelivers meanwhile.

**Requests (`RequestsProofs`).** `RetriesBillOnceHolds` (`Attempted`: what the provider has made and
what is recorded at each await). `PagesMissNothingHolds`: the places of rows are a total order, a page
is the beginning of what comes after its cursor, and a row that stays was seen just when it is behind
the cursor (`BehindCursor`). `AdmittedWithinRuleHolds` and `RetryIsAdmittedHolds` have an invariant per
script, and one about the refusal that is followed (a sliding window only loses members until the next
admission, and its oldest one by `resetAt`; a heavier request may need more of them to leave, and may be
refused again): the members of the sliding set are the admissions that can still share a window
(`SlidingInv`); the counter is the sum of its aligned window (`FixedInv`); and, for the bucket, the
tokens are what every span that ends now has left of its allowance (`BucketInv`), an inequality over
all spans since no single one is inductive. A script that runs at `PEXPIRE`'s end sees no key, which is
as good as the state the key stood for; the proofs show this (`Fresh`). `ChangeMakesWantedHolds`: the
ids and prices of the items stay apart (`PlanInv`), so matching by price pairs each wanted item with at
most one that is there. `RevokedStaysRevoked`: when nobody has a revoked role
cached, in hand or on its way to the cache (`RoleGone`; `PermissionGone` for a permission, its index and
loads), only `ChangeGrant` or `EditRole` brings it back. That this moment comes is `AccessCatchesUp`.

**Services (`ServicesProofs`).**
`OneHolderHolds` and `OnlyHoldersReleaseHolds`: a token is in one hand (`TokensApart`) and Redis has it
while locks outlive runs (`HoldersHave`). `OneFillOfAColdKeyHolds` adds that an instance has one leader,
whom `inflight` records (`Leaders`). `NobodyLeftWaitingHolds` says that whoever waits for a shared
promise has a leader under way in the same process: `Settle` empties the map whichever way a leader
ends, and a crash takes the waiters along. `RunningJobsKeepTimers`: of the memory queue's jobs, only one
whose timer `stop()` cleared stays pending with nothing to wake it (`MemInv`); `MemTypeCorrect` bounds
how often a job runs. `DeadLettersLeaveAsJobsHolds` and `RowsTellTheTruthHolds` are
action properties. `CleanExitHolds`: while the shutdown is ok, whatever it closed stays down
(`ShutDown`). `RotationKeepsAKeyHolds`: some active key is in no rotation's revoke, the last inserted
(`SomeKeySafe`). `GuessesBoundedHolds` counts the guards in three phases (`FailuresCounted`): before the
counter is full, a failure is counted or about to be; after, each guard fails once more at most before
it reaches the lock; under the lock only those let in before it. Each lost recording moves the bound by
one: it leaves a failure uncounted, or a full counter without its lock. `ConnectionLimitHolds` counts more than
the limit asks for, those an ADD has let in and nobody serves yet (`Counted`). `OneChainHolds`: what the
one writer under the lock read is still the newest place (`ReadNewest`). `HonestChainVerifiesHolds`:
where the clocks agree, times follow places, so a retention takes the oldest and leaves no gap
(`TimesFollow`, `NoGap`), and the cursor of an undisturbed verification is at an entry that is there.
`MirrorSettlesHolds`: with the last change, a row that does not show it is older than its event will say
(`LastStandsOut`). `HistoryStoredHolds`: saves run in turn, each over the count it took (`SavesInTurn`),
and until the session forks there is one live state (`OneLiveState`).

**Sums (`SumLemmas`).** The community modules define a sum by a fold, one element at a time in an order
that CHOOSE fixes. The fold exists for every finite set, and its value does not depend on the order
(`SumAdd`, `SumChange`). The inductions are over the size of the set; the library's induction theorems
cannot be instantiated here, so each is a smallest counterexample (`FirstFailure`, from the
well-foundedness of `<` on the naturals). The same device gives newest rows and least places elsewhere.

**Only model-checked.** Liveness: `CallsReturn`, `ClaimsEnd`, `EventsSettle`, `FillsAnswer`,
`AcceptedJobsEnd`, `GhostsLeave`, `AccessCatchesUp`. The prover has no rules for fairness over ENABLED
actions: that what can go on does go on is for TLC to check. That something can go on is proved where it
takes several participants to go wrong (`SomeoneProceedsHolds`, `SomeCallerProceedsHolds`,
`NobodyLeftWaitingHolds`, `RunningJobsKeepTimers`). That each theorem's hypotheses can be met, and that
its property can fail, is for TLC to show as well: the runs reach the states, and the mutants violate the
properties.

A warning from `SomeoneProceeds`: as long as a replacement could pick its next lock freely and only pairs
of ensurers were looked at for deadlocks, TLC found nothing wrong with it on two ensurers and two
currencies. Its proof needs the order of the locks, which the rows of the SELECT fix, and circles of any
length, which is what Postgres looks for; the model has both for that reason.

## 5. What is not modelled, and the plan

Left out for good: query building and migrations, HTTP routing and validation, vendor SDK wrappers,
identity-provider adapters, code generation and design tools, the explorer, logging, and pure
conversions such as the Stripe mappers. They keep no state of their own across steps, and they are most
of the repository's lines: `create`, `design`, `explorer`, `cli` and the adapters of vendors alone are
about ten thousand. The map in `PROJECT.json` therefore covers a small share of all lines and most of
those where concurrency and failure matter.

Left out of components that are modelled, or open: creation and trimming of the stream's group
(`redis-streams.ts:59`, `:219`), where the code promises nothing; entries written for a customer that
was just replaced (`billing.ts:498`); a `changePlan` whose retry computes other parameters under its key
because its first attempt was made (the provider then answers with a conflict); a first result that a
retry gets back and writes over a newer mirror row; two subscriptions with different keys; null sort
values in `paginateCursor`; the subscribe wrapper of the events facade; sessions and tokens in auth;
channels in realtime; cron schedules in jobs. Each is named at its component or hazard in
`PROJECT.json`.

Plan:

1. **Done**: the modules and runs above; theorems for every safety invariant and action property of the
   runs.
2. What holds within bounded time of the machines that only settle: for instance that a dead letter was
   delivered `MaxDeliveries` times.
3. The parts named above that are left out of modelled components, as far as the code promises something
   of them.
