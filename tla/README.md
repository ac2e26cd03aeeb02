# Verification of the notification server

TLA+ models of this repository, model-checked with TLC on small instances; the
outbox is also proved with TLAPS for every value of the constants. The source is the
reference: `PROJECT.json` maps each definition to the lines it models.

## The system

The server listens to XMTP, decides which installations a message concerns, and
delivers a push to each of them. It has two modes.

- **Secure mode (the vault).** Subscriptions are leases of an installation on a
  topic, stored encrypted in PostgreSQL (`pkg/vault`). Routing turns an envelope
  into jobs of an encrypted outbox. APNS workers (`pkg/delivery`) claim jobs and
  push them. A deletion-only worker erases tokens that Apple calls invalid. A
  retention sweeper deletes what has expired and gates delivery: while retention
  is unsafe nothing is sent. Refreshes and policy events change or revoke the
  authority that queued jobs depend on.
- **Plaintext mode.** Listeners (`pkg/xmtp`) receive envelopes and either process
  them in memory or admit them to a durable queue (`pkg/notificationqueue`), whose
  workers claim them under a renewed lease and dispatch to the recipients of a
  snapshot, with a receipt for each. Registrations and subscriptions are kept in
  plaintext tables.

A9 adds a control plane to secure mode: private endpoints (`pkg/a9api`) take signed
artifacts under one-use service tokens (`pkg/a9auth`), trust managers
(`pkg/a9trust`) agree on a keyset across replicas, and the vault keeps the authority
of each installation. A3 (`pkg/a3trust`) is a transparency witness for the directory
and a reader of installation associations. Incident access opens a short, audited
window into the vault. `PROJECT.json` lists every component and what becomes of it.

## Modules

| Module | Contents |
| --- | --- |
| `DeliveryTables`, `DeliveryJobs` | The outbox: rows and table operations; workers, erasure worker, sweeper, registry, process life cycle. |
| `NotificationReceipts` | What the durable queue promises, without leases, workers or time. |
| `NotificationQueue` | The durable queue: admission, leases, snapshot, tickets, receipts, maintenance, crash and restart. Implements the former. |
| `XmtpListener` | One listener: receive goroutine, reconnects, channel, workers, readiness, Stop. |
| `PlaintextRegistry` | Registrations, subscriptions, lookups and the retirement of dead tokens. |
| `A9Vault` | The A9 authority of one installation: controls, watermarks, replacements, routes, jobs, sweep. |
| `OneUse` | What a store of one-use tokens promises. |
| `ReplayReceipts` | The receipts that keep this promise, statement by statement. Implements the former. |
| `A9Ingress` | A request from arrival to answer, on several replicas; uses `ReplayReceipts`. |
| `A9Trust` | The trust managers, the keyset row, refresh, latch retry, leases and close. |
| `OnlineRotation`, `TopicKeys` | The rules of key rotation; the retirement of topic secrets against two clocks. |
| `IncidentAccess` | Create, approve, revoke and query with row lock, webhook and audit. |
| `A3Witness`, `MerkleConsistency` | The witness ledger; the verifier of consistency proofs against the prefix relation. |
| `A3Association` | The paged read of an identity history that grows meanwhile. |
| `MC*` | Instances for TLC, one `.cfg` per run. |
| `*Proofs` | Theorems and proofs, see below. |

### State and actions

Each module's `VARIABLES` says which table, lock, goroutine or field a variable is, and
each action carries the name of the function it models.

| Module | State | Actions |
| --- | --- | --- |
| `DeliveryJobs` | tables `delivery_jobs` (`jobs`), `delivery_dedupes`, `installation_states`, `subscription_leases`, `deletion_tombstones` (`fence`), `retention_state`; goroutines `worker`, `eraser`, `sweep`; `claims` | enqueue, claim, attempt, complete, finalize, recover, convert, erase, sweep, Refresh, AdvancePolicy, crash |
| `NotificationQueue` | `notification_envelopes` with receipts (`row`), worker goroutines with what they captured, the received frame | Enqueue, Claim, Renew, PrepareRecipients, ClaimRecipient, send, FinishRecipient, Finish, Maintain |
| `XmtpListener` | readiness flags, channel, connection and its mutex, goroutines | receive, push to channel, take, process, give up, panic, the deferred end of a worker that fails closed, Stop |
| `PlaintextRegistry` | device tokens, subscriptions, dispatches with captured lookups | Register, Delete, Subscribe, Unsubscribe, lookups, InvalidateDeliveryToken |
| `A9Vault` | the `a9_*` tables, routes, held snapshots, jobs, open guards | ApplyControl, ApplyWatermark, Replace by outcome, routing, enqueue, attempt, sweep |
| `A9Ingress`, `ReplayReceipts` | requests with their stage and answer; receipts, database clock | ServeHTTP up to each wait; the four statements of Consume; PurgeExpired |
| `A9Trust` | keyset row, snapshots, latches, `trustMu`, goroutines | Refresh, Verifier, leases, Ready, latch retry, Close |
| `OnlineRotation` | accepted keysets, the artifact signed last | accept or latch a keyset, sign |
| `TopicKeys` | secrets, deadlines, timers, two clocks | erase, schedule, fire, lease, Reconcile, step the clock |
| `IncidentAccess` | request rows, row lock, audit rows, calls | Create, Approve, Revoke, Query, each up to its commit, and the answer that leaves after it |
| `A3Witness` | ledger, advisory lock, calls | start, propose, lock, sign and commit, respond, crash |
| `A3Association` | identity log, reads | page, validate, answer |

`DeliveryJobs` rows also carry history fields no row has: `pushes`, `lost`, `observed`
and `fate`. `NotificationQueue` has `accepted`, `ReplayReceipts` has `spent`, and
`IncidentAccess` and `PlaintextRegistry` have history variables (in the latter `renewed`
and `settled`). No guard reads them.

### Steps and atomicity

A PostgreSQL transaction is one step, unless other transactions can come between its
statements and matter: the attempt guard of the outbox stays open while Apple is
called; `ReplayReceipts` takes READ COMMITTED statement by statement; `A3Witness` signs
with the advisory lock held; incident calls wait for a row lock with a clock they read
before. A statement that would wait for a lock is not enabled meanwhile; where the code
bounds the wait, giving up is a step of its own. In `NotificationQueue` a call commits
and answers, commits and loses its answer, or fails.

In `DeliveryJobs` several operations end with `finalizeDeliveryMarkers`, which commits
marker by marker. It is part of the action, as the set `done` of markers it completed. A
smaller set than all of them is a failure and counts as a fault, so partly completed
states are seen only in executions where it fails. A fault is a failed transaction, a
crash or a stop; `MaxFaults` bounds them.

## Runs

| Run | Instance | States | Shows |
| --- | --- | --- | --- |
| `claims` | 1 job, 2 replicas of 1 worker | 412,130 | claims that lapse: exclusive egress, bounded pushes, one observation |
| `authority` | 1 job, 1 worker, 2 tokens, 2 epochs | 1,022,464 | authority that moves under a queued job; `IInv` |
| `siblings` | 2 jobs on 2 leases, 2 workers, 1 process | 986,588 | shared locks, dedupe, cascading deletes |
| `liveness` | 1 job, 1 worker, 2 faults | 109,059 | jobs settle, markers complete, erasures complete |
| `sharing` | 2 jobs, 2 workers, no fault | 54,834 | jobs settle although two guards share an installation |
| `intake` | `NotificationQueue` four times, `XmtpListener`, `PlaintextRegistry` twice | 962,155 | fenced pushes, admission, receipts, honest readiness, current tokens |
| `a9_authority` | `A9Vault` twice, `A9Ingress`, `A9Trust` twice | 928,816 | current authority, true answers, tokens used once, current trust |
| `evidence` | `OnlineRotation`, `TopicKeys`, `IncidentAccess`, `A3Witness`, `MerkleConsistency` twice each, `A3Association` | 2,130,376 | what keys and records can be relied on for |
| `progress` | `NotificationQueue`, `XmtpListener`, `A9Trust` twice each, `A9Ingress` | 159,826 | envelopes close, listeners wind down, doubts become durable, requests end |
| `resubmit` | 2 jobs, 2 workers | violation | finding 1 |
| `lapsed` | 1 job, 2 replicas | violation | finding 2 |
| `retention` | `A9Vault`, one binding | violation | finding 3 |

`MCIntake`, `MCAuthority`, `MCEvidence` and `MCProgress` hold several components that share
no state at this level of detail. A variable `part` says which of them a behaviour is of,
and the others rest, so that the run is the union of the instances and not their
product. Their properties state, for each part, what its module defines.

**Deadlock** is checked in the runs of `DeliveryJobs`, whose clocks, workers and
registrations never stop for good. In the four runs of several components the
bounds end an instance (the last token used, the log at its bound), so it is not
checked there; that nothing is stuck is what `progress` is about.

**Bounds.** In `DeliveryJobs` `ClaimTTL` is one tick and the job's lifetime up to three, so
a claim can lapse, be taken again and lapse again before the job expires. Two attempts
separate a retry from exhaustion (the code's limit is three); `siblings` and `sharing`
use one to leave room for a second job. Two epochs separate an old, a current and a
fenced authority. A deadline past `MaxTime` is never reached: the runs where leases or
sweeps must expire give them TTLs below it. No single run has every dimension at once:
two replicas are never combined with two jobs or two tokens. In the queue two workers
and two attempts let a lease be lost to another worker and a stale worker come back;
the quota of one with two envelopes makes it full; `MaxRows` of two lets a purged
envelope be admitted again. Subscriptions change under two workers with one attempt
each, and under one worker that tries the envelope again. Registrations of an
installation overlap in pairs. A request of an incident has one requester over the whole
horizon, and two over a shorter one. The identity history grows three times during a
paged read. A keyset may be issued, and a secret erased, while it is fetched. `A9Vault` has two epochs so that a revoked version can be
asserted again, and two sets so that one replaces the other. One token in two calls, on
a replica in step with the database and one whose clock is slow, with a clock that passes
retention, meets a purged receipt. Topic secrets are followed past the deadlines of both
epochs. Consistency proofs are checked for soundness up to trees of five leaves and
every sequence of three hashes, and for completeness up to seven leaves.

**Fairness.** In `liveness` and `sharing` it is weak, per goroutine, plus time and the
restart of an exited process. Each wait in those goroutines is bounded or polls: request
timeout, lock timeout, poll interval. The rate limiter is assumed to let each worker
through eventually; its token bucket is not first-come first-served, so this is an
assumption about load. In `progress` each component has its own: weak for every
goroutine and for database time; strong where a call is repeated until it succeeds
and the database is assumed not to fail for ever (`Claim` and `Maintain` of the queue, the
latch retry, fetch and accept of a refresh). Restart is the platform's. Nothing is
assumed of registrations, enqueues, requests or faults. `retention` assumes that calls
which may come do come, so that only what cannot happen stays undone.

## Findings

1. **`resubmit`.** The runbook (`docs/railway-dev-runbook.md:870`) says a live process never
   resubmits a token Apple called invalid. `processClaimedJob` looks for its own
   job identifier only. Before the conversion commits, a second worker can claim
   a sibling job of that installation and push the same token.
2. **`lapsed`.** The runbook (line 100) says claims are lease-protected.
   `FinalizeDeliveryJob` asks for no claim. When a claim lapses before its worker
   attempts the job, and a recovery (every enqueue and claim begins with one) has
   made the row pending, the worker finalizes a job that is still authorized,
   and it is not delivered. A claim lasts `requestTTL`+15 s. At the default rate and
   concurrency the limiter's wait is far shorter, so this takes a suspended
   process, or permitted settings such as 1/s with 128 workers. The model lets any
   wait outlast a claim and does not say how likely that is.
3. **`retention`.** `retention.go:310` says `Sweep` removes expired records. The row of an A9
   route keeps an expired lease from being deleted. The sweep has marked retention
   unsafe by then, every A9 call that could remove the route needs a safe state, and so
   the lease stays and every later sweep fails.

Other disagreements met while modelling, which no run shows:

- `pkg/vault/a9_store.go:804` overwrites the reason of an earlier latch, so an epoch may recover
  without the new epoch that the adapter contract's README (line 513) asks for.
- `pkg/vault/a9_store.go:1161` cannot renew a binding that has a route, because of the route's key;
  `internal/a9conformance/state/state.go:107` applies the same control.
- `incident_access.go:999` stores a window that starts at the edge of eight days, and later
  refuses the row, also to `requests:revoke` (`docs/railway-dev-runbook.md:805`).
- `keyset.go:289` measures the 24 hours of a staged key from the keyset accepted last;
  the adapter contract's README (line 361) from the first that shows the key.
- `config.go:529` and `keyset.go:46` judge a keyset by a clock read before the fetch
  (`manager.go:284`), so a fetch across a deadline, or across `issued_at`, latches on a keyset
  that `config.go:471` and `manager.go:269` allow.
- `PurgeExpired` of the token receipts (`pkg/db/a9_store.go:527`) has no caller in the server.

## Proofs

`DeliveryJobsProofs` proves `Spec => []IInv` and from it:

| Theorem | Property |
| --- | --- |
| `Invariance` | `IInv` |
| `TypeCorrect` | `TypeOK` |
| `EgressStaysAuthorized` | `EgressAuthorized` |
| `EgressIsExclusive` | `NoConcurrentEgress` |
| `PushesAreBounded` | `PushesBounded` |
| `ObservedOnce` | `TerminalObservedOnce` |
| `SweepsShowUnsafe` | `SweepShowsUnsafe` |

They assume `RowAssumption` and `SystemAssumption`, the types and signs of the
constants, which TLC evaluates in every run of `DeliveryJobs`.

`EgressAuthorized` is not inductive alone: that a revocation leaves a guarded job
untouched depends on what rows and claims look like. `IInv` adds
`TableConsistent` (a row's fields agree with its state, and its history counts with
its attempts and locks), `ClaimsCarried` (what a worker or eraser carries is well
formed), `NoStrayWorker`, `OneSweep` and `SweepShowsUnsafe`. The step splits in three:
`TypeStep`; `SecureStep` for the table, authorization and exclusion, where an action
either leaves every guard undisturbed or closes its own; and `SettledStep` for the
rest. `PushesBounded` and `TerminalObservedOnce` then follow from `TableConsistent`.

The proofs are in six modules: `DeliveryTablesProofs` (lemmas about the table
operations), `DeliveryTypeProofs` (every step keeps the types), `DeliveryWorkerProofs` and
`DeliverySecureProofs` (the workers' steps, and those of the eraser, the sweeper, the
registry, the processes and enqueues, keep the rows consistent and every other guard
undisturbed), `DeliverySettledProofs` (the remaining conjuncts) and `DeliveryJobsProofs`.

**Only model-checked:** of the outbox `OneSendableJobPerEvent`, `QueuedTokenCurrent`,
`NoResurrection`, `NeverSendableAgain`, `NoUnobservedLoss` and `SafeOnlyAfterCleanSweep`; all
properties of the other components, the two refinements (`ImplementsReceipts`,
`ImplementsOneUse`) included; and liveness. Liveness, `ENABLED` and induction over
recursive definitions, which `MerkleConsistency` would need, are outside what the
installed provers can do; the rest is not proved yet.

## Windows the properties leave open

Some properties say less than their name suggests, because the code does. What they leave
out is in the model, and the property's comment says it.

- **Readiness.** A worker that gives up is no longer counted as processing before
  its deferred function fails the listener closed. In between `Ready` may hold although
  a worker is leaving. `ReadyIsHonest` allows that window and no other: no worker is
  retrying, and none is gone while the listener is live.
- **Overlapping registrations.** `updated_at` is the clock of the process, read before
  the write. Of two registrations that overlap, the one that commits last may carry the
  older time, and the lookup then returns the other. `LookupIsLatest` is about
  registrations that no other one overlapped at its commit.
- **A fetch that takes time.** A keyset is judged by the clock read before the fetch. One
  issued during the fetch, or one whose secret was erased during it, latches the manager
  although it is valid by the time it is judged. `LatchedByInvalid` names these two
  causes and admits no third.
- **Revocation after commit.** A query's answer leaves after its commit, without the row
  lock. A revocation that commits in between does not hold it back. `RevocationCloses` says
  that no query commits after the revocation.

## Abstractions and omissions

Everywhere: encryption and hashes are ideal, signatures are taken as checked, bodies and
names are values, and counters are bounded by named constants.

In `DeliveryJobs`:

- A9 mode (see `A9Vault`) and the hard-closed Welcome class; the teen gate.
- An installation has one lookup: weekly rotation is left out.
- Tombstones do not expire (8 days in the code), and `ReapplyDeletionTombstones`,
  which repeats at startup what they stand for, is left out.
- Batches are not limited (`LIMIT 128`); the workers claim one job, as in the code.
- One clock for all replicas; serialization failures are not retried but fail.
- A commit that succeeds but is reported as failed is not a step of its own.
- `blockedRekeyNeeded`, route key history, nonce sequences, operational counters.
- `RescheduleDeliveryJob` and `ValidateDeliveryClaim`, which nothing calls.
- The branch of `ConvertInvalidTokenToErasure` for a token that is no longer current:
  `QueuedTokenCurrent` says that no claimed row can take it.

Elsewhere:

- `A9Vault` follows one installation; a call is one step because it is serializable.
- `A9Ingress` and `A9Trust` meet the vault and each other through one row each.
- `PlaintextRegistry` has one topic, and `XmtpListener` one listener.
- `A3Witness` and `OnlineRotation` have one environment and one use of keys; the others
  follow the same code with other constants.

Not modelled: the nonce sequences of routing, A10 registration, the Gate 8 wrapper,
Welcome delivery (hard-closed in this build), wire formats, migrations and the other
shells that `PROJECT.json` lists with their reasons. The map covers about a third of the
lines of the non-test Go code.
