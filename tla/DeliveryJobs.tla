---------------------------- MODULE DeliveryJobs ----------------------------
(***************************************************************************)
(* The encrypted delivery outbox of the push vault and everything that     *)
(* writes it: the APNS workers of each server process, the deletion-only   *)
(* invalid-token erasure workers, the retention sweeper, and the registry  *)
(* operations that change the authority a queued job was prepared under.   *)
(*                                                                         *)
(* Each PostgreSQL transaction is one step.  A transaction that would wait *)
(* for a row lock is a step that is not enabled while the lock is held.    *)
(* The only locks held across steps are those of a delivery attempt guard: *)
(* from AcquireDeliveryAttempt until its commit or rollback the guard      *)
(* holds its job row exclusively and the retention row, the lease and the  *)
(* installation shared.                                                    *)
(*                                                                         *)
(* The loop finalizeDeliveryMarkers that ends most operations commits one  *)
(* transaction per marker.  It is part of the operation: `done' is the set *)
(* of markers it completed, and it is every marker unless the loop failed. *)
(***************************************************************************)
EXTENDS DeliveryTables

CONSTANTS
  Servers,          \* server processes (rolling replicas)
  Workers,          \* APNS workers of all the servers
  ServerOf,         \* the server each worker belongs to
  RetryDelays,      \* delays the jittered backoff may return
  JobTTLs,          \* remaining lifetimes a caller may ask for
  LeaseTTL,         \* authority granted by Refresh
  ControlTTL,       \* control plane freshness granted by Refresh
  SweepInterval,    \* time a completed sweep stays valid
  SweepMargin,      \* how long before the deadline a sweep starts
  QueueCapacity,    \* maximum rows of the queue
  MaxTime,          \* bound: the clock stops here
  MaxEpoch,         \* bound: policy and route key epochs
  MaxGeneration,    \* bound: refreshes of one installation
  MaxFaults         \* bound: failed transactions, crashes and stops

ASSUME SystemAssumption ==
  /\ ServerOf \in [Workers -> Servers]
  /\ None \notin JobIds
  /\ RetryDelays \subseteq Nat
  /\ JobTTLs \subseteq Nat \ {0}
  /\ {LeaseTTL, ControlTTL, SweepInterval} \subseteq Nat \ {0}
  /\ {SweepMargin, QueueCapacity, MaxTime, MaxEpoch, MaxGeneration, MaxFaults}
       \subseteq Nat

VARIABLES
  now,        \* the clock every process reads
  jobs,       \* delivery_jobs
  dedupe,     \* delivery_dedupes: expiry per lease and source event, 0 if none
  inst,       \* installation_states
  lease,      \* subscription_leases
  fence,      \* deletion_tombstones: fence epoch per installation and route
  retention,  \* retention_state: is_safe and next_deadline_at
  sweep,      \* per server: the sweep in progress, if any
  server,     \* per server: the lifecycle of the process
  claims,     \* per server: invalidTokenClaims, held in memory
  worker,     \* per APNS worker: where it is and the claim it carries
  eraser,     \* per server: the erasure worker
  faults      \* faults so far

authority == <<dedupe, inst, lease, fence>>
vars == <<now, jobs, dedupe, inst, lease, fence, retention, sweep, server,
          claims, worker, eraser, faults>>

InstallationStates == {"absent", "active", "awaitingRefresh", "blocked", "revoking"}
LeaseStates == {"absent", "active", "awaitingRefresh", "blocked"}
ServerStates == {"down", "starting", "up", "stopping", "cancelled"}
Replies == {"sent", "rejected", "transient", "invalid", "cancelled"}
WorkerSteps ==
  {"loop", "claiming", "claimed", "limited", "acquiring", "pushing", "answered",
   "converting", "releasing", "finalizing", "exited"}

InstallationRow ==
  [state: InstallationStates, token: Tokens \cup {None}, policyEpoch: Nat,
   generation: Nat, expires: Nat, controlExpires: Nat]
LeaseRow ==
  [state: LeaseStates, policyEpoch: Nat, routeKeyEpoch: Nat, expires: Nat,
   controlExpires: Nat]

RetentionRow == [safe: BOOLEAN, deadline: Nat]
WorkerState ==
  [pc: WorkerSteps, job: JobIds \cup {None}, attempts: 0..MaxDeliveryAttempts,
   expires: Nat, day: Nat, reply: Replies \cup {None},
   reason: FinalReasons \cup {None}]
EraserState ==
  [pc: {"idle", "erasing", "deleting", "rescheduling"}, job: JobIds \cup {None},
   installation: Installations \cup {None}, token: Tokens \cup {None}]
SweepState == [active: BOOLEAN, started: Nat]

NoInstallation ==
  [state |-> "absent", token |-> None, policyEpoch |-> 0, generation |-> 0,
   expires |-> 0, controlExpires |-> 0]
NoLease ==
  [state |-> "absent", policyEpoch |-> 0, routeKeyEpoch |-> 0, expires |-> 0,
   controlExpires |-> 0]

Idle ==
  [pc |-> "loop", job |-> None, attempts |-> 0, expires |-> 0, day |-> 0,
   reply |-> None, reason |-> None]
Exited == [Idle EXCEPT !.pc = "exited"]
IdleEraser == [pc |-> "idle", job |-> None, installation |-> None, token |-> None]
IdleSweep == [active |-> FALSE, started |-> 0]

(* One type invariant for the whole state.                                 *)
TypeOK ==
  /\ now \in Nat
  /\ jobs \in [JobIds -> JobRow]
  /\ dedupe \in [Leases -> [SourceEvents -> Nat]]
  /\ inst \in [Installations -> InstallationRow]
  /\ lease \in [Leases -> LeaseRow]
  /\ fence \in [installation: [Installations -> Nat], route: [Leases -> Nat]]
  /\ retention \in RetentionRow
  /\ sweep \in [Servers -> SweepState]
  /\ server \in [Servers -> ServerStates]
  /\ claims \in [Servers -> SUBSET JobIds]
  /\ worker \in [Workers -> WorkerState]
  /\ eraser \in [Servers -> EraserState]
  /\ faults \in Nat

-----------------------------------------------------------------------------
(* Locks and shared conditions.                                            *)

Guards == {w \in Workers : worker[w].pc \in {"pushing", "answered"}}
LockedJobs == {worker[w].job : w \in Guards}
SharedLeases == {jobs[j].lease : j \in LockedJobs}
(* Mutant: the guard does not lock the installation.                       *)
NoSharedInstallations == {}

SharedInstallations ==
  {i \in Installations : \E l \in Leases \cap SharedLeases : InstallationOf[l] = i}

(* RequireRetentionSafe.                                                   *)
RetentionSafe == retention.safe /\ now < retention.deadline

AbsentLeases == {l \in Leases : lease[l].state = "absent"}

(* The columns the enqueue and attempt queries require of the route.       *)
RouteCurrent(l) ==
  LET i == InstallationOf[l] IN
  /\ inst[i].state = "active"
  /\ inst[i].token # None
  /\ lease[l].state = "active"
  /\ lease[l].policyEpoch = inst[i].policyEpoch
  /\ lease[l].expires > now /\ lease[l].controlExpires > now
  /\ inst[i].expires > now /\ inst[i].controlExpires > now

AuthorityExpires(l) ==
  LET i == InstallationOf[l] IN
  Lesser(Lesser(lease[l].expires, lease[l].controlExpires),
         Lesser(inst[i].expires, inst[i].controlExpires))

(* deliveryAuthorityMatches: what the job was prepared under is current.   *)
AuthorityMatches(j) ==
  LET l == jobs[j].lease  i == InstallationOf[l] IN
  /\ inst[i].policyEpoch = jobs[j].policyEpoch
  /\ lease[l].routeKeyEpoch = jobs[j].routeKeyEpoch
  /\ inst[i].token = jobs[j].token

Fault == faults < MaxFaults /\ faults' = faults + 1

(* finalizeDeliveryMarkers on table tbl, completing exactly `done'.        *)
FinalizeMarkers(tbl, done) ==
  /\ done \subseteq Markers(tbl)
  /\ jobs' = CompleteMarkers(tbl, done)
  /\ IF done = Markers(tbl) THEN UNCHANGED faults ELSE Fault

(* markOverdueErasureUnsafe on table tbl; the UPDATE conflicts with a      *)
(* guard's share of the retention row.                                     *)
MarkOverdueErasureUnsafe(tbl) ==
  IF OverdueErasure(tbl, now)
  THEN Guards = {} /\ retention' = [retention EXCEPT !.safe = FALSE]
  ELSE UNCHANGED retention

(* RecoverDeliveryJobs: its row locks, its transaction, its trailing loop. *)
Recoverable == Unrecoverable(jobs, AbsentLeases, now) \cup Lapsed(jobs, now)
RecoveredJobs == Recovered(jobs, AbsentLeases, now)

RecoverDeliveryJobs(done) ==
  /\ Recoverable \cap LockedJobs = {}
  /\ MarkOverdueErasureUnsafe(jobs)
  /\ FinalizeMarkers(RecoveredJobs, done)

-----------------------------------------------------------------------------
Init ==
  /\ now = 0
  /\ jobs = [j \in JobIds |-> Unborn]
  /\ dedupe = [l \in Leases |-> [e \in SourceEvents |-> 0]]
  /\ \E t \in [Installations -> Tokens] :
       inst = [i \in Installations |->
                [state |-> "active", token |-> t[i], policyEpoch |-> 1,
                 generation |-> 1, expires |-> LeaseTTL,
                 controlExpires |-> ControlTTL]]
  /\ lease = [l \in Leases |->
               [state |-> "active", policyEpoch |-> 1, routeKeyEpoch |-> 1,
                expires |-> LeaseTTL, controlExpires |-> ControlTTL]]
  /\ fence = [installation |-> [i \in Installations |-> 0],
              route |-> [l \in Leases |-> 0]]
  /\ retention = [safe |-> TRUE, deadline |-> SweepInterval]
  /\ sweep = [s \in Servers |-> IdleSweep]
  /\ server = [s \in Servers |-> "up"]
  /\ claims = [s \in Servers |-> {}]
  /\ worker = [w \in Workers |-> Idle]
  /\ eraser = [s \in Servers |-> IdleEraser]
  /\ faults = 0

Tick ==
  /\ now < MaxTime
  /\ now' = now + 1
  /\ UNCHANGED <<jobs, authority, retention, sweep, server, claims, worker,
                 eraser, faults>>

-----------------------------------------------------------------------------
(* EnqueueDeliveryJob.  It recovers the queue first; what follows happens  *)
(* in one serializable transaction.  A duplicate of an unexpired dedupe    *)
(* row succeeds without a job; a full queue rolls the dedupe row back.     *)

(* Mutant: the job lives as long as its authority.                         *)
EnqueuedUncapped(tbl, j, l, e, ttl) ==
  [tbl EXCEPT ![j] =
     Inserted(l, inst[InstallationOf[l]].token, lease[l].policyEpoch,
              lease[l].routeKeyEpoch, e, AuthorityExpires(l), now)]

Enqueued(tbl, j, l, e, ttl) ==
  [tbl EXCEPT ![j] =
     Inserted(l, inst[InstallationOf[l]].token, lease[l].policyEpoch,
              lease[l].routeKeyEpoch, e,
              Lesser(now + ttl, AuthorityExpires(l)), now)]

QueueFull(tbl) == Cardinality(Present(tbl)) >= QueueCapacity

EnqueueDeliveryJob(j, l, e, ttl) ==
  LET recovered == CompleteMarkers(RecoveredJobs, Markers(RecoveredJobs)) IN
  /\ \E s \in Servers : server[s] = "up"
  /\ jobs[j].state = "unborn"
  /\ ttl <= JobLifetime /\ now + ttl <= MaxTime
  /\ RetentionSafe /\ ~OverdueErasure(jobs, now)
  /\ Recoverable \cap LockedJobs = {}
  /\ RouteCurrent(l)
  /\ dedupe[l][e] <= now
  /\ ~QueueFull(recovered)
  /\ jobs' = Enqueued(recovered, j, l, e, ttl)
  /\ dedupe' = [dedupe EXCEPT ![l][e] = now + JobLifetime]
  /\ UNCHANGED <<now, inst, lease, fence, retention, sweep, server, claims,
                 worker, eraser, faults>>

(* A refused or failed enqueue leaves only the recovery it began with.     *)
EnqueueRefused(done) ==
  /\ \E s \in Servers : server[s] = "up"
  /\ RetentionSafe
  /\ RecoverDeliveryJobs(done)
  /\ UNCHANGED <<now, authority, sweep, server, claims, worker, eraser>>

-----------------------------------------------------------------------------
(* The APNS worker loop of runReliableWorker.                              *)

Goto(w, pc) == worker' = [worker EXCEPT ![w].pc = pc]
Loop(w) == worker' = [worker EXCEPT ![w] = Idle]

(* fail(): the process stops accepting and every worker leaves its loop.   *)
Failed(s) ==
  server' = [server EXCEPT ![s] = IF @ = "up" THEN "stopping" ELSE @]

WorkerExit(w) ==
  /\ worker[w].pc = "loop"
  /\ server[ServerOf[w]] \in {"stopping", "cancelled"}
  /\ worker' = [worker EXCEPT ![w] = Exited]
  /\ UNCHANGED <<now, jobs, authority, retention, sweep, server, claims,
                 eraser, faults>>

(* nextInvalidTokenClaim: a remembered claim is settled before new work.   *)
NextInvalidTokenClaim(w, j) ==
  /\ worker[w].pc = "loop"
  /\ server[ServerOf[w]] = "up"
  /\ j \in claims[ServerOf[w]]
  /\ worker' = [worker EXCEPT ![w].pc = "converting", ![w].job = j]
  /\ UNCHANGED <<now, jobs, authority, retention, sweep, server, claims,
                 eraser, faults>>

(* ClaimDeliveryJobs up to its claim transaction.                          *)
ClaimRecover(w, done) ==
  /\ worker[w].pc = "loop"
  /\ server[ServerOf[w]] = "up"
  /\ claims[ServerOf[w]] = {}
  /\ RetentionSafe
  /\ RecoverDeliveryJobs(done)
  /\ IF done = Markers(RecoveredJobs) THEN Goto(w, "claiming")
                                      ELSE UNCHANGED worker
  /\ UNCHANGED <<now, authority, sweep, server, claims, eraser>>

Claimable(j) ==
  /\ jobs[j].state = "pending"
  /\ jobs[j].available <= now
  /\ jobs[j].expires > now
  /\ jobs[j].attempts < MaxDeliveryAttempts
  /\ lease[jobs[j].lease].state = "active"
  /\ inst[InstallationOf[jobs[j].lease]].state = "active"

Before(j, k) ==
  \/ jobs[j].available < jobs[k].available
  \/ jobs[j].available = jobs[k].available /\ jobs[j].created <= jobs[k].created

ClaimCandidates ==
  LET C == {j \in JobIds : Claimable(j)}
  IN  {j \in C : \A k \in C : Before(j, k)}

(* A job whose alias day is over no longer decodes as valid material.      *)
MaterialValid(j) == Day(jobs[j].created) = Day(now)

ClaimedRow(r) ==
  [r EXCEPT !.state = "claimed", !.available = Lesser(now + ClaimTTL, r.expires)]

(* The claim transaction and its trailing loop.  When the loop fails the   *)
(* worker gets an error although the row is already claimed.               *)
ClaimDeliveryJob(w, j, done) ==
  LET tbl == IF MaterialValid(j)
             THEN [jobs EXCEPT ![j] = ClaimedRow(jobs[j])]
             ELSE MarkFinal(jobs, {j}, "materialInvalid", now)
  IN
  /\ worker[w].pc = "claiming"
  /\ j \in ClaimCandidates
  /\ FinalizeMarkers(tbl, done)
  /\ IF MaterialValid(j) /\ done = Markers(tbl)
     THEN worker' = [worker EXCEPT ![w] =
            [Idle EXCEPT !.pc = "claimed", !.job = j,
                         !.attempts = jobs[j].attempts + 1,
                         !.expires = jobs[j].expires,
                         !.day = Day(jobs[j].created)]]
     ELSE Loop(w)
  /\ UNCHANGED <<now, authority, retention, sweep, server, claims, eraser>>

ClaimNothing(w) ==
  /\ worker[w].pc = "claiming"
  /\ ClaimCandidates = {}
  /\ Loop(w)
  /\ UNCHANGED <<now, jobs, authority, retention, sweep, server, claims,
                 eraser, faults>>

(* The stop check between the claim and the rate limiter.                  *)
CheckStop(w) ==
  /\ worker[w].pc = "claimed"
  /\ Goto(w, IF server[ServerOf[w]] = "up" THEN "limited" ELSE "releasing")
  /\ UNCHANGED <<now, jobs, authority, retention, sweep, server, claims,
                 eraser, faults>>

(* The limiter's wait has no bound but the work context's: the claim may   *)
(* lapse in it.                                                            *)
LimiterCancelled(w) ==
  /\ worker[w].pc = "limited"
  /\ server[ServerOf[w]] = "cancelled"
  /\ Goto(w, "releasing")
  /\ UNCHANGED <<now, jobs, authority, retention, sweep, server, claims,
                 eraser, faults>>

(* processClaimedJob up to AcquireDeliveryAttempt.                         *)
ProcessClaimedJob(w) ==
  LET j == worker[w].job  IN
  /\ worker[w].pc = "limited"
  /\ \/ /\ j \in claims[ServerOf[w]]
        /\ Goto(w, "converting")
     \/ /\ j \notin claims[ServerOf[w]]
        /\ worker[w].expires <= now
        /\ worker' = [worker EXCEPT ![w].pc = "finalizing", ![w].reason = "ttlExpired"]
     \/ /\ j \notin claims[ServerOf[w]]
        /\ worker[w].expires > now
        /\ Goto(w, "acquiring")
  /\ UNCHANGED <<now, jobs, authority, retention, sweep, server, claims,
                 eraser, faults>>

-----------------------------------------------------------------------------
(* The delivery attempt guard.                                             *)

(* Mutant: the claim is not fenced by its attempt count.                   *)
ClaimHeldUnfenced(w) ==
  jobs[worker[w].job].state = "claimed" /\ jobs[worker[w].job].expires > now

(* The claim's row as AcquireDeliveryAttempt's SELECT ... FOR UPDATE finds *)
(* it: claimed, with the attempt count captured by the claim.              *)
ClaimHeld(w) ==
  LET j == worker[w].job IN
  /\ jobs[j].state = "claimed"
  /\ jobs[j].attempts = worker[w].attempts - 1
  /\ jobs[j].expires > now

(* Mutant: the SELECT does not lock the job row.                           *)
AcquireUnlocked(w) ==
  LET j == worker[w].job IN
  /\ worker[w].pc = "acquiring"
  /\ RetentionSafe
  /\ worker[w].day = Day(now)
  /\ ClaimHeld(w)
  /\ RouteCurrent(jobs[j].lease)
  /\ AuthorityMatches(j)
  /\ Goto(w, "pushing")
  /\ jobs' = [jobs EXCEPT ![j].pushes = @ + 1]
  /\ UNCHANGED <<now, authority, retention, sweep, server, claims, eraser, faults>>

(* The guard is taken: from here the request is on its way to Apple.       *)
AcquireDeliveryAttempt(w) ==
  LET j == worker[w].job IN
  /\ worker[w].pc = "acquiring"
  /\ j \notin LockedJobs
  /\ RetentionSafe
  /\ worker[w].day = Day(now)
  /\ ClaimHeld(w)
  /\ RouteCurrent(jobs[j].lease)
  /\ AuthorityMatches(j)
  /\ Goto(w, "pushing")
  /\ jobs' = [jobs EXCEPT ![j].pushes = @ + 1]
  /\ UNCHANGED <<now, authority, retention, sweep, server, claims, eraser, faults>>

(* Arguments no longer valid, retention unsafe, a lock timeout or a failed *)
(* statement: an error, after which the worker releases the claim.         *)
AcquireError(w) ==
  /\ worker[w].pc = "acquiring"
  /\ \/ worker[w].day # Day(now) /\ UNCHANGED faults
     \/ ~RetentionSafe /\ UNCHANGED faults
     \/ worker[w].job \in LockedJobs /\ UNCHANGED faults
     \/ Fault
  /\ Goto(w, "releasing")
  /\ UNCHANGED <<now, jobs, authority, retention, sweep, server, claims, eraser>>

(* No row, or authority that moved on: the claim is not valid.             *)
AcquireInvalid(w) ==
  LET j == worker[w].job IN
  /\ worker[w].pc = "acquiring"
  /\ j \notin LockedJobs
  /\ RetentionSafe
  /\ worker[w].day = Day(now)
  /\ ClaimHeld(w) => ~(RouteCurrent(jobs[j].lease) /\ AuthorityMatches(j))
  /\ worker' = [worker EXCEPT ![w].pc = "finalizing", ![w].reason = "safetyInvalidated"]
  /\ UNCHANGED <<now, jobs, authority, retention, sweep, server, claims,
                 eraser, faults>>

(* pushNotification returns.  The request's own timeout reads as a network *)
(* error, which is transient; a cancelled work context overrides whatever  *)
(* Apple answered.  An invalid token is remembered before anything else.   *)
PushNotification(w, reply) ==
  /\ worker[w].pc = "pushing"
  /\ reply = "cancelled" <=> server[ServerOf[w]] = "cancelled"
  /\ worker' = [worker EXCEPT ![w].pc = "answered", ![w].reply = reply]
  /\ claims' = IF reply = "invalid"
               THEN [claims EXCEPT ![ServerOf[w]] = @ \cup {worker[w].job}]
               ELSE claims
  /\ UNCHANGED <<now, jobs, authority, retention, sweep, server, eraser, faults>>

(* The final reason of a transient answer that may not be retried.         *)
NoRetryReason(w, retryAt) ==
  IF worker[w].attempts >= MaxDeliveryAttempts THEN "retryExhausted"
  ELSE IF retryAt >= jobs[worker[w].job].expires THEN "ttlExpired" ELSE None

(* guard.Complete for a success.                                           *)
CompleteSent(w) ==
  LET j == worker[w].job IN
  /\ worker[w].pc = "answered" /\ worker[w].reply = "sent"
  /\ jobs' = [jobs EXCEPT ![j] = Deleted(jobs[j], "sent")]
  /\ Loop(w)
  /\ UNCHANGED <<now, authority, retention, sweep, server, claims, eraser, faults>>

(* guard.Complete through markFinal, then completeDeliveryFinalization of  *)
(* this one marker; when that fails the error stops the process.           *)
CompleteFinal(w, reason, done) ==
  LET j == worker[w].job
      tbl == [jobs EXCEPT ![j] = [Finalized(jobs[j], reason, now) EXCEPT
                                    !.attempts = worker[w].attempts]]
  IN
  /\ jobs' = CompleteMarkers(tbl, done)
  /\ \/ done = {j} /\ UNCHANGED <<server, faults>>
     \/ done = {} /\ Fault /\ Failed(ServerOf[w])
  /\ Loop(w)
  /\ UNCHANGED <<now, authority, retention, sweep, claims, eraser>>

CompleteRejected(w, done) ==
  /\ worker[w].pc = "answered" /\ worker[w].reply = "rejected"
  /\ CompleteFinal(w, "terminalRejected", done)

CompleteTransientFinal(w, delay, done) ==
  /\ worker[w].pc = "answered" /\ worker[w].reply = "transient"
  /\ NoRetryReason(w, now + delay) # None
  /\ CompleteFinal(w, NoRetryReason(w, now + delay), done)

(* Mutant: a retry does not count the attempt.                             *)
CompleteRetryUncounted(w, delay) ==
  LET j == worker[w].job IN
  /\ worker[w].pc = "answered" /\ worker[w].reply = "transient"
  /\ NoRetryReason(w, now + delay) = None
  /\ jobs' = [jobs EXCEPT ![j].state = "pending", ![j].available = now + delay]
  /\ Loop(w)
  /\ UNCHANGED <<now, authority, retention, sweep, server, claims, eraser, faults>>

CompleteRetry(w, delay) ==
  LET j == worker[w].job IN
  /\ worker[w].pc = "answered" /\ worker[w].reply = "transient"
  /\ NoRetryReason(w, now + delay) = None
  /\ jobs' = [jobs EXCEPT ![j].state = "pending",
                          ![j].attempts = worker[w].attempts,
                          ![j].available = now + delay]
  /\ Loop(w)
  /\ UNCHANGED <<now, authority, retention, sweep, server, claims, eraser, faults>>

Blocked(i) ==
  /\ inst' = [inst EXCEPT ![i].state = "blocked"]
  /\ lease' = [l \in Leases |->
                IF InstallationOf[l] = i /\ lease[l].state # "absent"
                THEN [lease[l] EXCEPT !.state = "blocked"] ELSE lease[l]]
  /\ UNCHANGED <<dedupe, fence>>

(* guard.Complete for an invalid token.  Its UPDATE of the installation    *)
(* waits for every other guard of that installation.  A failed trailing    *)
(* loop is ErrDeliveryFinalizationPending, which stops the process.        *)
CompleteInvalidToken(w, done) ==
  LET j == worker[w].job
      i == InstallationOf[jobs[j].lease]
      tbl == Converted(jobs, i, j, now)
  IN
  /\ worker[w].pc = "answered" /\ worker[w].reply = "invalid"
  /\ \A v \in Guards \ {w} : InstallationOf[jobs[worker[v].job].lease] # i
  /\ Blocked(i)
  /\ FinalizeMarkers(tbl, done)
  /\ IF done = Markers(tbl)
     THEN /\ claims' = [claims EXCEPT ![ServerOf[w]] = @ \ {j}]
          /\ UNCHANGED server
     ELSE Failed(ServerOf[w]) /\ UNCHANGED claims
  /\ Loop(w)
  /\ UNCHANGED <<now, retention, sweep, eraser>>

(* Mutant: the attempt the claim already counted is counted again.         *)
RecordAttemptTwice(w) ==
  /\ worker[w].pc = "answered" /\ worker[w].reply = "cancelled"
  /\ jobs' = [jobs EXCEPT ![worker[w].job].attempts = worker[w].attempts + 1]
  /\ Loop(w)
  /\ UNCHANGED <<now, authority, retention, sweep, server, claims, eraser, faults>>

(* guard.RecordAttempt: the attempt is counted and the claim is left.      *)
RecordAttempt(w) ==
  /\ worker[w].pc = "answered" /\ worker[w].reply = "cancelled"
  /\ jobs' = [jobs EXCEPT ![worker[w].job].attempts = worker[w].attempts]
  /\ Loop(w)
  /\ UNCHANGED <<now, authority, retention, sweep, server, claims, eraser, faults>>

(* Mutant: no lock timeout, a guard waits for ever for the other's share.  *)
CompleteErrorUntimed(w) ==
  LET j == worker[w].job IN
  /\ worker[w].pc = "answered"
  /\ Fault
  /\ jobs' = [jobs EXCEPT ![j].lost = @ + 1]
  /\ IF worker[w].reply \in {"invalid", "cancelled"}
     THEN UNCHANGED server ELSE Failed(ServerOf[w])
  /\ Loop(w)
  /\ UNCHANGED <<now, authority, retention, sweep, claims, eraser>>

(* The guard's transaction rolls back after Apple was called: a failed     *)
(* statement or commit, or, for an invalid token, deadlock detection or    *)
(* the 5 s lock timeout on an installation another guard shares.           *)
CompleteError(w) ==
  LET j == worker[w].job IN
  /\ worker[w].pc = "answered"
  /\ \/ Fault
     \/ /\ worker[w].reply = "invalid"
        /\ \E v \in Guards \ {w} :
             InstallationOf[jobs[worker[v].job].lease] = InstallationOf[jobs[j].lease]
        /\ UNCHANGED faults
  /\ jobs' = [jobs EXCEPT ![j].lost = @ + 1]
  /\ IF worker[w].reply \in {"invalid", "cancelled"}
     THEN UNCHANGED server ELSE Failed(ServerOf[w])
  /\ Loop(w)
  /\ UNCHANGED <<now, authority, retention, sweep, claims, eraser>>

-----------------------------------------------------------------------------
(* What a worker does with a claim it may not push.                        *)

(* persistAndProcessInvalidToken: ConvertInvalidTokenToErasure, then the   *)
(* remembered claim is forgotten.  It finds only a claimed row with its    *)
(* lease and installation; otherwise it changes nothing and succeeds.  Its *)
(* branch for a token that is no longer current is not an action here:     *)
(* QueuedTokenCurrent says no claimed row can take it.                     *)
Convertible(j) == jobs[j].state = "claimed" /\ jobs[j].lease \notin AbsentLeases

Forget(s, j) == claims' = [claims EXCEPT ![s] = @ \ {j}]

ConvertInvalidToken(w, done) ==
  LET j == worker[w].job
      i == InstallationOf[jobs[j].lease]
      tbl == Converted(jobs, i, j, now)
  IN
  /\ worker[w].pc = "converting"
  /\ Convertible(j)
  /\ inst[i].token = jobs[j].token
  /\ i \notin SharedInstallations
  /\ Blocked(i)
  /\ FinalizeMarkers(tbl, done)
  /\ IF done = Markers(tbl)
     THEN Forget(ServerOf[w], j) /\ UNCHANGED server
     ELSE Failed(ServerOf[w]) /\ UNCHANGED claims
  /\ Loop(w)
  /\ UNCHANGED <<now, retention, sweep, eraser>>

ConvertNothing(w) ==
  /\ worker[w].pc = "converting"
  /\ ~Convertible(worker[w].job)
  /\ Forget(ServerOf[w], worker[w].job)
  /\ Loop(w)
  /\ UNCHANGED <<now, jobs, authority, retention, sweep, server, eraser, faults>>

(* The conversion fails or times out on a lock: the claim stays remembered.*)
ConvertError(w) ==
  /\ worker[w].pc = "converting"
  /\ \/ Fault
     \/ /\ Convertible(worker[w].job)
        /\ InstallationOf[jobs[worker[w].job].lease] \in SharedInstallations
        /\ UNCHANGED faults
  /\ Loop(w)
  /\ UNCHANGED <<now, jobs, authority, retention, sweep, server, claims, eraser>>

(* ReleaseDeliveryJob.  It names the row by its identifier alone: it frees *)
(* whatever claim the row carries, an erasure claim included.              *)
ReleasedRow(r) ==
  [r EXCEPT !.state = CASE r.state = "claimed" -> "pending"
                        [] r.state = "erasureClaimed" -> "erasurePending"
                        [] OTHER -> r.state,
            !.available = IF r.state \in {"claimed", "erasureClaimed"}
                          THEN Lesser(@, now) ELSE @]

ClaimExhausted(j) ==
  jobs[j].state = "claimed" /\ jobs[j].attempts >= MaxDeliveryAttempts

ReleaseClaim(w, done) ==
  LET j == worker[w].job
      tbl == IF ClaimExhausted(j)
             THEN MarkFinal(jobs, {j}, "retryExhausted", now)
             ELSE [jobs EXCEPT ![j] = ReleasedRow(jobs[j])]
  IN
  /\ worker[w].pc = "releasing"
  /\ j \notin LockedJobs
  /\ jobs' = CompleteMarkers(tbl, done)
  /\ \/ done = (IF ClaimExhausted(j) THEN {j} ELSE {}) /\ UNCHANGED faults
     \/ done = {} /\ ClaimExhausted(j) /\ Fault
  /\ Loop(w)
  /\ UNCHANGED <<now, authority, retention, sweep, server, claims, eraser>>

(* The release fails, or its 5 s run out on a locked row: it is logged.    *)
ReleaseError(w) ==
  /\ worker[w].pc = "releasing"
  /\ Fault \/ (worker[w].job \in LockedJobs /\ UNCHANGED faults)
  /\ Loop(w)
  /\ UNCHANGED <<now, jobs, authority, retention, sweep, server, claims, eraser>>

(* finalizeClaim: FinalizeDeliveryJob, also by identifier alone.           *)
FinalizeClaim(w, done) ==
  LET j == worker[w].job
      tbl == MarkFinal(jobs, {j}, worker[w].reason, now)
      own == {j} \cap Markers(tbl)
  IN
  /\ worker[w].pc = "finalizing"
  /\ j \notin LockedJobs
  /\ jobs' = CompleteMarkers(tbl, done)
  /\ \/ done = own /\ UNCHANGED <<server, faults>>
     \/ done = {} /\ own # {} /\ Fault /\ Failed(ServerOf[w])
  /\ Loop(w)
  /\ UNCHANGED <<now, authority, retention, sweep, claims, eraser>>

(* A finalization that fails, or whose 5 s run out on a locked row, stops  *)
(* the process.                                                            *)
FinalizeError(w) ==
  /\ worker[w].pc = "finalizing"
  /\ Fault \/ (worker[w].job \in LockedJobs /\ UNCHANGED faults)
  /\ Failed(ServerOf[w])
  /\ Loop(w)
  /\ UNCHANGED <<now, jobs, authority, retention, sweep, claims, eraser>>

-----------------------------------------------------------------------------
(* The deletion-only erasure worker.  It runs whatever the state of        *)
(* retention or of the APNS workers.                                       *)

(* Mutant: a lapsed erasure claim is never returned.                       *)
ErasureNeverLapses(tbl) == tbl

ErasureLapsed(tbl) ==
  [j \in JobIds |->
    IF tbl[j].state = "erasureClaimed" /\ tbl[j].available <= now
    THEN [tbl[j] EXCEPT !.state = "erasurePending", !.available = now]
    ELSE tbl[j]]

ErasureCandidates(tbl) ==
  LET C == {j \in JobIds : tbl[j].state = "erasurePending" /\ tbl[j].available <= now}
  IN  {j \in C : \A k \in C :
         \/ tbl[j].available < tbl[k].available
         \/ tbl[j].available = tbl[k].available /\ tbl[j].created <= tbl[k].created}

(* Bound: a deadline past the end of the clock falls on its last tick.     *)
Within(t) == Lesser(t, MaxTime)

ClaimErasureJob(s, j) ==
  LET tbl == ErasureLapsed(jobs) IN
  /\ server[s] # "down"
  /\ eraser[s].pc = "idle"
  /\ j \in ErasureCandidates(tbl)
  /\ MarkOverdueErasureUnsafe(jobs)
  /\ jobs' = [tbl EXCEPT ![j].state = "erasureClaimed",
                         ![j].available = Within(now + ClaimTTL)]
  /\ eraser' = [eraser EXCEPT ![s] =
       [pc |-> "erasing", job |-> j, installation |-> jobs[j].installation,
        token |-> jobs[j].token]]
  /\ UNCHANGED <<now, authority, sweep, server, claims, worker, faults>>

(* A poll that finds no marker still reports an overdue one.               *)
ClaimNoErasure(s) ==
  /\ server[s] # "down"
  /\ eraser[s].pc = "idle"
  /\ ErasureCandidates(ErasureLapsed(jobs)) = {}
  /\ MarkOverdueErasureUnsafe(jobs)
  /\ UNCHANGED <<now, jobs, authority, sweep, server, claims, worker, eraser, faults>>

(* The rows of leases L go, each leaving a route tombstone at its epoch.   *)
LeasesDropped(L) ==
  /\ dedupe' = [l \in Leases |-> IF l \in L THEN [e \in SourceEvents |-> 0]
                                 ELSE dedupe[l]]
  /\ lease' = [l \in Leases |-> IF l \in L THEN NoLease ELSE lease[l]]

Greater(a, b) == IF a >= b THEN a ELSE b

RouteFence(L) ==
  [l \in Leases |-> IF l \in L THEN Greater(fence.route[l], lease[l].routeKeyEpoch)
                    ELSE fence.route[l]]

InstallationFence(I, epoch) ==
  [i \in Installations |-> IF i \in I THEN Greater(fence.installation[i], epoch[i])
                           ELSE fence.installation[i]]

PolicyEpochs == [i \in Installations |-> inst[i].policyEpoch]

(* EraseInvalidAPNSToken when the failed token is still the current one.   *)
EraseInvalidAPNSToken(s, done) ==
  LET i == eraser[s].installation
      L == LeasesOf(i)
      tbl == Cascade(MarkFinal(jobs, JobsOfLeases(jobs, L), "safetyInvalidated", now),
                     L, {})
  IN
  /\ eraser[s].pc = "erasing"
  /\ i \notin SharedInstallations
  /\ inst[i].token = eraser[s].token
  /\ inst' = [inst EXCEPT ![i].token = None, ![i].state = "blocked",
                          ![i].expires = Lesser(@, now),
                          ![i].controlExpires = Lesser(@, now)]
  /\ LeasesDropped(L)
  /\ fence' = [installation |-> InstallationFence({i}, PolicyEpochs),
               route |-> RouteFence(L)]
  /\ FinalizeMarkers(tbl, done)
  /\ eraser' = [eraser EXCEPT ![s].pc = IF done = Markers(tbl) THEN "deleting"
                                        ELSE "rescheduling"]
  /\ UNCHANGED <<now, retention, sweep, server, claims, worker>>

(* The installation is gone or holds another token: nothing to erase.      *)
EraseNothing(s) ==
  /\ eraser[s].pc = "erasing"
  /\ eraser[s].installation \notin SharedInstallations
  /\ inst[eraser[s].installation].token # eraser[s].token
  /\ eraser' = [eraser EXCEPT ![s].pc = "deleting"]
  /\ UNCHANGED <<now, jobs, authority, retention, sweep, server, claims,
                 worker, faults>>

EraseError(s) ==
  /\ eraser[s].pc = "erasing"
  /\ \/ Fault
     \/ eraser[s].installation \in SharedInstallations /\ UNCHANGED faults
  /\ eraser' = [eraser EXCEPT ![s].pc = "rescheduling"]
  /\ UNCHANGED <<now, jobs, authority, retention, sweep, server, claims, worker>>

DeleteErasureJob(s) ==
  LET j == eraser[s].job IN
  /\ eraser[s].pc = "deleting"
  /\ \/ /\ jobs' = IF jobs[j].state \in Erasure
                   THEN [jobs EXCEPT ![j] = Deleted(jobs[j], "erased")] ELSE jobs
        /\ UNCHANGED faults
     \/ Fault /\ UNCHANGED jobs
  /\ eraser' = [eraser EXCEPT ![s] = IdleEraser]
  /\ UNCHANGED <<now, authority, retention, sweep, server, claims, worker>>

RescheduleInvalidTokenErasure(s, delay) ==
  LET j == eraser[s].job
      tbl == [jobs EXCEPT ![j].state = "erasurePending",
                          ![j].available = Within(now + delay)]
  IN
  /\ eraser[s].pc = "rescheduling"
  /\ IF jobs[j].state = "erasureClaimed"
     THEN jobs' = tbl /\ MarkOverdueErasureUnsafe(tbl)
     ELSE UNCHANGED <<jobs, retention>>
  /\ eraser' = [eraser EXCEPT ![s] = IdleEraser]
  /\ UNCHANGED <<now, authority, sweep, server, claims, worker, faults>>

RescheduleError(s) ==
  /\ eraser[s].pc = "rescheduling"
  /\ Fault
  /\ eraser' = [eraser EXCEPT ![s] = IdleEraser]
  /\ UNCHANGED <<now, jobs, authority, retention, sweep, server, claims, worker>>

-----------------------------------------------------------------------------
(* The retention sweeper of a server.                                      *)

(* Mutant: the sweep starts without marking retention unsafe.              *)
BeginSweepQuietly(s) ==
  /\ server[s] # "down"
  /\ \A r \in Servers : ~sweep[r].active
  /\ ~RetentionSafe \/ now + SweepMargin >= retention.deadline
  /\ Guards = {}
  /\ sweep' = [sweep EXCEPT ![s] = [active |-> TRUE, started |-> now]]
  /\ UNCHANGED <<now, jobs, authority, retention, server, claims, worker, eraser, faults>>

(* Sweep's first statement: under the advisory lock retention is committed *)
(* unsafe before anything is deleted.  The UPDATE waits for every guard.   *)
BeginSweep(s) ==
  /\ server[s] # "down"
  /\ \A r \in Servers : ~sweep[r].active
  /\ ~RetentionSafe \/ now + SweepMargin >= retention.deadline
  /\ Guards = {}
  /\ retention' = [retention EXCEPT !.safe = FALSE]
  /\ sweep' = [sweep EXCEPT ![s] = [active |-> TRUE, started |-> now]]
  /\ UNCHANGED <<now, jobs, authority, server, claims, worker, eraser, faults>>

(* deleteExpiredVaultRows at time t: jobs past their expiry and jobs of    *)
(* expiring authority become markers, every marker is completed, and the   *)
(* expired leases and installations go, with what references them.         *)
ExpiredLeases(t) == {l \in Leases : lease[l].state # "absent" /\ lease[l].expires <= t}
ExpiredInstallations(t) ==
  {i \in Installations : inst[i].state # "absent" /\ inst[i].expires <= t}

(* Mutant: a job that expires at the cut-off survives the sweep.           *)
SweptJobsStrict(t) ==
  LET I == ExpiredInstallations(t)
      L == ExpiredLeases(t) \cup {l \in Leases : InstallationOf[l] \in I}
      late == {j \in JobIds : jobs[j].expires < t}
      ttl == MarkFinal(jobs, late, "ttlExpired", t)
      safety == MarkFinal(ttl, JobsOfLeases(ttl, L), "safetyInvalidated", t)
  IN  Cascade(CompleteMarkers(safety, Markers(safety)), L, I)

SweptJobs(t) ==
  LET I == ExpiredInstallations(t)
      L == ExpiredLeases(t) \cup {l \in Leases : InstallationOf[l] \in I}
      late == {j \in JobIds : jobs[j].expires <= t}
      ttl == MarkFinal(jobs, late, "ttlExpired", t)
      safety == MarkFinal(ttl, JobsOfLeases(ttl, L), "safetyInvalidated", t)
  IN  Cascade(CompleteMarkers(safety, Markers(safety)), L, I)

(* Sweep's serializable transaction and the end of the sweep.  An overdue  *)
(* erasure marker keeps retention unsafe.                                  *)
FinishSweep(s) ==
  LET t == sweep[s].started
      I == ExpiredInstallations(t)
      L == ExpiredLeases(t) \cup {l \in Leases : InstallationOf[l] \in I}
  IN
  /\ sweep[s].active
  /\ jobs' = SweptJobs(t)
  /\ LeasesDropped(L)
  /\ inst' = [i \in Installations |-> IF i \in I THEN NoInstallation ELSE inst[i]]
  /\ fence' = [installation |-> InstallationFence(I, PolicyEpochs),
               route |-> RouteFence(ExpiredLeases(t))]
  /\ retention' = [safe |-> ~OverdueErasure(jobs', now),
                   deadline |-> now + SweepInterval]
  /\ sweep' = [sweep EXCEPT ![s] = IdleSweep]
  /\ UNCHANGED <<now, server, claims, worker, eraser, faults>>

(* The sweep's transaction fails: retention stays unsafe.                  *)
SweepError(s) ==
  /\ sweep[s].active
  /\ Fault
  /\ sweep' = [sweep EXCEPT ![s] = IdleSweep]
  /\ UNCHANGED <<now, jobs, authority, retention, server, claims, worker, eraser>>

-----------------------------------------------------------------------------
(* The registry.  Each operation locks the installation it changes.        *)

(* Mutant: the epoch of the deletion itself is accepted again.             *)
RefreshAcceptedAtFence(i, e) ==
  /\ e >= fence.installation[i]
  /\ inst[i].generation < MaxGeneration
  /\ inst[i].state # "absent" =>
       /\ e >= inst[i].policyEpoch
       /\ e = inst[i].policyEpoch => inst[i].state \in {"active", "awaitingRefresh"}

(* Refresh accepts epoch e for installation i.                             *)
RefreshAccepted(i, e) ==
  /\ e > fence.installation[i]
  /\ inst[i].generation < MaxGeneration
  /\ inst[i].state # "absent" =>
       /\ e >= inst[i].policyEpoch
       /\ e = inst[i].policyEpoch => inst[i].state \in {"active", "awaitingRefresh"}

(* upsertLease accepts route key epoch k for lease l.                      *)
LeaseAccepted(l, k) ==
  /\ k > fence.route[l]
  /\ lease[l].state # "absent" => k >= lease[l].routeKeyEpoch

(* Refresh with token t, policy epoch e and the subscriptions DOMAIN keys, *)
(* each with its route key epoch: a new token invalidates every queued job *)
(* of the installation, a new key or a dropped subscription its own.       *)
Refresh(i, t, e, keys, done) ==
  LET kept == DOMAIN keys
      dropped == {l \in LeasesOf(i) : lease[l].state # "absent"} \ kept
      rekeyed == {l \in kept : lease[l].state # "absent"
                               /\ keys[l] > lease[l].routeKeyEpoch}
      invalid == IF inst[i].state # "absent" /\ inst[i].token # t
                 THEN LeasesOf(i) ELSE rekeyed \cup dropped
      tbl == Cascade(MarkFinal(jobs, JobsOfLeases(jobs, invalid),
                               "safetyInvalidated", now), dropped, {})
  IN
  /\ \E s \in Servers : server[s] = "up"
  /\ RetentionSafe
  /\ i \notin SharedInstallations
  /\ RefreshAccepted(i, e)
  /\ \A l \in kept : LeaseAccepted(l, keys[l])
  /\ inst' = [inst EXCEPT ![i] =
       [state |-> "active", token |-> t, policyEpoch |-> e,
        generation |-> inst[i].generation + 1, expires |-> now + LeaseTTL,
        controlExpires |-> now + ControlTTL]]
  /\ lease' = [l \in Leases |->
       IF l \in kept
       THEN [state |-> "active", policyEpoch |-> e, routeKeyEpoch |-> keys[l],
             expires |-> now + LeaseTTL, controlExpires |-> now + ControlTTL]
       ELSE IF l \in dropped THEN NoLease ELSE lease[l]]
  /\ dedupe' = [l \in Leases |-> IF l \in dropped THEN [ev \in SourceEvents |-> 0]
                                 ELSE dedupe[l]]
  /\ fence' = [fence EXCEPT !.route = RouteFence(dropped)]
  /\ FinalizeMarkers(tbl, done)
  /\ UNCHANGED <<now, retention, sweep, server, claims, worker, eraser>>

(* AdvancePolicy with an active control: routes wait for a full refresh.   *)
(* Queued jobs stay; their epoch no longer matches.                        *)
AdvancePolicyActive(i, e, done) ==
  /\ \E s \in Servers : server[s] = "up"
  /\ RetentionSafe
  /\ i \notin SharedInstallations
  /\ inst[i].state \notin {"absent", "revoking"}
  /\ e > inst[i].policyEpoch
  /\ inst' = [inst EXCEPT ![i].state = "awaitingRefresh", ![i].policyEpoch = e,
                          ![i].controlExpires = now + ControlTTL]
  /\ lease' = [l \in Leases |->
       IF InstallationOf[l] = i /\ lease[l].state # "absent"
       THEN [lease[l] EXCEPT !.state = "awaitingRefresh", !.policyEpoch = e,
                             !.controlExpires = now + ControlTTL]
       ELSE lease[l]]
  /\ FinalizeMarkers(jobs, done)
  /\ UNCHANGED <<now, dedupe, fence, retention, sweep, server, claims, worker, eraser>>

(* AdvancePolicy with a revoked control, whatever the state of retention.  *)
(* A revoke that finds no installation leaves a row to refuse lower epochs.*)
AdvancePolicyRevoked(i, e, done) ==
  LET L == LeasesOf(i)
      tbl == Cascade(MarkFinal(jobs, JobsOfLeases(jobs, L), "safetyInvalidated", now),
                     L, {})
  IN
  /\ \E s \in Servers : server[s] = "up"
  /\ i \notin SharedInstallations
  /\ inst[i].state # "absent" => e > inst[i].policyEpoch
  /\ inst' = [inst EXCEPT ![i] =
       [state |-> "revoking", token |-> None, policyEpoch |-> e,
        generation |-> inst[i].generation,
        expires |-> IF inst[i].state = "absent" THEN now + LeaseTTL
                    ELSE inst[i].expires,
        controlExpires |-> now + ControlTTL]]
  /\ LeasesDropped(L)
  /\ fence' = [installation |-> InstallationFence({i}, [k \in Installations |-> e]),
               route |-> RouteFence(L)]
  /\ IF inst[i].state = "absent" THEN done = {} /\ UNCHANGED <<jobs, faults>>
                                 ELSE FinalizeMarkers(tbl, done)
  /\ UNCHANGED <<now, retention, sweep, server, claims, worker, eraser>>

-----------------------------------------------------------------------------
(* The life of a server process.                                           *)

WorkersOf(s) == {w \in Workers : ServerOf[w] = s}

(* Every transaction of the process rolls back and its memory is lost.  An *)
(* attempt that had reached Apple stays unrecorded.                        *)
ProcessGone(s) ==
  /\ server' = [server EXCEPT ![s] = "down"]
  /\ claims' = [claims EXCEPT ![s] = {}]
  /\ worker' = [w \in Workers |-> IF ServerOf[w] = s THEN Exited ELSE worker[w]]
  /\ eraser' = [eraser EXCEPT ![s] = IdleEraser]
  /\ sweep' = [sweep EXCEPT ![s] = IdleSweep]
  /\ jobs' = [j \in JobIds |->
       IF \E w \in Guards : ServerOf[w] = s /\ worker[w].job = j
       THEN [jobs[j] EXCEPT !.lost = @ + 1] ELSE jobs[j]]

Crash(s) ==
  /\ server[s] # "down"
  /\ Fault
  /\ ProcessGone(s)
  /\ UNCHANGED <<now, authority, retention>>

(* Stop, or the end of the parent context.                                 *)
BeginStop(s) ==
  /\ server[s] = "up"
  /\ Fault
  /\ Failed(s)
  /\ UNCHANGED <<now, jobs, authority, retention, sweep, claims, worker, eraser>>

(* Stop's deadline passes before the workers have drained.                 *)
CancelWork(s) ==
  /\ server[s] = "stopping"
  /\ server' = [server EXCEPT ![s] = "cancelled"]
  /\ UNCHANGED <<now, jobs, authority, retention, sweep, claims, worker, eraser, faults>>

ProcessExit(s) ==
  /\ server[s] \in {"stopping", "cancelled"}
  /\ \A w \in WorkersOf(s) : worker[w].pc = "exited"
  /\ eraser[s].pc = "idle"
  /\ ProcessGone(s)
  /\ UNCHANGED <<now, authority, retention, faults>>

(* The start of a process: the erasure worker first, which makes every     *)
(* pending marker available, then, once retention is safe, the APNS        *)
(* workers, after RecoverDeliveryJobs.                                     *)
StartErasure(s) ==
  LET tbl == ErasureLapsed(jobs) IN
  /\ server[s] = "down"
  /\ server' = [server EXCEPT ![s] = "starting"]
  /\ jobs' = [j \in JobIds |-> IF tbl[j].state = "erasurePending"
                               THEN [tbl[j] EXCEPT !.available = Lesser(@, now)]
                               ELSE tbl[j]]
  /\ MarkOverdueErasureUnsafe(jobs)
  /\ UNCHANGED <<now, authority, sweep, claims, worker, eraser, faults>>

StartDelivery(s) ==
  /\ server[s] = "starting"
  /\ RetentionSafe
  /\ RecoverDeliveryJobs(Markers(RecoveredJobs))
  /\ server' = [server EXCEPT ![s] = "up"]
  /\ worker' = [w \in Workers |-> IF ServerOf[w] = s THEN Idle ELSE worker[w]]
  /\ UNCHANGED <<now, authority, sweep, claims, eraser>>

-----------------------------------------------------------------------------
Enqueue ==
  \E j \in JobIds, l \in Leases, e \in SourceEvents, ttl \in JobTTLs :
    EnqueueDeliveryJob(j, l, e, ttl)

WorkerStep(w) ==
  \/ WorkerExit(w)
  \/ \E j \in JobIds : NextInvalidTokenClaim(w, j)
  \/ \E done \in SUBSET JobIds : ClaimRecover(w, done)
  \/ \E j \in JobIds, done \in SUBSET JobIds : ClaimDeliveryJob(w, j, done)
  \/ ClaimNothing(w)
  \/ CheckStop(w)
  \/ LimiterCancelled(w)
  \/ ProcessClaimedJob(w)
  \/ AcquireDeliveryAttempt(w)
  \/ AcquireError(w)
  \/ AcquireInvalid(w)
  \/ \E reply \in Replies : PushNotification(w, reply)
  \/ CompleteSent(w)
  \/ \E done \in SUBSET JobIds : CompleteRejected(w, done)
  \/ \E delay \in RetryDelays, done \in SUBSET JobIds :
       CompleteTransientFinal(w, delay, done)
  \/ \E delay \in RetryDelays : CompleteRetry(w, delay)
  \/ \E done \in SUBSET JobIds : CompleteInvalidToken(w, done)
  \/ RecordAttempt(w)
  \/ CompleteError(w)
  \/ \E done \in SUBSET JobIds : ConvertInvalidToken(w, done)
  \/ ConvertNothing(w)
  \/ ConvertError(w)
  \/ \E done \in SUBSET JobIds : ReleaseClaim(w, done)
  \/ ReleaseError(w)
  \/ \E done \in SUBSET JobIds : FinalizeClaim(w, done)
  \/ FinalizeError(w)

EraserStep(s) ==
  \/ \E j \in JobIds : ClaimErasureJob(s, j)
  \/ ClaimNoErasure(s)
  \/ \E done \in SUBSET JobIds : EraseInvalidAPNSToken(s, done)
  \/ EraseNothing(s)
  \/ EraseError(s)
  \/ DeleteErasureJob(s)
  \/ \E delay \in RetryDelays : RescheduleInvalidTokenErasure(s, delay)
  \/ RescheduleError(s)

SweeperStep(s) == BeginSweep(s) \/ FinishSweep(s) \/ SweepError(s)

RegistryStep ==
  \E i \in Installations, e \in 1..MaxEpoch, done \in SUBSET JobIds :
    \/ \E t \in Tokens, kept \in SUBSET LeasesOf(i) :
         \E keys \in [kept -> 1..MaxEpoch] : Refresh(i, t, e, keys, done)
    \/ AdvancePolicyActive(i, e, done)
    \/ AdvancePolicyRevoked(i, e, done)

ProcessStep(s) ==
  Crash(s) \/ BeginStop(s) \/ CancelWork(s) \/ ProcessExit(s)
    \/ StartErasure(s) \/ StartDelivery(s)

Next ==
  \/ Tick
  \/ Enqueue
  \/ \E done \in SUBSET JobIds : EnqueueRefused(done)
  \/ \E w \in Workers : WorkerStep(w)
  \/ \E s \in Servers : EraserStep(s) \/ SweeperStep(s) \/ ProcessStep(s)
  \/ RegistryStep

Spec == Init /\ [][Next]_vars

(* Fairness.  Time passes; a goroutine that can run does run, and every    *)
(* wait in it is bounded (request, lock and database timeouts, the poll    *)
(* interval), so its next step is eventually taken; an exited process is   *)
(* started again by the platform.  Nothing is assumed of the registry, of  *)
(* enqueues or of faults, of which there are finitely many.                *)
Fairness ==
  /\ WF_vars(Tick)
  /\ \A w \in Workers : WF_vars(WorkerStep(w))
  /\ \A s \in Servers :
       /\ WF_vars(EraserStep(s))
       /\ WF_vars(SweeperStep(s))
       /\ WF_vars(CancelWork(s))
       /\ WF_vars(ProcessExit(s))
       /\ WF_vars(StartErasure(s))
       /\ WF_vars(StartDelivery(s))

FairSpec == Spec /\ Fairness

-----------------------------------------------------------------------------
(* Safety.                                                                 *)

(* What a guard establishes and keeps until its transaction ends.          *)
AttemptAuthorized(w) ==
  LET j == worker[w].job  l == jobs[j].lease  IN
  /\ jobs[j].state = "claimed"
  /\ jobs[j].attempts + 1 = worker[w].attempts
  /\ lease[l].state = "active"
  /\ inst[InstallationOf[l]].state = "active"
  /\ lease[l].policyEpoch = jobs[j].policyEpoch
  /\ AuthorityMatches(j)
  /\ retention.safe

(* AcquireDeliveryAttempt: "a concurrent revocation, token rotation, or    *)
(* unsafe retention transition completes either before validation or after *)
(* the Apple request has returned".  From the moment a guard is taken      *)
(* until its transaction ends, the job is claimed with the attempt count   *)
(* the worker captured, its route and token are the current ones, and      *)
(* retention is not marked unsafe.                                         *)
EgressAuthorized == \A w \in Guards : AttemptAuthorized(w)

(* The row lock of the guard: no two workers, of one process or of two     *)
(* replicas, have the same job at Apple at the same time, even when one of *)
(* them holds a claim that lapsed and was taken again.                     *)
NoConcurrentEgress ==
  \A v, w \in Guards : worker[v].job = worker[w].job => v = w

(* A job reaches Apple at most MaxDeliveryAttempts times, plus once for    *)
(* each attempt whose transaction was lost after the call: the documented  *)
(* at-least-once window and nothing more.                                  *)
PushesBounded ==
  \A j \in JobIds : jobs[j].pushes <= MaxDeliveryAttempts + jobs[j].lost

(* The terminal observation of a job is written at most once, and never    *)
(* for a job that was delivered or turned into an erasure marker: whatever *)
(* recovery, sweep or worker completes the marker, the DELETE commits with *)
(* the observation.                                                        *)
TerminalObservedOnce ==
  \A j \in JobIds : jobs[j].observed = IF jobs[j].fate = "observed" THEN 1 ELSE 0

(* Within the dedupe window an envelope is queued once per lease: no two   *)
(* sendable jobs exist for the same lease and source event.                *)
OneSendableJobPerEvent ==
  \A j, k \in JobIds :
    /\ jobs[j].state \in Live /\ jobs[k].state \in Live
    /\ jobs[j].lease = jobs[k].lease /\ jobs[j].event = jobs[k].event
    => j = k

(* A queued job carries the current token of its installation: Refresh,    *)
(* revocation and erasure finalize, in the transaction that changes the    *)
(* token, every job that still holds the old one.                          *)
QueuedTokenCurrent ==
  \A j \in JobIds :
    jobs[j].state \in Live =>
      /\ jobs[j].lease \notin AbsentLeases
      /\ inst[InstallationOf[jobs[j].lease]].token = jobs[j].token

(* Sweep marks retention unsafe before it deletes, so a sweep in progress, *)
(* or one that died half way, never shows a safe state.                    *)
SweepShowsUnsafe ==
  \A s \in Servers : sweep[s].active => ~retention.safe

(* An installation or route at or below its deletion fence is never        *)
(* active: neither Refresh nor the policy stream resurrects what a revoke, *)
(* an erasure or the sweep removed.                                        *)
NoResurrection ==
  /\ \A i \in Installations :
       inst[i].state = "active" => inst[i].policyEpoch > fence.installation[i]
  /\ \A l \in Leases :
       lease[l].state # "absent" => lease[l].routeKeyEpoch > fence.route[l]

-----------------------------------------------------------------------------
(* What a step may never do.                                               *)

(* A job leaves the sendable states for good, an erasure marker is never   *)
(* consumed by delivery finalization, and a final marker only disappears.  *)
NeverSendableAgain ==
  [][\A j \in JobIds :
       /\ jobs[j].state \in Erasure => jobs'[j].state \in Erasure \cup {"deleted"}
       /\ jobs[j].state = "final" => jobs'[j].state \in {"final", "deleted"}
       /\ jobs[j].state = "deleted" => jobs'[j].state = "deleted"]_vars

(* No job vanishes unaccounted for: every path that deletes a lease or an  *)
(* installation first turns the jobs on it into markers, so that the       *)
(* foreign keys' ON DELETE CASCADE never reaches a job with an outcome     *)
(* still to be recorded.                                                   *)
NoUnobservedLoss ==
  [][\A j \in JobIds :
       jobs[j].state \in Live \cup {"final"} => jobs'[j].fate # "cascaded"]_vars

(* Retention turns safe only in a completed sweep that leaves no overdue   *)
(* erasure marker, no expired lease and no job past its expiry when the    *)
(* sweep began.                                                            *)
SafeOnlyAfterCleanSweep ==
  [][~retention.safe /\ retention'.safe =>
       /\ ~OverdueErasure(jobs', now)
       /\ \E s \in Servers :
            /\ sweep[s].active
            /\ \A l \in Leases : lease'[l].state # "absent" =>
                                   lease'[l].expires > sweep[s].started
            /\ \A j \in JobIds : jobs'[j].state \in Live =>
                                   jobs'[j].expires > sweep[s].started]_vars

(* What docs/railway-dev-runbook.md says of an invalid token: "The same    *)
(* live process never resubmits that token after Apple classifies it       *)
(* invalid."  While a process remembers an invalid-token answer, none of   *)
(* its workers starts a push with the token of that answer.                *)
NeverResubmitsInvalidToken ==
  [][\A w \in Workers :
       worker[w].pc = "acquiring" /\ worker'[w].pc = "pushing" =>
         \A k \in claims[ServerOf[w]] :
           jobs[k].state \in Live => jobs[k].token # jobs[worker[w].job].token]_vars

(* What docs/railway-dev-runbook.md says of claims: "PostgreSQL queue      *)
(* claims are lease-protected across rolling replicas".  A worker that     *)
(* finalizes a job as safety-invalidated does so because the job's         *)
(* authority or lifetime has ended, never because its own claim lapsed     *)
(* and the job moved on without it.                                        *)
LapsedClaimFinalizesNothing ==
  [][\A w \in Workers :
       LET j == worker[w].job IN
       /\ worker[w].pc = "finalizing" /\ worker[w].reason = "safetyInvalidated"
       /\ jobs[j].state \in Live /\ jobs'[j].state \notin Live
       /\ worker'[w].pc = "loop"
       => ~(RouteCurrent(jobs[j].lease) /\ AuthorityMatches(j)
            /\ jobs[j].expires > now)]_vars

-----------------------------------------------------------------------------
(* Liveness, under FairSpec.                                               *)

(* No job stays sendable for ever: delivered, finalized or converted, by   *)
(* whichever of worker, recovery and sweep gets there, across crashes,     *)
(* failed transactions and periods of unsafe retention.                    *)
JobsSettle ==
  \A j \in JobIds : jobs[j].state \in Live ~> jobs[j].state \notin Live

(* A marker whose completion failed is completed later.                    *)
MarkersCompleted ==
  \A j \in JobIds : jobs[j].state = "final" ~> jobs[j].state = "deleted"

(* Every invalid-token marker is eventually erased and removed, also while *)
(* retention is unsafe, which is what lets retention become safe again.    *)
ErasureCompletes ==
  \A j \in JobIds : jobs[j].state \in Erasure ~> jobs[j].state = "deleted"

-----------------------------------------------------------------------------
(* The inductive invariant behind the safety theorems.                     *)

(* What each step of a worker or eraser relies on in the claim it carries. *)
ClaimsCarried ==
  /\ \A w \in Workers :
       /\ worker[w].pc \notin {"loop", "claiming", "exited"} => worker[w].job \in JobIds
       /\ worker[w].pc \in {"claimed", "limited", "acquiring", "pushing", "answered"} =>
            worker[w].attempts \in 1..MaxDeliveryAttempts
       /\ worker[w].pc = "finalizing" => worker[w].reason \in FinalReasons
  /\ \A s \in Servers :
       eraser[s].pc # "idle" =>
         /\ eraser[s].job \in JobIds
         /\ eraser[s].installation \in Installations
         /\ eraser[s].token \in Tokens

(* A process that is down or has not started delivery runs no worker.      *)
NoStrayWorker ==
  \A w \in Workers :
    server[ServerOf[w]] \in {"down", "starting"} => worker[w].pc = "exited"

OneSweep == \A r, s \in Servers : sweep[r].active /\ sweep[s].active => r = s

IInv ==
  /\ TypeOK
  /\ TableConsistent(jobs, LockedJobs)
  /\ ClaimsCarried
  /\ NoStrayWorker
  /\ EgressAuthorized
  /\ NoConcurrentEgress
  /\ OneSweep
  /\ SweepShowsUnsafe

=============================================================================
