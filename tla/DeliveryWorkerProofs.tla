------------------------ MODULE DeliveryWorkerProofs ------------------------
(***************************************************************************)
(* The steps of the APNS workers keep the rows consistent and egress       *)
(* authorized and exclusive.  A step either leaves every guard undisturbed *)
(* or closes its own.                                                      *)
(***************************************************************************)
EXTENDS DeliveryTypeProofs

(* Guards and rows: no step disturbs what an open guard relies on.         *)

(* A step leaves the guard of w, its row, its route and its installation   *)
(* alone and does not turn retention unsafe.                               *)
Undisturbed(w) ==
  /\ worker'[w].job = worker[w].job /\ worker'[w].attempts = worker[w].attempts
  /\ jobs'[worker[w].job] = jobs[worker[w].job]
  /\ lease'[jobs[worker[w].job].lease] = lease[jobs[worker[w].job].lease]
  /\ inst'[InstallationOf[jobs[worker[w].job].lease]] =
       inst[InstallationOf[jobs[worker[w].job].lease]]
  /\ retention'.safe

Secure ==
  TableConsistent(jobs, LockedJobs) /\ EgressAuthorized /\ NoConcurrentEgress

(* An undisturbed guard stays authorized.                                  *)
LEMMA AuthorityKept ==
  ASSUME IInv, NEW w \in Guards, Undisturbed(w)
  PROVE  AttemptAuthorized(w)'
<1>1. AttemptAuthorized(w)
  BY Zenon DEF IInv, EgressAuthorized
<1> QED
  BY <1>1 DEF AttemptAuthorized, Undisturbed, AuthorityMatches

(* When every guard of the new state was open before and is undisturbed,   *)
(* egress stays authorized and exclusive.                                  *)
LEMMA EgressKept ==
  ASSUME IInv, \A w \in Guards' : w \in Guards /\ Undisturbed(w)
  PROVE  EgressAuthorized' /\ NoConcurrentEgress'
<1>1. EgressAuthorized'
  BY AuthorityKept, Zenon DEF EgressAuthorized
<1>2. NoConcurrentEgress'
  BY DEF IInv, NoConcurrentEgress, Undisturbed
<1> QED
  BY <1>1, <1>2, Zenon

(* A step that opens and closes no guard and disturbs none.                *)
LEMMA QuietStep ==
  ASSUME IInv, Guards' = Guards, \A w \in Guards : Undisturbed(w),
         TableConsistent(jobs', LockedJobs)
  PROVE  Secure'
<1>1. LockedJobs' = LockedJobs
  BY Zenon DEF LockedJobs, Undisturbed
<1>2. EgressAuthorized' /\ NoConcurrentEgress'
  BY EgressKept, Zenon
<1> QED
  BY <1>1, <1>2, Zenon DEF Secure

(* A step that closes the guard of w and disturbs no other.                *)
LEMMA ClosingStep ==
  ASSUME IInv, NEW w \in Guards, Guards' = Guards \ {w},
         \A v \in Guards \ {w} : Undisturbed(v),
         TableConsistent(jobs', LockedJobs \ {worker[w].job})
  PROVE  Secure'
<1>1. LockedJobs' = LockedJobs \ {worker[w].job}
  <2>1. NoConcurrentEgress
    BY Zenon DEF IInv
  <2> QED
    BY <2>1 DEF LockedJobs, Undisturbed, NoConcurrentEgress
<1>2. EgressAuthorized' /\ NoConcurrentEgress'
  BY EgressKept, Zenon
<1> QED
  BY <1>1, <1>2, Zenon DEF Secure

(* A step that touches neither rows, registry nor retention, and no worker *)
(* with an open guard.                                                     *)
LEMMA IdleStep ==
  ASSUME IInv, UNCHANGED <<jobs, lease, inst>>, retention' = retention,
         Guards' = Guards, \A v \in Guards : worker'[v] = worker[v]
  PROVE  Secure'
<1>1. TableConsistent(jobs', LockedJobs)
  BY Zenon DEF IInv
<1>2. \A v \in Guards : Undisturbed(v)
  BY GuardFacts, Zenon DEF Undisturbed
<1> QED
  BY <1>1, <1>2, QuietStep, Zenon

(* A worker without a guard that moves on without one.                     *)
LEMMA WorkerMoves ==
  ASSUME worker \in [Workers -> WorkerState], NEW w \in Workers, w \notin Guards,
         NEW r, worker' = [worker EXCEPT ![w] = r], r.pc \notin {"pushing", "answered"}
  PROVE  Guards' = Guards /\ \A v \in Guards : worker'[v] = worker[v]
  BY Zenon DEF Guards

(* A worker that returns to its loop gives up its guard and no other.      *)
LEMMA LoopGuards ==
  ASSUME worker \in [Workers -> WorkerState], NEW w \in Workers, Loop(w)
  PROVE  Guards' = Guards \ {w} /\ \A v \in Guards \ {w} : worker'[v] = worker[v]
  BY Zenon DEF Guards, Loop, Idle

(* A worker without a guard that goes to a step without one.               *)
LEMMA GotoGuards ==
  ASSUME worker \in [Workers -> WorkerState], NEW w \in Workers, w \notin Guards,
         NEW pc, pc \notin {"pushing", "answered"}, Goto(w, pc)
  PROVE  Guards' = Guards /\ \A v \in Guards : worker'[v] = worker[v]
  BY Zenon DEF Guards, Goto, WorkerState

(* An open guard shares its lease and its installation.                    *)
LEMMA GuardShares ==
  ASSUME IInv, NEW w \in Guards
  PROVE  /\ jobs[worker[w].job].lease \in Leases \cap SharedLeases
         /\ InstallationOf[jobs[worker[w].job].lease] \in SharedInstallations
         /\ jobs[worker[w].job].installation = None
<1>1. worker[w].job \in JobIds /\ worker[w].job \in LockedJobs /\ jobs[worker[w].job].state \in Live
  BY GuardFacts, Zenon DEF Live
<1>2. /\ jobs[worker[w].job].lease \in Leases
      /\ InstallationOf[jobs[worker[w].job].lease] \in Installations
      /\ jobs[worker[w].job].installation = None
  BY <1>1, LiveRow, Zenon
<1> QED
  BY <1>1, <1>2, Zenon DEF SharedLeases, SharedInstallations

(* The trailing loop keeps the rows consistent and leaves claimed rows     *)
(* alone.                                                                  *)
LEMMA FinalizeMarkersSecure ==
  ASSUME NEW tbl \in Table, NEW K, TableConsistent(tbl, K), NEW done,
         FinalizeMarkers(tbl, done)
  PROVE  /\ TableConsistent(jobs', K)
         /\ \A j \in JobIds : tbl[j].state = "claimed" => jobs'[j] = tbl[j]
  BY CompleteMarkersConsistent, UntouchedByFinalization, Zenon DEF FinalizeMarkers

(* RecoverDeliveryJobs keeps the rows consistent and disturbs no guard.    *)
LEMMA RecoverSecure ==
  ASSUME IInv, NEW done, RecoverDeliveryJobs(done)
  PROVE  /\ TableConsistent(jobs', LockedJobs)
         /\ \A w \in Guards : jobs'[worker[w].job] = jobs[worker[w].job]
         /\ Guards # {} => retention' = retention
<1>1. jobs \in Table /\ now \in Nat /\ TableConsistent(jobs, LockedJobs)
      /\ retention \in RetentionRow
  BY Zenon DEF IInv, TypeOK, Table
<1>2. RecoveredJobs \in Table /\ TableConsistent(RecoveredJobs, LockedJobs)
  BY <1>1, RecoveredType, RecoveredConsistent, Zenon DEF RecoveredJobs
<1>3. \A w \in Guards : RecoveredJobs[worker[w].job] = jobs[worker[w].job]
  BY <1>1, GuardFacts, UntouchedByRecovery DEF RecoverDeliveryJobs, Recoverable, RecoveredJobs
<1>4. FinalizeMarkers(RecoveredJobs, done)
  BY Zenon DEF RecoverDeliveryJobs
<1>5. \A w \in Guards : jobs'[worker[w].job] = RecoveredJobs[worker[w].job]
  BY <1>2, <1>3, <1>4, FinalizeMarkersSecure, GuardFacts
<1>6. TableConsistent(jobs', LockedJobs)
  BY <1>2, <1>4, FinalizeMarkersSecure, Zenon
<1>7. Guards # {} => retention' = retention
  BY <1>1, OverdueType, Zenon DEF RecoverDeliveryJobs
<1> QED
  BY <1>3, <1>5, <1>6, <1>7

(* A row written in place of a consistent one keeps the table consistent.  *)
LEMMA RowWritten ==
  ASSUME NEW tbl \in Table, NEW K, TableConsistent(tbl, K), NEW j \in JobIds, NEW r,
         RowConsistent(r, OpenOn(K, j))
  PROVE  TableConsistent([tbl EXCEPT ![j] = r], K)
  BY Zenon DEF TableConsistent, Table

(* The same when the guard on the row is closed with the write.            *)
LEMMA RowClosed ==
  ASSUME NEW tbl \in Table, NEW K, TableConsistent(tbl, K), NEW j \in JobIds, NEW r,
         RowConsistent(r, 0)
  PROVE  TableConsistent([tbl EXCEPT ![j] = r], K \ {j})
  BY Zenon DEF TableConsistent, Table, OpenOn

(* What the invariant says of the row of an open guard: its push is paid   *)
(* for by the attempt the guard's worker carries.                          *)
LEMMA GuardRow ==
  ASSUME IInv, NEW w \in Guards
  PROVE  LET r == jobs[worker[w].job] IN
         /\ r \in JobRow /\ RowConsistent(r, 1) /\ r.state = "claimed"
         /\ r.pushes <= r.lost + worker[w].attempts
         /\ r.pushes <= r.lost + MaxDeliveryAttempts
         /\ r.fate = "none" /\ r.observed = 0
<1> DEFINE j == worker[w].job
<1>1. /\ j \in JobIds /\ jobs[j].state = "claimed"
      /\ jobs[j].attempts + 1 = worker[w].attempts
      /\ worker[w].attempts \in 1..MaxDeliveryAttempts /\ j \in LockedJobs
  BY GuardFacts, Zenon
<1>2. jobs[j] \in JobRow
  BY <1>1, Zenon DEF IInv, TypeOK
<1>3. RowConsistent(jobs[j], 1)
  BY <1>1, Zenon DEF IInv, TableConsistent, OpenOn
<1>4. jobs[j].pushes <= jobs[j].lost + 1 + jobs[j].attempts
  BY <1>1, <1>3, Zenon DEF RowConsistent, Live
<1>5. jobs[j].pushes <= jobs[j].lost + worker[w].attempts
  BY <1>1, <1>2, <1>4 DEF JobRow
<1>6. jobs[j].pushes <= jobs[j].lost + MaxDeliveryAttempts
  BY <1>1, <1>2, <1>5, RowAssumption DEF JobRow, RowAssumption
<1>7. jobs[j].fate = "none" /\ jobs[j].observed = 0
  BY <1>1, <1>3, Zenon DEF RowConsistent
<1> QED
  BY <1>1, <1>2, <1>3, <1>5, <1>6, <1>7, Zenon

(* The end of an attempt that writes only its own row.                     *)
LEMMA AttemptEnds ==
  ASSUME IInv, NEW w \in Guards, Loop(w), inst' = inst, lease' = lease,
         retention' = retention,
         \A k \in JobIds \ {worker[w].job} : jobs'[k] = jobs[k],
         RowConsistent(jobs'[worker[w].job], 0)
  PROVE  Secure'
<1>1. Guards' = Guards \ {w} /\ \A v \in Guards \ {w} : worker'[v] = worker[v]
  BY GuardFacts, LoopGuards, Zenon DEF IInv, TypeOK
<1>2. \A v \in Guards \ {w} : worker[v].job \in JobIds \ {worker[w].job} /\ retention.safe
  BY GuardFacts, Zenon DEF IInv, NoConcurrentEgress
<1>3. \A v \in Guards \ {w} : Undisturbed(v)
  BY <1>1, <1>2, Zenon DEF Undisturbed
<1>4. TableConsistent(jobs', LockedJobs \ {worker[w].job})
  BY DEF IInv, TableConsistent, OpenOn
<1> QED
  BY <1>1, <1>3, <1>4, ClosingStep, Zenon

(* Blocking an installation leaves every other installation and its routes *)
(* alone.                                                                  *)
LEMMA BlockedOnly ==
  ASSUME IInv, NEW i \in Installations, Blocked(i), NEW l \in Leases, InstallationOf[l] # i
  PROVE  lease'[l] = lease[l] /\ inst'[InstallationOf[l]] = inst[InstallationOf[l]]
  BY RowAssumption, Zenon DEF IInv, TypeOK, Blocked, RowAssumption

(* The row of a job in a consistent table, and of one no guard has locked. *)
LEMMA ConsistentRow ==
  ASSUME NEW tbl \in Table, NEW K, TableConsistent(tbl, K), NEW j \in JobIds
  PROVE  /\ tbl[j] \in JobRow /\ RowConsistent(tbl[j], OpenOn(K, j))
         /\ j \notin K => RowConsistent(tbl[j], 0)
<1>1. tbl[j] \in JobRow /\ RowConsistent(tbl[j], OpenOn(K, j))
  BY Zenon DEF Table, TableConsistent
<1>2. j \notin K => OpenOn(K, j) = 0
  BY Zenon DEF OpenOn
<1> QED
  BY <1>1, <1>2, Zenon

(* Converting the token of installation i disturbs no guard of another     *)
(* installation: its row, its route and its installation stay as they are. *)
LEMMA ConversionUndisturbs ==
  ASSUME IInv, jobs \in Table, NEW i \in Installations, NEW j \in JobIds, NEW K, NEW done,
         Converted(jobs, i, j, now) \in Table,
         TableConsistent(Converted(jobs, i, j, now), K),
         FinalizeMarkers(Converted(jobs, i, j, now), done),
         Blocked(i), retention' = retention,
         NEW v \in Guards, worker'[v] = worker[v], worker[v].job # j,
         InstallationOf[jobs[worker[v].job].lease] # i
  PROVE  Undisturbed(v)
<1>1. /\ worker[v].job \in JobIds /\ jobs[worker[v].job].state = "claimed"
      /\ retention.safe
  BY GuardFacts, Zenon
<1>2. jobs[worker[v].job].lease \in Leases /\ jobs[worker[v].job].installation = None
  BY GuardShares, Zenon
<1>3. jobs[worker[v].job].installation # i /\ jobs[worker[v].job].lease \notin LeasesOf(i)
  BY <1>2, RowAssumption, Zenon DEF RowAssumption, LeasesOf
<1>4. Converted(jobs, i, j, now)[worker[v].job] = jobs[worker[v].job]
  BY <1>1, <1>3, UntouchedByConversion
<1>5. jobs'[worker[v].job] = jobs[worker[v].job]
  BY <1>1, <1>4, FinalizeMarkersSecure, Zenon
<1>6. /\ lease'[jobs[worker[v].job].lease] = lease[jobs[worker[v].job].lease]
      /\ inst'[InstallationOf[jobs[worker[v].job].lease]] =
           inst[InstallationOf[jobs[worker[v].job].lease]]
  BY <1>2, BlockedOnly, Zenon
<1> QED
  BY <1>1, <1>5, <1>6, Zenon DEF Undisturbed

(* A claimed row whose push went unrecorded is consistent without a guard. *)
LEMMA LostConsistent ==
  ASSUME NEW r \in JobRow, RowConsistent(r, 1), r.state = "claimed"
  PROVE  RowConsistent([r EXCEPT !.lost = @ + 1], 0)
  BY DEF RowConsistent, JobRow, Live, Erasure

(* A step that writes one unlocked row, completes markers and disturbs no  *)
(* guard: MarkFinal, or an in-place update, of row j.                      *)
LEMMA RowStep ==
  ASSUME IInv, NEW j \in JobIds, j \notin LockedJobs, NEW tbl \in Table,
         TableConsistent(tbl, LockedJobs),
         \A k \in JobIds \ {j} : tbl[k] = jobs[k],
         NEW done, jobs' = CompleteMarkers(tbl, done),
         Guards' = Guards, \A v \in Guards : worker'[v] = worker[v],
         inst' = inst, lease' = lease, retention' = retention
  PROVE  Secure'
<1>1. TableConsistent(jobs', LockedJobs)
  BY CompleteMarkersConsistent, Zenon
<1>2. ASSUME NEW v \in Guards
      PROVE  Undisturbed(v)
  <2>1. /\ worker[v].job \in JobIds \ {j} /\ jobs[worker[v].job].state = "claimed"
        /\ retention.safe
    BY GuardFacts, Zenon
  <2>2. jobs'[worker[v].job] = jobs[worker[v].job]
    BY <2>1, UntouchedByFinalization
  <2> QED
    BY <2>1, <2>2, Zenon DEF Undisturbed
<1> QED
  BY <1>1, <1>2, QuietStep, Zenon

(* ClaimDeliveryJob keeps the rows consistent and egress secure.            *)
LEMMA ClaimDeliveryJobSecure ==
  ASSUME IInv, NEW w \in Workers, NEW j \in JobIds, NEW done \in SUBSET JobIds,
         ClaimDeliveryJob(w, j, done)
  PROVE  Secure'
<1> USE DEF authority
<1>t. TypeOK /\ ClaimsCarried /\ TableConsistent(jobs, LockedJobs)
  BY Zenon DEF IInv
<1>k. jobs \in Table /\ now \in Nat /\ worker \in [Workers -> WorkerState]
  BY <1>t, Zenon DEF TypeOK, Table
<1>g. worker[w].pc \notin {"pushing", "answered"} => w \notin Guards
  BY Zenon DEF Guards
<1>4. ClaimDeliveryJob(w, j, done)
  BY Zenon
<1> QED
  <2> DEFINE tbl == IF MaterialValid(j)
                    THEN [jobs EXCEPT ![j] = ClaimedRow(jobs[j])]
                    ELSE MarkFinal(jobs, {j}, "materialInvalid", now)
  <2>1. jobs[j].state = "pending"
    BY <1>4, Zenon DEF ClaimDeliveryJob, ClaimCandidates, Claimable
  <2>2. Guards' = Guards /\ \A v \in Guards : worker'[v] = worker[v]
    <3>1. CASE Loop(w)
      BY <1>k, <1>g, <1>4, <3>1, LoopGuards, Zenon DEF ClaimDeliveryJob
    <3>2. CASE worker' = [worker EXCEPT ![w] =
                 [Idle EXCEPT !.pc = "claimed", !.job = j,
                              !.attempts = jobs[j].attempts + 1,
                              !.expires = jobs[j].expires,
                              !.day = Day(jobs[j].created)]]
      BY <1>k, <1>g, <1>4, <3>2, WorkerMoves, Zenon DEF ClaimDeliveryJob, Idle
    <3> QED
      BY <1>4, <3>1, <3>2, Zenon DEF ClaimDeliveryJob
  <2>3. tbl \in Table /\ TableConsistent(tbl, LockedJobs)
    <3>1. CASE MaterialValid(j)
      <4>1. jobs[j] \in JobRow /\ RowConsistent(jobs[j], OpenOn(LockedJobs, j))
        BY <1>k, <1>t, Zenon DEF Table, TableConsistent
      <4>2. RowConsistent(ClaimedRow(jobs[j]), OpenOn(LockedJobs, j))
        BY <2>1, <4>1, Zenon DEF RowConsistent, ClaimedRow, Live, Erasure, JobRow
      <4>3. ClaimedRow(jobs[j]) \in JobRow
        BY <1>k, <4>1, ClaimReleaseType, Zenon
      <4>4. TableConsistent([jobs EXCEPT ![j] = ClaimedRow(jobs[j])], LockedJobs)
        BY <1>k, <1>t, <4>2, RowWritten, Zenon
      <4> QED
        BY <1>k, <3>1, <4>3, <4>4, Zenon DEF Table
    <3>2. CASE ~MaterialValid(j)
      BY <1>k, <1>t, <3>2, MarkFinalType, MarkFinalConsistent, Zenon DEF FinalReasons
    <3> QED
      BY <3>1, <3>2, Zenon
  <2>4. \A v \in Guards : tbl[worker[v].job] = jobs[worker[v].job]
    <3> TAKE v \in Guards
    <3>1. worker[v].job \in JobIds /\ jobs[worker[v].job].state = "claimed"
      BY GuardFacts, Zenon
    <3>2. worker[v].job # j
      BY <2>1, <3>1, Zenon
    <3> QED
      BY <1>k, <3>1, <3>2, Zenon DEF MarkFinal, Table
  <2>5. FinalizeMarkers(tbl, done)
    BY <1>4, Zenon DEF ClaimDeliveryJob
  <2> HIDE DEF tbl
  <2>6. TableConsistent(jobs', LockedJobs)
    BY <2>3, <2>5, FinalizeMarkersSecure, Zenon
  <2>7. \A v \in Guards : jobs'[worker[v].job] = jobs[worker[v].job]
    BY <2>3, <2>4, <2>5, FinalizeMarkersSecure, GuardFacts
  <2>8. \A v \in Guards : Undisturbed(v)
    BY <1>4, <2>2, <2>7, GuardFacts, Zenon DEF ClaimDeliveryJob, Undisturbed
  <2> QED
    BY <2>2, <2>6, <2>8, QuietStep, Zenon

(* AcquireDeliveryAttempt keeps the rows consistent and egress secure.      *)
LEMMA AcquireDeliveryAttemptSecure ==
  ASSUME IInv, NEW w \in Workers,
         AcquireDeliveryAttempt(w)
  PROVE  Secure'
<1> USE DEF authority
<1>t. TypeOK /\ ClaimsCarried /\ TableConsistent(jobs, LockedJobs)
  BY Zenon DEF IInv
<1>j. worker[w].pc \notin {"loop", "claiming", "exited"} => worker[w].job \in JobIds
  BY <1>t, Zenon DEF ClaimsCarried
<1>k. jobs \in Table /\ now \in Nat /\ worker \in [Workers -> WorkerState]
  BY <1>t, Zenon DEF TypeOK, Table
<1>g. worker[w].pc \notin {"pushing", "answered"} => w \notin Guards
  BY Zenon DEF Guards
<1>9. AcquireDeliveryAttempt(w)
  BY Zenon
<1> QED
  <2> DEFINE j == worker[w].job
             l == jobs[j].lease
  <2>1. j \in JobIds /\ j \notin LockedJobs /\ w \notin Guards
    BY <1>j, <1>g, <1>9, Zenon DEF AcquireDeliveryAttempt
  <2>2. /\ jobs[j] \in JobRow /\ RowConsistent(jobs[j], 0) /\ jobs[j].state = "claimed"
        /\ jobs[j].attempts = worker[w].attempts - 1 /\ worker[w].attempts \in Nat
    BY <1>k, <1>t, <1>9, <2>1
       DEF AcquireDeliveryAttempt, ClaimHeld, Table, TableConsistent, OpenOn, WorkerState
  <2>3. /\ worker' = [worker EXCEPT ![w].pc = "pushing"]
        /\ jobs' = [jobs EXCEPT ![j].pushes = @ + 1]
        /\ lease' = lease /\ inst' = inst /\ retention' = retention
    BY <1>9, Zenon DEF AcquireDeliveryAttempt, Goto
  <2>4. /\ worker'[w].job = j /\ worker'[w].attempts = worker[w].attempts
        /\ \A v \in Guards : worker'[v] = worker[v]
        /\ Guards' = Guards \cup {w}
    BY <1>k, <2>1, <2>3, Zenon DEF Guards, WorkerState
  <2>5. LockedJobs' = LockedJobs \cup {j}
    BY <2>4, Zenon DEF LockedJobs
  <2>6. jobs'[j] = [jobs[j] EXCEPT !.pushes = @ + 1]
    BY <1>k, <2>1, <2>3, Zenon DEF Table
  <2>7. \A k \in JobIds \ {j} : jobs'[k] = jobs[k]
    BY <1>k, <2>3, Zenon DEF Table
  <2>8. TableConsistent(jobs', LockedJobs')
    <3> SUFFICES ASSUME NEW k \in JobIds
                 PROVE  RowConsistent(jobs'[k], OpenOn(LockedJobs', k))
      BY Zenon DEF TableConsistent
    <3>1. CASE k = j
      <4>1. OpenOn(LockedJobs', k) = 1
        BY <2>5, <3>1, Zenon DEF OpenOn
      <4>2. RowConsistent([jobs[j] EXCEPT !.pushes = @ + 1], 1)
        BY <2>2 DEF RowConsistent, JobRow, Live, Erasure
      <4> QED
        BY <2>6, <3>1, <4>1, <4>2, Zenon
    <3>2. CASE k # j
      <4>1. OpenOn(LockedJobs', k) = OpenOn(LockedJobs, k)
        BY <2>5, <3>2, Zenon DEF OpenOn
      <4> QED
        BY <1>t, <2>7, <3>2, <4>1, Zenon DEF TableConsistent
    <3> QED
      BY <3>1, <3>2, Zenon
  <2>9. AttemptAuthorized(w)'
    <3>1. /\ jobs'[j].state = "claimed" /\ jobs'[j].attempts = jobs[j].attempts
          /\ jobs'[j].lease = l /\ jobs'[j].token = jobs[j].token
          /\ jobs'[j].policyEpoch = jobs[j].policyEpoch
          /\ jobs'[j].routeKeyEpoch = jobs[j].routeKeyEpoch
      BY <2>2, <2>6, Zenon DEF JobRow
    <3>2. jobs'[j].attempts + 1 = worker'[w].attempts
      BY <2>2, <2>4, <3>1
    <3>3. RouteCurrent(l) /\ AuthorityMatches(j) /\ retention.safe
      BY <1>9, Zenon DEF AcquireDeliveryAttempt, RetentionSafe
    <3>4. /\ lease[l].state = "active" /\ inst[InstallationOf[l]].state = "active"
          /\ lease[l].policyEpoch = jobs[j].policyEpoch
          /\ inst[InstallationOf[l]].policyEpoch = jobs[j].policyEpoch
          /\ lease[l].routeKeyEpoch = jobs[j].routeKeyEpoch
          /\ inst[InstallationOf[l]].token = jobs[j].token
      BY <3>3, Zenon DEF RouteCurrent, AuthorityMatches
    <3>5. AuthorityMatches(worker[w].job)'
      BY <2>3, <2>4, <3>1, <3>4 DEF AuthorityMatches
    <3>6. /\ lease'[jobs'[j].lease].state = "active"
          /\ inst'[InstallationOf[jobs'[j].lease]].state = "active"
          /\ lease'[jobs'[j].lease].policyEpoch = jobs'[j].policyEpoch
          /\ retention'.safe
      BY <2>3, <3>1, <3>3, <3>4, Zenon
    <3>7. worker'[w].job = j /\ jobs'[j].state = "claimed"
      BY <2>4, <3>1, Zenon
    <3> QED
      BY <3>2, <3>5, <3>6, <3>7, Zenon DEF AttemptAuthorized
  <2>10. \A v \in Guards : AttemptAuthorized(v)'
    <3> TAKE v \in Guards
    <3>1. worker[v].job \in JobIds \ {j} /\ retention.safe
      BY <2>1, GuardFacts, Zenon
    <3>2. Undisturbed(v)
      BY <2>3, <2>4, <2>7, <3>1, Zenon DEF Undisturbed
    <3> QED
      BY <3>2, AuthorityKept, Zenon
  <2>11. EgressAuthorized'
    BY <2>4, <2>9, <2>10, Zenon DEF EgressAuthorized
  <2>12. NoConcurrentEgress'
    <3>1. \A v \in Guards : worker'[v].job # j
      BY <2>1, <2>4, Zenon DEF LockedJobs
    <3> QED
      BY <2>4, <3>1 DEF IInv, NoConcurrentEgress
  <2> QED
    BY <2>8, <2>11, <2>12, Zenon DEF Secure

(* FinalAttempt keeps the rows consistent and egress secure.                *)
LEMMA FinalAttemptSecure ==
  ASSUME IInv, NEW w \in Workers,
         NEW reason \in FinalReasons, NEW done \in SUBSET JobIds,
         worker[w].pc = "answered",
         CompleteFinal(w, reason, done)
  PROVE  Secure'
<1> USE DEF authority
<1>t. TypeOK /\ ClaimsCarried /\ TableConsistent(jobs, LockedJobs)
  BY Zenon DEF IInv
<1>j. worker[w].pc \notin {"loop", "claiming", "exited"} => worker[w].job \in JobIds
  BY <1>t, Zenon DEF ClaimsCarried
<1>k. jobs \in Table /\ now \in Nat /\ worker \in [Workers -> WorkerState]
  BY <1>t, Zenon DEF TypeOK, Table
<1>a. worker[w].pc = "answered" => w \in Guards
  BY Zenon DEF Guards
<1>14. (worker[w].pc = "answered") /\ (CompleteFinal(w, reason, done))
  BY Zenon
<1> QED
  <2> DEFINE j == worker[w].job
             r == jobs[j]
             row == [Finalized(r, reason, now) EXCEPT !.attempts = worker[w].attempts]
             gone == [Deleted(row, "observed") EXCEPT !.observed = @ + 1]
  <2>1. w \in Guards /\ j \in JobIds
    BY <1>a, <1>j, <1>14, Zenon
  <2>2. /\ r \in JobRow /\ r.state = "claimed" /\ r.fate = "none" /\ r.observed = 0
        /\ r.pushes <= r.lost + worker[w].attempts
        /\ worker[w].attempts \in 0..MaxDeliveryAttempts
    BY <2>1, GuardRow, GuardFacts, RowAssumption DEF RowAssumption
  <2>3. row \in JobRow /\ row.state = "final"
    <3>1. Finalized(r, reason, now) \in JobRow
      BY <1>k, <2>2, FinalizedType, Zenon
    <3>2. row \in JobRow
      BY <2>2, <3>1, RowUpdateType, Zenon
    <3>3. Finalized(r, reason, now).state = "final"
      BY <2>2, Zenon DEF Finalized, PayloadRemoved, JobRow
    <3> QED
      BY <3>1, <3>2, <3>3, Zenon DEF JobRow
  <2>4. RowConsistent(row, 0)
    BY <2>2 DEF RowConsistent, Finalized, PayloadRemoved, JobRow, Live, Erasure
  <2>5. RowConsistent(gone, 0)
    BY <2>3, <2>4, CompletedConsistent, Zenon
  <2>6. jobs' = CompleteMarkers([jobs EXCEPT ![j] = row], done) /\ done \in {{}, {j}}
    BY <1>14, Zenon DEF CompleteFinal
  <2> HIDE DEF row
  <2>7. jobs'[j] \in {row, gone} /\ \A k \in JobIds \ {j} : jobs'[k] = jobs[k]
    BY <1>k, <2>1, <2>3, <2>6, Zenon DEF CompleteMarkers, Table
  <2>8. RowConsistent(jobs'[j], 0)
    BY <2>4, <2>5, <2>7, Zenon
  <2> QED
    BY <1>14, <2>1, <2>7, <2>8, AttemptEnds, Zenon DEF CompleteFinal

(* CompleteRetry keeps the rows consistent and egress secure.               *)
LEMMA CompleteRetrySecure ==
  ASSUME IInv, NEW w \in Workers, NEW delay \in RetryDelays,
         CompleteRetry(w, delay)
  PROVE  Secure'
<1> USE DEF authority
<1>t. TypeOK /\ ClaimsCarried /\ TableConsistent(jobs, LockedJobs)
  BY Zenon DEF IInv
<1>j. worker[w].pc \notin {"loop", "claiming", "exited"} => worker[w].job \in JobIds
  BY <1>t, Zenon DEF ClaimsCarried
<1>k. jobs \in Table /\ now \in Nat /\ worker \in [Workers -> WorkerState]
  BY <1>t, Zenon DEF TypeOK, Table
<1>a. worker[w].pc = "answered" => w \in Guards
  BY Zenon DEF Guards
<1>17. CompleteRetry(w, delay)
  BY Zenon
<1> QED
  <2> DEFINE j == worker[w].job
             r == jobs[j]
             row == [r EXCEPT !.state = "pending", !.attempts = worker[w].attempts,
                              !.available = now + delay]
  <2>1. w \in Guards /\ j \in JobIds
    BY <1>a, <1>j, <1>17, Zenon DEF CompleteRetry
  <2>2. r \in JobRow /\ RowConsistent(r, 1) /\ r.state = "claimed"
        /\ r.pushes <= r.lost + worker[w].attempts
    BY <2>1, GuardRow, Zenon
  <2>3. RowConsistent(row, 0)
    BY <2>2 DEF RowConsistent, JobRow, Live, Erasure
  <2>4. jobs'[j] = row /\ \A k \in JobIds \ {j} : jobs'[k] = jobs[k]
    BY <1>k, <1>17, <2>1, Zenon DEF CompleteRetry, Table
  <2> QED
    BY <1>17, <2>1, <2>3, <2>4, AttemptEnds, Zenon DEF CompleteRetry

(* CompleteInvalidToken keeps the rows consistent and egress secure.        *)
LEMMA CompleteInvalidTokenSecure ==
  ASSUME IInv, NEW w \in Workers, NEW done \in SUBSET JobIds,
         CompleteInvalidToken(w, done)
  PROVE  Secure'
<1> USE DEF authority
<1>t. TypeOK /\ ClaimsCarried /\ TableConsistent(jobs, LockedJobs)
  BY Zenon DEF IInv
<1>j. worker[w].pc \notin {"loop", "claiming", "exited"} => worker[w].job \in JobIds
  BY <1>t, Zenon DEF ClaimsCarried
<1>k. jobs \in Table /\ now \in Nat /\ worker \in [Workers -> WorkerState]
  BY <1>t, Zenon DEF TypeOK, Table
<1>a. worker[w].pc = "answered" => w \in Guards
  BY Zenon DEF Guards
<1>18. CompleteInvalidToken(w, done)
  BY Zenon
<1> QED
  <2> DEFINE j == worker[w].job
             i == InstallationOf[jobs[j].lease]
             tbl == Converted(jobs, i, j, now)
  <2>1. w \in Guards /\ j \in JobIds /\ i \in Installations
    BY <1>a, <1>j, <1>18, GuardFacts, LiveRow, Zenon DEF CompleteInvalidToken, Live
  <2>2. jobs[j].state = "claimed" /\ jobs[j].pushes <= jobs[j].lost + MaxDeliveryAttempts
    BY <2>1, GuardRow, Zenon
  <2>3. tbl \in Table /\ TableConsistent(tbl, LockedJobs \ {j})
    BY <1>k, <1>t, <2>1, <2>2, ConvertedType, ConvertedConsistent, Zenon
  <2>4. FinalizeMarkers(tbl, done) /\ Blocked(i) /\ retention' = retention /\ Loop(w)
    BY <1>18, Zenon DEF CompleteInvalidToken
  <2>5. Guards' = Guards \ {w} /\ \A v \in Guards \ {w} : worker'[v] = worker[v]
    BY <1>k, <2>4, LoopGuards, Zenon
  <2>6. ASSUME NEW v \in Guards \ {w}
        PROVE  Undisturbed(v)
    <3>1. worker[v].job # j
      BY <2>1, Zenon DEF IInv, NoConcurrentEgress
    <3>2. InstallationOf[jobs[worker[v].job].lease] # i
      BY <1>18, Zenon DEF CompleteInvalidToken
    <3> HIDE DEF i, j
    <3> QED
      BY <1>k, <2>1, <2>3, <2>4, <2>5, <3>1, <3>2, ConversionUndisturbs, Zenon
  <2>7. TableConsistent(jobs', LockedJobs \ {j})
    BY <2>3, <2>4, FinalizeMarkersSecure, Zenon
  <2> QED
    BY <2>1, <2>5, <2>6, <2>7, ClosingStep, Zenon

(* RecordAttempt keeps the rows consistent and egress secure.               *)
LEMMA RecordAttemptSecure ==
  ASSUME IInv, NEW w \in Workers,
         RecordAttempt(w)
  PROVE  Secure'
<1> USE DEF authority
<1>t. TypeOK /\ ClaimsCarried /\ TableConsistent(jobs, LockedJobs)
  BY DEF IInv
<1>j. worker[w].pc \notin {"loop", "claiming", "exited"} => worker[w].job \in JobIds
  BY <1>t DEF ClaimsCarried
<1>k. jobs \in Table /\ now \in Nat /\ worker \in [Workers -> WorkerState]
  BY <1>t DEF TypeOK, Table
<1>a. worker[w].pc = "answered" => w \in Guards
  BY Zenon DEF Guards
<1>19. RecordAttempt(w)
  OBVIOUS
<1> QED
  <2> DEFINE j == worker[w].job
             r == jobs[j]
             row == [r EXCEPT !.attempts = worker[w].attempts]
  <2>1. w \in Guards /\ j \in JobIds
    BY <1>a, <1>j, <1>19, Zenon DEF RecordAttempt
  <2>2. r \in JobRow /\ RowConsistent(r, 1) /\ r.state = "claimed"
        /\ r.pushes <= r.lost + worker[w].attempts
    BY <2>1, GuardRow, Zenon
  <2>3. RowConsistent(row, 0)
    BY <2>2 DEF RowConsistent, JobRow, Live, Erasure
  <2>4. jobs'[j] = row /\ \A k \in JobIds \ {j} : jobs'[k] = jobs[k]
    BY <1>k, <1>19, <2>1, Zenon DEF RecordAttempt, Table
  <2> QED
    BY <1>19, <2>1, <2>3, <2>4, AttemptEnds, Zenon DEF RecordAttempt

(* CompleteError keeps the rows consistent and egress secure.               *)
LEMMA CompleteErrorSecure ==
  ASSUME IInv, NEW w \in Workers,
         CompleteError(w)
  PROVE  Secure'
<1> USE DEF authority
<1>t. TypeOK /\ ClaimsCarried /\ TableConsistent(jobs, LockedJobs)
  BY DEF IInv
<1>j. worker[w].pc \notin {"loop", "claiming", "exited"} => worker[w].job \in JobIds
  BY <1>t DEF ClaimsCarried
<1>k. jobs \in Table /\ now \in Nat /\ worker \in [Workers -> WorkerState]
  BY <1>t DEF TypeOK, Table
<1>a. worker[w].pc = "answered" => w \in Guards
  BY DEF Guards
<1>20. CompleteError(w)
  OBVIOUS
<1> QED
  <2> DEFINE j == worker[w].job
             r == jobs[j]
             row == [r EXCEPT !.lost = @ + 1]
  <2>1. w \in Guards /\ j \in JobIds
    BY <1>a, <1>j, <1>20, Zenon DEF CompleteError
  <2>2. r \in JobRow /\ RowConsistent(r, 1) /\ r.state = "claimed"
    BY <2>1, GuardRow, Zenon
  <2>3. RowConsistent(row, 0)
    BY <2>2, LostConsistent, Zenon
  <2>4. jobs'[j] = row /\ \A k \in JobIds \ {j} : jobs'[k] = jobs[k]
    BY <1>k, <1>20, <2>1, Zenon DEF CompleteError, Table
  <2> QED
    BY <1>20, <2>1, <2>3, <2>4, AttemptEnds, Zenon DEF CompleteError

(* ConvertInvalidToken keeps the rows consistent and egress secure.         *)
LEMMA ConvertInvalidTokenSecure ==
  ASSUME IInv, NEW w \in Workers, NEW done \in SUBSET JobIds,
         ConvertInvalidToken(w, done)
  PROVE  Secure'
<1> USE DEF authority
<1>t. TypeOK /\ ClaimsCarried /\ TableConsistent(jobs, LockedJobs)
  BY DEF IInv
<1>j. worker[w].pc \notin {"loop", "claiming", "exited"} => worker[w].job \in JobIds
  BY <1>t DEF ClaimsCarried
<1>k. jobs \in Table /\ now \in Nat /\ worker \in [Workers -> WorkerState]
  BY <1>t DEF TypeOK, Table
<1>g. worker[w].pc \notin {"pushing", "answered"} => w \notin Guards
  BY Zenon DEF Guards
<1>21. ConvertInvalidToken(w, done)
  OBVIOUS
<1> QED
  <2> DEFINE j == worker[w].job
             i == InstallationOf[jobs[j].lease]
             tbl == Converted(jobs, i, j, now)
  <2>1. j \in JobIds /\ jobs[j].state = "claimed" /\ i \notin SharedInstallations
    BY <1>j, <1>21, Zenon DEF ConvertInvalidToken, Convertible
  <2>2. i \in Installations
    BY <2>1, LiveRow, Zenon DEF Live
  <2>3. j \notin LockedJobs
    BY <2>1, GuardShares, Zenon DEF LockedJobs
  <2>4. jobs[j] \in JobRow /\ RowConsistent(jobs[j], 0)
    BY <1>k, <1>t, <2>1, <2>3, ConsistentRow, Zenon
  <2>5. jobs[j].pushes <= jobs[j].lost + MaxDeliveryAttempts
    BY <2>1, <2>4, RowAssumption DEF RowConsistent, JobRow, Live, RowAssumption
  <2>6. LockedJobs \ {j} = LockedJobs
    BY <2>3, Zenon
  <2>7. tbl \in Table /\ TableConsistent(tbl, LockedJobs)
    <3>1. tbl \in Table
      BY <1>k, <2>1, <2>2, ConvertedType, Zenon
    <3>2. TableConsistent(tbl, LockedJobs \ {j})
      BY <1>k, <1>t, <2>1, <2>2, <2>5, ConvertedConsistent, Zenon
    <3> QED
      BY <2>6, <3>1, <3>2, Zenon
  <2>8. /\ FinalizeMarkers(tbl, done) /\ Blocked(i) /\ retention' = retention /\ Loop(w)
        /\ w \notin Guards
    BY <1>21, <1>g, Zenon DEF ConvertInvalidToken
  <2>9. Guards' = Guards /\ \A v \in Guards : worker'[v] = worker[v]
    BY <1>k, <2>8, LoopGuards, Zenon
  <2>10. ASSUME NEW v \in Guards
         PROVE  Undisturbed(v)
    <3>1. worker[v].job # j
      BY <2>3, Zenon DEF LockedJobs
    <3>2. InstallationOf[jobs[worker[v].job].lease] # i
      BY <2>1, GuardShares, Zenon
    <3> HIDE DEF i, j
    <3> QED
      BY <1>k, <2>1, <2>2, <2>7, <2>8, <2>9, <3>1, <3>2, ConversionUndisturbs, Zenon
  <2>11. TableConsistent(jobs', LockedJobs)
    BY <2>7, <2>8, FinalizeMarkersSecure, Zenon
  <2> QED
    BY <2>9, <2>10, <2>11, QuietStep, Zenon

(* ReleaseClaim keeps the rows consistent and egress secure.                *)
LEMMA ReleaseClaimSecure ==
  ASSUME IInv, NEW w \in Workers, NEW done \in SUBSET JobIds,
         ReleaseClaim(w, done)
  PROVE  Secure'
<1> USE DEF authority
<1>t. TypeOK /\ ClaimsCarried /\ TableConsistent(jobs, LockedJobs)
  BY DEF IInv
<1>j. worker[w].pc \notin {"loop", "claiming", "exited"} => worker[w].job \in JobIds
  BY <1>t DEF ClaimsCarried
<1>k. jobs \in Table /\ now \in Nat /\ worker \in [Workers -> WorkerState]
  BY <1>t DEF TypeOK, Table
<1>g. worker[w].pc \notin {"pushing", "answered"} => w \notin Guards
  BY DEF Guards
<1>24. ReleaseClaim(w, done)
  OBVIOUS
<1> QED
  <2> DEFINE j == worker[w].job
             tbl == IF ClaimExhausted(j)
                    THEN MarkFinal(jobs, {j}, "retryExhausted", now)
                    ELSE [jobs EXCEPT ![j] = ReleasedRow(jobs[j])]
  <2>1. j \in JobIds /\ j \notin LockedJobs /\ w \notin Guards
    BY <1>j, <1>g, <1>24, Zenon DEF ReleaseClaim
  <2>2. Guards' = Guards /\ \A v \in Guards : worker'[v] = worker[v]
    BY <1>k, <1>24, <2>1, LoopGuards, Zenon DEF ReleaseClaim
  <2>3. tbl \in Table /\ TableConsistent(tbl, LockedJobs)
    <3>1. CASE ClaimExhausted(j)
      BY <1>k, <1>t, <3>1, MarkFinalType, MarkFinalConsistent, Zenon DEF FinalReasons
    <3>2. CASE ~ClaimExhausted(j)
      <4>1. jobs[j] \in JobRow /\ RowConsistent(jobs[j], OpenOn(LockedJobs, j))
        BY <1>k, <1>t, <2>1, ConsistentRow, Zenon
      <4>2. RowConsistent(ReleasedRow(jobs[j]), OpenOn(LockedJobs, j))
        BY <4>1, Zenon DEF RowConsistent, ReleasedRow, Live, Erasure, JobRow
      <4>3. ReleasedRow(jobs[j]) \in JobRow
        BY <1>k, <4>1, ClaimReleaseType, Zenon
      <4>4. TableConsistent([jobs EXCEPT ![j] = ReleasedRow(jobs[j])], LockedJobs)
        BY <1>k, <1>t, <2>1, <4>2, RowWritten, Zenon
      <4> QED
        BY <1>k, <3>2, <4>3, <4>4, Zenon DEF Table
    <3> QED
      BY <3>1, <3>2, Zenon
  <2>4. \A k \in JobIds \ {j} : tbl[k] = jobs[k]
    BY <1>k, Zenon DEF MarkFinal, Table
  <2>5. jobs' = CompleteMarkers(tbl, done) /\ inst' = inst /\ lease' = lease
        /\ retention' = retention
    BY <1>24, Zenon DEF ReleaseClaim
  <2> HIDE DEF tbl
  <2> QED
    BY <2>1, <2>2, <2>3, <2>4, <2>5, RowStep, Zenon

(* FinalizeClaim keeps the rows consistent and egress secure.               *)
LEMMA FinalizeClaimSecure ==
  ASSUME IInv, NEW w \in Workers, NEW done \in SUBSET JobIds,
         FinalizeClaim(w, done)
  PROVE  Secure'
<1> USE DEF authority
<1>t. TypeOK /\ ClaimsCarried /\ TableConsistent(jobs, LockedJobs)
  BY DEF IInv
<1>j. worker[w].pc \notin {"loop", "claiming", "exited"} => worker[w].job \in JobIds
  BY <1>t DEF ClaimsCarried
<1>k. jobs \in Table /\ now \in Nat /\ worker \in [Workers -> WorkerState]
  BY <1>t DEF TypeOK, Table
<1>g. worker[w].pc \notin {"pushing", "answered"} => w \notin Guards
  BY DEF Guards
<1>26. FinalizeClaim(w, done)
  OBVIOUS
<1> QED
  <2> DEFINE j == worker[w].job
             tbl == MarkFinal(jobs, {j}, worker[w].reason, now)
  <2>1. j \in JobIds /\ j \notin LockedJobs /\ w \notin Guards /\ worker[w].reason \in FinalReasons
    BY <1>t, <1>j, <1>g, <1>26, Zenon DEF FinalizeClaim, ClaimsCarried
  <2>2. Guards' = Guards /\ \A v \in Guards : worker'[v] = worker[v]
    BY <1>k, <1>26, <2>1, LoopGuards, Zenon DEF FinalizeClaim
  <2>3. tbl \in Table /\ TableConsistent(tbl, LockedJobs)
    BY <1>k, <1>t, <2>1, MarkFinalType, MarkFinalConsistent, Zenon
  <2>4. \A k \in JobIds \ {j} : tbl[k] = jobs[k]
    BY <1>k, Zenon DEF MarkFinal, Table
  <2>5. jobs' = CompleteMarkers(tbl, done) /\ inst' = inst /\ lease' = lease
        /\ retention' = retention
    BY <1>26, Zenon DEF FinalizeClaim
  <2> HIDE DEF tbl
  <2> QED
    BY <2>1, <2>2, <2>3, <2>4, <2>5, RowStep, Zenon

(* The steps of an APNS worker keep the rows consistent and egress secure. *)
LEMMA WorkerSecureStep ==
  ASSUME IInv, NEW w \in Workers, WorkerStep(w)
  PROVE  Secure'
<1> USE DEF authority
<1>t. TypeOK /\ ClaimsCarried /\ TableConsistent(jobs, LockedJobs)
  BY DEF IInv
<1>j. worker[w].pc \notin {"loop", "claiming", "exited"} => worker[w].job \in JobIds
  BY <1>t DEF ClaimsCarried
<1>k. jobs \in Table /\ now \in Nat /\ worker \in [Workers -> WorkerState]
  BY <1>t DEF TypeOK, Table
<1>g. worker[w].pc \notin {"pushing", "answered"} => w \notin Guards
  BY DEF Guards
<1>1. CASE WorkerExit(w)
  <2>1. Guards' = Guards /\ \A v \in Guards : worker'[v] = worker[v]
    BY <1>k, <1>g, <1>1, WorkerMoves, Zenon DEF WorkerExit, Exited, Idle
  <2> QED
    BY <1>1, <2>1, IdleStep, Zenon DEF WorkerExit
<1>2. ASSUME NEW j \in JobIds, NextInvalidTokenClaim(w, j)
      PROVE  Secure'
  <2>1. Guards' = Guards /\ \A v \in Guards : worker'[v] = worker[v]
    BY <1>k, <1>2, Zenon DEF NextInvalidTokenClaim, Guards, WorkerState
  <2> QED
    BY <1>2, <2>1, IdleStep, Zenon DEF NextInvalidTokenClaim
<1>3. ASSUME NEW done \in SUBSET JobIds, ClaimRecover(w, done)
      PROVE  Secure'
  <2>1. Guards' = Guards /\ \A v \in Guards : worker'[v] = worker[v]
    <3>1. CASE UNCHANGED worker
      BY <3>1, Zenon DEF Guards
    <3>2. CASE Goto(w, "claiming")
      BY <1>k, <1>g, <1>3, <3>2, GotoGuards, Zenon DEF ClaimRecover
    <3> QED
      BY <1>3, <3>1, <3>2, Zenon DEF ClaimRecover
  <2>2. /\ TableConsistent(jobs', LockedJobs)
        /\ \A v \in Guards : jobs'[worker[v].job] = jobs[worker[v].job]
        /\ Guards # {} => retention' = retention
    BY <1>3, RecoverSecure, Zenon DEF ClaimRecover
  <2>3. \A v \in Guards : Undisturbed(v)
    BY <1>3, <2>1, <2>2, GuardFacts, Zenon DEF ClaimRecover, Undisturbed
  <2> QED
    BY <2>1, <2>2, <2>3, QuietStep, Zenon
<1>4. ASSUME NEW j \in JobIds, NEW done \in SUBSET JobIds, ClaimDeliveryJob(w, j, done)
      PROVE  Secure'
  BY <1>4, ClaimDeliveryJobSecure, Zenon
<1>5. CASE ClaimNothing(w)
  BY <1>k, <1>g, <1>5, LoopGuards, IdleStep, Zenon DEF ClaimNothing
<1>6. CASE CheckStop(w)
  BY <1>k, <1>g, <1>6, GotoGuards, IdleStep, Zenon DEF CheckStop
<1>7. CASE LimiterCancelled(w)
  BY <1>k, <1>g, <1>7, GotoGuards, IdleStep, Zenon DEF LimiterCancelled
<1>8. CASE ProcessClaimedJob(w)
  <2>1. Guards' = Guards /\ \A v \in Guards : worker'[v] = worker[v]
    <3>1. CASE Goto(w, "converting") \/ Goto(w, "acquiring")
      BY <1>k, <1>g, <1>8, <3>1, GotoGuards, Zenon DEF ProcessClaimedJob
    <3>2. CASE worker' = [worker EXCEPT ![w].pc = "finalizing", ![w].reason = "ttlExpired"]
      BY <1>k, <1>8, <3>2, Zenon DEF ProcessClaimedJob, Guards, WorkerState
    <3> QED
      BY <1>8, <3>1, <3>2, Zenon DEF ProcessClaimedJob
  <2> QED
    BY <1>8, <2>1, IdleStep, Zenon DEF ProcessClaimedJob
<1>10. CASE AcquireError(w)
  BY <1>k, <1>g, <1>10, GotoGuards, IdleStep, Zenon DEF AcquireError
<1>11. CASE AcquireInvalid(w)
  <2>1. Guards' = Guards /\ \A v \in Guards : worker'[v] = worker[v]
    BY <1>k, <1>11, Zenon DEF AcquireInvalid, Guards, WorkerState
  <2> QED
    BY <1>11, <2>1, IdleStep, Zenon DEF AcquireInvalid
<1>9. CASE AcquireDeliveryAttempt(w)
  BY <1>9, AcquireDeliveryAttemptSecure, Zenon
<1>12. ASSUME NEW reply \in Replies, PushNotification(w, reply)
       PROVE  Secure'
  <2>1. /\ Guards' = Guards
        /\ \A v \in Guards : worker'[v].job = worker[v].job
                             /\ worker'[v].attempts = worker[v].attempts
    BY <1>k, <1>12, Zenon DEF PushNotification, Guards, WorkerState
  <2>2. \A v \in Guards : Undisturbed(v)
    BY <1>12, <2>1, GuardFacts, Zenon DEF PushNotification, Undisturbed
  <2>3. TableConsistent(jobs', LockedJobs)
    BY <1>t, <1>12, Zenon DEF PushNotification
  <2> QED
    BY <2>1, <2>2, <2>3, QuietStep, Zenon
<1>a. worker[w].pc = "answered" => w \in Guards
  BY DEF Guards
<1>13. CASE CompleteSent(w)
  <2> DEFINE j == worker[w].job
             r == jobs[j]
  <2>1. w \in Guards /\ j \in JobIds
    BY <1>a, <1>j, <1>13, Zenon DEF CompleteSent
  <2>2. r.pushes <= r.lost + MaxDeliveryAttempts /\ r.observed = 0 /\ r \in JobRow
    BY <2>1, GuardRow, Zenon
  <2>3. RowConsistent(Deleted(r, "sent"), 0)
    BY <2>2, RowAssumption
      DEF RowConsistent, Deleted, Unborn, JobRow, Live, Erasure, RowAssumption
  <2>4. /\ jobs'[j] = Deleted(r, "sent") /\ \A k \in JobIds \ {j} : jobs'[k] = jobs[k]
    BY <1>k, <1>13, <2>1, Zenon DEF CompleteSent, Table
  <2> QED
    BY <1>13, <2>1, <2>3, <2>4, AttemptEnds, Zenon DEF CompleteSent
<1>14. ASSUME NEW reason \in FinalReasons, NEW done \in SUBSET JobIds,
              worker[w].pc = "answered", CompleteFinal(w, reason, done)
       PROVE  Secure'
  BY <1>14, FinalAttemptSecure, Zenon
<1>15. ASSUME NEW done \in SUBSET JobIds, CompleteRejected(w, done)
       PROVE  Secure'
  BY <1>14, <1>15, Zenon DEF CompleteRejected, FinalReasons
<1>16. ASSUME NEW delay \in RetryDelays, NEW done \in SUBSET JobIds,
              CompleteTransientFinal(w, delay, done)
       PROVE  Secure'
  <2>1. NoRetryReason(w, now + delay) \in FinalReasons
    BY <1>16, Zenon DEF CompleteTransientFinal, NoRetryReason, FinalReasons
  <2> QED
    BY <1>14, <1>16, <2>1, Zenon DEF CompleteTransientFinal
<1>17. ASSUME NEW delay \in RetryDelays, CompleteRetry(w, delay)
       PROVE  Secure'
  BY <1>17, CompleteRetrySecure, Zenon
<1>18. ASSUME NEW done \in SUBSET JobIds, CompleteInvalidToken(w, done)
       PROVE  Secure'
  BY <1>18, CompleteInvalidTokenSecure, Zenon
<1>19. CASE RecordAttempt(w)
  BY <1>19, RecordAttemptSecure
<1>20. CASE CompleteError(w)
  BY <1>20, CompleteErrorSecure
<1>21. ASSUME NEW done \in SUBSET JobIds, ConvertInvalidToken(w, done)
       PROVE  Secure'
  BY <1>21, ConvertInvalidTokenSecure, Zenon
<1>22. CASE ConvertNothing(w)
  BY <1>k, <1>g, <1>22, LoopGuards, IdleStep, Zenon DEF ConvertNothing
<1>23. CASE ConvertError(w)
  BY <1>k, <1>g, <1>23, LoopGuards, IdleStep, Zenon DEF ConvertError
<1>24. ASSUME NEW done \in SUBSET JobIds, ReleaseClaim(w, done)
       PROVE  Secure'
  BY <1>24, ReleaseClaimSecure
<1>25. CASE ReleaseError(w)
  BY <1>k, <1>g, <1>25, LoopGuards, IdleStep, Zenon DEF ReleaseError
<1>26. ASSUME NEW done \in SUBSET JobIds, FinalizeClaim(w, done)
       PROVE  Secure'
  BY <1>26, FinalizeClaimSecure
<1>27. CASE FinalizeError(w)
  BY <1>k, <1>g, <1>27, LoopGuards, IdleStep, Zenon DEF FinalizeError
<1> QED
  BY <1>1, <1>2, <1>3, <1>4, <1>5, <1>6, <1>7, <1>8, <1>9, <1>10, <1>11, <1>12, <1>13,
     <1>15, <1>16, <1>17, <1>18, <1>19, <1>20, <1>21, <1>22, <1>23, <1>24, <1>25,
     <1>26, <1>27 DEF WorkerStep

=============================================================================
