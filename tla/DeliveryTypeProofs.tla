------------------------- MODULE DeliveryTypeProofs -------------------------
(***************************************************************************)
(* Every step of DeliveryJobs keeps the state well typed, and what a guard *)
(* and a live row look like under the invariant.                           *)
(***************************************************************************)
EXTENDS DeliveryJobs, DeliveryTablesProofs

(* The smaller and the greater of two naturals are naturals.               *)
LEMMA LesserNat ==
  ASSUME NEW a \in Nat, NEW b \in Nat
  PROVE  Lesser(a, b) \in Nat /\ Greater(a, b) \in Nat
  BY Zenon DEF Lesser, Greater

(* The day a moment falls on is a natural.                                 *)
LEMMA DayNat ==
  ASSUME NEW t \in Nat
  PROVE  Day(t) \in Nat
  BY RowAssumption DEF Day, RowAssumption

(* A worker between two claims, and one that has exited, are well typed.   *)
LEMMA IdleType ==
  Idle \in WorkerState /\ Exited \in WorkerState /\ IdleEraser \in EraserState
  BY ZeroAttempts, Zenon DEF Idle, Exited, IdleEraser, WorkerState, EraserState, WorkerSteps

(* A worker that returns to its loop keeps the workers well typed.         *)
LEMMA LoopType ==
  ASSUME worker \in [Workers -> WorkerState], NEW w \in Workers, Loop(w)
  PROVE  worker' \in [Workers -> WorkerState]
  BY IdleType, Zenon DEF Loop

(* Moving a worker to another step keeps the workers well typed.           *)
LEMMA GotoType ==
  ASSUME worker \in [Workers -> WorkerState], NEW w \in Workers,
         NEW pc \in WorkerSteps, Goto(w, pc)
  PROVE  worker' \in [Workers -> WorkerState]
  BY Zenon DEF Goto, WorkerState

(* So does moving it with a job, a reply or a final reason to carry.       *)
LEMMA MoveType ==
  ASSUME worker \in [Workers -> WorkerState], NEW w \in Workers, NEW pc \in WorkerSteps
  PROVE  /\ \A j \in JobIds :
              [worker EXCEPT ![w].pc = pc, ![w].job = j] \in [Workers -> WorkerState]
         /\ \A reply \in Replies :
              [worker EXCEPT ![w].pc = pc, ![w].reply = reply] \in [Workers -> WorkerState]
         /\ \A reason \in FinalReasons :
              [worker EXCEPT ![w].pc = pc, ![w].reason = reason] \in [Workers -> WorkerState]
<1>1. ASSUME NEW j \in JobIds
      PROVE  [worker EXCEPT ![w].pc = pc, ![w].job = j] \in [Workers -> WorkerState]
  BY DEF WorkerState
<1>2. ASSUME NEW reply \in Replies
      PROVE  [worker EXCEPT ![w].pc = pc, ![w].reply = reply] \in [Workers -> WorkerState]
  BY Zenon DEF WorkerState
<1>3. ASSUME NEW reason \in FinalReasons
      PROVE  [worker EXCEPT ![w].pc = pc, ![w].reason = reason] \in [Workers -> WorkerState]
  BY DEF WorkerState
<1> QED
  BY <1>1, <1>2, <1>3, Zenon

(* A failing process keeps the server states well typed.                   *)
LEMMA FailedType ==
  ASSUME server \in [Servers -> ServerStates], NEW s \in Servers, Failed(s)
  PROVE  server' \in [Servers -> ServerStates]
  BY Zenon DEF Failed, ServerStates

(* A server that forgets a claim keeps the remembered claims well typed.   *)
LEMMA ForgottenType ==
  ASSUME claims \in [Servers -> SUBSET JobIds], NEW s \in Servers, NEW j
  PROVE  [claims EXCEPT ![s] = @ \ {j}] \in [Servers -> SUBSET JobIds]
  BY Zenon

(* A step that may fail keeps the fault counter a natural.                 *)
LEMMA FaultType ==
  ASSUME faults \in Nat, Fault \/ UNCHANGED faults
  PROVE  faults' \in Nat
  BY DEF Fault

(* The trailing loop of an operation keeps the table and the counter typed. *)
LEMMA FinalizeMarkersType ==
  ASSUME faults \in Nat, NEW tbl \in Table, NEW done, FinalizeMarkers(tbl, done)
  PROVE  jobs' \in Table /\ faults' \in Nat
  BY CompleteMarkersType DEF FinalizeMarkers, Fault

(* Marking retention unsafe keeps the retention row typed.                 *)
LEMMA OverdueType ==
  ASSUME retention \in RetentionRow, NEW tbl,
         MarkOverdueErasureUnsafe(tbl)
  PROVE  /\ retention' \in RetentionRow
         /\ retention'.safe => retention.safe
         /\ Guards # {} => retention' = retention
  BY Zenon DEF MarkOverdueErasureUnsafe, RetentionRow

(* RecoverDeliveryJobs keeps what it writes well typed.                    *)
LEMMA RecoverType ==
  ASSUME TypeOK, NEW done, RecoverDeliveryJobs(done)
  PROVE  /\ jobs' \in Table /\ faults' \in Nat
         /\ retention' \in RetentionRow
<1>1. RecoveredJobs \in Table
  BY RecoveredType, Zenon DEF TypeOK, RecoveredJobs, Table
<1> QED
  BY <1>1, FinalizeMarkersType, OverdueType, Zenon DEF RecoverDeliveryJobs, TypeOK

(* Blocking an installation and its routes keeps the registry well typed.  *)
LEMMA BlockedType ==
  ASSUME inst \in [Installations -> InstallationRow], lease \in [Leases -> LeaseRow],
         NEW i \in Installations, Blocked(i)
  PROVE  /\ inst' \in [Installations -> InstallationRow]
         /\ lease' \in [Leases -> LeaseRow]
         /\ dedupe' = dedupe /\ fence' = fence
<1>1. \A r \in InstallationRow : [r EXCEPT !.state = "blocked"] \in InstallationRow
  BY Zenon DEF InstallationRow, InstallationStates
<1>2. \A r \in LeaseRow : [r EXCEPT !.state = "blocked"] \in LeaseRow
  BY Zenon DEF LeaseRow, LeaseStates
<1>3. inst' \in [Installations -> InstallationRow]
  BY <1>1, Zenon DEF Blocked
<1>4. lease' \in [Leases -> LeaseRow]
  BY <1>2, Zenon DEF Blocked
<1> QED
  BY <1>3, <1>4, Zenon DEF Blocked

(* The rows that stand for a missing installation and a missing lease.     *)
LEMMA NoRowType == NoInstallation \in InstallationRow /\ NoLease \in LeaseRow
  BY Zenon DEF NoInstallation, NoLease, InstallationRow, LeaseRow, InstallationStates,
         LeaseStates

(* Dropping leases keeps the registry well typed.                          *)
LEMMA LeasesDroppedType ==
  ASSUME TypeOK, NEW L, LeasesDropped(L)
  PROVE  /\ lease' \in [Leases -> LeaseRow]
         /\ dedupe' \in [Leases -> [SourceEvents -> Nat]]
  BY NoRowType, Zenon DEF TypeOK, LeasesDropped

(* The fences stay functions to naturals.                                  *)
LEMMA FenceType ==
  ASSUME TypeOK, NEW L, NEW I, NEW epoch \in [Installations -> Nat]
  PROVE  /\ RouteFence(L) \in [Leases -> Nat]
         /\ InstallationFence(I, epoch) \in [Installations -> Nat]
         /\ PolicyEpochs \in [Installations -> Nat]
<1>1. /\ fence.installation \in [Installations -> Nat]
      /\ fence.route \in [Leases -> Nat]
      /\ \A l \in Leases : lease[l].routeKeyEpoch \in Nat
      /\ \A i \in Installations : inst[i].policyEpoch \in Nat
  BY Zenon DEF TypeOK, LeaseRow, InstallationRow
<1>2. RouteFence(L) \in [Leases -> Nat]
  BY <1>1, LesserNat, Zenon DEF RouteFence
<1>3. InstallationFence(I, epoch) \in [Installations -> Nat]
  BY <1>1, LesserNat, Zenon DEF InstallationFence
<1>4. PolicyEpochs \in [Installations -> Nat]
  BY <1>1, Zenon DEF PolicyEpochs
<1> QED
  BY <1>2, <1>3, <1>4, Zenon

(* Writing the columns the operations write keeps a row a row.             *)
LEMMA RowUpdateType ==
  ASSUME NEW r \in JobRow, NEW a \in 0..MaxDeliveryAttempts, NEW t \in Nat
  PROVE  /\ [r EXCEPT !.pushes = @ + 1] \in JobRow
         /\ [r EXCEPT !.lost = @ + 1] \in JobRow
         /\ [r EXCEPT !.attempts = a] \in JobRow
         /\ [r EXCEPT !.available = t] \in JobRow
         /\ \A st \in JobStates : [r EXCEPT !.state = st, !.available = t] \in JobRow
         /\ [r EXCEPT !.state = "pending", !.attempts = a, !.available = t] \in JobRow
<1>1. [r EXCEPT !.pushes = @ + 1] \in JobRow /\ [r EXCEPT !.lost = @ + 1] \in JobRow
  BY DEF JobRow
<1>2. [r EXCEPT !.attempts = a] \in JobRow
  BY Zenon DEF JobRow
<1>3. [r EXCEPT !.available = t] \in JobRow
  BY Zenon DEF JobRow
<1>4. \A st \in JobStates : [r EXCEPT !.state = st, !.available = t] \in JobRow
  BY Zenon DEF JobRow
<1>5. [r EXCEPT !.state = "pending", !.attempts = a, !.available = t] \in JobRow
  BY Zenon DEF JobRow, JobStates, Stored, Live
<1> QED
  BY <1>1, <1>2, <1>3, <1>4, <1>5, Zenon

(* A claim and a release keep a row a row.                                 *)
LEMMA ClaimReleaseType ==
  ASSUME NEW r \in JobRow, now \in Nat
  PROVE  ClaimedRow(r) \in JobRow /\ ReleasedRow(r) \in JobRow
<1>1. r.expires \in Nat /\ r.available \in Nat /\ r.state \in JobStates
  BY Zenon DEF JobRow
<1>2. Lesser(now + ClaimTTL, r.expires) \in Nat
  <2>1. now + ClaimTTL \in Nat
    BY RowAssumption DEF RowAssumption
  <2> QED
    BY <1>1, <2>1, LesserNat, Zenon
<1>3. Lesser(r.available, now) \in Nat
  BY <1>1, LesserNat, Zenon
<1>4. ClaimedRow(r) \in JobRow
  BY <1>2, RowUpdateType, ZeroAttempts, Zenon DEF ClaimedRow, JobStates, Stored, Live
<1>5. ReleasedRow(r) \in JobRow
  BY <1>1, <1>3, RowUpdateType, ZeroAttempts, Zenon
     DEF ReleasedRow, JobStates, Stored, Live, Erasure
<1> QED
  BY <1>4, <1>5, Zenon

(* What the invariant says of a sendable row.                              *)
LEMMA LiveRow ==
  ASSUME IInv, NEW j \in JobIds, jobs[j].state \in Live
  PROVE  /\ jobs[j].lease \in Leases /\ InstallationOf[jobs[j].lease] \in Installations
         /\ jobs[j].token \in Tokens /\ jobs[j].installation = None
  BY RowAssumption, Zenon DEF IInv, TableConsistent, RowConsistent, RowAssumption

(* What the invariant says of a worker whose guard is open.                *)
LEMMA GuardFacts ==
  ASSUME IInv, NEW w \in Guards
  PROVE  /\ w \in Workers /\ worker[w].job \in JobIds
         /\ jobs[worker[w].job].state = "claimed"
         /\ jobs[worker[w].job].attempts + 1 = worker[w].attempts
         /\ worker[w].attempts \in 1..MaxDeliveryAttempts
         /\ worker[w].job \in LockedJobs
         /\ retention.safe
  BY Zenon DEF IInv, Guards, LockedJobs, EgressAuthorized, AttemptAuthorized, ClaimsCarried

-----------------------------------------------------------------------------
(* Type correctness: one step per action.                                  *)

(* ClaimDeliveryJob keeps the state well typed.                             *)
LEMMA ClaimDeliveryJobTyped ==
  ASSUME IInv, NEW w \in Workers, NEW j \in JobIds, NEW done \in SUBSET JobIds,
         ClaimDeliveryJob(w, j, done)
  PROVE  TypeOK'
<1> USE DEF authority
<1>t. TypeOK /\ ClaimsCarried /\ TableConsistent(jobs, LockedJobs) /\ EgressAuthorized
  BY Zenon DEF IInv
<1>k. jobs \in Table /\ now \in Nat
  BY <1>t, Zenon DEF TypeOK, Table
<1>4. ClaimDeliveryJob(w, j, done)
  BY Zenon
<1> QED
  <2> DEFINE claim == [Idle EXCEPT !.pc = "claimed", !.job = j,
                                   !.attempts = jobs[j].attempts + 1,
                                   !.expires = jobs[j].expires,
                                   !.day = Day(jobs[j].created)]
             tbl == IF MaterialValid(j)
                    THEN [jobs EXCEPT ![j] = ClaimedRow(jobs[j])]
                    ELSE MarkFinal(jobs, {j}, "materialInvalid", now)
  <2>1. jobs[j].attempts < MaxDeliveryAttempts
    BY <1>4, Zenon DEF ClaimDeliveryJob, ClaimCandidates, Claimable
  <2>2. /\ jobs[j].attempts + 1 \in 0..MaxDeliveryAttempts
        /\ jobs[j].expires \in Nat /\ Day(jobs[j].created) \in Nat
    BY <1>k, <2>1, DayNat, RowAssumption DEF Table, JobRow, RowAssumption
  <2>3. claim \in WorkerState
    BY <2>2, Zenon DEF Idle, WorkerState, WorkerSteps
  <2>4. worker' = [worker EXCEPT ![w] = claim] \/ Loop(w)
    BY <1>4, Zenon DEF ClaimDeliveryJob
  <2>5. worker' \in [Workers -> WorkerState]
    BY <1>t, <2>3, <2>4, LoopType, Zenon DEF TypeOK
  <2>6. [jobs EXCEPT ![j] = ClaimedRow(jobs[j])] \in Table
    BY <1>k, ClaimReleaseType, Zenon DEF Table
  <2>7. MarkFinal(jobs, {j}, "materialInvalid", now) \in Table
    BY <1>k, MarkFinalType, Zenon DEF FinalReasons
  <2>8. jobs' \in Table /\ faults' \in Nat
    BY <1>t, <1>4, <2>6, <2>7, FinalizeMarkersType, Zenon DEF ClaimDeliveryJob, TypeOK
  <2> QED
    BY <1>t, <1>4, <2>5, <2>8, Zenon DEF ClaimDeliveryJob, TypeOK, Table

(* ProcessClaimedJob keeps the state well typed.                            *)
LEMMA ProcessClaimedJobTyped ==
  ASSUME IInv, NEW w \in Workers,
         ProcessClaimedJob(w)
  PROVE  TypeOK'
<1> USE DEF authority
<1>t. TypeOK /\ ClaimsCarried /\ TableConsistent(jobs, LockedJobs) /\ EgressAuthorized
  BY Zenon DEF IInv
<1>8. ProcessClaimedJob(w)
  BY Zenon
<1> QED
  <2>1. worker \in [Workers -> WorkerState]
    BY <1>t, Zenon DEF TypeOK
  <2>2. worker' \in [Workers -> WorkerState]
    <3>1. \/ Goto(w, "converting") \/ Goto(w, "acquiring")
          \/ worker' = [worker EXCEPT ![w].pc = "finalizing", ![w].reason = "ttlExpired"]
      BY <1>8, Zenon DEF ProcessClaimedJob
    <3>2. "ttlExpired" \in FinalReasons /\ {"converting", "acquiring", "finalizing"} \subseteq WorkerSteps
      BY Zenon DEF FinalReasons, WorkerSteps
    <3>3. [worker EXCEPT ![w].pc = "finalizing", ![w].reason = "ttlExpired"]
             \in [Workers -> WorkerState]
      BY <2>1, <3>2, MoveType, Zenon
    <3> QED
      BY <2>1, <3>1, <3>2, <3>3, GotoType, Zenon
  <2> QED
    BY <1>t, <1>8, <2>2, Zenon DEF ProcessClaimedJob, TypeOK

(* FinalAttempt keeps the state well typed.                                 *)
LEMMA FinalAttemptTyped ==
  ASSUME IInv, NEW w \in Workers,
         NEW reason \in FinalReasons, NEW done \in SUBSET JobIds,
         worker[w].pc = "answered",
         CompleteFinal(w, reason, done)
  PROVE  TypeOK'
<1> USE DEF authority
<1>t. TypeOK /\ ClaimsCarried /\ TableConsistent(jobs, LockedJobs) /\ EgressAuthorized
  BY Zenon DEF IInv
<1>s. ServerOf[w] \in Servers
  BY SystemAssumption, Zenon DEF SystemAssumption
<1>j. worker[w].pc \notin {"loop", "claiming", "exited"} => worker[w].job \in JobIds
  BY <1>t, Zenon DEF ClaimsCarried
<1>k. jobs \in Table /\ now \in Nat
  BY <1>t, Zenon DEF TypeOK, Table
<1>14. (worker[w].pc = "answered") /\ (CompleteFinal(w, reason, done))
  BY Zenon
<1> QED
  <2>1. worker[w].job \in JobIds /\ worker[w].attempts \in 0..MaxDeliveryAttempts
    BY <1>j, <1>t, <1>14, Zenon DEF TypeOK, WorkerState
  <2> DEFINE j == worker[w].job
             row == [Finalized(jobs[j], reason, now) EXCEPT !.attempts = worker[w].attempts]
  <2>2. row \in JobRow
    BY <1>k, <2>1, FinalizedType, RowUpdateType, Zenon DEF Table
  <2>3. [jobs EXCEPT ![j] = row] \in Table
    BY <1>k, <2>1, <2>2, Zenon DEF Table
  <2>4. jobs' \in Table
    BY <1>14, <2>3, CompleteMarkersType, Zenon DEF CompleteFinal
  <2>5. server' \in [Servers -> ServerStates] /\ faults' \in Nat
    BY <1>s, <1>t, <1>14, FailedType, FaultType, Zenon DEF CompleteFinal, TypeOK
  <2> QED
    BY <1>t, <1>14, <2>4, <2>5, LoopType, Zenon DEF CompleteFinal, TypeOK, Table

(* CompleteRetry keeps the state well typed.                                *)
LEMMA CompleteRetryTyped ==
  ASSUME IInv, NEW w \in Workers, NEW delay \in RetryDelays,
         CompleteRetry(w, delay)
  PROVE  TypeOK'
<1> USE DEF authority
<1>t. TypeOK /\ ClaimsCarried /\ TableConsistent(jobs, LockedJobs) /\ EgressAuthorized
  BY Zenon DEF IInv
<1>j. worker[w].pc \notin {"loop", "claiming", "exited"} => worker[w].job \in JobIds
  BY <1>t, Zenon DEF ClaimsCarried
<1>k. jobs \in Table /\ now \in Nat
  BY <1>t, Zenon DEF TypeOK, Table
<1>17. CompleteRetry(w, delay)
  BY Zenon
<1> QED
  <2>1. worker[w].job \in JobIds /\ worker[w].attempts \in 0..MaxDeliveryAttempts
    BY <1>j, <1>t, <1>17, Zenon DEF TypeOK, WorkerState, CompleteRetry
  <2>2. now + delay \in Nat
    BY <1>k, SystemAssumption DEF SystemAssumption
  <2>3. jobs' = [jobs EXCEPT ![worker[w].job] =
                   [jobs[worker[w].job] EXCEPT !.state = "pending",
                      !.attempts = worker[w].attempts, !.available = now + delay]]
    BY <1>k, <1>17, <2>1, Zenon DEF CompleteRetry, Table
  <2>4. [jobs[worker[w].job] EXCEPT !.state = "pending",
           !.attempts = worker[w].attempts, !.available = now + delay] \in JobRow
    BY <1>k, <2>1, <2>2, RowUpdateType, Zenon DEF Table
  <2>5. jobs' \in Table
    BY <1>k, <2>1, <2>3, <2>4, Zenon DEF Table
  <2> QED
    BY <1>t, <1>17, <2>5, LoopType, Zenon DEF CompleteRetry, TypeOK, Table

(* CompleteInvalidToken keeps the state well typed.                         *)
LEMMA CompleteInvalidTokenTyped ==
  ASSUME IInv, NEW w \in Workers, NEW done \in SUBSET JobIds,
         CompleteInvalidToken(w, done)
  PROVE  TypeOK'
<1> USE DEF authority
<1>t. TypeOK /\ ClaimsCarried /\ TableConsistent(jobs, LockedJobs) /\ EgressAuthorized
  BY Zenon DEF IInv
<1>s. ServerOf[w] \in Servers
  BY SystemAssumption, Zenon DEF SystemAssumption
<1>k. jobs \in Table /\ now \in Nat
  BY <1>t, Zenon DEF TypeOK, Table
<1>18. CompleteInvalidToken(w, done)
  BY Zenon
<1> QED
  <2> DEFINE j == worker[w].job
             i == InstallationOf[jobs[j].lease]
  <2>1. w \in Guards
    BY <1>18, Zenon DEF CompleteInvalidToken, Guards
  <2>2. j \in JobIds /\ i \in Installations
    BY <2>1, GuardFacts, LiveRow, Zenon DEF Live
  <2>3. Converted(jobs, i, j, now) \in Table
    BY <1>k, <2>2, ConvertedType, Zenon
  <2>4. jobs' \in Table /\ faults' \in Nat
    BY <1>t, <1>18, <2>3, FinalizeMarkersType, Zenon DEF CompleteInvalidToken, TypeOK
  <2>5. claims' \in [Servers -> SUBSET JobIds] /\ server' \in [Servers -> ServerStates]
    <3>1. \/ claims' = [claims EXCEPT ![ServerOf[w]] = @ \ {j}] /\ server' = server
          \/ Failed(ServerOf[w]) /\ claims' = claims
      BY <1>18, Zenon DEF CompleteInvalidToken
    <3>2. claims \in [Servers -> SUBSET JobIds] /\ server \in [Servers -> ServerStates]
      BY <1>t, Zenon DEF TypeOK
    <3> QED
      BY <1>s, <3>1, <3>2, FailedType, ForgottenType
  <2>6. /\ inst' \in [Installations -> InstallationRow] /\ lease' \in [Leases -> LeaseRow]
        /\ dedupe' = dedupe /\ fence' = fence
    BY <1>t, <1>18, <2>2, BlockedType, Zenon DEF CompleteInvalidToken, TypeOK
  <2> QED
    BY <1>t, <1>18, <2>4, <2>5, <2>6, LoopType, Zenon DEF CompleteInvalidToken, TypeOK, Table

(* CompleteError keeps the state well typed.                                *)
LEMMA CompleteErrorTyped ==
  ASSUME IInv, NEW w \in Workers,
         CompleteError(w)
  PROVE  TypeOK'
<1> USE DEF authority
<1>t. TypeOK /\ ClaimsCarried /\ TableConsistent(jobs, LockedJobs) /\ EgressAuthorized
  BY DEF IInv
<1>s. ServerOf[w] \in Servers
  BY SystemAssumption, Zenon DEF SystemAssumption
<1>j. worker[w].pc \notin {"loop", "claiming", "exited"} => worker[w].job \in JobIds
  BY <1>t, Zenon DEF ClaimsCarried
<1>k. jobs \in Table /\ now \in Nat
  BY <1>t, Zenon DEF TypeOK, Table
<1>20. CompleteError(w)
  OBVIOUS
<1> QED
  <2>1. worker[w].job \in JobIds
    BY <1>j, <1>20, Zenon DEF CompleteError
  <2>2. jobs' \in Table
    <3> DEFINE j == worker[w].job
               row == [jobs[j] EXCEPT !.lost = @ + 1]
    <3>1. jobs' = [jobs EXCEPT ![j] = row]
      BY <1>20, Zenon DEF CompleteError
    <3>2. j \in JobIds /\ jobs[j] \in JobRow
      BY <1>k, <2>1, Zenon DEF Table
    <3>3. row \in JobRow
      BY <1>k, <3>2, ZeroAttempts, RowUpdateType, Zenon
    <3> HIDE DEF row
    <3> QED
      BY <1>k, <3>1, <3>2, <3>3, Zenon DEF Table
  <2>3. server' \in [Servers -> ServerStates] /\ faults' \in Nat
    BY <1>s, <1>t, <1>20, FailedType, FaultType, Zenon DEF CompleteError, TypeOK
  <2> QED
    BY <1>t, <1>20, <2>2, <2>3, LoopType, Zenon DEF CompleteError, TypeOK, Table

(* ConvertInvalidToken keeps the state well typed.                          *)
LEMMA ConvertInvalidTokenTyped ==
  ASSUME IInv, NEW w \in Workers, NEW done \in SUBSET JobIds,
         ConvertInvalidToken(w, done)
  PROVE  TypeOK'
<1> USE DEF authority
<1>t. TypeOK /\ ClaimsCarried /\ TableConsistent(jobs, LockedJobs) /\ EgressAuthorized
  BY DEF IInv
<1>s. ServerOf[w] \in Servers
  BY SystemAssumption DEF SystemAssumption
<1>j. worker[w].pc \notin {"loop", "claiming", "exited"} => worker[w].job \in JobIds
  BY <1>t, Zenon DEF ClaimsCarried
<1>k. jobs \in Table /\ now \in Nat
  BY <1>t DEF TypeOK, Table
<1>21. ConvertInvalidToken(w, done)
  OBVIOUS
<1> QED
  <2> DEFINE j == worker[w].job
             i == InstallationOf[jobs[j].lease]
  <2>1. j \in JobIds /\ jobs[j].state \in Live
    BY <1>j, <1>21, Zenon DEF ConvertInvalidToken, Convertible, Live
  <2>2. i \in Installations
    BY <2>1, LiveRow, Zenon
  <2>3. Converted(jobs, i, j, now) \in Table
    BY <1>k, <2>1, <2>2, ConvertedType, Zenon
  <2>4. jobs' \in Table /\ faults' \in Nat
    BY <1>t, <1>21, <2>3, FinalizeMarkersType, Zenon DEF ConvertInvalidToken, TypeOK
  <2>5. claims' \in [Servers -> SUBSET JobIds] /\ server' \in [Servers -> ServerStates]
    <3>1. \/ claims' = [claims EXCEPT ![ServerOf[w]] = @ \ {j}] /\ server' = server
          \/ Failed(ServerOf[w]) /\ claims' = claims
      BY <1>21, Zenon DEF ConvertInvalidToken, Forget
    <3>2. claims \in [Servers -> SUBSET JobIds] /\ server \in [Servers -> ServerStates]
      BY <1>t DEF TypeOK
    <3> QED
      BY <1>s, <3>1, <3>2, FailedType, ForgottenType
  <2>6. /\ inst' \in [Installations -> InstallationRow] /\ lease' \in [Leases -> LeaseRow]
        /\ dedupe' = dedupe /\ fence' = fence
    BY <1>t, <1>21, <2>2, BlockedType, Zenon DEF ConvertInvalidToken, TypeOK
  <2> QED
    BY <1>t, <1>21, <2>4, <2>5, <2>6, LoopType, Zenon DEF ConvertInvalidToken, TypeOK, Table

(* ReleaseClaim keeps the state well typed.                                 *)
LEMMA ReleaseClaimTyped ==
  ASSUME IInv, NEW w \in Workers, NEW done \in SUBSET JobIds,
         ReleaseClaim(w, done)
  PROVE  TypeOK'
<1> USE DEF authority
<1>t. TypeOK /\ ClaimsCarried /\ TableConsistent(jobs, LockedJobs) /\ EgressAuthorized
  BY DEF IInv
<1>j. worker[w].pc \notin {"loop", "claiming", "exited"} => worker[w].job \in JobIds
  BY <1>t DEF ClaimsCarried
<1>k. jobs \in Table /\ now \in Nat
  BY <1>t DEF TypeOK, Table
<1>24. ReleaseClaim(w, done)
  OBVIOUS
<1> QED
  <2> DEFINE j == worker[w].job
             tbl == IF ClaimExhausted(j)
                    THEN MarkFinal(jobs, {j}, "retryExhausted", now)
                    ELSE [jobs EXCEPT ![j] = ReleasedRow(jobs[j])]
  <2>1. j \in JobIds
    BY <1>j, <1>24, Zenon DEF ReleaseClaim
  <2>2. MarkFinal(jobs, {j}, "retryExhausted", now) \in Table
    BY <1>k, MarkFinalType, Zenon DEF FinalReasons
  <2>3. [jobs EXCEPT ![j] = ReleasedRow(jobs[j])] \in Table
    BY <1>k, <2>1, ClaimReleaseType, Zenon DEF Table
  <2>4. jobs' \in Table
    BY <1>24, <2>2, <2>3, CompleteMarkersType, Zenon DEF ReleaseClaim
  <2>5. faults' \in Nat
    BY <1>t, <1>24, FaultType, Zenon DEF ReleaseClaim, TypeOK
  <2> QED
    BY <1>t, <1>24, <2>4, <2>5, LoopType, Zenon DEF ReleaseClaim, TypeOK, Table

(* FinalizeClaim keeps the state well typed.                                *)
LEMMA FinalizeClaimTyped ==
  ASSUME IInv, NEW w \in Workers, NEW done \in SUBSET JobIds,
         FinalizeClaim(w, done)
  PROVE  TypeOK'
<1> USE DEF authority
<1>t. TypeOK /\ ClaimsCarried /\ TableConsistent(jobs, LockedJobs) /\ EgressAuthorized
  BY DEF IInv
<1>s. ServerOf[w] \in Servers
  BY SystemAssumption DEF SystemAssumption
<1>k. jobs \in Table /\ now \in Nat
  BY <1>t DEF TypeOK, Table
<1>26. FinalizeClaim(w, done)
  OBVIOUS
<1> QED
  <2>1. worker[w].reason \in FinalReasons
    BY <1>t, <1>26, Zenon DEF FinalizeClaim, ClaimsCarried
  <2>2. MarkFinal(jobs, {worker[w].job}, worker[w].reason, now) \in Table
    BY <1>k, <2>1, MarkFinalType, Zenon
  <2>3. jobs' \in Table
    BY <1>26, <2>2, CompleteMarkersType, Zenon DEF FinalizeClaim
  <2>4. server' \in [Servers -> ServerStates] /\ faults' \in Nat
    BY <1>s, <1>t, <1>26, FailedType, FaultType, Zenon DEF FinalizeClaim, TypeOK
  <2> QED
    BY <1>t, <1>26, <2>3, <2>4, LoopType, Zenon DEF FinalizeClaim, TypeOK, Table

(* The steps of an APNS worker keep the state well typed.                  *)
LEMMA WorkerTypeStep ==
  ASSUME IInv, NEW w \in Workers, WorkerStep(w)
  PROVE  TypeOK'
<1> USE DEF authority
<1>t. TypeOK /\ ClaimsCarried /\ TableConsistent(jobs, LockedJobs) /\ EgressAuthorized
  BY DEF IInv
<1>s. ServerOf[w] \in Servers
  BY SystemAssumption DEF SystemAssumption
<1>j. worker[w].pc \notin {"loop", "claiming", "exited"} => worker[w].job \in JobIds
  BY <1>t DEF ClaimsCarried
<1>k. jobs \in Table /\ now \in Nat
  BY <1>t DEF TypeOK, Table
<1>1. CASE WorkerExit(w)
  BY <1>t, <1>1, IdleType, Zenon DEF WorkerExit, TypeOK
<1>2. ASSUME NEW j \in JobIds, NextInvalidTokenClaim(w, j)
      PROVE  TypeOK'
  <2>1. worker' \in [Workers -> WorkerState]
    BY <1>t, <1>2, MoveType, Zenon DEF NextInvalidTokenClaim, TypeOK, WorkerSteps
  <2> QED
    BY <1>t, <1>2, <2>1, Zenon DEF NextInvalidTokenClaim, TypeOK
<1>3. ASSUME NEW done \in SUBSET JobIds, ClaimRecover(w, done)
      PROVE  TypeOK'
  <2>1. worker' \in [Workers -> WorkerState]
    BY <1>t, <1>3, GotoType, Zenon DEF ClaimRecover, TypeOK, WorkerSteps
  <2>2. jobs' \in Table /\ faults' \in Nat /\ retention' \in RetentionRow
    BY <1>t, <1>3, RecoverType, Zenon DEF ClaimRecover
  <2> QED
    BY <1>t, <1>3, <2>1, <2>2, Zenon DEF ClaimRecover, TypeOK, Table
<1>4. ASSUME NEW j \in JobIds, NEW done \in SUBSET JobIds, ClaimDeliveryJob(w, j, done)
      PROVE  TypeOK'
  BY <1>4, ClaimDeliveryJobTyped, Zenon
<1>5. CASE ClaimNothing(w)
  BY <1>t, <1>5, LoopType, Zenon DEF ClaimNothing, TypeOK
<1>6. CASE CheckStop(w)
  BY <1>t, <1>6, GotoType, Zenon DEF CheckStop, TypeOK, WorkerSteps
<1>7. CASE LimiterCancelled(w)
  BY <1>t, <1>7, GotoType, Zenon DEF LimiterCancelled, TypeOK, WorkerSteps
<1>8. CASE ProcessClaimedJob(w)
  BY <1>8, ProcessClaimedJobTyped, Zenon
<1>9. CASE AcquireDeliveryAttempt(w)
  <2>1. jobs' \in Table
    BY <1>k, <1>9, <1>j, RowUpdateType, ZeroAttempts, Zenon DEF AcquireDeliveryAttempt, Table
  <2>2. worker' \in [Workers -> WorkerState]
    BY <1>t, <1>9, GotoType, Zenon DEF AcquireDeliveryAttempt, TypeOK, WorkerSteps
  <2> QED
    BY <1>t, <1>9, <2>1, <2>2, Zenon DEF AcquireDeliveryAttempt, TypeOK, Table
<1>10. CASE AcquireError(w)
  <2>1. faults' \in Nat
    BY <1>t, <1>10, FaultType, Zenon DEF AcquireError, TypeOK
  <2>2. worker' \in [Workers -> WorkerState]
    BY <1>t, <1>10, GotoType, Zenon DEF AcquireError, TypeOK, WorkerSteps
  <2> QED
    BY <1>t, <1>10, <2>1, <2>2, Zenon DEF AcquireError, TypeOK
<1>11. CASE AcquireInvalid(w)
  BY <1>t, <1>11, MoveType, Zenon DEF AcquireInvalid, TypeOK, WorkerSteps, FinalReasons
<1>12. ASSUME NEW reply \in Replies, PushNotification(w, reply)
       PROVE  TypeOK'
  <2>1. claims' \in [Servers -> SUBSET JobIds]
    BY <1>t, <1>s, <1>j, <1>12, Zenon DEF PushNotification, TypeOK
  <2>2. worker' \in [Workers -> WorkerState]
    BY <1>t, <1>12, MoveType, Zenon DEF PushNotification, TypeOK, WorkerSteps
  <2> QED
    BY <1>t, <1>12, <2>1, <2>2, Zenon DEF PushNotification, TypeOK
<1>13. CASE CompleteSent(w)
  <2>1. jobs' \in Table
    BY <1>k, <1>j, <1>13, DeletedType, Zenon DEF CompleteSent, Table, Fates
  <2> QED
    BY <1>t, <1>13, <2>1, LoopType, Zenon DEF CompleteSent, TypeOK, Table
<1>14. ASSUME NEW reason \in FinalReasons, NEW done \in SUBSET JobIds,
              worker[w].pc = "answered", CompleteFinal(w, reason, done)
       PROVE  TypeOK'
  BY <1>14, FinalAttemptTyped, Zenon
<1>15. ASSUME NEW done \in SUBSET JobIds, CompleteRejected(w, done)
       PROVE  TypeOK'
  BY <1>14, <1>15, Zenon DEF CompleteRejected, FinalReasons
<1>16. ASSUME NEW delay \in RetryDelays, NEW done \in SUBSET JobIds,
              CompleteTransientFinal(w, delay, done)
       PROVE  TypeOK'
  <2>1. NoRetryReason(w, now + delay) \in FinalReasons
    BY <1>16, Zenon DEF CompleteTransientFinal, NoRetryReason, FinalReasons
  <2> QED
    BY <1>14, <1>16, <2>1, Zenon DEF CompleteTransientFinal
<1>17. ASSUME NEW delay \in RetryDelays, CompleteRetry(w, delay)
       PROVE  TypeOK'
  BY <1>17, CompleteRetryTyped, Zenon
<1>18. ASSUME NEW done \in SUBSET JobIds, CompleteInvalidToken(w, done)
       PROVE  TypeOK'
  BY <1>18, CompleteInvalidTokenTyped, Zenon
<1>19. CASE RecordAttempt(w)
  <2>1. worker[w].job \in JobIds /\ worker[w].attempts \in 0..MaxDeliveryAttempts
    BY <1>j, <1>t, <1>19, Zenon DEF TypeOK, WorkerState, RecordAttempt
  <2>2. jobs' \in Table
    BY <1>k, <1>19, <2>1, RowUpdateType, Zenon DEF RecordAttempt, Table
  <2> QED
    BY <1>t, <1>19, <2>2, LoopType, Zenon DEF RecordAttempt, TypeOK, Table
<1>20. CASE CompleteError(w)
  BY <1>20, CompleteErrorTyped
<1>21. ASSUME NEW done \in SUBSET JobIds, ConvertInvalidToken(w, done)
       PROVE  TypeOK'
  BY <1>21, ConvertInvalidTokenTyped
<1>22. CASE ConvertNothing(w)
  <2>1. claims' \in [Servers -> SUBSET JobIds]
    BY <1>t, <1>s, <1>22, Zenon DEF ConvertNothing, Forget, TypeOK
  <2> QED
    BY <1>t, <1>22, <2>1, LoopType, Zenon DEF ConvertNothing, TypeOK
<1>23. CASE ConvertError(w)
  <2>1. faults' \in Nat
    BY <1>t, <1>23, FaultType, Zenon DEF ConvertError, TypeOK
  <2> QED
    BY <1>t, <1>23, <2>1, LoopType, Zenon DEF ConvertError, TypeOK
<1>24. ASSUME NEW done \in SUBSET JobIds, ReleaseClaim(w, done)
       PROVE  TypeOK'
  BY <1>24, ReleaseClaimTyped
<1>25. CASE ReleaseError(w)
  <2>1. faults' \in Nat
    BY <1>t, <1>25, FaultType, Zenon DEF ReleaseError, TypeOK
  <2> QED
    BY <1>t, <1>25, <2>1, LoopType, Zenon DEF ReleaseError, TypeOK
<1>26. ASSUME NEW done \in SUBSET JobIds, FinalizeClaim(w, done)
       PROVE  TypeOK'
  BY <1>26, FinalizeClaimTyped
<1>27. CASE FinalizeError(w)
  <2>1. server' \in [Servers -> ServerStates] /\ faults' \in Nat
    BY <1>s, <1>t, <1>27, FailedType, FaultType, Zenon DEF FinalizeError, TypeOK
  <2> QED
    BY <1>t, <1>27, <2>1, LoopType, Zenon DEF FinalizeError, TypeOK
<1> QED
  BY <1>1, <1>2, <1>3, <1>4, <1>5, <1>6, <1>7, <1>8, <1>9, <1>10, <1>11, <1>12, <1>13,
     <1>15, <1>16, <1>17, <1>18, <1>19, <1>20, <1>21, <1>22, <1>23, <1>24, <1>25,
     <1>26, <1>27 DEF WorkerStep

(* The claims, lapses and reschedules of the erasure worker keep a row a row. *)
LEMMA ErasureRowsType ==
  ASSUME jobs \in Table, now \in Nat
  PROVE  /\ ErasureLapsed(jobs) \in Table
         /\ \A d \in Nat : Within(now + d) \in Nat
<1>1. \A r \in JobRow : [r EXCEPT !.state = "erasurePending", !.available = now] \in JobRow
  BY RowUpdateType, ZeroAttempts, Zenon DEF JobStates, Stored, Erasure
<1>2. ErasureLapsed(jobs) \in Table
  BY <1>1, Zenon DEF ErasureLapsed, Table
<1>3. \A d \in Nat : now + d \in Nat
  OBVIOUS
<1>4. MaxTime \in Nat
  BY SystemAssumption, Zenon DEF SystemAssumption
<1>5. \A d \in Nat : Within(now + d) \in Nat
  BY <1>3, <1>4, LesserNat, Zenon DEF Within
<1> QED
  BY <1>2, <1>5, Zenon

(* The steps of an erasure worker keep the state well typed.               *)
LEMMA EraserTypeStep ==
  ASSUME IInv, NEW s \in Servers, EraserStep(s)
  PROVE  TypeOK'
<1> USE DEF authority
<1>t. TypeOK /\ ClaimsCarried /\ TableConsistent(jobs, LockedJobs)
  BY Zenon DEF IInv
<1>j. eraser[s].pc # "idle" => eraser[s].job \in JobIds /\ eraser[s].installation \in Installations
  BY <1>t, Zenon DEF ClaimsCarried
<1>k. jobs \in Table /\ now \in Nat /\ ErasureLapsed(jobs) \in Table
  BY <1>t, ErasureRowsType, Zenon DEF TypeOK, Table
<1>e. eraser \in [Servers -> EraserState]
  BY <1>t, Zenon DEF TypeOK
<1>m. \A pc \in {"idle", "erasing", "deleting", "rescheduling"} :
        [eraser EXCEPT ![s].pc = pc] \in [Servers -> EraserState]
  BY <1>e, Zenon DEF EraserState
<1>i. [eraser EXCEPT ![s] = IdleEraser] \in [Servers -> EraserState]
  BY <1>e, IdleType, Zenon
<1>1. ASSUME NEW j \in JobIds, ClaimErasureJob(s, j)
      PROVE  TypeOK'
  <2> DEFINE tbl == ErasureLapsed(jobs)
             ttl == Within(now + ClaimTTL)
  <2>1. ttl \in Nat
    BY <1>k, ErasureRowsType, RowAssumption, Zenon DEF RowAssumption
  <2>2. jobs' = [tbl EXCEPT ![j] = [tbl[j] EXCEPT !.state = "erasureClaimed", !.available = ttl]]
    BY <1>k, <1>1, Zenon DEF ClaimErasureJob, Table
  <2>3. tbl \in Table
    BY <1>k, Zenon
  <2> HIDE DEF tbl, ttl
  <2>4. [tbl[j] EXCEPT !.state = "erasureClaimed", !.available = ttl] \in JobRow
    BY <2>1, <2>3, RowUpdateType, ZeroAttempts, Zenon DEF JobStates, Stored, Erasure, Table
  <2>5. jobs' \in Table
    BY <2>2, <2>3, <2>4, Zenon DEF Table
  <2>6. [pc |-> "erasing", job |-> j, installation |-> jobs[j].installation,
         token |-> jobs[j].token] \in EraserState
    BY <1>k, Zenon DEF EraserState, Table, JobRow
  <2>7. eraser' \in [Servers -> EraserState]
    BY <1>e, <1>1, <2>6, Zenon DEF ClaimErasureJob
  <2>8. retention' \in RetentionRow
    BY <1>t, <1>1, OverdueType, Zenon DEF ClaimErasureJob, TypeOK
  <2> QED
    BY <1>t, <1>1, <2>5, <2>7, <2>8, Zenon DEF ClaimErasureJob, TypeOK, Table
<1>2. CASE ClaimNoErasure(s)
  <2>1. retention' \in RetentionRow
    BY <1>t, <1>2, OverdueType, Zenon DEF ClaimNoErasure, TypeOK
  <2> QED
    BY <1>t, <1>2, <2>1, Zenon DEF ClaimNoErasure, TypeOK
<1>3. ASSUME NEW done \in SUBSET JobIds, EraseInvalidAPNSToken(s, done)
      PROVE  TypeOK'
  <2> DEFINE i == eraser[s].installation
             L == LeasesOf(i)
             tbl == Cascade(MarkFinal(jobs, JobsOfLeases(jobs, L), "safetyInvalidated", now),
                            L, {})
  <2>1. i \in Installations
    BY <1>j, <1>3, Zenon DEF EraseInvalidAPNSToken
  <2>2. tbl \in Table
    BY <1>k, MarkFinalType, CascadeType, Zenon DEF FinalReasons
  <2>3. jobs' \in Table /\ faults' \in Nat
    BY <1>t, <1>3, <2>2, FinalizeMarkersType, Zenon DEF EraseInvalidAPNSToken, TypeOK
  <2>4. lease' \in [Leases -> LeaseRow] /\ dedupe' \in [Leases -> [SourceEvents -> Nat]]
    BY <1>t, <1>3, LeasesDroppedType, Zenon DEF EraseInvalidAPNSToken
  <2>5. fence' \in [installation: [Installations -> Nat], route: [Leases -> Nat]]
    <3>1. PolicyEpochs \in [Installations -> Nat]
      BY <1>t, Zenon DEF PolicyEpochs, TypeOK, InstallationRow
    <3>2. /\ InstallationFence({i}, PolicyEpochs) \in [Installations -> Nat]
          /\ RouteFence(L) \in [Leases -> Nat]
      BY <1>t, <3>1, FenceType, Zenon
    <3> QED
      BY <1>3, <3>2, Zenon DEF EraseInvalidAPNSToken
  <2>6. inst' \in [Installations -> InstallationRow]
    <3>1. inst[i] \in InstallationRow
      BY <1>t, <2>1, Zenon DEF TypeOK
    <3>2. Lesser(inst[i].expires, now) \in Nat /\ Lesser(inst[i].controlExpires, now) \in Nat
      BY <1>k, <3>1, LesserNat, Zenon DEF InstallationRow
    <3>3. [inst[i] EXCEPT !.token = None, !.state = "blocked",
                          !.expires = Lesser(@, now),
                          !.controlExpires = Lesser(@, now)] \in InstallationRow
      BY <3>1, <3>2, Zenon DEF InstallationRow, InstallationStates
    <3>4. inst' = [inst EXCEPT ![i] =
                    [inst[i] EXCEPT !.token = None, !.state = "blocked",
                          !.expires = Lesser(@, now),
                          !.controlExpires = Lesser(@, now)]]
      BY <1>t, <1>3, <2>1, Zenon DEF EraseInvalidAPNSToken, TypeOK
    <3> QED
      BY <1>t, <3>3, <3>4, Zenon DEF TypeOK
  <2>7. eraser' \in [Servers -> EraserState]
    BY <1>m, <1>3, Zenon DEF EraseInvalidAPNSToken
  <2> QED
    BY <1>t, <1>3, <2>3, <2>4, <2>5, <2>6, <2>7, Zenon DEF EraseInvalidAPNSToken, TypeOK, Table
<1>4. CASE EraseNothing(s)
  BY <1>t, <1>m, <1>4, Zenon DEF EraseNothing, TypeOK
<1>5. CASE EraseError(s)
  <2>1. faults' \in Nat
    BY <1>t, <1>5, FaultType, Zenon DEF EraseError, TypeOK
  <2> QED
    BY <1>t, <1>m, <1>5, <2>1, Zenon DEF EraseError, TypeOK
<1>6. CASE DeleteErasureJob(s)
  <2>1. eraser[s].job \in JobIds
    BY <1>j, <1>6, Zenon DEF DeleteErasureJob
  <2>2. jobs' \in Table
    BY <1>k, <1>6, <2>1, DeletedType DEF DeleteErasureJob, Table, Fates
  <2>3. faults' \in Nat
    BY <1>t, <1>6, FaultType, Zenon DEF DeleteErasureJob, TypeOK
  <2> QED
    BY <1>t, <1>i, <1>6, <2>2, <2>3, Zenon DEF DeleteErasureJob, TypeOK, Table
<1>7. ASSUME NEW delay \in RetryDelays, RescheduleInvalidTokenErasure(s, delay)
      PROVE  TypeOK'
  <2> DEFINE j == eraser[s].job
             at == Within(now + delay)
             tbl == [jobs EXCEPT ![j].state = "erasurePending", ![j].available = at]
  <2>1. j \in JobIds
    BY <1>j, <1>7, Zenon DEF RescheduleInvalidTokenErasure
  <2>2. at \in Nat
    BY <1>k, ErasureRowsType, SystemAssumption, Zenon DEF SystemAssumption
  <2>3. [jobs[j] EXCEPT !.state = "erasurePending", !.available = at] \in JobRow
    BY <1>k, <2>1, <2>2, RowUpdateType, ZeroAttempts, Zenon DEF JobStates, Stored, Erasure, Table
  <2>4. tbl = [jobs EXCEPT ![j] = [jobs[j] EXCEPT !.state = "erasurePending", !.available = at]]
    BY <1>k, <2>1, Zenon DEF Table
  <2>5. tbl \in Table
    BY <1>k, <2>1, <2>3, <2>4, Zenon DEF Table
  <2>6. jobs' \in Table /\ retention' \in RetentionRow
    BY <1>t, <1>k, <1>7, <2>5, OverdueType, Zenon DEF RescheduleInvalidTokenErasure, TypeOK
  <2> QED
    BY <1>t, <1>i, <1>7, <2>6, Zenon DEF RescheduleInvalidTokenErasure, TypeOK, Table
<1>8. CASE RescheduleError(s)
  <2>1. faults' \in Nat
    BY <1>t, <1>8, FaultType, Zenon DEF RescheduleError, TypeOK
  <2> QED
    BY <1>t, <1>i, <1>8, <2>1, Zenon DEF RescheduleError, TypeOK
<1> QED
  BY <1>1, <1>2, <1>3, <1>4, <1>5, <1>6, <1>7, <1>8, Zenon DEF EraserStep


(* The table a sweep leaves is a table.                                    *)
LEMMA SweptType ==
  ASSUME jobs \in Table, NEW t \in Nat
  PROVE  SweptJobs(t) \in Table
<1> DEFINE I == ExpiredInstallations(t)
           L == ExpiredLeases(t) \cup {l \in Leases : InstallationOf[l] \in I}
           late == {j \in JobIds : jobs[j].expires <= t}
           ttl == MarkFinal(jobs, late, "ttlExpired", t)
           safety == MarkFinal(ttl, JobsOfLeases(ttl, L), "safetyInvalidated", t)
<1>1. ttl \in Table
  BY MarkFinalType, Zenon DEF FinalReasons
<1>2. safety \in Table
  <2> HIDE DEF ttl, L
  <2> QED
    BY <1>1, MarkFinalType, Zenon DEF FinalReasons
<1>3. Cascade(CompleteMarkers(safety, Markers(safety)), L, I) \in Table
  <2> HIDE DEF safety, L, I
  <2> QED
    BY <1>2, CompleteMarkersType, CascadeType, Zenon
<1> QED
  BY <1>3, Zenon DEF SweptJobs

(* The steps of the retention sweeper keep the state well typed.           *)
LEMMA SweeperTypeStep ==
  ASSUME IInv, NEW s \in Servers, SweeperStep(s)
  PROVE  TypeOK'
<1> USE DEF authority
<1>t. TypeOK
  BY Zenon DEF IInv
<1>k. jobs \in Table /\ now \in Nat /\ sweep \in [Servers -> SweepState] /\ IdleSweep \in SweepState
  BY <1>t, Zenon DEF TypeOK, Table, SweepState, IdleSweep
<1>1. CASE BeginSweep(s)
  <2>1. retention' \in RetentionRow
    BY <1>t, <1>1, Zenon DEF BeginSweep, TypeOK, RetentionRow
  <2>2. sweep' \in [Servers -> SweepState]
    BY <1>k, <1>1, Zenon DEF BeginSweep, SweepState
  <2> QED
    BY <1>t, <1>1, <2>1, <2>2, Zenon DEF BeginSweep, TypeOK
<1>2. CASE FinishSweep(s)
  <2> DEFINE t == sweep[s].started
             I == ExpiredInstallations(t)
             L == ExpiredLeases(t) \cup {l \in Leases : InstallationOf[l] \in I}
  <2>1. t \in Nat
    BY <1>k, Zenon DEF SweepState
  <2>2. jobs' \in Table
    BY <1>k, <1>2, <2>1, SweptType, Zenon DEF FinishSweep
  <2>3. lease' \in [Leases -> LeaseRow] /\ dedupe' \in [Leases -> [SourceEvents -> Nat]]
    BY <1>t, <1>2, LeasesDroppedType, Zenon DEF FinishSweep
  <2>4. inst' \in [Installations -> InstallationRow]
    BY <1>t, <1>2, NoRowType, Zenon DEF FinishSweep, TypeOK
  <2>5. PolicyEpochs \in [Installations -> Nat]
    BY <1>t, Zenon DEF PolicyEpochs, TypeOK, InstallationRow
  <2>6. /\ InstallationFence(I, PolicyEpochs) \in [Installations -> Nat]
        /\ RouteFence(ExpiredLeases(t)) \in [Leases -> Nat]
    BY <1>t, <2>5, FenceType, Zenon
  <2>7. fence' \in [installation: [Installations -> Nat], route: [Leases -> Nat]]
    BY <1>2, <2>6, Zenon DEF FinishSweep
  <2>8. retention' \in RetentionRow
    <3>1. now + SweepInterval \in Nat
      BY <1>k, SystemAssumption DEF SystemAssumption
    <3>2. (~OverdueErasure(jobs', now)) \in BOOLEAN
      BY Zenon DEF OverdueErasure
    <3> QED
      BY <1>2, <3>1, <3>2, Zenon DEF FinishSweep, RetentionRow
  <2>9. sweep' \in [Servers -> SweepState]
    BY <1>k, <1>2, Zenon DEF FinishSweep
  <2> QED
    BY <1>t, <1>2, <2>2, <2>3, <2>4, <2>7, <2>8, <2>9, Zenon DEF FinishSweep, TypeOK, Table
<1>3. CASE SweepError(s)
  <2>1. faults' \in Nat
    BY <1>t, <1>3, FaultType, Zenon DEF SweepError, TypeOK
  <2>2. sweep' \in [Servers -> SweepState]
    BY <1>k, <1>3, Zenon DEF SweepError
  <2> QED
    BY <1>t, <1>3, <2>1, <2>2, Zenon DEF SweepError, TypeOK
<1> QED
  BY <1>1, <1>2, <1>3, Zenon DEF SweeperStep

(* The registry operations keep the state well typed.                      *)
LEMMA RegistryTypeStep ==
  ASSUME IInv, RegistryStep
  PROVE  TypeOK'
<1>t. TypeOK
  BY Zenon DEF IInv
<1>k. /\ jobs \in Table /\ now \in Nat
      /\ inst \in [Installations -> InstallationRow] /\ lease \in [Leases -> LeaseRow]
  BY <1>t, Zenon DEF TypeOK, Table
<1>n. now + LeaseTTL \in Nat /\ now + ControlTTL \in Nat
  BY <1>k, SystemAssumption DEF SystemAssumption
<1>p. PICK i \in Installations, e \in 1..MaxEpoch, done \in SUBSET JobIds :
        \/ \E t \in Tokens, kept \in SUBSET LeasesOf(i) :
             \E keys \in [kept -> 1..MaxEpoch] : Refresh(i, t, e, keys, done)
        \/ AdvancePolicyActive(i, e, done)
        \/ AdvancePolicyRevoked(i, e, done)
  BY Zenon DEF RegistryStep
<1>e. e \in Nat
  BY SystemAssumption DEF SystemAssumption
<1>1. ASSUME NEW t \in Tokens, NEW kept \in SUBSET LeasesOf(i),
             NEW keys \in [kept -> 1..MaxEpoch], Refresh(i, t, e, keys, done)
      PROVE  TypeOK'
  <2> DEFINE dropped == {l \in LeasesOf(i) : lease[l].state # "absent"} \ DOMAIN keys
             rekeyed == {l \in DOMAIN keys : lease[l].state # "absent"
                                             /\ keys[l] > lease[l].routeKeyEpoch}
             invalid == IF inst[i].state # "absent" /\ inst[i].token # t
                        THEN LeasesOf(i) ELSE rekeyed \cup dropped
             tbl == Cascade(MarkFinal(jobs, JobsOfLeases(jobs, invalid),
                                      "safetyInvalidated", now), dropped, {})
  <2>1. tbl \in Table
    <3> HIDE DEF invalid, dropped
    <3> QED
      BY <1>k, MarkFinalType, CascadeType, Zenon DEF FinalReasons
  <2>2. FinalizeMarkers(tbl, done)
    BY <1>1, Zenon DEF Refresh
  <2>3. jobs' \in Table /\ faults' \in Nat
    <3> HIDE DEF tbl
    <3> QED
      BY <1>t, <2>1, <2>2, FinalizeMarkersType, Zenon DEF TypeOK
  <2>4. inst' \in [Installations -> InstallationRow]
    <3> DEFINE row == [state |-> "active", token |-> t, policyEpoch |-> e,
                       generation |-> inst[i].generation + 1, expires |-> now + LeaseTTL,
                       controlExpires |-> now + ControlTTL]
    <3>1. inst[i].generation + 1 \in Nat
      BY <1>k DEF InstallationRow
    <3>2. row \in InstallationRow
      BY <1>n, <1>e, <3>1, Zenon DEF InstallationRow, InstallationStates
    <3>3. inst' = [inst EXCEPT ![i] = row]
      BY <1>1, Zenon DEF Refresh
    <3> HIDE DEF row
    <3> QED
      BY <1>k, <3>2, <3>3, Zenon
  <2>5. lease' \in [Leases -> LeaseRow]
    <3> DEFINE row(l) == [state |-> "active", policyEpoch |-> e, routeKeyEpoch |-> keys[l],
                          expires |-> now + LeaseTTL, controlExpires |-> now + ControlTTL]
    <3>1. \A l \in kept : keys[l] \in Nat
      BY SystemAssumption DEF SystemAssumption
    <3>2. \A l \in kept : row(l) \in LeaseRow
      BY <1>n, <1>e, <3>1, Zenon DEF LeaseRow, LeaseStates
    <3>3. lease' = [l \in Leases |-> IF l \in kept THEN row(l)
                                     ELSE IF l \in dropped THEN NoLease ELSE lease[l]]
      BY <1>1, Zenon DEF Refresh
    <3> HIDE DEF row, dropped
    <3> QED
      BY <1>k, <3>2, <3>3, NoRowType, Zenon
  <2>6. dedupe' \in [Leases -> [SourceEvents -> Nat]]
    <3>1. dedupe' = [l \in Leases |-> IF l \in dropped THEN [ev \in SourceEvents |-> 0]
                                      ELSE dedupe[l]]
      BY <1>1, Zenon DEF Refresh
    <3> HIDE DEF dropped
    <3> QED
      BY <1>t, <3>1, Zenon DEF TypeOK
  <2>7. fence' \in [installation: [Installations -> Nat], route: [Leases -> Nat]]
    <3>1. fence' = [fence EXCEPT !.route = RouteFence(dropped)]
      BY <1>1, Zenon DEF Refresh
    <3>2. PolicyEpochs \in [Installations -> Nat]
      BY <1>t, Zenon DEF PolicyEpochs, TypeOK, InstallationRow
    <3> HIDE DEF dropped
    <3>3. RouteFence(dropped) \in [Leases -> Nat]
      BY <1>t, <3>2, FenceType, Zenon
    <3> QED
      BY <1>t, <3>1, <3>3, Zenon DEF TypeOK
  <2> QED
    BY <1>t, <1>1, <2>3, <2>4, <2>5, <2>6, <2>7, Zenon DEF Refresh, TypeOK, Table
<1>2. CASE AdvancePolicyActive(i, e, done)
  <2>1. jobs' \in Table /\ faults' \in Nat
    BY <1>t, <1>k, <1>2, FinalizeMarkersType, Zenon DEF AdvancePolicyActive, TypeOK
  <2>2. inst' \in [Installations -> InstallationRow]
    <3>1. [inst[i] EXCEPT !.state = "awaitingRefresh", !.policyEpoch = e,
                          !.controlExpires = now + ControlTTL] \in InstallationRow
      BY <1>k, <1>n, <1>e, Zenon DEF InstallationRow, InstallationStates
    <3>2. inst' = [inst EXCEPT ![i] =
                    [inst[i] EXCEPT !.state = "awaitingRefresh", !.policyEpoch = e,
                                    !.controlExpires = now + ControlTTL]]
      BY <1>k, <1>2, Zenon DEF AdvancePolicyActive
    <3> QED
      BY <1>k, <3>1, <3>2, Zenon
  <2>3. lease' \in [Leases -> LeaseRow]
    <3>1. \A r \in LeaseRow : [r EXCEPT !.state = "awaitingRefresh", !.policyEpoch = e,
                                        !.controlExpires = now + ControlTTL] \in LeaseRow
      BY <1>n, <1>e, Zenon DEF LeaseRow, LeaseStates
    <3> QED
      BY <1>k, <1>2, <3>1, Zenon DEF AdvancePolicyActive
  <2> QED
    BY <1>t, <1>2, <2>1, <2>2, <2>3, Zenon DEF AdvancePolicyActive, TypeOK, Table
<1>3. CASE AdvancePolicyRevoked(i, e, done)
  <2> DEFINE L == LeasesOf(i)
             tbl == Cascade(MarkFinal(jobs, JobsOfLeases(jobs, L), "safetyInvalidated", now),
                            L, {})
  <2>1. tbl \in Table
    BY <1>k, MarkFinalType, CascadeType, Zenon DEF FinalReasons
  <2>2. jobs' \in Table /\ faults' \in Nat
    BY <1>t, <1>k, <1>3, <2>1, FinalizeMarkersType, Zenon DEF AdvancePolicyRevoked, TypeOK
  <2>3. lease' \in [Leases -> LeaseRow] /\ dedupe' \in [Leases -> [SourceEvents -> Nat]]
    BY <1>t, <1>3, LeasesDroppedType, Zenon DEF AdvancePolicyRevoked
  <2>4. fence' \in [installation: [Installations -> Nat], route: [Leases -> Nat]]
    <3>1. [k \in Installations |-> e] \in [Installations -> Nat]
      BY <1>e, Zenon
    <3>2. /\ InstallationFence({i}, [k \in Installations |-> e]) \in [Installations -> Nat]
          /\ RouteFence(L) \in [Leases -> Nat]
      BY <1>t, <3>1, FenceType, Zenon
    <3> QED
      BY <1>3, <3>2, Zenon DEF AdvancePolicyRevoked
  <2>5. inst' \in [Installations -> InstallationRow]
    <3> DEFINE row == [state |-> "revoking", token |-> None, policyEpoch |-> e,
                       generation |-> inst[i].generation,
                       expires |-> IF inst[i].state = "absent" THEN now + LeaseTTL
                                   ELSE inst[i].expires,
                       controlExpires |-> now + ControlTTL]
    <3>1. row \in InstallationRow
      BY <1>k, <1>n, <1>e, Zenon DEF InstallationRow, InstallationStates
    <3>2. inst' = [inst EXCEPT ![i] = row]
      BY <1>3, Zenon DEF AdvancePolicyRevoked
    <3> HIDE DEF row
    <3> QED
      BY <1>k, <3>1, <3>2, Zenon
  <2> QED
    BY <1>t, <1>3, <2>2, <2>3, <2>4, <2>5, Zenon DEF AdvancePolicyRevoked, TypeOK, Table
<1> QED
  BY <1>p, <1>1, <1>2, <1>3, Zenon

(* The end of a process keeps what it writes well typed.                   *)
LEMMA ProcessGoneType ==
  ASSUME TypeOK, NEW s \in Servers, ProcessGone(s)
  PROVE  /\ jobs' \in Table /\ worker' \in [Workers -> WorkerState]
         /\ server' \in [Servers -> ServerStates]
         /\ claims' \in [Servers -> SUBSET JobIds]
         /\ eraser' \in [Servers -> EraserState]
         /\ sweep' \in [Servers -> SweepState]
<1>1. jobs' \in Table
  <2>1. \A r \in JobRow : [r EXCEPT !.lost = @ + 1] \in JobRow
    BY RowUpdateType, ZeroAttempts, Zenon
  <2> QED
    BY <2>1, Zenon DEF TypeOK, ProcessGone, Table
<1>2. worker' \in [Workers -> WorkerState]
  BY IdleType, Zenon DEF TypeOK, ProcessGone
<1>3. server' \in [Servers -> ServerStates]
  BY Zenon DEF TypeOK, ProcessGone, ServerStates
<1>4. claims' \in [Servers -> SUBSET JobIds]
  BY Zenon DEF TypeOK, ProcessGone
<1>5. eraser' \in [Servers -> EraserState]
  BY IdleType, Zenon DEF TypeOK, ProcessGone
<1>6. sweep' \in [Servers -> SweepState]
  <2>1. IdleSweep \in SweepState
    BY Zenon DEF IdleSweep, SweepState
  <2> QED
    BY <2>1, Zenon DEF TypeOK, ProcessGone
<1> QED
  BY <1>1, <1>2, <1>3, <1>4, <1>5, <1>6, Zenon

(* The steps of a process's life keep the state well typed.                *)
LEMMA ProcessTypeStep ==
  ASSUME IInv, NEW s \in Servers, ProcessStep(s)
  PROVE  TypeOK'
<1> USE DEF authority
<1>t. TypeOK
  BY DEF IInv
<1>k. jobs \in Table /\ now \in Nat /\ ErasureLapsed(jobs) \in Table
  BY <1>t, ErasureRowsType, Zenon DEF TypeOK, Table
<1>1. CASE Crash(s)
  <2>1. faults' \in Nat
    BY <1>t, <1>1, FaultType, Zenon DEF Crash, TypeOK
  <2> QED
    BY <1>t, <1>1, <2>1, ProcessGoneType, Zenon DEF Crash, TypeOK, Table
<1>2. CASE BeginStop(s)
  <2>1. faults' \in Nat /\ server' \in [Servers -> ServerStates]
    BY <1>t, <1>2, FaultType, FailedType, Zenon DEF BeginStop, TypeOK
  <2> QED
    BY <1>t, <1>2, <2>1, Zenon DEF BeginStop, TypeOK
<1>3. CASE CancelWork(s)
  <2>1. server' \in [Servers -> ServerStates]
    BY <1>t, <1>3, Zenon DEF CancelWork, TypeOK, ServerStates
  <2> QED
    BY <1>t, <1>3, <2>1, Zenon DEF CancelWork, TypeOK
<1>4. CASE ProcessExit(s)
  BY <1>t, <1>4, ProcessGoneType, Zenon DEF ProcessExit, TypeOK, Table
<1>5. CASE StartErasure(s)
  <2> DEFINE tbl == ErasureLapsed(jobs)
  <2>1. jobs' = [j \in JobIds |-> IF tbl[j].state = "erasurePending"
                                  THEN [tbl[j] EXCEPT !.available = Lesser(@, now)]
                                  ELSE tbl[j]]
    BY <1>5, Zenon DEF StartErasure
  <2>2. tbl \in Table
    BY <1>k, Zenon
  <2> HIDE DEF tbl
  <2>3. \A r \in JobRow : [r EXCEPT !.available = Lesser(@, now)] \in JobRow
    <3> TAKE r \in JobRow
    <3>1. r.available \in Nat
      BY Zenon DEF JobRow
    <3>2. Lesser(r.available, now) \in Nat
      BY <1>k, <3>1, LesserNat, Zenon
    <3> QED
      BY <3>2, RowUpdateType, ZeroAttempts, Zenon
  <2>4. jobs' \in Table
    BY <2>1, <2>2, <2>3, Zenon DEF Table
  <2>5. retention' \in RetentionRow
    BY <1>t, <1>5, OverdueType, Zenon DEF StartErasure, TypeOK
  <2>6. server' \in [Servers -> ServerStates]
    BY <1>t, <1>5, Zenon DEF StartErasure, TypeOK, ServerStates
  <2> QED
    BY <1>t, <1>5, <2>4, <2>5, <2>6, Zenon DEF StartErasure, TypeOK, Table
<1>6. CASE StartDelivery(s)
  <2>1. jobs' \in Table /\ faults' \in Nat /\ retention' \in RetentionRow
    BY <1>t, <1>6, RecoverType, Zenon DEF StartDelivery
  <2>2. server' \in [Servers -> ServerStates]
    BY <1>t, <1>6, Zenon DEF StartDelivery, TypeOK, ServerStates
  <2>3. worker' \in [Workers -> WorkerState]
    BY <1>t, <1>6, IdleType, Zenon DEF StartDelivery, TypeOK
  <2> QED
    BY <1>t, <1>6, <2>1, <2>2, <2>3, Zenon DEF StartDelivery, TypeOK, Table
<1> QED
  BY <1>1, <1>2, <1>3, <1>4, <1>5, <1>6, Zenon DEF ProcessStep

(* An enqueue keeps the state well typed.                                  *)
LEMMA EnqueueTypeStep ==
  ASSUME IInv, Enqueue
  PROVE  TypeOK'
<1>t. TypeOK
  BY DEF IInv
<1>p. PICK j \in JobIds, l \in Leases, e \in SourceEvents, ttl \in JobTTLs :
        EnqueueDeliveryJob(j, l, e, ttl)
  BY Zenon DEF Enqueue
<1>k. jobs \in Table /\ now \in Nat /\ ttl \in Nat
  BY <1>t, SystemAssumption, Zenon DEF TypeOK, Table, SystemAssumption
<1> DEFINE i == InstallationOf[l]
           recovered == CompleteMarkers(RecoveredJobs, Markers(RecoveredJobs))
           row == Inserted(l, inst[i].token, lease[l].policyEpoch, lease[l].routeKeyEpoch,
                           e, Lesser(now + ttl, AuthorityExpires(l)), now)
<1>1. recovered \in Table
  BY <1>k, RecoveredType, CompleteMarkersType, Zenon DEF RecoveredJobs
<1>2. i \in Installations
  BY RowAssumption, Zenon DEF RowAssumption
<1>3. /\ lease[l].expires \in Nat /\ lease[l].controlExpires \in Nat
      /\ lease[l].policyEpoch \in Nat /\ lease[l].routeKeyEpoch \in Nat
      /\ inst[i].expires \in Nat /\ inst[i].controlExpires \in Nat
      /\ inst[i].token \in Tokens \cup {None}
  <2>1. lease[l] \in LeaseRow /\ inst[i] \in InstallationRow
    BY <1>t, <1>2, Zenon DEF TypeOK
  <2> QED
    BY <2>1, Zenon DEF LeaseRow, InstallationRow
<1>4. AuthorityExpires(l) \in Nat
  BY <1>3, LesserNat, Zenon DEF AuthorityExpires
<1>5. Lesser(now + ttl, AuthorityExpires(l)) \in Nat
  <2>1. now + ttl \in Nat
    BY <1>k
  <2> QED
    BY <1>4, <2>1, LesserNat, Zenon
<1>6. row \in JobRow
  <2> DEFINE expires == Lesser(now + ttl, AuthorityExpires(l))
             policyEpoch == lease[l].policyEpoch
             keyEpoch == lease[l].routeKeyEpoch
             token == inst[i].token
  <2>1. expires \in Nat /\ policyEpoch \in Nat /\ keyEpoch \in Nat
        /\ token \in Tokens \cup {None}
    BY <1>3, <1>5, Zenon
  <2> HIDE DEF expires, policyEpoch, keyEpoch, token
  <2>2. Inserted(l, token, policyEpoch, keyEpoch, e, expires, now) \in JobRow
    BY <1>k, <2>1, ZeroAttempts, Zenon
      , Zenon DEF Inserted, Unborn, JobRow, JobStates, Stored, Live, Fates
  <2> QED
    BY <2>2, Zenon DEF expires, policyEpoch, keyEpoch, token
<1>7. jobs' = [recovered EXCEPT ![j] = row]
  BY <1>p, Zenon DEF EnqueueDeliveryJob, Enqueued
<1>8. jobs' \in Table
  <2> HIDE DEF recovered, row
  <2> QED
    BY <1>1, <1>6, <1>7, Zenon DEF Table
<1>9. dedupe' \in [Leases -> [SourceEvents -> Nat]]
  <2>1. now + JobLifetime \in Nat
    BY <1>k, RowAssumption DEF RowAssumption
  <2> QED
    BY <1>t, <1>p, <2>1, Zenon DEF EnqueueDeliveryJob, TypeOK
<1> QED
  BY <1>t, <1>p, <1>8, <1>9, Zenon DEF EnqueueDeliveryJob, TypeOK, Table

(* Every step keeps the state well typed.                                  *)
LEMMA TypeStep ==
  ASSUME IInv, [Next]_vars
  PROVE  TypeOK'
<1>t. TypeOK
  BY Zenon DEF IInv
<1>1. CASE UNCHANGED vars
  BY <1>t, <1>1, Zenon DEF vars, TypeOK
<1>2. CASE Tick
  BY <1>t, <1>2 DEF Tick, TypeOK, authority
<1>3. ASSUME NEW done \in SUBSET JobIds, EnqueueRefused(done)
      PROVE  TypeOK'
  BY <1>t, <1>3, RecoverType, Zenon DEF EnqueueRefused, TypeOK, authority, Table
<1> QED
  BY Zenon, <1>1, <1>2, <1>3, EnqueueTypeStep, WorkerTypeStep, EraserTypeStep, SweeperTypeStep,
     ProcessTypeStep, RegistryTypeStep DEF Next

=============================================================================
