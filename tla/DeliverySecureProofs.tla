------------------------ MODULE DeliverySecureProofs ------------------------
(***************************************************************************)
(* The steps of everything else, the erasure worker, the sweeper, the      *)
(* registry, the processes and enqueues, leave every guard undisturbed.    *)
(***************************************************************************)
EXTENDS DeliveryWorkerProofs

(* Finalizing and cascading jobs of an installation no guard shares leaves *)
(* every guard's row, route and installation outside of what is written.   *)
LEMMA OtherInstallation ==
  ASSUME IInv, NEW i \in Installations, i \notin SharedInstallations,
         NEW M \in SUBSET LeasesOf(i), NEW D \in SUBSET LeasesOf(i)
  PROVE  LET tbl == Cascade(MarkFinal(jobs, JobsOfLeases(jobs, M), "safetyInvalidated", now),
                            D, {})
         IN  /\ tbl \in Table /\ TableConsistent(tbl, LockedJobs)
             /\ \A v \in Guards :
                  /\ tbl[worker[v].job] = jobs[worker[v].job]
                  /\ jobs[worker[v].job].lease \in Leases \ LeasesOf(i)
                  /\ InstallationOf[jobs[worker[v].job].lease] \in Installations \ {i}
<1> DEFINE marked == MarkFinal(jobs, JobsOfLeases(jobs, M), "safetyInvalidated", now)
<1>1. jobs \in Table /\ now \in Nat /\ TableConsistent(jobs, LockedJobs)
  BY Zenon DEF IInv, TypeOK, Table
<1>2. marked \in Table /\ TableConsistent(marked, LockedJobs)
  BY <1>1, MarkFinalType, MarkFinalConsistent, Zenon DEF FinalReasons
<1>3. D \in SUBSET Leases /\ {} \in SUBSET Installations
  BY Zenon DEF LeasesOf
<1>4. ASSUME NEW v \in Guards
      PROVE  /\ jobs[worker[v].job].lease \in Leases \ LeasesOf(i)
             /\ InstallationOf[jobs[worker[v].job].lease] \in Installations \ {i}
             /\ marked[worker[v].job] = jobs[worker[v].job]
  <2>1. /\ worker[v].job \in JobIds /\ jobs[worker[v].job].state = "claimed"
    BY GuardFacts, Zenon
  <2>2. /\ jobs[worker[v].job].lease \in Leases
        /\ InstallationOf[jobs[worker[v].job].lease] \in Installations \ {i}
    BY GuardShares, RowAssumption, Zenon DEF RowAssumption
  <2>3. jobs[worker[v].job].lease \notin LeasesOf(i)
    BY <2>2, Zenon DEF LeasesOf
  <2>4. worker[v].job \notin JobsOfLeases(jobs, M)
    BY <2>3, Zenon DEF JobsOfLeases
  <2> QED
    BY <1>1, <2>1, <2>2, <2>3, <2>4, UntouchedByFinalization
<1> HIDE DEF marked
<1>5. Cascade(marked, D, {}) \in Table /\ TableConsistent(Cascade(marked, D, {}), LockedJobs)
  BY <1>2, <1>3, CascadeType, CascadeConsistent, Zenon
<1>6. \A v \in Guards : Cascade(marked, D, {})[worker[v].job] = jobs[worker[v].job]
  <2> TAKE v \in Guards
  <2>1. worker[v].job \in JobIds /\ marked[worker[v].job].lease \notin D
    BY <1>4, GuardFacts, Zenon
  <2> QED
    BY <1>4, <2>1, Zenon DEF Cascade
<1> QED
  BY <1>4, <1>5, <1>6, Zenon DEF marked

(* The steps of an erasure worker keep the rows consistent and egress      *)
(* secure.                                                                 *)
LEMMA EraserSecureStep ==
  ASSUME IInv, NEW s \in Servers, EraserStep(s)
  PROVE  Secure'
<1> USE DEF authority
<1>t. TypeOK /\ ClaimsCarried /\ TableConsistent(jobs, LockedJobs)
  BY Zenon DEF IInv
<1>j. eraser[s].pc # "idle" => eraser[s].job \in JobIds /\ eraser[s].installation \in Installations
  BY <1>t, Zenon DEF ClaimsCarried
<1>k. jobs \in Table /\ now \in Nat /\ retention \in RetentionRow
  BY <1>t, Zenon DEF TypeOK, Table
<1>w. worker' = worker => Guards' = Guards /\ \A v \in Guards : worker'[v] = worker[v]
  BY Zenon DEF Guards
<1>e. \A v \in Guards : jobs[worker[v].job].state \notin Erasure
  BY GuardFacts, Zenon DEF Erasure
<1>1. ASSUME NEW j \in JobIds, ClaimErasureJob(s, j)
      PROVE  Secure'
  <2> DEFINE tbl == ErasureLapsed(jobs)
             ttl == Within(now + ClaimTTL)
             row == [tbl[j] EXCEPT !.state = "erasureClaimed", !.available = ttl]
  <2>1. \A k \in JobIds : tbl[k] = jobs[k] \/
          (jobs[k].state = "erasureClaimed" /\
           tbl[k] = [jobs[k] EXCEPT !.state = "erasurePending", !.available = now])
    BY Zenon DEF ErasureLapsed
  <2>2. tbl \in Table
    BY <1>k, ErasureRowsType, Zenon
  <2>3. jobs' = [tbl EXCEPT ![j] = row]
    BY <1>1, <2>2, Zenon DEF ClaimErasureJob, Table
  <2>4. tbl[j].state = "erasurePending"
    BY <1>1, Zenon DEF ClaimErasureJob, ErasureCandidates
  <2> HIDE DEF tbl, ttl
  <2>5. TableConsistent(tbl, LockedJobs)
    <3> SUFFICES ASSUME NEW k \in JobIds
                 PROVE  RowConsistent(tbl[k], OpenOn(LockedJobs, k))
      BY Zenon DEF TableConsistent
    <3>1. jobs[k] \in JobRow /\ RowConsistent(jobs[k], OpenOn(LockedJobs, k))
      BY <1>k, <1>t, Zenon DEF Table, TableConsistent
    <3>2. CASE jobs[k].state = "erasureClaimed" /\
               tbl[k] = [jobs[k] EXCEPT !.state = "erasurePending", !.available = now]
      BY <3>1, <3>2, Zenon DEF RowConsistent, JobRow, Live, Erasure
    <3> QED
      BY <2>1, <3>1, <3>2, Zenon
  <2>6. RowConsistent(row, OpenOn(LockedJobs, j))
    <3>1. tbl[j] \in JobRow /\ RowConsistent(tbl[j], OpenOn(LockedJobs, j))
      BY <2>2, <2>5, Zenon DEF Table, TableConsistent
    <3> QED
      BY <2>4, <3>1, Zenon DEF RowConsistent, JobRow, Live, Erasure
  <2>7. TableConsistent(jobs', LockedJobs)
    <3> HIDE DEF row
    <3> QED
      BY <2>2, <2>3, <2>5, <2>6, RowWritten, Zenon
  <2>8. \A v \in Guards : jobs'[worker[v].job] = jobs[worker[v].job]
    <3> TAKE v \in Guards
    <3>1. worker[v].job \in JobIds /\ jobs[worker[v].job].state = "claimed"
      BY GuardFacts, Zenon
    <3>2. tbl[worker[v].job] = jobs[worker[v].job]
      BY <2>1, <3>1, Zenon
    <3>3. worker[v].job # j
      BY <2>4, <3>1, <3>2, Zenon
    <3> QED
      BY <2>2, <2>3, <3>1, <3>2, <3>3, Zenon DEF Table
  <2>9. \A v \in Guards : Undisturbed(v)
    BY <1>k, <1>1, <2>8, OverdueType, GuardFacts, Zenon DEF ClaimErasureJob, Undisturbed
  <2> QED
    BY <1>w, <1>1, <2>7, <2>9, QuietStep, Zenon DEF ClaimErasureJob
<1>2. CASE ClaimNoErasure(s)
  <2>1. \A v \in Guards : Undisturbed(v)
    BY <1>k, <1>2, OverdueType, GuardFacts, Zenon DEF ClaimNoErasure, Undisturbed
  <2> QED
    BY <1>t, <1>w, <1>2, <2>1, QuietStep, Zenon DEF ClaimNoErasure
<1>3. ASSUME NEW done \in SUBSET JobIds, EraseInvalidAPNSToken(s, done)
      PROVE  Secure'
  <2> DEFINE i == eraser[s].installation
             L == LeasesOf(i)
             tbl == Cascade(MarkFinal(jobs, JobsOfLeases(jobs, L), "safetyInvalidated", now),
                            L, {})
  <2>1. i \in Installations /\ i \notin SharedInstallations
    BY <1>j, <1>3, Zenon DEF EraseInvalidAPNSToken
  <2>2. /\ tbl \in Table /\ TableConsistent(tbl, LockedJobs)
        /\ \A v \in Guards :
             /\ tbl[worker[v].job] = jobs[worker[v].job]
             /\ jobs[worker[v].job].lease \in Leases \ L
             /\ InstallationOf[jobs[worker[v].job].lease] \in Installations \ {i}
    BY <2>1, OtherInstallation, Zenon
  <2>3. /\ FinalizeMarkers(tbl, done) /\ worker' = worker /\ retention' = retention
        /\ lease' = [l \in Leases |-> IF l \in L THEN NoLease ELSE lease[l]]
        /\ \A k \in Installations \ {i} : inst'[k] = inst[k]
    <3>1. inst \in [Installations -> InstallationRow]
      BY <1>t, Zenon DEF TypeOK
    <3> QED
      BY <1>3, <3>1, Zenon DEF EraseInvalidAPNSToken, LeasesDropped
  <2> HIDE DEF tbl, L
  <2>4. TableConsistent(jobs', LockedJobs)
    BY <2>2, <2>3, FinalizeMarkersSecure, Zenon
  <2>5. \A v \in Guards : jobs'[worker[v].job] = jobs[worker[v].job]
    BY <2>2, <2>3, FinalizeMarkersSecure, GuardFacts
  <2>6. \A v \in Guards : Undisturbed(v)
    BY <2>2, <2>3, <2>5, GuardFacts, Zenon DEF Undisturbed
  <2> QED
    BY <1>w, <2>3, <2>4, <2>6, QuietStep, Zenon
<1>4. CASE EraseNothing(s)
  BY <1>w, <1>4, IdleStep, Zenon DEF EraseNothing
<1>5. CASE EraseError(s)
  BY <1>w, <1>5, IdleStep, Zenon DEF EraseError
<1>6. CASE DeleteErasureJob(s)
  <2> DEFINE j == eraser[s].job
  <2>1. CASE jobs' = jobs
    BY <1>w, <1>6, <2>1, IdleStep, Zenon DEF DeleteErasureJob
  <2>2. CASE jobs[j].state \in Erasure /\ jobs' = [jobs EXCEPT ![j] = Deleted(jobs[j], "erased")]
    <3>1. j \in JobIds
      BY <1>j, <1>6, Zenon DEF DeleteErasureJob
    <3>2. /\ jobs[j] \in JobRow /\ RowConsistent(jobs[j], OpenOn(LockedJobs, j))
          /\ OpenOn(LockedJobs, j) \in {0, 1}
      BY <1>k, <1>t, <3>1, OpenOnType, Zenon DEF Table, TableConsistent
    <3>3. RowConsistent(Deleted(jobs[j], "erased"), OpenOn(LockedJobs, j))
      BY <2>2, <3>2, DeletedConsistent, Zenon DEF Fates, Erasure
    <3>4. TableConsistent(jobs', LockedJobs)
      BY <1>k, <1>t, <2>2, <3>1, <3>3, RowWritten, Zenon
    <3>5. \A v \in Guards : worker[v].job \in JobIds \ {j} /\ retention.safe
      BY <1>e, <2>2, GuardFacts, Zenon
    <3>6. \A v \in Guards : Undisturbed(v)
      BY <1>k, <1>6, <2>2, <3>5, Zenon DEF DeleteErasureJob, Undisturbed, Table
    <3> QED
      BY <1>w, <1>6, <3>4, <3>6, QuietStep, Zenon DEF DeleteErasureJob
  <2> QED
    BY <1>6, <2>1, <2>2, Zenon DEF DeleteErasureJob
<1>7. ASSUME NEW delay \in RetryDelays, RescheduleInvalidTokenErasure(s, delay)
      PROVE  Secure'
  <2> DEFINE j == eraser[s].job
             at == Within(now + delay)
             row == [jobs[j] EXCEPT !.state = "erasurePending", !.available = at]
  <2>1. CASE jobs[j].state # "erasureClaimed"
    BY <1>w, <1>7, <2>1, IdleStep, Zenon DEF RescheduleInvalidTokenErasure
  <2>2. CASE jobs[j].state = "erasureClaimed"
    <3>1. j \in JobIds
      BY <1>j, <1>7, Zenon DEF RescheduleInvalidTokenErasure
    <3>2. jobs' = [jobs EXCEPT ![j] = row]
      BY <1>k, <1>7, <2>2, <3>1, Zenon DEF RescheduleInvalidTokenErasure, Table
    <3>3. jobs[j] \in JobRow /\ RowConsistent(jobs[j], OpenOn(LockedJobs, j))
      BY <1>k, <1>t, <3>1, Zenon DEF Table, TableConsistent
    <3>4. RowConsistent(row, OpenOn(LockedJobs, j))
      <4> HIDE DEF at
      <4> QED
        BY <2>2, <3>3, Zenon DEF RowConsistent, JobRow, Live, Erasure
    <3> HIDE DEF row
    <3>5. TableConsistent(jobs', LockedJobs)
      BY <1>k, <1>t, <3>1, <3>2, <3>4, RowWritten, Zenon
    <3>6. \A v \in Guards : worker[v].job \in JobIds \ {j} /\ retention.safe
      BY <1>e, <2>2, GuardFacts, Zenon DEF Erasure
    <3>7. \A v \in Guards : jobs'[worker[v].job] = jobs[worker[v].job]
      BY <1>k, <3>2, <3>6, Zenon DEF Table
    <3>8. Guards # {} => retention' = retention
      BY <1>k, <1>7, <2>2, OverdueType, Zenon DEF RescheduleInvalidTokenErasure
    <3>9. \A v \in Guards : Undisturbed(v)
      BY <1>7, <3>6, <3>7, <3>8, Zenon DEF RescheduleInvalidTokenErasure, Undisturbed
    <3> QED
      BY <1>w, <1>7, <3>5, <3>9, QuietStep, Zenon DEF RescheduleInvalidTokenErasure
  <2> QED
    BY <2>1, <2>2, Zenon
<1>8. CASE RescheduleError(s)
  BY <1>w, <1>8, IdleStep, Zenon DEF RescheduleError
<1> QED
  BY <1>1, <1>2, <1>3, <1>4, <1>5, <1>6, <1>7, <1>8, Zenon DEF EraserStep

(* The table a sweep leaves is consistent.                                 *)
LEMMA SweptConsistent ==
  ASSUME jobs \in Table, NEW t \in Nat, TableConsistent(jobs, LockedJobs)
  PROVE  TableConsistent(SweptJobs(t), LockedJobs)
<1> DEFINE I == ExpiredInstallations(t)
           L == ExpiredLeases(t) \cup {l \in Leases : InstallationOf[l] \in I}
           late == {j \in JobIds : jobs[j].expires <= t}
           ttl == MarkFinal(jobs, late, "ttlExpired", t)
           safety == MarkFinal(ttl, JobsOfLeases(ttl, L), "safetyInvalidated", t)
<1>1. ttl \in Table /\ TableConsistent(ttl, LockedJobs)
  BY MarkFinalType, MarkFinalConsistent, Zenon DEF FinalReasons
<1>2. safety \in Table /\ TableConsistent(safety, LockedJobs)
  <2> HIDE DEF ttl, L
  <2> QED
    BY <1>1, MarkFinalType, MarkFinalConsistent, Zenon DEF FinalReasons
<1>3. L \in SUBSET Leases /\ I \in SUBSET Installations
  BY Zenon DEF ExpiredLeases, ExpiredInstallations
<1>4. TableConsistent(Cascade(CompleteMarkers(safety, Markers(safety)), L, I), LockedJobs)
  <2> HIDE DEF safety, L, I
  <2>1. /\ CompleteMarkers(safety, Markers(safety)) \in Table
        /\ TableConsistent(CompleteMarkers(safety, Markers(safety)), LockedJobs)
    BY <1>2, CompleteMarkersType, CompleteMarkersConsistent, Zenon
  <2> QED
    BY <1>3, <2>1, CascadeConsistent, Zenon
<1> QED
  BY <1>4, Zenon DEF SweptJobs

(* A sweep waits for every guard before it starts, and none is taken while *)
(* it runs, so whatever it deletes is under no guard.                      *)
LEMMA SweeperSecureStep ==
  ASSUME IInv, NEW s \in Servers, SweeperStep(s)
  PROVE  Secure'
<1> USE DEF authority
<1>t. TypeOK /\ TableConsistent(jobs, LockedJobs) /\ SweepShowsUnsafe
  BY Zenon DEF IInv
<1>k. jobs \in Table /\ (sweep[s].active => sweep[s].started \in Nat)
  <2>1. sweep[s] \in SweepState
    BY <1>t, Zenon DEF TypeOK
  <2> QED
    BY <1>t, <2>1, Zenon DEF TypeOK, Table, SweepState
<1>w. worker' = worker => Guards' = Guards /\ \A v \in Guards : worker'[v] = worker[v]
  BY DEF Guards
<1>g. sweep[s].active => Guards = {}
  BY <1>t, GuardFacts, Zenon DEF SweepShowsUnsafe
<1>1. CASE BeginSweep(s)
  BY <1>t, <1>w, <1>1, QuietStep, Zenon DEF BeginSweep
<1>2. CASE FinishSweep(s)
  <2>1. sweep[s].active /\ jobs' = SweptJobs(sweep[s].started) /\ worker' = worker
    BY <1>2, Zenon DEF FinishSweep
  <2>2. TableConsistent(jobs', LockedJobs)
    BY <1>t, <1>k, <2>1, SweptConsistent, Zenon
  <2> QED
    BY <1>g, <1>w, <2>1, <2>2, QuietStep, Zenon
<1>3. CASE SweepError(s)
  BY <1>w, <1>3, IdleStep, Zenon DEF SweepError
<1> QED
  BY <1>1, <1>2, <1>3, Zenon DEF SweeperStep

(* A registry operation waits for the guards of its installation.          *)
LEMMA RegistrySecureStep ==
  ASSUME IInv, RegistryStep
  PROVE  Secure'
<1>t. TypeOK /\ TableConsistent(jobs, LockedJobs)
  BY Zenon DEF IInv
<1>k. jobs \in Table /\ inst \in [Installations -> InstallationRow]
  BY <1>t, Zenon DEF TypeOK, Table
<1>w. worker' = worker => Guards' = Guards /\ \A v \in Guards : worker'[v] = worker[v]
  BY Zenon DEF Guards
<1>p. PICK i \in Installations, e \in 1..MaxEpoch, done \in SUBSET JobIds :
        \/ \E t \in Tokens, kept \in SUBSET LeasesOf(i) :
             \E keys \in [kept -> 1..MaxEpoch] : Refresh(i, t, e, keys, done)
        \/ AdvancePolicyActive(i, e, done)
        \/ AdvancePolicyRevoked(i, e, done)
  BY Zenon DEF RegistryStep
<1>f. ASSUME i \notin SharedInstallations, worker' = worker, retention' = retention,
             NEW M \in SUBSET LeasesOf(i), NEW D \in SUBSET LeasesOf(i),
             \A l \in Leases \ LeasesOf(i) : lease'[l] = lease[l],
             \A k \in Installations \ {i} : inst'[k] = inst[k],
             FinalizeMarkers(Cascade(MarkFinal(jobs, JobsOfLeases(jobs, M),
                                               "safetyInvalidated", now), D, {}), done)
      PROVE  Secure'
  <2> DEFINE tbl == Cascade(MarkFinal(jobs, JobsOfLeases(jobs, M),
                                      "safetyInvalidated", now), D, {})
  <2>1. /\ tbl \in Table /\ TableConsistent(tbl, LockedJobs)
        /\ \A v \in Guards :
             /\ tbl[worker[v].job] = jobs[worker[v].job]
             /\ jobs[worker[v].job].lease \in Leases \ LeasesOf(i)
             /\ InstallationOf[jobs[worker[v].job].lease] \in Installations \ {i}
    BY <1>f, OtherInstallation
  <2>2. FinalizeMarkers(tbl, done)
    BY <1>f, Zenon
  <2> HIDE DEF tbl
  <2>3. TableConsistent(jobs', LockedJobs)
    BY <2>1, <2>2, FinalizeMarkersSecure, Zenon
  <2>4. \A v \in Guards : jobs'[worker[v].job] = jobs[worker[v].job]
    BY <2>1, <2>2, FinalizeMarkersSecure, GuardFacts
  <2>5. \A v \in Guards : Undisturbed(v)
    BY <1>f, <2>1, <2>4, GuardFacts, Zenon DEF Undisturbed
  <2> QED
    BY <1>f, <1>w, <2>3, <2>5, QuietStep, Zenon
<1>1. ASSUME NEW t \in Tokens, NEW kept \in SUBSET LeasesOf(i),
             NEW keys \in [kept -> 1..MaxEpoch], Refresh(i, t, e, keys, done)
      PROVE  Secure'
  <2> DEFINE dropped == {l \in LeasesOf(i) : lease[l].state # "absent"} \ kept
             rekeyed == {l \in kept : lease[l].state # "absent"
                                      /\ keys[l] > lease[l].routeKeyEpoch}
             invalid == IF inst[i].state # "absent" /\ inst[i].token # t
                        THEN LeasesOf(i) ELSE rekeyed \cup dropped
  <2>1. DOMAIN keys = kept
    BY Zenon
  <2>2. dropped \in SUBSET LeasesOf(i) /\ invalid \in SUBSET LeasesOf(i)
    BY Zenon
  <2>3. /\ i \notin SharedInstallations /\ worker' = worker /\ retention' = retention
        /\ \A k \in Installations \ {i} : inst'[k] = inst[k]
        /\ \A l \in Leases \ LeasesOf(i) : lease'[l] = lease[l]
    BY <1>1, <1>k, <2>1, <2>2, Zenon DEF Refresh
  <2>4. FinalizeMarkers(Cascade(MarkFinal(jobs, JobsOfLeases(jobs, invalid),
                                          "safetyInvalidated", now), dropped, {}), done)
    BY <1>1, <2>1, Zenon DEF Refresh
  <2> HIDE DEF dropped, invalid
  <2> QED
    BY <1>f, <2>2, <2>3, <2>4, Zenon
<1>2. CASE AdvancePolicyActive(i, e, done)
  <2>1. /\ i \notin SharedInstallations /\ worker' = worker /\ retention' = retention
        /\ \A k \in Installations \ {i} : inst'[k] = inst[k]
        /\ \A l \in Leases \ LeasesOf(i) : lease'[l] = lease[l]
        /\ FinalizeMarkers(jobs, done)
    BY <1>2, <1>k, Zenon DEF AdvancePolicyActive, LeasesOf
  <2>2. TableConsistent(jobs', LockedJobs)
    BY <1>t, <1>k, <2>1, FinalizeMarkersSecure, Zenon
  <2>3. \A v \in Guards : jobs'[worker[v].job] = jobs[worker[v].job]
    BY <1>t, <1>k, <2>1, FinalizeMarkersSecure, GuardFacts, Zenon
  <2>4. \A v \in Guards :
          /\ jobs[worker[v].job].lease \in Leases \ LeasesOf(i)
          /\ InstallationOf[jobs[worker[v].job].lease] \in Installations \ {i}
    BY <2>1, OtherInstallation, Zenon
  <2>5. \A v \in Guards : Undisturbed(v)
    BY <2>1, <2>3, <2>4, GuardFacts, Zenon DEF Undisturbed
  <2> QED
    BY <1>w, <2>1, <2>2, <2>5, QuietStep, Zenon
<1>3. CASE AdvancePolicyRevoked(i, e, done)
  <2> DEFINE L == LeasesOf(i)
  <2>1. /\ i \notin SharedInstallations /\ worker' = worker /\ retention' = retention
        /\ \A k \in Installations \ {i} : inst'[k] = inst[k]
        /\ \A l \in Leases \ L : lease'[l] = lease[l]
    BY <1>3, <1>k, Zenon DEF AdvancePolicyRevoked, LeasesDropped
  <2>2. CASE inst[i].state # "absent"
    BY <1>3, <1>f, <2>1, <2>2, Zenon DEF AdvancePolicyRevoked
  <2>3. CASE inst[i].state = "absent"
    <3>1. jobs' = jobs
      BY <1>3, <2>3, Zenon DEF AdvancePolicyRevoked
    <3>2. \A v \in Guards :
            /\ jobs[worker[v].job].lease \in Leases \ L
            /\ InstallationOf[jobs[worker[v].job].lease] \in Installations \ {i}
      BY <2>1, OtherInstallation, Zenon
    <3>3. \A v \in Guards : Undisturbed(v)
      BY <2>1, <3>1, <3>2, GuardFacts, Zenon DEF Undisturbed
    <3> QED
      BY <1>t, <1>w, <2>1, <3>1, <3>3, QuietStep, Zenon
  <2> QED
    BY <2>2, <2>3, Zenon
<1> QED
  BY <1>p, <1>1, <1>2, <1>3, Zenon

(* A process that dies rolls its guards back: their attempts are lost, the *)
(* guards of other processes are undisturbed.                              *)
LEMMA ProcessGoneSecure ==
  ASSUME IInv, NEW s \in Servers, ProcessGone(s), UNCHANGED <<lease, inst, retention>>
  PROVE  Secure'
<1>t. TypeOK /\ TableConsistent(jobs, LockedJobs) /\ NoConcurrentEgress
  BY Zenon DEF IInv
<1>1. /\ Guards' = {w \in Guards : ServerOf[w] # s}
      /\ \A w \in Guards' : worker'[w] = worker[w]
  BY <1>t, Zenon DEF ProcessGone, Guards, Exited, Idle
<1>2. ASSUME NEW w \in Guards'
      PROVE  jobs'[worker[w].job] = jobs[worker[w].job]
  <2>1. w \in Guards /\ ServerOf[w] # s /\ worker[w].job \in JobIds
    BY <1>1, GuardFacts, Zenon
  <2>2. ~ \E v \in Guards : ServerOf[v] = s /\ worker[v].job = worker[w].job
    BY <1>t, <2>1, Zenon DEF NoConcurrentEgress
  <2> QED
    BY <2>1, <2>2, Zenon DEF ProcessGone
<1>3. \A w \in Guards' : w \in Guards /\ Undisturbed(w)
  BY <1>1, <1>2, GuardFacts, Zenon DEF Undisturbed
<1>4. ASSUME NEW j \in JobIds
      PROVE  RowConsistent(jobs'[j], OpenOn(LockedJobs', j))
  <2>1. jobs[j] \in JobRow /\ RowConsistent(jobs[j], OpenOn(LockedJobs, j))
    BY <1>t, Zenon DEF TypeOK, TableConsistent
  <2>2. CASE \E w \in Guards : ServerOf[w] = s /\ worker[w].job = j
    <3> PICK w \in Guards : ServerOf[w] = s /\ worker[w].job = j
      BY <2>2, Zenon
    <3>1. j \notin LockedJobs'
      BY <1>1, <1>t, Zenon DEF LockedJobs, NoConcurrentEgress
    <3>2. jobs'[j] = [jobs[j] EXCEPT !.lost = @ + 1]
      BY <2>2, Zenon DEF ProcessGone
    <3>3. RowConsistent(jobs[j], 1)
      BY <2>1, GuardRow, Zenon
    <3>4. RowConsistent([jobs[j] EXCEPT !.lost = @ + 1], 0)
      BY <2>1, <3>3, RowAssumption DEF RowConsistent, JobRow, RowAssumption
    <3> QED
      BY <3>1, <3>2, <3>4, Zenon DEF OpenOn
  <2>3. CASE ~ \E w \in Guards : ServerOf[w] = s /\ worker[w].job = j
    <3>1. j \in LockedJobs' <=> j \in LockedJobs
      BY <1>1, <2>3, Zenon DEF LockedJobs
    <3>2. jobs'[j] = jobs[j]
      BY <2>3, Zenon DEF ProcessGone
    <3> QED
      BY <2>1, <3>1, <3>2, Zenon DEF OpenOn
  <2> QED
    BY <2>2, <2>3, Zenon
<1>5. EgressAuthorized' /\ NoConcurrentEgress'
  BY <1>3, EgressKept, Zenon
<1> QED
  BY <1>4, <1>5, Zenon DEF Secure, TableConsistent

(* The steps of a process's life keep the rows consistent and egress       *)
(* secure.                                                                 *)
LEMMA ProcessSecureStep ==
  ASSUME IInv, NEW s \in Servers, ProcessStep(s)
  PROVE  Secure'
<1> USE DEF authority
<1>t. TypeOK /\ TableConsistent(jobs, LockedJobs) /\ NoStrayWorker
  BY Zenon DEF IInv
<1>k. jobs \in Table /\ now \in Nat /\ retention \in RetentionRow
  BY <1>t, Zenon DEF TypeOK, Table
<1>w. worker' = worker => Guards' = Guards /\ \A v \in Guards : worker'[v] = worker[v]
  BY DEF Guards
<1>1. CASE Crash(s)
  BY <1>1, ProcessGoneSecure, Zenon DEF Crash
<1>2. CASE BeginStop(s)
  BY <1>w, <1>2, IdleStep, Zenon DEF BeginStop
<1>3. CASE CancelWork(s)
  BY <1>w, <1>3, IdleStep, Zenon DEF CancelWork
<1>4. CASE ProcessExit(s)
  BY <1>4, ProcessGoneSecure, Zenon DEF ProcessExit
<1>5. CASE StartErasure(s)
  <2>1. ASSUME NEW j \in JobIds
        PROVE  \/ jobs'[j] = jobs[j]
               \/ /\ jobs[j].state \in Erasure
                  /\ \E a : jobs'[j] = [jobs[j] EXCEPT !.state = "erasurePending",
                                                       !.available = a]
    <3> DEFINE r == ErasureLapsed(jobs)[j]
    <3>1. jobs[j] \in JobRow
      BY <1>k, Zenon DEF Table
    <3>2. \/ r = jobs[j]
          \/ jobs[j].state = "erasureClaimed"
             /\ r = [jobs[j] EXCEPT !.state = "erasurePending", !.available = now]
      BY Zenon DEF ErasureLapsed
    <3>3. jobs'[j] = IF r.state = "erasurePending"
                     THEN [r EXCEPT !.available = Lesser(@, now)] ELSE r
      BY <1>5, Zenon DEF StartErasure
    <3> HIDE DEF r
    <3>4. CASE r = jobs[j]
      <4>1. CASE r.state = "erasurePending"
        <5> DEFINE a == Lesser(r.available, now)
        <5>1. jobs'[j] = [r EXCEPT !.available = a]
          BY <3>3, <4>1, Zenon
        <5> HIDE DEF a
        <5>2. [r EXCEPT !.available = a] =
                [jobs[j] EXCEPT !.state = "erasurePending", !.available = a]
          BY <3>1, <3>4, <4>1, Zenon DEF JobRow
        <5> QED
          BY <3>4, <4>1, <5>1, <5>2, Zenon DEF Erasure
      <4> QED
        BY <3>3, <3>4, <4>1, Zenon
    <3>5. CASE /\ jobs[j].state = "erasureClaimed"
               /\ r = [jobs[j] EXCEPT !.state = "erasurePending", !.available = now]
      <4> DEFINE a == Lesser(r.available, now)
      <4>1. jobs'[j] = [r EXCEPT !.available = a]
        BY <3>1, <3>3, <3>5, Zenon DEF JobRow
      <4> HIDE DEF a
      <4>2. [r EXCEPT !.available = a] =
              [jobs[j] EXCEPT !.state = "erasurePending", !.available = a]
        BY <3>1, <3>5, Zenon DEF JobRow
      <4> QED
        BY <3>5, <4>1, <4>2, Zenon DEF Erasure
    <3> QED
      BY <3>2, <3>4, <3>5, Zenon
  <2>2. TableConsistent(jobs', LockedJobs)
    <3> SUFFICES ASSUME NEW j \in JobIds
                 PROVE  RowConsistent(jobs'[j], OpenOn(LockedJobs, j))
      BY Zenon DEF TableConsistent
    <3>1. jobs[j] \in JobRow /\ RowConsistent(jobs[j], OpenOn(LockedJobs, j))
      BY <1>k, <1>t, Zenon DEF Table, TableConsistent
    <3>2. ASSUME jobs[j].state \in Erasure, NEW a,
                 jobs'[j] = [jobs[j] EXCEPT !.state = "erasurePending", !.available = a]
          PROVE  RowConsistent(jobs'[j], OpenOn(LockedJobs, j))
      BY <3>1, <3>2, Zenon DEF RowConsistent, JobRow, Live, Erasure
    <3> QED
      BY <2>1, <3>1, <3>2, Zenon
  <2>3. \A v \in Guards : Undisturbed(v)
    <3> TAKE v \in Guards
    <3>1. worker[v].job \in JobIds /\ jobs[worker[v].job].state \notin Erasure
      BY GuardFacts, Zenon DEF Erasure
    <3>2. jobs'[worker[v].job] = jobs[worker[v].job]
      BY <2>1, <3>1, Zenon
    <3> QED
      BY <1>k, <1>5, <3>2, OverdueType, GuardFacts, Zenon DEF StartErasure, Undisturbed
  <2> QED
    BY <1>w, <1>5, <2>2, <2>3, QuietStep, Zenon DEF StartErasure
<1>6. CASE StartDelivery(s)
  <2>1. \A w \in Guards : ServerOf[w] # s
    BY <1>t, <1>6, Zenon DEF StartDelivery, NoStrayWorker, Guards
  <2>2. Guards' = Guards /\ \A w \in Guards : worker'[w] = worker[w]
    BY <1>t, <1>6, <2>1, Zenon DEF StartDelivery, Guards, Idle
  <2>3. /\ TableConsistent(jobs', LockedJobs)
        /\ \A w \in Guards : jobs'[worker[w].job] = jobs[worker[w].job]
        /\ Guards # {} => retention' = retention
    BY <1>6, RecoverSecure, Zenon DEF StartDelivery
  <2>4. \A w \in Guards : Undisturbed(w)
    BY <1>6, <2>2, <2>3, GuardFacts, Zenon DEF StartDelivery, Undisturbed
  <2> QED
    BY <2>2, <2>3, <2>4, QuietStep, Zenon
<1> QED
  BY <1>1, <1>2, <1>3, <1>4, <1>5, <1>6, Zenon DEF ProcessStep

(* An enqueue recovers the queue and writes a new row, never a locked one. *)
LEMMA EnqueueSecureStep ==
  ASSUME IInv, Enqueue
  PROVE  Secure'
<1>t. TypeOK /\ TableConsistent(jobs, LockedJobs)
  BY DEF IInv
<1>p. PICK j \in JobIds, l \in Leases, e \in SourceEvents, ttl \in JobTTLs :
        EnqueueDeliveryJob(j, l, e, ttl)
  BY Zenon DEF Enqueue
<1>k. jobs \in Table /\ now \in Nat
  BY <1>t, Zenon DEF TypeOK, Table
<1> DEFINE i == InstallationOf[l]
           recovered == CompleteMarkers(RecoveredJobs, Markers(RecoveredJobs))
           row == Inserted(l, inst[i].token, lease[l].policyEpoch, lease[l].routeKeyEpoch,
                           e, Lesser(now + ttl, AuthorityExpires(l)), now)
<1>1. RecoveredJobs \in Table /\ TableConsistent(RecoveredJobs, LockedJobs)
  BY <1>k, <1>t, RecoveredType, RecoveredConsistent, Zenon DEF RecoveredJobs
<1>2. recovered \in Table /\ TableConsistent(recovered, LockedJobs)
  BY <1>1, CompleteMarkersType, CompleteMarkersConsistent, Zenon
<1>3. inst[i].token \in Tokens
  <2>1. i \in Installations /\ inst[i] \in InstallationRow
    BY <1>t, RowAssumption, Zenon DEF TypeOK, RowAssumption
  <2> QED
    BY <1>p, <2>1, Zenon DEF EnqueueDeliveryJob, RouteCurrent, InstallationRow
<1>4. RowConsistent(row, OpenOn(LockedJobs, j))
  <2> DEFINE expires == Lesser(now + ttl, AuthorityExpires(l))
             policyEpoch == lease[l].policyEpoch
             keyEpoch == lease[l].routeKeyEpoch
             token == inst[i].token
  <2>1. token \in Tokens
    BY <1>3, Zenon
  <2>2. OpenOn(LockedJobs, j) \in {0, 1}
    BY OpenOnType, Zenon
  <2> HIDE DEF expires, policyEpoch, keyEpoch, token
  <2>3. RowConsistent(Inserted(l, token, policyEpoch, keyEpoch, e, expires, now),
                      OpenOn(LockedJobs, j))
    BY <2>1, <2>2, RowAssumption DEF RowConsistent, Inserted, Unborn, Live, Erasure
  <2> QED
    BY <2>3, Zenon DEF expires, policyEpoch, keyEpoch, token
<1>5. jobs' = [recovered EXCEPT ![j] = row]
  BY <1>p, Zenon DEF EnqueueDeliveryJob, Enqueued
<1>6. TableConsistent(jobs', LockedJobs)
  <2> HIDE DEF recovered, row
  <2> QED
    BY <1>2, <1>4, <1>5, RowWritten, Zenon
<1>7. \A w \in Guards : jobs'[worker[w].job] = jobs[worker[w].job]
  <2> TAKE w \in Guards
  <2>1. /\ worker[w].job \in JobIds \ {j} /\ jobs[worker[w].job].state = "claimed"
        /\ worker[w].job \notin Recoverable
    BY <1>p, GuardFacts, Zenon DEF EnqueueDeliveryJob
  <2>2. RecoveredJobs[worker[w].job] = jobs[worker[w].job]
    BY <1>k, <2>1, UntouchedByRecovery DEF RecoveredJobs, Recoverable
  <2>3. recovered[worker[w].job] = jobs[worker[w].job]
    BY <1>1, <2>1, <2>2, UntouchedByFinalization, Zenon
  <2> HIDE DEF recovered, row
  <2> QED
    BY <1>2, <1>5, <2>1, <2>3, Zenon DEF Table
<1>8. Guards' = Guards /\ \A w \in Guards : Undisturbed(w)
  BY <1>p, <1>7, GuardFacts, Zenon DEF EnqueueDeliveryJob, Undisturbed, Guards
<1> QED
  BY <1>6, <1>8, QuietStep, Zenon

(* Every step keeps the rows consistent and egress secure.                 *)
LEMMA SecureStep ==
  ASSUME IInv, [Next]_vars
  PROVE  Secure'
<1>w. worker' = worker => Guards' = Guards /\ \A v \in Guards : worker'[v] = worker[v]
  BY Zenon DEF Guards
<1>1. CASE UNCHANGED vars
  BY <1>w, <1>1, IdleStep, Zenon DEF vars
<1>2. CASE Tick
  BY <1>w, <1>2, IdleStep, Zenon DEF Tick, authority
<1>3. ASSUME NEW done \in SUBSET JobIds, EnqueueRefused(done)
      PROVE  Secure'
  <2>1. /\ TableConsistent(jobs', LockedJobs)
        /\ \A w \in Guards : jobs'[worker[w].job] = jobs[worker[w].job]
        /\ Guards # {} => retention' = retention
    BY <1>3, RecoverSecure, Zenon DEF EnqueueRefused
  <2>2. \A w \in Guards : Undisturbed(w)
    BY <1>3, <2>1, GuardFacts, Zenon DEF EnqueueRefused, Undisturbed, authority
  <2> QED
    BY <1>w, <1>3, <2>1, <2>2, QuietStep, Zenon DEF EnqueueRefused
<1> QED
  BY Zenon, <1>1, <1>2, <1>3, EnqueueSecureStep, WorkerSecureStep, EraserSecureStep,
     SweeperSecureStep, ProcessSecureStep, RegistrySecureStep DEF Next

=============================================================================
