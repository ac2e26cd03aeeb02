----------------------- MODULE DeliverySettledProofs ------------------------
(***************************************************************************)
(* The remaining conjuncts of the invariant: the claims carried, no stray  *)
(* worker, and one sweep at a time that shows retention unsafe.            *)
(***************************************************************************)
EXTENDS DeliveryTypeProofs

(* The remaining conjuncts of the invariant.                               *)

WorkerCarries(r) ==
  /\ r.pc \notin {"loop", "claiming", "exited"} => r.job \in JobIds
  /\ r.pc \in {"claimed", "limited", "acquiring", "pushing", "answered"} =>
       r.attempts \in 1..MaxDeliveryAttempts
  /\ r.pc = "finalizing" => r.reason \in FinalReasons

EraserCarries(r) ==
  r.pc # "idle" =>
    r.job \in JobIds /\ r.installation \in Installations /\ r.token \in Tokens

(* The claims carried, worker by worker and eraser by eraser.              *)
LEMMA CarriedSplit ==
  ClaimsCarried <=> /\ \A w \in Workers : WorkerCarries(worker[w])
                    /\ \A s \in Servers : EraserCarries(eraser[s])
  BY Zenon DEF ClaimsCarried, WorkerCarries, EraserCarries

(* A process that fails was up and keeps its workers.                      *)
LEMMA FailedFrame ==
  ASSUME server \in [Servers -> ServerStates], NEW s \in Servers, Failed(s), NEW r \in Servers
  PROVE  server'[r] \in {"down", "starting"} => server[r] \in {"down", "starting"}
  BY Zenon DEF Failed

(* What a worker's step does outside of the rows: it moves that worker,    *)
(* which had not exited, to a state that carries what it needs, and leaves *)
(* every other worker, the erasers and the sweeps.                         *)
Moved(w) ==
  /\ worker[w].pc # "exited" /\ WorkerCarries(worker'[w])
  /\ \A v \in Workers \ {w} : worker'[v] = worker[v]
  /\ UNCHANGED <<eraser, sweep>> /\ (retention'.safe => retention.safe)
  /\ server' = server \/ Failed(ServerOf[w])

(* Every step of runReliableWorker moves only its own worker, in that way. *)
LEMMA WorkerFrame ==
  ASSUME IInv, NEW w \in Workers, WorkerStep(w)
  PROVE  Moved(w)
<1> USE DEF authority
<1>t. TypeOK /\ ClaimsCarried
  BY Zenon DEF IInv
<1>k. worker \in [Workers -> WorkerState] /\ worker[w] \in WorkerState
      /\ retention \in RetentionRow
  BY <1>t, Zenon DEF TypeOK
<1>c. WorkerCarries(worker[w])
  BY <1>t, CarriedSplit, Zenon
<1>l. Loop(w) => WorkerCarries(worker'[w]) /\ \A v \in Workers \ {w} : worker'[v] = worker[v]
  BY <1>k DEF Loop, WorkerCarries, Idle
<1>g. ASSUME NEW pc, Goto(w, pc)
      PROVE  /\ worker'[w].pc = pc /\ worker'[w].job = worker[w].job
             /\ worker'[w].attempts = worker[w].attempts
             /\ \A v \in Workers \ {w} : worker'[v] = worker[v]
  BY <1>k, <1>g, Zenon DEF Goto, WorkerState
<1>1. CASE WorkerExit(w)
  BY <1>k, <1>1, Zenon DEF WorkerExit, Moved, WorkerCarries, Exited, Idle
<1>2. ASSUME NEW j \in JobIds,
             NextInvalidTokenClaim(w, j)
      PROVE  Moved(w)
  BY <1>k, <1>2, Zenon DEF NextInvalidTokenClaim, Moved, WorkerCarries, WorkerState
<1>3. ASSUME NEW done \in SUBSET JobIds,
             ClaimRecover(w, done)
      PROVE  Moved(w)
  <2>1. retention'.safe => retention.safe
    BY <1>k, <1>3, OverdueType, Zenon DEF ClaimRecover, RecoverDeliveryJobs
  <2>2. Goto(w, "claiming") \/ worker' = worker
    BY <1>3, Zenon DEF ClaimRecover
  <2>3. WorkerCarries(worker'[w]) /\ \A v \in Workers \ {w} : worker'[v] = worker[v]
    BY <1>c, <1>g, <2>2 DEF WorkerCarries
  <2> QED
    BY <1>3, <2>1, <2>3, Zenon DEF ClaimRecover, Moved
<1>4. ASSUME NEW j \in JobIds, NEW done \in SUBSET JobIds,
             ClaimDeliveryJob(w, j, done)
      PROVE  Moved(w)
  <2>1. jobs[j].attempts + 1 \in 1..MaxDeliveryAttempts
    <3>1. jobs[j].attempts \in 0..MaxDeliveryAttempts
      BY <1>t, Zenon DEF TypeOK, JobRow
    <3> QED
      BY <1>4, <3>1, RowAssumption
        DEF ClaimDeliveryJob, ClaimCandidates, Claimable, RowAssumption
  <2>2. CASE worker' = [worker EXCEPT ![w] =
               [Idle EXCEPT !.pc = "claimed", !.job = j,
                            !.attempts = jobs[j].attempts + 1,
                            !.expires = jobs[j].expires,
                            !.day = Day(jobs[j].created)]]
    BY <1>k, <1>4, <2>1, <2>2, Zenon DEF ClaimDeliveryJob, Moved, WorkerCarries, Idle
  <2>3. CASE Loop(w)
    BY <1>l, <1>4, <2>3, Zenon DEF ClaimDeliveryJob, Moved
  <2> QED
    BY <1>4, <2>2, <2>3, Zenon DEF ClaimDeliveryJob
<1>5. CASE ClaimNothing(w)
  BY <1>l, <1>5, Zenon DEF ClaimNothing, Moved
<1>6. CASE CheckStop(w)
  BY <1>c, <1>g, <1>6 DEF CheckStop, Moved, WorkerCarries
<1>7. CASE LimiterCancelled(w)
  BY <1>c, <1>g, <1>7 DEF LimiterCancelled, Moved, WorkerCarries
<1>8. CASE ProcessClaimedJob(w)
  <2>1. CASE \E pc \in {"converting", "acquiring"} : Goto(w, pc)
    BY <1>c, <1>g, <1>8, <2>1, Zenon DEF ProcessClaimedJob, Moved, WorkerCarries
  <2>2. CASE worker' = [worker EXCEPT ![w].pc = "finalizing", ![w].reason = "ttlExpired"]
    BY <1>k, <1>c, <1>8, <2>2, Zenon
      DEF ProcessClaimedJob, Moved, WorkerCarries, WorkerState, FinalReasons
  <2> QED
    BY <1>8, <2>1, <2>2, Zenon DEF ProcessClaimedJob
<1>9. CASE AcquireDeliveryAttempt(w)
  BY <1>c, <1>g, <1>9 DEF AcquireDeliveryAttempt, Moved, WorkerCarries
<1>10. CASE AcquireError(w)
  BY <1>c, <1>g, <1>10 DEF AcquireError, Moved, WorkerCarries
<1>11. CASE AcquireInvalid(w)
  BY <1>k, <1>c, <1>11, Zenon
    DEF AcquireInvalid, Moved, WorkerCarries, WorkerState, FinalReasons, Replies
<1>12. ASSUME NEW reply \in Replies,
             PushNotification(w, reply)
      PROVE  Moved(w)
  BY <1>k, <1>c, <1>12, Zenon
    DEF PushNotification, Moved, WorkerCarries, WorkerState, FinalReasons, Replies
<1>13. CASE CompleteSent(w)
  BY <1>l, <1>13, Zenon DEF CompleteSent, Moved
<1>14. ASSUME NEW done \in SUBSET JobIds,
             CompleteRejected(w, done)
      PROVE  Moved(w)
  BY <1>l, <1>14, Zenon DEF CompleteRejected, CompleteFinal, Moved
<1>15. ASSUME NEW delay \in RetryDelays, NEW done \in SUBSET JobIds,
             CompleteTransientFinal(w, delay, done)
      PROVE  Moved(w)
  BY <1>l, <1>15, Zenon DEF CompleteTransientFinal, CompleteFinal, Moved
<1>16. ASSUME NEW delay \in RetryDelays,
             CompleteRetry(w, delay)
      PROVE  Moved(w)
  BY <1>l, <1>16, Zenon DEF CompleteRetry, Moved
<1>17. ASSUME NEW done \in SUBSET JobIds,
             CompleteInvalidToken(w, done)
      PROVE  Moved(w)
  BY <1>l, <1>17, Zenon DEF CompleteInvalidToken, Moved
<1>18. CASE RecordAttempt(w)
  BY <1>l, <1>18, Zenon DEF RecordAttempt, Moved
<1>19. CASE CompleteError(w)
  BY <1>l, <1>19, Zenon DEF CompleteError, Moved
<1>20. ASSUME NEW done \in SUBSET JobIds,
             ConvertInvalidToken(w, done)
      PROVE  Moved(w)
  BY <1>l, <1>20, Zenon DEF ConvertInvalidToken, Moved
<1>21. CASE ConvertNothing(w)
  BY <1>l, <1>21, Zenon DEF ConvertNothing, Moved
<1>22. CASE ConvertError(w)
  BY <1>l, <1>22, Zenon DEF ConvertError, Moved
<1>23. ASSUME NEW done \in SUBSET JobIds,
             ReleaseClaim(w, done)
      PROVE  Moved(w)
  BY <1>l, <1>23, Zenon DEF ReleaseClaim, Moved
<1>24. CASE ReleaseError(w)
  BY <1>l, <1>24, Zenon DEF ReleaseError, Moved
<1>25. ASSUME NEW done \in SUBSET JobIds,
             FinalizeClaim(w, done)
      PROVE  Moved(w)
  BY <1>l, <1>25, Zenon DEF FinalizeClaim, Moved
<1>26. CASE FinalizeError(w)
  BY <1>l, <1>26, Zenon DEF FinalizeError, Moved
<1> QED
  BY Zenon, <1>1, <1>2, <1>3, <1>4, <1>5, <1>6, <1>7, <1>8, <1>9, <1>10,
     <1>11, <1>12, <1>13, <1>14, <1>15, <1>16, <1>17, <1>18, <1>19, <1>20,
     <1>21, <1>22, <1>23, <1>24, <1>25, <1>26 DEF WorkerStep

Settled == ClaimsCarried /\ NoStrayWorker /\ OneSweep /\ SweepShowsUnsafe

(* A step of no worker, eraser, sweeper or process.                        *)
LEMMA SettledQuiet ==
  ASSUME IInv, UNCHANGED <<worker, eraser, server, sweep>>, retention'.safe => retention.safe
  PROVE  Settled'
  BY Zenon DEF IInv, Settled, ClaimsCarried, NoStrayWorker, OneSweep, SweepShowsUnsafe

(* A worker's step.                                                        *)
LEMMA SettledWorker ==
  ASSUME IInv, NEW w \in Workers, WorkerStep(w)
  PROVE  Settled'
<1>m. Moved(w)
  BY WorkerFrame, Zenon
<1>i. TypeOK /\ ClaimsCarried /\ NoStrayWorker /\ OneSweep /\ SweepShowsUnsafe
  BY Zenon DEF IInv
<1>1. ClaimsCarried'
  <2>1. \A v \in Workers : WorkerCarries(worker'[v])
    BY <1>m, <1>i, CarriedSplit, Zenon DEF Moved
  <2>2. \A s \in Servers : EraserCarries(eraser'[s])
    BY <1>m, <1>i, CarriedSplit, Zenon DEF Moved
  <2> QED
    BY <2>1, <2>2, Zenon DEF ClaimsCarried, WorkerCarries, EraserCarries
<1>2. NoStrayWorker'
  <2> SUFFICES ASSUME NEW v \in Workers, server'[ServerOf[v]] \in {"down", "starting"}
               PROVE  worker'[v].pc = "exited"
    BY Zenon DEF NoStrayWorker
  <2>1. ServerOf[v] \in Servers /\ ServerOf[w] \in Servers
    BY SystemAssumption, Zenon DEF SystemAssumption
  <2>2. server[ServerOf[v]] \in {"down", "starting"}
    BY <1>m, <1>i, <2>1, FailedFrame, Zenon DEF Moved, TypeOK
  <2>3. worker[v].pc = "exited"
    BY <1>i, <2>2, Zenon DEF NoStrayWorker
  <2> QED
    BY <1>m, <2>3, Zenon DEF Moved
<1>3. OneSweep' /\ SweepShowsUnsafe'
  BY <1>m, <1>i, Zenon DEF Moved, OneSweep, SweepShowsUnsafe
<1> QED
  BY <1>1, <1>2, <1>3, Zenon DEF Settled

(* An erasure worker's step: the marker it claims names an installation    *)
(* and a token.                                                            *)
LEMMA SettledEraser ==
  ASSUME IInv, NEW s \in Servers, EraserStep(s)
  PROVE  Settled'
<1> USE DEF authority
<1>i. TypeOK /\ TableConsistent(jobs, LockedJobs) /\ ClaimsCarried /\ NoStrayWorker
      /\ OneSweep /\ SweepShowsUnsafe
  BY Zenon DEF IInv
<1>k. eraser \in [Servers -> EraserState] /\ eraser[s] \in EraserState
      /\ retention \in RetentionRow
  BY <1>i, Zenon DEF TypeOK
<1>c. EraserCarries(eraser[s])
  BY <1>i, CarriedSplit, Zenon
<1> DEFINE QuietEraser ==
             /\ UNCHANGED <<worker, server, sweep>> /\ (retention'.safe => retention.safe)
             /\ \A r \in Servers \ {s} : eraser'[r] = eraser[r]
             /\ EraserCarries(eraser'[s])
<1>1. QuietEraser
  <2>1. ASSUME NEW j \in JobIds, ClaimErasureJob(s, j)
        PROVE  QuietEraser
    <3>1. jobs[j].state \in Erasure
      BY <2>1, Zenon DEF ClaimErasureJob, ErasureCandidates, ErasureLapsed, Erasure
    <3>2. jobs[j].installation \in Installations /\ jobs[j].token \in Tokens
      BY <1>i, <3>1, Zenon DEF TableConsistent, RowConsistent
    <3> QED
      BY <1>k, <2>1, <3>2, OverdueType, Zenon DEF ClaimErasureJob, EraserCarries
  <2>2. CASE ClaimNoErasure(s)
    BY <1>c, <1>k, <2>2, OverdueType, Zenon DEF ClaimNoErasure
  <2>3. ASSUME NEW done \in SUBSET JobIds, EraseInvalidAPNSToken(s, done)
        PROVE  QuietEraser
    BY <1>c, <1>k, <2>3, Zenon DEF EraseInvalidAPNSToken, EraserCarries, EraserState
  <2>4. CASE EraseNothing(s) \/ EraseError(s)
    BY <1>c, <1>k, <2>4 DEF EraseNothing, EraseError, EraserCarries, EraserState
  <2>5. CASE DeleteErasureJob(s) \/ RescheduleError(s)
    BY <1>k, <2>5 DEF DeleteErasureJob, RescheduleError, EraserCarries, IdleEraser
  <2>6. ASSUME NEW delay \in RetryDelays, RescheduleInvalidTokenErasure(s, delay)
        PROVE  QuietEraser
    <3>1. retention'.safe => retention.safe
      BY <1>k, <2>6, OverdueType, Zenon DEF RescheduleInvalidTokenErasure
    <3> QED
      BY <1>k, <2>6, <3>1, Zenon DEF RescheduleInvalidTokenErasure, EraserCarries, IdleEraser
  <2> QED
    BY <2>1, <2>2, <2>3, <2>4, <2>5, <2>6, Zenon DEF EraserStep
<1>2. ClaimsCarried'
  <2>1. \A v \in Workers : WorkerCarries(worker'[v])
    BY <1>i, <1>1, CarriedSplit, Zenon
  <2>2. \A r \in Servers : EraserCarries(eraser'[r])
    BY <1>i, <1>1, CarriedSplit, Zenon
  <2> QED
    BY <2>1, <2>2, Zenon DEF ClaimsCarried, WorkerCarries, EraserCarries
<1> QED
  BY <1>i, <1>1, <1>2, Zenon DEF Settled, NoStrayWorker, OneSweep, SweepShowsUnsafe

(* A sweeper's step: the advisory lock admits one sweep, which shows       *)
(* unsafe until it ends.                                                   *)
LEMMA SettledSweeper ==
  ASSUME IInv, NEW s \in Servers, SweeperStep(s)
  PROVE  Settled'
<1> USE DEF authority
<1>i. TypeOK /\ ClaimsCarried /\ NoStrayWorker /\ OneSweep /\ SweepShowsUnsafe
  BY DEF IInv
<1>k. sweep \in [Servers -> SweepState] /\ retention \in RetentionRow
  BY <1>i, Zenon DEF TypeOK
<1>1. UNCHANGED <<worker, eraser, server>>
  BY Zenon DEF SweeperStep, BeginSweep, FinishSweep, SweepError
<1>2. OneSweep' /\ SweepShowsUnsafe'
  <2>1. CASE BeginSweep(s)
    BY <1>k, <2>1, Zenon DEF BeginSweep, OneSweep, SweepShowsUnsafe, RetentionRow
  <2>2. CASE FinishSweep(s)
    BY <1>i, <1>k, <2>2, Zenon DEF FinishSweep, OneSweep, SweepShowsUnsafe, IdleSweep
  <2>3. CASE SweepError(s)
    BY <1>i, <1>k, <2>3, Zenon DEF SweepError, OneSweep, SweepShowsUnsafe, IdleSweep
  <2> QED
    BY <2>1, <2>2, <2>3, Zenon DEF SweeperStep
<1> QED
  BY <1>i, <1>1, <1>2, Zenon DEF Settled, ClaimsCarried, NoStrayWorker

(* A step of a process's life.                                             *)
LEMMA SettledProcess ==
  ASSUME IInv, NEW s \in Servers, ProcessStep(s)
  PROVE  Settled'
<1> USE DEF authority
<1>i. TypeOK /\ ClaimsCarried /\ NoStrayWorker /\ OneSweep /\ SweepShowsUnsafe
  BY DEF IInv
<1>k. /\ server \in [Servers -> ServerStates] /\ worker \in [Workers -> WorkerState]
      /\ sweep \in [Servers -> SweepState] /\ eraser \in [Servers -> EraserState]
      /\ retention \in RetentionRow
  BY <1>i, Zenon DEF TypeOK
<1>c. /\ \A v \in Workers : WorkerCarries(worker[v])
      /\ \A r \in Servers : EraserCarries(eraser[r])
  BY <1>i, CarriedSplit, Zenon
<1>a. ServerOf \in [Workers -> Servers]
  BY SystemAssumption, Zenon DEF SystemAssumption
<1>f. ASSUME \A v \in Workers : WorkerCarries(worker'[v]),
             \A r \in Servers : EraserCarries(eraser'[r])
      PROVE  ClaimsCarried'
  BY <1>f, Zenon DEF ClaimsCarried, WorkerCarries, EraserCarries
<1>1. ASSUME ProcessGone(s), retention' = retention
      PROVE  Settled'
  <2>1. ClaimsCarried'
    <3>1. \A v \in Workers : WorkerCarries(worker'[v])
      BY <1>1, <1>c, Zenon DEF ProcessGone, WorkerCarries, Exited, Idle
    <3>2. \A r \in Servers : EraserCarries(eraser'[r])
      BY <1>1, <1>c, <1>k, Zenon DEF ProcessGone, EraserCarries, IdleEraser
    <3> QED
      BY <3>1, <3>2, <1>f, Zenon
  <2>2. NoStrayWorker'
    BY <1>1, <1>i, <1>k, <1>a, Zenon DEF ProcessGone, NoStrayWorker, Exited, Idle
  <2>3. OneSweep' /\ SweepShowsUnsafe'
    BY <1>1, <1>i, <1>k, Zenon DEF ProcessGone, OneSweep, SweepShowsUnsafe, IdleSweep
  <2> QED
    BY <2>1, <2>2, <2>3 DEF Settled
<1>2. CASE Crash(s) \/ ProcessExit(s)
  BY <1>1, <1>2, Zenon DEF Crash, ProcessExit
<1>3. CASE BeginStop(s) \/ CancelWork(s)
  <2>1. \A r \in Servers : server'[r] \in {"down", "starting"} =>
                             server[r] \in {"down", "starting"}
    BY <1>3, <1>k, Zenon DEF BeginStop, CancelWork, Failed
  <2>2. NoStrayWorker'
    BY <1>3, <1>i, <1>a, <2>1, Zenon DEF BeginStop, CancelWork, NoStrayWorker
  <2> QED
    BY <1>3, <1>i, <2>2, Zenon
      DEF BeginStop, CancelWork, Settled, ClaimsCarried, OneSweep, SweepShowsUnsafe
<1>4. CASE StartErasure(s)
  <2>1. retention'.safe => retention.safe
    BY <1>4, <1>k, OverdueType, Zenon DEF StartErasure
  <2>2. NoStrayWorker'
    BY <1>4, <1>i, <1>k, <1>a, Zenon DEF StartErasure, NoStrayWorker
  <2> QED
    BY <1>4, <1>i, <2>1, <2>2, Zenon
      DEF StartErasure, Settled, ClaimsCarried, OneSweep, SweepShowsUnsafe
<1>5. CASE StartDelivery(s)
  <2>1. retention'.safe => retention.safe
    BY <1>5, <1>k, OverdueType, Zenon DEF StartDelivery, RecoverDeliveryJobs
  <2>2. NoStrayWorker'
    BY <1>5, <1>i, <1>k, <1>a, Zenon DEF StartDelivery, NoStrayWorker
  <2>3. ClaimsCarried'
    <3>1. \A v \in Workers : WorkerCarries(worker'[v])
      BY <1>5, <1>c, Zenon DEF StartDelivery, WorkerCarries, Idle
    <3> QED
      BY <1>5, <1>c, <1>f, <3>1, Zenon DEF StartDelivery
  <2> QED
    BY <1>5, <1>i, <2>1, <2>2, <2>3, Zenon DEF StartDelivery, Settled, OneSweep, SweepShowsUnsafe
<1> QED
  BY <1>2, <1>3, <1>4, <1>5, Zenon DEF ProcessStep

(* Every step.                                                             *)
LEMMA SettledStep ==
  ASSUME IInv, [Next]_vars
  PROVE  Settled'
<1> USE DEF authority
<1>k. retention \in RetentionRow
  BY Zenon DEF IInv, TypeOK
<1>1. CASE UNCHANGED vars
  BY <1>1, SettledQuiet, Zenon DEF vars
<1>2. CASE Tick
  BY <1>2, SettledQuiet, Zenon DEF Tick
<1>3. CASE Enqueue
  BY <1>3, SettledQuiet, Zenon DEF Enqueue, EnqueueDeliveryJob
<1>4. ASSUME NEW done \in SUBSET JobIds, EnqueueRefused(done)
      PROVE  Settled'
  BY <1>k, <1>4, OverdueType, SettledQuiet, Zenon DEF EnqueueRefused, RecoverDeliveryJobs
<1>5. CASE RegistryStep
  <2> PICK i \in Installations, e \in 1..MaxEpoch, done \in SUBSET JobIds :
        \/ \E t \in Tokens, kept \in SUBSET LeasesOf(i) :
             \E keys \in [kept -> 1..MaxEpoch] : Refresh(i, t, e, keys, done)
        \/ AdvancePolicyActive(i, e, done)
        \/ AdvancePolicyRevoked(i, e, done)
    BY <1>5, Zenon DEF RegistryStep
  <2>1. \A t, keys : Refresh(i, t, e, keys, done) =>
          UNCHANGED <<worker, eraser, server, sweep, retention>>
    BY Zenon DEF Refresh
  <2>2. AdvancePolicyActive(i, e, done) \/ AdvancePolicyRevoked(i, e, done) =>
          UNCHANGED <<worker, eraser, server, sweep, retention>>
    BY Zenon DEF AdvancePolicyActive, AdvancePolicyRevoked
  <2>3. UNCHANGED <<worker, eraser, server, sweep, retention>>
    BY <2>1, <2>2, Zenon
  <2> QED
    BY <2>3, SettledQuiet, Zenon
<1> QED
  BY Zenon, <1>1, <1>2, <1>3, <1>4, <1>5, SettledWorker, SettledEraser, SettledSweeper,
     SettledProcess DEF Next

=============================================================================
