------------------------- MODULE DeliveryJobsProofs -------------------------
(***************************************************************************)
(* Every behaviour of DeliveryJobs keeps the inductive invariant IInv, and *)
(* with it the safety properties it implies, for any number of servers,    *)
(* workers, jobs, leases and installations.                                *)
(***************************************************************************)
EXTENDS DeliverySecureProofs, DeliverySettledProofs

(* The theorems.                                                           *)

(* The initial state: an empty outbox, every process up and idle.          *)
LEMMA InitInvariant ==
  Init => IInv
<1> SUFFICES ASSUME Init PROVE IInv
  OBVIOUS
<1>1. TypeOK
  <2>1. Unborn \in JobRow
    BY ZeroAttempts, Zenon DEF Unborn, JobRow, JobStates, Fates
  <2>2. LeaseTTL \in Nat /\ ControlTTL \in Nat /\ SweepInterval \in Nat
    BY SystemAssumption DEF SystemAssumption
  <2>3. inst \in [Installations -> InstallationRow]
    BY <2>2 DEF Init, InstallationRow, InstallationStates
  <2>4. lease \in [Leases -> LeaseRow]
    BY <2>2 DEF Init, LeaseRow, LeaseStates
  <2>5. fence \in [installation: [Installations -> Nat], route: [Leases -> Nat]]
    BY DEF Init
  <2>6. retention \in RetentionRow /\ sweep \in [Servers -> SweepState]
    BY <2>2 DEF Init, RetentionRow, SweepState, IdleSweep
  <2>7. worker \in [Workers -> WorkerState] /\ eraser \in [Servers -> EraserState]
    BY IdleType DEF Init
  <2>8. dedupe \in [Leases -> [SourceEvents -> Nat]]
    BY DEF Init
  <2> QED
    BY <2>1, <2>3, <2>4, <2>5, <2>6, <2>7, <2>8 DEF Init, TypeOK, ServerStates
<1>2. Guards = {} /\ LockedJobs = {}
  BY DEF Init, Guards, LockedJobs, Idle
<1>3. TableConsistent(jobs, LockedJobs)
  BY <1>2, RowAssumption
    DEF Init, TableConsistent, RowConsistent, OpenOn, Unborn, Live, Erasure, RowAssumption
<1>4. ClaimsCarried /\ NoStrayWorker
  BY SystemAssumption
    DEF Init, ClaimsCarried, NoStrayWorker, Idle, IdleEraser, SystemAssumption
<1>5. EgressAuthorized /\ NoConcurrentEgress
  BY <1>2 DEF EgressAuthorized, NoConcurrentEgress
<1>6. OneSweep /\ SweepShowsUnsafe
  BY DEF Init, OneSweep, SweepShowsUnsafe, IdleSweep
<1> QED
  BY <1>1, <1>3, <1>4, <1>5, <1>6 DEF IInv

(* IInv is inductive: no transaction of any worker, eraser, sweeper,       *)
(* registry operation or process step breaks it, whatever the interleaving.*)
THEOREM Invariance == Spec => []IInv
<1>1. IInv /\ [Next]_vars => IInv'
  BY TypeStep, SecureStep, SettledStep DEF IInv, Secure, Settled
<1> QED
  BY <1>1, InitInvariant, PTL DEF Spec

(* The state stays well typed.                                             *)
THEOREM TypeCorrect == Spec => []TypeOK
<1>1. IInv => TypeOK
  BY DEF IInv
<1> QED
  BY <1>1, Invariance, PTL

(* The promise of AcquireDeliveryAttempt's comment: while a request is at  *)
(* Apple its claim, route, token and retention are the ones it was         *)
(* validated against, for any number of replicas, workers and jobs.        *)
THEOREM EgressStaysAuthorized == Spec => []EgressAuthorized
<1>1. IInv => EgressAuthorized
  BY DEF IInv
<1> QED
  BY <1>1, Invariance, PTL

(* No job is at Apple twice at the same time.                              *)
THEOREM EgressIsExclusive == Spec => []NoConcurrentEgress
<1>1. IInv => NoConcurrentEgress
  BY DEF IInv
<1> QED
  BY <1>1, Invariance, PTL

(* At most MaxDeliveryAttempts pushes of a job, plus its lost attempts.    *)
(* The push in progress is paid for by the attempt the claim captured.     *)
THEOREM PushesAreBounded == Spec => []PushesBounded
<1>1. IInv => PushesBounded
  <2> SUFFICES ASSUME IInv, NEW j \in JobIds
               PROVE  jobs[j].pushes <= MaxDeliveryAttempts + jobs[j].lost
    BY DEF PushesBounded
  <2>1. jobs[j] \in JobRow /\ RowConsistent(jobs[j], OpenOn(LockedJobs, j))
    BY DEF IInv, TypeOK, TableConsistent
  <2>2. /\ jobs[j].pushes \in Nat /\ jobs[j].lost \in Nat
        /\ jobs[j].attempts \in 0..MaxDeliveryAttempts /\ MaxDeliveryAttempts \in Nat
    BY <2>1, RowAssumption DEF JobRow, RowAssumption
  <2>3. CASE j \in LockedJobs
    <3> PICK w \in Guards : worker[w].job = j
      BY <2>3 DEF LockedJobs
    <3>1. jobs[j].pushes <= jobs[j].lost + MaxDeliveryAttempts
      BY GuardRow
    <3> QED
      BY <2>2, <3>1
  <2>4. CASE j \notin LockedJobs
    BY <2>1, <2>2, <2>4 DEF RowConsistent, OpenOn
  <2> QED
    BY <2>3, <2>4
<1> QED
  BY <1>1, Invariance, PTL

(* The terminal observation of a job is written once, with its DELETE.     *)
THEOREM ObservedOnce == Spec => []TerminalObservedOnce
<1>1. IInv => TerminalObservedOnce
  BY DEF IInv, TableConsistent, RowConsistent, TerminalObservedOnce
<1> QED
  BY <1>1, Invariance, PTL

(* A sweep in progress never shows retention safe.                         *)
THEOREM SweepsShowUnsafe == Spec => []SweepShowsUnsafe
<1>1. IInv => SweepShowsUnsafe
  BY DEF IInv
<1> QED
  BY <1>1, Invariance, PTL

=============================================================================
