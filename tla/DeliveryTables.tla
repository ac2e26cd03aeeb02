--------------------------- MODULE DeliveryTables ---------------------------
(***************************************************************************)
(* The rows of the delivery vault and the SQL statements that rewrite      *)
(* them, as pure operators.                                                *)
(*                                                                         *)
(* A job row is one row of hytch_push_vault.delivery_jobs.  A job that has *)
(* not been inserted yet is "unborn" and one whose row is gone is          *)
(* "deleted"; job identifiers are random and never reused, so each         *)
(* identifier passes through its life once.  The serialized APNS request   *)
(* is reduced to the columns and fields that decide what happens to it:    *)
(* the device token, the two epochs it was prepared under, the source      *)
(* event, and the UTC day of its alias (the day it was created).           *)
(*                                                                         *)
(* The fields pushes, lost, observed and fate are history: no column holds *)
(* them and no guard reads them.                                           *)
(***************************************************************************)
EXTENDS Integers, FiniteSets

CONSTANTS
  JobIds,               \* identifiers of the jobs a behaviour may enqueue
  Leases,               \* subscription leases (one route each)
  Installations,        \* installations
  InstallationOf,       \* the installation each lease belongs to
  Tokens,               \* APNS device tokens
  SourceEvents,         \* XMTP envelopes that may each be enqueued again
  None,                 \* SQL NULL
  MaxDeliveryAttempts,  \* 3 in the code
  JobLifetime,          \* 15 minutes: job, dedupe and erasure deadline
  ClaimTTL,             \* lease of a claim: request TTL + 15 s
  DayLength             \* ticks in a UTC day

ASSUME RowAssumption ==
  /\ InstallationOf \in [Leases -> Installations]
  /\ None \notin Leases \cup Installations \cup Tokens \cup SourceEvents
  /\ MaxDeliveryAttempts \in Nat \ {0}
  /\ JobLifetime \in Nat \ {0}
  /\ ClaimTTL \in Nat \ {0}
  /\ DayLength \in Nat \ {0}

Live == {"pending", "claimed"}
Erasure == {"erasurePending", "erasureClaimed"}
Stored == Live \cup Erasure \cup {"final"}
JobStates == Stored \cup {"unborn", "deleted"}

FinalReasons ==
  {"terminalRejected", "retryExhausted", "ttlExpired", "safetyInvalidated",
   "materialInvalid"}

(* How a row left the table: by a committed success, by its terminal       *)
(* observation, by a finished token erasure, replaced by a newer marker of *)
(* the same installation, or by a foreign key's ON DELETE CASCADE.         *)
Fates == {"none", "sent", "observed", "erased", "superseded", "cascaded"}

JobRow ==
  [state: JobStates, lease: Leases \cup {None},
   installation: Installations \cup {None}, token: Tokens \cup {None},
   event: SourceEvents \cup {None}, policyEpoch: Nat, routeKeyEpoch: Nat,
   attempts: 0..MaxDeliveryAttempts, available: Nat, expires: Nat,
   created: Nat, reason: FinalReasons \cup {None},
   pushes: Nat, lost: Nat, observed: Nat, fate: Fates]

Unborn ==
  [state |-> "unborn", lease |-> None, installation |-> None, token |-> None,
   event |-> None, policyEpoch |-> 0, routeKeyEpoch |-> 0, attempts |-> 0,
   available |-> 0, expires |-> 0, created |-> 0, reason |-> None,
   pushes |-> 0, lost |-> 0, observed |-> 0, fate |-> "none"]

Lesser(a, b) == IF a <= b THEN a ELSE b

Day(t) == t \div DayLength

(* Mutant: a job already claimed is left to its worker.                    *)
JobsOfLeasesPendingOnly(tbl, L) ==
  {j \in JobIds : tbl[j].state = "pending" /\ tbl[j].lease \in L}

JobsOfLeases(tbl, L) == {j \in JobIds : tbl[j].state \in Live /\ tbl[j].lease \in L}

LeasesOf(i) == {l \in Leases : InstallationOf[l] = i}

Present(tbl) == {j \in JobIds : tbl[j].state \in Stored}

(* Mutant: the scan keeps the attempt filter of the claim query.           *)
MarkersAttemptable(tbl) ==
  {j \in JobIds : tbl[j].state = "final" /\ tbl[j].attempts < MaxDeliveryAttempts}

Markers(tbl) == {j \in JobIds : tbl[j].state = "final"}

(* The INSERT at the end of enqueueDeliveryJobOnce.                        *)
Inserted(l, token, policyEpoch, keyEpoch, event, expires, t) ==
  [Unborn EXCEPT !.state = "pending", !.lease = l, !.token = token,
     !.event = event, !.policyEpoch = policyEpoch, !.routeKeyEpoch = keyEpoch,
     !.available = t, !.expires = expires, !.created = t]

(* The request is replaced and both foreign keys are cleared.              *)
PayloadRemoved(r) ==
  [r EXCEPT !.lease = None, !.installation = None, !.token = None,
     !.event = None, !.policyEpoch = 0, !.routeKeyEpoch = 0]

(* Mutant: the reason is written but the row stays sendable.               *)
FinalizedStillLive(r, reason, t) ==
  [r EXCEPT !.available = t, !.reason = reason]

(* The UPDATE of markDeliveryJobFinalTx: a payload-free marker.            *)
Finalized(r, reason, t) ==
  [PayloadRemoved(r) EXCEPT !.state = "final", !.available = t, !.reason = reason]

(* Mutant: whatever state the row is in.                                   *)
MarkFinalAnyState(tbl, S, reason, t) ==
  [j \in JobIds |-> IF j \in S THEN Finalized(tbl[j], reason, t) ELSE tbl[j]]

(* Mutant: a job already claimed keeps its request.                        *)
MarkFinalPendingOnly(tbl, S, reason, t) ==
  [j \in JobIds |-> IF j \in S /\ tbl[j].state = "pending"
                    THEN Finalized(tbl[j], reason, t) ELSE tbl[j]]

(* markDeliveryJobFinalTx on the rows S: only a pending or claimed row     *)
(* becomes a marker; a marker stays one and an erasure row is left alone.  *)
MarkFinal(tbl, S, reason, t) ==
  [j \in JobIds |-> IF j \in S /\ tbl[j].state \in Live
                    THEN Finalized(tbl[j], reason, t) ELSE tbl[j]]

(* DELETE of one row.                                                      *)
Deleted(r, fate) ==
  [Unborn EXCEPT !.state = "deleted", !.pushes = r.pushes, !.lost = r.lost,
     !.observed = r.observed, !.fate = fate]

(* Mutant: the observation is committed without the DELETE.                *)
CompleteMarkersKept(tbl, S) ==
  [j \in JobIds |-> IF j \in S /\ tbl[j].state = "final"
                    THEN [tbl[j] EXCEPT !.observed = @ + 1] ELSE tbl[j]]

(* completeDeliveryFinalizationTx: the terminal observation and the DELETE *)
(* of the marker commit together, for each marker of S.                    *)
CompleteMarkers(tbl, S) ==
  [j \in JobIds |-> IF j \in S /\ tbl[j].state = "final"
                    THEN [Deleted(tbl[j], "observed") EXCEPT !.observed = @ + 1]
                    ELSE tbl[j]]

(* ON DELETE CASCADE of the two foreign keys of delivery_jobs.             *)
Cascade(tbl, L, I) ==
  [j \in JobIds |-> IF tbl[j].lease \in L \/ tbl[j].installation \in I
                    THEN Deleted(tbl[j], "cascaded") ELSE tbl[j]]

(* What is left of a job whose token Apple rejected: the token to erase.   *)
ErasureMarker(r, i, t) ==
  [PayloadRemoved(r) EXCEPT !.state = "erasurePending", !.installation = i,
     !.token = r.token, !.attempts = 0, !.available = t]

(* The invalid-token conversion of row j of installation i, shared by      *)
(* convertInvalidTokenTx and ConvertInvalidTokenToErasure: every other     *)
(* live job of the installation becomes a marker, an older erasure row is  *)
(* deleted, and j keeps nothing but the failed token.                      *)
Converted(tbl, i, j, t) ==
  LET marked == MarkFinal(tbl, JobsOfLeases(tbl, LeasesOf(i)) \ {j},
                          "safetyInvalidated", t)
  IN  [k \in JobIds |->
        IF k = j
        THEN ErasureMarker(tbl[j], i, t)
        ELSE IF marked[k].installation = i
             THEN Deleted(marked[k], "superseded")
             ELSE marked[k]]

-----------------------------------------------------------------------------
(* RecoverDeliveryJobs.                                                    *)

(* Live rows its first SELECT locks: expired, exhausted by a lapsed claim, *)
(* or without a lease.                                                     *)
Unrecoverable(tbl, absent, t) ==
  {j \in JobIds :
    /\ tbl[j].state \in Live
    /\ \/ tbl[j].expires <= t
       \/ /\ tbl[j].state = "claimed"
          /\ tbl[j].available <= t
          /\ tbl[j].attempts >= MaxDeliveryAttempts
       \/ tbl[j].lease \in absent}

(* Claims whose lease lapsed and which may be attempted again.             *)
Lapsed(tbl, t) ==
  {j \in JobIds :
    /\ tbl[j].state = "claimed"
    /\ tbl[j].available <= t
    /\ tbl[j].attempts < MaxDeliveryAttempts
    /\ tbl[j].expires > t}

RecoveryReason(r, t) ==
  IF r.attempts >= MaxDeliveryAttempts THEN "retryExhausted"
  ELSE IF r.expires <= t THEN "ttlExpired" ELSE "safetyInvalidated"

Recovered(tbl, absent, t) ==
  [j \in JobIds |->
    IF j \in Unrecoverable(tbl, absent, t)
    THEN Finalized(tbl[j], RecoveryReason(tbl[j], t), t)
    ELSE IF j \in Lapsed(tbl, t)
         THEN [tbl[j] EXCEPT !.state = "pending", !.available = t]
         ELSE tbl[j]]

(* markOverdueErasureUnsafe's condition.                                   *)
OverdueErasure(tbl, t) ==
  \E j \in JobIds : /\ tbl[j].state \in Erasure
                    /\ tbl[j].created + JobLifetime <= t

-----------------------------------------------------------------------------
(* A row is consistent: what it references fits its state, its history     *)
(* fits its state, and its pushes are paid for by its attempts, its lost   *)
(* attempts and, while a guard is open on it, the push in progress.        *)
RowConsistent(r, open) ==
  /\ r.state \in Live =>
       r.lease \in Leases /\ r.token \in Tokens /\ r.installation = None
  /\ r.state \in Erasure =>
       r.lease = None /\ r.token \in Tokens /\ r.installation \in Installations
  /\ r.state \notin Live \cup Erasure => r.lease = None /\ r.installation = None
  /\ r.state # "deleted" => r.fate = "none"
  /\ r.observed = IF r.fate = "observed" THEN 1 ELSE 0
  /\ r.pushes <= r.lost + open + (IF r.state \in Live \cup {"final"}
                                  THEN r.attempts ELSE MaxDeliveryAttempts)

OpenOn(locked, j) == IF j \in locked THEN 1 ELSE 0

TableConsistent(tbl, locked) ==
  \A j \in JobIds : RowConsistent(tbl[j], OpenOn(locked, j))
=============================================================================
