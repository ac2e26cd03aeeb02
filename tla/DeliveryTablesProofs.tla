------------------------ MODULE DeliveryTablesProofs ------------------------
(***************************************************************************)
(* What the row operations of DeliveryTables preserve, for every table,    *)
(* every set of rows and every time.                                       *)
(***************************************************************************)
EXTENDS DeliveryTables, TLAPS

Table == [JobIds -> JobRow]

(* A new row has spent no attempt.                                         *)
LEMMA ZeroAttempts == 0 \in 0..MaxDeliveryAttempts
  BY RowAssumption DEF RowAssumption

(* Removing the payload of a row yields a row.                             *)
LEMMA PayloadRemovedType ==
  ASSUME NEW r \in JobRow
  PROVE  PayloadRemoved(r) \in JobRow
  BY Zenon DEF PayloadRemoved, JobRow

(* Rewriting a row as a payload-free marker yields a row.                  *)
LEMMA FinalizedType ==
  ASSUME NEW r \in JobRow, NEW reason \in FinalReasons, NEW t \in Nat
  PROVE  Finalized(r, reason, t) \in JobRow
  BY PayloadRemovedType DEF Finalized, JobRow, JobStates, Stored

(* Rewriting a row as an erasure marker yields a row.                      *)
LEMMA ErasureMarkerType ==
  ASSUME NEW r \in JobRow, NEW i \in Installations, NEW t \in Nat
  PROVE  ErasureMarker(r, i, t) \in JobRow
  BY PayloadRemovedType, ZeroAttempts
     DEF ErasureMarker, JobRow, JobStates, Stored, Erasure

(* Deleting a row yields a row.                                            *)
LEMMA DeletedType ==
  ASSUME NEW r \in JobRow, NEW fate \in Fates
  PROVE  Deleted(r, fate) \in JobRow
  BY ZeroAttempts DEF Deleted, Unborn, JobRow, JobStates

(* markDeliveryJobFinalTx keeps the table a table.                         *)
LEMMA MarkFinalType ==
  ASSUME NEW tbl \in Table, NEW S, NEW reason \in FinalReasons, NEW t \in Nat
  PROVE  MarkFinal(tbl, S, reason, t) \in Table
  BY FinalizedType, Zenon DEF MarkFinal, Table

(* Completing markers keeps the table a table.                             *)
LEMMA CompleteMarkersType ==
  ASSUME NEW tbl \in Table, NEW S
  PROVE  CompleteMarkers(tbl, S) \in Table
<1>1. \A r \in JobRow : [Deleted(r, "observed") EXCEPT !.observed = @ + 1] \in JobRow
  BY DeletedType DEF Fates, JobRow
<1> QED
  BY <1>1, Zenon DEF CompleteMarkers, Table

(* The foreign keys' cascade keeps the table a table.                      *)
LEMMA CascadeType ==
  ASSUME NEW tbl \in Table, NEW L, NEW I
  PROVE  Cascade(tbl, L, I) \in Table
  BY DeletedType, Zenon DEF Cascade, Table, Fates

(* The invalid-token conversion keeps the table a table.                   *)
LEMMA ConvertedType ==
  ASSUME NEW tbl \in Table, NEW i \in Installations, NEW j \in JobIds, NEW t \in Nat
  PROVE  Converted(tbl, i, j, t) \in Table
<1> DEFINE marked == MarkFinal(tbl, JobsOfLeases(tbl, LeasesOf(i)) \ {j},
                               "safetyInvalidated", t)
<1>1. marked \in Table
  BY MarkFinalType, Zenon DEF FinalReasons
<1>2. ErasureMarker(tbl[j], i, t) \in JobRow
  BY ErasureMarkerType, Zenon DEF Table
<1>3. \A k \in JobIds : Deleted(marked[k], "superseded") \in JobRow
  BY <1>1, DeletedType, Zenon DEF Table, Fates
<1> HIDE DEF marked
<1>4. [k \in JobIds |-> IF k = j THEN ErasureMarker(tbl[j], i, t)
                        ELSE IF marked[k].installation = i
                             THEN Deleted(marked[k], "superseded")
                             ELSE marked[k]] \in Table
  BY <1>1, <1>2, <1>3, Zenon DEF Table
<1> QED
  BY <1>4, Zenon DEF Converted, marked

(* Recovery keeps the table a table.                                       *)
LEMMA RecoveredType ==
  ASSUME NEW tbl \in Table, NEW absent, NEW t \in Nat
  PROVE  Recovered(tbl, absent, t) \in Table
<1>1. \A r \in JobRow : RecoveryReason(r, t) \in FinalReasons
  BY Zenon DEF RecoveryReason, FinalReasons
<1>2. \A r \in JobRow : Finalized(r, RecoveryReason(r, t), t) \in JobRow
  BY <1>1, FinalizedType, Zenon
<1>s. "pending" \in JobStates
  BY Zenon DEF JobStates, Stored, Live
<1>3. \A r \in JobRow : [r EXCEPT !.state = "pending", !.available = t] \in JobRow
  BY <1>s, Zenon DEF JobRow
<1> QED
  BY <1>2, <1>3, Zenon DEF Recovered, Table

-----------------------------------------------------------------------------
(* The same operations keep the rows consistent, whichever rows are locked. *)

(* At most one push is in progress on a row.                               *)
LEMMA OpenOnType ==
  ASSUME NEW K, NEW j
  PROVE  OpenOn(K, j) \in {0, 1}
  BY Zenon DEF OpenOn

(* A sendable row that becomes a marker stays consistent.                  *)
LEMMA FinalizedConsistent ==
  ASSUME NEW r \in JobRow, NEW o \in {0, 1}, RowConsistent(r, o),
         r.state \in Live, NEW reason, NEW t
  PROVE  RowConsistent(Finalized(r, reason, t), o)
  BY Zenon DEF RowConsistent, Finalized, PayloadRemoved, JobRow, Live, Erasure

(* A row that is not deleted yet and is deleted without an observation     *)
(* stays consistent.                                                       *)
LEMMA DeletedConsistent ==
  ASSUME NEW r \in JobRow, NEW o \in {0, 1}, RowConsistent(r, o),
         r.state # "deleted", NEW fate \in Fates \ {"observed"}
  PROVE  RowConsistent(Deleted(r, fate), o)
<1>1. r.observed = 0 /\ r.pushes <= r.lost + o + MaxDeliveryAttempts
  BY RowAssumption DEF RowConsistent, JobRow, RowAssumption
<1> QED
  BY <1>1 DEF RowConsistent, Deleted, Unborn, Live, Erasure

(* A marker whose completion deletes it carries exactly one observation.   *)
LEMMA CompletedConsistent ==
  ASSUME NEW r \in JobRow, NEW o \in {0, 1}, RowConsistent(r, o), r.state = "final"
  PROVE  RowConsistent([Deleted(r, "observed") EXCEPT !.observed = @ + 1], o)
<1>1. r.observed = 0 /\ r.pushes <= r.lost + o + MaxDeliveryAttempts
  BY RowAssumption DEF RowConsistent, JobRow, RowAssumption
<1> QED
  BY <1>1 DEF RowConsistent, Deleted, Unborn, Live, Erasure

(* A claimed row that keeps only its failed token stays consistent when    *)
(* its pushes are within the attempts it may spend.                        *)
LEMMA ErasureMarkerConsistent ==
  ASSUME NEW r \in JobRow, NEW o \in {0, 1}, RowConsistent(r, o),
         r.state = "claimed", r.pushes <= r.lost + MaxDeliveryAttempts,
         NEW i \in Installations, NEW t
  PROVE  RowConsistent(ErasureMarker(r, i, t), 0)
  BY DEF RowConsistent, ErasureMarker, PayloadRemoved, JobRow, Live, Erasure

(* markDeliveryJobFinalTx keeps every row consistent.                      *)
LEMMA MarkFinalConsistent ==
  ASSUME NEW tbl \in Table, NEW K, TableConsistent(tbl, K), NEW S, NEW reason, NEW t
  PROVE  TableConsistent(MarkFinal(tbl, S, reason, t), K)
<1> SUFFICES ASSUME NEW j \in JobIds
             PROVE  RowConsistent(MarkFinal(tbl, S, reason, t)[j], OpenOn(K, j))
  BY Zenon DEF TableConsistent
<1>1. tbl[j] \in JobRow /\ RowConsistent(tbl[j], OpenOn(K, j)) /\ OpenOn(K, j) \in {0, 1}
  BY OpenOnType, Zenon DEF Table, TableConsistent
<1> QED
  BY <1>1, FinalizedConsistent, Zenon DEF MarkFinal

(* Completing markers keeps every row consistent.                          *)
LEMMA CompleteMarkersConsistent ==
  ASSUME NEW tbl \in Table, NEW K, TableConsistent(tbl, K), NEW S
  PROVE  TableConsistent(CompleteMarkers(tbl, S), K)
<1> SUFFICES ASSUME NEW j \in JobIds
             PROVE  RowConsistent(CompleteMarkers(tbl, S)[j], OpenOn(K, j))
  BY Zenon DEF TableConsistent
<1>1. tbl[j] \in JobRow /\ RowConsistent(tbl[j], OpenOn(K, j)) /\ OpenOn(K, j) \in {0, 1}
  BY OpenOnType DEF Table, TableConsistent
<1> QED
  BY <1>1, CompletedConsistent, Zenon DEF CompleteMarkers

(* The cascade of existing leases and installations keeps every row        *)
(* consistent: a deleted row references neither.                           *)
LEMMA CascadeConsistent ==
  ASSUME NEW tbl \in Table, NEW K, TableConsistent(tbl, K),
         NEW L \in SUBSET Leases, NEW I \in SUBSET Installations
  PROVE  TableConsistent(Cascade(tbl, L, I), K)
<1> SUFFICES ASSUME NEW j \in JobIds
             PROVE  RowConsistent(Cascade(tbl, L, I)[j], OpenOn(K, j))
  BY Zenon DEF TableConsistent
<1>1. tbl[j] \in JobRow /\ RowConsistent(tbl[j], OpenOn(K, j)) /\ OpenOn(K, j) \in {0, 1}
  BY OpenOnType, Zenon DEF Table, TableConsistent
<1>2. tbl[j].lease \in L \/ tbl[j].installation \in I => tbl[j].state # "deleted"
  BY <1>1, RowAssumption, Zenon DEF RowConsistent, RowAssumption, Live, Erasure
<1> QED
  BY <1>1, <1>2, DeletedConsistent, Zenon DEF Cascade, Fates

(* Recovery keeps every row consistent.                                    *)
LEMMA RecoveredConsistent ==
  ASSUME NEW tbl \in Table, NEW K, TableConsistent(tbl, K), NEW absent, NEW t
  PROVE  TableConsistent(Recovered(tbl, absent, t), K)
<1> SUFFICES ASSUME NEW j \in JobIds
             PROVE  RowConsistent(Recovered(tbl, absent, t)[j], OpenOn(K, j))
  BY Zenon DEF TableConsistent
<1>1. tbl[j] \in JobRow /\ RowConsistent(tbl[j], OpenOn(K, j)) /\ OpenOn(K, j) \in {0, 1}
  BY OpenOnType DEF Table, TableConsistent
<1>2. CASE j \in Unrecoverable(tbl, absent, t)
  BY <1>1, <1>2, FinalizedConsistent, Zenon DEF Recovered, Unrecoverable
<1>3. CASE j \notin Unrecoverable(tbl, absent, t) /\ j \in Lapsed(tbl, t)
  <2>1. RowConsistent([tbl[j] EXCEPT !.state = "pending", !.available = t], OpenOn(K, j))
    BY <1>1, <1>3, Zenon DEF Lapsed, RowConsistent, Live, Erasure, JobRow
  <2> QED
    BY <1>3, <2>1, Zenon DEF Recovered
<1>4. CASE j \notin Unrecoverable(tbl, absent, t) /\ j \notin Lapsed(tbl, t)
  BY <1>1, <1>4, Zenon DEF Recovered
<1> QED
  BY <1>2, <1>3, <1>4, Zenon

(* The invalid-token conversion of a claimed row keeps every row           *)
(* consistent and closes the push on the converted row.                    *)
LEMMA ConvertedConsistent ==
  ASSUME NEW tbl \in Table, NEW K, TableConsistent(tbl, K),
         NEW i \in Installations, NEW j \in JobIds, NEW t \in Nat,
         tbl[j].state = "claimed", tbl[j].pushes <= tbl[j].lost + MaxDeliveryAttempts
  PROVE  TableConsistent(Converted(tbl, i, j, t), K \ {j})
<1> DEFINE marked == MarkFinal(tbl, JobsOfLeases(tbl, LeasesOf(i)) \ {j},
                               "safetyInvalidated", t)
<1>1. marked \in Table /\ TableConsistent(marked, K)
  BY MarkFinalType, MarkFinalConsistent, Zenon DEF FinalReasons
<1>2. \A k \in JobIds : Converted(tbl, i, j, t)[k] =
        IF k = j THEN ErasureMarker(tbl[j], i, t)
        ELSE IF marked[k].installation = i THEN Deleted(marked[k], "superseded")
             ELSE marked[k]
  BY Zenon DEF Converted
<1> HIDE DEF marked
<1> SUFFICES ASSUME NEW k \in JobIds
             PROVE  RowConsistent(Converted(tbl, i, j, t)[k], OpenOn(K \ {j}, k))
  BY Zenon DEF TableConsistent
<1>3. CASE k = j
  <2>1. tbl[j] \in JobRow /\ RowConsistent(tbl[j], OpenOn(K, j)) /\ OpenOn(K, j) \in {0, 1}
    BY OpenOnType, Zenon DEF Table, TableConsistent
  <2>2. OpenOn(K \ {j}, k) = 0
    BY <1>3, Zenon DEF OpenOn
  <2> QED
    BY <1>2, <1>3, <2>1, <2>2, ErasureMarkerConsistent, Zenon
<1>4. CASE k # j
  <2>1. /\ marked[k] \in JobRow /\ RowConsistent(marked[k], OpenOn(K, k))
        /\ OpenOn(K, k) \in {0, 1}
    BY <1>1, OpenOnType, Zenon DEF Table, TableConsistent
  <2>2. OpenOn(K \ {j}, k) = OpenOn(K, k)
    BY <1>4, Zenon DEF OpenOn
  <2>3. marked[k].installation = i => marked[k].state # "deleted"
    BY <2>1, RowAssumption, Zenon DEF RowConsistent, RowAssumption, Live, Erasure
  <2> QED
    BY <1>2, <1>4, <2>1, <2>2, <2>3, DeletedConsistent, Zenon DEF Fates
<1> QED
  BY <1>3, <1>4, Zenon

-----------------------------------------------------------------------------
(* Rows the operations do not name are left as they are.                   *)

(* A claimed row outside S and outside the leases L survives the marking   *)
(* of S, the completion of markers and the cascade of L, in any order.     *)
LEMMA UntouchedByFinalization ==
  ASSUME NEW tbl \in Table, NEW j \in JobIds, tbl[j].state = "claimed"
  PROVE  /\ \A S, reason, t : j \notin S => MarkFinal(tbl, S, reason, t)[j] = tbl[j]
         /\ \A S : CompleteMarkers(tbl, S)[j] = tbl[j]
         /\ \A L, I : tbl[j].lease \notin L /\ tbl[j].installation \notin I =>
              Cascade(tbl, L, I)[j] = tbl[j]
  BY Zenon DEF MarkFinal, CompleteMarkers, Cascade

(* Recovery leaves a row alone that it does not lock.                      *)
LEMMA UntouchedByRecovery ==
  ASSUME NEW tbl \in Table, NEW j \in JobIds, NEW absent, NEW t,
         j \notin Unrecoverable(tbl, absent, t) \cup Lapsed(tbl, t)
  PROVE  Recovered(tbl, absent, t)[j] = tbl[j]
  BY Zenon DEF Recovered

(* The conversion leaves a claimed row of another installation alone.      *)
LEMMA UntouchedByConversion ==
  ASSUME NEW tbl \in Table, NEW i \in Installations, NEW j \in JobIds, NEW t,
         NEW k \in JobIds, k # j, tbl[k].state = "claimed",
         tbl[k].lease \notin LeasesOf(i), tbl[k].installation # i
  PROVE  Converted(tbl, i, j, t)[k] = tbl[k]
  BY Zenon DEF Converted, MarkFinal, JobsOfLeases

=============================================================================
