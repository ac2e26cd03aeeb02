------------------------ MODULE NotificationReceipts ------------------------
(***************************************************************************)
(* What the durable notification queue promises about one received        *)
(* envelope and the devices it is for, without leases, workers or time:   *)
(* the envelope is admitted once per row, its recipients are fixed once,  *)
(* each recipient is decided at most once and only while the envelope is  *)
(* open, and "accepted" is only ever written after a provider accepted.   *)
(***************************************************************************)
EXTENDS Naturals

CONSTANTS Keys, Installs

VARIABLES
    promise     \* promise[k]: the row kept for key k

Absent == [status |-> "absent", chosen |-> FALSE, receipts |-> <<>>, accepted |-> {}]

Decisions == {"accepted", "rejected"}

Init == promise = [k \in Keys |-> Absent]

\* A frame becomes durable, or is recorded as refused (dead from the start).
Admit(k) ==
    /\ promise[k].status = "absent"
    /\ \E s \in {"pending", "dead"} :
          promise' = [promise EXCEPT ![k] = [Absent EXCEPT !.status = s]]

\* The first attempt that gets that far fixes who the recipients are.
Choose(k) ==
    /\ promise[k].status = "pending"
    /\ ~promise[k].chosen
    /\ \E S \in SUBSET Installs :
          promise' = [promise EXCEPT ![k].chosen = TRUE,
                                     ![k].receipts = [i \in S |-> "pending"]]

\* The provider takes the message for a chosen recipient.  This is outside the
\* database, so it can also come after the envelope was closed.
Deliver(k, i) ==
    /\ i \in DOMAIN promise[k].receipts
    /\ promise[k].receipts[i] = "pending"
    /\ promise' = [promise EXCEPT ![k].accepted = @ \cup {i}]

Decide(k, i) ==
    /\ promise[k].status = "pending"
    /\ i \in DOMAIN promise[k].receipts
    /\ promise[k].receipts[i] = "pending"
    /\ \E d \in Decisions :
          /\ d = "accepted" => i \in promise[k].accepted
          /\ promise' = [promise EXCEPT ![k].receipts[i] = d]

Close(k) ==
    /\ promise[k].status = "pending"
    /\ \E s \in {"complete", "dead"} : promise' = [promise EXCEPT ![k].status = s]

\* Maintenance closes and forgets any number of rows in one statement.
Maintenance ==
    \E closing, forgetting \in SUBSET Keys :
       /\ \A k \in closing : promise[k].status = "pending"
       /\ \A k \in forgetting : promise[k].status # "absent"
                               /\ (promise[k].status = "pending" => k \in closing)
       /\ promise' = [k \in Keys |->
             IF k \in forgetting THEN Absent
             ELSE IF k \in closing THEN [promise[k] EXCEPT !.status = "dead"]
             ELSE promise[k]]

\* A step changes what was promised.
Next ==
    /\ promise' # promise
    /\ \/ \E k \in Keys : Admit(k) \/ Choose(k) \/ Close(k)
       \/ \E k \in Keys, i \in Installs : Deliver(k, i) \/ Decide(k, i)
       \/ Maintenance

Spec == Init /\ [][Next]_promise
=============================================================================
