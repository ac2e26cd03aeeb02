-------------------------- MODULE NotificationQueue --------------------------
(***************************************************************************)
(* The durable queue of the plaintext push path: the receive goroutine     *)
(* that admits frames (persistEnvelope), the workers that lease, dispatch  *)
(* and finish envelopes (processDurableEnvelopeWithHeartbeat and           *)
(* deliveryDispatcher), the per-recipient receipts, and maintenance.       *)
(*                                                                         *)
(* Every deadline is read from the database clock, so a lease is modelled  *)
(* by whether it is still in the future ("live"), a retry time by whether  *)
(* it has come ("due"), and the age of a row by the two thresholds the     *)
(* queries compare it with.  A database call either commits and answers,   *)
(* commits and loses the answer, or does nothing and fails.                *)
(***************************************************************************)
EXTENDS Naturals, FiniteSets

CONSTANTS
    Keys,           \* (listener, message key) pairs of the received frames
    Kind,           \* Kind[k]: "plain", "oversized", or "broken": bytes that
                    \* processing rejects or panics on
    Installs,       \* installations that may subscribe
    Workers,        \* durable worker goroutines
    MaxAttempts,    \* attempts after which an envelope is dead
    MaxRecipients,  \* largest recipient snapshot
    Capacity,       \* pending and oversized rows the queue admits
    MaxRows,        \* bound: rows ever created for one key
    Events          \* bound: which of "replay", "churn", "ageing", "renewal",
                    \* "timeout", "stop" happen in this instance

QueueAssumption ==
    /\ Kind \in [Keys -> {"plain", "oversized", "broken"}]
    /\ MaxAttempts \in Nat \ {0}
    /\ Capacity \in Nat \ {0}

VARIABLES
    row,        \* row[k]: notification_envelopes row with its receipts, or NoRow
    ids,        \* ids[k]: rows ever created for k (BIGSERIAL)
    subs,       \* subs[i]: what the subscription tables say of i's topic
    frame,      \* the frame in the hands of the receive goroutine
    persisted,  \* keys the listener moved past because they are durable
    worker,     \* worker[w]: one goroutine and its captured envelope
    up          \* the listener context is not cancelled

vars == <<row, ids, subs, frame, persisted, worker, up>>

NoRow == [id |-> 0]
NoFrame == "none"
Replies == {"answered", "lost", "failed"}
Commits(reply) == reply # "failed"

Receipt(s, l, v) == [status |-> s, lease |-> l, live |-> v]

NewRow(k, s) ==
    [id |-> ids[k] + 1, status |-> s, attempts |-> 0, lease |-> 0, live |-> FALSE,
     due |-> TRUE, age |-> "fresh", prepared |-> FALSE, receipts |-> <<>>, accepted |-> {}]

Present(k) == row[k].id # 0
Pending(k) == Present(k) /\ row[k].status = "pending"

Idle == [pc |-> "idle"]

Init ==
    /\ row = [k \in Keys |-> NoRow]
    /\ ids = [k \in Keys |-> 0]
    /\ subs \in [Installs -> {"none", "push"}]
    /\ frame = NoFrame
    /\ persisted = {}
    /\ worker = [w \in Workers |-> Idle]
    /\ up = TRUE

-----------------------------------------------------------------------------
(* Subscriptions change under the queue's feet.  A silent subscription is  *)
(* found by the lookups and refused by AuthorizeDelivery.                  *)

Resubscribe(i, s) ==
    /\ "churn" \in Events
    /\ subs[i] # s
    /\ subs' = [subs EXCEPT ![i] = s]
    /\ UNCHANGED <<row, ids, frame, persisted, worker, up>>

Known == {i \in Installs : subs[i] # "none"}

-----------------------------------------------------------------------------
(* Admission, on the receive goroutine.                                    *)

\* stream.Recv returns a frame; the stream may replay one.
Receive(k) ==
    /\ up /\ frame = NoFrame
    /\ k \in persisted => "replay" \in Events
    /\ frame' = k
    /\ UNCHANGED <<row, ids, subs, persisted, worker, up>>

\* admitEnvelope finds no subscription for the topic and skips the frame.
SkipUnknown ==
    /\ up /\ frame # NoFrame
    /\ Known = {}
    /\ frame' = NoFrame
    /\ UNCHANGED <<row, ids, subs, persisted, worker, up>>

\* NotificationPendingCapacity, in rows: oversized receipts count as well.
Charged == {k \in Keys : Present(k) /\ (row[k].status = "pending" \/ Kind[k] = "oversized")}

AtCapacity == Cardinality(Charged) >= Capacity

\* Enqueue returned nil, or an error about the frame itself: the stream goes on.
MovesOn(reply, admit) == reply = "answered" /\ (Present(frame) \/ admit)

\* Enqueue under the admission lock: a known key is a success, a full queue an
\* error, an oversized frame a dead row.  persistEnvelope retries every error
\* that is not about the frame itself, so a lost answer leads to a second call.
Enqueue(reply) ==
    LET k == frame
        admit == ~Present(k) /\ ~AtCapacity
    IN  /\ up /\ frame # NoFrame
        /\ Known # {}
        /\ admit => ids[k] < MaxRows
        /\ IF admit /\ Commits(reply)
           THEN /\ row' = [row EXCEPT ![k] =
                             NewRow(k, IF Kind[k] = "oversized" THEN "dead" ELSE "pending")]
                /\ ids' = [ids EXCEPT ![k] = @ + 1]
           ELSE UNCHANGED <<row, ids>>
        /\ IF MovesOn(reply, admit)
           THEN /\ frame' = NoFrame
                /\ persisted' = persisted \cup {k}
           ELSE UNCHANGED <<frame, persisted>>
        /\ UNCHANGED <<subs, worker, up>>

-----------------------------------------------------------------------------
(* The worker: claim, load, prepare, dispatch to each recipient, finish.   *)

\* The statement's own test of the envelope lease: the captured row and lease
\* are the current ones and lease_until is in the future.
LeaseHeld(w) ==
    LET e == worker[w] IN
    /\ Pending(e.key)
    /\ row[e.key].id = e.id
    /\ row[e.key].lease = e.lease
    /\ row[e.key].live

\* Mutant: the attempts are not counted.
ClaimableForEver(k) ==
    Pending(k) /\ row[k].age = "fresh" /\ row[k].due /\ ~row[k].live

Claimable(k) ==
    /\ Pending(k)
    /\ row[k].attempts < MaxAttempts
    /\ row[k].age = "fresh"
    /\ row[k].due
    /\ ~row[k].live

\* A lease id is fresh for every claim, and so is the attempt number of the
\* row it is issued with: the number stands for the id.
Claim(w, k, reply) ==
    /\ up /\ worker[w].pc = "idle"
    /\ reply # "failed"
    /\ Claimable(k)
    /\ LET n == row[k].attempts + 1 IN
       /\ row' = [row EXCEPT ![k].attempts = n, ![k].lease = n, ![k].live = TRUE]
       /\ worker' = IF reply = "lost" THEN worker
                    ELSE [worker EXCEPT ![w] =
                           [pc |-> "claimed", key |-> k, id |-> row[k].id, lease |-> n,
                            prepared |-> row[k].prepared, ctx |-> "live",
                            reqs |-> {}, push |-> {}, todo |-> {}, cur |-> "none",
                            outcome |-> "none", err |-> "none"]]
    /\ UNCHANGED <<ids, subs, frame, persisted, up>>

Working(w) == worker[w].pc # "idle"

\* The heartbeat's Renew fails, because the lease is lost or the database did
\* not answer: the attempt is cancelled and its result will not be written.
\* A Renew that succeeds changes nothing a live lease does not already say.
RenewFails(w) ==
    /\ "renewal" \in Events
    /\ Working(w) /\ worker[w].ctx = "live"
    /\ worker' = [worker EXCEPT ![w].ctx = "lost"]
    /\ UNCHANGED <<row, ids, subs, frame, persisted, up>>

\* durableAttemptTimeout ends the attempt while the lease stays healthy.
AttemptTimesOut(w) ==
    /\ "timeout" \in Events
    /\ Working(w) /\ worker[w].ctx = "live"
    /\ worker' = [worker EXCEPT ![w].ctx = "timeout"]
    /\ UNCHANGED <<row, ids, subs, frame, persisted, up>>

\* A call under the attempt's context can only succeed while it is live.
Live(w) == up /\ worker[w].ctx = "live"
May(w, reply) == Live(w) \/ reply # "answered"

Goto(w, pc, err) ==
    worker' = [worker EXCEPT ![w].pc = pc, ![w].err = IF @ = "none" THEN err ELSE @]

\* Decoding and the two lookups, which give the requests of this attempt.
Load(w, reply) ==
    LET e == worker[w]
        push == {i \in Known : subs[i] = "push"}
    IN  /\ e.pc = "claimed"
        /\ May(w, reply) /\ reply # "lost"
        /\ IF Kind[e.key] = "broken" THEN Goto(w, "finish", "invalid")
           ELSE IF reply = "failed" THEN Goto(w, "finish", "retry")
           ELSE IF Known = {} THEN Goto(w, "finish", "none")
           ELSE worker' = [worker EXCEPT ![w].pc = "loaded", ![w].reqs = Known,
                                         ![w].push = push, ![w].todo = Known]
        /\ UNCHANGED <<row, ids, subs, frame, persisted, up>>

\* PrepareRecipients: nothing if this claim saw a snapshot, an error if the set
\* is too large, otherwise a statement that writes only under the lease and
\* whose row count nobody looks at.
PrepareRecipients(w, reply) ==
    LET e == worker[w]
        skip == e.prepared
        over == ~skip /\ Cardinality(e.push) > MaxRecipients
        write == ~skip /\ ~over /\ Commits(reply) /\ LeaseHeld(w) /\ ~row[e.key].prepared
    IN  /\ e.pc = "loaded"
        /\ (skip \/ over) => reply = "answered"
        /\ (~skip /\ ~over) => May(w, reply)
        /\ row' = IF write
                  THEN [row EXCEPT ![e.key].prepared = TRUE,
                                   ![e.key].receipts = [i \in e.push |-> Receipt("pending", 0, FALSE)]]
                  ELSE row
        /\ IF over THEN Goto(w, "finish", "limit")
           ELSE IF reply = "answered" THEN Goto(w, "dispatch", "none")
           ELSE Goto(w, "finish", "retry")
        /\ UNCHANGED <<ids, subs, frame, persisted, up>>

HasReceipt(k, i) == Present(k) /\ i \in DOMAIN row[k].receipts

SameRow(w) == row[worker[w].key].id = worker[w].id

\* Mutant: a ticket that is still live is given out again.
TicketFreeTwice(w, i) ==
    LET k == worker[w].key IN
    SameRow(w) /\ HasReceipt(k, i) /\ row[k].receipts[i].status = "pending" /\ LeaseHeld(w)

\* ClaimNotificationRecipient's WHERE clause.
TicketFree(w, i) ==
    LET k == worker[w].key IN
    /\ SameRow(w) /\ HasReceipt(k, i)
    /\ row[k].receipts[i].status = "pending" /\ ~row[k].receipts[i].live
    /\ LeaseHeld(w)

\* Mutant: a recipient in another worker's hands counts as done.
RecipientDoneIfBusy(w, i) == TRUE

\* GetNotificationRecipientStatus after a claim that found nothing to update.
RecipientDone(w, i) ==
    LET k == worker[w].key IN
    SameRow(w) /\ HasReceipt(k, i) => row[k].receipts[i].status # "pending"

\* What a provider call can come to; "silent" is an acceptance whose answer did
\* not arrive, and a cancelled attempt ends its call with an error.
Outcomes == {"accepted", "rejected", "transient", "silent", "no_provider", "token_cleanup"}

\* Mutant: an outcome that is not known counts as accepted.
ReceiptStatusOptimist(o) ==
    IF o \in {"rejected", "suppressed", "no_provider"} THEN "rejected" ELSE "accepted"

\* dispatchContext's choice of the status to record.
ReceiptStatus(o) ==
    CASE o = "accepted" -> "accepted"
      [] o \in {"rejected", "suppressed", "no_provider"} -> "rejected"
      [] OTHER -> "pending"

\* The next recipient: a ticket if its receipt is free under a live envelope
\* lease, done if it is decided or was never in the snapshot, otherwise busy.
ClaimRecipient(w, i, reply) ==
    LET e == worker[w]
        k == e.key
        free == TicketFree(w, i)
        next == [e EXCEPT !.todo = @ \ {i}]
    IN  /\ e.pc = "dispatch" /\ i \in e.todo
        /\ May(w, reply)
        /\ row' = IF free /\ Commits(reply)
                  THEN [row EXCEPT ![k].receipts[i] = Receipt("pending", e.lease, TRUE)]
                  ELSE row
        /\ worker' = [worker EXCEPT ![w] =
              IF reply = "answered" /\ free
              THEN IF i \in e.push
                   THEN [next EXCEPT !.pc = "sending", !.cur = i]
                   ELSE [next EXCEPT !.pc = "sent", !.cur = i, !.outcome = ReceiptStatus("suppressed")]
              ELSE IF reply = "answered" /\ RecipientDone(w, i) THEN next
              ELSE [next EXCEPT !.err = "retry"]]
        /\ UNCHANGED <<ids, subs, frame, persisted, up>>

Send(w, o) ==
    LET e == worker[w] IN
    /\ e.pc = "sending"
    /\ ~Live(w) => o \in {"transient", "silent"}
    /\ worker' = [worker EXCEPT ![w].pc = "sent", ![w].outcome = ReceiptStatus(o)]
    /\ row' = IF o \in {"accepted", "silent"} /\ SameRow(w)
              THEN [row EXCEPT ![e.key].accepted = @ \cup {e.cur}]
              ELSE row
    /\ UNCHANGED <<ids, subs, frame, persisted, up>>

\* finishRecipient writes under both leases with a context of its own, so a
\* cancelled attempt still records what the provider said.
FinishRecipient(w, reply) ==
    LET e == worker[w]
        k == e.key
        s == e.outcome
        fenced == /\ LeaseHeld(w)
                  /\ HasReceipt(k, e.cur)
                  /\ row[k].receipts[e.cur] = Receipt("pending", e.lease, TRUE)
        ok == reply = "answered" /\ fenced /\ s # "pending"
    IN  /\ e.pc = "sent"
        /\ row' = IF fenced /\ Commits(reply)
                  THEN [row EXCEPT ![k].receipts[e.cur] = Receipt(s, e.lease, FALSE)]
                  ELSE row
        /\ worker' = [worker EXCEPT ![w].pc = "dispatch", ![w].cur = "none",
                                    ![w].outcome = "none",
                                    ![w].err = IF ok THEN @ ELSE "retry"]
        /\ UNCHANGED <<ids, subs, frame, persisted, up>>

Dispatched(w) ==
    /\ worker[w].pc = "dispatch" /\ worker[w].todo = {}
    /\ Goto(w, "finish", "none")
    /\ UNCHANGED <<row, ids, subs, frame, persisted, up>>

\* Finish: an attempt that reached the limit is dead unless it succeeded.
FinishStatus(e) ==
    CASE e.err = "none" -> "complete"
      [] e.err \in {"invalid", "limit", "panic"} -> "dead"
      [] OTHER -> IF e.lease >= MaxAttempts THEN "dead" ELSE "pending"

Finished(w, s) ==
    LET k == worker[w].key IN
    [row EXCEPT ![k].status = s, ![k].due = FALSE, ![k].lease = 0, ![k].live = FALSE]

\* A result is written only if the listener runs and the heartbeat kept the
\* lease; the statement fences it once more.
FinishEnvelope(w, reply) ==
    /\ worker[w].pc = "finish"
    /\ row' = IF up /\ worker[w].ctx # "lost" /\ Commits(reply) /\ LeaseHeld(w)
              THEN Finished(w, FinishStatus(worker[w])) ELSE row
    /\ worker' = [worker EXCEPT ![w] = Idle]
    /\ UNCHANGED <<ids, subs, frame, persisted, up>>

\* A panic in processing: recorded as dead before the listener fails closed,
\* so that a restart does not claim the same frame again.
Panic(w, reply) ==
    /\ worker[w].pc = "claimed" /\ Kind[worker[w].key] = "broken"
    /\ row' = IF up /\ worker[w].ctx # "lost" /\ Commits(reply) /\ LeaseHeld(w)
              THEN Finished(w, "dead") ELSE row
    /\ worker' = [worker EXCEPT ![w] = Idle]
    /\ up' = FALSE
    /\ UNCHANGED <<ids, subs, frame, persisted>>

-----------------------------------------------------------------------------
(* Maintenance, time and the process.                                      *)

\* Mutant: only age closes a row.
ExpirableByAge(k) == Pending(k) /\ ~row[k].live /\ row[k].age # "fresh"

Expirable(k) ==
    /\ Pending(k) /\ ~row[k].live
    /\ row[k].age # "fresh" \/ row[k].attempts >= MaxAttempts

\* Maintain: expire, then purge; the second statement may not run.
Maintain(purge) ==
    LET closed(k) == IF Expirable(k)
                     THEN [row[k] EXCEPT !.status = "dead", !.lease = 0] ELSE row[k]
    IN  /\ up
        /\ row' = [k \in Keys |->
              IF purge /\ Present(k) /\ closed(k).status # "pending" /\ row[k].age = "purgeable"
              THEN NoRow ELSE closed(k)]
        /\ row' # row
        /\ UNCHANGED <<ids, subs, frame, persisted, worker, up>>

LeaseLapses(k) ==
    /\ Pending(k) /\ row[k].live
    /\ row' = [row EXCEPT ![k].live = FALSE]
    /\ UNCHANGED <<ids, subs, frame, persisted, worker, up>>

\* A ticket lasts 30 s from its statement; the statement answers within 10 s and
\* the provider call ends within DELIVERY_TIMEOUT, 15 s, so it outlives the call.
InFlight(w, k, i) ==
    /\ worker[w].pc = "sending"
    /\ worker[w].key = k /\ worker[w].id = row[k].id /\ worker[w].cur = i

TicketLapses(k, i) ==
    /\ HasReceipt(k, i) /\ row[k].receipts[i].live
    /\ \A w \in Workers : ~InFlight(w, k, i)
    /\ row' = [row EXCEPT ![k].receipts[i].live = FALSE]
    /\ UNCHANGED <<ids, subs, frame, persisted, worker, up>>

BecomesDue(k) ==
    /\ Pending(k) /\ ~row[k].due
    /\ row' = [row EXCEPT ![k].due = TRUE]
    /\ UNCHANGED <<ids, subs, frame, persisted, worker, up>>

\* 24 hours after admission, and 7 days.  An attempt lasts minutes, so a row
\* that a worker holds does not reach the second mark.
Ages(k) ==
    /\ "ageing" \in Events
    /\ Present(k) /\ row[k].age # "purgeable"
    /\ row[k].age = "expired" => \A w \in Workers : Working(w) => worker[w].key # k
    /\ row' = [row EXCEPT ![k].age = IF @ = "fresh" THEN "expired" ELSE "purgeable"]
    /\ UNCHANGED <<ids, subs, frame, persisted, worker, up>>

\* Stop and failClosed cancel the context; workers see it on their own.
Stop ==
    /\ up /\ "stop" \in Events
    /\ up' = FALSE
    /\ UNCHANGED <<row, ids, subs, frame, persisted, worker>>

\* The process ends, whatever its goroutines are doing.
Exit ==
    /\ up' = FALSE
    /\ frame' = NoFrame
    /\ worker' = [w \in Workers |-> Idle]
    /\ <<up, frame, worker>>' # <<up, frame, worker>>
    /\ UNCHANGED <<row, ids, subs, persisted>>

Restart ==
    /\ ~up /\ frame = NoFrame /\ \A w \in Workers : ~Working(w)
    /\ up' = TRUE
    /\ UNCHANGED <<row, ids, subs, frame, persisted, worker>>

-----------------------------------------------------------------------------
WorkerStep(w) ==
    \/ \E k \in Keys, reply \in Replies : Claim(w, k, reply)
    \/ \E reply \in Replies : Load(w, reply) \/ PrepareRecipients(w, reply)
    \/ \E i \in Installs, reply \in Replies : ClaimRecipient(w, i, reply)
    \/ \E o \in Outcomes : Send(w, o)
    \/ \E reply \in Replies : FinishRecipient(w, reply)
    \/ Dispatched(w)
    \/ \E reply \in Replies : FinishEnvelope(w, reply) \/ Panic(w, reply)

Next ==
    \/ \E i \in Installs, s \in {"none", "silent", "push"} : Resubscribe(i, s)
    \/ \E k \in Keys : Receive(k)
    \/ SkipUnknown
    \/ \E reply \in Replies : Enqueue(reply)
    \/ \E w \in Workers : WorkerStep(w) \/ RenewFails(w) \/ AttemptTimesOut(w)
    \/ \E purge \in BOOLEAN : Maintain(purge)
    \/ \E k \in Keys : LeaseLapses(k) \/ BecomesDue(k) \/ Ages(k)
    \/ \E k \in Keys, i \in Installs : TicketLapses(k, i)
    \/ Stop \/ Exit \/ Restart

Spec == Init /\ [][Next]_vars

\* Workers poll and every provider and database call has a deadline, so a worker
\* step is never put off for ever; claims are taken in the order of their retry
\* time, so no due row is passed over for ever; leases and retry times run out;
\* a stopped process is started again, and not every start dies before the first
\* Maintain.  Nothing is assumed of what calls return, nor of rows growing old.
Fairness ==
    /\ \A w \in Workers : WF_vars(WorkerStep(w))
    /\ \A k \in Keys : SF_vars(\E w \in Workers : Claim(w, k, "answered"))
    /\ \A k \in Keys : WF_vars(LeaseLapses(k)) /\ WF_vars(BecomesDue(k))
    /\ \A k \in Keys, i \in Installs : WF_vars(TicketLapses(k, i))
    /\ SF_vars(Maintain(TRUE))
    /\ WF_vars(~up /\ Exit)
    /\ WF_vars(Restart)

FairSpec == Spec /\ Fairness

-----------------------------------------------------------------------------
(* Properties.                                                             *)

\* Rows, receipts and workers have their types; attempts never pass the CHECK
\* of the attempts column.
TypeOK ==
    /\ \A k \in Keys : Present(k) =>
          /\ row[k].status \in {"pending", "complete", "dead"}
          /\ row[k].attempts \in 0..MaxAttempts
          /\ row[k].lease \in 0..MaxAttempts
          /\ row[k].age \in {"fresh", "expired", "purgeable"}
          /\ {row[k].live, row[k].due, row[k].prepared} \subseteq BOOLEAN
          /\ DOMAIN row[k].receipts \subseteq Installs
          /\ \A i \in DOMAIN row[k].receipts :
                row[k].receipts[i].status \in {"pending", "accepted", "rejected"}
    /\ ids \in [Keys -> 0..MaxRows]
    /\ subs \in [Installs -> {"none", "silent", "push"}]
    /\ frame \in Keys \cup {NoFrame}
    /\ persisted \subseteq Keys
    /\ \A w \in Workers : worker[w].pc \in
          {"idle", "claimed", "loaded", "dispatch", "sending", "sent", "finish"}
    /\ up \in BOOLEAN

\* A provider call is made only for a recipient that is undecided and whose
\* ticket is the caller's, also when the caller's envelope lease was lost and
\* another worker has the envelope: no two workers push the same message to the
\* same installation at the same time (ClaimNotificationRecipient).
SendHoldsTicket ==
    \A w \in Workers :
       (worker[w].pc = "sending" /\ SameRow(w)) =>
          /\ HasReceipt(worker[w].key, worker[w].cur)
          /\ row[worker[w].key].receipts[worker[w].cur]
                = Receipt("pending", worker[w].lease, TRUE)

\* The listener moves past a frame for a known topic only once a row for it has
\* been committed, whatever answers were lost (persistEnvelope).
PersistedIsDurable == \A k \in persisted : ids[k] > 0

\* Pending rows and oversized receipts together stay within the admission quota
\* (NotificationPendingCapacity).
QueueBounded == Cardinality(Charged) <= Capacity

\* An envelope is completed only by an attempt all of whose requests are
\* decided: a recipient still pending in the snapshot was not among them, because
\* it is no longer subscribed.  In particular an attempt whose PrepareRecipients
\* wrote nothing, its lease being lost, never completes the envelope.
CompletionCovers ==
    \A k \in Keys :
       (Pending(k) /\ row'[k].id = row[k].id /\ row'[k].status = "complete") =>
          \E w \in Workers :
             /\ worker[w].pc = "finish" /\ worker[w].key = k
             /\ (worker[w].push # {} => row[k].prepared)
             /\ \A i \in DOMAIN row[k].receipts :
                   row[k].receipts[i].status = "pending" => i \notin worker[w].reqs

\* The queue implements the promise of NotificationReceipts: one recipient
\* snapshot per row, each recipient decided at most once and only while the
\* envelope is pending, accepted only after a provider accepted.
R == INSTANCE NotificationReceipts WITH
        promise <- [k \in Keys |->
            IF Present(k)
            THEN [status |-> row[k].status, chosen |-> row[k].prepared,
                  receipts |-> [i \in DOMAIN row[k].receipts |-> row[k].receipts[i].status],
                  accepted |-> row[k].accepted]
            ELSE [status |-> "absent", chosen |-> FALSE, receipts |-> <<>>, accepted |-> {}]]

ImplementsReceipts == R!Spec

\* Every admitted envelope is eventually closed or gone, without waiting for it
\* to grow old: attempts run out, and one whose last attempt died with its
\* process is closed by Maintain (Finish, ExpireNotificationEnvelopes).
AdmittedIsClosed == \A k \in Keys : []<>~Pending(k)
=============================================================================
