------------------------------ MODULE MCIntake ------------------------------
(***************************************************************************)
(* What takes a message in and finds whom to push it to: the listener, the *)
(* durable queue and the plaintext registry, on small instances.  They     *)
(* share no state at this level of detail, so a behaviour is a behaviour   *)
(* of one of them: part says of which, and the others stay where they      *)
(* start.  The queue and the registry are there in several sizes.         *)
(***************************************************************************)
EXTENDS Naturals, TLC

CONSTANTS k1, k2, i1, i2, w1, w2, e1, e2, e3, t1, t2, d1

VARIABLES
    part,
    row, ids, subs, frame, persisted, worker, up,                \* NotificationQueue
    live, pc, batch, ready, unsafe, processing, admission, health,
    channel, closed, pool, conn, connMu, stop, handed, finished, \* XmtpListener
    now, account, mech, sub, pending, dead, task, renewed, settled \* PlaintextRegistry

queue == <<row, ids, subs, frame, persisted, worker, up>>
listener == <<live, pc, batch, ready, unsafe, processing, admission, health,
              channel, closed, pool, conn, connMu, stop, handed, finished>>
registry == <<now, account, mech, sub, pending, dead, task, renewed, settled>>
vars == <<part, queue, listener, registry>>

\* Two workers, one of which loses its lease, and one recipient.
Fencing == INSTANCE NotificationQueue WITH
    Keys <- {k1}, Kind <- k1 :> "plain", Installs <- {i1}, Workers <- {w1, w2},
    MaxAttempts <- 2, MaxRecipients <- 2, Capacity <- 1, MaxRows <- 1,
    Events <- {"renewal", "timeout"}

\* Two recipients whose subscriptions change under the queue's feet.
Recipients == INSTANCE NotificationQueue WITH
    Keys <- {k1}, Kind <- k1 :> "plain", Installs <- {i1, i2}, Workers <- {w1, w2},
    MaxAttempts <- 1, MaxRecipients <- 2, Capacity <- 1, MaxRows <- 1,
    Events <- {"churn"}

\* The same, at most one of them in the snapshot, under a worker that tries the
\* envelope a second time.
Retried == INSTANCE NotificationQueue WITH
    Keys <- {k1}, Kind <- k1 :> "plain", Installs <- {i1, i2}, Workers <- {w1},
    MaxAttempts <- 2, MaxRecipients <- 1, Capacity <- 1, MaxRows <- 1,
    Events <- {"churn"}

\* Two envelopes, one of them too large, that are offered again and grow old, and
\* a quota of one.
Admission == INSTANCE NotificationQueue WITH
    Keys <- {k1, k2}, Kind <- k1 :> "plain" @@ k2 :> "oversized", Installs <- {i1, i2},
    Workers <- {w1}, MaxAttempts <- 1, MaxRecipients <- 1, Capacity <- 1, MaxRows <- 2,
    Events <- {"renewal", "timeout", "replay", "ageing"}

\* Batches larger than the channel, with workers that process them in memory.
Listener == INSTANCE XmtpListener WITH
    Envelopes <- {e1, e2, e3}, BatchSize <- 2, Workers <- {w1, w2}, ChanCap <- 1,
    Durable <- FALSE, worker <- pool

\* One installation that moves between two tokens, and one that renews a single
\* token for longer; registrations overlap.
Audible == [silent |-> FALSE, keys |-> {1}]
Rotating == INSTANCE PlaintextRegistry WITH
    Installs <- {i1}, Tokens <- {t1, t2}, Periods <- {1}, Metadata <- {Audible},
    Senders <- {d1}, Overlap <- 2,
    MaxTime <- 2, MaxVersion <- 2
Renewing == INSTANCE PlaintextRegistry WITH
    Installs <- {i1}, Tokens <- {t1}, Periods <- {1},
    Metadata <- [silent : BOOLEAN, keys : SUBSET {1}], Senders <- {d1}, Overlap <- 2,
    MaxTime <- 3, MaxVersion <- 3

ASSUME /\ Fencing!QueueAssumption /\ Recipients!QueueAssumption
       /\ Retried!QueueAssumption /\ Admission!QueueAssumption
       /\ Listener!ListenerAssumption
       /\ Rotating!RegistryAssumption /\ Renewing!RegistryAssumption

Parts == {"fencing", "recipients", "retried", "admission", "listener", "rotating", "renewing"}

Init ==
    /\ part \in Parts
    /\ CASE part = "recipients" -> Recipients!Init
         [] part = "retried"    -> Retried!Init
         [] part = "admission"  -> Admission!Init
         [] OTHER               -> Fencing!Init
    /\ part \in {"listener", "rotating", "renewing"} => subs = [i \in {i1} |-> "none"]
    /\ Listener!Init
    /\ IF part = "renewing" THEN Renewing!Init ELSE Rotating!Init

Next ==
    \/ /\ \/ part = "fencing" /\ Fencing!Next
          \/ part = "recipients" /\ Recipients!Next
          \/ part = "retried" /\ Retried!Next
          \/ part = "admission" /\ Admission!Next
       /\ UNCHANGED <<part, listener, registry>>
    \/ /\ part = "listener" /\ Listener!Next
       /\ UNCHANGED <<part, queue, registry>>
    \/ /\ \/ part = "rotating" /\ Rotating!Next
          \/ part = "renewing" /\ Renewing!Next
       /\ UNCHANGED <<part, queue, listener>>

Spec == Init /\ [][Next]_vars

Symmetry == Permutations({w1, w2}) \cup Permutations({i1, i2}) \cup Permutations({t1, t2})

-----------------------------------------------------------------------------
\* The types of each component.
TypeOK ==
    CASE part = "fencing"    -> Fencing!TypeOK
      [] part = "recipients" -> Recipients!TypeOK
      [] part = "retried"    -> Retried!TypeOK
      [] part = "admission"  -> Admission!TypeOK
      [] part = "listener"   -> Listener!TypeOK
      [] part = "rotating"   -> Rotating!TypeOK
      [] part = "renewing"   -> Renewing!TypeOK

\* No two workers push one message to one installation at the same time, whoever
\* lost its lease meanwhile (ClaimNotificationRecipient).  The queue stays within
\* its quota, and the listener leaves a frame behind only once a row for it is
\* committed, whatever answers were lost (Enqueue, persistEnvelope).
QueueHolds ==
    /\ part \in {"fencing", "recipients"} => Recipients!SendHoldsTicket
    /\ part = "retried" => Retried!SendHoldsTicket
    /\ part = "admission" => Admission!QueueBounded /\ Admission!PersistedIsDurable

\* The queue implements NotificationReceipts: one snapshot of the recipients for a
\* row, each decided at most once, and accepted only after the provider accepted.
ImplementsReceipts == Recipients!ImplementsReceipts

\* An envelope is completed only by an attempt whose own requests are all decided
\* (PrepareRecipients, FinishNotificationEnvelope).
CompletionCoversRequests ==
    [][CASE part = "retried"   -> Retried!CompletionCovers
         [] part = "admission" -> Admission!CompletionCovers
         [] OTHER              -> Recipients!CompletionCovers]_vars

\* Ready is reported only by a listener that consumes its stream, is retrying no
\* envelope and has lost no worker; nothing received is lost without the listener
\* stopping; and Stop leaves no connection behind, although a reconnect may race
\* with it.
ListenerIsHonest == part = "listener" =>
    /\ Listener!ReadyIsHonest
    /\ Listener!NoSilentLoss
    /\ Listener!StopLeavesNoConnection

\* A provider's late answer about a token does not retire a newer registration,
\* also when two registrations overlap; and a lookup never goes back behind a
\* registration that no other one overlapped at its commit
\* (InvalidateDeliveryToken, GetLatestInstallations).
TokensAreCurrent ==
    [][IF part = "renewing"
       THEN Renewing!RenewalSurvives' /\ Renewing!LookupIsLatest
       ELSE Rotating!RenewalSurvives' /\ Rotating!LookupIsLatest]_vars
=============================================================================
