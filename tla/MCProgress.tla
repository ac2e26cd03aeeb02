----------------------------- MODULE MCProgress -----------------------------
(***************************************************************************)
(* What must happen in the end, on small instances: an admitted envelope   *)
(* is closed, a listener finishes or winds down, a doubt about trust is    *)
(* made durable and shutdown ends, and every artifact request is answered. *)
(* A behaviour is a behaviour of one component, with its fairness: part    *)
(* says of which, and the others stay where they start.                    *)
(***************************************************************************)
EXTENDS Integers, TLC

CONSTANTS k1, k2, i1, w1, e1, e2, e3, r1, c1, c2, j1, p1, None

VARIABLES
    part,
    row, ids, subs, frame, persisted, worker, up,                \* NotificationQueue
    live, pc, batch, ready, unsafe, processing, admission, health,
    channel, closed, pool, conn, connMu, stop, handed, finished, \* XmtpListener
    record, rows, served, life, snap, hard, durable, shut, mu,
    refresher, caller, prober, latcher, wake, closer,            \* A9Trust
    clock, receipts, consume, spent, keyset, latched, request,
    effects, crashes                                             \* A9Ingress

queue == <<row, ids, subs, frame, persisted, worker, up>>
listener == <<live, pc, batch, ready, unsafe, processing, admission, health,
              channel, closed, pool, conn, connMu, stop, handed, finished>>
trust == <<record, rows, served, life, snap, hard, durable, shut, mu,
           refresher, caller, prober, latcher, wake, closer>>
ingress == <<clock, receipts, consume, spent, keyset, latched, request, effects, crashes>>
vars == <<part, queue, listener, trust, ingress>>

\* One envelope that can be processed and one that cannot.
Queue == INSTANCE NotificationQueue WITH
    Keys <- {k1, k2}, Kind <- k1 :> "plain" @@ k2 :> "broken", Installs <- {i1},
    Workers <- {w1}, MaxAttempts <- 1, MaxRecipients <- 1, Capacity <- 2, MaxRows <- 1,
    Events <- {"renewal", "timeout", "stop"}

\* The same queue with a second attempt, where only the first envelope arrives.
Again == INSTANCE NotificationQueue WITH
    Keys <- {k1, k2}, Kind <- k1 :> "plain" @@ k2 :> "broken", Installs <- {i1},
    Workers <- {w1}, MaxAttempts <- 2, MaxRecipients <- 1, Capacity <- 2, MaxRows <- 1,
    Events <- {"renewal", "timeout", "stop"}

\* A worker that processes in memory, and one that makes envelopes durable.
InMemory == INSTANCE XmtpListener WITH
    Envelopes <- {e1, e2, e3}, BatchSize <- 1, Workers <- {w1}, ChanCap <- 1,
    Durable <- FALSE, worker <- pool
ToQueue == INSTANCE XmtpListener WITH
    Envelopes <- {e1, e2, e3}, BatchSize <- 2, Workers <- {w1}, ChanCap <- 1,
    Durable <- TRUE, worker <- pool

\* One replica that is asked, probed and closed; and one whose keysets age.
Successors == {[seq |-> 1, ver |-> "a"], [seq |-> 2, ver |-> "a"]}
Process == INSTANCE A9Trust WITH
    Replicas <- {r1}, Objects <- Successors,
    Events <- {"lease", "artifact", "close", "ready", "invalid"},
    row <- record, closed <- shut
Recovery == INSTANCE A9Trust WITH
    Replicas <- {r1}, Objects <- Successors, Events <- {"age", "invalid"},
    row <- record, closed <- shut

\* A replacement whose body casts doubt on the epoch, sent twice.
Ingress == INSTANCE A9Ingress WITH
    Calls <- {c1, c2}, Jtis <- {j1}, Replicas <- {p1}, Offset <- p1 :> 0,
    Issued <- j1 :> 1, Expires <- j1 :> 2, KeysOf <- <<{k1}, {k1, k2}>>, Signer <- j1 :> k2,
    Bound <- j1 :> [kind |-> "replace", body |-> "doubt"],
    Skew <- 1, MaxLife <- 2, MaxTime <- 3, MaxCrashes <- 1

ASSUME /\ Queue!QueueAssumption /\ Again!QueueAssumption
       /\ InMemory!ListenerAssumption /\ ToQueue!ListenerAssumption
       /\ Process!TrustConstants /\ Recovery!TrustConstants
       /\ Ingress!ReplayConstants /\ Ingress!IngressConstants

Init ==
    /\ part \in {"queue", "again", "memory", "durable", "process", "recovery", "ingress"}
    /\ Queue!Init /\ InMemory!Init /\ Process!Init /\ Ingress!Init
    /\ part \notin {"queue", "again"} => subs = [i \in {i1} |-> "none"]
    /\ part \notin {"process", "recovery"} => served.seq = 1

Next ==
    \/ /\ \/ part = "queue" /\ Queue!Next
          \/ part = "again" /\ Again!Next /\ frame' # k2
       /\ UNCHANGED <<part, listener, trust, ingress>>
    \/ /\ \/ part = "memory" /\ InMemory!Next
          \/ part = "durable" /\ ToQueue!Next
       /\ UNCHANGED <<part, queue, trust, ingress>>
    \/ /\ \/ part = "process" /\ Process!Next
          \/ part = "recovery" /\ Recovery!Next
       /\ UNCHANGED <<part, queue, listener, ingress>>
    \/ /\ part = "ingress" /\ Ingress!Next
       /\ UNCHANGED <<part, queue, listener, trust>>

Spec == Init /\ [][Next]_vars

-----------------------------------------------------------------------------
(* Each property assumes the fairness that the module of its component     *)
(* states, and that only; the other components stay where they start.      *)

\* Every admitted envelope is closed in the end, although workers lose their
\* leases, die in their last attempt, or meet an envelope they cannot process
\* (FinishNotificationEnvelope, Maintain).
AdmittedIsClosed ==
    /\ (part = "queue" /\ Queue!Fairness) => Queue!AdmittedIsClosed
    /\ (part = "again" /\ Again!Fairness) => Again!AdmittedIsClosed

\* What the stream hands over is finished or the listener context ends, and a
\* cancelled listener winds down: no goroutine stays blocked on the channel, the
\* mutex or a backoff (startEnvelopeWorkers, failClosed, Stop).
ListenerWindsDown ==
    /\ InMemory!Fairness => InMemory!ReceivedIsFinished /\ InMemory!CancelledWindsDown
    /\ ToQueue!Fairness => ToQueue!CancelledWindsDown

\* A doubt that arose in memory reaches the row, CloseContext returns, and only
\* when all is settled, and after an outage there is a usable snapshot again; a
\* ready probe does not answer for a snapshot in doubt (runLatchRetry,
\* CloseContext, Ready, refresh).
TrustSettles ==
    /\ []Process!ClosedIsSettled
    /\ Process!ReadyNotInDoubt
    /\ Process!Fairness => Process!DoubtBecomesDurable /\ Process!CloseCompletes
    /\ Recovery!RefreshFairness => Recovery!TrustRecovers

\* Every artifact request that arrived is answered, unless its replica died
\* (ServeHTTP of the ingress under its deadline).
RequestsEnd == Ingress!Fairness => Ingress!RequestsEnd
=============================================================================
