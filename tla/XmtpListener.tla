---------------------------- MODULE XmtpListener ----------------------------
(***************************************************************************)
(* The life of one XMTP listener (v3 or v4) around its stream: the receive *)
(* goroutine with its reconnects, the bounded channel and the envelope     *)
(* workers of the in-memory path, the durable path's admission, readiness, *)
(* failClosed, and Stop, which the receive goroutine and the server may    *)
(* both run.                                                               *)
(***************************************************************************)
EXTENDS Naturals, Sequences, FiniteSets, SequencesExt

CONSTANTS
    Envelopes,   \* envelopes the network sends, each once
    BatchSize,   \* envelopes of one Recv: 1 for v3, more for v4
    Workers,     \* envelope worker goroutines
    ChanCap,     \* capacity of the envelope channel
    Durable      \* SetNotificationQueue was called

ListenerAssumption ==
    /\ BatchSize \in Nat \ {0}
    /\ ChanCap \in Nat \ {0}
    /\ Durable \in BOOLEAN

VARIABLES
    live,       \* the listener context is not cancelled
    pc,         \* the receive goroutine
    batch,      \* received envelopes it has not handed on
    ready,      \* l.ready
    unsafe,     \* l.processingUnsafe, and l.failed is closed
    processing, \* l.processing
    admission,  \* l.admissionReady
    health,     \* durableWorkerHealth: a flag per worker and for "maintenance"
    channel,    \* the envelope channel
    closed,     \* ... is closed
    worker,     \* worker[w]: pc, envelope, degraded
    conn,       \* the gRPC connection is open
    connMu,     \* who holds connMu
    stop,       \* stop[t]: how far thread t is in Stop
    handed,     \* envelopes received so far
    finished    \* envelopes processed, or made durable

vars == <<live, pc, batch, ready, unsafe, processing, admission, health, channel, closed,
          worker, conn, connMu, stop, handed, finished>>

Stoppers == {"server", "receiver"}
Resting == [pc |-> "idle", env |-> "none", degraded |-> FALSE]

Init ==
    /\ live = TRUE /\ pc = "dial" /\ batch = <<>>
    /\ ready = FALSE /\ unsafe = FALSE /\ processing = 0 /\ admission = Durable
    /\ health = [t \in Workers \cup {"maintenance"} |-> FALSE]
    /\ channel = <<>> /\ closed = FALSE
    /\ worker = [w \in Workers |-> Resting]
    /\ conn = TRUE /\ connMu = "free"
    /\ stop = [t \in Stoppers |-> "idle"]
    /\ handed = {} /\ finished = {}

Ready ==
    /\ ready /\ processing = 0 /\ ~unsafe
    /\ Durable => admission /\ \A t \in DOMAIN health : health[t]

FailClosed == unsafe' = TRUE /\ ready' = FALSE /\ live' = FALSE

-----------------------------------------------------------------------------
(* The receive goroutine.                                                  *)

\* Subscribe; on failure wait and dial again with a fresh client.
Dial(ok) ==
    /\ pc = "dial"
    /\ pc' = IF ~live THEN "exit" ELSE IF ok THEN "subscribed" ELSE "backoff"
    /\ UNCHANGED <<live, batch, ready, unsafe, processing, admission, health, channel, closed,
                   worker, conn, connMu, stop, handed, finished>>

\* Readiness is stored after the subscription succeeded; the context may have
\* been cancelled in between.
SetReady ==
    /\ pc = "subscribed"
    /\ ready' = TRUE
    /\ pc' = "recv"
    /\ UNCHANGED <<live, batch, unsafe, processing, admission, health, channel, closed,
                   worker, conn, connMu, stop, handed, finished>>

\* waitForReconnect, after which an error asks for a fresh client.
Backoff ==
    /\ pc \in {"backoff", "eof"}
    /\ pc' = IF ~live THEN "exit" ELSE IF pc = "eof" THEN "dial" ELSE "refresh"
    /\ UNCHANGED <<live, batch, ready, unsafe, processing, admission, health, channel, closed,
                   worker, conn, connMu, stop, handed, finished>>

\* refreshClient gives up if the context is cancelled, otherwise closes the
\* connection and dials another, holding connMu.
RefreshBegin ==
    /\ pc = "refresh" /\ connMu = "free"
    /\ IF live
       THEN pc' = "dialing" /\ conn' = FALSE /\ connMu' = "receiver"
       ELSE pc' = "dial" /\ UNCHANGED <<conn, connMu>>
    /\ UNCHANGED <<live, batch, ready, unsafe, processing, admission, health, channel, closed,
                   worker, stop, handed, finished>>

RefreshEnd(ok) ==
    /\ pc = "dialing"
    /\ conn' = ok /\ connMu' = "free" /\ pc' = "dial"
    /\ UNCHANGED <<live, batch, ready, unsafe, processing, admission, health, channel, closed,
                   worker, stop, handed, finished>>

\* Recv: readiness drops at the stream failure, before any backoff.
RecvFails(failure) ==
    /\ pc = "recv" /\ live
    /\ ready' = FALSE
    /\ pc' = failure
    /\ UNCHANGED <<live, batch, unsafe, processing, admission, health, channel, closed,
                   worker, conn, connMu, stop, handed, finished>>

RecvCancelled ==
    /\ pc = "recv" /\ ~live
    /\ ready' = FALSE /\ pc' = "exit"
    /\ UNCHANGED <<live, batch, unsafe, processing, admission, health, channel, closed,
                   worker, conn, connMu, stop, handed, finished>>

Recv(S) ==
    /\ pc = "recv"
    /\ S \subseteq Envelopes \ handed /\ Cardinality(S) \in 1..BatchSize
    /\ batch' = SetToSeq(S)
    /\ handed' = handed \cup S
    /\ pc' = "push"
    /\ UNCHANGED <<live, ready, unsafe, processing, admission, health, channel, closed,
                   worker, conn, connMu, stop, finished>>

\* In memory: the select between a free place in the channel and Done.
Push ==
    /\ pc = "push" /\ ~Durable /\ batch # <<>> /\ Len(channel) < ChanCap
    /\ channel' = Append(channel, Head(batch))
    /\ batch' = Tail(batch)
    /\ UNCHANGED <<live, pc, ready, unsafe, processing, admission, health, closed, worker,
                   conn, connMu, stop, handed, finished>>

\* Durable: a frame is skipped, stored, or kept while lookups or Enqueue fail.
Admit(ok) ==
    /\ pc = "push" /\ Durable /\ batch # <<>> /\ live
    /\ admission' = ok
    /\ IF ok THEN batch' = Tail(batch) /\ finished' = finished \cup {Head(batch)}
       ELSE UNCHANGED <<batch, finished>>
    /\ UNCHANGED <<live, pc, ready, unsafe, processing, health, channel, closed, worker,
                   conn, connMu, stop, handed>>

\* Mutant: the push into the channel does not watch the context.
PushNotCancelled == FALSE

PushCancelled ==
    /\ pc = "push" /\ batch # <<>> /\ ~live
    /\ ready' = FALSE /\ pc' = "exit"
    /\ UNCHANGED <<live, batch, unsafe, processing, admission, health, channel, closed, worker,
                   conn, connMu, stop, handed, finished>>

Pushed ==
    /\ pc = "push" /\ batch = <<>>
    /\ pc' = "recv"
    /\ UNCHANGED <<live, batch, ready, unsafe, processing, admission, health, channel, closed,
                   worker, conn, connMu, stop, handed, finished>>

\* The deferred close of the channel, then the deferred Stop.
Leave ==
    /\ pc = "exit"
    /\ closed' = TRUE /\ pc' = "left"
    /\ stop' = [stop EXCEPT !["receiver"] = "begin"]
    /\ UNCHANGED <<live, batch, ready, unsafe, processing, admission, health, channel,
                   worker, conn, connMu, handed, finished>>

\* A panic of the receive goroutine: its deferred calls run, then failClosed.
ReceiverPanics ==
    /\ pc \in {"recv", "push"}
    /\ ready' = FALSE /\ closed' = TRUE /\ pc' = "panicked"
    /\ stop' = [stop EXCEPT !["receiver"] = "begin"]
    /\ UNCHANGED <<live, batch, unsafe, processing, admission, health, channel, worker, conn,
                   connMu, handed, finished>>

ReceiverRecovers ==
    /\ pc = "panicked" /\ stop["receiver"] = "done"
    /\ FailClosed
    /\ pc' = "left"
    /\ UNCHANGED <<batch, processing, admission, health, channel, closed, worker, conn, connMu,
                   stop, handed, finished>>

-----------------------------------------------------------------------------
(* Stop.                                                                   *)

StopBegin ==
    /\ stop["server"] = "idle"
    /\ stop' = [stop EXCEPT !["server"] = "begin"]
    /\ UNCHANGED <<live, pc, batch, ready, unsafe, processing, admission, health, channel, closed,
                   worker, conn, connMu, handed, finished>>

StopCancel(t) ==
    /\ stop[t] = "begin"
    /\ ready' = FALSE /\ live' = FALSE
    /\ stop' = [stop EXCEPT ![t] = "cancelled"]
    /\ UNCHANGED <<pc, batch, unsafe, processing, admission, health, channel, closed,
                   worker, conn, connMu, handed, finished>>

\* Mutant: Stop closes the connection without connMu.
StopCloseUnlocked(t) ==
    /\ stop[t] = "cancelled"
    /\ conn' = FALSE
    /\ stop' = [stop EXCEPT ![t] = "done"]
    /\ UNCHANGED <<live, pc, batch, ready, unsafe, processing, admission, health, channel, closed,
                   worker, connMu, handed, finished>>

StopClose(t) ==
    /\ stop[t] = "cancelled" /\ connMu = "free"
    /\ conn' = FALSE
    /\ stop' = [stop EXCEPT ![t] = "done"]
    /\ UNCHANGED <<live, pc, batch, ready, unsafe, processing, admission, health, channel, closed,
                   worker, connMu, handed, finished>>

-----------------------------------------------------------------------------
(* The in-memory envelope workers.                                         *)

WorkerUnchanged == <<pc, batch, admission, health, closed, conn, connMu, stop, handed>>

Take(w) ==
    /\ ~Durable /\ worker[w].pc = "idle" /\ channel # <<>>
    /\ worker' = [worker EXCEPT ![w] = [pc |-> "busy", env |-> Head(channel), degraded |-> FALSE]]
    /\ channel' = Tail(channel)
    /\ UNCHANGED <<live, ready, unsafe, processing, finished, WorkerUnchanged>>

\* The channel is closed and drained: fail closed unless the listener stops.
Drained(w) ==
    /\ ~Durable /\ worker[w].pc = "idle" /\ channel = <<>> /\ closed
    /\ worker' = [worker EXCEPT ![w].pc = "gone"]
    /\ IF live THEN FailClosed ELSE UNCHANGED <<live, ready, unsafe>>
    /\ UNCHANGED <<processing, channel, finished, WorkerUnchanged>>

Undegraded(w) == processing - (IF worker[w].degraded THEN 1 ELSE 0)

ProcessOK(w) ==
    /\ ~Durable /\ worker[w].pc = "busy"
    /\ finished' = finished \cup {worker[w].env}
    /\ processing' = Undegraded(w)
    /\ worker' = [worker EXCEPT ![w] = Resting]
    /\ UNCHANGED <<live, ready, unsafe, channel, WorkerUnchanged>>

\* A failed attempt: the first one degrades the listener, and the envelope is
\* tried again until the retry window closes.
ProcessFails(w) ==
    /\ ~Durable /\ worker[w].pc = "busy" /\ ~worker[w].degraded
    /\ worker' = [worker EXCEPT ![w].degraded = TRUE]
    /\ processing' = processing + 1
    /\ UNCHANGED <<live, ready, unsafe, channel, finished, WorkerUnchanged>>

\* The window closed, or the context was cancelled: the envelope no longer counts
\* as degraded, and the worker has yet to end.
GiveUp(w) ==
    /\ ~Durable /\ worker[w].pc = "busy" /\ worker[w].degraded
    /\ processing' = Undegraded(w)
    /\ worker' = [worker EXCEPT ![w].pc = "quit", ![w].degraded = FALSE]
    /\ UNCHANGED <<live, ready, unsafe, channel, finished, WorkerUnchanged>>

\* A panic unwinds the worker; the degraded count is not taken back.
WorkerPanics(w) ==
    /\ ~Durable /\ worker[w].pc = "busy"
    /\ worker' = [worker EXCEPT ![w].pc = "panicked"]
    /\ UNCHANGED <<live, ready, unsafe, processing, channel, finished, WorkerUnchanged>>

\* The worker ends and drops its envelope.  It fails the listener closed, after
\* giving up unless the listener stops, after a panic in any case
\* (runListenerGoroutine).
EndWorker(w) ==
    /\ worker[w].pc \in {"quit", "panicked"}
    /\ worker' = [worker EXCEPT ![w] = [Resting EXCEPT !.pc = "gone"]]
    /\ IF live \/ worker[w].pc = "panicked"
       THEN FailClosed ELSE UNCHANGED <<live, ready, unsafe>>
    /\ UNCHANGED <<processing, channel, finished, WorkerUnchanged>>

-----------------------------------------------------------------------------
(* The durable workers and maintenance, as far as readiness and the        *)
(* shutdown see them; NotificationQueue models what they do to the queue.  *)

DurableUnchanged ==
    <<pc, batch, processing, admission, channel, closed, conn, connMu, stop, handed, finished>>

\* Claim succeeds, with or without an envelope, or fails.
DurableClaim(w, ok, env) ==
    /\ Durable /\ live /\ worker[w].pc = "idle"
    /\ env => ok
    /\ health' = [health EXCEPT ![w] = ok]
    /\ worker' = [worker EXCEPT ![w].pc = IF env THEN "busy" ELSE "idle"]
    /\ UNCHANGED <<live, ready, unsafe, DurableUnchanged>>

\* The attempt ends: a lost lease or a failed Finish takes the flag away.
DurableDone(w, ok) ==
    /\ Durable /\ worker[w].pc = "busy"
    /\ health' = [health EXCEPT ![w] = @ /\ ok]
    /\ worker' = [worker EXCEPT ![w].pc = "idle"]
    /\ UNCHANGED <<live, ready, unsafe, DurableUnchanged>>

DurablePanics(w) ==
    /\ Durable /\ worker[w].pc = "busy"
    /\ health' = [health EXCEPT ![w] = FALSE]
    /\ worker' = [worker EXCEPT ![w].pc = "gone"]
    /\ FailClosed
    /\ UNCHANGED DurableUnchanged

DurableLeaves(w) ==
    /\ Durable /\ ~live /\ worker[w].pc = "idle"
    /\ health' = [health EXCEPT ![w] = FALSE]
    /\ worker' = [worker EXCEPT ![w].pc = "gone"]
    /\ UNCHANGED <<live, ready, unsafe, DurableUnchanged>>

Maintenance(ok) ==
    /\ Durable
    /\ health' = [health EXCEPT !["maintenance"] = live /\ ok]
    /\ UNCHANGED <<live, ready, unsafe, worker, DurableUnchanged>>

-----------------------------------------------------------------------------
Receiver ==
    \/ \E ok \in BOOLEAN : Dial(ok) \/ RefreshEnd(ok) \/ Admit(ok)
    \/ SetReady \/ Backoff \/ RefreshBegin
    \/ \E failure \in {"backoff", "eof"} : RecvFails(failure)
    \/ RecvCancelled \/ Push \/ PushCancelled \/ Pushed \/ Leave

WorkerStep(w) ==
    \/ Take(w) \/ Drained(w) \/ ProcessOK(w) \/ ProcessFails(w) \/ GiveUp(w) \/ EndWorker(w)
    \/ \E ok, env \in BOOLEAN : DurableClaim(w, ok, env)
    \/ \E ok \in BOOLEAN : DurableDone(w, ok)
    \/ DurableLeaves(w)

Next ==
    \/ Receiver
    \/ \E S \in SUBSET Envelopes : Recv(S)
    \/ ReceiverPanics \/ ReceiverRecovers
    \/ StopBegin
    \/ \E t \in Stoppers : StopCancel(t) \/ StopClose(t)
    \/ \E w \in Workers : WorkerStep(w) \/ WorkerPanics(w) \/ DurablePanics(w)
    \/ \E ok \in BOOLEAN : Maintenance(ok)

Spec == Init /\ [][Next]_vars

\* Goroutines are scheduled, and every wait ends by a timer or with the context:
\* an envelope being tried succeeds or its retry window closes.  Nothing is
\* assumed of what the network, the database or the providers answer.
Fairness ==
    /\ WF_vars(Receiver) /\ WF_vars(ReceiverRecovers)
    /\ \A t \in Stoppers : WF_vars(StopCancel(t)) /\ WF_vars(StopClose(t))
    /\ \A w \in Workers : WF_vars(Take(w)) /\ WF_vars(Drained(w))
                          /\ WF_vars(ProcessOK(w) \/ GiveUp(w)) /\ WF_vars(EndWorker(w))
                          /\ WF_vars(\E ok \in BOOLEAN : DurableDone(w, ok))
                          /\ WF_vars(DurableLeaves(w))

FairSpec == Spec /\ Fairness

-----------------------------------------------------------------------------
(* Properties.                                                             *)

TypeOK ==
    /\ {live, ready, unsafe, admission, closed, conn} \subseteq BOOLEAN
    /\ pc \in {"dial", "subscribed", "backoff", "eof", "refresh", "dialing", "recv",
               "push", "exit", "panicked", "left"}
    /\ Len(channel) <= ChanCap /\ Len(batch) <= BatchSize
    /\ processing \in 0..Cardinality(Workers)
    /\ \A w \in Workers : worker[w].pc \in {"idle", "busy", "quit", "panicked", "gone"}
    /\ stop \in [Stoppers -> {"idle", "begin", "cancelled", "done"}]
    /\ finished \subseteq handed /\ handed \subseteq Envelopes

\* A listener that reports ready is consuming its stream, has not failed closed,
\* and none of its workers is trying an envelope again; also when Stop or
\* failClosed races with a subscription that just succeeded.  A ready listener
\* that is not stopping has all its workers: one that gave its envelope up is at
\* most about to fail it closed ("quit"), the window in which readiness is early.
ReadyIsHonest ==
    Ready => /\ pc \in {"recv", "push"}
             /\ ~unsafe
             /\ \A w \in Workers : ~worker[w].degraded
             /\ live => \A w \in Workers : worker[w].pc # "gone"

InHand == ToSet(batch) \cup ToSet(channel) \cup {worker[w].env : w \in Workers}

\* A received envelope is processed, made durable, or still held somewhere, or
\* else the listener context is cancelled: the worker that gave one up does not
\* end without cancelling it (startEnvelopeWorkers, failClosed).
NoSilentLoss == live => handed \subseteq finished \cup InHand

\* Once Stop has returned and the receive goroutine has ended no connection is
\* open, although a reconnect may have been dialling while Stop ran (connMu).
StopLeavesNoConnection ==
    (pc = "left" /\ \E t \in Stoppers : stop[t] = "done") => ~conn

\* What the stream hands over is finished, or the listener context ends.
ReceivedIsFinished == []<>(handed \subseteq finished \/ ~live)

\* A cancelled listener winds down: its receive goroutine leaves and its workers
\* end, none of them blocked on the channel, the mutex or a backoff.
CancelledWindsDown ==
    []<>(live \/ (pc = "left" /\ \A w \in Workers : worker[w].pc = "gone"))
=============================================================================
