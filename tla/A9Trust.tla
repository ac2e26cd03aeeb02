------------------------------- MODULE A9Trust -------------------------------
(***************************************************************************)
(* The A9 trust manager of every replica (pkg/a9trust/manager.go), the     *)
(* keyset row they share (pkg/db/a9_store.go) and the worker that keeps    *)
(* the keyset fresh (cmd/server/a9_runtime.go).                            *)
(*                                                                         *)
(* A keyset is a sequence number and a version; two versions of a number   *)
(* are two different signed objects, so the version stands for the hash,   *)
(* and for the expiry the hash covers.  There is no clock.  An object is   *)
(* "valid", then "closing" (within 30 s of its expiry), then "expired"; a  *)
(* replica's snapshot is "fresh", then "due" (the worker wakes 30 s before *)
(* nextRefresh), then "late" (nextRefresh, which is never after closing).  *)
(*                                                                         *)
(* The locks are the code's: an operation holds lifecycle for reading, and *)
(* all but Ready hold trustMu across their HTTP and database calls; Close  *)
(* takes lifecycle for writing, which makes later readers wait.  A         *)
(* database transaction is one step and may fail, which changes nothing.   *)
(***************************************************************************)
EXTENDS Integers, FiniteSets

CONSTANTS
    Replicas,
    Objects,  \* the signed keysets: a sequence and a version
    Events,   \* the events of the environment that a run allows
    None

TrustConstants ==
    /\ \A o \in Objects : o.seq \in Nat \ {0}
    /\ Events \subseteq {"invalid", "rotation", "artifact", "lease", "ready", "crash",
                         "close", "restore", "age"}

VARIABLES
    row,        \* a9_keyset_state: the object and the uncertainty latch
    rows,       \* earlier values of row, what a restored backup may hold
    served,     \* the object the keyset endpoint serves
    life,       \* of every object: valid, closing, expired
    snap,       \* of every replica: the snapshot and its phase, or None
    hard,       \* hardUncertain
    durable,    \* hardDurable
    closed,
    mu,         \* the holder of trustMu
    refresher,  \* the refresh worker
    caller,     \* one request: Verifier, a topic-binding lease, an artifact verdict
    prober,     \* one readiness probe
    latcher,    \* runLatchRetry
    wake,       \* latchWake, a channel that holds one token
    closer      \* CloseContext

manager == <<snap, hard, durable, closed>>
store == <<row, rows>>
origin == <<served, life>>
actors == <<refresher, caller, prober, latcher, wake, closer>>
vars == <<store, origin, manager, mu, actors>>

Rows == [obj : Objects \cup {None}, uncertain : BOOLEAN]
NoRow == [obj |-> None, uncertain |-> FALSE]

RefresherPC == {"boot", "check", "sleep", "fetch", "accept", "apply", "latch", "retry", "stopped"}
Idle == [pc |-> "idle", kind |-> "none", obj |-> None, seen |-> NoRow, read |-> NoRow]
Rest == [pc |-> "check", obj |-> None, answer |-> NoRow, same |-> FALSE]
Boot == [Rest EXCEPT !.pc = "boot"]

TypeOK ==
    /\ row \in Rows /\ rows \subseteq Rows
    /\ served \in Objects
    /\ life \in [Objects -> {"valid", "closing", "expired"}]
    /\ snap \in [Replicas -> [obj : Objects, phase : {"fresh", "due", "late"}] \cup {None}]
    /\ {hard, durable, closed, wake} \subseteq [Replicas -> BOOLEAN]
    /\ mu \in [Replicas -> {"free", "refresher", "caller", "latcher", "closer"}]
    /\ refresher \in [Replicas -> [pc : RefresherPC, obj : Objects \cup {None},
                                   answer : Rows, same : BOOLEAN]]
    /\ {caller, prober} \subseteq
         [Replicas -> [pc : {"idle", "read", "latch", "granted"},
                       kind : {"none", "verify", "lease", "artifact", "ready"},
                       obj : Objects \cup {None}, seen : Rows, read : Rows]]
    /\ latcher \in [Replicas -> {"idle", "try", "wait", "done"}]
    /\ closer \in [Replicas -> {"open", "lock", "latch", "stop", "pending", "done"}]

Usable(s) == s # None /\ s.phase # "late"
Pending(r) == hard[r] /\ ~durable[r]

-----------------------------------------------------------------------------
(* The locks                                                                 *)

Readers(r) ==
    {x \in {"refresher", "caller", "prober"} :
        \/ x = "refresher" /\ refresher[r].pc \in {"fetch", "accept", "apply", "latch"}
        \/ x = "caller" /\ caller[r].pc # "idle"
        \/ x = "prober" /\ prober[r].pc # "idle"}

\* A writer that waits for lifecycle makes new readers wait; a closed manager
\* turns them away.
beginOperation(r) == ~closed[r] /\ closer[r] = "open"

Lock(r, x) == mu[r] = "free" /\ mu' = [mu EXCEPT ![r] = x]
Unlock(r) == mu' = [mu EXCEPT ![r] = "free"]

-----------------------------------------------------------------------------
(* The store                                                                 *)

Write(new) ==
    row' = new /\ rows' = IF "restore" \in Events THEN rows \cup {row} ELSE rows

\* Mutant: whatever keyset comes is accepted.
AcceptedAlways(c, legal) == IF row.uncertain THEN row ELSE [obj |-> c, uncertain |-> FALSE]

\* The row a transaction that accepts c leaves behind, given that the rotation
\* from the accepted keyset to c is or is not legal.
acceptKeysetOnce(c, legal) ==
    CASE row.uncertain -> row
      [] row.obj = None -> [obj |-> c, uncertain |-> FALSE]
      [] c = row.obj -> row
      [] c.seq > row.obj.seq /\ legal -> [obj |-> c, uncertain |-> FALSE]
      [] OTHER -> [row EXCEPT !.uncertain = TRUE]

\* LatchKeysetUncertainty: the first latch wins, a later one writes nothing.
LatchKeysetUncertainty(r) ==
    /\ durable' = [durable EXCEPT ![r] = TRUE]
    /\ IF row.uncertain THEN UNCHANGED <<row, rows>> ELSE Write([row EXCEPT !.uncertain = TRUE])

\* markHardUncertainty: a latch that is not durable wakes the retry worker.
markHardUncertainty(r, isDurable) ==
    /\ hard' = [hard EXCEPT ![r] = TRUE]
    /\ durable' = [durable EXCEPT ![r] = @ \/ isDurable]
    /\ wake' = [wake EXCEPT ![r] = @ \/ ~durable'[r]]

\* ensureDurableLatch: the call of LatchKeysetUncertainty, unless it is done.
ensureDurableLatch(r) ==
    \/ ~Pending(r) /\ UNCHANGED <<durable, store>>
    \/ Pending(r) /\ LatchKeysetUncertainty(r)
    \/ Pending(r) /\ UNCHANGED <<durable, store>>

-----------------------------------------------------------------------------
(* The refresh worker                                                        *)

Refresher(r, pc) == refresher' = [refresher EXCEPT ![r].pc = pc]

\* The worker stops and cancels the process, which will close the manager.
Cancelled(r) == refresher[r].pc = "stopped"

NextRefresh(r) ==
    /\ refresher[r].pc = "check"
    /\ beginOperation(r)
    /\ Refresher(r, IF hard[r] \/ snap[r] = None THEN "stopped" ELSE "sleep")
    /\ UNCHANGED <<store, origin, manager, mu, caller, prober, latcher, wake, closer>>

\* Refresh begins: it wakes at the lead time, or, after a refresh that did not move
\* the deadline, at the deadline itself.
BeginRefresh(r) ==
    /\ \/ refresher[r].pc = "boot"
       \/ /\ refresher[r].pc = "sleep"
          /\ snap[r].phase \in (IF refresher[r].same THEN {"late"} ELSE {"due", "late"})
    /\ beginOperation(r)
    /\ Lock(r, "refresher")
    /\ Refresher(r, IF hard[r] THEN "latch" ELSE "fetch")
    /\ UNCHANGED <<store, origin, manager, caller, prober, latcher, wake, closer>>

\* After a refresh that failed the worker retries, as long as there is a snapshot:
\* one that is late can be replaced, and is not used meanwhile.
Failed(r) == Refresher(r, IF snap[r] = None THEN "stopped" ELSE "retry")

FetchFailed(r) ==
    /\ refresher[r].pc = "fetch"
    /\ Unlock(r)
    /\ Failed(r)
    /\ UNCHANGED <<store, origin, manager, caller, prober, latcher, wake, closer>>

\* The object is invalid in itself, or for this moment: KEY_STATE.
FetchInvalid(r) ==
    /\ refresher[r].pc = "fetch"
    /\ "invalid" \in Events \/ life[served] = "expired"
    /\ markHardUncertainty(r, FALSE)
    /\ Refresher(r, "latch")
    /\ UNCHANGED <<store, origin, snap, closed, mu, caller, prober, latcher, closer>>

Fetch(r) ==
    /\ refresher[r].pc = "fetch"
    /\ life[served] # "expired"
    /\ refresher' = [refresher EXCEPT ![r].pc = "accept", ![r].obj = served]
    /\ UNCHANGED <<store, origin, manager, mu, caller, prober, latcher, wake, closer>>

\* AcceptKeyset commits, on its first attempt or after serialization failures.
AcceptKeyset(r) ==
    /\ refresher[r].pc = "accept"
    /\ \E legal \in (IF "rotation" \in Events THEN BOOLEAN ELSE {TRUE}) :
        LET new == acceptKeysetOnce(refresher[r].obj, legal) IN
        /\ IF new = row THEN UNCHANGED store ELSE Write(new)
        /\ refresher' = [refresher EXCEPT ![r].pc = "apply", ![r].answer = new]
    /\ UNCHANGED <<origin, manager, mu, caller, prober, latcher, wake, closer>>

AcceptUnavailable(r) ==
    /\ refresher[r].pc = "accept"
    /\ Unlock(r)
    /\ Failed(r)
    /\ UNCHANGED <<store, origin, manager, caller, prober, latcher, wake, closer>>

\* The phase of a snapshot of o taken now, and whether its deadline is the old one:
\* six hours from now, or the start of o's closing, or now if that has passed.
NewPhases(o) == IF life[o] = "valid" THEN {"fresh", "due"} ELSE {"late"}

SameDeadline(r, o, phase) ==
    snap[r] # None /\ snap[r].obj = o /\ snap[r].phase = "due" /\ phase = "due"

\* The answer of AcceptKeyset is taken over: a rejection is durable already.
ApplyAccepted(r) ==
    /\ refresher[r].pc = "apply"
    /\ LET c == refresher[r].obj
           answer == refresher[r].answer IN
       IF answer.uncertain \/ answer.obj # c
       THEN /\ markHardUncertainty(r, TRUE)
            /\ Refresher(r, "stopped")
            /\ UNCHANGED snap
       ELSE \E phase \in NewPhases(c) :
            /\ snap' = [snap EXCEPT ![r] = [obj |-> c, phase |-> phase]]
            /\ refresher' = [refresher EXCEPT
                 ![r] = [Rest EXCEPT !.pc = IF phase = "late" THEN "retry" ELSE "check",
                                     !.same = SameDeadline(r, c, phase)]]
            /\ UNCHANGED <<hard, durable, wake>>
    /\ Unlock(r)
    /\ UNCHANGED <<store, origin, closed, caller, prober, latcher, closer>>

RefreshLatch(r) ==
    /\ refresher[r].pc = "latch"
    /\ ensureDurableLatch(r)
    /\ Unlock(r)
    /\ Refresher(r, "stopped")
    /\ UNCHANGED <<origin, snap, hard, closed, caller, prober, latcher, wake, closer>>

RetryRefresh(r) ==
    /\ refresher[r].pc = "retry"
    /\ refresher' = [refresher EXCEPT ![r] = Rest]
    /\ UNCHANGED <<store, origin, manager, mu, caller, prober, latcher, wake, closer>>

-----------------------------------------------------------------------------
(* Requests                                                                  *)

Begin(kind, s) == [Idle EXCEPT !.pc = "read", !.kind = kind, !.seen = row,
                               !.obj = IF s = None THEN None ELSE s.obj]

\* Verifier and acquireTopicBindingLease up to the read of the row: a process in
\* doubt makes its latch durable, a snapshot that is late is not used.
BeginCurrent(r, kind) ==
    /\ caller[r] = Idle
    /\ beginOperation(r)
    /\ hard[r] \/ Usable(snap[r])
    /\ Lock(r, "caller")
    /\ caller' = [caller EXCEPT ![r] = [Begin(kind, snap[r]) EXCEPT
                                          !.pc = IF hard[r] THEN "latch" ELSE "read"]]
    /\ UNCHANGED <<store, origin, manager, refresher, prober, latcher, wake, closer>>

\* LatchArtifactUncertainty: a signed artifact names a key the keyset lacks.
BeginArtifact(r) ==
    /\ "artifact" \in Events
    /\ caller[r] = Idle
    /\ beginOperation(r)
    /\ Lock(r, "caller")
    /\ markHardUncertainty(r, FALSE)
    /\ caller' = [caller EXCEPT ![r] = [Begin("artifact", None) EXCEPT !.pc = "latch"]]
    /\ UNCHANGED <<store, origin, snap, closed, refresher, prober, latcher, closer>>

EndCall(r) == caller' = [caller EXCEPT ![r] = Idle] /\ Unlock(r)

CallUnavailable(r) ==
    /\ caller[r].pc = "read"
    /\ EndCall(r)
    /\ UNCHANGED <<store, origin, manager, refresher, prober, latcher, wake, closer>>

Behind(c) == row.obj.seq < c.seq \/ (row.obj.seq = c.seq /\ row.obj # c)

\* currentCandidate joins the snapshot to the row: in doubt, lost, behind the snapshot
\* (the row was rolled back), ahead of it (another replica is), or the same.
currentCandidate(r) ==
    LET c == caller[r].obj IN
    /\ caller[r].pc = "read"
    /\ CASE row.uncertain ->
              markHardUncertainty(r, TRUE) /\ EndCall(r)
         [] row = NoRow ->
              EndCall(r) /\ UNCHANGED <<hard, durable, wake>>
         [] ~row.uncertain /\ row # NoRow /\ Behind(c) ->
              /\ markHardUncertainty(r, FALSE)
              /\ caller' = [caller EXCEPT ![r].pc = "latch"]
              /\ UNCHANGED mu
         [] ~row.uncertain /\ row # NoRow /\ row.obj.seq > c.seq ->
              EndCall(r) /\ UNCHANGED <<hard, durable, wake>>
         [] OTHER ->
              /\ caller' = [caller EXCEPT ![r].pc = "granted", ![r].read = row]
              /\ UNCHANGED <<mu, hard, durable, wake>>
    /\ UNCHANGED <<store, origin, snap, closed, refresher, prober, latcher, closer>>

CallLatch(r) ==
    /\ caller[r].pc = "latch"
    /\ ensureDurableLatch(r)
    /\ EndCall(r)
    /\ UNCHANGED <<origin, snap, hard, closed, refresher, prober, latcher, wake, closer>>

\* Verifier returns the keyset; the lease is closed.
Release(r) ==
    /\ caller[r].pc = "granted"
    /\ EndCall(r)
    /\ UNCHANGED <<store, origin, manager, refresher, prober, latcher, wake, closer>>

-----------------------------------------------------------------------------
(* Ready, which does not take trustMu                                        *)

BeginReady(r) ==
    /\ "ready" \in Events
    /\ prober[r] = Idle
    /\ beginOperation(r)
    /\ ~hard[r] /\ Usable(snap[r])
    /\ prober' = [prober EXCEPT ![r] = Begin("ready", snap[r])]
    /\ UNCHANGED <<store, origin, manager, mu, refresher, caller, latcher, wake, closer>>

ReadyRead(r) ==
    /\ prober[r].pc = "read"
    /\ prober' = [prober EXCEPT ![r] =
         IF row = [obj |-> prober[r].obj, uncertain |-> FALSE]
         THEN [@ EXCEPT !.pc = "latch", !.read = row] ELSE Idle]
    /\ UNCHANGED <<store, origin, manager, mu, refresher, caller, latcher, wake, closer>>

\* The snapshot must be the one the probe began with, and not in doubt; the probe's
\* reading of the clock is used again, so the passing of its deadline meanwhile does
\* not show.  same: the deadline was not set anew, and the topic secret is held.
ReadyConfirm(r, same) ==
    /\ prober[r].pc = "latch"
    /\ prober' = [prober EXCEPT ![r] =
         IF ~hard[r] /\ snap[r] # None /\ snap[r].obj = prober[r].obj /\ same
         THEN [@ EXCEPT !.pc = "granted"] ELSE Idle]
    /\ UNCHANGED <<store, origin, manager, mu, refresher, caller, latcher, wake, closer>>

ReadyEnd(r) ==
    /\ prober[r].pc = "granted"
    /\ prober' = [prober EXCEPT ![r] = Idle]
    /\ UNCHANGED <<store, origin, manager, mu, refresher, caller, latcher, wake, closer>>

-----------------------------------------------------------------------------
(* runLatchRetry                                                             *)

Latcher(r, pc) == latcher' = [latcher EXCEPT ![r] = pc]

\* The token of latchWake, or, between two attempts, the timer.
LatchWake(r) ==
    /\ latcher[r] \in {"idle", "wait"}
    /\ \/ wake[r] /\ wake' = [wake EXCEPT ![r] = FALSE]
       \/ latcher[r] = "wait" /\ UNCHANGED wake
    /\ Latcher(r, "try")
    /\ UNCHANGED <<store, origin, manager, mu, refresher, caller, prober, closer>>

\* Mutant: the worker waits for a new wake-up after a failed attempt.
GiveUp(r) ==
    /\ latcher[r] = "try"
    /\ mu[r] = "free"
    /\ ensureDurableLatch(r)
    /\ Latcher(r, IF ~closed[r] THEN "idle"
                  ELSE IF hard[r] /\ ~durable'[r] THEN "wait" ELSE "done")
    /\ UNCHANGED <<origin, snap, hard, closed, mu, refresher, caller, prober, wake, closer>>

\* One attempt, under trustMu for its whole length.
LatchTry(r) ==
    /\ latcher[r] = "try"
    /\ mu[r] = "free"
    /\ ensureDurableLatch(r)
    /\ Latcher(r, IF hard[r] /\ ~durable'[r] THEN "wait"
                  ELSE IF closed[r] THEN "done" ELSE "idle")
    /\ UNCHANGED <<origin, snap, hard, closed, mu, refresher, caller, prober, wake, closer>>

\* latchStop is closed.
LatchStopped(r) ==
    /\ latcher[r] \in {"idle", "wait"}
    /\ closer[r] = "stop"
    /\ Latcher(r, "done")
    /\ UNCHANGED <<store, origin, manager, mu, refresher, caller, prober, wake, closer>>

-----------------------------------------------------------------------------
(* CloseContext and the Close it runs                                        *)

BeginClose(r) ==
    /\ closer[r] = "open"
    /\ Cancelled(r) \/ "close" \in Events
    /\ closer' = [closer EXCEPT ![r] = "lock"]
    /\ UNCHANGED <<store, origin, manager, mu, refresher, caller, prober, latcher, wake>>

\* lifecycle, once its readers are gone, then trustMu.
CloseLocked(r) ==
    /\ closer[r] = "lock"
    /\ Readers(r) = {}
    /\ Lock(r, "closer")
    /\ closer' = [closer EXCEPT ![r] = "latch"]
    /\ UNCHANGED <<store, origin, manager, refresher, caller, prober, latcher, wake>>

\* A last attempt at the latch; the snapshot and the secrets are wiped whatever
\* comes of it; a latch still pending is left to the retry worker.
Close(r) ==
    /\ closer[r] = "latch"
    /\ ensureDurableLatch(r)
    /\ snap' = [snap EXCEPT ![r] = None]
    /\ closed' = [closed EXCEPT ![r] = TRUE]
    /\ Unlock(r)
    /\ LET pending == hard[r] /\ ~durable'[r] IN
        /\ wake' = [wake EXCEPT ![r] = @ \/ pending]
        /\ closer' = [closer EXCEPT ![r] = IF pending THEN "pending" ELSE "stop"]
    /\ refresher' = [refresher EXCEPT ![r] = [Rest EXCEPT !.pc = "stopped"]]
    /\ UNCHANGED <<origin, hard, caller, prober, latcher>>

\* CloseContext returns nil: the retry worker is done.
Closed(r) ==
    /\ closer[r] \in {"stop", "pending"}
    /\ latcher[r] = "done"
    /\ closer' = [closer EXCEPT ![r] = "done"]
    /\ UNCHANGED <<store, origin, manager, mu, refresher, caller, prober, latcher, wake>>

-----------------------------------------------------------------------------
(* The environment                                                           *)

\* The publisher issues a keyset, or the endpoint serves an older or a second one.
Serve(o) ==
    /\ o # served
    /\ served' = o
    /\ UNCHANGED <<store, life, manager, mu, actors>>

\* A closing object has no snapshot left that is in time.
Age(o) ==
    /\ "age" \in Events
    /\ \/ /\ life[o] = "valid"
          /\ \A r \in Replicas : ~(Usable(snap[r]) /\ snap[r].obj = o)
          /\ life' = [life EXCEPT ![o] = "closing"]
       \/ life[o] = "closing" /\ life' = [life EXCEPT ![o] = "expired"]
    /\ UNCHANGED <<store, served, manager, mu, actors>>

\* A lease in use is bounded by the deadline as well (validUntil), so a request
\* that holds one is over, or is refused, when the snapshot is late.
Wane(r) ==
    /\ "age" \in Events
    /\ Usable(snap[r])
    /\ snap' = [snap EXCEPT ![r].phase = IF @ = "fresh" THEN "due" ELSE "late"]
    /\ UNCHANGED <<store, origin, hard, durable, closed, mu, actors>>

\* The process dies and is started again, with nothing in memory.
Crash(r) ==
    /\ "crash" \in Events
    /\ snap' = [snap EXCEPT ![r] = None]
    /\ hard' = [hard EXCEPT ![r] = FALSE]
    /\ durable' = [durable EXCEPT ![r] = FALSE]
    /\ closed' = [closed EXCEPT ![r] = FALSE]
    /\ mu' = [mu EXCEPT ![r] = "free"]
    /\ refresher' = [refresher EXCEPT ![r] = Boot]
    /\ caller' = [caller EXCEPT ![r] = Idle]
    /\ prober' = [prober EXCEPT ![r] = Idle]
    /\ latcher' = [latcher EXCEPT ![r] = "idle"]
    /\ wake' = [wake EXCEPT ![r] = FALSE]
    /\ closer' = [closer EXCEPT ![r] = "open"]
    /\ UNCHANGED <<store, origin>>

\* The database is restored from a backup.
Restore ==
    /\ "restore" \in Events
    /\ \E old \in rows : row' = old /\ rows' = rows \ {old}
    /\ UNCHANGED <<origin, manager, mu, actors>>

-----------------------------------------------------------------------------
Init ==
    /\ row = NoRow /\ rows = {}
    /\ served \in Objects
    /\ life = [o \in Objects |-> "valid"]
    /\ snap = [r \in Replicas |-> None]
    /\ hard = [r \in Replicas |-> FALSE]
    /\ durable = [r \in Replicas |-> FALSE]
    /\ closed = [r \in Replicas |-> FALSE]
    /\ mu = [r \in Replicas |-> "free"]
    /\ refresher = [r \in Replicas |-> Boot]
    /\ caller = [r \in Replicas |-> Idle]
    /\ prober = [r \in Replicas |-> Idle]
    /\ latcher = [r \in Replicas |-> "idle"]
    /\ wake = [r \in Replicas |-> FALSE]
    /\ closer = [r \in Replicas |-> "open"]

RefreshStep(r) ==
    \/ NextRefresh(r) \/ BeginRefresh(r) \/ FetchFailed(r) \/ FetchInvalid(r) \/ Fetch(r)
    \/ AcceptKeyset(r) \/ AcceptUnavailable(r) \/ ApplyAccepted(r) \/ RefreshLatch(r)
    \/ RetryRefresh(r)

CallStep(r) == CallUnavailable(r) \/ currentCandidate(r) \/ CallLatch(r) \/ Release(r)

ReadyStep(r) ==
    \/ ReadyRead(r) \/ ReadyEnd(r)
    \/ \E same \in BOOLEAN : ReadyConfirm(r, same)

LatchStep(r) == LatchWake(r) \/ LatchTry(r) \/ LatchStopped(r)

CloseStep(r) == CloseLocked(r) \/ Close(r) \/ Closed(r)

Next ==
    \/ \E r \in Replicas :
        \/ RefreshStep(r)
        \/ "lease" \in Events /\ \E kind \in {"verify", "lease"} : BeginCurrent(r, kind)
        \/ BeginArtifact(r) \/ CallStep(r)
        \/ BeginReady(r) \/ ReadyStep(r)
        \/ LatchStep(r)
        \/ BeginClose(r) \/ CloseStep(r)
        \/ Wane(r) \/ Crash(r)
    \/ \E o \in Objects : Serve(o) \/ Age(o)
    \/ Restore

Spec == Init /\ [][Next]_vars

\* Goroutines run, requests end, and a latch that is retried is written at last.
Fairness ==
    \A r \in Replicas :
        /\ WF_vars(RefreshStep(r)) /\ WF_vars(CallStep(r)) /\ WF_vars(ReadyStep(r))
        /\ WF_vars(LatchWake(r)) /\ WF_vars(LatchStopped(r))
        /\ SF_vars(LatchTry(r) /\ (hard[r] => durable'[r]))
        /\ WF_vars(BeginClose(r) /\ Cancelled(r)) /\ WF_vars(CloseStep(r))

\* A refresh gets its turn at trustMu, and its fetch and its transaction succeed
\* now and then.
RefreshFairness ==
    \A r \in Replicas :
        /\ WF_vars(RefreshStep(r))
        /\ SF_vars(Fetch(r)) /\ SF_vars(AcceptKeyset(r)) /\ SF_vars(BeginRefresh(r))

-----------------------------------------------------------------------------
(* Properties                                                                *)

Granted == {op \in UNION {{caller[r], prober[r]} : r \in Replicas} : op.pc = "granted"}

\* "exposes a verifier only when its local bytes still exactly match the durable
\* high-water state" (manager.go:170): a request is granted, and a probe confirmed,
\* only for the keyset its read of the row found, even if a restored database has
\* lost keysets the replica accepted.
GrantsMatchRow == \A op \in Granted : op.read = [obj |-> op.obj, uncertain |-> FALSE]

\* No request is granted a keyset that was in doubt, or already replaced by another
\* replica, when the request began.
GrantsNotStale ==
    \A op \in Granted :
        /\ ~op.seen.uncertain
        /\ op.seen.obj # None => op.seen.obj.seq <= op.obj.seq

\* A topic-binding lease pins its snapshot: while it is held the manager neither
\* replaces the snapshot, nor comes to doubt it, nor closes.
LeasePinsSnapshot ==
    \A r \in Replicas :
        caller[r].pc = "granted" /\ caller[r].kind = "lease" =>
            snap[r] # None /\ snap[r].obj = caller[r].obj /\ ~hard[r] /\ ~closed[r]

\* hardDurable is what stops the retries: it is set only when the row is latched,
\* by this replica, by another one, or by the transaction that rejected a keyset.
DurableIsDurable == \A r \in Replicas : durable[r] => row.uncertain

\* CloseContext: "Nil is returned only after any hard latch is durable and the
\* manager-owned retry worker has stopped" (manager.go:822).
ClosedIsSettled ==
    \A r \in Replicas :
        closer[r] = "done" =>
            /\ hard[r] => row.uncertain
            /\ latcher[r] = "done"
            /\ snap[r] = None /\ Readers(r) = {}

\* Of a step: across replicas the accepted sequence never falls, a sequence is
\* never given a second object, and no code clears the latch.
HighWater ==
    /\ row.uncertain => row'.uncertain
    /\ row.obj # None =>
         row'.obj # None /\ (row'.obj = row.obj \/ row'.obj.seq > row.obj.seq)

\* Ready answers yes only for a snapshot the process still trusts when it answers,
\* although a refresh may reject a keyset while the probe reads the database.
ReadyNotInDoubt ==
    [][\A r \in Replicas :
         prober[r].pc # "granted" /\ prober'[r].pc = "granted" => ~hard[r] /\ ~hard'[r]]_vars

\* runLatchRetry: a doubt that arose in memory reaches the row, whatever request
\* found it, whether or not the manager is closed meanwhile, if the database answers.
\* The row stays latched, so that is to say no doubt stays in memory alone.
DoubtBecomesDurable == \A r \in Replicas : []<>(hard[r] => row.uncertain)

\* Shutdown ends: requests give back trustMu and lifecycle, and the retry worker
\* stops, so CloseContext returns.
CloseCompletes == \A r \in Replicas : []<>(closer[r] \in {"open", "done"})

\* The refresh worker survives an outage: a replica that runs, with a valid keyset
\* served from some time on, always has a usable snapshot again.
TrustRecovers ==
    \A r \in Replicas :
        <>[](~hard[r] /\ closer[r] = "open" /\ refresher[r].pc # "stopped"
             /\ life[served] = "valid")
            => []<>Usable(snap[r])
=============================================================================
