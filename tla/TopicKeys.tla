------------------------------ MODULE TopicKeys ------------------------------
(***************************************************************************)
(* The TOPIC commitment secrets of a bridge (pkg/a9trust/config.go): their *)
(* retirement against two clocks, their use under a lease, and the join of *)
(* the local secrets to each keyset the manager fetches (Reconcile).       *)
(*                                                                         *)
(* Time is counted in units.  steady is the monotonic clock and is the     *)
(* true time; wall is the clock of the host, which runs with it and may be *)
(* stepped.  The unit is what the runtime may take to start a timer and to *)
(* run its callback, so a unit does not end with a callback outstanding.   *)
(*                                                                         *)
(* trustMu lets one refresh or one lease run at a time; operation is that  *)
(* one.  The TopicKeySet has a lock of its own, so each of its methods is  *)
(* one step; a timer that has fired waits for it and cannot be stopped.    *)
(* The epoch 2^32 - 1, which is never retired, is left out.                *)
(***************************************************************************)
EXTENDS Integers, FiniteSets, FiniteSetsExt

CONSTANTS
    Epochs,       \* the epochs provisioned: one, or two in a row
    Period,       \* a topic-key period (30 days)
    Overlap,      \* life of a secret after its period (60 s)
    Slack,        \* how much longer its descriptor is valid
    Validity,     \* life of a keyset (24 h)
    Recheck,      \* longest sleep of the retirement timer (1 s)
    FetchLimit,   \* longest time between a refresh's clock reading and its judgement
    Starts,       \* when the process may be started
    MaxTime,      \* bound on both clocks
    MaxSteps,     \* bound on the steps of the wall clock
    TimerIds,     \* bound on the timers that exist at a time
    Events,       \* "issue": keysets are issued while a fetch is under way; "close"
    None

TopicKeyConstants ==
    /\ {Period, Overlap, Slack, Validity, Recheck, FetchLimit, MaxTime, MaxSteps} \subseteq Nat
    /\ Epochs # {} /\ Epochs \subseteq Nat \ {0} /\ Starts \subseteq 0..MaxTime
    /\ Overlap < Period /\ Validity < Period /\ Recheck > 0
    /\ TimerIds \subseteq Nat \ {0}
    /\ Events \subseteq {"issue", "close"}

VARIABLES
    wall, steady,   \* the two clocks
    steps,          \* how often the wall clock was stepped
    held,           \* epochs of the secrets in memory
    hard,           \* hardRetireAt, on the monotonic clock
    retired,        \* the last epoch erased, 0 if none (hasRetired)
    timers,         \* timers armed or fired
    retireTimer,    \* the timer the set knows of, 0 if none
    operation,      \* the refresh or the lease that holds trustMu
    bound,          \* epochs whose secret the last step used
    rejected,       \* the keyset that latched the manager
    closed

vars == <<wall, steady, steps, held, hard, retired, timers, retireTimer,
          operation, bound, rejected, closed>>

Idle == [kind |-> "idle", now |-> 0, at |-> 0]

TypeOK ==
    /\ wall \in 0..MaxTime /\ steady \in 0..MaxTime /\ steps \in 0..MaxSteps
    /\ held \subseteq Epochs
    /\ hard \in [Epochs -> Nat]
    /\ retired \in Epochs \cup {0}
    /\ timers \in [TimerIds -> {None} \cup [at : Nat, fired : BOOLEAN]]
    /\ retireTimer \in TimerIds \cup {0}
    /\ operation \in [kind : {"idle", "refresh", "lease"}, now : Nat, at : Nat]
    /\ bound \subseteq Epochs
    /\ rejected \in {None} \cup [issued : Nat, listed : SUBSET Epochs, now : Nat, at : Nat]
    /\ closed \in BOOLEAN

-----------------------------------------------------------------------------
(* Periods and descriptors                                                   *)

TopicEpoch(t) == t \div Period
TopicEpochBoundary(e) == e * Period
RetireAt(e) == TopicEpochBoundary(e + 1) + Overlap

InWindow(e, t) == TopicEpochBoundary(e) <= t /\ t < RetireAt(e) + Slack

TopicEpochUsable(e, t, forIssuance) ==
    \/ e = TopicEpoch(t)
    \/ /\ ~forIssuance
       /\ TopicEpoch(t) > 0 /\ e = TopicEpoch(t) - 1
       /\ t < TopicEpochBoundary(TopicEpoch(t)) + Overlap

PreviousTopicEpochVerificationUsable(e, t, live, accepted) ==
    accepted /\ live /\ TopicEpochUsable(e, t, FALSE)

-----------------------------------------------------------------------------
(* Retirement                                                                *)

Live(ts) == {i \in TimerIds : ts[i] # None}

Stopped(ts, i) == IF i # 0 /\ ~ts[i].fired THEN [ts EXCEPT ![i] = None] ELSE ts

\* Mutant: by the wall clock only.
DueWall(now) == {e \in held : now >= RetireAt(e)}

\* By the caller's reading of the wall clock or by the monotonic clock.
Due(now) == {e \in held : now >= RetireAt(e) \/ steady >= hard[e]}

\* How long the timer for the earliest of the secrets sleeps.
Delay(now, keys) == Min({RetireAt(Min(keys)) - now, hard[Min(keys)] - steady, Recheck})

\* scheduleRetirementLocked for what is left after an erasure, so nothing is due.
scheduleRetirement(now, keys, ts) ==
    IF keys = {}
    THEN timers' = ts /\ retireTimer' = 0
    ELSE \E i \in TimerIds :
            /\ i = Min(TimerIds \ Live(ts))
            /\ timers' = [ts EXCEPT ![i] = [at |-> steady + Delay(now, keys), fired |-> FALSE]]
            /\ retireTimer' = i

\* Mutant: the epoch after the erased one is remembered.
EraseOffByOne(now, ts, known) ==
    IF closed \/ held = {}
    THEN timers' = ts /\ retireTimer' = known /\ UNCHANGED <<held, retired>>
    ELSE /\ held' = held \ Due(now)
         /\ retired' = Max({e + 1 : e \in Due(now)} \cup {retired})
         /\ IF Due(now) = {} /\ known # 0
            THEN timers' = ts /\ retireTimer' = known
            ELSE scheduleRetirement(now, held', Stopped(ts, known))

\* eraseRetiredLocked(now), given the timers and the one the set knows of.
eraseRetired(now, ts, known) ==
    IF closed \/ held = {}
    THEN timers' = ts /\ retireTimer' = known /\ UNCHANGED <<held, retired>>
    ELSE /\ held' = held \ Due(now)
         /\ retired' = Max(Due(now) \cup {retired})
         /\ IF Due(now) = {} /\ known # 0
            THEN timers' = ts /\ retireTimer' = known
            ELSE scheduleRetirement(now, held', Stopped(ts, known))

TimerFires(i) ==
    /\ timers[i] # None /\ ~timers[i].fired
    /\ steady >= timers[i].at
    /\ timers' = [timers EXCEPT ![i].fired = TRUE]
    /\ bound' = {}
    /\ UNCHANGED <<wall, steady, steps, held, hard, retired, retireTimer, operation,
                   rejected, closed>>

\* The callback forgets whatever timer the set knows of, its own or a later one.
RetireCallback(i) ==
    /\ timers[i] # None /\ timers[i].fired
    /\ eraseRetired(wall, [timers EXCEPT ![i] = None], 0)
    /\ bound' = {}
    /\ UNCHANGED <<wall, steady, steps, hard, operation, rejected, closed>>

-----------------------------------------------------------------------------
(* Leases                                                                    *)

\* The evaluation time is read before trustMu is taken.
AcquireLease ==
    /\ operation = Idle /\ rejected = None /\ ~closed
    /\ operation' = [kind |-> "lease", now |-> wall, at |-> steady]
    /\ bound' = {}
    /\ UNCHANGED <<wall, steady, steps, held, hard, retired, timers, retireTimer,
                   rejected, closed>>

CloseLease ==
    /\ operation.kind = "lease"
    /\ operation' = Idle
    /\ bound' = {}
    /\ UNCHANGED <<wall, steady, steps, held, hard, retired, timers, retireTimer,
                   rejected, closed>>

\* BindingForEpoch for an assertion that is unexpired (live) or accepted already.
BindingForEpoch(e, live, accepted) ==
    LET now == operation.now IN
    /\ operation.kind = "lease"
    /\ wall >= now
    /\ eraseRetired(now, timers, retireTimer)
    /\ bound' = {x \in held' \cap {e} :
            /\ InWindow(x, now)
            /\ x = TopicEpoch(now) \/ PreviousTopicEpochVerificationUsable(x, now, live, accepted)}
    /\ UNCHANGED <<wall, steady, steps, hard, operation, rejected, closed>>

\* The current secret must be held; the one before is added while it overlaps.
candidateTopicBindings ==
    LET now == operation.now IN
    /\ operation.kind = "lease"
    /\ wall >= now
    /\ eraseRetired(now, timers, retireTimer)
    /\ bound' = LET found == {e \in held' : TopicEpochUsable(e, now, FALSE)} IN
                IF TopicEpoch(now) \in found /\ \A e \in found : InWindow(e, now)
                THEN found ELSE {}
    /\ UNCHANGED <<wall, steady, steps, hard, operation, rejected, closed>>

-----------------------------------------------------------------------------
(* Keysets                                                                   *)

\* What the publisher lists at t: the previous epoch until its secret is retired,
\* the current one, and the next one.
Listed(t) == {e \in Epochs : t < RetireAt(e)}

\* One epoch, or the current one with a neighbour and the handover between them.
ValidateTopicKeySchedule(issued, listed) ==
    LET current == TopicEpoch(issued)
        adjacent == listed \ {current} IN
    /\ Cardinality(listed) \in 1..2
    /\ current \in listed /\ InWindow(current, issued)
    /\ \A e \in adjacent :
        \/ e = current + 1
        \/ e = current - 1 /\ issued < TopicEpochBoundary(current) + Overlap

ValidateKeyset(issued, now) == issued <= now /\ now < issued + Validity

\* Every listed epoch is held, except the previous one past its deadline if it is
\* the one erased last; every secret held is listed; the current one is held.
Reconcile(listed, now, keys, erased) ==
    LET current == TopicEpoch(now) IN
    /\ \A e \in listed \ keys :
        /\ current > 0 /\ e = current - 1
        /\ now >= TopicEpochBoundary(current) + Overlap
        /\ erased = e
    /\ keys \subseteq listed
    /\ current \in keys

validateCandidate(issued, now, keys, erased) ==
    /\ ValidateKeyset(issued, now)
    /\ ValidateTopicKeySchedule(issued, Listed(issued))
    /\ Reconcile(Listed(issued), now, keys, erased)

\* Refresh reads the clock, then fetches.
BeginRefresh ==
    /\ operation = Idle /\ rejected = None /\ ~closed
    /\ operation' = [kind |-> "refresh", now |-> wall, at |-> steady]
    /\ bound' = {}
    /\ UNCHANGED <<wall, steady, steps, held, hard, retired, timers, retireTimer,
                   rejected, closed>>

RefreshFails ==
    /\ operation.kind = "refresh"
    /\ operation' = Idle
    /\ bound' = {}
    /\ UNCHANGED <<wall, steady, steps, held, hard, retired, timers, retireTimer,
                   rejected, closed>>

Issued ==
    {t \in 0..(IF "issue" \in Events THEN steady ELSE operation.at) :
        t + Validity > steady /\ TopicEpoch(t) \in Epochs}

\* The keyset fetched is judged by the reading taken before the fetch.  The secrets
\* are touched only once the object itself is found valid.
Refresh ==
    LET now == operation.now IN
    /\ operation.kind = "refresh"
    /\ \E issued \in Issued :
        /\ IF ValidateKeyset(issued, now) /\ ValidateTopicKeySchedule(issued, Listed(issued))
           THEN eraseRetired(now, timers, retireTimer)
           ELSE UNCHANGED <<held, retired, timers, retireTimer>>
        /\ rejected' = IF validateCandidate(issued, now, held', retired') THEN None
                       ELSE [issued |-> issued, listed |-> Listed(issued),
                             now |-> now, at |-> steady]
    /\ operation' = Idle
    /\ bound' = {}
    /\ UNCHANGED <<wall, steady, steps, hard, closed>>

-----------------------------------------------------------------------------
(* Close, and the clocks                                                     *)

Close ==
    /\ "close" \in Events
    /\ ~closed /\ operation = Idle
    /\ closed' = TRUE
    /\ held' = {} /\ retired' = 0
    /\ timers' = Stopped(timers, retireTimer)
    /\ retireTimer' = 0
    /\ bound' = {}
    /\ UNCHANGED <<wall, steady, steps, hard, operation, rejected>>

Tick ==
    /\ wall < MaxTime /\ steady < MaxTime
    /\ \A i \in Live(timers) : ~timers[i].fired /\ timers[i].at > steady
    /\ operation.kind = "refresh" => steady < operation.at + FetchLimit
    /\ wall' = wall + 1 /\ steady' = steady + 1
    /\ bound' = {}
    /\ UNCHANGED <<steps, held, hard, retired, timers, retireTimer, operation, rejected, closed>>

StepWall ==
    /\ steps < MaxSteps
    /\ steps' = steps + 1
    /\ wall' \in 0..MaxTime
    /\ bound' = {}
    /\ UNCHANGED <<steady, held, hard, retired, timers, retireTimer, operation, rejected, closed>>

\* parseTopicKeySetBytes: the deadlines are set and the retirement is started.
Init ==
    /\ wall \in Starts /\ steady = wall
    /\ steps = 0
    /\ hard = [e \in Epochs |-> Max({RetireAt(e), steady})]
    /\ held = {e \in Epochs : wall < RetireAt(e)}
    /\ retired = Max((Epochs \ held) \cup {0})
    /\ LET first == Min(TimerIds) IN
       IF held = {}
       THEN timers = [i \in TimerIds |-> None] /\ retireTimer = 0
       ELSE /\ timers = [i \in TimerIds |->
                IF i = first THEN [at |-> steady + Delay(wall, held), fired |-> FALSE] ELSE None]
            /\ retireTimer = first
    /\ operation = Idle
    /\ bound = {}
    /\ rejected = None
    /\ closed = FALSE

Next ==
    \/ \E i \in TimerIds : TimerFires(i) \/ RetireCallback(i)
    \/ AcquireLease \/ CloseLease
    \/ \E e \in Epochs, live \in BOOLEAN, accepted \in BOOLEAN : BindingForEpoch(e, live, accepted)
    \/ candidateTopicBindings
    \/ BeginRefresh \/ RefreshFails \/ Refresh
    \/ Close \/ Tick \/ StepWall

Spec == Init /\ [][Next]_vars

-----------------------------------------------------------------------------
(* Properties                                                                *)

\* "MUST be erased 60 seconds after the boundary"
\* (contracts/xmtp_push/a9_adapter/v1/README.md:293): no lease binds with a secret
\* past its deadline, however the wall clock was stepped and however old the
\* evaluation time of the lease is.
NoUseAfterDeadline == \A e \in bound : steady < RetireAt(e)

\* The retirement timer erases a secret at its deadline on the monotonic clock,
\* although callbacks and callers race for the lock and Stop loses to a callback.
ErasedOnTime ==
    \A e \in held :
        \/ steady < RetireAt(e)
        \/ steady = RetireAt(e) /\ \E i \in Live(timers) : timers[i].fired \/ timers[i].at <= steady

\* A secret that can still expire has a timer that looks at the clocks again within
\* Recheck, so a wall clock that is stepped forward is noticed.
TimerArmed ==
    held # {} => \E i \in Live(timers) : timers[i].fired \/ timers[i].at <= steady + Recheck

\* scheduleRetirementLocked overwrites retireTimer: a callback that lost the race
\* with an erasure leaves a second timer running, once for each erasure and no more.
TimersBounded == Cardinality(Live(timers)) <= 1 + Cardinality(Epochs \ held)

\* Without a step of the wall clock no secret is erased before its deadline, so
\* current assertions verify, and previous ones do for the whole overlap.
HeldUntilDeadline ==
    steps = 0 /\ ~closed => \A e \in Epochs \ held : wall >= RetireAt(e)

\* currentEpochUsable, which readiness asks without erasing anything.
currentEpochUsable(now) ==
    LET e == TopicEpoch(now) IN ~closed /\ e \in held /\ InWindow(e, now)

\* A probe that reports ready is followed by lookups that succeed: the secret it
\* found is not one the next lookup erases, unless a timer is about to erase it.
ReadyServes ==
    currentEpochUsable(wall) =>
        \/ TopicEpoch(wall) \in held \ Due(wall)
        \/ \E i \in Live(timers) : timers[i].fired \/ timers[i].at <= steady

\* What the publisher serves is acceptable at t, and so is its answer by the
\* reading of the clock that the refresh took before its fetch.
ValidAt(keyset, t) == ValidateKeyset(keyset.issued, t) /\ TopicEpoch(t) \in Epochs

\* The two fetches whose length shows: the keyset was issued while it ran, or a
\* secret met its deadline and was erased by its timer.
IssuedDuringFetch(keyset) == keyset.issued > keyset.now
ErasedDuringFetch(keyset) == \E e \in Epochs : keyset.now < RetireAt(e) /\ RetireAt(e) <= keyset.at

\* Refresh: "Invalid signed state or durable rollback/conflict latches hard
\* uncertainty" (manager.go:269), for every replica and for good.  With a clock that
\* is not stepped, a keyset of the publisher's schedule that is valid both when the
\* fetch begins and when it is judged latches only if a secret was erased in
\* between: the judgement uses the reading taken before the fetch, by which the
\* erased secret was still due.  A keyset issued during the fetch latches as well,
\* because by that reading it is from the future.
LatchedByInvalid ==
    (rejected # None /\ steps = 0 /\ ValidAt(rejected, rejected.at)) =>
        IssuedDuringFetch(rejected) \/ ErasedDuringFetch(rejected)
=============================================================================
