------------------------------ MODULE A9Vault ------------------------------
(***************************************************************************)
(* The A9 authority of one installation in the routing vault: the signed   *)
(* controls and watermarks of a sequencer, the replacement of the          *)
(* subscription set, the routes and delivery jobs that depend on them, and *)
(* the retention sweep of the rows they refer to (pkg/vault/a9_*.go).      *)
(*                                                                         *)
(* A call is one serializable transaction, retried on a serialization      *)
(* failure, so a step of the model.  A call that ends in an error rolls    *)
(* back and is no step.  Hashes are the messages themselves: two messages  *)
(* with one idempotency key and different bytes are KeyReused.             *)
(***************************************************************************)
EXTENDS Integers, FiniteSets, FiniteSetsExt

CONSTANTS
    Epochs,        \* sequencer epochs
    Bindings,
    MaxVersion,    \* binding versions sent
    Controls,      \* the controls the sequencer signs
    Marks,         \* the watermarks it signs
    Replacements,  \* the replacement requests of the client
    MaxReceipts,   \* bound: calls that leave a receipt
    MaxKeyset,     \* bound: keyset rotations
    MaxJobs        \* bound: live delivery jobs

VARIABLES
    authority,  \* a9_installation_authority, or Absent
    binding,    \* a9_bindings
    tombs,      \* a9_binding_tombstones: pairs of a binding and a version
    events,     \* a9_control_events: the key and stream_is_contiguous
    marks,      \* a9_watermarks
    receipts,   \* the requests with an a9_idempotency_receipts row
    routes,     \* a9_subscription_routes, by binding
    bound,      \* a9_installation_gate6_bindings
    gate6,      \* installation_states and subscription_leases
    keyset,     \* a9_keyset_state: the current sequence
    safe,       \* retention_state.is_safe
    held,       \* snapshots routing has handed to the envelope workers
    jobs,       \* delivery_jobs in state pending or claimed: their snapshots
    sending     \* the snapshots under an open delivery attempt guard

\* The tables of the authority.
authorityVars == <<authority, binding, tombs, events, marks, receipts, routes>>
vars == <<authorityVars, bound, gate6, keyset, safe, held, jobs, sending>>

Absent == [epoch |-> "absent"]
NoMark == [seq |-> 0]
NoBinding == [version |-> 0, state |-> "none"]
NoRoute == [version |-> 0]
NoRoutes == [b \in Bindings |-> NoRoute]
NoBindings == [b \in Bindings |-> NoBinding]
Lapsed == [generation |-> 0, leases |-> {}, expired |-> FALSE]

Init ==
    /\ authority = Absent
    /\ binding = NoBindings
    /\ tombs = {} /\ events = {} /\ marks = {} /\ receipts = {}
    /\ routes = NoRoutes
    /\ bound = "none" /\ gate6 = Lapsed
    /\ keyset = 1 /\ safe = TRUE
    /\ held = {} /\ jobs = {} /\ sending = {}

-----------------------------------------------------------------------------
(* What the calls share.                                                   *)

\* requireA9KeysetTx takes the keyset row for update, which waits for the share
\* of every open guard, and requireRetentionSafeTx needs a completed sweep.
Ready == safe /\ sending = {}

AuthorityRow(epoch, state, reason) ==
    [epoch |-> epoch, contiguous |-> 0, generation |-> 0, state |-> state, reason |-> reason,
     mark |-> NoMark]

\* insertA9AuthorityTx when the row is missing.
Loaded(epoch, state, reason) ==
    IF authority # Absent THEN authority ELSE AuthorityRow(epoch, state, reason)

\* Mutants: the latch starts the cursor over; it leaves the reason out.
LatchRestarts(row, reason) ==
    [row EXCEPT !.state = "uncertain", !.reason = reason, !.mark = NoMark, !.contiguous = 0]

LatchSilently(row, reason) == [row EXCEPT !.state = "uncertain", !.mark = NoMark]

\* The current watermark goes with the latch; the reason is the latest one.
Latch(row, reason) ==
    [row EXCEPT !.state = "uncertain", !.reason = reason, !.mark = NoMark]

EpochPreviouslyObserved(e) ==
    \E r \in events \cup marks \cup receipts : r.epoch = e

\* The rows as the transaction sees them: after resetA9EpochTx when a fresh
\* epoch starts with its first event.  Generation and tombstones are kept.
Resets(m, row) ==
    /\ row.epoch # m.epoch /\ m.seq = 1
    /\ ~EpochPreviouslyObserved(m.epoch)

ResetEpoch(row, e) ==
    [row EXCEPT !.epoch = e, !.contiguous = 0, !.state = "uncertain", !.reason = "epoch",
                !.mark = NoMark]

TombstoneVersion(b) == Max({0} \cup {v \in 1..MaxVersion : <<b, v>> \in tombs})

HighestVersion(b, rows) == Max({rows[b].version, TombstoneVersion(b)})

\* cancelA9RoutesTx: live jobs of the routes become final markers.
CancelJobs(S) == {j \in jobs : j.binding \notin S}

\* The primary key (installation, epoch, stream sequence) of the events.
EventTaken(m) == \E r \in events : r.epoch = m.epoch /\ r.seq = m.seq

EventRow(m, contiguous) == [epoch |-> m.epoch, seq |-> m.seq, contiguous |-> contiguous]

-----------------------------------------------------------------------------
(* ApplyControl.                                                           *)

ControlRow(m) ==
    IF m.seq = 1 THEN Loaded(m.epoch, "active", "none")
    ELSE Loaded(m.epoch, "uncertain", "control-gap")

\* The outcomes after the epoch check work on these rows.
Started(m) ==
    LET row == ControlRow(m) IN
    IF Resets(m, row)
    THEN [row |-> ResetEpoch(row, m.epoch), binding |-> NoBindings, routes |-> NoRoutes,
          jobs |-> {}]
    ELSE [row |-> row, binding |-> binding, routes |-> routes, jobs |-> jobs]

NewControl(m) ==
    /\ Ready /\ m \notin receipts /\ Cardinality(receipts) < MaxReceipts

InEpoch(m) == NewControl(m) /\ Started(m).row.epoch = m.epoch

\* The rest of the transaction: receipt and the rows the outcome leaves.
Leaves(m, row, w) ==
    /\ authority' = row
    /\ receipts' = receipts \cup {m}
    /\ binding' = w.binding /\ routes' = w.routes /\ jobs' = w.jobs
    /\ UNCHANGED <<marks, bound, gate6, keyset, safe, held, sending>>

Latches(m, reason) ==
    LET w == Started(m) IN
    /\ Leaves(m, Latch(w.row, reason), w)
    /\ UNCHANGED <<tombs, events>>

\* The stored result is returned; an expired message is refused.
ControlReplay(m) == Ready /\ m \in receipts /\ UNCHANGED vars

\* One key, other bytes: the latch is committed and no receipt is written.
KeyReused ==
    /\ Ready /\ receipts # {}
    /\ authority' = Latch(authority, "idempotency")
    /\ UNCHANGED <<binding, tombs, events, marks, receipts, routes, bound, gate6, keyset, safe,
                   held, jobs, sending>>

\* An epoch that does not start fresh with event 1.
ControlOtherEpoch(m) ==
    /\ NewControl(m) /\ Started(m).row.epoch # m.epoch
    /\ Latches(m, "epoch")

ControlExpired(m) == InEpoch(m) /\ Latches(m, "expired")

Denied(m) == m.action = "upsert" /\ TombstoneVersion(m.binding) >= m.version

ControlDenied(m) ==
    /\ InEpoch(m) /\ Denied(m)
    /\ Leaves(m, Started(m).row, Started(m))
    /\ UNCHANGED <<tombs, events>>

ControlRegression(m) ==
    /\ InEpoch(m) /\ ~Denied(m) /\ m.seq <= Started(m).row.contiguous
    /\ Latches(m, "control-regression")

Ahead(m) == m.seq > Started(m).row.contiguous + 1

NewVersion(m) == m.version > HighestVersion(m.binding, Started(m).binding)

ControlGap(m) ==
    /\ InEpoch(m) /\ ~Denied(m) /\ Ahead(m)
    /\ ~(m.action = "revoke" /\ NewVersion(m))
    /\ Latches(m, "control-gap")

\* persistA9RevokeTx
Revokes(m, w, row, contiguous) ==
    /\ ~EventTaken(m)
    /\ events' = events \cup {EventRow(m, contiguous)}
    /\ tombs' = tombs \cup {<<m.binding, m.version>>}
    /\ Leaves(m, row,
              [binding |-> [w.binding EXCEPT ![m.binding] =
                               [version |-> m.version, state |-> "revoked"]],
               routes  |-> [w.routes EXCEPT ![m.binding] = NoRoute],
               jobs    |-> w.jobs \cap CancelJobs({m.binding})])

\* A denial wins across a gap and leaves the cursor where it is.
ControlGapRevoke(m) ==
    LET w == Started(m) IN
    /\ InEpoch(m) /\ Ahead(m) /\ m.action = "revoke" /\ NewVersion(m)
    /\ Revokes(m, w, Latch(w.row, "control-gap"), FALSE)

InLine(m) == InEpoch(m) /\ ~Denied(m) /\ m.seq = Started(m).row.contiguous + 1

NextVersion(m) == m.version = HighestVersion(m.binding, Started(m).binding) + 1

ControlVersionConflict(m) ==
    /\ InLine(m) /\ ~NextVersion(m)
    /\ Latches(m, "binding-conflict")

\* The foreign key from the routes to the bindings names the version and the
\* assertion: the row of a routed binding cannot be updated.
RoutedBinding(m) == Started(m).routes[m.binding] # NoRoute

BindingRow(m) ==
    [version |-> m.version, state |-> "active", epoch |-> m.epoch, seq |-> m.seq,
     keyset |-> keyset, expired |-> FALSE]

\* persistA9UpsertTx
ControlUpsert(m) ==
    LET w == Started(m) IN
    /\ InLine(m) /\ NextVersion(m) /\ m.action = "upsert"
    /\ ~EventTaken(m) /\ ~RoutedBinding(m)
    /\ events' = events \cup {EventRow(m, TRUE)}
    /\ Leaves(m, [w.row EXCEPT !.contiguous = m.seq],
              [w EXCEPT !.binding[m.binding] = BindingRow(m)])
    /\ UNCHANGED <<tombs>>

ControlRevoke(m) ==
    LET w == Started(m) IN
    /\ InLine(m) /\ NextVersion(m) /\ m.action = "revoke"
    /\ Revokes(m, w, [w.row EXCEPT !.contiguous = m.seq], TRUE)

-----------------------------------------------------------------------------
(* ApplyWatermark.                                                         *)

MarkRow(m) == Loaded(m.epoch, "uncertain", "watermark-gap")

MarkUnchanged == <<binding, tombs, events, receipts, routes, bound, gate6, keyset, safe, held, jobs, sending>>

MarkLatches(m, reason) ==
    /\ authority' = Latch(MarkRow(m), reason)
    /\ UNCHANGED <<marks, MarkUnchanged>>

NewMark(m) == Ready /\ m \notin marks

MarkReplay(m) == Ready /\ m \in marks /\ UNCHANGED vars

MarkOtherEpoch(m) == NewMark(m) /\ MarkRow(m).epoch # m.epoch /\ MarkLatches(m, "epoch")

MarkInEpoch(m) == NewMark(m) /\ MarkRow(m).epoch = m.epoch

MarkExpired(m) == MarkInEpoch(m) /\ MarkLatches(m, "expired")

MarkRollback(m) ==
    /\ MarkInEpoch(m) /\ m.seq <= MarkRow(m).mark.seq
    /\ MarkLatches(m, "watermark-rollback")

\* A jump, or a claim ahead of what the bridge accepted.
MarkAhead(m) ==
    \/ m.seq > MarkRow(m).mark.seq + 1
    \/ m.seq = MarkRow(m).mark.seq + 1
       /\ m.status = "current" /\ m.committed > MarkRow(m).contiguous

MarkGap(m) == MarkInEpoch(m) /\ MarkAhead(m) /\ MarkLatches(m, "watermark-gap")

MarkNext(m) == MarkInEpoch(m) /\ m.seq = MarkRow(m).mark.seq + 1 /\ ~MarkAhead(m)

\* Only a fresh epoch may recover: any other latch keeps the watermark out.
Recoverable(row) == row.state # "uncertain" \/ row.reason = "epoch"

MarkInconclusive(m) ==
    /\ MarkNext(m) /\ m.status = "current" /\ ~Recoverable(MarkRow(m))
    /\ authority' = MarkRow(m)
    /\ UNCHANGED <<marks, MarkUnchanged>>

CurrentMark(m) ==
    [seq |-> m.seq, committed |-> m.committed, status |-> m.status, keyset |-> keyset,
     expired |-> FALSE]

MarkTaken(m) == \E r \in marks : r.epoch = m.epoch /\ r.seq = m.seq

\* appendA9WatermarkTx is refused when the epoch has that sequence already.
MarkAccepted(m) ==
    /\ MarkNext(m)
    /\ m.status = "current" => Recoverable(MarkRow(m))
    /\ ~MarkTaken(m)
    /\ marks' = marks \cup {m}
    /\ LET row == [MarkRow(m) EXCEPT !.mark = CurrentMark(m)] IN
       IF m.status = "current"
       THEN authority' = row
       ELSE authority' = [row EXCEPT !.state = "uncertain", !.reason = "signed-watermark"]
    /\ UNCHANGED MarkUnchanged

-----------------------------------------------------------------------------
(* Replace.                                                                *)

ReplaceRow(r) == Loaded(r.epoch, "uncertain", "authority-reference")

NewReplacement(r) == Ready /\ r \notin receipts /\ Cardinality(receipts) < MaxReceipts

ReplaceUnchanged == <<binding, tombs, events, marks, routes, bound, gate6, keyset, safe, held, jobs, sending>>

\* A negative result has its receipt, with or without a latch.
Declines(r) ==
    /\ authority' = ReplaceRow(r)
    /\ receipts' = receipts \cup {r}
    /\ UNCHANGED ReplaceUnchanged

ReplaceLatches(r, reason) ==
    /\ authority' = Latch(ReplaceRow(r), reason)
    /\ receipts' = receipts \cup {r}
    /\ UNCHANGED ReplaceUnchanged

ReplaceReplay(r) == Ready /\ r \in receipts /\ UNCHANGED vars

ReplaceOtherEpoch(r) ==
    /\ NewReplacement(r) /\ ReplaceRow(r).epoch # r.epoch
    /\ ReplaceLatches(r, "epoch")

ReplaceInEpoch(r) == NewReplacement(r) /\ ReplaceRow(r).epoch = r.epoch

ReplaceInconclusive(r) ==
    /\ ReplaceInEpoch(r) /\ ~Recoverable(ReplaceRow(r))
    /\ Declines(r)

ReplaceRecoverable(r) == ReplaceInEpoch(r) /\ Recoverable(ReplaceRow(r))

ReplaceStale(r) ==
    /\ ReplaceRecoverable(r) /\ r.generation # ReplaceRow(r).generation + 1
    /\ Declines(r)

ReplaceNext(r) == ReplaceRecoverable(r) /\ r.generation = ReplaceRow(r).generation + 1

MarkCurrent(mark) ==
    mark # NoMark /\ mark.status = "current" /\ ~mark.expired /\ mark.keyset = keyset

ReplaceUncovered(r) ==
    /\ ReplaceNext(r) /\ ~MarkCurrent(ReplaceRow(r).mark)
    /\ ReplaceLatches(r, "expired")

ReplaceCovered(r) == ReplaceNext(r) /\ MarkCurrent(ReplaceRow(r).mark)

\* validateA9SubscriptionsTx, for one entry.
Asserted(b, v) ==
    /\ binding[b].state = "active" /\ binding[b].version = v
    /\ binding[b].epoch = authority.epoch /\ binding[b].keyset = keyset /\ ~binding[b].expired
    /\ binding[b].seq <= authority.mark.committed

Missing(r) == {b \in DOMAIN r.subs : ~Asserted(b, r.subs[b])}

\* The entries are checked in the order of their identifiers, which the model
\* leaves open; the first missing one decides between a revoked entry and a gap.
ReplaceRevoked(r) ==
    /\ ReplaceCovered(r)
    /\ \E b \in Missing(r) : TombstoneVersion(b) >= r.subs[b]
    /\ Declines(r)

ReplaceGap(r) ==
    /\ ReplaceCovered(r)
    /\ \E b \in Missing(r) : TombstoneVersion(b) < r.subs[b]
    /\ ReplaceLatches(r, "authority-reference")

ReplaceOtherIdentity(r) ==
    /\ ReplaceCovered(r) /\ Missing(r) = {} /\ bound \notin {"none", r.identity}
    /\ ReplaceLatches(r, "authority-reference")

RouteRow(r, b) ==
    [binding |-> b, version |-> r.subs[b], epoch |-> r.epoch, generation |-> r.generation,
     seq |-> binding[b].seq, keyset |-> keyset, mark |-> authority.mark.seq]

\* applyGate6RefreshTx accepts only the successor of the stored generation; a
\* deleted installation row counts as generation 0.
Gate6Accepts(r) == gate6.generation = r.generation - 1

ReplaceApplied(r) ==
    /\ ReplaceCovered(r) /\ Missing(r) = {} /\ bound \in {"none", r.identity}
    /\ Gate6Accepts(r)
    /\ receipts' = receipts \cup {r}
    /\ jobs' = CancelJobs(Bindings)
    /\ routes' = [b \in Bindings |-> IF b \in DOMAIN r.subs THEN RouteRow(r, b) ELSE NoRoute]
    /\ gate6' = [generation |-> r.generation, leases |-> DOMAIN r.subs, expired |-> FALSE]
    /\ bound' = r.identity
    /\ authority' = [authority EXCEPT !.generation = r.generation, !.state = "active",
                                      !.reason = "none"]
    /\ UNCHANGED <<binding, tombs, events, marks, keyset, safe, held, sending>>

-----------------------------------------------------------------------------
(* Routing and delivery of the installation's routes.                      *)

\* What requireA9CurrentRouteTx reads and locks for the snapshot s of a route.
CurrentKeyset(s) == keyset = s.keyset

CurrentAuthority(s) ==
    /\ authority.state = "active"
    /\ authority.epoch = s.epoch /\ authority.generation = s.generation
    /\ authority.contiguous >= s.seq
    /\ MarkCurrent(authority.mark)
    /\ authority.mark.seq >= s.mark
    /\ authority.mark.committed \in s.seq..authority.contiguous

CurrentBinding(s) ==
    /\ binding[s.binding].state = "active" /\ binding[s.binding].version = s.version
    /\ binding[s.binding].epoch = s.epoch /\ binding[s.binding].seq = s.seq

NoWinningTombstone(s) == TombstoneVersion(s.binding) < s.version

CurrentProjection(s) == routes[s.binding] = s

CurrentAssertion(s) == ~binding[s.binding].expired

\* The Gate 6 lease and installation, read under the same locks.
Gate6Current(s) == s.binding \in gate6.leases /\ ~gate6.expired

CurrentRoute(s) ==
    /\ safe /\ CurrentKeyset(s) /\ CurrentAuthority(s) /\ CurrentBinding(s)
    /\ NoWinningTombstone(s) /\ CurrentProjection(s) /\ CurrentAssertion(s)
    /\ Gate6Current(s)

DeliveryUnchanged == <<authorityVars, bound, gate6, keyset, safe>>

\* discoverA9RouteCandidatesTx reads the routes of a topic without locks.
RouteCandidates == {routes[b] : b \in {c \in Bindings : routes[c] # NoRoute}}

GetSubscriptions(b) ==
    /\ routes[b] \in RouteCandidates /\ CurrentRoute(routes[b])
    /\ held' = held \cup {routes[b]}
    /\ UNCHANGED <<jobs, sending, DeliveryUnchanged>>

\* The envelope worker enqueues what routing gave it, however old: the check is
\* made again in the transaction that inserts the job.
Enqueue(s) ==
    /\ s \in held /\ held' = held \ {s}
    /\ IF CurrentRoute(s) /\ Cardinality(jobs \cup {s}) <= MaxJobs
       THEN jobs' = jobs \cup {s} ELSE UNCHANGED jobs
    /\ UNCHANGED <<sending, DeliveryUnchanged>>

\* AcquireDeliveryAttempt holds its shares until the guard ends; a route that is
\* not current costs the job no attempt, and the worker finalizes it.
Acquire(s) ==
    /\ s \in jobs \ sending
    /\ IF CurrentRoute(s) THEN sending' = sending \cup {s} /\ UNCHANGED jobs
       ELSE jobs' = jobs \ {s} /\ UNCHANGED sending
    /\ UNCHANGED <<held, DeliveryUnchanged>>

\* The guard completes the job, or leaves it for another attempt.
GuardEnds(s, done) ==
    /\ s \in sending
    /\ sending' = sending \ {s}
    /\ jobs' = IF done THEN jobs \ {s} ELSE jobs
    /\ UNCHANGED <<held, DeliveryUnchanged>>

-----------------------------------------------------------------------------
(* Time, trust and retention.                                              *)

TimeUnchanged == <<tombs, events, marks, receipts, routes, bound, held, jobs, sending>>

AssertionExpires(b) ==
    /\ binding[b].state = "active" /\ ~binding[b].expired
    /\ binding' = [binding EXCEPT ![b].expired = TRUE]
    /\ UNCHANGED <<authority, gate6, keyset, safe, TimeUnchanged>>

MarkExpires ==
    /\ authority # Absent /\ authority.mark # NoMark /\ ~authority.mark.expired
    /\ authority' = [authority EXCEPT !.mark.expired = TRUE]
    /\ UNCHANGED <<binding, gate6, keyset, safe, TimeUnchanged>>

\* The keyset row is replaced; the guards hold a share of it.
KeysetRotates ==
    /\ keyset < MaxKeyset /\ sending = {}
    /\ keyset' = keyset + 1
    /\ UNCHANGED <<authority, binding, gate6, safe, TimeUnchanged>>

\* The installation row and its leases carry one expires_at.
LeasesExpire ==
    /\ gate6.generation > 0 /\ ~gate6.expired
    /\ gate6' = [gate6 EXCEPT !.expired = TRUE]
    /\ UNCHANGED <<authority, binding, keyset, safe, TimeUnchanged>>

\* Sweep marks retention unsafe first; the update waits for the guards.
SweepBegins ==
    /\ safe /\ sending = {}
    /\ safe' = FALSE
    /\ UNCHANGED <<authority, binding, gate6, keyset, TimeUnchanged>>

\* The leases of existing routes cannot be deleted: the routes' foreign key has
\* no cascade.
SweepBlocked == gate6.expired /\ \E b \in gate6.leases : routes[b] # NoRoute

SweepCompletes ==
    /\ ~safe /\ ~SweepBlocked
    /\ safe' = TRUE
    /\ gate6' = IF gate6.expired THEN Lapsed ELSE gate6
    /\ UNCHANGED <<authority, binding, keyset, TimeUnchanged>>

SweepFails == ~safe /\ SweepBlocked /\ UNCHANGED vars

-----------------------------------------------------------------------------
ApplyControl(m) ==
    \/ ControlReplay(m) \/ ControlOtherEpoch(m) \/ ControlExpired(m) \/ ControlDenied(m)
    \/ ControlRegression(m) \/ ControlGap(m) \/ ControlGapRevoke(m)
    \/ ControlVersionConflict(m) \/ ControlUpsert(m) \/ ControlRevoke(m)

ApplyWatermark(m) ==
    \/ MarkReplay(m) \/ MarkOtherEpoch(m) \/ MarkExpired(m) \/ MarkRollback(m)
    \/ MarkGap(m) \/ MarkInconclusive(m) \/ MarkAccepted(m)

Replace(r) ==
    \/ ReplaceReplay(r) \/ ReplaceOtherEpoch(r) \/ ReplaceInconclusive(r) \/ ReplaceStale(r)
    \/ ReplaceUncovered(r) \/ ReplaceRevoked(r) \/ ReplaceGap(r)
    \/ ReplaceOtherIdentity(r) \/ ReplaceApplied(r)

Deliver ==
    \/ \E b \in Bindings : GetSubscriptions(b)
    \/ \E s \in held : Enqueue(s)
    \/ \E s \in jobs : Acquire(s)
    \/ \E s \in sending : \E done \in BOOLEAN : GuardEnds(s, done)

Time ==
    \/ \E b \in Bindings : AssertionExpires(b)
    \/ MarkExpires \/ KeysetRotates \/ LeasesExpire
    \/ SweepBegins \/ SweepCompletes \/ SweepFails

Next ==
    \/ \E m \in Controls : ApplyControl(m)
    \/ \E m \in Marks : ApplyWatermark(m)
    \/ \E r \in Replacements : Replace(r)
    \/ KeyReused
    \/ Deliver
    \/ Time

Spec == Init /\ [][Next]_vars

\* RetentionSweeper.Run repeats the sweep for as long as the process lives.
\* A guard ends with its attempt, whose context has a deadline.
FairSpec ==
    /\ Spec /\ WF_vars(SweepBegins) /\ WF_vars(SweepCompletes)
    /\ WF_vars(\E s \in sending : GuardEnds(s, TRUE))

-----------------------------------------------------------------------------
(* Properties.                                                             *)

Routed == {b \in Bindings : routes[b] # NoRoute}

TypeOK ==
    /\ authority # Absent =>
         /\ authority.epoch \in Epochs
         /\ authority.state \in {"active", "uncertain"}
         /\ authority.state = "active" <=> authority.reason = "none"
         /\ authority.generation \in Nat /\ authority.contiguous \in Nat
    /\ \A b \in Bindings : binding[b].version \in 0..MaxVersion
    /\ sending \subseteq jobs /\ Cardinality(jobs) <= MaxJobs

\* "Once a binding version is denied, v12 never resurrects it": no active
\* binding, route or live job has a version that was revoked, or an older one,
\* in whatever epoch the sequencer is and whatever was lost or repeated.
DenialIsFinal ==
    \A t \in tombs :
        LET b == t[1] v == t[2] IN
        /\ binding[b].state = "active" => binding[b].version > v
        /\ b \in Routed => routes[b].version > v
        /\ \A j \in jobs : j.binding = b => j.version > v

\* The cursor stands for events the bridge accepted in order in this epoch, also
\* after a denial that was applied across a gap; a current watermark claims no
\* more than that.
CursorIsProved ==
    authority # Absent =>
        /\ \A n \in 1..authority.contiguous :
              [epoch |-> authority.epoch, seq |-> n, contiguous |-> TRUE] \in events
        /\ authority.mark # NoMark /\ authority.mark.status = "current" =>
              authority.mark.committed <= authority.contiguous

\* A route belongs to the current epoch and generation and to the assertion its
\* binding has now, and a live job to a route that exists: every path that
\* removes a route has cancelled its jobs.
RoutesAreCurrent ==
    /\ \A b \in Routed :
          /\ routes[b].epoch = authority.epoch /\ routes[b].generation = authority.generation
          /\ binding[b].state = "active" /\ binding[b].version = routes[b].version
          /\ binding[b].seq = routes[b].seq /\ routes[b].seq <= authority.contiguous
    /\ \A j \in jobs : routes[j.binding] = j

\* While a notification is on its way to the provider its installation stays
\* active under the same keyset, its route stands and its version is not denied:
\* the calls that would change that wait for the guard.  Only time may pass.
EgressAuthorised ==
    \A s \in sending :
        /\ authority.state = "active" /\ authority.generation = s.generation
        /\ keyset = s.keyset /\ safe
        /\ routes[s.binding] = s /\ \A t \in tombs : t[1] = s.binding => t[2] < s.version

\* Of a step: a generation is replaced by its successor, and only together with
\* the whole set of routes; within an epoch the cursor never moves back.
ReplacementIsWhole ==
    authority # Absent =>
        /\ authority'.generation \in {authority.generation, authority.generation + 1}
        /\ authority'.generation # authority.generation =>
             /\ authority'.state = "active"
             /\ \A b \in Bindings : routes'[b] = NoRoute \/
                                    routes'[b].generation = authority'.generation
        /\ authority'.epoch = authority.epoch =>
             authority'.contiguous >= authority.contiguous

\* "Sweep physically removes expired ciphertext and privacy records": expired
\* rows go while the sweeper runs.
ExpiredIsRemoved == gate6.expired ~> ~gate6.expired
=============================================================================
