--------------------------- MODULE A3Association ---------------------------
(***************************************************************************)
(* The installation-association reader of pkg/a3trust/association.go: the  *)
(* HTTP handler, the paged read of an inbox's identity history and its     *)
(* update-by-update validation.                                            *)
(*                                                                         *)
(* The identity log of one inbox is external (the XMTP IdentityApi): a     *)
(* sequence of updates that grows while it is being read.  An update is    *)
(* the membership it leads to; the ValidationApi, external too, answers    *)
(* for one update with the state and the difference from the prefix.       *)
(***************************************************************************)
EXTENDS Naturals, Sequences, FiniteSets

CONSTANTS
    Installations,   \* installation public keys
    Calls,           \* concurrent POSTs of installation-associations:read
    MaxLog,          \* bound on the identity log
    MaxTime,         \* bound on the clock
    MaxPages,        \* AssociationMaxPages
    MaxPageUpdates,  \* AssociationMaxPageUpdates
    MaxUpdates,      \* AssociationMaxUpdates
    MaximumSkew,     \* AssociationMaximumClockSkewSec
    MaxConcurrency   \* AssociationMaxConcurrency

AssociationBounds ==
    /\ MaxPages \in Nat \ {0} /\ MaxPageUpdates \in Nat \ {0}
    /\ MaxUpdates \in Nat \ {0} /\ MaxPageUpdates <= MaxUpdates
    /\ MaxConcurrency \in Nat \ {0} /\ MaximumSkew \in Nat

VARIABLES
    log,       \* the IdentityApi's history: members after, server timestamp
    now,       \* the bridge's clock
    call,      \* per call: where the read is
    answers    \* the observation last sent with status 200, if any

vars == <<log, now, call, answers>>

Members(n) == IF n = 0 THEN {} ELSE log[n].members

Idle == [pc |-> "idle", installation |-> {}, since |-> 0, page |-> 0,
         history |-> 0, checked |-> 0, previous |-> {}, removed |-> FALSE]

Init ==
    /\ log = <<>>
    /\ now = 0
    /\ call = [c \in Calls |-> Idle]
    /\ answers = {}

\* An identity update lands: sequence ids and server timestamps do not
\* decrease, and the service's clock may run ahead of the bridge's.
Mutate(S, t) ==
    /\ Len(log) < MaxLog
    /\ S # Members(Len(log))
    /\ log # <<>> => t >= log[Len(log)].ts
    /\ log' = Append(log, [members |-> S, ts |-> t])
    /\ UNCHANGED <<now, call, answers>>

Tick ==
    /\ now < MaxTime
    /\ now' = now + 1
    /\ UNCHANGED <<log, call, answers>>

----------------------------------------------------------------------------
InFlight == {c \in Calls : call[c].pc # "idle"}

\* AssociationHandler.ServeHTTP up to the read: authorised, within the rate,
\* a free slot, a well-formed body.  A refused request changes nothing here.
\* since remembers the log as it was when the request came in.
Request(c, i) ==
    /\ call[c].pc = "idle"
    /\ Cardinality(InFlight) < MaxConcurrency
    /\ call' = [call EXCEPT ![c] = [Idle EXCEPT !.pc = "reading", !.since = Len(log),
                                                !.installation = {i}]]
    /\ UNCHANGED <<log, now, answers>>

Unavailable(c) == call' = [call EXCEPT ![c] = Idle]

\* GetIdentityUpdates after the cursor: the service decides how many of the
\* updates it holds go into a page.
Remaining(c) == Len(log) - call[c].history

EndOfHistory(c) == Remaining(c) = 0

\* A page of n updates is taken into the history.
ReadPage(c, n) ==
    /\ call[c].pc = "reading"
    /\ call[c].page < MaxPages
    /\ n \in 1..Remaining(c)
    /\ n <= MaxPageUpdates
    /\ call[c].history + n <= MaxUpdates
    /\ call' = [call EXCEPT ![c].page = @ + 1, ![c].history = @ + n]
    /\ UNCHANGED <<log, now, answers>>

\* A page beyond a cap, a failed call or a page limit reached before the empty
\* page: the read is unavailable, never truncated.
ReadFails(c) ==
    /\ call[c].pc = "reading"
    /\ \/ call[c].page = MaxPages
       \/ Remaining(c) > MaxPageUpdates
       \/ Remaining(c) > 0 /\ call[c].history + Remaining(c) > MaxUpdates
    /\ Unavailable(c)
    /\ UNCHANGED <<log, now, answers>>

\* Only an answer without updates ends the read; an inbox without any history
\* is unavailable.
ReadEnds(c) ==
    /\ call[c].pc = "reading"
    /\ call[c].page < MaxPages
    /\ EndOfHistory(c)
    /\ call' = [call EXCEPT ![c] = IF call[c].history = 0 THEN Idle
                                   ELSE [@ EXCEPT !.pc = "validating"]]
    /\ UNCHANGED <<log, now, answers>>

\* Mutant: the removals are not compared.
DiffAddsOnly(previous, current, added, removed) == added = current \ previous

\* associationDiffMatches: the difference is exactly the set transition.
associationDiffMatches(previous, current, added, removed) ==
    added = current \ previous /\ removed = previous \ current

\* GetAssociationState for the next update over the validated prefix.  The
\* answer's state is the service's; its difference may be anything and is
\* compared with the transition.
Validate(c, added, removed) ==
    /\ call[c].pc = "validating"
    /\ call[c].checked < call[c].history
    /\ LET current == Members(call[c].checked + 1) IN
         IF associationDiffMatches(call[c].previous, current, added, removed)
         THEN call' = [call EXCEPT
                         ![c].checked = @ + 1,
                         ![c].previous = current,
                         ![c].removed = @ \/ call[c].installation \subseteq removed]
         ELSE Unavailable(c)
    /\ UNCHANGED <<log, now, answers>>

\* Current membership takes precedence over an earlier removal.
Revoked(associated, removed) == ~associated /\ removed

Observation(c) ==
    LET associated == call[c].installation \subseteq call[c].previous IN
      [installation |-> call[c].installation, associated |-> associated,
       revoked |-> Revoked(associated, call[c].removed),
       position |-> call[c].checked, since |-> call[c].since]

\* The last mutation may not lie further ahead of the clock than the skew.
LastMutationCredible(c) == log[call[c].checked].ts <= now + MaximumSkew

Validated(c) == call[c].pc = "validating" /\ call[c].checked = call[c].history

\* canonicalAssociationStateDigest and the answer, after the handler's own
\* check that an installation is not both associated and revoked.
Answer(c) ==
    /\ Validated(c)
    /\ LastMutationCredible(c)
    /\ answers' = {Observation(c)}
    /\ call' = [call EXCEPT ![c] = Idle]
    /\ UNCHANGED <<log, now>>

AnswerUnavailable(c) ==
    /\ Validated(c)
    /\ ~LastMutationCredible(c)
    /\ Unavailable(c)
    /\ UNCHANGED <<log, now, answers>>

\* The request deadline passes, or one of the two services fails.
Abandon(c) ==
    /\ call[c].pc # "idle"
    /\ Unavailable(c)
    /\ UNCHANGED <<log, now, answers>>

CallStep(c) ==
    \/ \E i \in Installations : Request(c, i)
    \/ \E n \in 1..MaxPageUpdates : ReadPage(c, n)
    \/ ReadFails(c) \/ ReadEnds(c)
    \/ \E added, removed \in SUBSET Installations : Validate(c, added, removed)
    \/ Answer(c) \/ AnswerUnavailable(c) \/ Abandon(c)

Next ==
    \/ Tick
    \/ \E S \in SUBSET Installations, t \in 0..MaxTime : Mutate(S, t)
    \/ \E c \in Calls : CallStep(c)

Spec == Init /\ [][Next]_vars

----------------------------------------------------------------------------
\* The removals of installation set i in the first n updates.
EverRemoved(i, n) ==
    \E k \in 1..n : i \subseteq Members(k - 1) /\ ~(i \subseteq Members(k))

\* The progress of a read stays within the log and the configured caps.
TypeOK ==
    /\ now \in 0..MaxTime
    /\ Len(log) <= MaxLog
    /\ Cardinality(InFlight) <= MaxConcurrency
    /\ \A c \in Calls :
         /\ call[c].checked <= call[c].history
         /\ call[c].history <= MaxUpdates
         /\ call[c].page <= MaxPages

\* What the bridge answers is what the history up to the answered position
\* says: associated is current membership, revoked an earlier validated removal
\* of an installation that is no member now.  ReadAssociation derives both from
\* the per-update differences, with updates landing during the read.
ObservationIsTrue ==
    \A o \in answers :
      /\ o.associated <=> o.installation \subseteq Members(o.position)
      /\ o.revoked <=> ~o.associated /\ EverRemoved(o.installation, o.position)

\* A read is complete: the answer reflects every update that was in the log
\* when the request came in, so a revocation seen by one request is seen by
\* every later one.  CompleteHistory's loop until an empty page is what this
\* rests on.
ReadsAreComplete == \A o \in answers : o.position >= o.since
=============================================================================
