----------------------------- MODULE MCEvidence -----------------------------
(***************************************************************************)
(* What keys and records can be relied on for: the rotation of the online  *)
(* keys, the retirement of topic secrets, incident access, the directory   *)
(* witness with its consistency proofs, and the association bridge, on     *)
(* small instances.  A behaviour is a behaviour of one of them: part says  *)
(* of which, and the others rest.                                          *)
(***************************************************************************)
EXTENDS Integers, TLC

CONSTANTS alice, bob, carol, r1, c1, c2, p1, p2, k1, k2, k3, a, b, i1, i2, None

VARIABLES
    part,
    now, chain, latched, artifact,                          \* OnlineRotation
    wall, steady, steps, held, hard, retired, timers, retireTimer,
    operation, bound, rejected, closed,                     \* TopicKeys
    clock, rows, audit, lock, calls, broadcasts, released,  \* IncidentAccess
    ledger, advisory, time, proc, call, issued,             \* A3Witness
    old, new, proof,                                        \* MerkleConsistency
    log, today, read, answers                               \* A3Association

rotation == <<now, chain, latched, artifact>>
topic == <<wall, steady, steps, held, hard, retired, timers, retireTimer,
           operation, bound, rejected, closed>>
incident == <<clock, rows, audit, lock, calls, broadcasts, released>>
witness == <<ledger, advisory, time, proc, call, issued>>
merkle == <<old, new, proof>>
association == <<log, today, read, answers>>
vars == <<part, rotation, topic, incident, witness, merkle, association>>

\* Keys with one of two overlapping windows each: three keysets of two keys, and
\* two keysets of three.
LongChain == INSTANCE OnlineRotation WITH
    Keys <- {k1, k2}, Windows <- {<<0, 5>>, <<2, 7>>}, MaxTime <- 6, MaxSequence <- 3,
    MaxKeys <- 2, Validity <- 2, Lead <- 2, Retention <- 2, Life <- 2,
    NoKey <- None, NoArtifact <- None
WideChain == INSTANCE OnlineRotation WITH
    Keys <- {k1, k2, k3}, Windows <- {<<0, 5>>, <<2, 7>>}, MaxTime <- 6, MaxSequence <- 2,
    MaxKeys <- 3, Validity <- 2, Lead <- 2, Retention <- 2, Life <- 2,
    NoKey <- None, NoArtifact <- None

\* Starts within the first epoch, in the overlap and after it; the wall clock is
\* stepped twice around the end of the first secret.
Topic == INSTANCE TopicKeys WITH
    Epochs <- {1, 2}, Period <- 4, Overlap <- 2, Slack <- 1, Validity <- 3, Recheck <- 2,
    FetchLimit <- 1, Starts <- {5, 9, 10}, MaxTime <- 12, MaxSteps <- 2,
    TimerIds <- {1, 2, 3, 4}, Events <- {"close"}

\* To the end of the second secret, with a clock that is not stepped and fetches
\* during which a keyset is issued or a secret meets its deadline.
Schedule == INSTANCE TopicKeys WITH
    Epochs <- {1, 2}, Period <- 4, Overlap <- 2, Slack <- 1, Validity <- 3, Recheck <- 2,
    FetchLimit <- 1, Starts <- {5, 9, 10}, MaxTime <- 15, MaxSteps <- 0,
    TimerIds <- {1, 2, 3, 4}, Events <- {"issue", "close"}

\* Two overlapping calls about one request, made in the second half of an hour;
\* the clock reaches the end of a role and of the time to grant one.  For a shorter
\* time also with a second requester, who may call about the request of the first.
Incident == INSTANCE IncidentAccess WITH
    Requesters <- {alice}, Approvers <- {carol}, Requests <- {r1}, Calls <- {c1, c2},
    Hour <- 2, RoleTTL <- 2, MaxAge <- 3, Ages <- {0}, MaxTime <- 6
Strangers == INSTANCE IncidentAccess WITH
    Requesters <- {alice, bob}, Approvers <- {carol}, Requests <- {r1}, Calls <- {c1, c2},
    Hour <- 2, RoleTTL <- 2, MaxAge <- 3, Ages <- {0}, MaxTime <- 4

\* Two processes that may be given different seeds; and one process with two
\* calls at once about heads of different times, which go stale.
Seeds == INSTANCE A3Witness WITH
    Procs <- {p1, p2}, Keys <- {k1, k2}, Calls <- {c1, c2}, Leaves <- {a, b},
    MaxTreeSize <- 2, MaxTime <- 0, Timestamps <- {0}, MaximumClockSkew <- 0,
    MaximumHeadAge <- 1, MaxConcurrency <- 1, RatePerTick <- 1, RateBurst <- 1,
    NoCall <- None, NoKey <- None, lock <- advisory, now <- time
Heads == INSTANCE A3Witness WITH
    Procs <- {p1}, Keys <- {k1}, Calls <- {c1, c2}, Leaves <- {a, b},
    MaxTreeSize <- 2, MaxTime <- 2, Timestamps <- {0, 1}, MaximumClockSkew <- 0,
    MaximumHeadAge <- 1, MaxConcurrency <- 2, RatePerTick <- 1, RateBurst <- 2,
    NoCall <- None, NoKey <- None, lock <- advisory, now <- time

\* Every sequence of hashes up to three, and the prescribed proof at larger sizes.
Sound == INSTANCE MerkleConsistency WITH Leaves <- {a, b}, MaxTreeSize <- 5, MaxProof <- 3
Complete == INSTANCE MerkleConsistency WITH Leaves <- {a, b}, MaxTreeSize <- 7, MaxProof <- 0

\* A history longer than a page, and updates that land during the read.
Association == INSTANCE A3Association WITH
    Installations <- {i1, i2}, Calls <- {c1, c2}, MaxLog <- 3, MaxTime <- 1, MaxPages <- 3,
    MaxPageUpdates <- 1, MaxUpdates <- 3, MaximumSkew <- 0, MaxConcurrency <- 1,
    now <- today, call <- read

ASSUME /\ LongChain!RotationConstants /\ WideChain!RotationConstants
       /\ Topic!TopicKeyConstants /\ Schedule!TopicKeyConstants
       /\ Incident!IncidentConstants /\ Strangers!IncidentConstants
       /\ Seeds!A3Bounds /\ Heads!A3Bounds /\ Association!AssociationBounds

Off == "off"

RotationRests == now = Off /\ chain = Off /\ latched = Off /\ artifact = Off
TopicRests ==
    /\ wall = Off /\ steady = Off /\ steps = Off /\ held = Off /\ hard = Off /\ retired = Off
    /\ timers = Off /\ retireTimer = Off /\ operation = Off /\ bound = Off /\ rejected = Off
    /\ closed = Off
IncidentRests ==
    /\ clock = Off /\ rows = Off /\ audit = Off /\ lock = Off /\ calls = Off
    /\ broadcasts = Off /\ released = Off
WitnessRests ==
    /\ ledger = Off /\ advisory = Off /\ time = Off /\ proc = Off /\ call = Off /\ issued = Off
MerkleRests == old = Off /\ new = Off /\ proof = Off
AssociationRests == log = Off /\ today = Off /\ read = Off /\ answers = Off

Init ==
    /\ part \in {"long", "wide", "topic", "schedule", "incident", "strangers", "seeds",
                 "heads", "sound", "complete", "association"}
    /\ CASE part = "long" -> LongChain!Init
         [] part = "wide" -> WideChain!Init
         [] OTHER         -> RotationRests
    /\ CASE part = "topic"    -> Topic!Init
         [] part = "schedule" -> Schedule!Init
         [] OTHER             -> TopicRests
    /\ CASE part = "incident"  -> Incident!Init
         [] part = "strangers" -> Strangers!Init
         [] OTHER              -> IncidentRests
    /\ CASE part = "seeds" -> Seeds!Init
         [] part = "heads" -> Heads!Init
         [] OTHER          -> WitnessRests
    /\ CASE part = "sound"    -> Sound!Init
         [] part = "complete" -> Complete!Init
         [] OTHER             -> MerkleRests
    /\ IF part = "association" THEN Association!Init ELSE AssociationRests

Next ==
    \/ /\ \/ part = "long" /\ LongChain!Next
          \/ part = "wide" /\ WideChain!Next
       /\ UNCHANGED <<part, topic, incident, witness, merkle, association>>
    \/ /\ \/ part = "topic" /\ Topic!Next
          \/ part = "schedule" /\ Schedule!Next
       /\ UNCHANGED <<part, rotation, incident, witness, merkle, association>>
    \/ /\ \/ part = "incident" /\ Incident!Next
          \/ part = "strangers" /\ Strangers!Next
       /\ UNCHANGED <<part, rotation, topic, witness, merkle, association>>
    \/ /\ \/ part = "seeds" /\ Seeds!Next
          \/ part = "heads" /\ Heads!Next
       /\ UNCHANGED <<part, rotation, topic, incident, merkle, association>>
    \/ /\ \/ part = "sound" /\ Sound!Next
          \/ part = "complete" /\ Complete!Next
       /\ UNCHANGED <<part, rotation, topic, incident, witness, association>>
    \/ /\ part = "association" /\ Association!Next
       /\ UNCHANGED <<part, rotation, topic, incident, witness, merkle>>

Spec == Init /\ [][Next]_vars

Symmetry == Permutations({c1, c2}) \cup Permutations({alice, bob})

-----------------------------------------------------------------------------
\* The types of each component.
TypeOK ==
    CASE part = "long"        -> LongChain!TypeOK
      [] part = "wide"        -> WideChain!TypeOK
      [] part = "topic"       -> Topic!TypeOK
      [] part = "schedule"    -> Schedule!TypeOK
      [] part = "incident"    -> Incident!TypeOK
      [] part = "strangers"   -> Strangers!TypeOK
      [] part = "seeds"       -> Seeds!TypeOK
      [] part = "heads"       -> Heads!TypeOK
      [] part = "association" -> Association!TypeOK
      [] OTHER                -> TRUE

\* Across a rotation of the online key: an unexpired artifact verifies under every
\* unexpired keyset; the keyset before a change of the SIGN key has expired when
\* the change is accepted; and a key keeps its window (ValidateOnlineRotation).
RotationIsSafe ==
    /\ part = "long" => /\ LongChain!ArtifactsVerify
                        /\ LongChain!CutoverAfterExpiry
                        /\ LongChain!OneWindowPerKey
    /\ part = "wide" => /\ WideChain!ArtifactsVerify
                        /\ WideChain!CutoverAfterExpiry
                        /\ WideChain!OneWindowPerKey

\* A topic secret is used and held until its deadline and no longer, although
\* timers race with callers and the wall clock is stepped; a ready probe is not
\* about a secret the next lookup erases; and a valid keyset latches only if it was
\* issued, or a secret erased, during its fetch
\* (eraseExpired, scheduleRetirementLocked, currentEpochUsable, Reconcile).
SecretsKeepTheirEpoch ==
    /\ part = "topic" =>
        /\ Topic!NoUseAfterDeadline /\ Topic!ErasedOnTime
        /\ Topic!TimerArmed /\ Topic!TimersBounded /\ Topic!ReadyServes
    /\ part = "schedule" =>
        /\ Schedule!NoUseAfterDeadline /\ Schedule!ErasedOnTime
        /\ Schedule!TimerArmed /\ Schedule!ReadyServes
        /\ Schedule!HeldUntilDeadline /\ Schedule!LatchedByInvalid

\* A result leaves only to its requester, for a role that another authorised actor
\* granted after oversight was told, with its audit rows committed; after a
\* revocation no query commits; a role is granted once, never prolonged, and never
\* comes back (Approve, Revoke, WithAuthorizedRawVaultQuery).
RolesAreAccountable ==
    /\ [](/\ part = "incident" =>
                Incident!ReleasesAreAccountable /\ Incident!ApprovedAfterBroadcast
          /\ part = "strangers" =>
                Strangers!ReleasesAreAccountable /\ Strangers!ApprovedAfterBroadcast)
    /\ [][/\ part = "incident" => Incident!RevocationCloses /\ Incident!RolesOnlyEnd
          /\ part = "strangers" => Strangers!RevocationCloses /\ Strangers!RolesOnlyEnd]_vars

\* The witness signs one view of the directory, under one key, and nothing that is
\* not durable and replayable; and verifyConsistency, which it rests on, accepts
\* every true extension and nothing else (AcceptDirectoryTreeHead).
OneLog ==
    /\ part = "seeds" => /\ Seeds!OneLog /\ Seeds!IssuedIsDurable
                         /\ Seeds!OneKey /\ Seeds!ReplayStaysOpen
    /\ part = "heads" => /\ Heads!OneLog /\ Heads!IssuedIsDurable
                         /\ Heads!OneKey /\ Heads!ReplayStaysOpen
    /\ part = "sound" => Sound!AcceptedExtends
    /\ part = "complete" => Complete!ExtensionsAccepted

\* The bridge answers what the whole history up to its answer says, every update
\* that preceded the request included (ReadAssociation, CompleteHistory).
ObservationIsTrue ==
    part = "association" => Association!ObservationIsTrue /\ Association!ReadsAreComplete
=============================================================================
