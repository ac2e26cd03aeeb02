---------------------------- MODULE OnlineRotation ----------------------------
(***************************************************************************)
(* Rotation of the A9 online signing keys (pkg/a9trust/keyset.go).         *)
(*                                                                         *)
(* The publisher issues root-signed keysets in sequence.  A bridge accepts *)
(* one when it is well formed and when the rotation from the keyset it     *)
(* accepted last is legal, and latches trust otherwise.  A9_CONTROL and    *)
(* SERVICE_AUTH rotate independently of each other and by the same rules,  *)
(* only with another Retention, so one use is modelled.                    *)
(*                                                                         *)
(* A key descriptor is a record: its id (which stands for the public key,  *)
(* the code recomputes one from the other), its state and its half-open    *)
(* window.  Signatures, canonical bytes and the commitment keys are left   *)
(* out; the topic keys among the latter are in TopicKeys.                  *)
(***************************************************************************)
EXTENDS Integers, Sequences, FiniteSets

CONSTANTS
    Keys,         \* identities of online keys of one use
    Windows,      \* the windows <<not_before, not_after>> a descriptor may have
    MaxTime,      \* bound on the clock
    MaxSequence,  \* bound on the keysets accepted
    MaxKeys,      \* descriptors of one use: four in all, one at least of the other
    Validity,     \* longest life of a keyset (24 h)
    Lead,         \* how long a key is staged before its not_before (24 h)
    Retention,    \* how long the old key outlives a cutover (90 s or 125 s)
    Life,         \* longest life of an artifact (30 s, or a JWT's 60 s and skew)
    NoKey,        \* no key is promoted or retired
    NoArtifact

RotationConstants ==
    /\ {MaxTime, MaxSequence, MaxKeys, Validity, Lead, Retention, Life} \subseteq Nat
    /\ Windows \subseteq Nat \X Nat
    /\ Validity <= Lead
    /\ Life <= Retention

VARIABLES
    now,       \* time
    chain,     \* the keysets accepted, oldest first
    latched,   \* an illegal keyset closed trust for good
    artifact   \* the last artifact signed: its key and when

vars == <<now, chain, latched, artifact>>

States == {"SIGN", "VERIFY_ONLY"}

Descriptors(id) ==
    {[id |-> id, state |-> s, notBefore |-> w[1], notAfter |-> w[2]] :
        s \in States, w \in Windows}

OnlineKeys == UNION {Descriptors(id) : id \in Keys}

\* A keyset lists each key at most once (seenOnline) and at most MaxKeys of them.
KeyLists ==
    UNION {{{choice[id] : id \in ids} :
              choice \in {c \in [ids -> OnlineKeys] : \A id \in ids : c[id].id = id}} :
            ids \in {i \in SUBSET Keys : Cardinality(i) \in 1..MaxKeys}}

TypeOK ==
    /\ now \in 0..MaxTime
    /\ chain \in Seq([issued : Nat, expires : Nat, keys : SUBSET OnlineKeys])
    /\ Len(chain) <= MaxSequence
    /\ latched \in BOOLEAN
    /\ artifact \in {NoArtifact} \cup [key : Keys, at : Nat, expires : Nat]

Latest == chain[Len(chain)]

-----------------------------------------------------------------------------
(* Selecting descriptors                                                     *)

Active(k, t) == k.notBefore <= t /\ t < k.notAfter

OnlineKeyAt(keyset, id, t) == \E k \in keyset.keys : k.id = id /\ Active(k, t)

SigningKeyAt(keyset, t) == {k \in keyset.keys : k.state = "SIGN" /\ Active(k, t)}

soleSigningKeyForUse(keys) == {k \in keys : k.state = "SIGN"}

findOnlineKey(keys, excluded, id) == {k \in keys : k.id = id /\ k.id # excluded}

onlineKeyByID(keys, id) == {k \in keys : k.id = id}

sameOnlineKeyMaterial(x, y) ==
    x.id = y.id /\ x.notBefore = y.notBefore /\ x.notAfter = y.notAfter

-----------------------------------------------------------------------------
(* The rules                                                                 *)

\* One SIGN key, active at issue; windows not empty; a life of Validity at most.
ValidateKeyset(keyset) ==
    /\ keyset.expires > keyset.issued
    /\ keyset.expires - keyset.issued <= Validity
    /\ keyset.issued <= now /\ now < keyset.expires
    /\ \A k \in keyset.keys : k.notAfter > k.notBefore
    /\ Cardinality(soleSigningKeyForUse(keyset.keys)) = 1
    /\ SigningKeyAt(keyset, keyset.issued) # {}

\* A key that is only verified with stays, unchanged, until its window ends, and
\* is never left unpromoted past its not_before; a new one is Lead ahead of it.
validateVerifyOnlyContinuity(before, after, promoted, retired) ==
    /\ \A k \in before.keys : k.state = "VERIFY_ONLY" /\ k.id # promoted =>
        /\ ~(k.notBefore > before.issued /\ after.issued >= k.notBefore)
        /\ after.issued < k.notAfter =>
            \E n \in onlineKeyByID(after.keys, k.id) :
                n.state = "VERIFY_ONLY" /\ sameOnlineKeyMaterial(k, n)
        /\ \A n \in onlineKeyByID(after.keys, k.id) : sameOnlineKeyMaterial(k, n)
    /\ \A k \in after.keys : k.state = "VERIFY_ONLY" /\ k.id # retired =>
        \/ onlineKeyByID(before.keys, k.id) # {}
        \/ k.notBefore - after.issued >= Lead

\* Mutant: the retired key may be left out.
RetiredNotKept(before, after, oldSign, newSign) ==
    \E staged \in findOnlineKey(before.keys, oldSign.id, newSign.id) :
        /\ staged.state = "VERIFY_ONLY"
        /\ staged.notBefore - before.issued >= Lead
        /\ after.issued >= staged.notBefore
        /\ sameOnlineKeyMaterial(staged, newSign)
        /\ \A k \in onlineKeyByID(after.keys, oldSign.id) : sameOnlineKeyMaterial(oldSign, k)
        /\ validateVerifyOnlyContinuity(before, after, staged.id, oldSign.id)

\* The cutover from one SIGN key to another: the new one was staged in the keyset
\* accepted last, Lead before its not_before; the old one stays for Retention.
Cutover(before, after, oldSign, newSign) ==
    \E staged \in findOnlineKey(before.keys, oldSign.id, newSign.id),
       oldVerify \in findOnlineKey(after.keys, newSign.id, oldSign.id) :
        /\ staged.state = "VERIFY_ONLY"
        /\ staged.notBefore - before.issued >= Lead
        /\ after.issued >= staged.notBefore
        /\ sameOnlineKeyMaterial(staged, newSign)
        /\ oldVerify.state = "VERIFY_ONLY"
        /\ sameOnlineKeyMaterial(oldSign, oldVerify)
        /\ oldVerify.notAfter >= after.issued + Retention
        /\ validateVerifyOnlyContinuity(before, after, staged.id, oldVerify.id)

validateOnlineRotationForUse(before, after) ==
    \E oldSign \in soleSigningKeyForUse(before.keys),
       newSign \in soleSigningKeyForUse(after.keys) :
        IF oldSign.id = newSign.id
        THEN /\ sameOnlineKeyMaterial(oldSign, newSign)
             /\ validateVerifyOnlyContinuity(before, after, NoKey, NoKey)
        ELSE Cutover(before, after, oldSign, newSign)

ValidateOnlineRotation(transition, cutover) ==
    /\ transition.issued <= cutover.issued
    /\ validateOnlineRotationForUse(transition, cutover)

Accepted(keyset) ==
    /\ ValidateKeyset(keyset)
    /\ Len(chain) > 0 => ValidateOnlineRotation(Latest, keyset)

-----------------------------------------------------------------------------
Init ==
    /\ now = 0
    /\ chain = <<>>
    /\ latched = FALSE
    /\ artifact = NoArtifact

Published ==
    {[issued |-> now, expires |-> now + v, keys |-> l] : v \in 1..Validity, l \in KeyLists}

\* A bridge reads a keyset the publisher has just issued, with a higher sequence.
AcceptKeyset ==
    /\ ~latched
    /\ Len(chain) < MaxSequence
    /\ \E keyset \in Published :
        IF Accepted(keyset)
        THEN chain' = Append(chain, keyset) /\ UNCHANGED latched
        ELSE latched' = TRUE /\ UNCHANGED chain
    /\ UNCHANGED <<now, artifact>>

\* The publisher signs an artifact with the SIGN key of its latest keyset.
Sign ==
    /\ ~latched
    /\ Len(chain) > 0
    /\ now < Latest.expires
    /\ \E k \in SigningKeyAt(Latest, now), life \in 1..Life :
        artifact' = [key |-> k.id, at |-> now, expires |-> now + life]
    /\ UNCHANGED <<now, chain, latched>>

Tick ==
    /\ now < MaxTime
    /\ now' = now + 1
    /\ UNCHANGED <<chain, latched, artifact>>

Next == AcceptKeyset \/ Sign \/ Tick

Spec == Init /\ [][Next]_vars

-----------------------------------------------------------------------------
(* Properties                                                                *)

\* OnlineKeyAt on either side of a rotation: an artifact that has not expired is
\* verified by every keyset that has not expired, by the older one of a bridge
\* that has yet to fetch the cutover and by the newer one of a bridge that has.
ArtifactsVerify ==
    artifact # NoArtifact /\ now < artifact.expires =>
        \A i \in 1..Len(chain) :
            now < chain[i].expires => OnlineKeyAt(chain[i], artifact.key, artifact.at)

\* validateOnlineRotationForUse measures Lead from the keyset accepted last, and no
\* keyset lives longer than Lead: when the SIGN key changes, the keyset before the
\* change has expired, so no bridge holds usable trust across a rotation.
CutoverAfterExpiry ==
    \A i \in 1..Len(chain) - 1 :
        \A k \in soleSigningKeyForUse(chain[i].keys),
           n \in soleSigningKeyForUse(chain[i + 1].keys) :
            k.id # n.id => chain[i].expires <= chain[i + 1].issued

\* validateVerifyOnlyContinuity: an identity keeps the window it was published with
\* for as long as a keyset in an unbroken run lists it.
OneWindowPerKey ==
    \A i \in 1..Len(chain) - 1 :
        \A k \in chain[i].keys, n \in chain[i + 1].keys :
            k.id = n.id => k.notBefore = n.notBefore /\ k.notAfter = n.notAfter
=============================================================================
