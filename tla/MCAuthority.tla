---------------------------- MODULE MCAuthority ----------------------------
(***************************************************************************)
(* What decides whether a push may be sent: the A9 authority in the vault, *)
(* the ingress of signed artifacts with its one-use tokens, and the trust  *)
(* managers that agree on the keyset, on small instances.  A behaviour is  *)
(* a behaviour of one of them: part says of which, and the others rest.    *)
(***************************************************************************)
EXTENDS Integers, TLC

CONSTANTS b1, b2, e1, e2, c1, c2, j1, p1, p2, k1, k2, r1, r2, None

VARIABLES
    part,
    authority, binding, tombs, events, marks, receipts, routes, bound, gate6,
    keyset, safe, held, jobs, sending,                            \* A9Vault
    clock, tokens, consume, spent, sequence, latched, request,
    effects, crashes,                                             \* A9Ingress
    row, rows, served, life, snap, hard, durable, closed, mu,
    refresher, caller, prober, latcher, wake, closer              \* A9Trust

vault == <<authority, binding, tombs, events, marks, receipts, routes, bound, gate6,
           keyset, safe, held, jobs, sending>>
ingress == <<clock, tokens, consume, spent, sequence, latched, request, effects, crashes>>
trust == <<row, rows, served, life, snap, hard, durable, closed, mu,
           refresher, caller, prober, latcher, wake, closer>>
vars == <<part, vault, ingress, trust>>

Control(e, n, a, b, v) == [epoch |-> e, seq |-> n, action |-> a, binding |-> b, version |-> v]
Mark(e, n, c, s) == [epoch |-> e, seq |-> n, committed |-> c, status |-> s]
Request(e, g, subs, i) == [epoch |-> e, generation |-> g, subs |-> subs, identity |-> i]

\* Two epochs of one binding: asserted and revoked in the first, asserted again
\* under an old and a new version in the second.
TwoEpochs == INSTANCE A9Vault WITH
    Epochs <- {e1, e2}, Bindings <- {b1}, MaxVersion <- 3,
    Controls <- {Control(e1, 1, "upsert", b1, 1), Control(e1, 2, "revoke", b1, 2),
                 Control(e2, 1, "upsert", b1, 1), Control(e2, 2, "upsert", b1, 3)},
    Marks <- {Mark(e1, 1, 1, "current"), Mark(e2, 1, 2, "current")},
    Replacements <- {Request(e1, 1, b1 :> 1, "i"), Request(e2, 1, b1 :> 3, "i")},
    MaxReceipts <- 7, MaxKeyset <- 2, MaxJobs <- 1

\* One epoch of two bindings whose set is replaced twice; position 1 of the
\* stream is signed twice.
TwoSets == INSTANCE A9Vault WITH
    Epochs <- {e1}, Bindings <- {b1, b2}, MaxVersion <- 2,
    Controls <- {Control(e1, 1, "upsert", b1, 1), Control(e1, 2, "upsert", b2, 1),
                 Control(e1, 3, "revoke", b1, 2), Control(e1, 1, "upsert", b2, 1)},
    Marks <- {Mark(e1, 1, 1, "current"), Mark(e1, 2, 2, "current"), Mark(e1, 2, 1, "uncertain")},
    Replacements <- {Request(e1, 1, b1 :> 1, "i"), Request(e1, 2, b2 :> 1, "i"),
                     Request(e1, 2, b2 :> 1, "j")},
    MaxReceipts <- 6, MaxKeyset <- 2, MaxJobs <- 2

\* One token in two calls, two replicas, one of which has a slow clock, and a crash.
Ingress == INSTANCE A9Ingress WITH
    Calls <- {c1, c2}, Jtis <- {j1}, Replicas <- {p1, p2},
    Offset <- p1 :> 0 @@ p2 :> -1,
    Issued <- j1 :> 1, Expires <- j1 :> 2,
    KeysOf <- <<{k1}, {k1, k2}>>, Signer <- j1 :> k2,
    Bound <- j1 :> [kind |-> "replace", body |-> "eligible"],
    Skew <- 1, MaxLife <- 2, MaxTime <- 5, MaxCrashes <- 1,
    receipts <- tokens, keyset <- sequence

\* Two replicas and three keysets, two of them different ones under one sequence;
\* and one replica over a database that may be restored.
Keyset(n, v) == [seq |-> n, ver |-> v]
Joins == INSTANCE A9Trust WITH
    Replicas <- {r1, r2}, Objects <- {Keyset(1, "a"), Keyset(1, "b"), Keyset(2, "a")},
    Events <- {"lease", "crash"}
Restore == INSTANCE A9Trust WITH
    Replicas <- {r1}, Objects <- {Keyset(1, "a"), Keyset(2, "a")},
    Events <- {"restore", "lease", "rotation", "ready"}

ASSUME /\ Ingress!ReplayConstants /\ Ingress!IngressConstants
       /\ Joins!TrustConstants /\ Restore!TrustConstants

Off == "off"

VaultRests ==
    /\ authority = Off /\ binding = Off /\ tombs = Off /\ events = Off /\ marks = Off
    /\ receipts = Off /\ routes = Off /\ bound = Off /\ gate6 = Off /\ keyset = Off
    /\ safe = Off /\ held = Off /\ jobs = Off /\ sending = Off

TrustRests ==
    /\ row = Off /\ rows = Off /\ served = Off /\ life = Off /\ snap = Off /\ hard = Off
    /\ durable = Off /\ closed = Off /\ mu = Off /\ refresher = Off /\ caller = Off
    /\ prober = Off /\ latcher = Off /\ wake = Off /\ closer = Off

Init ==
    /\ Ingress!Init
    /\ \/ part = "epochs" /\ TwoEpochs!Init /\ TrustRests
       \/ part = "sets" /\ TwoSets!Init /\ TrustRests
       \/ part = "ingress" /\ VaultRests /\ TrustRests
       \/ part = "joins" /\ Joins!Init /\ VaultRests
       \/ part = "restore" /\ Restore!Init /\ VaultRests

Next ==
    \/ /\ \/ part = "epochs" /\ TwoEpochs!Next
          \/ part = "sets" /\ TwoSets!Next
       /\ UNCHANGED <<part, ingress, trust>>
    \/ /\ part = "ingress" /\ Ingress!Next
       /\ UNCHANGED <<part, vault, trust>>
    \/ /\ \/ part = "joins" /\ Joins!Next
          \/ part = "restore" /\ Restore!Next
       /\ UNCHANGED <<part, vault, ingress>>

Spec == Init /\ [][Next]_vars

Symmetry == Permutations({r1, r2})

-----------------------------------------------------------------------------
\* The types of each component.
TypeOK ==
    CASE part = "epochs"  -> TwoEpochs!TypeOK
      [] part = "sets"    -> TwoSets!TypeOK
      [] part = "ingress" -> Ingress!TypeOK
      [] part = "joins"   -> Joins!TypeOK
      [] part = "restore" -> Restore!TypeOK

\* What is routed and sent is authorised.  Neither an active binding nor a route
\* nor a live job has a version that was revoked; the cursor stands for events
\* accepted in order; a route belongs to the current epoch, generation and
\* assertion; a guard keeps all of that still while its notification is on the
\* way; and a generation changes only with its whole set of routes
\* (ApplyControl, ApplyWatermark, Replace, BeginDeliveryAttempt).
VaultIsCurrent ==
    /\ [](CASE part = "epochs" -> /\ TwoEpochs!DenialIsFinal /\ TwoEpochs!CursorIsProved
                                  /\ TwoEpochs!RoutesAreCurrent /\ TwoEpochs!EgressAuthorised
            [] part = "sets" -> /\ TwoSets!DenialIsFinal /\ TwoSets!CursorIsProved
                                /\ TwoSets!RoutesAreCurrent /\ TwoSets!EgressAuthorised
            [] OTHER -> TRUE)
    /\ [][CASE part = "epochs" -> TwoEpochs!ReplacementIsWhole
            [] part = "sets" -> TwoSets!ReplacementIsWhole
            [] OTHER -> TRUE]_vars

\* The receipts implement OneUse: a token is consumed once, and a replay is only
\* said of a token that was consumed (A9ReplayStore.Consume).
ImplementsOneUse == Ingress!ImplementsOneUse

\* A token moves the vault at most once, whatever replicas and clocks it meets and
\* after its receipt was purged; the status code can be relied on; and a body that
\* casts doubt on the epoch latches nothing unless a token is bound to it
\* (VerifyAndConsume before dispatch).
AnswersAreTrue ==
    part = "ingress" => /\ Ingress!OneEffectPerToken /\ Ingress!AnswerIsTrue
                        /\ Ingress!LatchIsAuthenticated

\* A request is granted only the keyset its read of the row found, and none that
\* was replaced or in doubt when the request began; a lease pins its snapshot;
\* hardDurable is only set once the row is latched; and across replicas the
\* accepted sequence never falls and the latch is never cleared, unless the
\* database is restored (CurrentVerifier, acceptKeyset, runLatchRetry).
TrustIsCurrent ==
    /\ [](CASE part = "joins" -> /\ Joins!GrantsMatchRow /\ Joins!GrantsNotStale
                                 /\ Joins!LeasePinsSnapshot /\ Joins!DurableIsDurable
            [] part = "restore" -> Restore!GrantsMatchRow /\ Restore!LeasePinsSnapshot
            [] OTHER -> TRUE)
    /\ [][part = "joins" => Joins!HighWater]_vars
============================================================================
