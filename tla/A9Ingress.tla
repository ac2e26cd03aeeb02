------------------------------ MODULE A9Ingress ------------------------------
(***************************************************************************)
(* The private A9 endpoints (pkg/a9api/handler.go) with their service      *)
(* authentication (pkg/a9auth, ValidateJWT of pkg/a9trust): what one       *)
(* request does between its arrival and its answer, for requests that run  *)
(* at once on several replicas, are retried with the same token, and are   *)
(* cut off by failures and crashes.                                        *)
(*                                                                         *)
(* A step ends where the handler waits for the database.  A token binds    *)
(* one endpoint and one body.  A body is named for the verdict its         *)
(* verification gives: "eligible", "signed" (a watermark that is a signed  *)
(* statement of uncertainty), "doubt" (RequiresKeysetUncertainty),         *)
(* "inconclusive" or "invalid".  The vault's transactions are those of     *)
(* A9Vault and the keyset state that of A9Trust; here they are one step    *)
(* and one row.                                                            *)
(***************************************************************************)
EXTENDS ReplayReceipts

CONSTANTS
    Replicas,
    Offset,      \* Offset[p]: how far the clock of replica p is off the database's
    Issued,      \* Issued[j]: the iat claim of token j
    Bound,       \* Bound[j]: the endpoint and the body token j was signed for
    Signer,      \* Signer[j]: the key that signed it
    KeysOf,      \* KeysOf[s]: the SERVICE_AUTH keys of keyset s
    MaxLife,     \* longest life of a token (60 s)
    MaxCrashes   \* bound on crashes

Kinds == {"control", "watermark", "replace"}
Bodies == {"eligible", "signed", "doubt", "inconclusive", "invalid"}
Keysets == DOMAIN KeysOf

IngressConstants ==
    /\ Offset \in [Replicas -> Int]
    /\ Issued \in [Jtis -> Nat]
    /\ Bound \in [Jtis -> [kind : Kinds, body : Bodies]]
    /\ MaxLife \in Nat /\ MaxCrashes \in Nat

VARIABLES
    keyset,    \* sequence of the durable keyset
    latched,   \* its uncertainty latch
    request,   \* request[c]: the request that makes call c
    effects,   \* requests whose transaction committed in the vault
    crashes

vars == <<clock, receipts, consume, spent, keyset, latched, request, effects, crashes>>

NoRequest == [pc |-> "idle", replica |-> None, jti |-> None, kind |-> None,
              body |-> None, now |-> 0, seq |-> 0, status |-> 0]

TypeOK ==
    /\ ReplayTypeOK
    /\ keyset \in Keysets /\ latched \in BOOLEAN
    /\ request \in [Calls ->
          [pc : {"idle", "trust", "token", "consume", "dispatch", "store", "done", "dead"},
           replica : Replicas \cup {None}, jti : Jtis \cup {None}, kind : Kinds \cup {None},
           body : Bodies \cup {None}, now : Int, seq : Keysets \cup {0},
           status : {0, 200, 400, 401, 404, 405, 409, 413, 415, 503}]]
    /\ \A c \in Calls : request[c].pc = "done" <=> request[c].status # 0
    /\ effects \subseteq Calls
    /\ crashes \in 0..MaxCrashes

Init ==
    /\ ReplayInit
    /\ keyset = 1 /\ latched = FALSE
    /\ request = [c \in Calls |-> NoRequest]
    /\ effects = {} /\ crashes = 0

-----------------------------------------------------------------------------
(* Authentication                                                            *)

\* Claims, binding to the request, time window, key.  nbf is taken to be iat.
ValidateJWT(q) ==
    /\ Expires[q.jti] > Issued[q.jti] /\ Expires[q.jti] - Issued[q.jti] <= MaxLife
    /\ Bound[q.jti] = [kind |-> q.kind, body |-> q.body]
    /\ q.now >= Issued[q.jti] - Skew /\ q.now <= RetainUntil(q.jti)
    /\ Signer[q.jti] \in KeysOf[q.seq]

Answer(q, code) == [q EXCEPT !.pc = "done", !.status = code]

\* Mutant: a token whose consumption is unknown is let through.
AfterConsumeOpen(q, at) ==
    CASE at \in {"consumed", "unavailable"} -> [q EXCEPT !.pc = "dispatch"]
      [] at = "replay"                      -> Answer(q, 401)
      [] OTHER                              -> [q EXCEPT !.pc = "consume"]

\* What the answer of Consume, once there is one, does to the request.
AfterConsume(q, at) ==
    CASE at = "consumed"    -> [q EXCEPT !.pc = "dispatch"]
      [] at = "replay"      -> Answer(q, 401)
      [] at = "unavailable" -> Answer(q, 503)
      [] OTHER              -> [q EXCEPT !.pc = "consume"]

-----------------------------------------------------------------------------
(* The handler                                                               *)

\* Wrong path, method, target, bearer spelling, content type or size, in this order.
Malformed(c) ==
    /\ request[c].pc = "idle"
    /\ \E code \in {404, 405, 400, 401, 415, 413} :
          request' = [request EXCEPT ![c] = Answer(@, code)]
    /\ UNCHANGED <<replayVars, keyset, latched, effects, crashes>>

\* ServeHTTP up to the reading of the clock.
Arrive(c, p, j, kind, body) ==
    /\ request[c].pc = "idle"
    /\ request' = [request EXCEPT ![c] =
          [NoRequest EXCEPT !.pc = "trust", !.replica = p, !.jti = j, !.kind = kind,
                            !.body = body, !.now = clock + Offset[p]]]
    /\ UNCHANGED <<replayVars, keyset, latched, effects, crashes>>

Verifier(c) ==
    /\ request[c].pc = "trust"
    /\ \/ /\ ~latched
          /\ request' = [request EXCEPT ![c].pc = "token", ![c].seq = keyset]
       \/ request' = [request EXCEPT ![c] = Answer(@, 503)]
    /\ UNCHANGED <<replayVars, keyset, latched, effects, crashes>>

Refuse(c) ==
    /\ request[c].pc = "token"
    /\ ~ValidateJWT(request[c])
    /\ request' = [request EXCEPT ![c] = Answer(@, 401)]
    /\ UNCHANGED <<replayVars, keyset, latched, effects, crashes>>

VerifyAndConsume(c) ==
    /\ request[c].pc = "token"
    /\ ValidateJWT(request[c])
    /\ Begin(c, request[c].jti, request[c].now)
    /\ request' = [request EXCEPT ![c] = AfterConsume(@, consume'[c].at)]
    /\ UNCHANGED <<keyset, latched, effects, crashes>>

Consuming(c) ==
    /\ request[c].pc = "consume"
    /\ Insert(c) \/ Recheck(c) \/ Commit(c)
    /\ request' = [request EXCEPT ![c] = AfterConsume(@, consume'[c].at)]
    /\ UNCHANGED <<keyset, latched, effects, crashes>>

ConsumeFails(c) ==
    /\ request[c].pc = "consume"
    /\ Fail(c)
    /\ request' = [request EXCEPT ![c] = AfterConsume(@, consume'[c].at)]
    /\ UNCHANGED <<keyset, latched, effects, crashes>>

\* A signed statement of uncertainty is stored, by the watermark endpoint only.
Passes(q) == q.body = "eligible" \/ (q.kind = "watermark" /\ q.body = "signed")

statusForArtifactFailure(q) == IF q.body = "invalid" THEN 400 ELSE 503

Latches(q) == q.body = "doubt"

\* A replacement first takes a lease on the topic secrets of the very keyset the
\* token was verified with.
LeaseGranted(q) == q.kind # "replace" \/ (keyset = q.seq /\ ~latched)

Dispatch(c) ==
    LET q == request[c] IN
    /\ q.pc = "dispatch"
    /\ \/ /\ LeaseGranted(q)
          /\ request' = [request EXCEPT ![c] =
                IF Passes(q) THEN [q EXCEPT !.pc = "store"]
                ELSE Answer(q, statusForArtifactFailure(q))]
          /\ latched' = (latched \/ Latches(q))
       \/ /\ q.kind = "replace"
          /\ request' = [request EXCEPT ![c] = Answer(q, 503)]
          /\ UNCHANGED latched
    /\ UNCHANGED <<replayVars, keyset, effects, crashes>>

\* ApplyControl, ApplyWatermark or Replace: a serializable transaction that joins the
\* keyset of the request to the keyset row.  Its result may be lost after the commit.
Store(c) ==
    LET q == request[c] IN
    /\ q.pc = "store"
    /\ \/ /\ keyset = q.seq /\ ~latched
          /\ effects' = effects \cup {c}
          /\ \E code \in {200, 409, 503} : request' = [request EXCEPT ![c] = Answer(q, code)]
       \/ /\ request' = [request EXCEPT ![c] = Answer(q, 503)]
          /\ UNCHANGED effects
    /\ UNCHANGED <<replayVars, keyset, latched, crashes>>

-----------------------------------------------------------------------------
(* The environment                                                           *)

\* A refresh accepts the next keyset.
Rotate ==
    /\ keyset + 1 \in Keysets
    /\ keyset' = keyset + 1
    /\ UNCHANGED <<replayVars, latched, request, effects, crashes>>

\* A replica dies: its open transactions are rolled back and nobody is answered.
Crash(p) ==
    LET lost == {c \in Calls : request[c].replica = p /\ request[c].pc \notin {"done", "dead"}} IN
    /\ crashes < MaxCrashes
    /\ lost # {}
    /\ crashes' = crashes + 1
    /\ request' = [c \in Calls |-> IF c \in lost THEN [request[c] EXCEPT !.pc = "dead"]
                                   ELSE request[c]]
    /\ consume' = [c \in Calls |->
          IF c \in lost /\ consume[c].at \in {"sampled", "inserted", "checked"}
          THEN [consume[c] EXCEPT !.at = "dead"] ELSE consume[c]]
    /\ receipts' = [j \in Jtis |-> IF receipts[j] \in lost THEN "absent" ELSE receipts[j]]
    /\ UNCHANGED <<clock, spent, keyset, latched, effects>>

Database == (PurgeExpired \/ Tick) /\ UNCHANGED <<keyset, latched, request, effects, crashes>>

Handle(c) ==
    \/ Verifier(c) \/ Refuse(c) \/ VerifyAndConsume(c) \/ Consuming(c) \/ Dispatch(c) \/ Store(c)

Next ==
    \/ \E c \in Calls, p \in Replicas, j \in Jtis :
          Arrive(c, p, j, Bound[j].kind, Bound[j].body)
    \/ \E c \in Calls, p \in Replicas, j \in Jtis : Arrive(c, p, j, "control", "doubt")
    \/ \E c \in Calls : Malformed(c) \/ Handle(c) \/ ConsumeFails(c)
    \/ \E p \in Replicas : Crash(p)
    \/ Rotate
    \/ Database

Spec == Init /\ [][Next]_vars

\* A request the server has read runs on: the handler's goroutine is scheduled, and a
\* waiting INSERT is woken when the transaction it waits for ends.
Fairness == \A c \in Calls : WF_vars(Handle(c))

FairSpec == Spec /\ Fairness

-----------------------------------------------------------------------------
(* Properties                                                                *)

\* A token moves the vault at most once, however often it is presented, at which
\* replicas, with what clocks, and after its receipt was purged (VerifyAndConsume
\* before dispatch).
OneEffectPerToken ==
    \A c, d \in effects : request[c].jti = request[d].jti => c = d

\* The answer can be relied on: 200 and 409 mean that the vault committed; 400 and
\* 401 that it did not, and a 401 for a token that is in order means that the token
\* was consumed durably.
AnswerIsTrue ==
    \A c \in Calls :
       /\ request[c].status \in {200, 409} => c \in effects
       /\ request[c].status \in {400, 401, 404, 405, 413, 415} => c \notin effects
       /\ /\ request[c].status = 401 /\ request[c].jti # None
          /\ ValidateJWT(request[c])
          => request[c].jti \in spent

\* Only an artifact that came with a token signed for it, and durably consumed, can
\* latch keyset uncertainty (statusForArtifactFailure runs after VerifyAndConsume).
LatchIsAuthenticated ==
    latched => \E c \in Calls : /\ consume[c].at = "consumed"
                                /\ Bound[request[c].jti].body = "doubt"

\* Every request that arrived is answered, unless its replica died.
RequestsEnd == \A c \in Calls : []<>(request[c].pc \in {"idle", "done", "dead"})
=============================================================================
