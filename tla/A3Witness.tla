----------------------------- MODULE A3Witness -----------------------------
(***************************************************************************)
(* The independent transparency witness: pkg/a3trust/witness.go (the HTTP  *)
(* handler), pkg/db/a3_witness_store.go (its append-only ledger) and       *)
(* cmd/server/a3_runtime.go (activation and shutdown).                     *)
(*                                                                         *)
(* A sequencer proposes tree heads; the witness signs a head at most once  *)
(* per position and only when it extends the last head it signed.  Several *)
(* server processes share one ledger row set, guarded by a transaction     *)
(* scoped advisory lock per environment.  One environment is modelled: the *)
(* lock key and every query carry the environment, so two never meet.      *)
(*                                                                         *)
(* A Merkle root is the sequence of leaves it commits to, tree_size its    *)
(* length, and a verified consistency proof the prefix relation; module    *)
(* MerkleConsistency checks the verifier itself against that relation.     *)
(* Ed25519 signatures are deterministic, so a signature is the pair of the *)
(* key and the signed head.                                                *)
(***************************************************************************)
EXTENDS Naturals, Sequences, FiniteSets, SequencesExt

CONSTANTS
    Procs,              \* server processes sharing the ledger
    Keys,               \* witness seeds the operator may install
    Calls,              \* concurrent POSTs of tree-heads:cosign
    Leaves,             \* directory entries
    MaxTreeSize,        \* bound on the length of the log
    MaxTime,            \* bound on the clock
    Timestamps,         \* the times the sequencer stamps its heads with
    MaximumClockSkew,   \* config.WitnessMaximumClockSkewSec
    MaximumHeadAge,     \* config.WitnessMaximumAgeSeconds
    MaxConcurrency,     \* config.WitnessMaxConcurrency
    RatePerTick,        \* config.WitnessRatePerSecond
    RateBurst,          \* config.WitnessRateBurst
    NoCall, NoKey       \* the lock is free; the process is not serving

A3Bounds ==
    /\ MaxTreeSize \in Nat \ {0} /\ MaxTime \in Nat /\ Timestamps \subseteq Nat
    /\ MaximumClockSkew \in Nat /\ MaximumHeadAge \in Nat \ {0}
    /\ MaxConcurrency \in Nat \ {0}
    /\ RatePerTick \in Nat \ {0} /\ RateBurst \in Nat \ {0}

NoHead == [prior |-> <<>>, root |-> <<>>, ts |-> 0]

VARIABLES
    ledger,   \* hytch_push_vault.a3_directory_witness_heads
    lock,     \* pg_advisory_xact_lock(a3WitnessLockClass, environment)
    now,      \* the clock of the processes
    proc,     \* per process: witness key (NoKey: not serving), limiter tokens
    call,     \* per call: its place, process, proposal and acceptance
    issued    \* the signatures sent with status 200

vars == <<ledger, lock, now, proc, call, issued>>

----------------------------------------------------------------------------
(* Heads and their order.                                                  *)

Roots == SeqOf(Leaves, MaxTreeSize)

\* validTreeHead: a nonempty tree, larger than the predecessor it names.
TreeHeads == {h \in [prior: Roots, root: Roots, ts: Timestamps] :
                Len(h.prior) < Len(h.root)}

TreeSize(h) == Len(h.root)

\* VerifyWitnessExtension: prior size zero needs the empty root and no proof;
\* otherwise the proof shows the prior tree to be a prefix of the new one.
VerifyWitnessExtension(h) == IsPrefix(h.prior, h.root)

\* proposal.NotBefore and NotAfter around the head's own timestamp.
ProposalTimeValid(h) ==
    /\ now + MaximumClockSkew >= h.ts
    /\ now <= h.ts + MaximumHeadAge

Latest(rows) == CHOOSE r \in rows :
                  \A q \in rows : TreeSize(q.head) <= TreeSize(r.head)
AtPosition(rows, n) == {r \in rows : TreeSize(r.head) = n}

----------------------------------------------------------------------------
Idle == [pc |-> "idle", on |-> NoCall, head |-> NoHead, key |-> NoKey,
         replay |-> FALSE]

InFlight(p) == {c \in Calls : call[c].pc # "idle" /\ call[c].on = p}

Init ==
    /\ ledger = {}
    /\ lock = NoCall
    /\ now = 0
    /\ proc = [p \in Procs |-> [key |-> NoKey, tokens |-> 0]]
    /\ call = [c \in Calls |-> Idle]
    /\ issued = {}

\* RequireKeyContinuity: an empty ledger accepts any key, a ledger with rows
\* only the key that signed the latest one.
ContinuousWith(k) == ledger # {} => Latest(ledger).key = k

\* initializeA3RuntimeWithDependencies with the witness enabled: the seed file
\* is read, continuity is checked under the advisory lock, the handler is built
\* with a full token bucket.  The activation barrier, a read-only check of the
\* catalogue, has passed.  A failed step leaves the process down.
StartProcess(p, k) ==
    /\ proc[p].key = NoKey
    /\ lock = NoCall
    /\ ContinuousWith(k)
    /\ proc' = [proc EXCEPT ![p] = [key |-> k, tokens |-> RateBurst]]
    /\ UNCHANGED <<ledger, lock, now, call, issued>>

\* The process ends.  A graceful stop drains the calls first and clears the
\* key; when the drain times out the process exits with the calls unfinished,
\* as it does in a crash.  The server rolls their transactions back, which
\* frees the lock.
StopProcess(p) ==
    /\ proc[p].key # NoKey
    /\ proc' = [proc EXCEPT ![p] = [key |-> NoKey, tokens |-> 0]]
    /\ call' = [c \in Calls |-> IF c \in InFlight(p) THEN Idle ELSE call[c]]
    /\ lock' = IF lock \in InFlight(p) THEN NoCall ELSE lock
    /\ UNCHANGED <<ledger, now, issued>>

\* fixedTokenBucket.Allow refills by elapsed time, up to the burst.
Refilled(tokens) == IF tokens + RatePerTick > RateBurst
                    THEN RateBurst ELSE tokens + RatePerTick

Tick ==
    /\ now < MaxTime
    /\ now' = now + 1
    /\ proc' = [p \in Procs |->
                  IF proc[p].key = NoKey THEN proc[p]
                  ELSE [proc[p] EXCEPT !.tokens = Refilled(@)]]
    /\ UNCHANGED <<ledger, lock, call, issued>>

----------------------------------------------------------------------------
(* One POST: WitnessHandler.ServeHTTP around AcceptDirectoryTreeHead.      *)

Admitted(p) == proc[p].key # NoKey /\ proc[p].tokens > 0

TakeToken(p) == proc' = [proc EXCEPT ![p].tokens = @ - 1]

\* An authorised request with a parsed, verified, sequencer-signed proposal
\* that finds a free slot; its transaction is begun and waits for the lock.
Propose(c, p, h) ==
    /\ call[c].pc = "idle"
    /\ Admitted(p)
    /\ Cardinality(InFlight(p)) < MaxConcurrency
    /\ VerifyWitnessExtension(h)
    /\ TakeToken(p)
    /\ call' = [call EXCEPT ![c] = [Idle EXCEPT !.pc = "locking", !.on = p,
                                                !.head = h, !.key = proc[p].key]]
    /\ UNCHANGED <<ledger, lock, now, issued>>

\* The limiter is asked before the concurrency slot and before the body is
\* parsed: a request refused for either reason has still spent a token.
Refuse(p) ==
    /\ Admitted(p)
    /\ TakeToken(p)
    /\ UNCHANGED <<ledger, lock, now, call, issued>>

End(c) == call' = [call EXCEPT ![c] = Idle]
Unlock == lock' = NoCall

\* Mutant: the size of the predecessor stands for its root.
AdvancesBySize(h) ==
    IF ledger = {} THEN h.prior = <<>>
    ELSE /\ Len(h.prior) = TreeSize(Latest(ledger).head)
         /\ h.ts >= Latest(ledger).head.ts

\* The fork rule for a head beyond the latest accepted one.
Advances(h) ==
    IF ledger = {} THEN h.prior = <<>>
    ELSE /\ h.prior = Latest(ledger).head.root
         /\ h.ts >= Latest(ledger).head.ts

Behind(h) == ledger # {} /\ TreeSize(h) <= TreeSize(Latest(ledger).head)

\* The stored receipt of an exact replay: same position, same canonical head
\* (a head determines its proof), same key.
StoredReceipt(c) == {r \in AtPosition(ledger, TreeSize(call[c].head)) :
                       r.head = call[c].head /\ r.key = call[c].key}

LockFree == lock = NoCall

\* The advisory lock is taken, the latest row read.  READ COMMITTED gives the
\* read a snapshot after the lock, so acquiring and reading are one step.
\* A replay commits and carries the stored signature out.
LockReplay(c) ==
    /\ call[c].pc = "locking"
    /\ LockFree
    /\ ContinuousWith(call[c].key)
    /\ Behind(call[c].head)
    /\ \E r \in StoredReceipt(c) :
         call' = [call EXCEPT ![c] = [@ EXCEPT !.pc = "accepted", !.head = r.head,
                                               !.replay = TRUE]]
    /\ UNCHANGED <<ledger, lock, now, proc, issued>>

\* A new head that is fresh and names the accepted predecessor goes on to be
\* signed with the lock held.
LockAdvance(c) ==
    /\ call[c].pc = "locking"
    /\ LockFree
    /\ ContinuousWith(call[c].key)
    /\ ~Behind(call[c].head)
    /\ ProposalTimeValid(call[c].head)
    /\ Advances(call[c].head)
    /\ lock' = c
    /\ call' = [call EXCEPT ![c].pc = "signing"]
    /\ UNCHANGED <<ledger, now, proc, issued>>

\* Every other outcome under the lock is an error: another key's ledger, a
\* fork, a position that was skipped, a stale head.  The transaction rolls back.
LockRefuse(c) ==
    /\ call[c].pc = "locking"
    /\ LockFree
    /\ LET h == call[c].head IN
         \/ ~ContinuousWith(call[c].key)
         \/ Behind(h) /\ StoredReceipt(c) = {}
         \/ ~Behind(h) /\ ~(ProposalTimeValid(h) /\ Advances(h))
    /\ End(c)
    /\ UNCHANGED <<ledger, lock, now, proc, issued>>

NewRow(c) == [head |-> call[c].head, key |-> call[c].key]

\* The head is checked for freshness once more, signed, inserted and committed.
\* The primary key (environment, tree_size) refuses a second row of a position.
SignAndCommit(c) ==
    /\ call[c].pc = "signing"
    /\ ProposalTimeValid(call[c].head)
    /\ AtPosition(ledger, TreeSize(call[c].head)) = {}
    /\ ledger' = ledger \cup {NewRow(c)}
    /\ call' = [call EXCEPT ![c].pc = "accepted"]
    /\ Unlock
    /\ UNCHANGED <<now, proc, issued>>

\* The commit reached the server and its acknowledgement did not come back.
CommitUnknown(c) ==
    /\ call[c].pc = "signing"
    /\ ProposalTimeValid(call[c].head)
    /\ AtPosition(ledger, TreeSize(call[c].head)) = {}
    /\ ledger' = ledger \cup {NewRow(c)}
    /\ End(c)
    /\ Unlock
    /\ UNCHANGED <<now, proc, issued>>

\* The head went stale, the statement failed, or the request deadline passed
\* in any place before the commit.
Abandon(c) ==
    /\ call[c].pc \in {"locking", "signing"}
    /\ lock' = IF lock = c THEN NoCall ELSE lock
    /\ End(c)
    /\ UNCHANGED <<ledger, now, proc, issued>>

\* The last check of the handler: a new acceptance must still be fresh, a
\* replay need not be.
Answerable(c) == ProposalTimeValid(call[c].head) \/ call[c].replay

Respond(c) ==
    /\ call[c].pc = "accepted"
    /\ Answerable(c)
    /\ issued' = issued \cup {NewRow(c)}
    /\ End(c)
    /\ UNCHANGED <<ledger, lock, now, proc>>

RespondUnavailable(c) ==
    /\ call[c].pc = "accepted"
    /\ ~Answerable(c)
    /\ End(c)
    /\ UNCHANGED <<ledger, lock, now, proc, issued>>

CallStep(c) ==
    \/ LockReplay(c) \/ LockAdvance(c) \/ LockRefuse(c)
    \/ SignAndCommit(c) \/ CommitUnknown(c) \/ Abandon(c)
    \/ Respond(c) \/ RespondUnavailable(c)

Next ==
    \/ Tick
    \/ \E p \in Procs :
         \/ \E k \in Keys : StartProcess(p, k)
         \/ StopProcess(p)
         \/ Refuse(p)
         \/ \E c \in Calls, h \in TreeHeads : Propose(c, p, h)
    \/ \E c \in Calls : CallStep(c)

Spec == Init /\ [][Next]_vars

----------------------------------------------------------------------------
(* Properties.                                                             *)

Rows == [head: TreeHeads, key: Keys]

\* Types of the ledger, the lock and the calls; the token bucket stays within
\* its burst and a signing call is the one that holds the lock.
TypeOK ==
    /\ ledger \subseteq Rows
    /\ issued \subseteq Rows
    /\ lock \in Calls \cup {NoCall}
    /\ now \in 0..MaxTime
    /\ proc \in [Procs -> [key: Keys \cup {NoKey}, tokens: 0..RateBurst]]
    /\ \A c \in Calls :
         /\ call[c].pc \in {"idle", "locking", "signing", "accepted"}
         /\ call[c].pc # "idle" => call[c].head \in TreeHeads
         /\ (lock = c) <=> (call[c].pc = "signing")

\* The witness never signs two views of the directory: of any two signed heads,
\* durable or answered, of any process, the smaller is a prefix of the larger,
\* and time does not run backwards along them.  AcceptDirectoryTreeHead's fork
\* rule under the advisory lock is what makes it so.
OneLog ==
    \A r, q \in ledger \cup issued :
      TreeSize(r.head) <= TreeSize(q.head) =>
        IsPrefix(r.head.root, q.head.root) /\ r.head.ts <= q.head.ts

\* No signature leaves a process before its row is durable, so a restart can
\* always replay what the sequencer holds.
IssuedIsDurable == issued \subseteq ledger

\* A seed change is never an implicit key rotation: two processes activated
\* with different seeds over an empty ledger cannot both extend it.
OneKey == \A r, q \in ledger : r.key = q.key

\* The receipt of a durable head stays obtainable: whenever a process that holds
\* its key has the exact proposal waiting, taking the lock leads to the receipt
\* and the receipt is answered whatever the time.
ReplayStaysOpen ==
    \A c \in Calls : NewRow(c) \in ledger =>
      /\ call[c].pc = "locking" /\ LockFree => ENABLED LockReplay(c)
      /\ call[c].pc = "accepted" /\ call[c].replay => ENABLED Respond(c)
=============================================================================
