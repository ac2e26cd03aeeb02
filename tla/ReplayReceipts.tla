--------------------------- MODULE ReplayReceipts ---------------------------
(***************************************************************************)
(* The receipts by which a service token is used once: A9ReplayStore       *)
(* (pkg/db/a9_store.go) and, with the same statements on a table of its    *)
(* own, A10ReplayStore (pkg/db/a10_store.go).                              *)
(*                                                                         *)
(* A consume is a READ COMMITTED transaction of four statements that other *)
(* transactions interleave with, so each statement is a step.  An INSERT   *)
(* that meets the row of an open transaction waits for that transaction.   *)
(* clock is the database's.  The ghost variable spent remembers tokens     *)
(* whose receipt was committed, also when the receipt is gone.             *)
(***************************************************************************)
EXTENDS Integers

CONSTANTS
    Calls,      \* calls of Consume
    Jtis,       \* token identifiers
    Expires,    \* Expires[j]: the exp claim of token j
    Skew,       \* clock skew allowed on both sides (5 s)
    MaxTime,    \* bound on the clock
    None

ReplayConstants ==
    /\ Skew \in Nat /\ MaxTime \in Nat
    /\ Expires \in [Jtis -> Nat]

VARIABLES
    clock,      \* the database's clock
    receipts,   \* receipts[j]: "absent", "committed", or the call whose insert is open
    consume,    \* consume[c]: the token and how far call c got
    spent       \* ghost: tokens consumed durably, ever

replayVars == <<clock, receipts, consume, spent>>

NoCall == [jti |-> None, at |-> "idle"]

Answers == {"consumed", "replay", "unavailable"}

ReplayTypeOK ==
    /\ clock \in 0..MaxTime
    /\ receipts \in [Jtis -> {"absent", "committed"} \cup Calls]
    /\ consume \in [Calls -> [jti : Jtis \cup {None},
                              at : {"idle", "sampled", "inserted", "checked", "dead"} \cup Answers]]
    /\ spent \subseteq Jtis

ReplayInit ==
    /\ clock = 0
    /\ receipts = [j \in Jtis |-> "absent"]
    /\ consume = [c \in Calls |-> NoCall]
    /\ spent = {}

RetainUntil(j) == Expires[j] + Skew

At(c, step) == [consume EXCEPT ![c].at = step]

\* The caller's clock and then the database's must be within the retention.
Begin(c, j, now) ==
    /\ consume[c].at = "idle"
    /\ consume' = [consume EXCEPT ![c] =
          [jti |-> j, at |-> IF now > RetainUntil(j) \/ clock > RetainUntil(j)
                             THEN "unavailable" ELSE "sampled"]]
    /\ UNCHANGED <<clock, receipts, spent>>

\* INSERT ... ON CONFLICT DO NOTHING.
Insert(c) ==
    LET j == consume[c].jti IN
    /\ consume[c].at = "sampled"
    /\ \/ /\ receipts[j] = "absent"
          /\ receipts' = [receipts EXCEPT ![j] = c]
          /\ consume' = At(c, "inserted")
       \/ /\ receipts[j] = "committed"
          /\ consume' = At(c, "replay")
          /\ UNCHANGED receipts
    /\ UNCHANGED <<clock, spent>>

\* Mutant: the row of a transaction that failed stays.
NoRollback(c) == receipts' = receipts

Rollback(c) ==
    receipts' = [j \in Jtis |-> IF receipts[j] = c THEN "absent" ELSE receipts[j]]

\* Mutant: the clock is not read again after the insert.
RecheckSkipped(c) ==
    /\ consume[c].at = "inserted"
    /\ consume' = At(c, "checked")
    /\ UNCHANGED <<clock, receipts, spent>>

\* The insert may have waited: the second reading of the clock.
Recheck(c) ==
    /\ consume[c].at = "inserted"
    /\ \/ /\ clock > RetainUntil(consume[c].jti)
          /\ Rollback(c)
          /\ consume' = At(c, "unavailable")
       \/ /\ clock <= RetainUntil(consume[c].jti)
          /\ consume' = At(c, "checked")
          /\ UNCHANGED receipts
    /\ UNCHANGED <<clock, spent>>

\* The commit; its acknowledgement may be lost, which the caller sees as an error.
Commit(c) ==
    LET j == consume[c].jti IN
    /\ consume[c].at = "checked"
    /\ receipts' = [receipts EXCEPT ![j] = "committed"]
    /\ spent' = spent \cup {j}
    /\ \E answer \in {"consumed", "unavailable"} : consume' = At(c, answer)
    /\ UNCHANGED clock

\* A statement fails or the context ends: the deferred rollback.
Fail(c) ==
    /\ consume[c].at \in {"sampled", "inserted", "checked"}
    /\ Rollback(c)
    /\ consume' = At(c, "unavailable")
    /\ UNCHANGED <<clock, spent>>

PurgeExpired ==
    LET expired == {j \in Jtis : receipts[j] = "committed" /\ RetainUntil(j) < clock} IN
    /\ expired # {}
    /\ receipts' = [j \in Jtis |-> IF j \in expired THEN "absent" ELSE receipts[j]]
    /\ UNCHANGED <<clock, consume, spent>>

Tick ==
    /\ clock < MaxTime
    /\ clock' = clock + 1
    /\ UNCHANGED <<receipts, consume, spent>>

-----------------------------------------------------------------------------
(* What the calls look like from outside                                     *)

Asked == [c \in Calls |-> consume[c].jti]

Answered == [c \in Calls |-> IF consume[c].at \in Answers THEN consume[c].at ELSE None]

Promise == INSTANCE OneUse WITH asked <- Asked, answer <- Answered

\* ReplayStore's contract: the store keeps the promise of one-use tokens, whatever
\* the skew of the callers, the order of statements of concurrent transactions, and
\* although receipts are deleted once their retention ended.
ImplementsOneUse == Promise!Spec
=============================================================================
