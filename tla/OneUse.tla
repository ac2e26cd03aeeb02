-------------------------------- MODULE OneUse --------------------------------
(***************************************************************************)
(* What a ReplayStore promises (pkg/a9auth/auth.go), without a clock, rows *)
(* or transactions: the first durable consume of a token is answered       *)
(* "consumed", "replay" is only said of a token that was consumed, and any *)
(* doubt is "unavailable".  spent never shrinks: that receipts are deleted *)
(* again must not be visible here.                                         *)
(***************************************************************************)
CONSTANTS Calls, Jtis, None

VARIABLES
    asked,    \* asked[c]: the token call c is about, None before the call
    answer,   \* answer[c]: what the call returned, None before it returns
    spent     \* tokens that were consumed durably

vars == <<asked, answer, spent>>

Init ==
    /\ asked = [c \in Calls |-> None]
    /\ answer = [c \in Calls |-> None]
    /\ spent = {}

Ask(c) ==
    /\ asked[c] = None
    /\ \E j \in Jtis : asked' = [asked EXCEPT ![c] = j]
    /\ UNCHANGED <<answer, spent>>

Pending(c) == asked[c] # None /\ answer[c] = None

First(c) ==
    /\ Pending(c)
    /\ asked[c] \notin spent
    /\ spent' = spent \cup {asked[c]}
    /\ answer' = [answer EXCEPT ![c] = "consumed"]
    /\ UNCHANGED asked

Replay(c) ==
    /\ Pending(c)
    /\ asked[c] \in spent
    /\ answer' = [answer EXCEPT ![c] = "replay"]
    /\ UNCHANGED <<asked, spent>>

\* The answer of a failed call says nothing: it may or may not have consumed.
Unavailable(c) ==
    /\ Pending(c)
    /\ spent' \in {spent, spent \cup {asked[c]}}
    /\ answer' = [answer EXCEPT ![c] = "unavailable"]
    /\ UNCHANGED asked

\* A call refused before it asks about a token (not made, or out of date).
Refuse(c) ==
    /\ asked[c] = None
    /\ \E j \in Jtis : asked' = [asked EXCEPT ![c] = j]
    /\ answer' = [answer EXCEPT ![c] = "unavailable"]
    /\ UNCHANGED spent

\* A step changes what was promised.
Next ==
    /\ vars' # vars
    /\ \E c \in Calls : Ask(c) \/ First(c) \/ Replay(c) \/ Unavailable(c) \/ Refuse(c)

Spec == Init /\ [][Next]_vars
=============================================================================
