-------------------------- MODULE PlaintextRegistry --------------------------
(***************************************************************************)
(* The plaintext registration API (installations, delivery tokens and      *)
(* subscriptions), the lookups that turn one message into send requests,   *)
(* the push policy, and the retirement of a token that the provider calls  *)
(* dead.  Registrations, lookups and late provider answers interleave.     *)
(* One topic; a message belongs to one thirty-day period.                  *)
(***************************************************************************)
EXTENDS Naturals, FiniteSets, TLC

CONSTANTS
    Installs, Tokens,
    Periods,        \* thirty-day periods an HMAC key or a message can be of
    Metadata,       \* silence and key periods a client may subscribe with
    Senders,        \* dispatches that can be under way at once
    Overlap,        \* register requests that can be under way at once
    MaxTime,        \* bound: the clock
    MaxVersion      \* bound: registrations of one (installation, token)

RegistryAssumption ==
    /\ Overlap \in Nat \ {0} /\ MaxTime \in Nat \ {0}
    /\ Metadata \subseteq [silent : BOOLEAN, keys : SUBSET Periods]

VARIABLES
    now,        \* the server's clock
    account,    \* account[i]: "absent", "live" or "deleted"
    mech,       \* mech[i][t]: device_delivery_mechanisms row, or NoMech
    sub,        \* sub[i]: subscriptions row of the topic with its key periods
    pending,    \* register requests between time.Now and their transaction
    dead,       \* dead[t]: when the provider gave the token up, 0 if it has not
    task,       \* task[d]: one dispatch with what it captured
    renewed,    \* history: renewed[i][t], latest time a committed register took
    settled     \* history: settled[i], time of the last register of i that
                \*   committed while no other register of i was under way

vars == <<now, account, mech, sub, pending, dead, task, renewed, settled>>

NoMech == [version |-> 0]
NoSub == [active |-> FALSE]
Idle == [pc |-> "idle"]

Init ==
    /\ now = 1
    /\ account = [i \in Installs |-> "absent"]
    /\ mech = [i \in Installs |-> [t \in Tokens |-> NoMech]]
    /\ sub = [i \in Installs |-> NoSub]
    /\ pending = {}
    /\ dead = [t \in Tokens |-> 0]
    /\ task = [d \in Senders |-> Idle]
    /\ renewed = [i \in Installs |-> [t \in Tokens |-> 0]]
    /\ settled = [i \in Installs |-> 0]

-----------------------------------------------------------------------------
(* Registration API (secureMode is off on this path).                      *)

\* RegisterInstallation reads the clock before its transaction.  A device that
\* registers a token holds it, so the provider knows it again.
RegisterBegin(i, t) ==
    /\ Cardinality(pending) < Overlap
    /\ <<i, t, now>> \notin pending
    /\ pending' = pending \cup {<<i, t, now>>}
    /\ dead' = [dead EXCEPT ![t] = 0]
    /\ UNCHANGED <<now, account, mech, sub, task, renewed, settled>>

\* UpsertDeviceDeliveryMechanism: a known token takes the time of this request,
\* loses its invalid mark and counts one registration more.
Upsert(row, at) == [version |-> row.version + 1, updated |-> at, invalid |-> 0]

RegisterCommit(i, t, at) ==
    /\ <<i, t, at>> \in pending
    /\ mech[i][t].version < MaxVersion
    /\ pending' = pending \ {<<i, t, at>>}
    /\ account' = [account EXCEPT ![i] = "live"]
    /\ mech' = [mech EXCEPT ![i][t] = Upsert(mech[i][t], at)]
    /\ renewed' = [renewed EXCEPT ![i][t] = IF at > @ THEN at ELSE @]
    /\ settled' = IF \E p \in pending' : p[1] = i THEN settled
                  ELSE [settled EXCEPT ![i] = at]
    /\ UNCHANGED <<now, sub, dead, task>>

\* The request fails, or its client goes away.
RegisterFails(r) ==
    /\ r \in pending
    /\ pending' = pending \ {r}
    /\ UNCHANGED <<now, account, mech, sub, dead, task, renewed, settled>>

\* Delete: soft-delete and deactivate the subscriptions in one transaction.
DeleteInstallation(i) ==
    /\ account[i] = "live"
    /\ account' = [account EXCEPT ![i] = "deleted"]
    /\ sub' = [sub EXCEPT ![i].active = FALSE]
    /\ UNCHANGED <<now, mech, pending, dead, task, renewed, settled>>

\* Subscribe reactivates a row as it is, or inserts one that is not silent and
\* has no keys.  Nothing ties it to a live installation.
Subscribe(i) ==
    /\ ~sub[i].active
    /\ sub' = [sub EXCEPT ![i] = IF sub[i] = NoSub
                                 THEN [active |-> TRUE, silent |-> FALSE, keys |-> {}]
                                 ELSE [sub[i] EXCEPT !.active = TRUE]]
    /\ UNCHANGED <<now, account, mech, pending, dead, task, renewed, settled>>

\* SubscribeWithMetadata replaces silence and the whole key set.
SubscribeWithMetadata(i, m) ==
    /\ sub' = [sub EXCEPT ![i] = [active |-> TRUE, silent |-> m.silent, keys |-> m.keys]]
    /\ sub' # sub
    /\ UNCHANGED <<now, account, mech, pending, dead, task, renewed, settled>>

Unsubscribe(i) ==
    /\ sub[i].active
    /\ sub' = [sub EXCEPT ![i].active = FALSE]
    /\ UNCHANGED <<now, account, mech, pending, dead, task, renewed, settled>>

-----------------------------------------------------------------------------
(* One dispatch: subscriptions, then installations, then the providers.    *)

\* GetSubscriptions joins the key of the message's period only.
ReadSubscriptions(d, p) ==
    /\ task[d].pc = "idle"
    /\ LET found == {i \in Installs : sub[i].active} IN
       /\ found # {}
       /\ task' = [task EXCEPT ![d] =
             [pc |-> "subs",
              subs |-> [i \in found |-> [silent |-> sub[i].silent, key |-> p \in sub[i].keys]]]]
    /\ UNCHANGED <<now, account, mech, sub, pending, dead, renewed, settled>>

Rows(i) == {t \in Tokens : mech[i][t] # NoMech}

\* GetLatestInstallations: the newest row, and nothing if that one is invalid.
Newest(i) ==
    {t \in Rows(i) : /\ mech[i][t].invalid = 0
                     /\ \A u \in Rows(i) : mech[i][u].updated <= mech[i][t].updated}

\* Requests pair a subscription with its installation as read now; ties of the
\* update time are broken by the row id, here by any of the newest.
ReadInstallations(d) ==
    LET found == {i \in DOMAIN task[d].subs : account[i] = "live" /\ Newest(i) # {}} IN
    /\ task[d].pc = "subs"
    /\ \E pick \in [found -> Tokens] :
          /\ \A i \in found : pick[i] \in Newest(i)
          /\ task' = [task EXCEPT ![d] =
                IF found = {} THEN Idle
                ELSE [pc |-> "dispatch", todo |-> found,
                      req |-> [i \in found |-> [token |-> pick[i], row |-> mech[i][pick[i]],
                                                sub |-> task[d].subs[i]]]]]
    /\ UNCHANGED <<now, account, mech, sub, pending, dead, renewed, settled>>

\* eligible: a Conversation push needs an audible subscription with the key of
\* exactly the message's period; the sender's own devices are not modelled.
Eligible(r) == ~r.sub.silent /\ r.sub.key

Done(d, i) == [task[d] EXCEPT !.todo = @ \ {i}]
Settle(t) == IF t.todo = {} THEN Idle ELSE t

\* AuthorizeDelivery refuses, or the provider takes or fails the push.
Dispatch(d, i) ==
    /\ task[d].pc = "dispatch" /\ i \in task[d].todo
    /\ task' = [task EXCEPT ![d] = Settle(Done(d, i))]
    /\ UNCHANGED <<now, account, mech, sub, pending, dead, renewed, settled>>

\* The provider answers that the token is dead, with the time of its death.
ProviderRejects(d, i) ==
    LET r == task[d].req[i] IN
    /\ task[d].pc = "dispatch" /\ i \in task[d].todo
    /\ Eligible(r)
    /\ dead[r.token] # 0
    /\ task' = [task EXCEPT ![d] = Done(d, i) @@ [inst |-> i, since |-> dead[r.token]],
                            ![d].pc = "rejected"]
    /\ UNCHANGED <<now, account, mech, sub, pending, dead, renewed, settled>>

\* Mutant: whatever registration the row holds by now.
SameToken(row, captured, since) == row.version # 0

\* InvalidateDeliveryToken's WHERE clause.
SameRegistration(row, captured, since) ==
    /\ row.version = captured.version
    /\ row.updated = captured.updated
    /\ row.updated <= since

\* The cleanup after such an answer; a failed one leaves the token in place.
InvalidateDeliveryToken(d, ok) ==
    LET i == task[d].inst
        r == task[d].req[i]
    IN  /\ task[d].pc = "rejected"
        /\ mech' = IF ok /\ SameRegistration(mech[i][r.token], r.row, task[d].since)
                   THEN [mech EXCEPT ![i][r.token].invalid = task[d].since]
                   ELSE mech
        /\ task' = [task EXCEPT ![d] = Settle([pc |-> "dispatch", todo |-> task[d].todo,
                                               req |-> task[d].req])]
        /\ UNCHANGED <<now, account, sub, pending, dead, renewed, settled>>

-----------------------------------------------------------------------------
Tick ==
    /\ now < MaxTime
    /\ now' = now + 1
    /\ UNCHANGED <<account, mech, sub, pending, dead, task, renewed, settled>>

\* The app is removed from the device; the provider dates it.
TokenDies(t) ==
    /\ dead[t] = 0
    /\ \E i \in Installs : mech[i][t] # NoMech
    /\ dead' = [dead EXCEPT ![t] = now]
    /\ UNCHANGED <<now, account, mech, sub, pending, task, renewed, settled>>

Next ==
    \/ \E i \in Installs, t \in Tokens : RegisterBegin(i, t)
    \/ \E i \in Installs, t \in Tokens, at \in 1..MaxTime : RegisterCommit(i, t, at)
    \/ \E r \in pending : RegisterFails(r)
    \/ \E i \in Installs : DeleteInstallation(i) \/ Subscribe(i) \/ Unsubscribe(i)
    \/ \E i \in Installs, m \in Metadata : SubscribeWithMetadata(i, m)
    \/ \E d \in Senders, p \in Periods : ReadSubscriptions(d, p)
    \/ \E d \in Senders : ReadInstallations(d)
    \/ \E d \in Senders : task[d].pc = "dispatch" /\
          \E i \in task[d].todo : Dispatch(d, i) \/ ProviderRejects(d, i)
    \/ \E d \in Senders, ok \in BOOLEAN : InvalidateDeliveryToken(d, ok)
    \/ Tick
    \/ \E t \in Tokens : TokenDies(t)

Spec == Init /\ [][Next]_vars

-----------------------------------------------------------------------------
(* Properties.                                                             *)

TypeOK ==
    /\ now \in 1..MaxTime
    /\ account \in [Installs -> {"absent", "live", "deleted"}]
    /\ \A i \in Installs, t \in Tokens : mech[i][t] # NoMech =>
          /\ mech[i][t].version \in 1..MaxVersion
          /\ mech[i][t].updated \in 1..MaxTime /\ mech[i][t].invalid \in 0..MaxTime
    /\ \A i \in Installs : sub[i] # NoSub =>
          {sub[i].active, sub[i].silent} \subseteq BOOLEAN /\ sub[i].keys \subseteq Periods
    /\ dead \in [Tokens -> 0..MaxTime]
    /\ \A d \in Senders : task[d].pc \in {"idle", "subs", "dispatch", "rejected"}

\* A late answer about a token never retires a registration that is newer than
\* the token's death: neither a renewal of the same token nor its replacement
\* (InvalidateDeliveryToken).
RenewalSurvives ==
    \A i \in Installs, t \in Tokens :
       (mech[i][t] # NoMech /\ mech[i][t].invalid # 0) => renewed[i][t] <= mech[i][t].invalid

\* A lookup never goes back behind a registration that committed with no other
\* registration of its installation under way: it takes that token or one
\* registered no earlier, and once the newest is retired it takes none rather than
\* an older one (GetLatestInstallations).  Of registrations that overlap the later
\* clock reading wins, and for one token the later commit, which may set the
\* row's time back: which of them a lookup takes is not claimed.
LookupIsLatest ==
    \A d \in Senders :
       (task[d].pc = "subs" /\ task'[d].pc = "dispatch") =>
          \A i \in task'[d].todo : settled[i] <= task'[d].req[i].row.updated
=============================================================================
