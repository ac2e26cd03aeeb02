--------------------------- MODULE IncidentAccess ---------------------------
(***************************************************************************)
(* Incident access to the vault: a requester asks, an independent approver *)
(* grants a short role after the oversight webhook was told, and the       *)
(* requester queries under the role.  Every decision is audited            *)
(* (pkg/vault/incident_access.go, pkg/incidentaccess).                     *)
(*                                                                         *)
(* A call reads the clock when it arrives, then takes the row of its       *)
(* request for update in a serializable transaction: it may wait for       *)
(* another call, and fails if that one changed the row.  The webhook and   *)
(* the read of the vault happen while the row is held.  A call that fails  *)
(* or runs into its deadline rolls back.                                   *)
(***************************************************************************)
EXTENDS Integers, FiniteSets

CONSTANTS
    Requesters, Approvers,  \* actors, by the role of their credential
    Requests,               \* request identifiers
    Calls,                  \* concurrent HTTP requests
    Hour,                   \* ticks of an hour
    RoleTTL,                \* ticks of the configured role
    MaxAge,                 \* ticks an incident window may lie back
    Ages,                   \* how far back the windows of requests start
    MaxTime                 \* bound: the clock

VARIABLES
    clock,
    rows,        \* access_requests
    audit,       \* access_audit: who did what to which request
    lock,        \* the call that holds the row of a request
    calls,       \* the calls in progress
    broadcasts,  \* history: requests whose approval the webhook accepted
    released     \* history: the results handed out

vars == <<clock, rows, audit, lock, calls, broadcasts, released>>

\* ParseActorCredentials: each actor has one credential and so one role, and both
\* roles are filled.
ActorRoles == Requesters # {} /\ Approvers # {} /\ Requesters \cap Approvers = {}

IncidentConstants ==
    /\ ActorRoles
    /\ Hour \in Nat \ {0} /\ RoleTTL \in Nat \ {0} /\ Ages \subseteq Nat
    /\ MaxAge \in Nat /\ MaxTime \in Nat

MaxRoleTTL == 2 * Hour
CoarseHour(t) == t - (t % Hour)
NoRow == [state |-> "none"]
Idle == [pc |-> "idle"]
Free == "free"

Init ==
    /\ clock = MaxAge
    /\ rows = [r \in Requests |-> NoRow]
    /\ audit = {} /\ broadcasts = {} /\ released = {}
    /\ lock = [r \in Requests |-> Free]
    /\ calls = [c \in Calls |-> Idle]

Audited(r, actor, action) == audit \cup {[request |-> r, actor |-> actor, action |-> action]}

\* validIncidentWindow: the window starts no more than eight days back.
ValidWindow(start, now) == start >= now - MaxAge

\* validStoredAccessRequest takes the end of the coarse hour for the moment of
\* the creation.
ValidStored(row) == ValidWindow(row.start, row.created + Hour)

CreateRequest(r, actor, age) ==
    /\ rows[r] = NoRow /\ ValidWindow(clock - age, clock)
    /\ rows' = [rows EXCEPT ![r] =
          [state |-> "pending", requester |-> actor, approver |-> "none",
           created |-> CoarseHour(clock), start |-> clock - age, expires |-> 0]]
    /\ audit' = Audited(r, actor, "created")
    /\ UNCHANGED <<clock, lock, calls, broadcasts, released>>

-----------------------------------------------------------------------------
(* Arrival, the row lock, the end of a call.                               *)

\* The credential decides which calls an actor may make.
MayCall(kind, actor) ==
    CASE kind = "approve" -> actor \in Approvers
      [] kind = "query"   -> actor \in Requesters
      [] kind = "revoke"  -> actor \in Requesters \cup Approvers

Arrive(c, kind, actor, r) ==
    /\ calls[c] = Idle /\ rows[r] # NoRow /\ MayCall(kind, actor)
    /\ calls' = [calls EXCEPT ![c] = [pc |-> "arrived", kind |-> kind, actor |-> actor,
                                      request |-> r, now |-> clock]]
    /\ UNCHANGED <<clock, rows, audit, lock, broadcasts, released>>

\* The first statement of the transaction fixes what it sees.
BeginTx(c) ==
    /\ calls[c].pc = "arrived"
    /\ calls' = [calls EXCEPT ![c] =
          [pc |-> "waiting", kind |-> calls[c].kind, actor |-> calls[c].actor,
           request |-> calls[c].request, now |-> calls[c].now, seen |-> rows[calls[c].request]]]
    /\ UNCHANGED <<clock, rows, audit, lock, broadcasts, released>>

Goto(c, pc) == calls' = [calls EXCEPT ![c].pc = pc]

LoadRow(c) ==
    LET r == calls[c].request IN
    /\ calls[c].pc = "waiting" /\ lock[r] = Free /\ rows[r] = calls[c].seen
    /\ lock' = [lock EXCEPT ![r] = c]
    /\ Goto(c, "loaded")
    /\ UNCHANGED <<clock, rows, audit, broadcasts, released>>

Unlocked(c) == [r \in Requests |-> IF lock[r] = c THEN Free ELSE lock[r]]

\* A database error, a row changed since, a deadline or a row the reader refuses;
\* once committed, a lost answer to the commit or a client that is gone.
Fails(c) ==
    /\ calls[c] # Idle
    /\ calls' = [calls EXCEPT ![c] = Idle]
    /\ lock' = Unlocked(c)
    /\ UNCHANGED <<clock, rows, audit, broadcasts, released>>

\* The transaction commits with its audit row and frees the row.
Commits(c, row, action) ==
    LET r == calls[c].request IN
    /\ rows' = [rows EXCEPT ![r] = row]
    /\ audit' = Audited(r, calls[c].actor, action)
    /\ lock' = Unlocked(c)
    /\ UNCHANGED <<clock, broadcasts, released>>

Ends(c, row, action) == Commits(c, row, action) /\ calls' = [calls EXCEPT ![c] = Idle]

Loaded(c, kind) ==
    /\ calls[c].pc = "loaded" /\ calls[c].kind = kind
    /\ ValidStored(rows[calls[c].request])

RoleOver(row, now) == row.state = "approved" /\ now >= row.expires

Expired(row) == [row EXCEPT !.state = "expired", !.expires = 0]

-----------------------------------------------------------------------------
(* Approve.                                                                *)

TooLate(row, now) == now >= row.created + MaxRoleTTL

Grantable(row, call) ==
    /\ row.state = "pending" /\ call.now >= row.created /\ ~TooLate(row, call.now)
    /\ call.actor # row.requester /\ call.actor \in Approvers

\* The same approver asks again while the role lasts.
Repeated(row, call) ==
    /\ row.state = "approved" /\ ~RoleOver(row, call.now) /\ ~TooLate(row, call.now)
    /\ row.approver = call.actor

ApproveRepeated(c) ==
    LET row == rows[calls[c].request] IN
    /\ Loaded(c, "approve") /\ Repeated(row, calls[c])
    /\ calls' = [calls EXCEPT ![c] = Idle]
    /\ lock' = Unlocked(c)
    /\ UNCHANGED <<clock, rows, audit, broadcasts, released>>

ApproveDenied(c) ==
    LET call == calls[c]
        row  == rows[call.request] IN
    /\ Loaded(c, "approve") /\ ~Grantable(row, call) /\ ~Repeated(row, call)
    /\ Ends(c,
            IF row.state # "revoked" /\ (TooLate(row, call.now) \/ RoleOver(row, call.now))
            THEN Expired(row) ELSE row,
            "approval-denied")

Granted(row, call) ==
    [row EXCEPT !.state = "approved", !.approver = call.actor,
                !.expires = IF call.now + RoleTTL > row.created + MaxRoleTTL
                            THEN row.created + MaxRoleTTL ELSE call.now + RoleTTL]

\* The webhook is called under the lock; its answer may be lost.
Broadcast(c) ==
    LET call == calls[c] IN
    /\ Loaded(c, "approve") /\ Grantable(rows[call.request], call)
    /\ broadcasts' = broadcasts \cup {call.request}
    /\ Goto(c, "broadcast")
    /\ UNCHANGED <<clock, rows, audit, lock, released>>

ApproveGranted(c) ==
    LET call == calls[c] IN
    /\ call.pc = "broadcast"
    /\ Ends(c, Granted(rows[call.request], call), "approved")

-----------------------------------------------------------------------------
(* Revoke.                                                                 *)

RevokeDenied(c) ==
    LET call == calls[c] IN
    /\ Loaded(c, "revoke")
    /\ call.actor \notin {rows[call.request].requester, rows[call.request].approver}
    /\ calls' = [calls EXCEPT ![c] = Idle]
    /\ lock' = Unlocked(c)
    /\ UNCHANGED <<clock, rows, audit, broadcasts, released>>

Revoke(c) ==
    LET call == calls[c]
        row  == rows[call.request] IN
    /\ Loaded(c, "revoke") /\ call.actor \in {row.requester, row.approver}
    /\ Ends(c, [row EXCEPT !.state = "revoked", !.expires = 0], "revoked")

-----------------------------------------------------------------------------
(* WithAuthorizedRawVaultQuery.                                            *)

Authorized(row, call) ==
    /\ row.state = "approved" /\ call.now < row.expires /\ call.now >= row.created
    /\ call.actor = row.requester

QueryDenied(c) ==
    LET call == calls[c]
        row  == rows[call.request] IN
    /\ Loaded(c, "query") /\ ~Authorized(row, call)
    /\ Ends(c, IF RoleOver(row, call.now) THEN Expired(row) ELSE row, "query-failed")

\* A read-only transaction of its own.
ReadVault(c) ==
    /\ Loaded(c, "query") /\ Authorized(rows[calls[c].request], calls[c])
    /\ Goto(c, "read")
    /\ UNCHANGED <<clock, rows, audit, lock, broadcasts, released>>

QueryFailed(c) ==
    /\ calls[c].pc = "read"
    /\ Ends(c, rows[calls[c].request], "query-failed")

\* Mutant: the role is not looked at after the read.
CompletesAnyhow(c) ==
    /\ calls[c].pc = "read"
    /\ calls' = [calls EXCEPT ![c].pc = "completed", ![c].now = clock]
    /\ UNCHANGED <<clock, rows, audit, lock, broadcasts, released>>

\* The clock is read again after the read.
Completes(c) ==
    /\ calls[c].pc = "read" /\ clock < rows[calls[c].request].expires
    /\ calls' = [calls EXCEPT ![c].pc = "completed", ![c].now = clock]
    /\ UNCHANGED <<clock, rows, audit, lock, broadcasts, released>>

QueryTooLate(c) ==
    LET row == rows[calls[c].request] IN
    /\ calls[c].pc = "read" /\ clock >= row.expires
    /\ Ends(c, IF RoleOver(row, clock) THEN Expired(row) ELSE row, "query-failed")

\* The audit row is committed, and with it the row is free again.
CommitQuery(c) ==
    /\ calls[c].pc = "completed"
    /\ Commits(c, rows[calls[c].request], "query")
    /\ Goto(c, "committed")

\* The result is returned and written to the client.
Release(c) ==
    LET call == calls[c] IN
    /\ call.pc = "committed"
    /\ calls' = [calls EXCEPT ![c] = Idle]
    /\ released' = released \cup {[request |-> call.request, actor |-> call.actor,
                                   at |-> call.now]}
    /\ UNCHANGED <<clock, rows, audit, lock, broadcasts>>

Tick ==
    /\ clock < MaxTime
    /\ clock' = clock + 1
    /\ UNCHANGED <<rows, audit, lock, calls, broadcasts, released>>

-----------------------------------------------------------------------------
Step(c) ==
    \/ BeginTx(c) \/ LoadRow(c) \/ Fails(c)
    \/ ApproveRepeated(c) \/ ApproveDenied(c) \/ Broadcast(c) \/ ApproveGranted(c)
    \/ RevokeDenied(c) \/ Revoke(c)
    \/ QueryDenied(c) \/ ReadVault(c) \/ QueryFailed(c) \/ Completes(c) \/ QueryTooLate(c)
    \/ CommitQuery(c) \/ Release(c)

Next ==
    \/ \E r \in Requests, a \in Requesters, age \in Ages : CreateRequest(r, a, age)
    \/ \E c \in Calls, kind \in {"approve", "query", "revoke"}, a \in Requesters \cup Approvers, r \in Requests :
          Arrive(c, kind, a, r)
    \/ \E c \in Calls : Step(c)
    \/ Tick

Spec == Init /\ [][Next]_vars

-----------------------------------------------------------------------------
(* Properties.                                                             *)

TypeOK ==
    /\ clock \in MaxAge..MaxTime
    /\ \A r \in Requests :
          /\ rows[r].state \in {"none", "pending", "approved", "expired", "revoked"}
          /\ rows[r] # NoRow => (rows[r].expires = 0 <=> rows[r].state # "approved")
          /\ lock[r] \in Calls \cup {Free}
    /\ \A c \in Calls : calls[c].pc \in
          {"idle", "arrived", "waiting", "loaded", "broadcast", "read", "completed", "committed"}

\* A result was handed out only to the requester, within a role that another,
\* authorised actor granted after oversight was told, no later than two hours
\* after the request, and with its audit row committed.
ReleasesAreAccountable ==
    \A x \in released :
        LET row == rows[x.request] IN
        /\ x.actor = row.requester
        /\ row.approver \in Approvers \ {row.requester}
        /\ x.request \in broadcasts
        /\ x.at < row.created + MaxRoleTTL
        /\ [request |-> x.request, actor |-> x.actor, action |-> "query"] \in audit
        /\ [request |-> x.request, actor |-> row.approver, action |-> "approved"] \in audit

\* Of a step, "closes the role immediately": once a revocation is committed no
\* query commits, also not one that was authorised before it, and no result is
\* committed that was completed after the role's end.  The row is free from the
\* commit on, so a revocation may still land before a committed result leaves;
\* nothing leaves that is not committed.
RevocationCloses ==
    \A c \in Calls :
       /\ (calls[c].pc # "committed" /\ calls'[c].pc = "committed") =>
             LET row == rows[calls[c].request] IN
             /\ row.state = "approved" /\ calls[c].now < row.expires
             /\ calls[c].actor = row.requester
       /\ \A x \in released' \ released :
             \E d \in Calls : calls[d].pc = "committed" /\ calls[d].request = x.request

\* Of a step: a request goes from pending to approved at most once, and never comes back
\* from expired or revoked to a role, whatever calls overlap; its role is never
\* prolonged.
RolesOnlyEnd ==
    \A r \in Requests :
       /\ rows[r].state \in {"expired", "revoked"} =>
             rows'[r].state \in {"expired", "revoked"}
       /\ rows[r].state = "approved" /\ rows'[r].state = "approved" =>
             rows'[r] = rows[r]

\* "Approval commits only after the content-free oversight webhook succeeds".
ApprovedAfterBroadcast ==
    \A r \in Requests : rows[r].state = "approved" =>
        /\ r \in broadcasts
        /\ rows[r].expires <= rows[r].created + MaxRoleTTL
=============================================================================
