------------------------------- MODULE Access -------------------------------
(***************************************************************************)
(* Sessions and memberships: apps/api/src/modules/auth, modules/memberships   *)
(* and plugins/auth.ts.                                                     *)
(*                                                                         *)
(* A session acts as one membership of its user.  The auth hook resolves it   *)
(* at the start of a request into an actor, reading the session and then the  *)
(* membership (Prisma answers an include with a query for each table), and    *)
(* the request then works with that actor whatever happens meanwhile.  Login, *)
(* switching organization, inviting, and changing a membership's status or    *)
(* role are each several statements; the last three run in a transaction,     *)
(* where the row a statement has updated stays locked until the end.  A       *)
(* request may stop after any statement: what its transaction wrote is rolled *)
(* back.                                                                   *)
(***************************************************************************)
EXTENDS Authz

CONSTANTS
    Requests,           \* requests the API serves at a time
    Sessions,           \* session ids (and the cookies that carry them)
    Memberships,        \* possible [organizationId, userId, role]: @@unique makes it the row's name
    InitialMemberships, \* the ACTIVE ones of the seed
    Users               \* those whose User.status is ACTIVE

ASSUME AccessAssumption ==
    /\ InitialMemberships \subseteq Memberships
    /\ \A m \in Memberships : m.role \in PersonaRoles /\ m.userId # Nobody
    /\ Nobody \notin Requests \cup Sessions \cup Memberships \cup Users

VARIABLES
    status,     \* OrganizationMembership.status, or "ABSENT"
    user,       \* Session.userId, or Nobody while there is no row
    acting,     \* Session.activeMembershipId, or Nobody
    ended,      \* sessions with a revokedAt
    expired,    \* sessions past their expiresAt
    rowLock,    \* the transaction that has updated a membership and not ended
    pc,         \* the next statement of each request
    actor,      \* request.actor and request.sessionId
    input,      \* what the request asks for and has read
    seenActive  \* history: those of its user's memberships that have been ACTIVE at some
                \* time since the request read its session

rows == <<status, user, acting, ended>>
vars == <<rows, expired, rowLock, pc, actor, input, seenActive>>

MembershipStatuses == {"INVITED", "ACTIVE", "SUSPENDED", "REVOKED"}

NoActor == [session |-> Nobody, userId |-> Nobody, membership |-> Nobody]

Init ==
    /\ status = [m \in Memberships |-> IF m \in InitialMemberships THEN "ACTIVE" ELSE "ABSENT"]
    /\ user = [s \in Sessions |-> Nobody]
    /\ acting = [s \in Sessions |-> Nobody]
    /\ ended = {} /\ expired = {}
    /\ rowLock = [m \in Memberships |-> Nobody]
    /\ pc = [r \in Requests |-> "idle"]
    /\ actor = [r \in Requests |-> NoActor]
    /\ input = [r \in Requests |-> Nobody]
    /\ seenActive = [r \in Requests |-> {}]

-----------------------------------------------------------------------------
GoTo(r, statement, in) ==
    /\ pc' = [pc EXCEPT ![r] = statement]
    /\ input' = [input EXCEPT ![r] = in]

Unlocked(r) == [m \in Memberships |-> IF rowLock[m] = r THEN Nobody ELSE rowLock[m]]

\* The answer is sent, or the error, or the process dies: the transaction is over.
End(r) ==
    /\ GoTo(r, "idle", Nobody)
    /\ actor' = [actor EXCEPT ![r] = NoActor]
    /\ rowLock' = Unlocked(r)

Stop(r) == pc[r] # "idle" /\ End(r) /\ UNCHANGED <<rows, expired>>

\* The row may be written by r: nobody else's transaction has updated it.
MayWrite(r, m) == rowLock[m] \in {Nobody, r}

ActiveOf(u) == {m \in Memberships : m.userId = u /\ status[m] = "ACTIVE"}

\* login: the credentials are right; the first ACTIVE membership is taken, the
\* order of effectiveFrom being left open.
LoginRead(r) ==
    /\ pc[r] = "idle"
    /\ \E u \in Users :
         /\ \/ \E m \in ActiveOf(u) : GoTo(r, "login", [userId |-> u, membership |-> m])
            \/ ActiveOf(u) = {} /\ GoTo(r, "login", [userId |-> u, membership |-> Nobody])
         /\ UNCHANGED <<rows, expired, rowLock, actor>>

\* sessionRepository.create
LoginCreate(r) ==
    /\ pc[r] = "login"
    /\ \E s \in Sessions :
         /\ user[s] = Nobody
         /\ user' = [user EXCEPT ![s] = input[r].userId]
         /\ acting' = [acting EXCEPT ![s] = input[r].membership]
    /\ End(r)
    /\ UNCHANGED <<status, ended, expired>>

\* sessionExpiryFromNow: a session's 24 hours end.
Expire(s) ==
    /\ user[s] # Nobody /\ s \notin expired
    /\ expired' = expired \cup {s}
    /\ UNCHANGED <<rows, rowLock, pc, actor, input>>

\* onRequest, findByTokenHash: the row of the session and its user.  A revoked
\* session starts nothing.
AuthRead(r) ==
    /\ pc[r] = "idle"
    /\ \E s \in Sessions \ ended :
         /\ user[s] # Nobody
         /\ actor' = [actor EXCEPT ![r] = [session |-> s, userId |-> user[s], membership |-> Nobody]]
         /\ GoTo(r, "session", acting[s])
    /\ UNCHANGED <<rows, expired, rowLock>>

\* Mutant: the membership a session acts as is taken as it is.
Resolve_AnyStatus(m) == m

\* The membership a session stands for: a non-ACTIVE one is treated as none.
Resolve(m) == IF m # Nobody /\ status[m] = "ACTIVE" THEN m ELSE Nobody

\* The membership whose id was read, by a query of its own; the time the session
\* expires at is looked at last.  requireAuth lets the request on.
Authenticate(r) ==
    /\ pc[r] = "session"
    /\ actor[r].session \notin expired
    /\ actor' = [actor EXCEPT ![r].membership = Resolve(input[r])]
    /\ GoTo(r, "authenticated", Nobody)
    /\ UNCHANGED <<rows, expired, rowLock>>

\* can() on a membership of the organization, for an actor of the membership own.
Permits(own, verb, org) ==
    can(Actor(own.role, own.organizationId), <<"membership", verb>>, Resource("membership", org),
        Context(FALSE, FALSE))

\* The handler asks for the actor the hook resolved.
Authorized(r, verb, org) ==
    /\ pc[r] = "authenticated" /\ actor[r].membership # Nobody
    /\ Permits(actor[r].membership, verb, org)

Logout(r) ==
    /\ pc[r] = "authenticated"
    /\ ended' = ended \cup {actor[r].session}
    /\ End(r)
    /\ UNCHANGED <<status, user, acting, expired>>

\* Mutant: the organization's active membership is looked up, whoever's it is.
SwitchTargets_AnyUser(u) == {m \in Memberships : status[m] = "ACTIVE"}

\* findActiveByUserAndOrg
SwitchTargets(u) == ActiveOf(u)

SwitchRead(r) ==
    /\ pc[r] = "authenticated"
    /\ \E m \in SwitchTargets(actor[r].userId) : GoTo(r, "switch", m)
    /\ UNCHANGED <<rows, expired, rowLock, actor>>

\* updateActiveMembership, of the row whatever has become of it.
SwitchWrite(r) ==
    /\ pc[r] = "switch"
    /\ acting' = [acting EXCEPT ![actor[r].session] = input[r]]
    /\ End(r)
    /\ UNCHANGED <<status, user, ended, expired>>

-----------------------------------------------------------------------------
\* membershipsService.create finds no row, or a REVOKED one; any other is a conflict.
InviteRead(r) ==
    /\ \E m \in Memberships :
         /\ Authorized(r, "create", m.organizationId)
         /\ status[m] \in {"ABSENT", "REVOKED"}
         /\ GoTo(r, "invite", [membership |-> m, found |-> status[m]])
    /\ UNCHANGED <<rows, expired, rowLock, actor>>

\* Reactivation of the row that was found, whatever it is now, or an insert, which
\* @@unique([organizationId, userId, role]) refuses to all but the first.
InviteWrite(r) ==
    LET m == input[r].membership
    IN  /\ pc[r] = "invite" /\ MayWrite(r, m)
        /\ input[r].found = "ABSENT" => status[m] = "ABSENT"
        /\ status' = [status EXCEPT ![m] = "INVITED"]
        /\ End(r)
        /\ UNCHANGED <<user, acting, ended, expired>>

\* updateStatus, or updateRole to the role of next; before is a history field: the
\* sessions there were when the request read the row.
Change(m, to, next) ==
    [membership |-> m, to |-> to, next |-> next, found |-> Nobody, revoke |-> {},
     before |-> {s \in Sessions : user[s] = m.userId}]

\* Both read the row and authorize before their transaction.
ChangeRead(r) ==
    /\ \E m \in Memberships :
         /\ status[m] # "ABSENT"
         /\ \/ /\ Authorized(r, "update_status", m.organizationId)
               /\ \E to \in MembershipStatuses : GoTo(r, "update", Change(m, to, Nobody))
            \/ /\ Authorized(r, "update_role", m.organizationId)
               /\ \E n \in Memberships \ {m} :
                    /\ n.userId = m.userId /\ n.organizationId = m.organizationId
                    /\ GoTo(r, "update", Change(m, "REVOKED", n))
    /\ UNCHANGED <<rows, expired, rowLock, actor>>

\* Mutant: only the statuses that were thought of revoke the sessions.
EndsSessions_Named(to) == to \in {"SUSPENDED", "REVOKED"}

EndsSessions(to) == to # "ACTIVE"

\* revokeAllForUser sees the sessions committed by its own statement.
LiveSessionsOf(u) == {s \in Sessions : user[s] = u /\ s \notin ended}

\* The update of the membership, which locks it, and of the sessions.
ChangeUpdate(r) ==
    LET in == input[r]
    IN  /\ pc[r] = "update" /\ MayWrite(r, in.membership)
        /\ rowLock' = [rowLock EXCEPT ![in.membership] = r]
        /\ GoTo(r, IF in.next = Nobody THEN "commit" ELSE "find",
                [in EXCEPT !.revoke = IF EndsSessions(in.to) THEN LiveSessionsOf(in.membership.userId) ELSE {}])
        /\ UNCHANGED <<rows, expired, actor>>

\* updateStatus commits.
StatusCommit(r) ==
    /\ pc[r] = "commit"
    /\ status' = [status EXCEPT ![input[r].membership] = input[r].to]
    /\ ended' = ended \cup input[r].revoke
    /\ End(r)
    /\ UNCHANGED <<user, acting, expired>>

\* updateRole looks for the row of the new role.
RoleFind(r) ==
    /\ pc[r] = "find"
    /\ status[input[r].next] \in {"ABSENT", "REVOKED"}
    /\ GoTo(r, "role", [input[r] EXCEPT !.found = status[input[r].next]])
    /\ UNCHANGED <<rows, expired, rowLock, actor>>

\* It is reactivated or created as ACTIVE, and the transaction commits.
RoleCommit(r) ==
    LET in == input[r]
    IN  /\ pc[r] = "role" /\ MayWrite(r, in.next)
        /\ in.found = "ABSENT" => status[in.next] = "ABSENT"
        /\ status' = [status EXCEPT ![in.membership] = "REVOKED", ![in.next] = "ACTIVE"]
        /\ ended' = ended \cup in.revoke
        /\ End(r)
        /\ UNCHANGED <<user, acting, expired>>

Request(r) ==
    \/ LoginRead(r) \/ LoginCreate(r) \/ AuthRead(r) \/ Authenticate(r) \/ Logout(r)
    \/ SwitchRead(r) \/ SwitchWrite(r)
    \/ InviteRead(r) \/ InviteWrite(r)
    \/ ChangeRead(r) \/ ChangeUpdate(r) \/ StatusCommit(r) \/ RoleFind(r) \/ RoleCommit(r)
    \/ Stop(r)

\* What the history gains in a step.
Remember ==
    seenActive' = [r \in Requests |->
        IF pc'[r] \in {"idle", "login"} THEN {}
        ELSE seenActive[r] \cup {m \in Memberships : m.userId = user'[actor'[r].session] /\ status'[m] = "ACTIVE"}]

Next ==
    /\ (\E r \in Requests : Request(r)) \/ (\E s \in Sessions : Expire(s))
    /\ Remember
Spec == Init /\ [][Next]_vars

-----------------------------------------------------------------------------
(* Properties                                                              *)

Statements ==
    {"idle", "login", "session", "authenticated", "switch", "invite", "update", "commit", "find", "role"}

\* Types; and a row is locked by exactly the transaction that has updated it.
TypeOK ==
    /\ status \in [Memberships -> MembershipStatuses \cup {"ABSENT"}]
    /\ user \in [Sessions -> Users \cup {Nobody}]
    /\ acting \in [Sessions -> Memberships \cup {Nobody}]
    /\ pc \in [Requests -> Statements]
    /\ \A m \in Memberships, r \in Requests :
         rowLock[m] = r <=> pc[r] \in {"commit", "find", "role"} /\ input[r].membership = m

\* Session.activeMembershipId "is the crux of the tenant-isolation proof": a
\* session acts as nobody, or as an existing membership of its own user, through
\* every interleaving of logins, switches and role changes.
SessionSpeaksForItsUser ==
    \A s \in Sessions : acting[s] # Nobody => acting[s].userId = user[s] /\ status[acting[s]] # "ABSENT"

\* auth and memberships: the rows and their locks are in order, and no session
\* ever speaks for another user.
SessionsAreSound == TypeOK /\ SessionSpeaksForItsUser

\* plugins/auth.ts and the three handlers: no row of a membership changes on an
\* authority that was over before.  The request behind the change is one whose
\* user, at some time since it began, held an ACTIVE membership that permits it:
\* neither a session that login or switchOrg wrote after a suspension, nor one read
\* before it, carries a suspended role into a later request, which "fails closed".
ChangesRestOnAuthority ==
    [][\A m \in Memberships : status'[m] # status[m] =>
         \E r \in Requests, verb \in {"create", "update_status", "update_role"} :
            /\ pc[r] # "idle" /\ pc'[r] = "idle"
            /\ \E own \in seenActive[r] : Permits(own, verb, m.organizationId)]_vars

\* updateStatus and updateRole: "any transition that does NOT land on ACTIVE
\* revokes": every session its user had when the request was made is over when a
\* membership stops being ACTIVE by it, and no session is taken up again.
DeactivationEndsSessions ==
    [][/\ ended \subseteq ended'
       /\ \A m \in Memberships, r \in Requests :
            rowLock[m] = r /\ status[m] = "ACTIVE" /\ status'[m] # "ACTIVE"
            => input[r].before \subseteq ended']_vars
=============================================================================
