---------------------------- MODULE AccessProofs ----------------------------
(***************************************************************************)
(* Proofs about Access, for any number of requests, sessions, users and     *)
(* memberships.                                                             *)
(*                                                                         *)
(* A session is written from what a request has read before, so what is     *)
(* known of the sessions needs what is known of the requests (RequestOK): a  *)
(* membership that login or switch has read is one of the user's, its row    *)
(* stays, and the session the hook resolved keeps its user.  The sessions    *)
(* that were there when a change was asked for are accounted for by          *)
(* RevokesAll, from its update on to its commit.                             *)
(*                                                                         *)
(* The last part is about the decision every handler of a request asks for,  *)
(* can() of Authz, as Calculations calls it: what the grants of each role    *)
(* keep apart, whatever the organizations and resources are.  The other      *)
(* decision table, evaluateEligibility of MatchingEngine, follows it, and     *)
(* what both decisions of a match do when a provider betters its terms.       *)
(***************************************************************************)
EXTENDS Access, Calculations, FiniteSetTheorems, TLAPS

Inputs == [userId: Users, membership: Memberships \cup {Nobody}]
Invites == [membership: Memberships, found: {"ABSENT", "REVOKED"}]
Changes ==
    [membership: Memberships, to: MembershipStatuses, next: Memberships \cup {Nobody},
     found: MembershipStatuses \cup {"ABSENT", Nobody}, revoke: SUBSET Sessions, before: SUBSET Sessions]
Actors == [session: Sessions \cup {Nobody}, userId: Users \cup {Nobody}, membership: Memberships \cup {Nobody}]

Changing == {"update", "commit", "find", "role"}
Holding == {"commit", "find", "role"}

\* A membership of the user's that has a row.
Held(m, u) == m \in Memberships /\ m.userId = u /\ status[m] # "ABSENT"

\* The actor is the one of a session, which keeps its user.
ActorOK(r) ==
    pc[r] \in {"session", "authenticated", "switch"} =>
        /\ actor[r].session \in Sessions /\ actor[r].userId \in Users
        /\ user[actor[r].session] = actor[r].userId

\* What a request has read is of the right kind.
LoginOK(r) ==
    pc[r] = "login" =>
        /\ input[r] \in Inputs
        /\ input[r].membership # Nobody => Held(input[r].membership, input[r].userId)
SessionOK(r) == pc[r] = "session" => input[r] = Nobody \/ Held(input[r], actor[r].userId)
SwitchOK(r) == pc[r] = "switch" => Held(input[r], actor[r].userId)
InviteOK(r) == pc[r] = "invite" => input[r] \in Invites
ChangeOK(r) ==
    pc[r] \in Changing =>
        /\ input[r] \in Changes
        /\ input[r].next # Nobody => input[r].to = "REVOKED" /\ input[r].next # input[r].membership
        /\ pc[r] \in {"find", "role"} => input[r].next # Nobody
        /\ \A s \in input[r].before : user[s] = input[r].membership.userId

\* A transaction that deactivates a membership ends every session counted before it.
RevokesAll(r) ==
    pc[r] \in Holding /\ input[r].to # "ACTIVE" => input[r].before \subseteq input[r].revoke \cup ended

RequestOK(r) ==
    ActorOK(r) /\ LoginOK(r) /\ SessionOK(r) /\ SwitchOK(r) /\ InviteOK(r) /\ ChangeOK(r) /\ RevokesAll(r)

IInv ==
    /\ TypeOK
    /\ rowLock \in [Memberships -> Requests \cup {Nobody}]
    /\ ended \subseteq Sessions
    /\ actor \in [Requests -> Actors]
    /\ input = [r \in Requests |-> input[r]]
    /\ \A r \in Requests : RequestOK(r)
    /\ SessionSpeaksForItsUser

-----------------------------------------------------------------------------
LEMMA NoActorType == NoActor \in Actors
  BY DEF NoActor, Actors

LEMMA InitIInv == Init => IInv
  BY AccessAssumption, NoActorType DEF Init, IInv, TypeOK, RequestOK, ActorOK, LoginOK, SessionOK, SwitchOK,
     InviteOK, ChangeOK, RevokesAll, Changing, Holding, SessionSpeaksForItsUser, Statements, MembershipStatuses

\* Statements and the end of a request keep the frame: types and locks.
LEMMA GoToKeeps ==
    ASSUME IInv, NEW r \in Requests, NEW to \in Statements, NEW in, GoTo(r, to, in)
    PROVE  /\ pc' \in [Requests -> Statements] /\ pc'[r] = to
           /\ input' = [q \in Requests |-> input'[q]] /\ input'[r] = in
           /\ \A q \in Requests : q # r => pc'[q] = pc[q] /\ input'[q] = input[q]
  BY DEF IInv, TypeOK, GoTo

LEMMA EndKeeps ==
    ASSUME IInv, NEW r \in Requests, End(r)
    PROVE  /\ pc' \in [Requests -> Statements] /\ pc'[r] = "idle"
           /\ input' = [q \in Requests |-> input'[q]]
           /\ actor' \in [Requests -> Actors]
           /\ \A q \in Requests : q # r => pc'[q] = pc[q] /\ input'[q] = input[q] /\ actor'[q] = actor[q]
           /\ rowLock' \in [Memberships -> Requests \cup {Nobody}]
           /\ \A m \in Memberships, q \in Requests :
                rowLock'[m] = q <=> pc'[q] \in {"commit", "find", "role"} /\ input'[q].membership = m
  <1>1. GoTo(r, "idle", Nobody) /\ "idle" \in Statements
    BY DEF End, Statements
  <1>2. /\ pc' \in [Requests -> Statements] /\ pc'[r] = "idle"
        /\ input' = [q \in Requests |-> input'[q]]
        /\ \A q \in Requests : q # r => pc'[q] = pc[q] /\ input'[q] = input[q]
    BY <1>1, GoToKeeps
  <1>3. actor' \in [Requests -> Actors] /\ \A q \in Requests : q # r => actor'[q] = actor[q]
    BY NoActorType DEF End, IInv
  <1>4. /\ rowLock' \in [Memberships -> Requests \cup {Nobody}]
        /\ \A m \in Memberships : rowLock'[m] = IF rowLock[m] = r THEN Nobody ELSE rowLock[m]
    BY DEF End, Unlocked, IInv
  <1>5. \A m \in Memberships, q \in Requests :
           rowLock'[m] = q <=> pc'[q] \in {"commit", "find", "role"} /\ input'[q].membership = m
    BY <1>2, <1>4, AccessAssumption DEF IInv, TypeOK
  <1> QED BY <1>2, <1>3, <1>4, <1>5

\* A request that is not touched stays in order while rows only get better: a
\* membership's row stays, a session keeps its user, an ended session stays ended.
RowsGrow ==
    /\ \A m \in Memberships : status[m] # "ABSENT" => status'[m] # "ABSENT"
    /\ \A s \in Sessions : user[s] # Nobody => user'[s] = user[s]
    /\ ended \subseteq ended'

LEMMA OthersKept ==
    ASSUME IInv, RowsGrow, NEW q \in Requests,
           pc'[q] = pc[q], input'[q] = input[q], actor'[q] = actor[q]
    PROVE  RequestOK(q)'
  <1> USE AccessAssumption
  <1>1. ActorOK(q)'
    BY DEF IInv, RequestOK, ActorOK, RowsGrow
  <1>2. LoginOK(q)'
    BY DEF IInv, RequestOK, LoginOK, RowsGrow, Held, Inputs
  <1>3. SwitchOK(q)'
    BY DEF IInv, RequestOK, SwitchOK, RowsGrow, Held
  <1>7. SessionOK(q)'
    BY DEF IInv, RequestOK, SessionOK, RowsGrow, Held
  <1>4. InviteOK(q)'
    BY DEF IInv, RequestOK, InviteOK
  <1>5. ChangeOK(q)'
    BY DEF IInv, RequestOK, ChangeOK, RowsGrow, Changes
  <1>6. RevokesAll(q)'
    BY DEF IInv, RequestOK, RevokesAll, RowsGrow
  <1> QED BY <1>1, <1>2, <1>3, <1>4, <1>5, <1>6, <1>7 DEF RequestOK

\* Requests of which one has ended.
LEMMA EndedOK ==
    ASSUME IInv, RowsGrow, NEW r \in Requests, End(r)
    PROVE  \A q \in Requests : RequestOK(q)'
  <1> SUFFICES ASSUME NEW q \in Requests PROVE RequestOK(q)'
    OBVIOUS
  <1>1. CASE q = r
    BY <1>1, EndKeeps
      DEF RequestOK, ActorOK, LoginOK, SessionOK, SwitchOK, InviteOK, ChangeOK, RevokesAll, Changing, Holding
  <1>2. CASE q # r
    BY <1>2, EndKeeps, OthersKept
  <1> QED BY <1>1, <1>2

\* A request that has moved to another statement, while nothing is written.
LEMMA MovedOK ==
    ASSUME IInv, NEW r \in Requests, NEW to \in Statements, NEW in, GoTo(r, to, in),
           UNCHANGED <<rows, expired>>, actor' \in [Requests -> Actors],
           \A q \in Requests : q # r => actor'[q] = actor[q],
           RequestOK(r)',
           rowLock' \in [Memberships -> Requests \cup {Nobody}],
           \A m \in Memberships, q \in Requests :
              rowLock'[m] = q <=> pc'[q] \in {"commit", "find", "role"} /\ input'[q].membership = m
    PROVE  IInv'
  <1>1. RowsGrow
    BY DEF RowsGrow, rows
  <1>2. \A q \in Requests : RequestOK(q)'
    BY <1>1, OthersKept, GoToKeeps
  <1>3. TypeOK'
    BY GoToKeeps DEF IInv, TypeOK, rows
  <1>4. SessionSpeaksForItsUser'
    BY DEF IInv, SessionSpeaksForItsUser, rows
  <1> QED BY <1>2, <1>3, <1>4, GoToKeeps DEF IInv, rows

\* The locks of a request that holds none before and after.
LEMMA NoLockMoved ==
    ASSUME IInv, NEW r \in Requests, NEW to \in Statements, NEW in, GoTo(r, to, in), UNCHANGED rowLock,
           pc[r] \notin Holding, to \notin Holding
    PROVE  /\ rowLock' \in [Memberships -> Requests \cup {Nobody}]
           /\ \A m \in Memberships, q \in Requests :
                rowLock'[m] = q <=> pc'[q] \in {"commit", "find", "role"} /\ input'[q].membership = m
  BY GoToKeeps DEF IInv, TypeOK, Holding

LEMMA LoginReadKeeps == ASSUME IInv, NEW r \in Requests, LoginRead(r) PROVE IInv'
  <1>1. PICK u \in Users, m \in Memberships \cup {Nobody} :
          /\ GoTo(r, "login", [userId |-> u, membership |-> m])
          /\ m # Nobody => m \in ActiveOf(u)
    BY AccessAssumption DEF LoginRead, ActiveOf
  <1>2. /\ pc[r] = "idle" /\ UNCHANGED <<rows, expired, rowLock, actor>> /\ "login" \in Statements
    BY DEF LoginRead, Statements
  <1>3. pc'[r] = "login" /\ input'[r] = [userId |-> u, membership |-> m]
    BY <1>1, <1>2, GoToKeeps
  <1>4. RequestOK(r)'
    BY <1>1, <1>2, <1>3 DEF RequestOK, ActorOK, LoginOK, SessionOK, SwitchOK, InviteOK, ChangeOK, RevokesAll,
       Changing, Holding, Inputs, Held, ActiveOf, rows
  <1>5. actor' \in [Requests -> Actors] /\ \A q \in Requests : q # r => actor'[q] = actor[q]
    BY <1>2 DEF IInv
  <1> QED BY <1>1, <1>2, <1>4, <1>5, NoLockMoved, MovedOK DEF Holding

LEMMA AuthReadKeeps == ASSUME IInv, NEW r \in Requests, AuthRead(r) PROVE IInv'
  <1>1. PICK s \in Sessions :
          /\ user[s] # Nobody
          /\ actor' = [actor EXCEPT ![r] = [session |-> s, userId |-> user[s], membership |-> Nobody]]
          /\ GoTo(r, "session", acting[s])
    BY DEF AuthRead
  <1>2. pc[r] = "idle" /\ UNCHANGED <<rows, expired, rowLock>> /\ "session" \in Statements
    BY DEF AuthRead, Statements
  <1>3. pc'[r] = "session" /\ input'[r] = acting[s]
    BY <1>1, <1>2, GoToKeeps
  <1>4. user[s] \in Users /\ acting[s] \in Memberships \cup {Nobody}
    BY <1>1 DEF IInv, TypeOK
  <1>5. /\ actor' \in [Requests -> Actors] /\ \A q \in Requests : q # r => actor'[q] = actor[q]
        /\ actor'[r].session = s /\ actor'[r].userId = user[s]
    BY <1>1, <1>4 DEF IInv, Actors
  <1>6. acting[s] # Nobody => Held(acting[s], user[s])
    BY <1>4 DEF IInv, SessionSpeaksForItsUser, Held
  <1>7. SessionOK(r)'
    BY <1>2, <1>3, <1>5, <1>6 DEF SessionOK, Held, rows
  <1>8. ActorOK(r)'
    BY <1>2, <1>3, <1>4, <1>5 DEF ActorOK, rows
  <1>9. RequestOK(r)'
    BY <1>3, <1>7, <1>8 DEF RequestOK, LoginOK, SwitchOK, InviteOK, ChangeOK, RevokesAll, Changing, Holding
  <1> QED BY <1>1, <1>2, <1>5, <1>9, NoLockMoved, MovedOK DEF Holding

LEMMA AuthenticateKeeps == ASSUME IInv, NEW r \in Requests, Authenticate(r) PROVE IInv'
  <1>1. /\ pc[r] = "session" /\ UNCHANGED <<rows, expired, rowLock>> /\ "authenticated" \in Statements
        /\ GoTo(r, "authenticated", Nobody)
        /\ actor' = [actor EXCEPT ![r].membership = Resolve(input[r])]
    BY DEF Authenticate, Statements
  <1>2. /\ actor[r].session \in Sessions /\ actor[r].userId \in Users
        /\ user[actor[r].session] = actor[r].userId
        /\ input[r] = Nobody \/ Held(input[r], actor[r].userId)
    BY <1>1 DEF IInv, RequestOK, ActorOK, SessionOK
  <1>3. pc'[r] = "authenticated"
    BY <1>1, GoToKeeps
  <1>4. Resolve(input[r]) \in Memberships \cup {Nobody}
    BY <1>2 DEF Resolve, Held
  <1>5. /\ actor' \in [Requests -> Actors] /\ \A q \in Requests : q # r => actor'[q] = actor[q]
        /\ actor'[r].session = actor[r].session /\ actor'[r].userId = actor[r].userId
    BY <1>1, <1>4 DEF IInv, Actors
  <1>6. ActorOK(r)'
    BY <1>1, <1>2, <1>5 DEF ActorOK, rows
  <1>7. RequestOK(r)'
    BY <1>3, <1>6 DEF RequestOK, LoginOK, SessionOK, SwitchOK, InviteOK, ChangeOK, RevokesAll, Changing, Holding
  <1> QED BY <1>1, <1>5, <1>7, NoLockMoved, MovedOK DEF Holding

LEMMA SwitchReadKeeps == ASSUME IInv, NEW r \in Requests, SwitchRead(r) PROVE IInv'
  <1>1. PICK m \in ActiveOf(actor[r].userId) : GoTo(r, "switch", m)
    BY DEF SwitchRead, SwitchTargets
  <1>2. /\ pc[r] = "authenticated" /\ UNCHANGED <<rows, expired, rowLock, actor>> /\ "switch" \in Statements
    BY DEF SwitchRead, Statements
  <1>3. pc'[r] = "switch" /\ input'[r] = m
    BY <1>1, <1>2, GoToKeeps
  <1>4. RequestOK(r)'
    BY <1>1, <1>2, <1>3 DEF IInv, RequestOK, ActorOK, LoginOK, SessionOK, SwitchOK, InviteOK, ChangeOK, RevokesAll,
       Changing, Holding, Held, ActiveOf, rows
  <1>5. actor' \in [Requests -> Actors] /\ \A q \in Requests : q # r => actor'[q] = actor[q]
    BY <1>2 DEF IInv
  <1> QED BY <1>1, <1>2, <1>4, <1>5, NoLockMoved, MovedOK DEF Holding

LEMMA InviteReadKeeps == ASSUME IInv, NEW r \in Requests, InviteRead(r) PROVE IInv'
  <1>1. PICK m \in Memberships :
          status[m] \in {"ABSENT", "REVOKED"} /\ GoTo(r, "invite", [membership |-> m, found |-> status[m]])
    BY DEF InviteRead
  <1>2. /\ pc[r] = "authenticated" /\ UNCHANGED <<rows, expired, rowLock, actor>> /\ "invite" \in Statements
    BY DEF InviteRead, Authorized, Statements
  <1>3. pc'[r] = "invite" /\ input'[r] = [membership |-> m, found |-> status[m]]
    BY <1>1, <1>2, GoToKeeps
  <1>4. RequestOK(r)'
    BY <1>1, <1>3 DEF RequestOK, ActorOK, LoginOK, SessionOK, SwitchOK, InviteOK, ChangeOK, RevokesAll, Changing,
       Holding, Invites
  <1>5. actor' \in [Requests -> Actors] /\ \A q \in Requests : q # r => actor'[q] = actor[q]
    BY <1>2 DEF IInv
  <1> QED BY <1>1, <1>2, <1>4, <1>5, NoLockMoved, MovedOK DEF Holding

LEMMA ChangeReadKeeps == ASSUME IInv, NEW r \in Requests, ChangeRead(r) PROVE IInv'
  <1>1. PICK m \in Memberships, to \in MembershipStatuses, n \in Memberships \cup {Nobody} :
          GoTo(r, "update", Change(m, to, n)) /\ (n # Nobody => to = "REVOKED" /\ n # m)
    BY DEF ChangeRead, MembershipStatuses
  <1>2. /\ pc[r] = "authenticated" /\ UNCHANGED <<rows, expired, rowLock, actor>> /\ "update" \in Statements
    BY DEF ChangeRead, Authorized, Statements
  <1>3. pc'[r] = "update" /\ input'[r] = Change(m, to, n)
    BY <1>1, <1>2, GoToKeeps
  <1>4. /\ Change(m, to, n) \in Changes
        /\ Change(m, to, n).next = n /\ Change(m, to, n).to = to /\ Change(m, to, n).membership = m
        /\ \A s \in Change(m, to, n).before : s \in Sessions /\ user[s] = m.userId
    BY DEF Change, Changes
  <1>5. ChangeOK(r)'
    BY <1>1, <1>2, <1>3, <1>4 DEF ChangeOK, rows
  <1>6. RequestOK(r)'
    BY <1>3, <1>5 DEF RequestOK, ActorOK, LoginOK, SessionOK, SwitchOK, InviteOK, RevokesAll, Holding
  <1>7. actor' \in [Requests -> Actors] /\ \A q \in Requests : q # r => actor'[q] = actor[q]
    BY <1>2 DEF IInv
  <1> QED BY <1>1, <1>2, <1>6, <1>7, NoLockMoved, MovedOK DEF Holding

\* The update of a change: its transaction takes the row and the live sessions.
LEMMA ChangeUpdateKeeps == ASSUME IInv, NEW r \in Requests, ChangeUpdate(r) PROVE IInv'
  <1> DEFINE in == input[r]
             to == IF in.next = Nobody THEN "commit" ELSE "find"
             revoke == IF EndsSessions(in.to) THEN LiveSessionsOf(in.membership.userId) ELSE {}
             new == [in EXCEPT !.revoke = revoke]
  <1>1. /\ pc[r] = "update" /\ rowLock[in.membership] \in {Nobody, r}
        /\ rowLock' = [rowLock EXCEPT ![in.membership] = r]
        /\ GoTo(r, to, new) /\ to \in Statements
        /\ UNCHANGED <<rows, expired, actor>>
    BY DEF ChangeUpdate, MayWrite, Statements
  <1>2. /\ in \in Changes
        /\ in.next # Nobody => in.to = "REVOKED" /\ in.next # in.membership
        /\ \A s \in in.before : user[s] = in.membership.userId
    BY <1>1 DEF IInv, RequestOK, ChangeOK, Changing
  <1>3. revoke \in SUBSET Sessions
    BY DEF LiveSessionsOf
  <1>4. /\ new \in Changes /\ new.revoke = revoke
        /\ new.membership = in.membership /\ new.to = in.to /\ new.next = in.next /\ new.before = in.before
    <2> HIDE DEF in, revoke
    <2> QED BY <1>2, <1>3 DEF Changes
  <1>5. pc'[r] = to /\ input'[r] = new /\ \A q \in Requests : q # r => pc'[q] = pc[q] /\ input'[q] = input[q]
    <2> HIDE DEF in, to, new
    <2> QED BY <1>1, GoToKeeps
  <1>6. ChangeOK(r)'
    <2> HIDE DEF in, revoke, new
    <2> QED BY <1>1, <1>2, <1>4, <1>5 DEF ChangeOK, rows
  <1>7. in.to # "ACTIVE" => in.before \subseteq revoke \cup ended
    BY <1>2 DEF EndsSessions, LiveSessionsOf, Changes
  <1>8. RevokesAll(r)'
    <2> HIDE DEF in, revoke, new
    <2> QED BY <1>1, <1>4, <1>5, <1>7 DEF RevokesAll, rows
  <1>9. RequestOK(r)'
    BY <1>5, <1>6, <1>8 DEF RequestOK, ActorOK, LoginOK, SessionOK, SwitchOK, InviteOK
  <1>10. in.membership \in Memberships
    BY <1>2 DEF Changes
  <1>11. rowLock' \in [Memberships -> Requests \cup {Nobody}]
    BY <1>1, <1>10 DEF IInv
  <1>12. \A m \in Memberships, q \in Requests :
            rowLock'[m] = q <=> pc'[q] \in {"commit", "find", "role"} /\ input'[q].membership = m
    <2> SUFFICES ASSUME NEW m \in Memberships, NEW q \in Requests
                 PROVE  rowLock'[m] = q <=> pc'[q] \in {"commit", "find", "role"} /\ input'[q].membership = m
      OBVIOUS
    <2> HIDE DEF in, new
    <2>1. CASE q = r
      BY <2>1, <1>1, <1>4, <1>5, <1>10 DEF IInv, TypeOK
    <2>2. CASE q # r
      BY <2>2, <1>1, <1>5, <1>10, AccessAssumption DEF IInv, TypeOK
    <2> QED BY <2>1, <2>2
  <1>13. actor' \in [Requests -> Actors] /\ \A q \in Requests : q # r => actor'[q] = actor[q]
    BY <1>1 DEF IInv
  <1> HIDE DEF in, to, new
  <1> QED BY <1>1, <1>9, <1>11, <1>12, <1>13, MovedOK

LEMMA RoleFindKeeps == ASSUME IInv, NEW r \in Requests, RoleFind(r) PROVE IInv'
  <1> DEFINE in == input[r]
             new == [in EXCEPT !.found = status[in.next]]
  <1>1. /\ pc[r] = "find" /\ GoTo(r, "role", new) /\ "role" \in Statements
        /\ UNCHANGED <<rows, expired, rowLock, actor>>
    BY DEF RoleFind, Statements
  <1>2. /\ in \in Changes /\ in.next # Nobody /\ in.to = "REVOKED" /\ in.next # in.membership
        /\ \A s \in in.before : user[s] = in.membership.userId
        /\ in.before \subseteq in.revoke \cup ended
    BY <1>1 DEF IInv, RequestOK, ChangeOK, Changing, RevokesAll, Holding
  <1>3. status[in.next] \in MembershipStatuses \cup {"ABSENT"}
    BY <1>2 DEF IInv, TypeOK, Changes
  <1>4. /\ new \in Changes /\ new.revoke = in.revoke
        /\ new.membership = in.membership /\ new.to = in.to /\ new.next = in.next /\ new.before = in.before
    <2> HIDE DEF in
    <2> QED BY <1>2, <1>3 DEF Changes
  <1>5. pc'[r] = "role" /\ input'[r] = new /\ \A q \in Requests : q # r => pc'[q] = pc[q] /\ input'[q] = input[q]
    <2> HIDE DEF in, new
    <2> QED BY <1>1, GoToKeeps
  <1>6. RequestOK(r)'
    <2> HIDE DEF in, new
    <2> QED BY <1>1, <1>2, <1>4, <1>5
      DEF RequestOK, ActorOK, LoginOK, SessionOK, SwitchOK, InviteOK, ChangeOK, RevokesAll, rows
  <1>7. \A m \in Memberships, q \in Requests :
            rowLock'[m] = q <=> pc'[q] \in {"commit", "find", "role"} /\ input'[q].membership = m
    <2> HIDE DEF new
    <2> QED BY <1>1, <1>4, <1>5 DEF IInv, TypeOK
  <1>8. /\ actor' \in [Requests -> Actors] /\ \A q \in Requests : q # r => actor'[q] = actor[q]
        /\ rowLock' \in [Memberships -> Requests \cup {Nobody}]
    BY <1>1 DEF IInv
  <1> HIDE DEF in, new
  <1> QED BY <1>1, <1>6, <1>7, <1>8, MovedOK

-----------------------------------------------------------------------------
(* The steps that write rows                                               *)

\* A step that ends its request and lets the rows grow leaves the rows' own
\* invariants to show.
LEMMA WriteKeeps ==
    ASSUME IInv, NEW r \in Requests, End(r), RowsGrow,
           status' \in [Memberships -> MembershipStatuses \cup {"ABSENT"}],
           user' \in [Sessions -> Users \cup {Nobody}],
           acting' \in [Sessions -> Memberships \cup {Nobody}],
           ended' \subseteq Sessions,
           SessionSpeaksForItsUser'
    PROVE  IInv'
  BY EndKeeps, EndedOK DEF IInv, TypeOK

\* Sessions speak for their users while memberships keep their rows.
LEMMA StillSpeaks ==
    ASSUME IInv, RowsGrow, UNCHANGED <<user, acting>> PROVE SessionSpeaksForItsUser'
  BY DEF IInv, TypeOK, RowsGrow, SessionSpeaksForItsUser

LEMMA LoginCreateKeeps == ASSUME IInv, NEW r \in Requests, LoginCreate(r) PROVE IInv'
  <1>1. PICK s \in Sessions :
          /\ user[s] = Nobody
          /\ user' = [user EXCEPT ![s] = input[r].userId]
          /\ acting' = [acting EXCEPT ![s] = input[r].membership]
    BY DEF LoginCreate
  <1>2. pc[r] = "login" /\ End(r) /\ UNCHANGED <<status, ended, expired>>
    BY DEF LoginCreate
  <1>3. /\ input[r].userId \in Users /\ input[r].membership \in Memberships \cup {Nobody}
        /\ input[r].membership # Nobody => Held(input[r].membership, input[r].userId)
    BY <1>2 DEF IInv, RequestOK, LoginOK, Inputs
  <1>4. RowsGrow
    BY <1>1, <1>2 DEF IInv, TypeOK, RowsGrow
  <1>5. /\ user' \in [Sessions -> Users \cup {Nobody}] /\ acting' \in [Sessions -> Memberships \cup {Nobody}]
        /\ status' \in [Memberships -> MembershipStatuses \cup {"ABSENT"}] /\ ended' \subseteq Sessions
    BY <1>1, <1>2, <1>3 DEF IInv, TypeOK
  <1>6. SessionSpeaksForItsUser'
    BY <1>1, <1>2, <1>3 DEF IInv, TypeOK, SessionSpeaksForItsUser, Held
  <1> QED BY <1>2, <1>4, <1>5, <1>6, WriteKeeps

LEMMA SwitchWriteKeeps == ASSUME IInv, NEW r \in Requests, SwitchWrite(r) PROVE IInv'
  <1>1. /\ pc[r] = "switch" /\ End(r) /\ UNCHANGED <<status, user, ended, expired>>
        /\ acting' = [acting EXCEPT ![actor[r].session] = input[r]]
    BY DEF SwitchWrite
  <1>2. /\ actor[r].session \in Sessions /\ user[actor[r].session] = actor[r].userId
        /\ Held(input[r], actor[r].userId)
    BY <1>1 DEF IInv, RequestOK, ActorOK, SwitchOK
  <1>3. RowsGrow
    BY <1>1 DEF RowsGrow
  <1>4. acting' \in [Sessions -> Memberships \cup {Nobody}]
    BY <1>1, <1>2 DEF IInv, TypeOK, Held
  <1>5. SessionSpeaksForItsUser'
    BY <1>1, <1>2 DEF IInv, TypeOK, SessionSpeaksForItsUser, Held
  <1> QED BY <1>1, <1>3, <1>4, <1>5, WriteKeeps DEF IInv, TypeOK

LEMMA LogoutKeeps == ASSUME IInv, NEW r \in Requests, Logout(r) PROVE IInv'
  <1>1. /\ End(r) /\ UNCHANGED <<status, user, acting, expired>>
        /\ ended' = ended \cup {actor[r].session} /\ actor[r].session \in Sessions
    BY DEF Logout, IInv, RequestOK, ActorOK
  <1>2. RowsGrow
    BY <1>1 DEF RowsGrow
  <1> QED BY <1>1, <1>2, StillSpeaks, WriteKeeps DEF IInv, TypeOK

LEMMA InviteWriteKeeps == ASSUME IInv, NEW r \in Requests, InviteWrite(r) PROVE IInv'
  <1>1. /\ pc[r] = "invite" /\ End(r) /\ UNCHANGED <<user, acting, ended, expired>>
        /\ status' = [status EXCEPT ![input[r].membership] = "INVITED"]
    BY DEF InviteWrite
  <1>2. status \in [Memberships -> MembershipStatuses \cup {"ABSENT"}] /\ "INVITED" \in MembershipStatuses
    BY DEF IInv, TypeOK, MembershipStatuses
  <1>3. status' \in [Memberships -> MembershipStatuses \cup {"ABSENT"}]
    BY <1>1, <1>2
  <1>4. \A m \in Memberships : status'[m] = status[m] \/ status'[m] = "INVITED"
    BY <1>1, <1>2
  <1>5. RowsGrow
    BY <1>1, <1>4 DEF RowsGrow
  <1> QED BY <1>1, <1>3, <1>5, StillSpeaks, WriteKeeps DEF IInv, TypeOK

LEMMA StatusCommitKeeps == ASSUME IInv, NEW r \in Requests, StatusCommit(r) PROVE IInv'
  <1>1. /\ pc[r] = "commit" /\ End(r) /\ UNCHANGED <<user, acting, expired>>
        /\ status' = [status EXCEPT ![input[r].membership] = input[r].to]
        /\ ended' = ended \cup input[r].revoke
    BY DEF StatusCommit
  <1>2. input[r].to \in MembershipStatuses /\ input[r].revoke \subseteq Sessions
    BY <1>1 DEF IInv, RequestOK, ChangeOK, Changing, Changes
  <1>3. RowsGrow /\ status' \in [Memberships -> MembershipStatuses \cup {"ABSENT"}]
    <2>1. input[r].to # "ABSENT"
      BY <1>2 DEF MembershipStatuses
    <2>2. status' \in [Memberships -> MembershipStatuses \cup {"ABSENT"}]
      BY <1>1, <1>2 DEF IInv, TypeOK
    <2>3. \A m \in Memberships : status[m] # "ABSENT" => status'[m] # "ABSENT"
      BY <1>1, <2>1 DEF IInv, TypeOK
    <2> QED BY <1>1, <2>2, <2>3 DEF RowsGrow
  <1> QED BY <1>1, <1>2, <1>3, StillSpeaks, WriteKeeps DEF IInv, TypeOK

LEMMA RoleCommitKeeps == ASSUME IInv, NEW r \in Requests, RoleCommit(r) PROVE IInv'
  <1>1. /\ pc[r] = "role" /\ End(r) /\ UNCHANGED <<user, acting, expired>>
        /\ status' = [status EXCEPT ![input[r].membership] = "REVOKED", ![input[r].next] = "ACTIVE"]
        /\ ended' = ended \cup input[r].revoke
    BY DEF RoleCommit
  <1>2. input[r].revoke \subseteq Sessions
    BY <1>1 DEF IInv, RequestOK, ChangeOK, Changing, Changes
  <1>3. RowsGrow /\ status' \in [Memberships -> MembershipStatuses \cup {"ABSENT"}]
    <2> DEFINE kept == [status EXCEPT ![input[r].membership] = "REVOKED"]
    <2>1. status \in [Memberships -> MembershipStatuses \cup {"ABSENT"}]
      BY DEF IInv, TypeOK
    <2>2. "REVOKED" \in MembershipStatuses /\ "ACTIVE" \in MembershipStatuses
      BY DEF MembershipStatuses
    <2>3. status' = [kept EXCEPT ![input[r].next] = "ACTIVE"]
      BY <1>1
    <2>4. /\ kept \in [Memberships -> MembershipStatuses \cup {"ABSENT"}]
          /\ \A m \in Memberships : kept[m] = status[m] \/ kept[m] = "REVOKED"
      BY <2>1, <2>2
    <2> HIDE DEF kept
    <2>5. /\ status' \in [Memberships -> MembershipStatuses \cup {"ABSENT"}]
          /\ \A m \in Memberships : status'[m] = kept[m] \/ status'[m] = "ACTIVE"
      BY <2>2, <2>3, <2>4
    <2>6. \A m \in Memberships : status[m] # "ABSENT" => status'[m] # "ABSENT"
      BY <2>4, <2>5
    <2> QED BY <1>1, <2>5, <2>6 DEF RowsGrow
  <1> QED BY <1>1, <1>2, <1>3, StillSpeaks, WriteKeeps DEF IInv, TypeOK

LEMMA StopKeeps == ASSUME IInv, NEW r \in Requests, Stop(r) PROVE IInv'
  <1>1. End(r) /\ UNCHANGED <<rows, expired>>
    BY DEF Stop
  <1>2. RowsGrow
    BY <1>1 DEF RowsGrow, rows
  <1> QED BY <1>1, <1>2, StillSpeaks, WriteKeeps DEF IInv, TypeOK, rows

LEMMA QuietKeeps ==
    ASSUME IInv, UNCHANGED <<rows, rowLock, pc, actor, input>> PROVE IInv'
  <1>1. RowsGrow
    BY DEF RowsGrow, rows
  <1>2. \A q \in Requests : RequestOK(q)'
    BY <1>1, OthersKept
  <1> QED BY <1>1, <1>2, StillSpeaks DEF IInv, TypeOK, rows

LEMMA NextIInv == IInv /\ [Next]_vars => IInv'
  <1> SUFFICES ASSUME IInv, [Next]_vars PROVE IInv'
    OBVIOUS
  <1>1. ASSUME NEW r \in Requests, Request(r) PROVE IInv'
    BY <1>1, LoginReadKeeps, LoginCreateKeeps, AuthReadKeeps, AuthenticateKeeps, LogoutKeeps,
       SwitchReadKeeps, SwitchWriteKeeps, InviteReadKeeps, InviteWriteKeeps, ChangeReadKeeps, ChangeUpdateKeeps, StatusCommitKeeps, RoleFindKeeps,
       RoleCommitKeeps, StopKeeps DEF Request
  <1>2. ASSUME NEW s \in Sessions, Expire(s) PROVE IInv'
    BY <1>2, QuietKeeps DEF Expire
  <1>3. CASE UNCHANGED vars
    BY <1>3, QuietKeeps DEF vars
  <1> QED BY <1>1, <1>2, <1>3 DEF Next

LEMMA Invariance == Spec => []IInv
  BY InitIInv, NextIInv, PTL DEF Spec

\* auth and memberships: however logins, switches, invitations and changes of
\* status or role interleave and stop, a membership is locked by exactly the
\* transaction that has updated it, and no session speaks for another user.
THEOREM Sessions_Sound == Spec => []SessionsAreSound
  <1>1. IInv => SessionsAreSound
    BY DEF IInv, SessionsAreSound
  <1> QED BY <1>1, Invariance, PTL

-----------------------------------------------------------------------------
(* Every change of a membership rests on an authority that is, or was, held   *)

\* The membership a request acts as is one of those remembered as ACTIVE since it
\* read its session, and permits the change the request has gone on to.
ActorSeen(r) ==
    pc[r] \notin {"idle", "login", "session"} /\ actor[r].membership # Nobody
    => actor[r].membership \in seenActive[r]
Backed(r, verb) ==
    actor[r].membership # Nobody /\ Permits(actor[r].membership, verb, input[r].membership.organizationId)
InviteBacked(r) == pc[r] = "invite" => Backed(r, "create")
ChangeBacked(r) ==
    pc[r] \in Changing =>
        /\ input[r].next = Nobody => Backed(r, "update_status")
        /\ input[r].next # Nobody =>
             /\ Backed(r, "update_role")
             /\ input[r].next.organizationId = input[r].membership.organizationId

AuthorityOK(r) == ActorSeen(r) /\ InviteBacked(r) /\ ChangeBacked(r)
AuthInv == IInv /\ \A r \in Requests : AuthorityOK(r)

LEMMA InitAuthInv == Init => AuthInv
  BY InitIInv DEF Init, AuthInv, AuthorityOK, ActorSeen, InviteBacked, ChangeBacked, Changing

\* What a request has seen it keeps until it is over.
LEMMA SeenStays ==
    ASSUME Remember, NEW r \in Requests, pc'[r] \notin {"idle", "login"}
    PROVE  seenActive[r] \subseteq seenActive'[r]
  BY DEF Remember

\* A request that has not moved, or has moved on with its actor and what it asks for.
LEMMA StillBacked ==
    ASSUME Remember, NEW r \in Requests, AuthorityOK(r),
           pc'[r] = pc[r] \/ (pc[r] \in Changing /\ pc'[r] \in Changing),
           actor'[r] = actor[r],
           pc[r] \notin Changing => input'[r] = input[r],
           pc[r] \in Changing =>
              input'[r].membership = input[r].membership /\ input'[r].next = input[r].next
    PROVE  AuthorityOK(r)'
  <1>1. ActorSeen(r)'
    <2> SUFFICES ASSUME pc'[r] \notin {"idle", "login", "session"}, actor'[r].membership # Nobody
                 PROVE  actor'[r].membership \in seenActive'[r]
      BY DEF ActorSeen
    <2>1. pc[r] \notin {"idle", "login", "session"}
      BY DEF Changing
    <2>2. actor[r].membership \in seenActive[r]
      BY <2>1 DEF AuthorityOK, ActorSeen
    <2> QED BY <2>2, SeenStays
  <1>2. InviteBacked(r)'
    <2>1. pc'[r] = "invite" => pc[r] = "invite" /\ pc[r] \notin Changing
      BY DEF Changing
    <2> QED BY <2>1 DEF AuthorityOK, InviteBacked, Backed
  <1>3. ChangeBacked(r)'
    <2>1. pc'[r] \in Changing => pc[r] \in Changing
      OBVIOUS
    <2> QED BY <2>1 DEF AuthorityOK, ChangeBacked, Backed
  <1> QED BY <1>1, <1>2, <1>3 DEF AuthorityOK

\* A request that is over, or has not got past its session, rests on nothing.
LEMMA NothingBacked ==
    ASSUME NEW r \in Requests, pc'[r] \in {"idle", "login", "session"} PROVE AuthorityOK(r)'
  BY DEF AuthorityOK, ActorSeen, InviteBacked, ChangeBacked, Changing

LEMMA AuthenticateBacked ==
    ASSUME IInv, Remember, NEW r \in Requests, Authenticate(r) PROVE AuthorityOK(r)'
  <1>1. /\ pc[r] = "session" /\ GoTo(r, "authenticated", Nobody) /\ "authenticated" \in Statements
        /\ actor' = [actor EXCEPT ![r].membership = Resolve(input[r])] /\ UNCHANGED rows
    BY DEF Authenticate, Statements
  <1>2. pc'[r] = "authenticated"
    BY <1>1, GoToKeeps
  <1>3. /\ user[actor[r].session] = actor[r].userId
        /\ input[r] = Nobody \/ Held(input[r], actor[r].userId)
    BY <1>1 DEF IInv, RequestOK, ActorOK, SessionOK
  <1>4. actor'[r].membership = Resolve(input[r]) /\ actor'[r].session = actor[r].session
    BY <1>1 DEF IInv, Actors
  <1>5. ASSUME actor'[r].membership # Nobody
        PROVE  actor'[r].membership \in seenActive'[r]
    <2> DEFINE own == actor'[r].membership
    <2>1. own = input[r] /\ status[own] = "ACTIVE"
      BY <1>4, <1>5 DEF Resolve
    <2>2. own \in Memberships /\ own.userId = user'[actor'[r].session] /\ status'[own] = "ACTIVE"
      BY <1>1, <1>3, <1>4, <1>5, <2>1 DEF Held, rows
    <2> HIDE DEF own
    <2>3. own \in seenActive'[r]
      BY <1>2, <2>2 DEF Remember
    <2> QED BY <2>3 DEF own
  <1> QED BY <1>2, <1>5 DEF AuthorityOK, ActorSeen, InviteBacked, ChangeBacked, Changing

\* switchOrg asks for no authority.
LEMMA SwitchBacked ==
    ASSUME IInv, Remember, NEW r \in Requests, AuthorityOK(r), SwitchRead(r) PROVE AuthorityOK(r)'
  <1>1. PICK m : GoTo(r, "switch", m)
    BY DEF SwitchRead
  <1>2. pc[r] = "authenticated" /\ actor' = actor /\ "switch" \in Statements
    BY DEF SwitchRead, Statements
  <1>3. pc'[r] = "switch"
    BY <1>1, <1>2, GoToKeeps
  <1>4. seenActive[r] \subseteq seenActive'[r]
    BY <1>3, SeenStays
  <1> QED BY <1>2, <1>3, <1>4 DEF AuthorityOK, ActorSeen, InviteBacked, ChangeBacked, Changing

LEMMA InviteReadBacked ==
    ASSUME IInv, Remember, NEW r \in Requests, AuthorityOK(r), InviteRead(r) PROVE AuthorityOK(r)'
  <1>1. PICK m \in Memberships :
          /\ Authorized(r, "create", m.organizationId)
          /\ GoTo(r, "invite", [membership |-> m, found |-> status[m]])
    BY DEF InviteRead
  <1>2. pc[r] = "authenticated" /\ actor' = actor /\ "invite" \in Statements
    BY <1>1 DEF InviteRead, Authorized, Statements
  <1>3. pc'[r] = "invite" /\ input'[r].membership = m
    BY <1>1, <1>2, GoToKeeps
  <1>4. seenActive[r] \subseteq seenActive'[r]
    BY <1>3, SeenStays
  <1>5. ActorSeen(r)'
    BY <1>2, <1>4 DEF AuthorityOK, ActorSeen
  <1>6. InviteBacked(r)'
    BY <1>1, <1>2, <1>3 DEF InviteBacked, Backed, Authorized
  <1> QED BY <1>3, <1>5, <1>6 DEF AuthorityOK, ChangeBacked, Changing

LEMMA ChangeReadBacked ==
    ASSUME IInv, Remember, NEW r \in Requests, AuthorityOK(r), ChangeRead(r) PROVE AuthorityOK(r)'
  <1>1. PICK m \in Memberships, to \in MembershipStatuses, n \in Memberships \cup {Nobody} :
          /\ GoTo(r, "update", Change(m, to, n))
          /\ n = Nobody => Authorized(r, "update_status", m.organizationId)
          /\ n # Nobody => Authorized(r, "update_role", m.organizationId)
                           /\ n.organizationId = m.organizationId
    BY AccessAssumption DEF ChangeRead, MembershipStatuses
  <1>2. pc[r] = "authenticated" /\ actor' = actor /\ "update" \in Statements
    BY <1>1 DEF ChangeRead, Authorized, Statements
  <1>3. pc'[r] = "update" /\ input'[r] = Change(m, to, n)
    BY <1>1, <1>2, GoToKeeps
  <1>4. input'[r].membership = m /\ input'[r].next = n
    BY <1>3 DEF Change
  <1>5. seenActive[r] \subseteq seenActive'[r]
    BY <1>3, SeenStays
  <1>6. ActorSeen(r)'
    BY <1>2, <1>5 DEF AuthorityOK, ActorSeen
  <1>7. ChangeBacked(r)'
    BY <1>1, <1>2, <1>4 DEF ChangeBacked, Backed, Authorized
  <1> QED BY <1>3, <1>6, <1>7 DEF AuthorityOK, InviteBacked

LEMMA ChangeUpdateBacked ==
    ASSUME IInv, Remember, NEW r \in Requests, AuthorityOK(r), ChangeUpdate(r) PROVE AuthorityOK(r)'
  <1> DEFINE in == input[r]
             to == IF in.next = Nobody THEN "commit" ELSE "find"
             revoke == IF EndsSessions(in.to) THEN LiveSessionsOf(in.membership.userId) ELSE {}
             new == [in EXCEPT !.revoke = revoke]
  <1>1. pc[r] = "update" /\ GoTo(r, to, new) /\ to \in Statements /\ actor' = actor
    BY DEF ChangeUpdate, Statements
  <1>2. in \in Changes
    BY <1>1 DEF IInv, RequestOK, ChangeOK, Changing
  <1>3. new.membership = in.membership /\ new.next = in.next
    <2> HIDE DEF in, revoke
    <2> QED BY <1>2 DEF Changes
  <1>4. pc'[r] = to /\ input'[r] = new
    <2> HIDE DEF in, to, new
    <2> QED BY <1>1, GoToKeeps
  <1>5. pc[r] \in Changing /\ to \in Changing
    BY <1>1 DEF Changing
  <1> HIDE DEF to, new
  <1> QED BY <1>1, <1>3, <1>4, <1>5, StillBacked

LEMMA RoleFindBacked ==
    ASSUME IInv, Remember, NEW r \in Requests, AuthorityOK(r), RoleFind(r) PROVE AuthorityOK(r)'
  <1> DEFINE in == input[r]
             new == [in EXCEPT !.found = status[in.next]]
  <1>1. pc[r] = "find" /\ GoTo(r, "role", new) /\ "role" \in Statements /\ actor' = actor
    BY DEF RoleFind, Statements
  <1>2. in \in Changes
    BY <1>1 DEF IInv, RequestOK, ChangeOK, Changing
  <1>3. new.membership = in.membership /\ new.next = in.next
    <2> HIDE DEF in
    <2> QED BY <1>2 DEF Changes
  <1>4. pc'[r] = "role" /\ input'[r] = new
    <2> HIDE DEF in, new
    <2> QED BY <1>1, GoToKeeps
  <1> HIDE DEF new
  <1> QED BY <1>1, <1>3, <1>4, StillBacked DEF Changing

\* A request ends, or reads who acts.
LEMMA OverOrBegun ==
    ASSUME IInv, NEW r \in Requests,
           \/ End(r)
           \/ LoginRead(r) \/ AuthRead(r)
    PROVE  AuthorityOK(r)'
  <1>1. CASE End(r)
    BY <1>1, EndKeeps, NothingBacked
  <1>2. CASE LoginRead(r)
    <2>1. PICK in : GoTo(r, "login", in)
      BY <1>2 DEF LoginRead
    <2>2. pc'[r] = "login"
      BY <2>1, GoToKeeps DEF Statements
    <2> QED BY <2>2, NothingBacked
  <1>3. CASE AuthRead(r)
    <2>1. PICK in : GoTo(r, "session", in)
      BY <1>3 DEF AuthRead
    <2>2. pc'[r] = "session"
      BY <2>1, GoToKeeps DEF Statements
    <2> QED BY <2>2, NothingBacked
  <1> QED BY <1>1, <1>2, <1>3

\* A step of one request leaves the others as they are.
LEMMA OthersUnmoved ==
    ASSUME IInv, NEW r \in Requests, Request(r)
    PROVE  \A q \in Requests : q # r => pc'[q] = pc[q] /\ input'[q] = input[q] /\ actor'[q] = actor[q]
  <1>1. CASE End(r)
    BY <1>1, EndKeeps
  <1>2. CASE ~End(r)
    <2>1. \/ LoginRead(r) \/ AuthRead(r) \/ Authenticate(r) \/ SwitchRead(r) \/ InviteRead(r)
          \/ ChangeRead(r) \/ ChangeUpdate(r) \/ RoleFind(r)
      BY <1>2 DEF Request, LoginCreate, Logout, SwitchWrite, InviteWrite, StatusCommit, RoleCommit, Stop
    <2>2. \E to, in : GoTo(r, to, in)
      <3>1. CASE LoginRead(r) \/ AuthRead(r) \/ Authenticate(r) \/ SwitchRead(r)
        BY <3>1 DEF LoginRead, AuthRead, Authenticate, SwitchRead
      <3>2. CASE InviteRead(r) \/ ChangeRead(r) \/ ChangeUpdate(r) \/ RoleFind(r)
        BY <3>2 DEF InviteRead, ChangeRead, ChangeUpdate, RoleFind
      <3> QED BY <2>1, <3>1, <3>2
    <2>3. \A q \in Requests : q # r => pc'[q] = pc[q] /\ input'[q] = input[q]
      BY <2>2 DEF GoTo, IInv, TypeOK
    <2>4. \A q \in Requests : q # r => actor'[q] = actor[q]
      <3>1. CASE AuthRead(r) \/ Authenticate(r)
        BY <3>1 DEF AuthRead, Authenticate, IInv
      <3>2. CASE LoginRead(r) \/ SwitchRead(r) \/ InviteRead(r) \/ ChangeRead(r) \/ ChangeUpdate(r) \/ RoleFind(r)
        BY <3>2 DEF LoginRead, SwitchRead, InviteRead, ChangeRead, ChangeUpdate, RoleFind
      <3> QED BY <2>1, <3>1, <3>2
    <2> QED BY <2>3, <2>4
  <1> QED BY <1>1, <1>2

LEMMA MoverBacked ==
    ASSUME IInv, Remember, NEW r \in Requests, AuthorityOK(r), Request(r) PROVE AuthorityOK(r)'
  <1>1. CASE End(r) \/ LoginRead(r) \/ AuthRead(r)
    BY <1>1, OverOrBegun
  <1>2. CASE Authenticate(r) \/ SwitchRead(r) \/ InviteRead(r)
    BY <1>2, AuthenticateBacked, SwitchBacked, InviteReadBacked
  <1>3. CASE ChangeRead(r) \/ ChangeUpdate(r) \/ RoleFind(r)
    BY <1>3, ChangeReadBacked, ChangeUpdateBacked, RoleFindBacked
  <1>4. LoginCreate(r) \/ Logout(r) \/ SwitchWrite(r) \/ InviteWrite(r) => End(r)
    BY DEF LoginCreate, Logout, SwitchWrite, InviteWrite
  <1>5. StatusCommit(r) \/ RoleCommit(r) \/ Stop(r) => End(r)
    BY DEF StatusCommit, RoleCommit, Stop
  <1> QED BY <1>1, <1>2, <1>3, <1>4, <1>5 DEF Request

LEMMA NextAuthInv == AuthInv /\ [Next]_vars => AuthInv'
  <1> SUFFICES ASSUME AuthInv, [Next]_vars, NEW q \in Requests PROVE AuthorityOK(q)'
    BY NextIInv DEF AuthInv
  <1>0. IInv /\ AuthorityOK(q)
    BY DEF AuthInv
  <1>1. ASSUME NEW r \in Requests, Request(r), Remember PROVE AuthorityOK(q)'
    <2>1. CASE q = r
      BY <1>0, <1>1, <2>1, MoverBacked
    <2>2. CASE q # r
      <3>1. pc'[q] = pc[q] /\ input'[q] = input[q] /\ actor'[q] = actor[q]
        BY <1>0, <1>1, <2>2, OthersUnmoved
      <3> QED BY <1>0, <1>1, <3>1, StillBacked
    <2> QED BY <2>1, <2>2
  <1>2. ASSUME NEW s \in Sessions, Expire(s), Remember PROVE AuthorityOK(q)'
    <2>1. pc' = pc /\ input' = input /\ actor' = actor
      BY <1>2 DEF Expire
    <2> QED BY <1>0, <1>2, <2>1, StillBacked
  <1>3. CASE UNCHANGED vars
    <2>1. UNCHANGED <<pc, input, actor, seenActive>>
      BY <1>3 DEF vars
    <2> QED BY ONLY <1>0, <2>1 DEF AuthorityOK, ActorSeen, InviteBacked, ChangeBacked, Backed
  <1> QED BY <1>1, <1>2, <1>3 DEF Next

LEMMA AuthorityStep ==
    ASSUME AuthInv, [Next]_vars, NEW m \in Memberships, status'[m] # status[m]
    PROVE  \E r \in Requests, verb \in {"create", "update_status", "update_role"} :
              /\ pc[r] # "idle" /\ pc'[r] = "idle"
              /\ \E own \in seenActive[r] : Permits(own, verb, m.organizationId)
  <1>1. PICK r \in Requests : InviteWrite(r) \/ StatusCommit(r) \/ RoleCommit(r)
    BY DEF Next, vars, rows, Request, LoginRead, LoginCreate, AuthRead, Authenticate, Logout, SwitchRead,
       SwitchWrite, InviteRead, ChangeRead, ChangeUpdate, RoleFind, Stop, Expire
  <1>2. IInv /\ AuthorityOK(r)
    BY DEF AuthInv
  <1>3. End(r) /\ pc[r] \in {"invite", "commit", "role"}
    BY <1>1 DEF InviteWrite, StatusCommit, RoleCommit
  <1>4. pc'[r] = "idle" /\ pc[r] # "idle"
    BY <1>2, <1>3, EndKeeps
  <1>5. actor[r].membership # Nobody => actor[r].membership \in seenActive[r]
    BY <1>2, <1>3 DEF AuthorityOK, ActorSeen
  <1>6. \E verb \in {"create", "update_status", "update_role"} : Backed(r, verb)
    BY <1>2, <1>3 DEF AuthorityOK, InviteBacked, ChangeBacked, Changing
  <1>7. m.organizationId = input[r].membership.organizationId
    <2>1. m = input[r].membership \/ (pc[r] = "role" /\ m = input[r].next)
      <3>1. status \in [Memberships -> MembershipStatuses \cup {"ABSENT"}]
        BY <1>2 DEF IInv, TypeOK
      <3>2. CASE InviteWrite(r) \/ StatusCommit(r)
        BY <3>1, <3>2 DEF InviteWrite, StatusCommit
      <3>3. CASE RoleCommit(r)
        BY <3>1, <3>3 DEF RoleCommit
      <3> QED BY <1>1, <3>2, <3>3
    <2>2. pc[r] = "role" => input[r].next # Nobody
      BY <1>2 DEF IInv, RequestOK, ChangeOK, Changing
    <2>3. pc[r] = "role" => input[r].next.organizationId = input[r].membership.organizationId
      BY <1>2, <2>2 DEF AuthorityOK, ChangeBacked, Changing
    <2> QED BY <2>1, <2>3
  <1> QED BY <1>4, <1>5, <1>6, <1>7 DEF Backed

\* plugins/auth.ts and the handlers of memberships: a membership changes only by a
\* request whose user, at some time since it read its session, held an ACTIVE
\* membership that permits the change, whatever became of it meanwhile.
THEOREM Changes_RestOnAuthority == Spec => ChangesRestOnAuthority
  <1>1. AuthInv /\ [Next]_vars =>
           [\A m \in Memberships : status'[m] # status[m] =>
              \E r \in Requests, verb \in {"create", "update_status", "update_role"} :
                 /\ pc[r] # "idle" /\ pc'[r] = "idle"
                 /\ \E own \in seenActive[r] : Permits(own, verb, m.organizationId)]_vars
    BY AuthorityStep
  <1>2. Spec => []AuthInv
    BY InitAuthInv, NextAuthInv, PTL DEF Spec
  <1> QED BY <1>1, <1>2, PTL DEF Spec, ChangesRestOnAuthority

-----------------------------------------------------------------------------
(* What ends with a membership                                              *)

LEMMA EndedStays == IInv /\ [Next]_vars => ended \subseteq ended'
  <1>1. ASSUME NEW r \in Requests, \/ LoginRead(r) \/ LoginCreate(r) \/ AuthRead(r) \/ Authenticate(r)
                                   \/ Logout(r) \/ SwitchRead(r) \/ SwitchWrite(r) \/ InviteRead(r)
        PROVE  ended \subseteq ended'
    BY <1>1 DEF rows, LoginRead, LoginCreate, AuthRead, Authenticate, Logout, SwitchRead, SwitchWrite,
       InviteRead
  <1>2. ASSUME NEW r \in Requests, \/ InviteWrite(r) \/ ChangeRead(r) \/ ChangeUpdate(r) \/ StatusCommit(r)
                                   \/ RoleFind(r) \/ RoleCommit(r) \/ Stop(r)
        PROVE  ended \subseteq ended'
    BY <1>2 DEF rows, InviteWrite, ChangeRead, ChangeUpdate, StatusCommit, RoleFind, RoleCommit, Stop
  <1>3. ASSUME NEW s \in Sessions, Expire(s) PROVE ended \subseteq ended'
    BY <1>3 DEF Expire, rows
  <1> QED BY <1>1, <1>2, <1>3 DEF Next, vars, rows, Request

LEMMA DeactivationStep ==
    ASSUME IInv, [Next]_vars, NEW m \in Memberships, NEW r \in Requests,
           rowLock[m] = r, status[m] = "ACTIVE", status'[m] # "ACTIVE"
    PROVE  input[r].before \subseteq ended'
  <1>1. pc[r] \in Holding /\ input[r].membership = m
    BY DEF IInv, TypeOK, Holding
  <1>2. PICK q \in Requests : InviteWrite(q) \/ StatusCommit(q) \/ RoleCommit(q)
    BY DEF Next, vars, rows, Request, LoginRead, LoginCreate, AuthRead, Authenticate, Logout, SwitchRead, SwitchWrite,
       InviteRead, ChangeRead, ChangeUpdate, RoleFind, Stop, Expire
  <1>3. ~InviteWrite(q)
    BY <1>1, AccessAssumption DEF InviteWrite, MayWrite, IInv, TypeOK, Holding
  <1>4. CASE StatusCommit(q)
    <2>1. input[q].membership = m /\ input[q].to # "ACTIVE" /\ pc[q] = "commit" /\ ended' = ended \cup input[q].revoke
      BY <1>4 DEF StatusCommit, IInv, TypeOK
    <2>2. q = r
      BY <2>1 DEF IInv, TypeOK
    <2> QED BY <2>1, <2>2 DEF IInv, RequestOK, RevokesAll, Holding
  <1>5. CASE RoleCommit(q)
    <2>1. input[q].membership = m /\ pc[q] = "role" /\ ended' = ended \cup input[q].revoke
      BY <1>5 DEF RoleCommit, IInv, TypeOK
    <2>2. q = r
      BY <2>1 DEF IInv, TypeOK
    <2>3. input[q].to = "REVOKED"
      BY <2>1 DEF IInv, RequestOK, ChangeOK, Changing
    <2> QED BY <2>1, <2>2, <2>3 DEF IInv, RequestOK, RevokesAll, Holding
  <1> QED BY <1>2, <1>3, <1>4, <1>5

\* updateStatus and updateRole: every session a user had when the change was asked
\* for is over when the membership stops being ACTIVE, and stays over.
THEOREM Deactivation_EndsSessions == Spec => DeactivationEndsSessions
  <1>1. IInv /\ [Next]_vars =>
           [/\ ended \subseteq ended'
            /\ \A m \in Memberships, r \in Requests :
                 rowLock[m] = r /\ status[m] = "ACTIVE" /\ status'[m] # "ACTIVE"
                 => input[r].before \subseteq ended']_vars
    BY EndedStays, DeactivationStep
  <1> QED BY <1>1, Invariance, PTL DEF Spec, DeactivationEndsSessions

-----------------------------------------------------------------------------
(* can(): the authority matrix, for any organizations and resources       *)

\* A call of can() is one of the calls there are, and its answer is what can() says.
CanInv ==
    call.kind = "can" =>
        /\ call \in CanCalls
        /\ result # Absent => result = [allowed |-> CanOn(call.role, call.action, call)]

\* No other call is taken for one of can(),
LEMMA InitCanInv == CallInit => CanInv
  <1> SUFFICES ASSUME CallInit, call.kind = "can" PROVE call \in CanCalls /\ result = Absent
    BY DEF CanInv
  <1>1. call \notin ListCalls /\ call \notin BrowseCalls /\ call \notin PageCalls
    BY DEF ListCalls, BrowseCalls, PageCalls
  <1>2. \A f : call \notin FormCalls(f)
    BY DEF FormCalls
  <1>3. \A i : call \notin MatchCalls(i)
    BY DEF MatchCalls
  <1>4. call \notin PassCalls /\ call \notin HistoryCalls /\ call \notin RankCalls
        /\ call \notin ScoreCalls /\ call \notin RankClaimsCalls
    BY DEF PassCalls, HistoryCalls, RankCalls, ScoreCalls, RankClaimsCalls
  <1>5. call \notin SplitCalls /\ call \notin LedgerCalls /\ call \notin ShareCalls
    BY DEF SplitCalls, LedgerCalls, ShareCalls
  <1> QED BY <1>1, <1>2, <1>3, <1>4, <1>5 DEF CallInit

\* and only can() answers it.
LEMMA NextCanInv == CanInv /\ [CallNext]_callVars => CanInv'
  <1> SUFFICES ASSUME CanInv, [CallNext]_callVars, call.kind = "can"
               PROVE  CanInv'
    BY DEF CanInv, CallNext, callVars, Can, List, Browse, OpenPage, SubmitForm,
           Match, RankCandidates,
       Evaluate, ListMatches, ScoreOneClaim, RankTheClaims, Split,
       ReadLedger, ShareSecret, Returns
  <1>1. CASE UNCHANGED callVars
    BY <1>1 DEF CanInv, callVars, CanCalls, CanOn
  <1>2. CASE Can
    BY <1>2 DEF CanInv, Can, Returns, CanCalls, CanOn
  <1> QED BY <1>1, <1>2
    DEF CallNext, List, Browse, OpenPage, SubmitForm, Match, RankCandidates,
       Evaluate, ListMatches, ScoreOneClaim, RankTheClaims, Split,
       ReadLedger, ShareSecret, Returns

\* What a trader's role is granted beyond its own organization.
LEMMA TraderGrants ==
    ASSUME NEW role \in TenantRoles
    PROVE  /\ AuthorityMatrix(role).crossOrgActions = BrowseMarket
           /\ AuthorityMatrix(role).participantActions \subseteq SharedActions
  <1>1. MemberParticipant \subseteq SharedActions
    BY DEF MemberParticipant, SharedActions, On
  <1>2. ProviderParticipant \subseteq SharedActions
    BY <1>1 DEF ProviderParticipant, SharedActions, On, Actions
  <1>3. CASE role = "CONTRIBUTOR_AGENT"
    BY <1>1, <1>3 DEF AuthorityMatrix, ContributorAgent, RoleGrant
  <1>4. CASE role = "MERCHANT_PSP_USER"
    BY <1>1, <1>4 DEF AuthorityMatrix, MerchantPspUser, RoleGrant
  <1>5. CASE role = "ACQUIRER_PROVIDER_USER"
    BY <1>2, <1>5 DEF AuthorityMatrix, AcquirerProviderUser, RoleGrant
  <1> QED BY <1>3, <1>4, <1>5 DEF TenantRoles

\* What can() lets a trader do outside its organization it finds in those grants.
LEMMA CanInvTenant == CanInv => TenantIsolation
  <1> SUFFICES ASSUME CanInv, Returned("can"), result.allowed PROVE
        /\ call.role # Nobody
        /\ (call.role \in TenantRoles /\ (call.owner # Own \/ call.action[1] = "ledger")) =>
              \/ call.action \in BrowseMarket
              \/ call.isParticipant /\ call.action \in SharedActions
    BY DEF TenantIsolation
  <1> DEFINE grant == AuthorityMatrix(call.role)
             actor1 == Caller(call.role)
             resource == Resource(ActionResourceType(call.action), call.owner)
             context == Context(call.isSelf, call.isParticipant)
  <1>1. call \in CanCalls /\ can(actor1, call.action, resource, context)
    BY DEF CanInv, Returned, CanOn
  <1>2. /\ actor1.role = call.role /\ resource.type = ActionResourceType(call.action)
        /\ resource.ownerOrgId = call.owner /\ context.isParticipant = call.isParticipant
        /\ call.role # Nobody => actor1.organizationId = Own
    BY DEF Caller, Actor, Resource, Context
  <1> HIDE DEF actor1, resource, context
  <1>3. call.role # Nobody
    BY <1>1, <1>2 DEF can
  <1>4. \/ call.action \in grant.crossOrgActions
        \/ call.isParticipant /\ call.action \in grant.participantActions
        \/ resource.type # "commission_accrual" /\ call.owner = Own
    BY <1>1, <1>2, <1>3 DEF can, Granted, SameOrg
  <1>5. ASSUME call.role \in TenantRoles, call.owner # Own \/ call.action[1] = "ledger"
        PROVE  \/ call.action \in BrowseMarket
               \/ call.isParticipant /\ call.action \in SharedActions
    <2>1. call.action[1] = "ledger" => resource.type = "commission_accrual"
      BY <1>2 DEF ActionResourceType
    <2> HIDE DEF grant
    <2>2. grant.crossOrgActions = BrowseMarket /\ grant.participantActions \subseteq SharedActions
      BY <1>5, TraderGrants DEF grant
    <2> QED BY <1>4, <1>5, <2>1, <2>2
  <1> QED BY <1>3, <1>5

\* No role but the platform owner's is granted both halves of a decision.
LEMMA DutiesApart ==
    ASSUME NEW role \in PersonaRoles, role # "PLATFORM_OWNER", NEW pair \in ConflictingDuties
    PROVE  pair[1] \notin AuthorityMatrix(role).allowedActions
           \/ pair[2] \notin AuthorityMatrix(role).allowedActions
  <1>1. CASE role = "MARKETPLACE_OPERATOR"
    BY <1>1
      DEF AuthorityMatrix, MarketplaceOperator, RoleGrant, OperatorActions, On,
          BrowseMarket, ConflictingDuties
  <1>2. CASE role = "PARTNERSHIP_LEAD"
    BY <1>2
      DEF AuthorityMatrix, PartnershipLead, RoleGrant, LeadCrossOrg, On,
          BrowseMarket, ConflictingDuties
  <1>3. CASE role = "UNDERWRITING_ANALYST"
    BY <1>3
      DEF AuthorityMatrix, UnderwritingAnalyst, RoleGrant, AnalystCrossOrg, On,
          BrowseMarket, ConflictingDuties
  <1>4. CASE role = "COMPLIANCE_REVIEWER"
    BY <1>4
      DEF AuthorityMatrix, ComplianceReviewer, RoleGrant, ReviewerActions, On,
          BrowseMarket, ConflictingDuties
  <1>5. CASE role = "FINANCE_OPERATOR"
    BY <1>5
      DEF AuthorityMatrix, FinanceOperator, RoleGrant, FinanceCrossOrg, On,
          BrowseMarket, ConflictingDuties
  <1>6. CASE role = "CONTRIBUTOR_AGENT"
    BY <1>6
      DEF AuthorityMatrix, ContributorAgent, RoleGrant, MemberActions, On,
          BrowseMarket, ConflictingDuties
  <1>7. CASE role = "MERCHANT_PSP_USER"
    BY <1>7
      DEF AuthorityMatrix, MerchantPspUser, RoleGrant, MemberActions, On,
          BrowseMarket, ConflictingDuties
  <1>8. CASE role = "ACQUIRER_PROVIDER_USER"
    BY <1>8
      DEF AuthorityMatrix, AcquirerProviderUser, RoleGrant, MemberActions,
          ProviderParticipant, MemberParticipant, On, BrowseMarket,
          ConflictingDuties
  <1>9. CASE role = "AUDITOR_READONLY"
    BY <1>9
      DEF AuthorityMatrix, AuditorReadonly, RoleGrant, AuditorActions, On,
          BrowseMarket, ConflictingDuties
  <1> QED BY <1>1, <1>2, <1>3, <1>4, <1>5, <1>6, <1>7, <1>8, <1>9 DEF PersonaRoles

\* The auditor is granted nothing that writes.
LEMMA AuditorReads ==
    \A a \in AuthorityMatrix("AUDITOR_READONLY").allowedActions :
        a[2] \in {"read", "list", "read_receipt", "browse_market"}
  BY DEF AuthorityMatrix, AuditorReadonly, RoleGrant, AuditorActions, On,
         BrowseMarket

\* can() never goes past the grant of the role, whatever the resource.
LEMMA CanInvDuties == CanInv => SeparationOfDuties
  <1> SUFFICES ASSUME CanInv, Returned("can"), result.allowed, call.role # "PLATFORM_OWNER" PROVE
        /\ \A pair \in ConflictingDuties : pair[1] = call.action => ~CanOn(call.role, pair[2], call)
        /\ call.role = "AUDITOR_READONLY" => call.action[2] \in {"read", "list", "read_receipt", "browse_market"}
    BY DEF SeparationOfDuties
  <1>1. \A role, a : CanOn(role, a, call) => role # Nobody /\ a \in AuthorityMatrix(role).allowedActions
    <2> SUFFICES ASSUME NEW role, NEW a, CanOn(role, a, call)
                 PROVE  role # Nobody /\ a \in AuthorityMatrix(role).allowedActions
      OBVIOUS
    <2>1. Caller(role).role = role
      BY DEF Caller, Actor
    <2> QED BY <2>1 DEF CanOn, can
  <1>2. call \in CanCalls /\ CanOn(call.role, call.action, call)
    BY DEF CanInv, Returned
  <1>3. call.role \in PersonaRoles
    BY <1>1, <1>2 DEF CanCalls
  <1> QED BY <1>1, <1>2, <1>3, DutiesApart, AuditorReads

\* can() and the authority matrix, for any organizations: a trader is let outside its own
\* organization only to browse the marketplace and, as a participant, to what is shared.
THEOREM Tenants_Isolated == CallSpec => []TenantIsolation
  BY InitCanInv, NextCanInv, CanInvTenant, PTL DEF CallSpec

\* can() and the authority matrix: on no resource may one role, the platform owner aside,
\* take both halves of a decision that two people must share, and an auditor only reads.
THEOREM Duties_Separated == CallSpec => []SeparationOfDuties
  BY InitCanInv, NextCanInv, CanInvDuties, PTL DEF CallSpec

-----------------------------------------------------------------------------
(* evaluateEligibility(): the rules of a match, for any inputs               *)

\* A pair evaluated gets what the rules say of it.
MatchInv ==
    call.kind = "match" =>
        /\ \E inputs \in MatchInputs : call.in \in inputs
        /\ result # Absent =>
              /\ result.eligibility = EvaluateEligibility(call.in.opp, call.in.cap, call.in.ctx)
              /\ result.total = ScoreMatch(call.in.opp, call.in.cap, call.in.ctx)

LEMMA InitMatchInv == CallInit => MatchInv
  <1> SUFFICES ASSUME CallInit, call.kind = "match"
               PROVE  result = Absent /\ \E inputs \in MatchInputs : call.in \in inputs
    BY DEF MatchInv
  <1>1. call \notin CanCalls /\ call \notin ListCalls /\ call \notin BrowseCalls
        /\ call \notin PageCalls
    BY DEF CanCalls, ListCalls, BrowseCalls, PageCalls
  <1>2. \A f : call \notin FormCalls(f)
    BY DEF FormCalls
  <1>3. \A i : call \in MatchCalls(i) => call.in \in i
    BY DEF MatchCalls
  <1>4. call \notin PassCalls /\ call \notin HistoryCalls /\ call \notin RankCalls
        /\ call \notin ScoreCalls /\ call \notin RankClaimsCalls
    BY DEF PassCalls, HistoryCalls, RankCalls, ScoreCalls, RankClaimsCalls
  <1>5. call \notin SplitCalls /\ call \notin LedgerCalls /\ call \notin ShareCalls
    BY DEF SplitCalls, LedgerCalls, ShareCalls
  <1> QED BY <1>1, <1>2, <1>3, <1>4, <1>5 DEF CallInit

LEMMA NextMatchInv == MatchInv /\ [CallNext]_callVars => MatchInv'
  <1> SUFFICES ASSUME MatchInv, [CallNext]_callVars, call' = call, call.kind = "match" PROVE MatchInv'
    BY DEF MatchInv, CallNext, callVars, Can, List, Browse, OpenPage, SubmitForm,
       Match, RankCandidates, Evaluate, ListMatches, ScoreOneClaim,
       RankTheClaims, Split, ReadLedger, ShareSecret, Returns
  <1> DEFINE made == EvaluateEligibility(call.in.opp, call.in.cap, call.in.ctx)
             total == ScoreMatch(call.in.opp, call.in.cap, call.in.ctx)
  <1>1. /\ \E inputs \in MatchInputs : call.in \in inputs
        /\ result # Absent => result.eligibility = made /\ result.total = total
    BY DEF MatchInv
  <1>2. result' = result \/ result' = [eligibility |-> made, total |-> total]
    BY DEF CallNext, callVars, Can, List, Browse, OpenPage, SubmitForm,
       Match, RankCandidates, Evaluate, ListMatches, ScoreOneClaim,
       RankTheClaims, Split, ReadLedger, ShareSecret, Returns
  <1>3. /\ \E inputs \in MatchInputs : call'.in \in inputs
        /\ result' # Absent => result'.eligibility = made /\ result'.total = total
    <2> HIDE DEF made, total
    <2> QED BY <1>1, <1>2
  <1> QED BY <1>3 DEF MatchInv

\* A rule stands in the way when it neither passes nor is a mere warning.
Blocks(finding) == finding.status # "PASS" /\ finding.blocking

\* What a finding says, and that a pass never blocks.
LEMMA FindingsAre ==
    /\ \A rule, code, found, blocking :
         Blocks(Finding(rule, code, found, blocking)) <=> found # "PASS" /\ blocking
    /\ \A rule, code : ~Blocks(Pass(rule, code))
  BY DEF Blocks, Finding, Pass

\* When each rule blocks.
BlocksAsTold(opp, cap, ctx) ==
    /\ ~Blocks(CheckRole) /\ ~Blocks(CheckTechnical)
    /\ Blocks(CheckJurisdiction(opp, cap)) <=> opp.jurisdictions \cap cap.jurisdictions = {}
    /\ Blocks(CheckMccProduct(opp, cap)) <=>
          ~(opp.mccs # {} /\ opp.mccs \subseteq cap.mccsAccepted \ cap.mccsExcluded)
    /\ Blocks(CheckVolume(opp, cap)) <=>
          ~cap.acceptingNewVolume \/ (opp.currency = cap.currency /\ ~(cap.monthlyCapacity >= opp.movable30d))
    /\ Blocks(CheckTicket(cap, ctx)) <=>
          ~(ctx.averageTicket = Absent \/ ctx.averageTicket \in
              cap.minTicket..(IF cap.maxTicket = 0 THEN ctx.averageTicket ELSE cap.maxTicket))
    /\ Blocks(CheckEvidenceLicense(ctx)) <=> ctx.passportStatus \notin {"READY", "VERIFIED"}
    /\ Blocks(CheckRisk(cap, ctx)) <=>
          ~(\A r \in KnownRisks(ctx) : ctx.risk[r] <= cap.ceiling[r])
    /\ Blocks(CheckSettlement(opp, cap, ctx)) <=>
          opp.currency # cap.currency \/ ctx.requiredRail \notin {Absent, cap.settlementRail}
    /\ Blocks(CheckFreshness(cap)) <=> cap.freshness \notin {"FRESH", "AGING"}
    /\ Blocks(CheckComplianceHold(ctx)) <=> ctx.hold

\* What the rules read of a pair is an amount, or missing where it may be.
Readable(opp, cap, ctx) ==
    /\ Absent \notin Nat \cup {"READY", "VERIFIED"}
    /\ opp.movable30d \in Nat /\ cap.monthlyCapacity \in Nat
    /\ cap.minTicket \in Nat /\ cap.maxTicket \in Nat /\ ctx.averageTicket \in Nat \cup {Absent}
    /\ cap.acceptingNewVolume \in BOOLEAN /\ ctx.hold \in BOOLEAN
    /\ cap.freshness \in {"FRESH", "AGING", "STALE", "UNKNOWN"}
    /\ \A r \in Risks : ctx.risk[r] \in Nat \cup {Absent} /\ cap.ceiling[r] \in Nat

LEMMA InputsReadable ==
    ASSUME MatchAssumption, NEW inputs \in MatchInputs, NEW in \in inputs
    PROVE  Readable(in.opp, in.cap, in.ctx)
  BY DEF MatchAssumption, Readable

\* Every rule, by its cases.
LEMMA RulesBlock ==
    ASSUME NEW opp, NEW cap, NEW ctx, Readable(opp, cap, ctx)
    PROVE  BlocksAsTold(opp, cap, ctx)
  <1> USE FindingsAre
  <1>0. /\ Absent \notin Nat \cup {"READY", "VERIFIED"}
        /\ opp.movable30d \in Nat /\ cap.monthlyCapacity \in Nat
        /\ cap.minTicket \in Nat /\ cap.maxTicket \in Nat /\ ctx.averageTicket \in Nat \cup {Absent}
        /\ cap.acceptingNewVolume \in BOOLEAN /\ ctx.hold \in BOOLEAN
        /\ cap.freshness \in {"FRESH", "AGING", "STALE", "UNKNOWN"}
        /\ \A r \in Risks : ctx.risk[r] \in Nat \cup {Absent} /\ cap.ceiling[r] \in Nat
    BY DEF Readable
  <1>1. ~Blocks(CheckRole) /\ ~Blocks(CheckTechnical)
    BY DEF CheckRole, CheckTechnical
  <1>2. Blocks(CheckJurisdiction(opp, cap)) <=> opp.jurisdictions \cap cap.jurisdictions = {}
    BY DEF CheckJurisdiction
  <1>3. Blocks(CheckMccProduct(opp, cap)) <=>
           ~(opp.mccs # {} /\ opp.mccs \subseteq cap.mccsAccepted \ cap.mccsExcluded)
    BY DEF CheckMccProduct
  <1>4. Blocks(CheckVolume(opp, cap)) <=>
           ~cap.acceptingNewVolume \/ (opp.currency = cap.currency /\ ~(cap.monthlyCapacity >= opp.movable30d))
    BY <1>0 DEF CheckVolume, Headroom
  <1>5. Blocks(CheckTicket(cap, ctx)) <=>
           ~(ctx.averageTicket = Absent \/ ctx.averageTicket \in
               cap.minTicket..(IF cap.maxTicket = 0 THEN ctx.averageTicket ELSE cap.maxTicket))
    <2>1. CASE ctx.averageTicket = Absent
      BY <2>1 DEF CheckTicket
    <2>2. CASE ctx.averageTicket # Absent
      <3> DEFINE t == ctx.averageTicket
                 low == cap.minTicket
                 high == cap.maxTicket
      <3>1. t \in Nat /\ low \in Nat /\ high \in Nat
        BY <1>0, <2>2
      <3>2. Blocks(CheckTicket(cap, ctx)) <=> t < low \/ (high > 0 /\ t > high)
        BY <2>2 DEF CheckTicket
      <3> HIDE DEF t, low, high
      <3>3. (t < low \/ (high > 0 /\ t > high)) <=> ~(t \in low..(IF high = 0 THEN t ELSE high))
        BY <3>1
      <3> QED BY <2>2, <3>2, <3>3 DEF t, low, high
    <2> QED BY <2>1, <2>2
  <1>6. Blocks(CheckEvidenceLicense(ctx)) <=> ctx.passportStatus \notin {"READY", "VERIFIED"}
    BY <1>0 DEF CheckEvidenceLicense
  <1>7. Blocks(CheckRisk(cap, ctx)) <=>
           ~(\A r \in KnownRisks(ctx) : ctx.risk[r] <= cap.ceiling[r])
    <2> DEFINE known == KnownRisks(ctx)
    <2>1. \A r \in known : ctx.risk[r] \in Nat /\ cap.ceiling[r] \in Nat
      BY <1>0 DEF KnownRisks
    <2>2. Blocks(CheckRisk(cap, ctx)) <=> \E r \in known : ctx.risk[r] > cap.ceiling[r]
      BY DEF CheckRisk
    <2> HIDE DEF known
    <2>3. \A r \in known : ctx.risk[r] > cap.ceiling[r] <=> ~(ctx.risk[r] <= cap.ceiling[r])
      BY <2>1
    <2> QED BY <2>2, <2>3 DEF known
  <1>8. Blocks(CheckSettlement(opp, cap, ctx)) <=>
           opp.currency # cap.currency \/ ctx.requiredRail \notin {Absent, cap.settlementRail}
    BY DEF CheckSettlement
  <1>9. Blocks(CheckFreshness(cap)) <=> cap.freshness \notin {"FRESH", "AGING"}
    BY <1>0 DEF CheckFreshness
  <1>10. Blocks(CheckComplianceHold(ctx)) <=> ctx.hold
    BY DEF CheckComplianceHold
  <1> QED BY <1>1, <1>2, <1>3, <1>4, <1>5, <1>6, <1>7, <1>8, <1>9, <1>10 DEF BlocksAsTold

\* A pair is eligible when none of its rules blocks.
LEMMA EligibleIs ==
    ASSUME NEW opp, NEW cap, NEW ctx
    PROVE  EvaluateEligibility(opp, cap, ctx).eligible <=>
              /\ ~Blocks(CheckRole) /\ ~Blocks(CheckTechnical)
              /\ ~Blocks(CheckJurisdiction(opp, cap)) /\ ~Blocks(CheckMccProduct(opp, cap))
              /\ ~Blocks(CheckVolume(opp, cap)) /\ ~Blocks(CheckTicket(cap, ctx))
              /\ ~Blocks(CheckEvidenceLicense(ctx)) /\ ~Blocks(CheckRisk(cap, ctx))
              /\ ~Blocks(CheckSettlement(opp, cap, ctx)) /\ ~Blocks(CheckFreshness(cap))
              /\ ~Blocks(CheckComplianceHold(ctx))
  <1> DEFINE results == {CheckRole, CheckJurisdiction(opp, cap), CheckMccProduct(opp, cap),
                    CheckVolume(opp, cap), CheckTicket(cap, ctx), CheckEvidenceLicense(ctx),
                    CheckRisk(cap, ctx), CheckSettlement(opp, cap, ctx), CheckTechnical,
                    CheckFreshness(cap), CheckComplianceHold(ctx)}
  <1>1. EvaluateEligibility(opp, cap, ctx).eligible <=> \A r \in results : ~Blocks(r)
    BY DEF EvaluateEligibility, Blocks
  <1> QED BY <1>1

\* No blocker is all of the table, and nothing else.
LEMMA MatchInvTable == MatchAssumption /\ MatchInv => EligibilityMatchesTable
  <1> SUFFICES ASSUME MatchAssumption, MatchInv, Returned("match")
               PROVE  EligibilityMatchesTable
    BY DEF EligibilityMatchesTable
  <1> DEFINE opp == call.in.opp
             cap == call.in.cap
             ctx == call.in.ctx
  <1>1. PICK inputs \in MatchInputs : call.in \in inputs
    BY DEF MatchInv, Returned
  <1>2. result.eligibility = EvaluateEligibility(opp, cap, ctx)
    BY DEF MatchInv, Returned
  <1> HIDE DEF opp, cap, ctx
  <1>3. EvaluateEligibility(opp, cap, ctx).eligible <=>
                /\ opp.mccs # {} /\ opp.mccs \subseteq cap.mccsAccepted \ cap.mccsExcluded
                /\ opp.jurisdictions \cap cap.jurisdictions # {}
                /\ opp.currency = cap.currency
                /\ ctx.requiredRail \in {Absent, cap.settlementRail}
                /\ ctx.averageTicket = Absent \/ ctx.averageTicket \in
                      cap.minTicket..(IF cap.maxTicket = 0 THEN ctx.averageTicket ELSE cap.maxTicket)
                /\ cap.acceptingNewVolume /\ cap.monthlyCapacity >= opp.movable30d
                /\ ctx.passportStatus \in {"READY", "VERIFIED"}
                /\ cap.freshness \in {"FRESH", "AGING"}
                /\ \A r \in KnownRisks(ctx) : ctx.risk[r] <= cap.ceiling[r]
                /\ ~ctx.hold
    <2>1. opp = call.in.opp /\ cap = call.in.cap /\ ctx = call.in.ctx
      BY DEF opp, cap, ctx
    <2> DEFINE mcc == opp.mccs # {} /\ opp.mccs \subseteq cap.mccsAccepted \ cap.mccsExcluded
               overlap == opp.jurisdictions \cap cap.jurisdictions # {}
               room == cap.monthlyCapacity >= opp.movable30d
               ticket == ctx.averageTicket = Absent \/ ctx.averageTicket \in
                      cap.minTicket..(IF cap.maxTicket = 0 THEN ctx.averageTicket ELSE cap.maxTicket)
               ready == ctx.passportStatus \in {"READY", "VERIFIED"}
               fresh == cap.freshness \in {"FRESH", "AGING"}
               risks == \A r \in KnownRisks(ctx) : ctx.risk[r] <= cap.ceiling[r]
    <2>2. /\ ~Blocks(CheckRole) /\ ~Blocks(CheckTechnical)
          /\ Blocks(CheckJurisdiction(opp, cap)) <=> ~overlap
          /\ Blocks(CheckMccProduct(opp, cap)) <=> ~mcc
          /\ Blocks(CheckVolume(opp, cap)) <=>
                ~cap.acceptingNewVolume \/ (opp.currency = cap.currency /\ ~room)
          /\ Blocks(CheckTicket(cap, ctx)) <=> ~ticket
          /\ Blocks(CheckEvidenceLicense(ctx)) <=> ~ready
          /\ Blocks(CheckRisk(cap, ctx)) <=> ~risks
          /\ Blocks(CheckSettlement(opp, cap, ctx)) <=>
                opp.currency # cap.currency \/ ctx.requiredRail \notin {Absent, cap.settlementRail}
          /\ Blocks(CheckFreshness(cap)) <=> ~fresh
          /\ Blocks(CheckComplianceHold(ctx)) <=> ctx.hold
      <3>1. BlocksAsTold(opp, cap, ctx)
        <4>1. Readable(opp, cap, ctx)
          BY <1>1, <2>1, InputsReadable
        <4> QED BY <4>1, RulesBlock
      <3> QED BY <3>1 DEF BlocksAsTold
    <2> HIDE DEF mcc, overlap, room, ticket, ready, fresh, risks
    <2>3. EvaluateEligibility(opp, cap, ctx).eligible <=>
             /\ mcc /\ overlap /\ opp.currency = cap.currency /\ ctx.requiredRail \in {Absent, cap.settlementRail}
             /\ ticket /\ cap.acceptingNewVolume /\ room /\ ready /\ fresh /\ risks /\ ~ctx.hold
      BY <2>2, EligibleIs
    <2> QED BY <2>3 DEF mcc, overlap, room, ticket, ready, fresh, risks
  <1> QED BY <1>2, <1>3 DEF EligibilityMatchesTable, opp, cap, ctx

\* evaluateEligibility, for any opportunity, capacity and context: a pair is eligible
\* exactly when the table of the rules says so, and an unknown never counts as a yes
\* where the table does not let it.
THEOREM Eligibility_Table == CallSpec => []EligibilityMatchesTable
  <1>1. MatchInv => EligibilityMatchesTable
    BY MatchInvTable, MatchAssumption
  <1> QED BY <1>1, InitMatchInv, NextMatchInv, PTL DEF CallSpec
-----------------------------------------------------------------------------
(* scoreMatch(): better terms never score less                              *)

\* A larger fraction, rounded down, is no less.
LEMMA FractionsGrow ==
    ASSUME NEW x \in Int, NEW y \in Int, NEW p \in Nat \ {0}, NEW q \in Nat \ {0}, x * q <= y * p
    PROVE  x \div p <= y \div q
  <1> DEFINE d == x \div p
             e == y \div q
  <1>1. d \in Int /\ p * d <= x
    OBVIOUS
  <1>2. e \in Int /\ y < q * e + q
    OBVIOUS
  <1> HIDE DEF d, e
  <1>3. (p * d) * q <= x * q
    BY <1>1
  <1>4. y * p < (q * e + q) * p
    BY <1>2
  <1>5. (p * q) * d < (p * q) * (e + 1)
    <2>1. (p * d) * q = (p * q) * d /\ (q * e + q) * p = (p * q) * (e + 1)
      BY <1>1, <1>2
    <2>2. /\ (p * d) * q \in Int /\ x * q \in Int /\ y * p \in Int /\ (q * e + q) * p \in Int
      BY <1>1, <1>2
    <2> HIDE <1>1, <1>2
    <2> QED BY <1>3, <1>4, <2>1, <2>2
  <1>6. ~(e + 1 <= d)
    <2>1. e + 1 <= d => (p * q) * (e + 1) <= (p * q) * d
      BY <1>1, <1>2
    <2>2. (p * q) * (e + 1) \in Int /\ (p * q) * d \in Int
      BY <1>1, <1>2
    <2> QED BY <1>5, <2>1, <2>2
  <1>7. d <= e
    BY <1>1, <1>2, <1>6
  <1> QED BY <1>7 DEF d, e

\* Tenths of a point.
Scores == 0 .. 1000

LEMMA ScoresAre ==
    /\ 0 \in Scores /\ 200 \in Scores /\ 500 \in Scores /\ 600 \in Scores /\ 1000 \in Scores
    /\ \A a \in Scores : a <= a
  BY DEF Scores

LEMMA ScoreType == \A x \in Int, p \in Nat \ {0} : Score(x, p) \in Scores
  <1> SUFFICES ASSUME NEW x \in Int, NEW p \in Nat \ {0} PROVE Score(x, p) \in Scores
    OBVIOUS
  <1>1. RoundDiv(1000 * x, p) \in Int
    BY DEF RoundDiv
  <1> QED BY <1>1 DEF Score, Clamp, Scores

\* A larger fraction never scores less.
LEMMA ScoreGrows ==
    ASSUME NEW x \in Int, NEW y \in Int, NEW p \in Nat \ {0}, NEW q \in Nat \ {0}, x * q <= y * p
    PROVE  Score(x, p) <= Score(y, q)
  <1> DEFINE u == 2 * (1000 * x) + p
             v == 2 * (1000 * y) + q
             s == 2 * p
             t == 2 * q
  <1>1. u \in Int /\ v \in Int /\ s \in Nat \ {0} /\ t \in Nat \ {0}
    OBVIOUS
  <1>2. u * t <= v * s
    <2>1. u * t = 4000 * (x * q) + 2 * (p * q)
      OBVIOUS
    <2>2. v * s = 4000 * (y * p) + 2 * (p * q)
      OBVIOUS
    <2>3. x * q \in Int /\ y * p \in Int /\ p * q \in Int
      OBVIOUS
    <2> QED BY <2>1, <2>2, <2>3
  <1> HIDE DEF u, v, s, t
  <1>3. u \div s <= v \div t /\ u \div s \in Int /\ v \div t \in Int
    BY <1>1, <1>2, FractionsGrow
  <1>4. RoundDiv(1000 * x, p) = u \div s /\ RoundDiv(1000 * y, q) = v \div t
    BY DEF RoundDiv, u, v, s, t
  <1> QED BY <1>3, <1>4 DEF Score, Clamp

\* The rounded contributions, for the weights of the configuration.
Weights == {22, 17, 13, 10, 5}

Weighed(a, b, w) ==
    /\ Contribution(a, w) \in 0 .. 10 * w /\ Contribution(b, w) \in 0 .. 10 * w
    /\ Contribution(a, w) <= Contribution(b, w)

LEMMA ContributionGrows ==
    \A w \in Weights : \A a, b \in Scores : a <= b => Weighed(a, b, w)
  <1> SUFFICES ASSUME NEW w \in Weights, NEW a \in Scores, NEW b \in Scores, a <= b
               PROVE  Weighed(a, b, w)
    OBVIOUS
  <1>0. a \in 0 .. 1000 /\ b \in 0 .. 1000
    BY DEF Scores
  <1>1. CASE w = 22
    BY <1>0, <1>1 DEF Contribution, RoundDiv, Weighed
  <1>2. CASE w = 17
    BY <1>0, <1>2 DEF Contribution, RoundDiv, Weighed
  <1>3. CASE w = 13
    BY <1>0, <1>3 DEF Contribution, RoundDiv, Weighed
  <1>4. CASE w = 10
    BY <1>0, <1>4 DEF Contribution, RoundDiv, Weighed
  <1>5. CASE w = 5
    BY <1>0, <1>5 DEF Contribution, RoundDiv, Weighed
  <1> QED BY <1>1, <1>2, <1>3, <1>4, <1>5 DEF Weights

\* What a score is made of: six factors that depend on the input and two that do not.
Factors(opp, cap, ctx) ==
    [mcc |-> ScoreMccProductFit(opp, cap), geography |-> ScoreGeographyLicensingFit(opp, cap),
     volume |-> ScoreVolumeTicketFit(opp, cap), risk |-> ScoreRiskHistoryFit(cap, ctx),
     settlement |-> ScoreSettlementCurrencyFit(opp, cap), commercial |-> ScoreCommercialUtility(cap),
     freshness |-> ScoreProviderReliabilityFreshness(cap)]
FactorNames == {"mcc", "geography", "volume", "risk", "settlement", "commercial", "freshness"}

TotalOf(f) ==
    Contribution(f.mcc, 22) + Contribution(f.geography, 17) + Contribution(f.volume, 13)
    + Contribution(f.risk, 13) + Contribution(f.settlement, 10) + Contribution(f.commercial, 10)
    + 49 + Contribution(f.freshness, 5) + 15

LEMMA ScoreIsTotal ==
    ASSUME NEW opp, NEW cap, NEW ctx
    PROVE  ScoreMatch(opp, cap, ctx) = TotalOf(Factors(opp, cap, ctx))
  <1>1. Contribution(ScoreTechnicalLaunchFit, 7) = 49
    BY DEF Contribution, RoundDiv, ScoreTechnicalLaunchFit
  <1>2. Contribution(ScoreOutcomeCalibratedLikelihood, 3) = 15
    BY DEF Contribution, RoundDiv, ScoreOutcomeCalibratedLikelihood
  <1> DEFINE f == Factors(opp, cap, ctx)
  <1>3. /\ f.mcc = ScoreMccProductFit(opp, cap) /\ f.geography = ScoreGeographyLicensingFit(opp, cap)
        /\ f.volume = ScoreVolumeTicketFit(opp, cap) /\ f.risk = ScoreRiskHistoryFit(cap, ctx)
        /\ f.settlement = ScoreSettlementCurrencyFit(opp, cap)
        /\ f.commercial = ScoreCommercialUtility(cap)
        /\ f.freshness = ScoreProviderReliabilityFreshness(cap)
    BY DEF Factors
  <1> HIDE DEF f
  <1>4. ScoreMatch(opp, cap, ctx) = TotalOf(f)
    BY <1>1, <1>2, <1>3 DEF ScoreMatch, TotalOf
  <1> QED BY <1>4 DEF f

\* No factor is worse, so the total is not.
LEMMA TotalGrows ==
    ASSUME NEW f, NEW g, \A n \in FactorNames : f[n] \in Scores /\ g[n] \in Scores /\ f[n] <= g[n]
    PROVE  TotalOf(f) <= TotalOf(g) /\ TotalOf(f) \in 64 .. 964
  <1> DEFINE c(n, w) == Contribution(f[n], w)
             d(n, w) == Contribution(g[n], w)
             Kept(n, w) == c(n, w) \in 0 .. 10 * w /\ d(n, w) \in 0 .. 10 * w /\ c(n, w) <= d(n, w)
  <1>1. ASSUME NEW n \in FactorNames, NEW w \in Weights PROVE Kept(n, w)
    <2>1. f[n] \in Scores /\ g[n] \in Scores /\ f[n] <= g[n]
      OBVIOUS
    <2>2. Weighed(f[n], g[n], w)
      BY <2>1, ContributionGrows
    <2> QED BY <2>2 DEF Weighed
  <1>2. 22 \in Weights /\ 17 \in Weights /\ 13 \in Weights /\ 10 \in Weights /\ 5 \in Weights
    BY DEF Weights
  <1>3. \A n \in {"mcc", "geography", "volume", "risk", "settlement", "commercial", "freshness"} :
           n \in FactorNames
    BY DEF FactorNames
  <1>4. Kept("mcc", 22) /\ Kept("geography", 17) /\ Kept("volume", 13) /\ Kept("risk", 13)
    <2> HIDE DEF Kept
    <2> QED BY <1>1, <1>2, <1>3
  <1>5. Kept("settlement", 10) /\ Kept("commercial", 10) /\ Kept("freshness", 5)
    <2> HIDE DEF Kept
    <2> QED BY <1>1, <1>2, <1>3
  <1>6. /\ TotalOf(f) = c("mcc", 22) + c("geography", 17) + c("volume", 13) + c("risk", 13)
                        + c("settlement", 10) + c("commercial", 10) + 49 + c("freshness", 5) + 15
        /\ TotalOf(g) = d("mcc", 22) + d("geography", 17) + d("volume", 13) + d("risk", 13)
                        + d("settlement", 10) + d("commercial", 10) + 49 + d("freshness", 5) + 15
    BY DEF TotalOf
  <1> DEFINE c1 == c("mcc", 22)
             c2 == c("geography", 17)
             c3 == c("volume", 13)
             c4 == c("risk", 13)
             c5 == c("settlement", 10)
             c6 == c("commercial", 10)
             c7 == c("freshness", 5)
             d1 == d("mcc", 22)
             d2 == d("geography", 17)
             d3 == d("volume", 13)
             d4 == d("risk", 13)
             d5 == d("settlement", 10)
             d6 == d("commercial", 10)
             d7 == d("freshness", 5)
  <1>7. /\ c1 \in 0 .. 10 * 22 /\ d1 \in 0 .. 10 * 22 /\ c1 <= d1
        /\ c2 \in 0 .. 10 * 17 /\ d2 \in 0 .. 10 * 17 /\ c2 <= d2
        /\ c3 \in 0 .. 10 * 13 /\ d3 \in 0 .. 10 * 13 /\ c3 <= d3
        /\ c4 \in 0 .. 10 * 13 /\ d4 \in 0 .. 10 * 13 /\ c4 <= d4
    BY ONLY <1>4
  <1>8. /\ c5 \in 0 .. 10 * 10 /\ d5 \in 0 .. 10 * 10 /\ c5 <= d5
        /\ c6 \in 0 .. 10 * 10 /\ d6 \in 0 .. 10 * 10 /\ c6 <= d6
        /\ c7 \in 0 .. 10 * 5 /\ d7 \in 0 .. 10 * 5 /\ c7 <= d7
    BY ONLY <1>5
  <1>9. /\ TotalOf(f) = c1 + c2 + c3 + c4 + c5 + c6 + 49 + c7 + 15
        /\ TotalOf(g) = d1 + d2 + d3 + d4 + d5 + d6 + 49 + d7 + 15
    BY ONLY <1>6
  <1> HIDE DEF c1, c2, c3, c4, c5, c6, c7, d1, d2, d3, d4, d5, d6, d7
  <1> DEFINE lower == c1 + c2 + c3 + c4 + c5 + c6 + 49 + c7 + 15
             upper == d1 + d2 + d3 + d4 + d5 + d6 + 49 + d7 + 15
  <1>10. lower <= upper /\ lower \in 64 .. 964
    BY ONLY <1>7, <1>8
  <1> QED BY <1>9, <1>10

-----------------------------------------------------------------------------
\* b offers no worse terms than cap: the same but for more capacity, an earlier
\* settlement, a lower rate, a higher ceiling where there is one, a fresher profile.
Freshness == <<"UNKNOWN", "STALE", "AGING", "FRESH">>
SameTerms(cap, b) ==
    /\ b.currency = cap.currency /\ b.jurisdictions = cap.jurisdictions
    /\ b.mccsAccepted = cap.mccsAccepted /\ b.mccsExcluded = cap.mccsExcluded
    /\ b.acceptingNewVolume = cap.acceptingNewVolume /\ b.settlementRail = cap.settlementRail
    /\ b.minTicket = cap.minTicket /\ b.maxTicket = cap.maxTicket
NoWorse(cap, b) ==
    /\ SameTerms(cap, b)
    /\ b.monthlyCapacity \in Nat /\ cap.monthlyCapacity <= b.monthlyCapacity
    /\ b.settlementCadenceDays \in Nat /\ b.settlementCadenceDays <= cap.settlementCadenceDays
    /\ b.mdrBps = cap.mdrBps
       \/ (b.mdrBps \in Nat /\ cap.mdrBps \in Nat /\ b.mdrBps <= cap.mdrBps)
    /\ \A r \in Risks \ {"fraud"} : b.ceiling[r] = cap.ceiling[r]
    /\ b.ceiling["fraud"] = cap.ceiling["fraud"]
       \/ (/\ b.ceiling["fraud"] \in Nat /\ cap.ceiling["fraud"] \in Nat \ {0}
           /\ cap.ceiling["fraud"] <= b.ceiling["fraud"])
    /\ \E i, j \in 1 .. 4 : i <= j /\ cap.freshness = Freshness[i] /\ b.freshness = Freshness[j]

Improvable(cap) ==
    /\ DOMAIN cap = CapacityFields /\ DOMAIN cap.ceiling = Risks /\ Absent \notin Nat
    /\ cap.monthlyCapacity \in Nat /\ cap.settlementCadenceDays \in Nat /\ cap.mdrBps \in Nat \cup {Absent}
    /\ \A r \in Risks : cap.ceiling[r] \in Nat
    /\ cap.freshness \in {"FRESH", "AGING", "STALE", "UNKNOWN"}

LEMMA InputsImprovable ==
    ASSUME MatchAssumption, NEW inputs \in MatchInputs, NEW in \in inputs
    PROVE  Improvable(in.cap)
  BY DEF MatchAssumption, Improvable

\* Each change of Improved offers no worse terms.
LEMMA ImprovedIsNoWorse ==
    ASSUME NEW cap, Improvable(cap), NEW b \in Improved(cap)
    PROVE  NoWorse(cap, b)
  <1> USE DEF CapacityFields
  <1>0. /\ DOMAIN cap = CapacityFields /\ DOMAIN cap.ceiling = Risks /\ Absent \notin Nat
        /\ cap.monthlyCapacity \in Nat /\ cap.settlementCadenceDays \in Nat
        /\ cap.mdrBps \in Nat \cup {Absent} /\ \A r \in Risks : cap.ceiling[r] \in Nat
        /\ cap.freshness \in {"FRESH", "AGING", "STALE", "UNKNOWN"}
    BY DEF Improvable
  <1>1. \E i \in 1 .. 4 : cap.freshness = Freshness[i]
    BY <1>0 DEF Freshness
  <1> DEFINE capacity == [cap EXCEPT !.monthlyCapacity = @ + 1]
             cadence == [cap EXCEPT !.settlementCadenceDays = IF @ = 0 THEN 0 ELSE @ - 1]
             rate == [cap EXCEPT !.mdrBps = IF @ \in {Absent, 0} THEN @ ELSE @ - 1]
             ceiling == [cap EXCEPT !.ceiling["fraud"] = IF @ = 0 THEN 0 ELSE @ + 1]
             fresher == [cap EXCEPT !.freshness = IF @ = "UNKNOWN" THEN "STALE"
                                                  ELSE IF @ = "STALE" THEN "AGING" ELSE "FRESH"]
  <1>2. CASE b = capacity
    BY <1>0, <1>1, <1>2 DEF NoWorse, SameTerms
  <1>3. CASE b = cadence
    BY <1>0, <1>1, <1>3 DEF NoWorse, SameTerms
  <1>4. CASE b = rate
    BY <1>0, <1>1, <1>4 DEF NoWorse, SameTerms
  <1>5. CASE b = ceiling
    BY <1>0, <1>1, <1>5 DEF NoWorse, SameTerms, Risks
  <1>6. CASE b = fresher
    BY <1>0, <1>1, <1>6 DEF NoWorse, SameTerms, Freshness
  <1> QED BY <1>2, <1>3, <1>4, <1>5, <1>6 DEF Improved

\* Whoever is eligible stays so on better terms.
LEMMA BetterStaysEligible ==
    ASSUME NEW opp, NEW cap, NEW ctx, NEW b, Readable(opp, cap, ctx), NoWorse(cap, b),
           EvaluateEligibility(opp, cap, ctx).eligible
    PROVE  EvaluateEligibility(opp, b, ctx).eligible
  <1>1. Readable(opp, b, ctx)
    <2>1. \A r \in Risks : b.ceiling[r] \in Nat
      BY DEF Readable, NoWorse, Risks
    <2>2. b.freshness \in {"FRESH", "AGING", "STALE", "UNKNOWN"}
      BY DEF NoWorse, Freshness
    <2> QED BY <2>1, <2>2 DEF Readable, NoWorse, SameTerms
  <1>2. BlocksAsTold(opp, cap, ctx) /\ BlocksAsTold(opp, b, ctx)
    BY <1>1, RulesBlock
  <1>3. SameTerms(cap, b) /\ cap.monthlyCapacity <= b.monthlyCapacity
    BY DEF NoWorse
  <1>4. Blocks(CheckVolume(opp, b)) => Blocks(CheckVolume(opp, cap))
    <2>1. b.monthlyCapacity >= opp.movable30d \/ ~(cap.monthlyCapacity >= opp.movable30d)
      BY <1>1, <1>3 DEF Readable
    <2> QED BY <1>2, <1>3, <2>1 DEF BlocksAsTold, SameTerms
  <1>5. Blocks(CheckRisk(b, ctx)) => Blocks(CheckRisk(cap, ctx))
    <2>1. \A r \in KnownRisks(ctx) : ctx.risk[r] <= cap.ceiling[r] => ctx.risk[r] <= b.ceiling[r]
      <3>1. \A r \in KnownRisks(ctx) : r \in Risks /\ ctx.risk[r] \in Nat
        BY DEF KnownRisks, Readable
      <3>2. \A r \in Risks : cap.ceiling[r] \in Nat /\ b.ceiling[r] \in Nat /\ cap.ceiling[r] <= b.ceiling[r]
        BY <1>1 DEF Readable, NoWorse, Risks
      <3> QED BY <3>1, <3>2
    <2> QED BY <1>2, <2>1 DEF BlocksAsTold
  <1>6. Blocks(CheckFreshness(b)) => Blocks(CheckFreshness(cap))
    <2>1. cap.freshness \in {"FRESH", "AGING"} => b.freshness \in {"FRESH", "AGING"}
      BY DEF NoWorse, Freshness
    <2> QED BY <1>2, <2>1 DEF BlocksAsTold
  <1>7. /\ Blocks(CheckJurisdiction(opp, b)) => Blocks(CheckJurisdiction(opp, cap))
        /\ Blocks(CheckMccProduct(opp, b)) => Blocks(CheckMccProduct(opp, cap))
        /\ Blocks(CheckTicket(b, ctx)) => Blocks(CheckTicket(cap, ctx))
        /\ Blocks(CheckSettlement(opp, b, ctx)) => Blocks(CheckSettlement(opp, cap, ctx))
    BY <1>3 DEF SameTerms, CheckJurisdiction, CheckMccProduct, CheckTicket, CheckSettlement
  <1> QED BY <1>4, <1>5, <1>6, <1>7, EligibleIs

-----------------------------------------------------------------------------
\* What scoreMatch reads besides: finite lists, and amounts.
Scorable(opp, cap, ctx) ==
    /\ opp.movable30d \in Nat /\ cap.monthlyCapacity \in Nat /\ cap.settlementCadenceDays \in Nat
    /\ cap.mdrBps \in Nat \cup {Absent} /\ Absent \notin Nat
    /\ cap.freshness \in {"FRESH", "AGING", "STALE", "UNKNOWN"}
    /\ \A r \in Risks : ctx.risk[r] \in Nat \cup {Absent} /\ cap.ceiling[r] \in Nat
    /\ IsFiniteSet(opp.mccs) /\ IsFiniteSet(opp.jurisdictions)
    /\ IsFiniteSet(cap.mccsAccepted) /\ IsFiniteSet(cap.jurisdictions)

LEMMA InputsScorable ==
    ASSUME MatchAssumption, NEW inputs \in MatchInputs, NEW in \in inputs
    PROVE  Scorable(in.opp, in.cap, in.ctx)
  BY DEF MatchAssumption, Scorable

\* The share of the ceilings left unused is unused over a product of ceilings.
Capped(cap, ctx) == {r \in KnownRisks(ctx) : cap.ceiling[r] > 0}
Scale(cap, ctx, r) == IF r \in Capped(cap, ctx) THEN cap.ceiling[r] ELSE 1
Spare(cap, ctx, r) == IF r \in Capped(cap, ctx) THEN cap.ceiling[r] - ctx.risk[r] ELSE 0
Unused(cap, ctx) ==
    Spare(cap, ctx, "chargeback") * (Scale(cap, ctx, "fraud") * Scale(cap, ctx, "refund"))
    + Spare(cap, ctx, "fraud") * (Scale(cap, ctx, "chargeback") * Scale(cap, ctx, "refund"))
    + Spare(cap, ctx, "refund") * (Scale(cap, ctx, "chargeback") * Scale(cap, ctx, "fraud"))
Denominator(cap, ctx) ==
    Cardinality(Capped(cap, ctx))
    * (Scale(cap, ctx, "fraud") * (Scale(cap, ctx, "chargeback") * Scale(cap, ctx, "refund")))

LEMMA RiskScoreIs ==
    ASSUME NEW cap, NEW ctx
    PROVE  ScoreRiskHistoryFit(cap, ctx) =
             IF Capped(cap, ctx) = {} THEN Neutral ELSE Score(Unused(cap, ctx), Denominator(cap, ctx))
  BY DEF ScoreRiskHistoryFit, Capped, Scale, Spare, Unused, Denominator

LEMMA CountOfCapped ==
    ASSUME NEW cap, NEW ctx, Capped(cap, ctx) # {}
    PROVE  Cardinality(Capped(cap, ctx)) \in Nat \ {0}
  <1> DEFINE S == Capped(cap, ctx)
  <1>1. IsFiniteSet(Risks)
    <2>1. IsFiniteSet({}) /\ IsFiniteSet({} \cup {"chargeback"})
      BY FS_EmptySet, FS_AddElement
    <2>2. IsFiniteSet(({} \cup {"chargeback"}) \cup {"fraud"})
      BY <2>1, FS_AddElement
    <2>3. IsFiniteSet((({} \cup {"chargeback"}) \cup {"fraud"}) \cup {"refund"})
      BY <2>2, FS_AddElement
    <2>4. Risks = (({} \cup {"chargeback"}) \cup {"fraud"}) \cup {"refund"}
      BY DEF Risks
    <2> QED BY <2>3, <2>4
  <1>2. S \subseteq Risks
    BY DEF Capped, KnownRisks
  <1> HIDE DEF S
  <1>3. IsFiniteSet(S)
    BY <1>1, <1>2, FS_Subset
  <1>4. Cardinality(S) \in Nat /\ (Cardinality(S) = 0 <=> S = {})
    BY <1>3, FS_CardinalityType, FS_EmptySet
  <1> QED BY <1>4 DEF S

LEMMA RiskTypes ==
    ASSUME NEW cap, NEW ctx, \A r \in Risks : ctx.risk[r] \in Nat \cup {Absent} /\ cap.ceiling[r] \in Nat,
           NEW r \in Risks
    PROVE  Scale(cap, ctx, r) \in Nat \ {0} /\ Spare(cap, ctx, r) \in Int
  BY DEF Scale, Spare, Capped, KnownRisks

\* With a higher ceiling f' of fraud the share left is no smaller.
LEMMA ShareGrows ==
    ASSUME NEW n \in Nat \ {0}, NEW c \in Nat \ {0}, NEW r \in Nat \ {0}, NEW f \in Nat \ {0},
           NEW g \in Nat \ {0}, f <= g, NEW x \in Nat, NEW a \in Int, NEW b \in Int
    PROVE  (a * (f * r) + (f - x) * (c * r) + b * (c * f)) * (n * (g * (c * r)))
             <= (a * (g * r) + (g - x) * (c * r) + b * (c * g)) * (n * (f * (c * r)))
  <1> DEFINE k == c * r
             m == a * r + b * c
             w == n * k
  <1>1. k \in Nat /\ m \in Int /\ w \in Nat
    OBVIOUS
  <1>2. a * (f * r) + (f - x) * (c * r) + b * (c * f) = m * f + (f - x) * k
    OBVIOUS
  <1>3. a * (g * r) + (g - x) * (c * r) + b * (c * g) = m * g + (g - x) * k
    OBVIOUS
  <1>4. n * (g * (c * r)) = w * g /\ n * (f * (c * r)) = w * f
    OBVIOUS
  <1> HIDE DEF k, m, w
  <1>5. (m * f + (f - x) * k) * (w * g) <= (m * g + (g - x) * k) * (w * f)
    <2> DEFINE e == k * w
    <2>1. (m * f + (f - x) * k) * (w * g) = (m * w) * (f * g) + e * (f * g) - e * (x * g)
      BY <1>1
    <2>2. (m * g + (g - x) * k) * (w * f) = (m * w) * (f * g) + e * (f * g) - e * (x * f)
      BY <1>1
    <2>3. e \in Nat /\ (m * w) * (f * g) \in Int /\ e * (f * g) \in Int
      BY <1>1
    <2> HIDE DEF e
    <2>4. x * f <= x * g /\ x * f \in Int /\ x * g \in Int
      OBVIOUS
    <2>5. e * (x * f) <= e * (x * g) /\ e * (x * f) \in Int /\ e * (x * g) \in Int
      <3> DEFINE p == x * f
                 q == x * g
      <3>1. p <= q /\ p \in Int /\ q \in Int
        BY <2>4
      <3> HIDE DEF p, q
      <3>2. e * p <= e * q /\ e * p \in Int /\ e * q \in Int
        BY <2>3, <3>1
      <3> QED BY <3>2 DEF p, q
    <2> QED BY ONLY <2>1, <2>2, <2>3, <2>5
  <1> QED BY <1>2, <1>3, <1>4, <1>5

LEMMA RiskScoreType ==
    ASSUME NEW cap, NEW ctx, \A r \in Risks : ctx.risk[r] \in Nat \cup {Absent} /\ cap.ceiling[r] \in Nat
    PROVE  ScoreRiskHistoryFit(cap, ctx) \in Scores
  <1>1. CASE Capped(cap, ctx) = {}
    BY <1>1, RiskScoreIs DEF Neutral, Scores
  <1>2. CASE Capped(cap, ctx) # {}
    <2> DEFINE n == Cardinality(Capped(cap, ctx))
               sc(r) == Scale(cap, ctx, r)
               sp(r) == Spare(cap, ctx, r)
    <2>1. n \in Nat \ {0}
      BY <1>2, CountOfCapped
    <2>2. /\ sc("chargeback") \in Nat \ {0} /\ sc("fraud") \in Nat \ {0} /\ sc("refund") \in Nat \ {0}
          /\ sp("chargeback") \in Int /\ sp("fraud") \in Int /\ sp("refund") \in Int
      BY RiskTypes DEF Risks
    <2>3. Unused(cap, ctx) \in Int /\ Denominator(cap, ctx) \in Nat \ {0}
      <3>1. /\ Unused(cap, ctx) = sp("chargeback") * (sc("fraud") * sc("refund"))
                                  + sp("fraud") * (sc("chargeback") * sc("refund"))
                                  + sp("refund") * (sc("chargeback") * sc("fraud"))
            /\ Denominator(cap, ctx) = n * (sc("fraud") * (sc("chargeback") * sc("refund")))
        BY DEF Unused, Denominator
      <3> HIDE DEF n, sc, sp
      <3>2. /\ sc("fraud") * sc("refund") \in Nat \ {0} /\ sc("chargeback") * sc("refund") \in Nat \ {0}
            /\ sc("chargeback") * sc("fraud") \in Nat \ {0}
        BY <2>2
      <3>3. sc("fraud") * (sc("chargeback") * sc("refund")) \in Nat \ {0}
        BY <2>2, <3>2
      <3>4. n * (sc("fraud") * (sc("chargeback") * sc("refund"))) \in Nat \ {0}
        BY <2>1, <3>3
      <3> QED BY <2>2, <3>1, <3>2, <3>4
    <2> QED BY <1>2, <2>3, RiskScoreIs, ScoreType
  <1> QED BY <1>1, <1>2

LEMMA RiskGrows ==
    ASSUME NEW opp, NEW cap, NEW ctx, NEW b, NoWorse(cap, b), Scorable(opp, cap, ctx)
    PROVE  ScoreRiskHistoryFit(cap, ctx) <= ScoreRiskHistoryFit(b, ctx)
  <1>0. /\ \A r \in Risks : ctx.risk[r] \in Nat \cup {Absent} /\ cap.ceiling[r] \in Nat
        /\ \A r \in Risks : b.ceiling[r] \in Nat
        /\ \A r \in Risks \ {"fraud"} : b.ceiling[r] = cap.ceiling[r]
    BY DEF Scorable, NoWorse, Risks
  <1>1. Capped(b, ctx) = Capped(cap, ctx)
    BY <1>0 DEF NoWorse, Capped, KnownRisks, Risks
  <1>2. \A r \in Risks \ {"fraud"} :
           Scale(b, ctx, r) = Scale(cap, ctx, r) /\ Spare(b, ctx, r) = Spare(cap, ctx, r)
    BY <1>0, <1>1 DEF Scale, Spare
  <1>3. ScoreRiskHistoryFit(cap, ctx) \in Scores
    BY <1>0, RiskScoreType
  <1>4. CASE "fraud" \notin Capped(cap, ctx) \/ b.ceiling["fraud"] = cap.ceiling["fraud"]
    <2>1. Scale(b, ctx, "fraud") = Scale(cap, ctx, "fraud") /\ Spare(b, ctx, "fraud") = Spare(cap, ctx, "fraud")
      BY <1>1, <1>4 DEF Scale, Spare
    <2>2. Unused(b, ctx) = Unused(cap, ctx) /\ Denominator(b, ctx) = Denominator(cap, ctx)
      BY <1>1, <1>2, <2>1 DEF Unused, Denominator, Risks
    <2>3. ScoreRiskHistoryFit(b, ctx) = ScoreRiskHistoryFit(cap, ctx)
      BY <1>1, <2>2, RiskScoreIs
    <2> QED BY <1>3, <2>3, ScoresAre
  <1>5. CASE "fraud" \in Capped(cap, ctx) /\ b.ceiling["fraud"] # cap.ceiling["fraud"]
    <2> DEFINE n == Cardinality(Capped(cap, ctx))
               c == Scale(cap, ctx, "chargeback")
               r == Scale(cap, ctx, "refund")
               y == Spare(cap, ctx, "chargeback")
               z == Spare(cap, ctx, "refund")
               f == cap.ceiling["fraud"]
               g == b.ceiling["fraud"]
               x == ctx.risk["fraud"]
    <2>1. n \in Nat \ {0}
      BY <1>5, CountOfCapped
    <2>2. c \in Nat \ {0} /\ r \in Nat \ {0} /\ y \in Int /\ z \in Int
      BY <1>0, RiskTypes DEF Risks
    <2>3. f \in Nat \ {0} /\ g \in Nat \ {0} /\ f <= g
      BY <1>0, <1>5 DEF NoWorse
    <2>4. x \in Nat
      BY <1>0, <1>5 DEF Capped, KnownRisks
    <2>5. /\ Unused(cap, ctx) = y * (f * r) + (f - x) * (c * r) + z * (c * f)
          /\ Denominator(cap, ctx) = n * (f * (c * r))
      <3>1. Scale(cap, ctx, "fraud") = f /\ Spare(cap, ctx, "fraud") = f - x
        BY <1>5 DEF Scale, Spare
      <3> QED BY <3>1 DEF Unused, Denominator
    <2>6. /\ Unused(b, ctx) = y * (g * r) + (g - x) * (c * r) + z * (c * g)
          /\ Denominator(b, ctx) = n * (g * (c * r))
      <3>1. Scale(b, ctx, "fraud") = g /\ Spare(b, ctx, "fraud") = g - x
        BY <1>1, <1>5 DEF Scale, Spare
      <3>2. /\ Scale(b, ctx, "chargeback") = c /\ Spare(b, ctx, "chargeback") = y
            /\ Scale(b, ctx, "refund") = r /\ Spare(b, ctx, "refund") = z
        BY <1>2 DEF Risks
      <3> QED BY <1>1, <3>1, <3>2 DEF Unused, Denominator
    <2> HIDE DEF n, c, r, y, z, f, g, x
    <2> DEFINE p == y * (f * r) + (f - x) * (c * r) + z * (c * f)
               q == y * (g * r) + (g - x) * (c * r) + z * (c * g)
               s == n * (f * (c * r))
               t == n * (g * (c * r))
    <2>7. p * t <= q * s
      BY <2>1, <2>2, <2>3, <2>4, ShareGrows
    <2>8. p \in Int /\ q \in Int
      BY <2>2, <2>3, <2>4
    <2>9. s \in Nat \ {0} /\ t \in Nat \ {0}
      <3> DEFINE k == c * r
      <3>1. k \in Nat \ {0}
        BY <2>2
      <3> HIDE DEF k
      <3>2. f * k \in Nat \ {0} /\ g * k \in Nat \ {0}
        BY <2>3, <3>1
      <3>3. n * (f * k) \in Nat \ {0} /\ n * (g * k) \in Nat \ {0}
        BY <2>1, <3>2
      <3> QED BY <3>3 DEF k
    <2> HIDE DEF p, q, s, t
    <2>10. Score(p, s) <= Score(q, t)
      BY <2>7, <2>8, <2>9, ScoreGrows
    <2>11. ScoreRiskHistoryFit(cap, ctx) = Score(p, s) /\ ScoreRiskHistoryFit(b, ctx) = Score(q, t)
      BY <1>1, <1>5, <2>5, <2>6, RiskScoreIs DEF p, q, s, t
    <2> QED BY <2>10, <2>11
  <1> QED BY <1>4, <1>5

-----------------------------------------------------------------------------
\* Every factor is a score.
LEMMA FactorTypes ==
    ASSUME NEW opp, NEW cap, NEW ctx, Scorable(opp, cap, ctx)
    PROVE  \A n \in FactorNames : Factors(opp, cap, ctx)[n] \in Scores
  <1>1. ScoreMccProductFit(opp, cap) \in Scores
    <2> DEFINE matched == Cardinality(opp.mccs \cap cap.mccsAccepted)
               accepted == Cardinality(cap.mccsAccepted)
               asked == Cardinality(opp.mccs)
               penalty == Clamp(0, 20, 2 * (accepted - matched))
    <2>1. IsFiniteSet(opp.mccs) /\ IsFiniteSet(cap.mccsAccepted)
      BY DEF Scorable
    <2>2. IsFiniteSet(opp.mccs \cap cap.mccsAccepted)
      BY <2>1, FS_Subset
    <2>3. matched \in Nat /\ accepted \in Nat /\ asked \in Nat
      BY <2>1, <2>2, FS_CardinalityType
    <2>4. ScoreMccProductFit(opp, cap) = IF asked = 0 THEN 0
             ELSE Score(100 * matched - penalty * asked, 100 * asked)
      BY DEF ScoreMccProductFit
    <2> HIDE DEF matched, accepted, asked
    <2>5. penalty \in Int
      BY <2>3 DEF Clamp
    <2> HIDE DEF penalty
    <2>6. CASE asked # 0
      <3> DEFINE p == 100 * matched - penalty * asked
                 q == 100 * asked
      <3>1. p \in Int /\ q \in Nat \ {0}
        BY <2>3, <2>5, <2>6
      <3>2. ScoreMccProductFit(opp, cap) = Score(p, q)
        BY <2>4, <2>6
      <3> HIDE DEF p, q
      <3>3. Score(p, q) \in Scores
        BY ONLY <3>1, ScoreType
      <3> QED BY <3>2, <3>3
    <2> QED BY <2>4, <2>6, ScoresAre
  <1>2. ScoreGeographyLicensingFit(opp, cap) \in Scores
    <2> DEFINE shared == Cardinality(opp.jurisdictions \cap cap.jurisdictions)
               asked == Cardinality(opp.jurisdictions)
    <2>1. IsFiniteSet(opp.jurisdictions) /\ IsFiniteSet(opp.jurisdictions \cap cap.jurisdictions)
      BY FS_Subset DEF Scorable
    <2>2. shared \in Nat /\ asked \in Nat /\ (asked = 0 <=> opp.jurisdictions = {})
      BY <2>1, FS_CardinalityType, FS_EmptySet
    <2>3. ScoreGeographyLicensingFit(opp, cap) =
             IF opp.jurisdictions = {} THEN 0 ELSE Score(shared, asked)
      BY DEF ScoreGeographyLicensingFit
    <2> HIDE DEF shared, asked
    <2>4. asked # 0 => Score(shared, asked) \in Scores
      <3> SUFFICES ASSUME asked # 0 PROVE Score(shared, asked) \in Scores
        OBVIOUS
      <3>1. shared \in Int /\ asked \in Nat \ {0}
        BY <2>2
      <3> QED BY ONLY <3>1, ScoreType
    <2> QED BY <2>2, <2>3, <2>4, ScoresAre
  <1>3. ScoreVolumeTicketFit(opp, cap) \in Scores
    <2> DEFINE spare == cap.monthlyCapacity - opp.movable30d
               band == 4 * opp.movable30d
    <2>1. spare \in Int /\ (opp.movable30d # 0 => band \in Nat \ {0})
      BY DEF Scorable
    <2>2. ScoreVolumeTicketFit(opp, cap) =
             IF opp.currency # cap.currency \/ opp.movable30d = 0 THEN 500 ELSE Score(spare, band)
      BY DEF ScoreVolumeTicketFit, Neutral
    <2> HIDE DEF spare, band
    <2>3. opp.movable30d # 0 => Score(spare, band) \in Scores
      BY <2>1, ScoreType
    <2> QED BY <2>2, <2>3, ScoresAre
  <1>4. ScoreRiskHistoryFit(cap, ctx) \in Scores
    BY RiskScoreType DEF Scorable
  <1>5. ScoreSettlementCurrencyFit(opp, cap) \in Scores
    <2>1. 10 - cap.settlementCadenceDays \in Int /\ 9 \in Nat \ {0}
      BY DEF Scorable
    <2>2. Score(10 - cap.settlementCadenceDays, 9) \in Scores
      BY <2>1, ScoreType
    <2> QED BY <2>2, ScoresAre DEF ScoreSettlementCurrencyFit
  <1>6. ScoreCommercialUtility(cap) \in Scores
    <2>1. CASE cap.mdrBps = Absent
      BY <2>1, ScoresAre DEF ScoreCommercialUtility, Neutral
    <2>2. CASE cap.mdrBps # Absent
      <3>1. 450 - cap.mdrBps \in Int /\ 370 \in Nat \ {0}
        BY <2>2 DEF Scorable
      <3>2. Score(450 - cap.mdrBps, 370) \in Scores
        BY <3>1, ScoreType
      <3> QED BY <2>2, <3>2 DEF ScoreCommercialUtility
    <2> QED BY <2>1, <2>2
  <1>7. ScoreProviderReliabilityFreshness(cap) \in Scores
    BY ScoresAre DEF Scorable, ScoreProviderReliabilityFreshness
  <1> QED BY <1>1, <1>2, <1>3, <1>4, <1>5, <1>6, <1>7 DEF Factors, FactorNames

\* On better terms none of them falls.
LEMMA FactorsGrow ==
    ASSUME NEW opp, NEW cap, NEW ctx, NEW b, NoWorse(cap, b), Scorable(opp, cap, ctx)
    PROVE  /\ Scorable(opp, b, ctx)
           /\ \A n \in FactorNames : Factors(opp, cap, ctx)[n] <= Factors(opp, b, ctx)[n]
  <1>1. SameTerms(cap, b)
    BY DEF NoWorse
  <1>2. Scorable(opp, b, ctx)
    <2>1. \A r \in Risks : b.ceiling[r] \in Nat
      BY DEF Scorable, NoWorse, Risks
    <2>2. b.freshness \in {"FRESH", "AGING", "STALE", "UNKNOWN"}
      BY DEF NoWorse, Freshness
    <2>3. b.mdrBps \in Nat \cup {Absent} /\ b.monthlyCapacity \in Nat /\ b.settlementCadenceDays \in Nat
      BY DEF Scorable, NoWorse
    <2> QED BY <1>1, <2>1, <2>2, <2>3 DEF Scorable, SameTerms
  <1> DEFINE f == Factors(opp, cap, ctx)
             g == Factors(opp, b, ctx)
  <1>3. \A n \in FactorNames : f[n] \in Scores
    BY FactorTypes
  <1>4. /\ ScoreMccProductFit(opp, b) = ScoreMccProductFit(opp, cap)
        /\ ScoreGeographyLicensingFit(opp, b) = ScoreGeographyLicensingFit(opp, cap)
    BY <1>1 DEF SameTerms, ScoreMccProductFit, ScoreGeographyLicensingFit
  <1>5. ScoreVolumeTicketFit(opp, cap) <= ScoreVolumeTicketFit(opp, b)
    <2> DEFINE d == opp.movable30d
               u == cap.monthlyCapacity
               v == b.monthlyCapacity
    <2>1. d \in Nat /\ u \in Nat /\ v \in Nat /\ u <= v /\ b.currency = cap.currency
      BY <1>1 DEF Scorable, NoWorse, SameTerms
    <2>2. CASE opp.currency # cap.currency \/ d = 0
      BY <2>1, <2>2 DEF ScoreVolumeTicketFit, Neutral
    <2>3. CASE ~(opp.currency # cap.currency \/ d = 0)
      <3>1. ScoreVolumeTicketFit(opp, cap) = Score(u - d, 4 * d) /\ ScoreVolumeTicketFit(opp, b) = Score(v - d, 4 * d)
        BY <2>1, <2>3 DEF ScoreVolumeTicketFit
      <3> HIDE DEF d, u, v
      <3> DEFINE q == 4 * d
      <3>2. u - d \in Int /\ v - d \in Int /\ q \in Nat \ {0} /\ u - d <= v - d
        BY <2>1, <2>3
      <3> HIDE DEF q
      <3>3. (u - d) * q <= (v - d) * q
        <4> DEFINE i == u - d
                   j == v - d
        <4>1. i \in Int /\ j \in Int /\ i <= j
          BY <3>2
        <4> HIDE DEF i, j
        <4>2. i * q <= j * q
          BY <3>2, <4>1
        <4> QED BY <4>2 DEF i, j
      <3>4. Score(u - d, q) <= Score(v - d, q)
        BY <3>2, <3>3, ScoreGrows
      <3> QED BY <3>1, <3>4 DEF q
    <2> QED BY <2>2, <2>3
  <1>6. ScoreRiskHistoryFit(cap, ctx) <= ScoreRiskHistoryFit(b, ctx)
    BY RiskGrows
  <1>7. ScoreSettlementCurrencyFit(opp, cap) <= ScoreSettlementCurrencyFit(opp, b)
    <2> DEFINE x == 10 - cap.settlementCadenceDays
               y == 10 - b.settlementCadenceDays
    <2>1. x \in Int /\ y \in Int /\ 9 \in Nat \ {0} /\ x * 9 <= y * 9
      BY DEF Scorable, NoWorse
    <2>2. b.currency = cap.currency
      BY <1>1 DEF SameTerms
    <2>3. /\ ScoreSettlementCurrencyFit(opp, cap) = IF opp.currency # cap.currency THEN 0 ELSE Score(x, 9)
          /\ ScoreSettlementCurrencyFit(opp, b) = IF opp.currency # cap.currency THEN 0 ELSE Score(y, 9)
      BY <2>2 DEF ScoreSettlementCurrencyFit
    <2> HIDE DEF x, y
    <2>4. Score(x, 9) <= Score(y, 9)
      BY <2>1, ScoreGrows
    <2> QED BY <2>3, <2>4
  <1>8. ScoreCommercialUtility(cap) <= ScoreCommercialUtility(b)
    <2>0. ScoreCommercialUtility(cap) \in Scores
      BY <1>3 DEF Factors, FactorNames
    <2>1. CASE b.mdrBps = cap.mdrBps
      BY <2>0, <2>1, ScoresAre DEF ScoreCommercialUtility
    <2>2. CASE b.mdrBps # cap.mdrBps
      <3> DEFINE x == 450 - cap.mdrBps
                 y == 450 - b.mdrBps
      <3>1. b.mdrBps \in Nat /\ cap.mdrBps \in Nat /\ b.mdrBps <= cap.mdrBps
        BY <2>2 DEF NoWorse
      <3>2. x \in Int /\ y \in Int /\ 370 \in Nat \ {0} /\ x * 370 <= y * 370
        BY <3>1
      <3>3. ScoreCommercialUtility(cap) = Score(x, 370) /\ ScoreCommercialUtility(b) = Score(y, 370)
        BY <3>1 DEF ScoreCommercialUtility, Scorable
      <3> HIDE DEF x, y
      <3>4. Score(x, 370) <= Score(y, 370)
        BY <3>2, ScoreGrows
      <3> QED BY <3>3, <3>4
    <2> QED BY <2>1, <2>2
  <1>9. ScoreProviderReliabilityFreshness(cap) <= ScoreProviderReliabilityFreshness(b)
    BY DEF NoWorse, Freshness, ScoreProviderReliabilityFreshness
  <1>10. ScoreMccProductFit(opp, cap) \in Scores /\ ScoreGeographyLicensingFit(opp, cap) \in Scores
    BY <1>3 DEF Factors, FactorNames
  <1>a. /\ ScoreMccProductFit(opp, cap) <= ScoreMccProductFit(opp, b)
        /\ ScoreGeographyLicensingFit(opp, cap) <= ScoreGeographyLicensingFit(opp, b)
    BY ONLY <1>4, <1>10, ScoresAre
  <1>11. \A n \in FactorNames : f[n] <= g[n]
    BY <1>5, <1>6, <1>7, <1>8, <1>9, <1>a DEF Factors, FactorNames
  <1> QED BY <1>2, <1>11

LEMMA MatchInvBetter == MatchAssumption /\ MatchInv => BetterTermsNeverHurt
  <1> SUFFICES ASSUME MatchAssumption, MatchInv, Returned("match")
               PROVE  BetterTermsNeverHurt
    BY DEF BetterTermsNeverHurt
  <1> DEFINE opp == call.in.opp
             cap == call.in.cap
             ctx == call.in.ctx
  <1>1. PICK inputs \in MatchInputs : call.in \in inputs
    BY DEF MatchInv, Returned
  <1>2. /\ result.eligibility = EvaluateEligibility(opp, cap, ctx)
        /\ result.total = ScoreMatch(opp, cap, ctx)
    BY DEF MatchInv, Returned
  <1>3. Readable(opp, cap, ctx) /\ Improvable(cap) /\ Scorable(opp, cap, ctx)
    BY <1>1, InputsReadable, InputsImprovable, InputsScorable
  <1> HIDE DEF opp, cap, ctx
  <1>4. ASSUME NEW b \in Improved(cap)
        PROVE  /\ EvaluateEligibility(opp, cap, ctx).eligible => EvaluateEligibility(opp, b, ctx).eligible
               /\ ScoreMatch(opp, cap, ctx) <= ScoreMatch(opp, b, ctx)
    <2>1. NoWorse(cap, b)
      BY <1>3, ImprovedIsNoWorse
    <2>2. EvaluateEligibility(opp, cap, ctx).eligible => EvaluateEligibility(opp, b, ctx).eligible
      BY <1>3, <2>1, BetterStaysEligible
    <2> DEFINE f == Factors(opp, cap, ctx)
               g == Factors(opp, b, ctx)
    <2>a. \A n \in FactorNames : f[n] \in Scores
      BY <1>3, FactorTypes
    <2>b. Scorable(opp, b, ctx) /\ \A n \in FactorNames : f[n] <= g[n]
      BY <1>3, <2>1, FactorsGrow
    <2>3. /\ \A n \in FactorNames : f[n] \in Scores /\ f[n] <= g[n]
          /\ Scorable(opp, b, ctx)
      <3> HIDE DEF f, g
      <3> QED BY <2>a, <2>b
    <2>4. \A n \in FactorNames : g[n] \in Scores
      BY <2>3, FactorTypes
    <2>5. ScoreMatch(opp, cap, ctx) = TotalOf(f) /\ ScoreMatch(opp, b, ctx) = TotalOf(g)
      BY ScoreIsTotal
    <2> HIDE DEF f, g
    <2>6. TotalOf(f) <= TotalOf(g)
      BY <2>3, <2>4, TotalGrows
    <2> QED BY <2>2, <2>5, <2>6
  <1>5. ScoreMatch(opp, cap, ctx) \in 64 .. 964
    <2> DEFINE f == Factors(opp, cap, ctx)
    <2>1. \A n \in FactorNames : f[n] \in Scores
      BY <1>3, FactorTypes
    <2> HIDE DEF f
    <2>2. \A n \in FactorNames : f[n] <= f[n]
      BY <2>1, ScoresAre
    <2>3. TotalOf(f) \in 64 .. 964
      BY <2>1, <2>2, TotalGrows
    <2> QED BY <2>3, ScoreIsTotal DEF f
  <1>6. \A b \in Improved(cap) :
           /\ result.eligibility.eligible => EvaluateEligibility(opp, b, ctx).eligible
           /\ ScoreMatch(opp, b, ctx) >= result.total
    BY <1>2, <1>4
  <1>7. result.total \in 64 .. 964
    BY <1>2, <1>5
  <1> QED BY <1>6, <1>7 DEF BetterTermsNeverHurt, opp, cap, ctx

\* evaluateEligibility and scoreMatch, for any opportunity, capacity and context: a
\* provider that only improves its terms stays eligible and never scores less.
THEOREM Better_NeverHurts == CallSpec => []BetterTermsNeverHurt
  <1>1. MatchInv => BetterTermsNeverHurt
    BY MatchInvBetter, MatchAssumption
  <1> QED BY <1>1, InitMatchInv, NextMatchInv, PTL DEF CallSpec
=============================================================================
