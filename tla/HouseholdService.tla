-------------------------- MODULE HouseholdService --------------------------
(***************************************************************************)
(* household-service: households, their members and invitations, and the   *)
(* requests that change them.  No operation uses a database transaction:   *)
(* each await is a statement of its own, so requests interleave at every   *)
(* await, and one that fails or dies leaves what it has written.           *)
(*                                                                         *)
(* TypeORM's save of an entity that was read before looks its id up again: *)
(* a row that somebody has deleted meanwhile is inserted once more.  A row *)
(* whose household does not exist violates its foreign key.                *)
(*                                                                         *)
(* A household, an invitation and a membership are named after the request *)
(* that has inserted them.  Names, currencies and dates are left out.      *)
(***************************************************************************)
EXTENDS Naturals, FiniteSets

CONSTANTS
  Request, User,
  Home, Founder, Guest,  \* the household there is, who made it, another user
  None,
  Wanted,                \* what requests ask for: [op, user, target, role]
  MaxInFlight            \* bound: requests under way at the same time

Op == {"create", "rename", "delete", "invite", "accept", "remove", "setRole"}
MemberRole == {"admin", "member"}
Id == Request \cup {Home, Guest}

ASSUME HouseholdAssumption ==
  /\ Wanted \subseteq [op: Op, user: User, target: User, role: MemberRole]
  /\ \A w \in Wanted : w.op = "accept" => w.target = w.user
  /\ Founder \in User /\ Guest \in User \ {Founder}
  /\ Home \notin Request /\ Guest \notin Request /\ Home # Guest
  /\ MaxInFlight \in Nat

VARIABLES
  households,   \* ids of the rows of households
  members,      \* household_members
  invitations,  \* invitations
  req,          \* what each request asks for and where it is
  read          \* the row a request has read and not yet written back

vars == <<households, members, invitations, req, read>>

Member == [id: Id, household: Id, user: User, role: MemberRole]
Invitation == [token: Id, household: Id, user: User, used: BOOLEAN]

\* The unique email of a user stands for the user.  `at` is the household, or
\* the token of an accept; `after` the requests that had ended before it came.
Asked == [op: Op, user: User, at: Id, target: User, role: MemberRole,
          after: SUBSET Request,
          pc: {"check", "find", "write", "look", "join",
               "done", "refused", "cutOff"}]

ASSUME NoneAssumption == None \notin Asked

TypeOK ==
  /\ households \subseteq Id
  /\ members \subseteq Member
  /\ invitations \subseteq Invitation
  /\ req \in [Request -> Asked \cup {None}]
  /\ read \in [Request -> Member \cup Invitation \cup {None}]

Row(id, h, u, role) == [id |-> id, household |-> h, user |-> u, role |-> role]
Sent(token, h, u, used) ==
  [token |-> token, household |-> h, user |-> u, used |-> used]

\* The guest is a stranger, invited, a member or an admin.
Init ==
  /\ households = {Home}
  /\ \/ /\ members = {Row(Home, Home, Founder, "admin")}
        /\ invitations \in {{}, {Sent(Home, Home, Guest, FALSE)}}
     \/ /\ \E role \in MemberRole :
             members = {Row(Home, Home, Founder, "admin"), Row(Guest, Home, Guest, role)}
        /\ invitations = {Sent(Home, Home, Guest, TRUE)}
  /\ req = [r \in Request |-> None]
  /\ read = [r \in Request |-> None]

-----------------------------------------------------------------------------
IsMember(h, u) == \E m \in members : m.household = h /\ m.user = u
IsAdmin(h, u) == \E m \in members : m.household = h /\ m.user = u /\ m.role = "admin"

Came == {r \in Request : req[r] # None}
Over == {r \in Came : req[r].pc \in {"done", "refused", "cutOff"}}
InFlight == Came \ Over

At(r, op, pc) == r \in Came /\ req[r].op = op /\ req[r].pc = pc
Goto(r, pc) == req' = [req EXCEPT ![r].pc = pc]
tables == <<households, members, invitations>>

\* Whoever has a link to a household or an invitation can send a request.
Arrive(r) ==
  /\ r \notin Came
  /\ Cardinality(InFlight) < MaxInFlight
  /\ \E w \in Wanted, at \in {Home} \cup Came :
       /\ at \in Came => req[at].op = IF w.op = "accept" THEN "invite" ELSE "create"
       /\ w.op = "create" => at = Home
       /\ req' = [req EXCEPT ![r] =
            [op |-> w.op, user |-> w.user, at |-> at, target |-> w.target, role |-> w.role,
             after |-> Over,
             pc |-> CASE w.op = "create" -> "write"
                      [] w.op = "accept" -> "find"
                      [] OTHER           -> "check"]]
  /\ UNCHANGED <<tables, read>>

-----------------------------------------------------------------------------
(* What every operation on a household begins with *)

AfterCheck(op) == IF op \in {"rename", "setRole"} THEN "find" ELSE "write"

\* Mutant: any member will do.
RequireMember(r) ==
  /\ r \in Came /\ req[r].pc = "check"
  /\ Goto(r, IF IsMember(req[r].at, req[r].user) THEN AfterCheck(req[r].op) ELSE "refused")
  /\ UNCHANGED <<tables, read>>

RequireAdmin(r) ==
  /\ r \in Came /\ req[r].pc = "check"
  /\ Goto(r, IF IsAdmin(req[r].at, req[r].user) THEN AfterCheck(req[r].op) ELSE "refused")
  /\ UNCHANGED <<tables, read>>

-----------------------------------------------------------------------------
(* createHousehold: the household, then its admin *)

SaveHousehold(r) ==
  /\ At(r, "create", "write")
  /\ households' = households \cup {r}
  /\ Goto(r, "join")
  /\ UNCHANGED <<members, invitations, read>>

SaveAdmin(r) ==
  /\ At(r, "create", "join")
  /\ members' = members \cup {Row(r, r, req[r].user, "admin")}
  /\ Goto(r, "done")
  /\ UNCHANGED <<households, invitations, read>>

(* updateHousehold *)

GetHousehold(r) ==
  /\ At(r, "rename", "find")
  /\ Goto(r, IF req[r].at \in households THEN "write" ELSE "refused")
  /\ UNCHANGED <<tables, read>>

\* save, which inserts the row when it is gone.  It was read with its members: a
\* row that it knows nothing of can make it fail.
SaveName(r) ==
  /\ At(r, "rename", "write")
  /\ households' \in {households, households \cup {req[r].at}}
  /\ Goto(r, "done")
  /\ UNCHANGED <<members, invitations, read>>

(* deleteHousehold *)

\* Mutant: the memberships do not cascade.
DeleteWithoutCascade(r) ==
  /\ At(r, "delete", "write")
  /\ households' = households \ {req[r].at}
  /\ invitations' = {i \in invitations : i.household # req[r].at}
  /\ Goto(r, "done")
  /\ UNCHANGED <<members, read>>

DeleteHousehold(r) ==
  /\ At(r, "delete", "write")
  /\ households' = households \ {req[r].at}
  /\ members' = {m \in members : m.household # req[r].at}
  /\ invitations' = {i \in invitations : i.household # req[r].at}
  /\ Goto(r, "done")
  /\ UNCHANGED read

(* sendInvitation *)

SaveInvitation(r) ==
  /\ At(r, "invite", "write")
  /\ req[r].at \in households
  /\ invitations' = invitations \cup {Sent(r, req[r].at, req[r].target, FALSE)}
  /\ Goto(r, "done")
  /\ UNCHANGED <<households, members, read>>

(* acceptInvitation *)

ForToken(r) == {i \in invitations : i.token = req[r].at /\ ~i.used}

\* Mutant: the email is not compared.
FindAnyInvitation(r) ==
  /\ At(r, "accept", "find")
  /\ \/ \E i \in ForToken(r) : read' = [read EXCEPT ![r] = i] /\ Goto(r, "write")
     \/ UNCHANGED read /\ Goto(r, "refused")
  /\ UNCHANGED tables

\* findValidInvitation and the comparison of the emails.  Any invitation can
\* have expired by now.
FindValidInvitation(r) ==
  /\ At(r, "accept", "find")
  /\ \/ \E i \in ForToken(r) :
          i.user = req[r].user /\ read' = [read EXCEPT ![r] = i] /\ Goto(r, "write")
     \/ UNCHANGED read /\ Goto(r, "refused")
  /\ UNCHANGED tables

\* usedAt; the invitation comes back when it was deleted with a household that
\* has come back itself.
MarkUsed(r) ==
  /\ At(r, "accept", "write")
  /\ read[r].household \in households
  /\ invitations' = {i \in invitations : i.token # read[r].token}
                      \cup {[read[r] EXCEPT !.used = TRUE]}
  /\ Goto(r, "look")
  /\ UNCHANGED <<households, members, read>>

\* Mutant: the row is inserted without looking.
LookNowhere(r) ==
  /\ At(r, "accept", "look")
  /\ Goto(r, "join")
  /\ UNCHANGED <<tables, read>>

LookForMember(r) ==
  /\ At(r, "accept", "look")
  /\ Goto(r, IF IsMember(read[r].household, req[r].user) THEN "done" ELSE "join")
  /\ UNCHANGED <<tables, read>>

SaveMember(r) ==
  /\ At(r, "accept", "join")
  /\ read[r].household \in households
  /\ members' = members \cup {Row(r, read[r].household, req[r].user, "member")}
  /\ Goto(r, "done")
  /\ UNCHANGED <<households, invitations, read>>

(* removeMember *)

RemoveMember(r) ==
  /\ At(r, "remove", "write")
  /\ members' = {m \in members : m.household # req[r].at \/ m.user # req[r].target}
  /\ Goto(r, "done")
  /\ UNCHANGED <<households, invitations, read>>

(* updateMemberRole *)

\* Mutant: who is not there is added.
FindOrMakeMember(r) ==
  /\ At(r, "setRole", "find")
  /\ \/ \E m \in members :
          /\ m.household = req[r].at /\ m.user = req[r].target
          /\ read' = [read EXCEPT ![r] = m]
     \/ /\ ~IsMember(req[r].at, req[r].target)
        /\ read' = [read EXCEPT ![r] = Row(r, req[r].at, req[r].target, "member")]
  /\ Goto(r, "write")
  /\ UNCHANGED tables

FindMember(r) ==
  /\ At(r, "setRole", "find")
  /\ \/ \E m \in members :
          /\ m.household = req[r].at /\ m.user = req[r].target
          /\ read' = [read EXCEPT ![r] = m]
          /\ Goto(r, "write")
     \/ /\ ~IsMember(req[r].at, req[r].target)
        /\ Goto(r, "refused")
        /\ UNCHANGED read
  /\ UNCHANGED tables

SaveRole(r) ==
  /\ At(r, "setRole", "write")
  /\ req[r].at \in households
  /\ members' = {m \in members : m.id # read[r].id}
                  \cup {[read[r] EXCEPT !.role = req[r].role]}
  /\ Goto(r, "done")
  /\ UNCHANGED <<households, invitations, read>>

\* A statement fails (as it must on a household that is gone) or the process
\* dies between two writes.  Before the first write it is as if refused.
CutOff(r) ==
  /\ r \in Came /\ req[r].pc \in {"look", "join"}
  /\ Goto(r, "cutOff")
  /\ UNCHANGED <<tables, read>>

\* The foreign key of the first row it writes.
HouseholdGone(r) ==
  /\ r \in Came /\ req[r].pc = "write"
  /\ \/ req[r].op \in {"invite", "setRole"} /\ req[r].at \notin households
     \/ req[r].op = "accept" /\ read[r].household \notin households
  /\ Goto(r, "refused")
  /\ UNCHANGED <<tables, read>>

-----------------------------------------------------------------------------
Serve(r) ==
  \/ Arrive(r) \/ RequireAdmin(r)
  \/ SaveHousehold(r) \/ SaveAdmin(r)
  \/ GetHousehold(r) \/ SaveName(r)
  \/ DeleteHousehold(r)
  \/ SaveInvitation(r)
  \/ FindValidInvitation(r) \/ MarkUsed(r) \/ LookForMember(r) \/ SaveMember(r)
  \/ RemoveMember(r)
  \/ FindMember(r) \/ SaveRole(r)
  \/ HouseholdGone(r)

Next == \E r \in Request : Serve(r) \/ CutOff(r)

Spec == Init /\ [][Next]_vars

-----------------------------------------------------------------------------
(* Properties.  Requests that run one after the other keep what the service  *)
(* is for; each anomaly needs a certain pair of requests to overlap, or a    *)
(* request to be cut off.                                                    *)

Overlap(r, s) == r # s /\ r \notin req[s].after /\ s \notin req[r].after

Asks(ops, h) == {r \in Came : req[r].op \in ops /\ req[r].at = h}
Done(r) == req[r].pc = "done"

\* A rename that has read the household inserts it again after its deletion.
Reopened(h) == \E r \in Asks({"rename"}, h), d \in Asks({"delete"}, h) : Overlap(r, d)

FounderOf(h) == IF h = Home THEN Founder ELSE req[h].user

\* Nobody is a member who has neither made the household nor been invited to it
\* and accepted (docs/services.md:138), whatever overlaps with what, unless the
\* household was reopened.  And an invitation that is used up has made its user a
\* member, who may have been removed since; or the request that has used it is at
\* work or was cut off.
MembersWereInvited ==
  /\ \A m \in members :
       \/ m.user = FounderOf(m.household)
       \/ \E i \in invitations : i.household = m.household /\ i.user = m.user /\ i.used
       \/ Reopened(m.household)
  /\ \A i \in invitations :
       i.used =>
         \/ IsMember(i.household, i.user)
         \/ \E r \in Asks({"remove"}, i.household) : req[r].target = i.user /\ Done(r)
         \/ \E r \in Asks({"accept"}, i.token) : req[r].pc \in {"look", "join", "cutOff"}

\* A user has one membership in a household, unless an accept or a change of role
\* has overlapped with what adds or deletes memberships.
OneMembership ==
  \A m, n \in members :
    m.household = n.household /\ m.user = n.user =>
      \/ m = n
      \/ \E r, s \in Came :
           /\ Overlap(r, s)
           /\ req[r].op \in {"accept", "setRole"} /\ req[r].target = m.user
           /\ req[s].op \in {"accept", "remove", "delete"}

\* Who was removed comes back by an invitation only, or by a change of role that
\* has overlapped with the removal and saves what it read before.
RemovedStaysOut ==
  \A h \in households : \A r \in Asks({"remove"}, h) :
    Done(r) /\ IsMember(h, req[r].target) =>
      \E a \in Came :
        /\ req[a].target = req[r].target
        /\ \/ req[a].op = "accept" /\ a \notin req[r].after
           \/ req[a].op = "setRole" /\ Overlap(a, r)

\* What belongs to a household goes with it, and it does not come back, unless a
\* rename has overlapped with the deletion.
ClosedForGood ==
  /\ \A row \in members \cup invitations : row.household \in households
  /\ \A h \in households : (\E d \in Asks({"delete"}, h) : Done(d)) => Reopened(h)

\* A household that is complete has an admin (docs/services.md:152 has it deleted
\* with its last one), unless an admin has removed or demoted himself, or two
\* operations of admins have overlapped.
AdminOps == {"remove", "setRole", "delete", "rename"}
AdminRemains ==
  \A h \in households :
    \/ \E u \in User : IsAdmin(h, u)
    \/ h \in Request /\ req[h].pc \in {"join", "cutOff"}
    \/ \E r \in Asks({"remove", "setRole"}, h) : req[r].target = req[r].user
    \/ \E r, s \in Asks(AdminOps, h) : Overlap(r, s)
=============================================================================
