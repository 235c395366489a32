----------------------- MODULE HouseholdService_proofs -----------------------
(***************************************************************************)
(* The promises of household-service for any number of users, households   *)
(* and requests that interleave at every await.                            *)
(***************************************************************************)
EXTENDS HouseholdService, TLAPS

-----------------------------------------------------------------------------
(* The inductive invariant *)

\* What a request is about, and whom it may have overlapped with.
RequestInv ==
  \A r \in Came :
    /\ req[r].after \subseteq Over
    /\ req[r].pc = "check" => req[r].op \notin {"create", "accept"}
    /\ req[r].op = "accept" => req[r].target = req[r].user
    /\ req[r].op \notin {"create", "accept"} =>
         req[r].at = Home \/ (req[r].at \in Came /\ req[req[r].at].op = "create")

ReadsInvitation(r) ==
  r \in Came /\ req[r].op = "accept" /\ req[r].pc \in {"write", "look", "join"}
ReadsMember(r) == At(r, "setRole", "write")

\* Rows, and what was read of a row that may be gone by now.
KnownMembers == members \cup {read[r] : r \in {s \in Request : ReadsMember(s)}}
KnownInvitations ==
  invitations \cup {read[r] : r \in {s \in Request : ReadsInvitation(s)}}

ReadInv ==
  /\ \A r \in Request :
       ReadsInvitation(r) =>
         /\ read[r] \in Invitation
         /\ read[r].token = req[r].at /\ read[r].user = req[r].user
  /\ \A r \in Request :
       ReadsMember(r) =>
         /\ read[r] \in Member
         /\ read[r].household = req[r].at /\ read[r].user = req[r].target

Created == {Home} \cup {c \in Came : req[c].op = "create"}

\* An id names one membership, a token one invitation, for ever.
KeyInv ==
  /\ \A m, n \in KnownMembers :
       m.id = n.id => m.household = n.household /\ m.user = n.user
  /\ \A m, n \in members : m.id = n.id => m = n
  /\ \A m \in KnownMembers :
       /\ m.household \in Created
       /\ m.id \in {Home, Guest} \/ (m.id \in Came /\ Done(m.id))
  /\ \A i, j \in KnownInvitations :
       i.token = j.token => i.household = j.household /\ i.user = j.user
  /\ \A i \in KnownInvitations :
       /\ i.household \in Created
       /\ i.token = Home \/ (i.token \in Came /\ Done(i.token))
  /\ households \subseteq Created

\* Before a household has its admin nobody gets at it.
Unfinished(c) == c \in Came /\ req[c].op = "create" /\ req[c].pc \in {"write", "join"}
NewInv ==
  \A c \in Request :
    Unfinished(c) =>
      /\ \A row \in KnownMembers \cup KnownInvitations : row.household # c
      /\ \A s \in Came :
           req[s].op \notin {"create", "accept"} /\ req[s].at = c
             => req[s].pc \in {"check", "refused"}
      /\ req[c].pc = "join" => c \in households

\* Whoever is about to write a household's name has seen it, and if it is gone
\* its deletion has overlapped.
RenameInv ==
  \A r \in Request :
    At(r, "rename", "write") => req[r].at \in households \/ Reopened(req[r].at)

Closed ==
  /\ \A row \in members \cup invitations : row.household \in households
  /\ \A h \in households, d \in Came :
       req[d].op = "delete" /\ req[d].at = h /\ Done(d) => Reopened(h)

\* Two operations have overlapped that can make a second membership of u.
Doubted(u) ==
  \E r, s \in Came :
    /\ Overlap(r, s)
    /\ req[r].op \in {"accept", "setRole"} /\ req[r].target = u
    /\ req[s].op \in {"accept", "remove", "delete"}

\* The check of an accept, and the row a change of role has read, are still good.
FreshInv ==
  /\ \A r \in Request :
       At(r, "accept", "join") /\ IsMember(read[r].household, req[r].user)
         => Doubted(req[r].user)
  /\ \A r \in Request :
       ReadsMember(r) => (\E m \in members : m.id = read[r].id) \/ Doubted(req[r].target)

Single ==
  \A m, n \in members :
    m.household = n.household /\ m.user = n.user => m = n \/ Doubted(m.user)

\* What has brought back whom r has removed.
Returned(r) ==
  \E a \in Came :
    /\ req[a].target = req[r].target
    /\ \/ req[a].op = "accept" /\ a \notin req[r].after
       \/ req[a].op = "setRole" /\ Overlap(a, r)

Removed(r, h, u) ==
  r \in Came /\ req[r].op = "remove" /\ Done(r) /\ req[r].at = h /\ req[r].target = u

OutInv ==
  \A r \in Request :
    /\ \A h \in Created, u \in User : Removed(r, h, u) /\ IsMember(h, u) => Returned(r)
    /\ \A a \in Request :
         ReadsMember(a) /\ Removed(r, req[a].at, req[a].target) => Returned(r)

Invited(h, u) ==
  \/ u = FounderOf(h)
  \/ \E i \in invitations : i.household = h /\ i.user = u /\ i.used
  \/ Reopened(h)

\* Who is, or is about to be, a member has been invited, and who was is a member.
InvitedInv ==
  /\ \A m \in members : Invited(m.household, m.user)
  /\ \A r \in Request :
       At(r, "accept", "look") \/ At(r, "accept", "join") =>
         read[r].household \notin households \/ Invited(read[r].household, req[r].user)
  /\ \A r \in Request :
       ReadsMember(r) => req[r].at \notin households \/ Invited(req[r].at, req[r].target)

UsedInv ==
  \A i \in invitations :
    i.used =>
      \/ IsMember(i.household, i.user)
      \/ \E r \in Came : Removed(r, i.household, i.user)
      \/ \E r \in Came : req[r].op = "accept" /\ req[r].at = i.token
                           /\ req[r].pc \in {"look", "join", "cutOff"}

\* Two operations of admins on h have overlapped.
Contested(h) == \E r, s \in Asks(AdminOps, h) : Overlap(r, s)

AdminInv ==
  /\ \A r \in Came :
       req[r].op \in AdminOps /\ req[r].pc \in {"find", "write"}
         => IsAdmin(req[r].at, req[r].user) \/ Contested(req[r].at)
  /\ AdminRemains

IInv ==
  /\ TypeOK /\ RequestInv /\ ReadInv /\ KeyInv /\ NewInv
  /\ RenameInv /\ Closed
  /\ FreshInv /\ Single
  /\ OutInv
  /\ InvitedInv /\ UsedInv
  /\ AdminInv

-----------------------------------------------------------------------------
(* Requests: what they ask for stays, and so does every overlap *)

KeepsAsking ==
  /\ Came \subseteq Came'
  /\ \A s \in Came :
       /\ req'[s].op = req[s].op /\ req'[s].user = req[s].user
       /\ req'[s].at = req[s].at /\ req'[s].target = req[s].target
       /\ req'[s].after = req[s].after
       /\ s \in Over => s \in Over' /\ req'[s] = req[s]

\* A step within a request moves its own program counter.
LEMMA Moves ==
  ASSUME TypeOK, NEW r \in Came, NEW step, Goto(r, step), req[r].pc # step,
         step \in {"find", "write", "look", "join", "done", "refused", "cutOff"}
  PROVE  /\ Came' = Came
         /\ \A s \in Came : s # r => req'[s] = req[s]
         /\ req'[r] = [req[r] EXCEPT !.pc = step] /\ req'[r] \in Asked
<1>1. r \in Request /\ req[r] \in Asked
  BY DEF Came, TypeOK
<1>2. req'[r] = [req[r] EXCEPT !.pc = step] /\ \A s \in Request : s # r => req'[s] = req[s]
  BY <1>1 DEF Goto, TypeOK
<1>3. req'[r] \in Asked
  BY <1>1, <1>2 DEF Asked
<1>4. QED
  BY <1>1, <1>2, <1>3, NoneAssumption DEF Came

\* Every step of a request that has come but its first moves it on.
LEMMA StepMoves ==
  ASSUME TypeOK, NEW r \in Request, Serve(r) \/ CutOff(r), ~Arrive(r)
  PROVE  /\ r \in InFlight
         /\ Came' = Came
         /\ \A s \in Came : s # r => req'[s] = req[s]
         /\ req'[r] \in Asked
         /\ \E step \in {"find", "write", "look", "join", "done", "refused", "cutOff"} :
              step # req[r].pc /\ req'[r] = [req[r] EXCEPT !.pc = step]
<1> DEFINE Steps == {"find", "write", "look", "join", "done", "refused", "cutOff"}
<1>1. r \in Came /\ req[r].pc \in {"check", "find", "write", "look", "join"}
  BY DEF Serve, RequireAdmin, SaveHousehold, SaveAdmin, GetHousehold, SaveName,
         DeleteHousehold, SaveInvitation, FindValidInvitation, MarkUsed, LookForMember,
         SaveMember, RemoveMember, FindMember, SaveRole, HouseholdGone, CutOff, At
<1>2. \E step \in Steps : step # req[r].pc /\ Goto(r, step)
  BY <1>1
  DEF Serve, RequireAdmin, SaveHousehold, SaveAdmin, GetHousehold, SaveName,
      DeleteHousehold, SaveInvitation, FindValidInvitation, MarkUsed, LookForMember,
      SaveMember, RemoveMember, FindMember, SaveRole, HouseholdGone, CutOff, At,
      AfterCheck
<1>3. PICK step \in Steps : step # req[r].pc /\ Goto(r, step)
  BY <1>2
<1>4. QED
  BY <1>1, <1>3, Moves DEF InFlight, Over

\* An arrival adds a request that nobody has overlapped with but those in flight.
LEMMA ArriveAdds ==
  ASSUME TypeOK, NEW r \in Request, Arrive(r)
  PROVE  /\ r \notin Came /\ Came' = Came \cup {r} /\ Over' = Over
         /\ \A s \in Came : req'[s] = req[s]
         /\ req'[r] \in Asked /\ req'[r].after = Over
         /\ req'[r].pc = CASE req'[r].op = "create" -> "write"
                           [] req'[r].op = "accept" -> "find"
                           [] OTHER                 -> "check"
         /\ req'[r].op = "accept" => req'[r].target = req'[r].user
         /\ req'[r].op \notin {"create", "accept"} =>
              req'[r].at = Home \/ (req'[r].at \in Came /\ req[req'[r].at].op = "create")
         /\ UNCHANGED <<tables, read>>
<1>1. PICK w \in Wanted, at \in {Home} \cup Came :
        /\ at \in Came => req[at].op = IF w.op = "accept" THEN "invite" ELSE "create"
        /\ w.op = "create" => at = Home
        /\ req' = [req EXCEPT ![r] =
             [op |-> w.op, user |-> w.user, at |-> at, target |-> w.target, role |-> w.role,
              after |-> Over,
              pc |-> CASE w.op = "create" -> "write"
                       [] w.op = "accept" -> "find"
                       [] OTHER           -> "check"]]
  BY DEF Arrive
<1>2. w \in [op: Op, user: User, target: User, role: MemberRole]
      /\ (w.op = "accept" => w.target = w.user)
  BY HouseholdAssumption
<1>3. at \in Id /\ Over \subseteq Request
  BY DEF Id, Came, Over
<1> DEFINE first == CASE w.op = "create" -> "write"
                      [] w.op = "accept" -> "find"
                      [] OTHER           -> "check"
<1>4. first \in {"write", "find", "check"}
  OBVIOUS
<1>5. req'[r] = [op |-> w.op, user |-> w.user, at |-> at, target |-> w.target,
                 role |-> w.role, after |-> Over, pc |-> first]
  BY <1>1 DEF TypeOK
<1>6. req'[r] \in Asked
  <2> HIDE DEF first
  <2> QED
    BY <1>2, <1>3, <1>4, <1>5 DEF Asked
<1>7. \A s \in Request : s # r => req'[s] = req[s]
  BY <1>1 DEF TypeOK
<1>8. r \notin Came /\ Came' = Came \cup {r}
  BY <1>6, <1>7, NoneAssumption DEF Arrive, Came
<1>9. Over' = Over
  BY <1>5, <1>7, <1>8, <1>4 DEF Over, Came
<1>10. QED
  BY <1>1, <1>2, <1>5, <1>6, <1>7, <1>8, <1>9 DEF Arrive, Came

LEMMA AskingKept == TypeOK /\ [Next]_vars => KeepsAsking
<1> SUFFICES ASSUME TypeOK, [Next]_vars PROVE KeepsAsking
  OBVIOUS
<1>1. ASSUME NEW r \in Request, Arrive(r) PROVE KeepsAsking
  BY <1>1, ArriveAdds DEF KeepsAsking
<1>2. ASSUME NEW r \in Request, Serve(r) \/ CutOff(r), ~Arrive(r) PROVE KeepsAsking
  <2>1. r \in InFlight /\ req[r] \in Asked
    BY <1>2, StepMoves DEF InFlight, Came, TypeOK
  <2>2. Came' = Came /\ \A s \in Came : s # r => req'[s] = req[s]
    BY <1>2, StepMoves
  <2>3. PICK step \in {"find", "write", "look", "join", "done", "refused", "cutOff"} :
          req'[r] = [req[r] EXCEPT !.pc = step]
    BY <1>2, StepMoves
  <2>4. \A s \in Over : s \in Over' /\ req'[s] = req[s]
    BY <2>1, <2>2 DEF InFlight, Over
  <2>5. QED
    BY <2>1, <2>2, <2>3, <2>4 DEF KeepsAsking, Asked
<1>3. CASE UNCHANGED vars
  BY <1>3 DEF vars, KeepsAsking, Came, Over
<1>4. QED
  BY <1>1, <1>2, <1>3 DEF Next

-----------------------------------------------------------------------------
(* Types, and what requests have read *)

LEMMA TypeStep == TypeOK /\ ReadInv /\ [Next]_vars => TypeOK'
<1> SUFFICES ASSUME TypeOK, ReadInv, [Next]_vars PROVE TypeOK'
  OBVIOUS
<1>1. ASSUME NEW r \in Request, Arrive(r) PROVE TypeOK'
  <2>1. req'[r] \in Asked /\ UNCHANGED <<tables, read>>
    BY <1>1, ArriveAdds
  <2>2. \A s \in Request : s # r => req'[s] = req[s]
    BY <1>1 DEF Arrive, TypeOK
  <2>3. req' \in [Request -> Asked \cup {None}]
    BY <1>1, <2>1, <2>2 DEF Arrive, TypeOK
  <2>4. QED
    BY <2>1, <2>3 DEF TypeOK, tables
<1>2. ASSUME NEW r \in Request, Serve(r) \/ CutOff(r), ~Arrive(r) PROVE TypeOK'
  <2>1. r \in Came /\ req[r] \in Asked
    BY <1>2, StepMoves DEF InFlight, Came, TypeOK
  <2>2. req' \in [Request -> Asked \cup {None}]
    <3>1. req'[r] \in Asked
      BY <1>2, StepMoves
    <3>2. \E step \in {"find", "write", "look", "join", "done", "refused", "cutOff"} :
            Goto(r, step)
      BY <1>2
      DEF Serve, RequireAdmin, SaveHousehold, SaveAdmin, GetHousehold, SaveName,
          DeleteHousehold, SaveInvitation, FindValidInvitation, MarkUsed, LookForMember,
          SaveMember, RemoveMember, FindMember, SaveRole, HouseholdGone, CutOff, AfterCheck, At
    <3>3. QED
      BY <3>1, <3>2 DEF TypeOK, Goto
  <2>3. req[r].at \in Id /\ req[r].user \in User /\ req[r].target \in User
        /\ req[r].role \in MemberRole /\ r \in Id
    BY <2>1 DEF Asked, Id
  <2>4. households' \subseteq Id
    BY <1>2, <2>3
    DEF Serve, RequireAdmin, SaveHousehold, SaveAdmin, GetHousehold, SaveName,
        DeleteHousehold, SaveInvitation, FindValidInvitation, MarkUsed, LookForMember,
        SaveMember, RemoveMember, FindMember, SaveRole, HouseholdGone, CutOff,
        tables, TypeOK
  <2>5. members' \subseteq Member
    <3>1. CASE SaveAdmin(r)
      BY <2>3, <3>1 DEF SaveAdmin, TypeOK, Member, Row, MemberRole
    <3>2. CASE SaveMember(r)
      <4>1. read[r].household \in Id
        BY <3>2, <2>1 DEF SaveMember, At, ReadInv, ReadsInvitation, Invitation
      <4>2. QED
        BY <2>3, <3>2, <4>1 DEF SaveMember, TypeOK, Member, Row, MemberRole
    <3>3. CASE SaveRole(r)
      <4>1. read[r] \in Member
        BY <3>3 DEF SaveRole, ReadInv, ReadsMember
      <4>2. [read[r] EXCEPT !.role = req[r].role] \in Member
        BY <2>3, <4>1 DEF Member
      <4>3. QED
        BY <3>3, <4>2 DEF SaveRole, TypeOK
    <3>4. CASE members' \subseteq members
      BY <3>4 DEF TypeOK
    <3>5. QED
      BY <1>2, <3>1, <3>2, <3>3, <3>4
      DEF Serve, RequireAdmin, SaveHousehold, GetHousehold, SaveName,
          DeleteHousehold, SaveInvitation, FindValidInvitation, MarkUsed, LookForMember,
          RemoveMember, FindMember, HouseholdGone, CutOff, tables
  <2>6. invitations' \subseteq Invitation
    <3>1. CASE SaveInvitation(r)
      <4>1. Sent(r, req[r].at, req[r].target, FALSE) \in Invitation
        BY <2>3 DEF Sent, Invitation
      <4>2. QED
        BY <3>1, <4>1 DEF SaveInvitation, TypeOK
    <3>2. CASE MarkUsed(r)
      <4>1. read[r] \in Invitation
        BY <3>2, <2>1 DEF MarkUsed, At, ReadInv, ReadsInvitation
      <4>2. [read[r] EXCEPT !.used = TRUE] \in Invitation
        BY <4>1 DEF Invitation
      <4>3. QED
        BY <3>2, <4>2 DEF MarkUsed, TypeOK
    <3>3. CASE invitations' \subseteq invitations
      BY <3>3 DEF TypeOK
    <3>4. QED
      BY <1>2, <3>1, <3>2, <3>3
      DEF Serve, RequireAdmin, SaveHousehold, SaveAdmin, GetHousehold, SaveName,
          DeleteHousehold, FindValidInvitation, LookForMember, SaveMember,
          RemoveMember, FindMember, SaveRole, HouseholdGone, CutOff, tables
  <2>7. read' \in [Request -> Member \cup Invitation \cup {None}]
    <3>1. CASE \E row \in members \cup invitations : read' = [read EXCEPT ![r] = row]
      BY <3>1 DEF TypeOK
    <3>2. CASE UNCHANGED read
      BY <3>2 DEF TypeOK
    <3>3. QED
      BY <1>2, <3>1, <3>2
      DEF Serve, RequireAdmin, SaveHousehold, SaveAdmin, GetHousehold, SaveName,
          DeleteHousehold, SaveInvitation, FindValidInvitation, MarkUsed, LookForMember,
          SaveMember, RemoveMember, FindMember, SaveRole, HouseholdGone, CutOff, ForToken
  <2>8. QED
    BY <2>2, <2>4, <2>5, <2>6, <2>7 DEF TypeOK
<1>3. CASE UNCHANGED vars
  BY <1>3 DEF vars, TypeOK
<1>4. QED
  BY <1>1, <1>2, <1>3 DEF Next

LEMMA RequestStep == TypeOK /\ RequestInv /\ [Next]_vars => RequestInv'
<1> SUFFICES ASSUME TypeOK, RequestInv, [Next]_vars PROVE RequestInv'
  OBVIOUS
<1>1. Over \subseteq Over'
  BY AskingKept DEF KeepsAsking, Over
<1>2. ASSUME NEW r \in Request, Arrive(r) PROVE RequestInv'
  <2>1. Came' = Came \cup {r} /\ r \notin Came /\ \A s \in Came : req'[s] = req[s]
    BY <1>2, ArriveAdds
  <2>2. /\ req'[r].after = Over
        /\ req'[r].pc = "check" => req'[r].op \notin {"create", "accept"}
        /\ req'[r].op = "accept" => req'[r].target = req'[r].user
        /\ req'[r].op \notin {"create", "accept"} =>
             req'[r].at = Home \/ (req'[r].at \in Came /\ req[req'[r].at].op = "create")
    BY <1>2, ArriveAdds
  <2>3. QED
    BY <1>1, <2>1, <2>2 DEF RequestInv
<1>3. ASSUME NEW r \in Request, Serve(r) \/ CutOff(r), ~Arrive(r) PROVE RequestInv'
  <2>1. Came' = Came /\ \A s \in Came : s # r => req'[s] = req[s]
    BY <1>3, StepMoves
  <2>2. req'[r].pc # "check"
    BY <1>3, StepMoves DEF Asked, InFlight, Came, TypeOK
  <2>3. QED
    BY <1>1, <2>1, <2>2, AskingKept DEF RequestInv, KeepsAsking
<1>4. CASE UNCHANGED vars
  BY <1>4 DEF vars, RequestInv, Came, Over
<1>5. QED
  BY <1>2, <1>3, <1>4 DEF Next

\* A step of one request leaves what the others have read; what it reads is a row.
LEMMA ReadsMove ==
  ASSUME TypeOK, RequestInv, NEW r \in Request, Serve(r) \/ CutOff(r)
  PROVE  /\ \A s \in Request :
              s # r => /\ read'[s] = read[s]
                       /\ ReadsInvitation(s)' <=> ReadsInvitation(s)
                       /\ ReadsMember(s)' <=> ReadsMember(s)
         /\ ReadsInvitation(r)' =>
              \/ /\ ReadsInvitation(r) /\ read'[r] = read[r]
                 /\ MarkUsed(r) \/ LookForMember(r)
              \/ FindValidInvitation(r) /\ read'[r] \in ForToken(r)
                   /\ read'[r].user = req[r].user
         /\ ReadsMember(r)' =>
              /\ FindMember(r) /\ read'[r] \in members
              /\ read'[r].household = req[r].at /\ read'[r].user = req[r].target
<1>1. CASE Arrive(r)
  <2>1. read' = read /\ Came' = Came \cup {r} /\ r \notin Came
        /\ \A s \in Came : req'[s] = req[s]
    BY <1>1, ArriveAdds
  <2>2. req'[r].op = "accept" => req'[r].pc = "find"
    BY <1>1, ArriveAdds
  <2>3. req'[r].op = "setRole" => req'[r].pc = "check"
    BY <1>1, ArriveAdds
  <2>4. QED
    BY <2>1, <2>2, <2>3 DEF ReadsInvitation, ReadsMember, At
<1>2. CASE ~Arrive(r)
  <2>1. /\ r \in Came /\ req[r] \in Asked /\ Came' = Came
        /\ \A s \in Came : s # r => req'[s] = req[s]
    BY <1>2, StepMoves DEF InFlight, Came, TypeOK
  <2>2. req'[r].op = req[r].op
    BY <2>1, AskingKept DEF KeepsAsking, Next
  <2>3. \A s \in Request : s # r => read'[s] = read[s]
    <3>1. read' = read \/ \E row : read' = [read EXCEPT ![r] = row]
      BY <1>2
      DEF Serve, RequireAdmin, SaveHousehold, SaveAdmin, GetHousehold, SaveName,
          DeleteHousehold, SaveInvitation, FindValidInvitation, MarkUsed, LookForMember,
          SaveMember, RemoveMember, FindMember, SaveRole, HouseholdGone, CutOff
    <3>2. QED
      BY <3>1 DEF TypeOK
  <2>4. \A s \in Request :
          s # r => /\ ReadsInvitation(s)' <=> ReadsInvitation(s)
                   /\ ReadsMember(s)' <=> ReadsMember(s)
    BY <2>1 DEF ReadsInvitation, ReadsMember, At, Came
  <2>5. ASSUME NEW step, Goto(r, step) PROVE req'[r].pc = step
    BY <2>1, <2>5 DEF Goto, TypeOK, Asked
  <2>6. ASSUME ReadsInvitation(r)'
        PROVE  \/ /\ ReadsInvitation(r) /\ read'[r] = read[r]
                  /\ MarkUsed(r) \/ LookForMember(r)
               \/ FindValidInvitation(r) /\ read'[r] \in ForToken(r)
                   /\ read'[r].user = req[r].user
    <3>1. req[r].op = "accept" /\ req'[r].pc \in {"write", "look", "join"}
      BY <2>6, <2>2 DEF ReadsInvitation
    <3>2. req[r].pc # "check"
      BY <2>1, <3>1 DEF RequestInv
    <3>3. MarkUsed(r) \/ LookForMember(r) \/ FindValidInvitation(r)
      BY <1>2, <2>5, <3>1, <3>2
      DEF Serve, RequireAdmin, SaveHousehold, SaveAdmin, GetHousehold, SaveName,
          DeleteHousehold, SaveInvitation, FindValidInvitation, MarkUsed, LookForMember,
          SaveMember, RemoveMember, FindMember, SaveRole, HouseholdGone, CutOff, At
    <3>4. CASE FindValidInvitation(r)
      BY <2>5, <3>1, <3>4 DEF FindValidInvitation, TypeOK
    <3>5. CASE MarkUsed(r) \/ LookForMember(r)
      BY <3>5 DEF MarkUsed, LookForMember, ReadsInvitation, At
    <3>6. QED
      BY <3>3, <3>4, <3>5
  <2>7. ASSUME ReadsMember(r)'
        PROVE  /\ FindMember(r) /\ read'[r] \in members
               /\ read'[r].household = req[r].at /\ read'[r].user = req[r].target
    <3>1. req[r].op = "setRole" /\ req'[r].pc = "write"
      BY <2>7, <2>2 DEF ReadsMember, At
    <3>2. FindMember(r)
      BY <1>2, <2>5, <3>1
      DEF Serve, RequireAdmin, SaveHousehold, SaveAdmin, GetHousehold, SaveName,
          DeleteHousehold, SaveInvitation, FindValidInvitation, MarkUsed, LookForMember,
          SaveMember, RemoveMember, FindMember, SaveRole, HouseholdGone, CutOff, At,
          AfterCheck
    <3>3. QED
      BY <2>5, <3>1, <3>2 DEF FindMember, TypeOK
  <2>8. QED
    BY <2>3, <2>4, <2>6, <2>7
<1>3. QED
  BY <1>1, <1>2

LEMMA ReadStep == TypeOK /\ RequestInv /\ ReadInv /\ [Next]_vars => ReadInv'
<1> SUFFICES ASSUME TypeOK, RequestInv, ReadInv, [Next]_vars PROVE ReadInv'
  OBVIOUS
<1>1. ASSUME NEW r \in Request, Serve(r) \/ CutOff(r) PROVE ReadInv'
  <2>1. ASSUME NEW s \in Request, ReadsInvitation(s)'
        PROVE  (read[s] \in Invitation /\ read[s].token = req[s].at
                  /\ read[s].user = req[s].user)'
    <3>1. CASE s # r
      BY <1>1, <2>1, <3>1, ReadsMove, AskingKept
      DEF ReadInv, KeepsAsking, Next, ReadsInvitation
    <3>2. CASE s = r
      BY <1>1, <2>1, <3>2, ReadsMove, AskingKept
      DEF ReadInv, KeepsAsking, Next, ReadsInvitation, ForToken, TypeOK,
          FindValidInvitation, At
    <3>3. QED
      BY <3>1, <3>2
  <2>2. ASSUME NEW s \in Request, ReadsMember(s)'
        PROVE  (read[s] \in Member /\ read[s].household = req[s].at
                  /\ read[s].user = req[s].target)'
    <3>1. CASE s # r
      BY <1>1, <2>2, <3>1, ReadsMove, AskingKept
      DEF ReadInv, KeepsAsking, Next, ReadsMember, At
    <3>2. CASE s = r
      BY <1>1, <2>2, <3>2, ReadsMove, AskingKept
      DEF KeepsAsking, Next, TypeOK, FindMember, At
    <3>3. QED
      BY <3>1, <3>2
  <2>3. QED
    BY <2>1, <2>2 DEF ReadInv
<1>2. CASE UNCHANGED vars
  BY <1>2 DEF vars, ReadInv, ReadsInvitation, ReadsMember, At, Came
<1>3. QED
  BY <1>1, <1>2 DEF Next

\* What is known after a step is a row, or was known before.
LEMMA KnownMove ==
  ASSUME TypeOK, RequestInv, [Next]_vars
  PROVE  /\ KnownMembers' \subseteq members' \cup KnownMembers
         /\ KnownInvitations' \subseteq invitations' \cup KnownInvitations
<1>1. ASSUME NEW r \in Request, Serve(r) \/ CutOff(r), NEW s \in Request
      PROVE  /\ ReadsMember(s)' => read'[s] \in KnownMembers
             /\ ReadsInvitation(s)' => read'[s] \in KnownInvitations
  BY <1>1, ReadsMove DEF KnownMembers, KnownInvitations, ForToken
<1>2. ASSUME UNCHANGED vars, NEW s \in Request
      PROVE  /\ ReadsMember(s)' => read'[s] \in KnownMembers
             /\ ReadsInvitation(s)' => read'[s] \in KnownInvitations
  BY <1>2 DEF vars, KnownMembers, KnownInvitations, ReadsMember, ReadsInvitation, At, Came
<1>3. QED
  BY <1>1, <1>2 DEF Next, KnownMembers, KnownInvitations

-----------------------------------------------------------------------------
(* Keys *)

\* Which statements change which table.
LEMMA TablesMove ==
  ASSUME NEW r \in Request, Serve(r) \/ CutOff(r)
  PROVE  /\ \/ UNCHANGED members
            \/ SaveAdmin(r) \/ SaveMember(r) \/ SaveRole(r)
            \/ RemoveMember(r) \/ DeleteHousehold(r)
         /\ \/ UNCHANGED invitations
            \/ SaveInvitation(r) \/ MarkUsed(r) \/ DeleteHousehold(r)
         /\ \/ UNCHANGED households
            \/ SaveHousehold(r) \/ SaveName(r) \/ DeleteHousehold(r)
BY DEF Serve, Arrive, RequireAdmin, SaveHousehold, SaveAdmin, GetHousehold, SaveName,
       DeleteHousehold, SaveInvitation, FindValidInvitation, MarkUsed, LookForMember,
       SaveMember, RemoveMember, FindMember, SaveRole, HouseholdGone, CutOff, tables

\* The keys of a membership (and of an invitation) after a step are old, or named
\* after the request, which is done then and was not before.
LEMMA KeysMove ==
  ASSUME TypeOK, RequestInv, ReadInv, KeyInv, NEW r \in Request, Serve(r) \/ CutOff(r)
  PROVE  /\ \A m \in KnownMembers' :
              \/ \E n \in KnownMembers :
                   m.id = n.id /\ m.household = n.household /\ m.user = n.user
              \/ /\ m.id = r /\ m.household \in Created /\ Done(r)' /\ ~Done(r)
                 /\ r \in Came
                 /\ m.household = r \/ \E i \in KnownInvitations : i.household = m.household
                 /\ \A n \in members' \cup KnownMembers : n.id = r => n = m
         /\ \A i \in KnownInvitations' :
              \/ \E j \in KnownInvitations :
                   i.token = j.token /\ i.household = j.household /\ i.user = j.user
              \/ /\ i.token = r /\ i.household \in Created /\ Done(r)' /\ ~Done(r)
                 /\ r \in Came /\ At(r, "invite", "write") /\ i.household = req[r].at
                 /\ \A j \in invitations' \cup KnownInvitations : j.token = r => j = i
<1> DEFINE SameMember(m, n) == m.id = n.id /\ m.household = n.household /\ m.user = n.user
           SameInvitation(i, j) ==
             i.token = j.token /\ i.household = j.household /\ i.user = j.user
<1>1. [Next]_vars
  BY DEF Next
<1>2. ASSUME ~Done(r), r \in Came
      PROVE  /\ \A m \in KnownMembers : m.id # r
             /\ \A i \in KnownInvitations : i.token # r
  BY <1>2, HouseholdAssumption DEF KeyInv
<1>3. ASSUME NEW m \in members'
      PROVE  \/ \E n \in KnownMembers : SameMember(m, n)
             \/ /\ m.id = r /\ m.household \in Created /\ Done(r)' /\ ~Done(r)
                /\ r \in Came
                /\ m.household = r \/ \E i \in KnownInvitations : i.household = m.household
                /\ \A n \in members' \cup KnownMembers : n.id = r => n = m
  <2>1. CASE m \in members
    BY <2>1 DEF KnownMembers
  <2>2. CASE m \notin members /\ SaveAdmin(r)
    <3>1. r \in Came /\ ~Done(r) /\ r \in Created
      BY <2>2 DEF SaveAdmin, At, Done, Created
    <3>2. Done(r)'
      BY <2>2, <3>1, Moves DEF SaveAdmin, Done, TypeOK, Goto, Came, Asked, At
    <3>3. members' = members \cup {Row(r, r, req[r].user, "admin")}
      BY <2>2 DEF SaveAdmin
    <3>4. \A n \in KnownMembers : n.id # r
      BY <1>2, <3>1
    <3>5. QED
      BY <2>2, <3>1, <3>2, <3>3, <3>4 DEF Row, KnownMembers
  <2>3. CASE m \notin members /\ SaveMember(r)
    <3>0. read[r] \in KnownInvitations
      BY <2>3 DEF SaveMember, At, KnownInvitations, ReadsInvitation
    <3>1. r \in Came /\ ~Done(r) /\ read[r].household \in Created
      BY <2>3, <3>0 DEF SaveMember, At, Done, KeyInv
    <3>2. Done(r)'
      BY <2>3, <3>1, Moves DEF SaveMember, Done, TypeOK, Goto, Came, Asked, At
    <3>3. members' = members \cup {Row(r, read[r].household, req[r].user, "member")}
      BY <2>3 DEF SaveMember
    <3>4. \A n \in KnownMembers : n.id # r
      BY <1>2, <3>1
    <3>5. QED
      BY <2>3, <3>0, <3>1, <3>2, <3>3, <3>4 DEF Row, KnownMembers
  <2>4. CASE m \notin members /\ SaveRole(r)
    <3>1. ReadsMember(r)
      BY <2>4 DEF SaveRole, ReadsMember
    <3>2. read[r] \in Member /\ read[r] \in KnownMembers
      BY <3>1 DEF ReadInv, KnownMembers
    <3>3. m = [read[r] EXCEPT !.role = req[r].role]
      BY <2>4 DEF SaveRole
    <3>4. SameMember(m, read[r])
      BY <3>2, <3>3 DEF Member
    <3>5. QED
      BY <3>2, <3>4
  <2>5. QED
    BY <2>1, <2>2, <2>3, <2>4, TablesMove DEF RemoveMember, DeleteHousehold
<1>4. ASSUME NEW i \in invitations'
      PROVE  \/ \E j \in KnownInvitations : SameInvitation(i, j)
             \/ /\ i.token = r /\ i.household \in Created /\ Done(r)' /\ ~Done(r)
                /\ r \in Came /\ At(r, "invite", "write") /\ i.household = req[r].at
                /\ \A j \in invitations' \cup KnownInvitations : j.token = r => j = i
  <2>1. CASE i \in invitations
    BY <2>1 DEF KnownInvitations
  <2>2. CASE i \notin invitations /\ SaveInvitation(r)
    <3>1. r \in Came /\ ~Done(r) /\ req[r].at \in Created
      BY <2>2 DEF SaveInvitation, At, Done, KeyInv
    <3>2. Done(r)'
      BY <2>2, <3>1, Moves DEF SaveInvitation, Done, TypeOK, Goto, Came, Asked, At
    <3>3. invitations' = invitations \cup {Sent(r, req[r].at, req[r].target, FALSE)}
      BY <2>2 DEF SaveInvitation
    <3>4. \A j \in KnownInvitations : j.token # r
      BY <1>2, <3>1
    <3>5. i = Sent(r, req[r].at, req[r].target, FALSE)
      BY <2>2, <3>3
    <3>6. i.token = r /\ i.household = req[r].at
      BY <3>5 DEF Sent
    <3>7. \A j \in invitations' \cup KnownInvitations : j.token = r => j = i
      BY <3>3, <3>4, <3>5 DEF KnownInvitations
    <3>8. QED
      BY <2>2, <3>1, <3>2, <3>6, <3>7 DEF SaveInvitation
  <2>3. CASE i \notin invitations /\ MarkUsed(r)
    <3>1. ReadsInvitation(r)
      BY <2>3 DEF MarkUsed, ReadsInvitation, At
    <3>2. read[r] \in Invitation /\ read[r] \in KnownInvitations
      BY <3>1 DEF ReadInv, KnownInvitations
    <3>3. i = [read[r] EXCEPT !.used = TRUE]
      BY <2>3 DEF MarkUsed
    <3>4. SameInvitation(i, read[r])
      BY <3>2, <3>3 DEF Invitation
    <3>5. QED
      BY <3>2, <3>4
  <2>4. QED
    BY <2>1, <2>2, <2>3, TablesMove DEF DeleteHousehold
<1>5. QED
  BY <1>1, <1>3, <1>4, KnownMove

LEMMA KeyStep == TypeOK /\ RequestInv /\ ReadInv /\ KeyInv /\ [Next]_vars => KeyInv'
<1> SUFFICES ASSUME TypeOK, RequestInv, ReadInv, KeyInv, [Next]_vars PROVE KeyInv'
  OBVIOUS
<1>1. Created \subseteq Created' /\ \A s \in Came : s \in Came' /\ (Done(s) => Done(s)')
  BY AskingKept DEF KeepsAsking, Created, Done, Over
<1>2. ASSUME NEW r \in Request, Serve(r) \/ CutOff(r) PROVE KeyInv'
  <2>1. ASSUME NEW m \in KnownMembers', NEW n \in KnownMembers', m.id = n.id
        PROVE  m.household = n.household /\ m.user = n.user
    <3>1. ASSUME m.id = r, Done(r)', ~Done(r), r \in Came,
                 \A k \in members' \cup KnownMembers : k.id = r => k = m
          PROVE  m.household = n.household /\ m.user = n.user
      BY <2>1, <3>1, KnownMove
    <3>2. ASSUME n.id = r, Done(r)', ~Done(r), r \in Came,
                 \A k \in members' \cup KnownMembers : k.id = r => k = n
          PROVE  m.household = n.household /\ m.user = n.user
      BY <2>1, <3>2, KnownMove
    <3>3. QED
      BY <1>2, <2>1, <3>1, <3>2, KeysMove DEF KeyInv
  <2>2. ASSUME NEW i \in KnownInvitations', NEW j \in KnownInvitations', i.token = j.token
        PROVE  i.household = j.household /\ i.user = j.user
    <3>1. ASSUME i.token = r, Done(r)', ~Done(r), r \in Came,
                 \A k \in invitations' \cup KnownInvitations : k.token = r => k = i
          PROVE  i.household = j.household /\ i.user = j.user
      BY <2>2, <3>1, KnownMove
    <3>2. ASSUME j.token = r, Done(r)', ~Done(r), r \in Came,
                 \A k \in invitations' \cup KnownInvitations : k.token = r => k = j
          PROVE  i.household = j.household /\ i.user = j.user
      BY <2>2, <3>2, KnownMove
    <3>3. QED
      BY <1>2, <2>2, <3>1, <3>2, KeysMove DEF KeyInv
  <2>3. ASSUME NEW m \in members', NEW n \in members', m.id = n.id PROVE m = n
    <3>1. CASE SaveAdmin(r) \/ SaveMember(r)
      <4>1. r \in Came /\ ~Done(r)
        BY <3>1 DEF SaveAdmin, SaveMember, At, Done
      <4>2. \A k \in members : k.id # r
        BY <4>1, HouseholdAssumption DEF KeyInv, KnownMembers
      <4>3. \E row : row.id = r /\ members' = members \cup {row}
        BY <3>1 DEF SaveAdmin, SaveMember, Row
      <4>4. QED
        BY <2>3, <4>2, <4>3 DEF KeyInv
    <3>2. CASE SaveRole(r)
      <4>1. read[r] \in Member
        BY <3>2 DEF SaveRole, ReadInv, ReadsMember
      <4>2. [read[r] EXCEPT !.role = req[r].role].id = read[r].id
        BY <4>1 DEF Member
      <4>3. QED
        BY <2>3, <3>2, <4>2 DEF SaveRole, KeyInv
    <3>3. CASE members' \subseteq members
      BY <2>3, <3>3 DEF KeyInv
    <3>4. QED
      BY <1>2, <3>1, <3>2, <3>3, TablesMove DEF RemoveMember, DeleteHousehold
  <2>4. ASSUME NEW m \in KnownMembers'
        PROVE  /\ m.household \in Created'
               /\ m.id \in {Home, Guest} \/ (m.id \in Came' /\ Done(m.id)')
    BY <1>1, <1>2, KeysMove DEF KeyInv
  <2>5. ASSUME NEW i \in KnownInvitations'
        PROVE  /\ i.household \in Created'
               /\ i.token = Home \/ (i.token \in Came' /\ Done(i.token)')
    BY <1>1, <1>2, KeysMove DEF KeyInv
  <2>6. households' \subseteq Created'
    <3>1. CASE SaveHousehold(r)
      BY <1>1, <3>1 DEF SaveHousehold, At, Created, KeyInv
    <3>2. CASE SaveName(r)
      BY <1>1, <3>2 DEF SaveName, At, Created, RequestInv, KeyInv
    <3>3. CASE households' \subseteq households
      BY <1>1, <3>3 DEF KeyInv
    <3>4. QED
      BY <1>2, <3>1, <3>2, <3>3, TablesMove DEF DeleteHousehold
  <2>7. QED
    BY <2>1, <2>2, <2>3, <2>4, <2>5, <2>6 DEF KeyInv, Done
<1>3. CASE UNCHANGED vars
  BY <1>3 DEF vars, KeyInv, KnownMembers, KnownInvitations, ReadsMember, ReadsInvitation,
              At, Came, Created, Done
<1>4. QED
  BY <1>2, <1>3 DEF Next

-----------------------------------------------------------------------------
(* New households *)

LEMMA NewStep ==
  TypeOK /\ RequestInv /\ ReadInv /\ KeyInv /\ NewInv /\ [Next]_vars => NewInv'
<1> SUFFICES ASSUME TypeOK, RequestInv, ReadInv, KeyInv, NewInv, [Next]_vars
             PROVE  NewInv'
  OBVIOUS
<1>1. ASSUME NEW r \in Request, Arrive(r) PROVE NewInv'
  <2> SUFFICES ASSUME NEW c \in Request, Unfinished(c)'
               PROVE  (/\ \A row \in KnownMembers \cup KnownInvitations : row.household # c
                       /\ \A s \in Came :
                            req[s].op \notin {"create", "accept"} /\ req[s].at = c
                              => req[s].pc \in {"check", "refused"}
                       /\ req[c].pc = "join" => c \in households)'
    BY DEF NewInv
  <2>1. /\ r \notin Came /\ Came' = Came \cup {r} /\ UNCHANGED <<tables, read>>
        /\ \A s \in Came : req'[s] = req[s]
        /\ req'[r].op = "create" => req'[r].pc = "write"
        /\ req'[r].op \notin {"create", "accept"} => req'[r].pc = "check"
    BY <1>1, ArriveAdds
  <2>2. members' = members /\ invitations' = invitations /\ households' = households
    BY <2>1 DEF tables
  <2>3. KnownMembers' \subseteq KnownMembers /\ KnownInvitations' \subseteq KnownInvitations
    BY <2>2, KnownMove DEF KnownMembers, KnownInvitations
  <2>4. CASE c \in Came
    BY <2>1, <2>2, <2>3, <2>4 DEF NewInv, Unfinished
  <2>5. CASE c = r
    <3>1. r \notin Created
      BY <2>1, HouseholdAssumption DEF Created
    <3>2. \A s \in Came : req[s].op \notin {"create", "accept"} => req[s].at # r
      BY <2>1, HouseholdAssumption DEF RequestInv
    <3>3. QED
      BY <2>1, <2>3, <2>5, <3>1, <3>2 DEF KeyInv, Unfinished
  <2>6. QED
    BY <2>1, <2>4, <2>5 DEF Unfinished
<1>2. ASSUME NEW r \in Request, Serve(r) \/ CutOff(r), ~Arrive(r) PROVE NewInv'
  <2>1. /\ r \in Came /\ Came' = Came /\ req[r] \in Asked
        /\ req[r].pc \notin {"done", "refused", "cutOff"}
        /\ \A s \in Came : s # r => req'[s] = req[s]
    BY <1>2, StepMoves DEF InFlight, Over, Came, TypeOK
  <2> SUFFICES ASSUME NEW c \in Request, Unfinished(c)'
               PROVE  (/\ \A row \in KnownMembers \cup KnownInvitations : row.household # c
                       /\ \A s \in Came :
                            req[s].op \notin {"create", "accept"} /\ req[s].at = c
                              => req[s].pc \in {"check", "refused"}
                       /\ req[c].pc = "join" => c \in households)'
    BY DEF NewInv
  <2>2. ASSUME NEW step, Goto(r, step) PROVE req'[r].pc = step
    BY <2>1, <2>2 DEF Goto, TypeOK, Asked
  <2>3. req'[c].op = req[c].op /\ c \in Came
    BY <1>2, <2>1, AskingKept DEF KeepsAsking, Next, Unfinished
  <2>4. ASSUME c = r PROVE SaveHousehold(c)
    <3>1. req[r].op = "create" /\ req[r].pc # "check" /\ req'[r].pc \in {"write", "join"}
      BY <2>3, <2>4 DEF Unfinished, RequestInv
    <3>2. SaveHousehold(r) \/ SaveAdmin(r) \/ CutOff(r) \/ HouseholdGone(r)
      BY <1>2, <3>1
      DEF Serve, RequireAdmin, GetHousehold, SaveName, DeleteHousehold, SaveInvitation,
          FindValidInvitation, MarkUsed, LookForMember, SaveMember, RemoveMember,
          FindMember, SaveRole, At
    <3>3. ~(\E step \in {"done", "cutOff", "refused"} : Goto(r, step))
      BY <2>2, <3>1
    <3>4. QED
      BY <2>4, <3>2, <3>3 DEF SaveAdmin, CutOff, HouseholdGone
  <2>5. Unfinished(c)
    BY <2>1, <2>3, <2>4 DEF Unfinished, SaveHousehold, At
  <2>6. \A row \in KnownMembers' \cup KnownInvitations' : row.household # c
    <3>1. ~(r = c /\ Done(r)')
      BY DEF Unfinished, Done
    <3>2. ~(At(r, "invite", "write") /\ req[r].at = c)
      BY <2>5 DEF NewInv, At
    <3>3. \A row \in KnownMembers \cup KnownInvitations : row.household # c
      BY <2>5 DEF NewInv
    <3>4. QED
      BY <1>2, <3>1, <3>2, <3>3, KeysMove
  <2>7. ASSUME NEW s \in Came, req'[s].op \notin {"create", "accept"}, req'[s].at = c
        PROVE  req'[s].pc \in {"check", "refused"}
    <3>1. /\ req[s].op \notin {"create", "accept"} /\ req[s].at = c
          /\ req[s].pc \in {"check", "refused"}
      BY <1>2, <2>5, <2>7, AskingKept DEF KeepsAsking, Next, NewInv
    <3>2. CASE s = r
      <4>1. RequireAdmin(r)
        BY <1>2, <2>1, <3>1, <3>2
        DEF Serve, SaveHousehold, SaveAdmin, GetHousehold, SaveName,
            DeleteHousehold, SaveInvitation, FindValidInvitation, MarkUsed, LookForMember,
            SaveMember, RemoveMember, FindMember, SaveRole, HouseholdGone, CutOff, At
      <4>2. ~IsAdmin(req[r].at, req[r].user)
        BY <2>5, <3>1, <3>2 DEF IsAdmin, NewInv, KnownMembers
      <4>3. Goto(r, "refused")
        BY <4>1, <4>2 DEF RequireAdmin
      <4>4. QED
        BY <2>2, <3>2, <4>3
    <3>3. QED
      BY <2>1, <3>1, <3>2
  <2>8. ASSUME req'[c].pc = "join" PROVE c \in households'
    <3>1. CASE SaveHousehold(c)
      BY <3>1 DEF SaveHousehold
    <3>2. CASE c # r
      <4>1. c \in households
        BY <2>1, <2>3, <2>5, <2>8, <3>2 DEF NewInv
      <4>2. ~(DeleteHousehold(r) /\ req[r].at = c)
        BY <2>5 DEF DeleteHousehold, At, NewInv
      <4>3. QED
        BY <1>2, <4>1, <4>2, TablesMove DEF SaveHousehold, SaveName, DeleteHousehold
    <3>3. QED
      BY <2>4, <3>1, <3>2
  <2>9. QED
    BY <2>1, <2>6, <2>7, <2>8
<1>3. CASE UNCHANGED vars
  BY <1>3 DEF vars, NewInv, Unfinished, KnownMembers, KnownInvitations, ReadsMember,
              ReadsInvitation, At, Came
<1>4. QED
  BY <1>1, <1>2, <1>3 DEF Next

-----------------------------------------------------------------------------
(* Overlaps, once there, are there for ever *)

LEMMA OverlapKept ==
  ASSUME TypeOK, [Next]_vars
  PROVE  /\ \A r, s \in Came : Overlap(r, s) => Overlap(r, s)'
         /\ \A h : Reopened(h) => Reopened(h)'
         /\ \A u : Doubted(u) => Doubted(u)'
         /\ \A h : Contested(h) => Contested(h)'
         /\ \A r \in Came : Returned(r) => Returned(r)'
<1>1. KeepsAsking
  BY AskingKept
<1>2. \A r, s \in Came : Overlap(r, s) => Overlap(r, s)'
  BY <1>1 DEF KeepsAsking, Overlap
<1>3. ASSUME NEW ops, NEW h PROVE Asks(ops, h) \subseteq Asks(ops, h)'
  BY <1>1 DEF KeepsAsking, Asks
<1>4. ASSUME NEW h, Reopened(h) PROVE Reopened(h)'
  <2>1. PICK r \in Asks({"rename"}, h), d \in Asks({"delete"}, h) : Overlap(r, d)
    BY <1>4 DEF Reopened
  <2>2. r \in Came /\ d \in Came
    BY <2>1 DEF Asks
  <2>3. Overlap(r, d)'
    BY <1>2, <2>1, <2>2
  <2>4. r \in Asks({"rename"}, h)' /\ d \in Asks({"delete"}, h)'
    BY <1>3, <2>1
  <2>5. QED
    BY <2>3, <2>4 DEF Reopened
<1>5. ASSUME NEW h, Contested(h) PROVE Contested(h)'
  <2>1. PICK r \in Asks(AdminOps, h), s \in Asks(AdminOps, h) : Overlap(r, s)
    BY <1>5 DEF Contested
  <2>2. r \in Asks(AdminOps, h)' /\ s \in Asks(AdminOps, h)' /\ Overlap(r, s)'
    BY <1>2, <1>3, <2>1 DEF Asks
  <2>3. QED
    BY <2>2 DEF Contested
<1>6. ASSUME NEW u, Doubted(u) PROVE Doubted(u)'
  <2>1. PICK r \in Came, s \in Came :
          /\ Overlap(r, s)
          /\ req[r].op \in {"accept", "setRole"} /\ req[r].target = u
          /\ req[s].op \in {"accept", "remove", "delete"}
    BY <1>6 DEF Doubted
  <2>2. r \in Came' /\ s \in Came' /\ Overlap(r, s)'
    BY <1>1, <1>2, <2>1 DEF KeepsAsking
  <2>3. req'[r].op = req[r].op /\ req'[s].op = req[s].op /\ req'[r].target = req[r].target
    BY <1>1 DEF KeepsAsking
  <2>4. QED
    BY <2>1, <2>2, <2>3 DEF Doubted
<1>7. ASSUME NEW r \in Came, Returned(r) PROVE Returned(r)'
  <2>1. PICK a \in Came :
          /\ req[a].target = req[r].target
          /\ \/ req[a].op = "accept" /\ a \notin req[r].after
             \/ req[a].op = "setRole" /\ Overlap(a, r)
    BY <1>7 DEF Returned
  <2>2. a \in Came' /\ (Overlap(a, r) => Overlap(a, r)')
    BY <1>1, <1>2, <2>1 DEF KeepsAsking
  <2>3. /\ req'[a].target = req[a].target /\ req'[a].op = req[a].op
        /\ req'[r].target = req[r].target /\ req'[r].after = req[r].after
    BY <1>1 DEF KeepsAsking
  <2>4. QED
    BY <2>1, <2>2, <2>3 DEF Returned
<1>8. QED
  BY <1>2, <1>4, <1>5, <1>6, <1>7

\* Requests in flight overlap.
LEMMA InFlightOverlap ==
  ASSUME RequestInv, NEW r \in InFlight, NEW s \in InFlight, r # s
  PROVE  r \in Came /\ s \in Came /\ Overlap(r, s)
BY DEF RequestInv, InFlight, Overlap

-----------------------------------------------------------------------------
(* Households that are gone *)

LEMMA RenameStep ==
  TypeOK /\ RequestInv /\ RenameInv /\ [Next]_vars => RenameInv'
<1> SUFFICES ASSUME TypeOK, RequestInv, RenameInv, [Next]_vars,
                    NEW s \in Request, At(s, "rename", "write")'
             PROVE  (req[s].at \in households \/ Reopened(req[s].at))'
  BY DEF RenameInv
<1>1. \A h : Reopened(h) => Reopened(h)'
  BY OverlapKept
<1>2. ASSUME NEW r \in Request, Serve(r) \/ CutOff(r)
      PROVE  (req[s].at \in households \/ Reopened(req[s].at))'
  <2>1. CASE r = s
    <3>1. ~Arrive(r)
      BY <2>1, ArriveAdds DEF At
    <3>2. r \in Came /\ req[r] \in Asked
      BY <1>2, <3>1, StepMoves DEF InFlight, Came, TypeOK
    <3>3. req'[r].op = req[r].op /\ req'[r].at = req[r].at
      BY <3>2, AskingKept DEF KeepsAsking
    <3>4. ASSUME NEW step, Goto(r, step) PROVE req'[r].pc = step
      BY <3>2, <3>4 DEF Goto, TypeOK, Asked
    <3>5. GetHousehold(r)
      BY <1>2, <2>1, <3>1, <3>2, <3>3, <3>4
      DEF Serve, RequireAdmin, SaveHousehold, SaveAdmin, SaveName,
          DeleteHousehold, SaveInvitation, FindValidInvitation, MarkUsed, LookForMember,
          SaveMember, RemoveMember, FindMember, SaveRole, HouseholdGone, CutOff, At,
          AfterCheck
    <3>6. QED
      BY <2>1, <3>2, <3>3, <3>4, <3>5 DEF GetHousehold, At, tables
  <2>2. CASE r # s
    <3>1. At(s, "rename", "write") /\ req'[s].at = req[s].at
      BY <1>2, <2>2, StepMoves, ArriveAdds DEF At
    <3>2. CASE DeleteHousehold(r) /\ req[r].at = req[s].at
      <4>1. r \in InFlight /\ s \in InFlight
        BY <3>1, <3>2 DEF DeleteHousehold, At, InFlight, Over
      <4>2. Overlap(s, r) /\ s \in Came /\ r \in Came
        BY <2>2, <4>1, InFlightOverlap
      <4>3. Reopened(req[s].at)
        BY <3>1, <3>2, <4>2 DEF Reopened, Asks, DeleteHousehold, At
      <4>4. QED
        BY <1>1, <3>1, <4>3
    <3>3. CASE ~(DeleteHousehold(r) /\ req[r].at = req[s].at)
      <4>1. req[s].at \in households => req[s].at \in households'
        BY <1>2, <3>3, TablesMove DEF SaveHousehold, SaveName, DeleteHousehold
      <4>2. QED
        BY <1>1, <3>1, <4>1 DEF RenameInv
    <3>4. QED
      BY <3>2, <3>3
  <2>3. QED
    BY <2>1, <2>2
<1>3. CASE UNCHANGED vars
  BY <1>1, <1>3 DEF vars, RenameInv, At, Came
<1>4. QED
  BY <1>2, <1>3 DEF Next

\* A step of r leaves the other requests where they are.
LEMMA OthersStay ==
  ASSUME TypeOK, NEW r \in Request, Serve(r) \/ CutOff(r), NEW s \in Request, s # r
  PROVE  /\ req'[s] = req[s] /\ (s \in Came' <=> s \in Came)
         /\ \A op, step : At(s, op, step)' <=> At(s, op, step)
<1>1. CASE Arrive(r)
  BY <1>1, ArriveAdds DEF Came, Arrive, TypeOK, At
<1>2. CASE ~Arrive(r)
  <2>1. \E step : Goto(r, step)
    BY <1>2
    DEF Serve, RequireAdmin, SaveHousehold, SaveAdmin, GetHousehold, SaveName,
        DeleteHousehold, SaveInvitation, FindValidInvitation, MarkUsed, LookForMember,
        SaveMember, RemoveMember, FindMember, SaveRole, HouseholdGone, CutOff
  <2>2. req'[s] = req[s]
    BY <2>1 DEF Goto, TypeOK
  <2>3. QED
    BY <2>2 DEF Came, At
<1>3. QED
  BY <1>1, <1>2

\* Which steps lead where.
LEMMA Enters ==
  ASSUME TypeOK, RequestInv, NEW r \in Request, Serve(r) \/ CutOff(r)
  PROVE  /\ At(r, "accept", "look")' => MarkUsed(r)
         /\ At(r, "accept", "join")' =>
              LookForMember(r) /\ ~IsMember(read[r].household, req[r].user)
         /\ r \in Came' /\ req'[r].op \in AdminOps /\ req'[r].pc \in {"find", "write"} =>
              /\ UNCHANGED tables
              /\ r \in Came /\ req[r].op \in AdminOps
              /\ \/ req[r].pc = "check" /\ IsAdmin(req[r].at, req[r].user)
                 \/ req[r].pc = "find"
         /\ r \in Came' /\ Done(r)' => /\ ~Done(r)
                                       /\ req'[r].op = "remove" => RemoveMember(r)
                                       /\ req'[r].op = "delete" => DeleteHousehold(r)
         /\ r \in Came /\ req[r].op = "accept" /\ req[r].pc \in {"look", "join", "cutOff"} =>
              \/ req'[r].pc \in {"look", "join", "cutOff"}
              \/ LookForMember(r) /\ IsMember(read[r].household, req[r].user)
              \/ SaveMember(r)
<1>1. CASE Arrive(r)
  BY <1>1, ArriveAdds DEF At, Done, AdminOps
<1>2. CASE ~Arrive(r)
  <2>1. /\ r \in Came /\ req[r] \in Asked /\ Came' = Came
        /\ req[r].pc \notin {"done", "refused", "cutOff"}
    BY <1>2, StepMoves DEF InFlight, Over, Came, TypeOK
  <2>2. req'[r].op = req[r].op
    BY <2>1, AskingKept DEF KeepsAsking, Next
  <2>3. ASSUME NEW step, Goto(r, step) PROVE req'[r].pc = step
    BY <2>1, <2>3 DEF Goto, TypeOK, Asked
  <2>4. At(r, "accept", "look")' => MarkUsed(r)
    BY <1>2, <2>1, <2>2, <2>3
    DEF Serve, RequireAdmin, SaveHousehold, SaveAdmin, GetHousehold, SaveName,
        DeleteHousehold, SaveInvitation, FindValidInvitation, MarkUsed, LookForMember,
        SaveMember, RemoveMember, FindMember, SaveRole, HouseholdGone, CutOff, At,
        AfterCheck
  <2>5. At(r, "accept", "join")' =>
          LookForMember(r) /\ ~IsMember(read[r].household, req[r].user)
    BY <1>2, <2>1, <2>2, <2>3
    DEF Serve, RequireAdmin, SaveHousehold, SaveAdmin, GetHousehold, SaveName,
        DeleteHousehold, SaveInvitation, FindValidInvitation, MarkUsed, LookForMember,
        SaveMember, RemoveMember, FindMember, SaveRole, HouseholdGone, CutOff, At,
        AfterCheck
  <2>6. ASSUME req'[r].op \in AdminOps, req'[r].pc \in {"find", "write"}
        PROVE  /\ UNCHANGED tables
               /\ r \in Came /\ req[r].op \in AdminOps
               /\ \/ req[r].pc = "check" /\ IsAdmin(req[r].at, req[r].user)
                  \/ req[r].pc = "find"
    <3>1. req[r].op \in AdminOps
      BY <2>2, <2>6
    <3>2. RequireAdmin(r) \/ GetHousehold(r) \/ FindMember(r)
      BY <1>2, <2>3, <2>6, <3>1
      DEF Serve, SaveHousehold, SaveAdmin, SaveName,
          DeleteHousehold, SaveInvitation, FindValidInvitation, MarkUsed, LookForMember,
          SaveMember, RemoveMember, SaveRole, HouseholdGone, CutOff, At, AdminOps
    <3>3. QED
      BY <2>1, <2>3, <2>6, <3>1, <3>2 DEF RequireAdmin, GetHousehold, FindMember, At
  <2>7. ~Done(r)
    BY <2>1 DEF Done
  <2>8. ASSUME Done(r)', req'[r].op = "remove" PROVE RemoveMember(r)
    BY <1>2, <2>2, <2>3, <2>8
    DEF Serve, RequireAdmin, SaveHousehold, SaveAdmin, GetHousehold, SaveName,
        DeleteHousehold, SaveInvitation, FindValidInvitation, MarkUsed, LookForMember,
        SaveMember, FindMember, SaveRole, HouseholdGone, CutOff, At,
        AfterCheck, Done
  <2>9. ASSUME Done(r)', req'[r].op = "delete" PROVE DeleteHousehold(r)
    BY <1>2, <2>2, <2>3, <2>9
    DEF Serve, RequireAdmin, SaveHousehold, SaveAdmin, GetHousehold, SaveName,
        SaveInvitation, FindValidInvitation, MarkUsed, LookForMember,
        SaveMember, RemoveMember, FindMember, SaveRole, HouseholdGone, CutOff, At,
        AfterCheck, Done
  <2>10. ASSUME req[r].op = "accept", req[r].pc \in {"look", "join"}
         PROVE  \/ req'[r].pc \in {"look", "join", "cutOff"}
                \/ LookForMember(r) /\ IsMember(read[r].household, req[r].user)
                \/ SaveMember(r)
    <3>1. LookForMember(r) \/ SaveMember(r) \/ CutOff(r)
      BY <1>2, <2>10
      DEF Serve, RequireAdmin, SaveHousehold, SaveAdmin, GetHousehold, SaveName,
          DeleteHousehold, SaveInvitation, FindValidInvitation, MarkUsed,
          RemoveMember, FindMember, SaveRole, HouseholdGone, At
    <3>2. QED
      BY <2>3, <3>1 DEF LookForMember, CutOff
  <2>11. QED
    BY <2>1, <2>4, <2>5, <2>6, <2>7, <2>8, <2>9, <2>10
<1>3. QED
  BY <1>1, <1>2

LEMMA ClosedStep ==
  TypeOK /\ RequestInv /\ ReadInv /\ NewInv /\ RenameInv /\ Closed /\ [Next]_vars => Closed'
<1> SUFFICES ASSUME TypeOK, RequestInv, ReadInv, NewInv, RenameInv, Closed, [Next]_vars
             PROVE  Closed'
  OBVIOUS
<1>1. \A h : Reopened(h) => Reopened(h)'
  BY OverlapKept
<1>2. ASSUME NEW r \in Request, Serve(r) \/ CutOff(r) PROVE Closed'
  <2>1. \A m \in members' : m.household \in households'
    <3>1. CASE SaveAdmin(r)
      <4>1. r \in households
        BY <3>1 DEF SaveAdmin, At, NewInv, Unfinished
      <4>2. QED
        BY <3>1, <4>1 DEF SaveAdmin, Row, Closed
    <3>2. CASE SaveMember(r)
      BY <3>2 DEF SaveMember, Row, Closed
    <3>3. CASE SaveRole(r)
      <4>1. read[r] \in Member /\ read[r].household = req[r].at
        BY <3>3 DEF SaveRole, ReadInv, ReadsMember
      <4>2. [read[r] EXCEPT !.role = req[r].role].household = req[r].at
        BY <4>1 DEF Member
      <4>3. QED
        BY <3>3, <4>2 DEF SaveRole, Closed
    <3>4. CASE RemoveMember(r)
      BY <3>4 DEF RemoveMember, Closed
    <3>5. CASE DeleteHousehold(r)
      BY <3>5 DEF DeleteHousehold, Closed
    <3>6. CASE members' = members /\ ~DeleteHousehold(r)
      BY <1>2, <3>6, TablesMove DEF SaveHousehold, SaveName, Closed
    <3>7. QED
      BY <1>2, <3>1, <3>2, <3>3, <3>4, <3>5, <3>6, TablesMove
  <2>2. \A i \in invitations' : i.household \in households'
    <3>1. CASE SaveInvitation(r)
      BY <3>1 DEF SaveInvitation, Sent, Closed
    <3>2. CASE MarkUsed(r)
      <4>1. read[r] \in Invitation
        BY <3>2 DEF MarkUsed, ReadInv, ReadsInvitation, At
      <4>2. [read[r] EXCEPT !.used = TRUE].household = read[r].household
        BY <4>1 DEF Invitation
      <4>3. QED
        BY <3>2, <4>2 DEF MarkUsed, Closed
    <3>3. CASE DeleteHousehold(r)
      BY <3>3 DEF DeleteHousehold, Closed
    <3>4. CASE invitations' = invitations /\ ~DeleteHousehold(r)
      BY <1>2, <3>4, TablesMove DEF SaveHousehold, SaveName, Closed
    <3>5. QED
      BY <1>2, <3>1, <3>2, <3>3, <3>4, TablesMove
  <2>3. ASSUME NEW h \in households', NEW d \in Came',
               req'[d].op = "delete", req'[d].at = h, Done(d)'
        PROVE  Reopened(h)'
    <3>1. CASE d = r
      <4>1. DeleteHousehold(r)
        BY <1>2, <2>3, <3>1, Enters
      <4>2. h = req[r].at
        BY <2>3, <3>1, <4>1, AskingKept DEF KeepsAsking, DeleteHousehold, At
      <4>3. QED
        BY <2>3, <4>1, <4>2 DEF DeleteHousehold
    <3>2. CASE d # r
      <4>1. d \in Came /\ req[d].op = "delete" /\ req[d].at = h /\ Done(d)
        BY <1>2, <2>3, <3>2, OthersStay DEF Done, Came
      <4>2. CASE h \in households
        BY <1>1, <4>1, <4>2 DEF Closed
      <4>3. CASE h \notin households /\ SaveName(r)
        <5>1. h = req[r].at /\ At(r, "rename", "write")
          BY <2>3, <4>3 DEF SaveName
        <5>2. QED
          BY <1>1, <4>3, <5>1 DEF RenameInv
      <4>4. CASE h \notin households /\ SaveHousehold(r)
        <5>1. h = r /\ Unfinished(r)
          BY <2>3, <4>4 DEF SaveHousehold, At, Unfinished
        <5>2. req[d].pc \in {"check", "refused"}
          BY <4>1, <5>1 DEF NewInv
        <5>3. QED
          BY <4>1, <5>2 DEF Done
      <4>5. QED
        BY <1>2, <2>3, <4>2, <4>3, <4>4, TablesMove DEF DeleteHousehold
    <3>3. QED
      BY <3>1, <3>2
  <2>4. QED
    BY <2>1, <2>2, <2>3 DEF Closed
<1>3. CASE UNCHANGED vars
  BY <1>1, <1>3 DEF vars, Closed, Came, Done
<1>4. QED
  BY <1>2, <1>3 DEF Next

-----------------------------------------------------------------------------
(* One membership each *)

\* Two accepts, or an accept and a change of role, for one user.
LEMMA DoubtedByOverlap ==
  ASSUME RequestInv, NEW r \in InFlight, NEW s \in InFlight, r # s,
         req[r].op \in {"accept", "setRole"},
         req[s].op \in {"accept", "remove", "delete"}
  PROVE  Doubted(req[r].target)
BY InFlightOverlap DEF Doubted

LEMMA FreshStep ==
  TypeOK /\ RequestInv /\ ReadInv /\ KeyInv /\ NewInv /\ FreshInv /\ [Next]_vars => FreshInv'
<1> SUFFICES ASSUME TypeOK, RequestInv, ReadInv, KeyInv, NewInv, FreshInv, [Next]_vars
             PROVE  FreshInv'
  OBVIOUS
<1>1. \A u : Doubted(u) => Doubted(u)'
  BY OverlapKept
<1>2. ASSUME NEW r \in Request, Serve(r) \/ CutOff(r),
             NEW s \in Request, At(s, "accept", "join")',
             IsMember(read[s].household, req[s].user)'
      PROVE  Doubted(req[s].user)'
  <2>1. CASE r = s
    <3>1. LookForMember(r) /\ ~IsMember(read[r].household, req[r].user)
      BY <1>2, <2>1, Enters
    <3>2. req'[r].user = req[r].user
      BY <3>1, AskingKept DEF KeepsAsking, LookForMember, At
    <3>3. QED
      BY <1>2, <2>1, <3>1, <3>2 DEF LookForMember, tables, IsMember
  <2>2. CASE r # s
    <3>1. At(s, "accept", "join") /\ req'[s] = req[s]
      BY <1>2, <2>2, OthersStay
    <3>2. read'[s] = read[s]
      BY <1>2, <2>2, ReadsMove
    <3>3. s \in InFlight /\ ReadsInvitation(s) /\ req[s].target = req[s].user
      BY <3>1 DEF At, InFlight, Over, ReadsInvitation, RequestInv
    <3>4. CASE IsMember(read[s].household, req[s].user)
      BY <1>1, <3>1, <3>4 DEF FreshInv
    <3>5. CASE ~IsMember(read[s].household, req[s].user)
      <4>1. PICK m \in members' : m.household = read[s].household /\ m.user = req[s].user
        BY <1>2, <3>1, <3>2 DEF IsMember
      <4>2. m \notin members
        BY <3>5, <4>1 DEF IsMember
      <4>3. CASE SaveAdmin(r)
        <5>1. m.household = r /\ Unfinished(r)
          BY <4>2, <4>3 DEF SaveAdmin, Row, Unfinished, At
        <5>2. read[s].household # r
          BY <3>3, <5>1 DEF NewInv, KnownInvitations
        <5>3. QED
          BY <4>1, <5>1, <5>2
      <4>4. CASE SaveMember(r)
        <5>1. r \in InFlight /\ req[r].op = "accept"
          BY <4>4 DEF SaveMember, At, InFlight, Over
        <5>2. Doubted(req[s].target)
          BY <2>2, <3>1, <3>3, <5>1, DoubtedByOverlap DEF At
        <5>3. QED
          BY <1>1, <3>1, <3>3, <5>2
      <4>5. CASE SaveRole(r)
        <5>1. r \in InFlight /\ req[r].op = "setRole" /\ ReadsMember(r)
          BY <4>5 DEF SaveRole, At, InFlight, Over, ReadsMember
        <5>2. read[r] \in Member /\ read[r].user = req[r].target
          BY <5>1 DEF ReadInv
        <5>3. m = [read[r] EXCEPT !.role = req[r].role]
          BY <4>2, <4>5 DEF SaveRole
        <5>4. m.user = req[r].target
          BY <5>2, <5>3 DEF Member
        <5>5. Doubted(req[r].target)
          BY <2>2, <3>1, <3>3, <5>1, DoubtedByOverlap DEF At
        <5>6. QED
          BY <1>1, <3>1, <4>1, <5>4, <5>5
      <4>6. QED
        BY <1>2, <4>2, <4>3, <4>4, <4>5, TablesMove DEF RemoveMember, DeleteHousehold
    <3>6. QED
      BY <3>4, <3>5
  <2>3. QED
    BY <2>1, <2>2
<1>3. ASSUME NEW r \in Request, Serve(r) \/ CutOff(r),
             NEW s \in Request, ReadsMember(s)'
      PROVE  ((\E m \in members : m.id = read[s].id) \/ Doubted(req[s].target))'
  <2>1. CASE r = s
    <3>1. FindMember(r) /\ read'[r] \in members
      BY <1>3, <2>1, ReadsMove
    <3>2. QED
      BY <2>1, <3>1 DEF FindMember, tables
  <2>2. CASE r # s
    <3>1. ReadsMember(s) /\ req'[s] = req[s] /\ read'[s] = read[s]
      BY <1>3, <2>2, OthersStay, ReadsMove
    <3>2. s \in InFlight /\ req[s].op = "setRole"
      BY <3>1 DEF ReadsMember, At, InFlight, Over
    <3>3. CASE RemoveMember(r) \/ DeleteHousehold(r)
      <4>1. r \in InFlight /\ req[r].op \in {"remove", "delete"}
        BY <3>3 DEF RemoveMember, DeleteHousehold, At, InFlight, Over
      <4>2. Doubted(req[s].target)
        BY <2>2, <3>2, <4>1, DoubtedByOverlap
      <4>3. QED
        BY <1>1, <3>1, <4>2
    <3>4. CASE SaveRole(r)
      <4>1. read[r] \in Member
        BY <3>4 DEF SaveRole, ReadInv, ReadsMember
      <4>2. [read[r] EXCEPT !.role = req[r].role].id = read[r].id
        BY <4>1 DEF Member
      <4>3. \A m \in members : \E n \in members' : n.id = m.id
        BY <3>4, <4>2 DEF SaveRole
      <4>4. QED
        BY <1>1, <3>1, <4>3 DEF FreshInv
    <3>5. CASE members \subseteq members'
      BY <1>1, <3>1, <3>5 DEF FreshInv
    <3>6. QED
      BY <1>3, <3>3, <3>4, <3>5, TablesMove DEF SaveAdmin, SaveMember
  <2>3. QED
    BY <2>1, <2>2
<1>4. CASE UNCHANGED vars
  BY <1>1, <1>4 DEF vars, FreshInv, At, Came, IsMember, ReadsMember
<1>5. CASE \E r \in Request : Serve(r) \/ CutOff(r)
  BY <1>2, <1>3, <1>5 DEF FreshInv
<1>6. QED
  BY <1>4, <1>5 DEF Next

LEMMA SingleStep ==
  /\ TypeOK /\ RequestInv /\ ReadInv /\ KeyInv /\ NewInv /\ FreshInv /\ Single
  /\ [Next]_vars
  => Single'
<1> SUFFICES ASSUME TypeOK, RequestInv, ReadInv, KeyInv, NewInv, FreshInv, Single,
                    [Next]_vars
             PROVE  Single'
  OBVIOUS
<1>1. \A u : Doubted(u) => Doubted(u)'
  BY OverlapKept
\* It is enough that a row that is new finds no other, or doubt.
<1>2. ASSUME NEW row, members' \subseteq members \cup {row},
             \A m \in members' :
               m.household = row.household /\ m.user = row.user => m = row \/ Doubted(row.user)
      PROVE  Single'
  BY <1>1, <1>2 DEF Single
<1>3. ASSUME NEW r \in Request, SaveAdmin(r) PROVE Single'
  <2>1. Unfinished(r) /\ \A m \in members : m.household # r
    BY <1>3 DEF SaveAdmin, Unfinished, At, NewInv, KnownMembers
  <2>2. QED
    BY <1>2, <1>3, <2>1 DEF SaveAdmin, Row
<1>4. ASSUME NEW r \in Request, SaveMember(r) PROVE Single'
  <2>1. \A m \in members :
          m.household = read[r].household /\ m.user = req[r].user => Doubted(req[r].user)
    BY <1>4 DEF SaveMember, FreshInv, IsMember
  <2> DEFINE row == Row(r, read[r].household, req[r].user, "member")
  <2>2. row.household = read[r].household /\ row.user = req[r].user
    BY DEF Row
  <2>3. members' = members \cup {row}
    BY <1>4 DEF SaveMember
  <2> HIDE DEF row
  <2>4. QED
    BY <1>2, <2>1, <2>2, <2>3
<1>5. ASSUME NEW r \in Request, SaveRole(r) PROVE Single'
  <2> DEFINE row == [read[r] EXCEPT !.role = req[r].role]
  <2>1. /\ ReadsMember(r) /\ read[r] \in Member
        /\ read[r].household = req[r].at /\ read[r].user = req[r].target
    BY <1>5 DEF SaveRole, ReadInv, ReadsMember
  <2>2. row.id = read[r].id /\ row.household = read[r].household /\ row.user = read[r].user
    BY <2>1 DEF Member
  <2>3. ASSUME NEW m \in members', m.household = row.household, m.user = row.user, m # row
        PROVE  Doubted(row.user)
    <3>1. m \in members /\ m.id # read[r].id
      BY <1>5, <2>3 DEF SaveRole
    <3>2. CASE \E n \in members : n.id = read[r].id
      <4>1. PICK n \in members : n.id = read[r].id
        BY <3>2
      <4>2. n.household = read[r].household /\ n.user = read[r].user
        BY <2>1, <4>1 DEF KeyInv, KnownMembers
      <4>3. QED
        BY <2>2, <2>3, <3>1, <4>1, <4>2 DEF Single
    <3>3. CASE Doubted(req[r].target)
      BY <2>1, <2>2, <3>3
    <3>4. QED
      BY <2>1, <3>2, <3>3 DEF FreshInv
  <2>4. members' \subseteq members \cup {row}
    BY <1>5 DEF SaveRole
  <2>5. QED
    BY <1>2, <2>3, <2>4
<1>6. CASE members' \subseteq members
  BY <1>1, <1>6 DEF Single
<1>7. ASSUME NEW r \in Request, Serve(r) \/ CutOff(r) PROVE Single'
  BY <1>3, <1>4, <1>5, <1>6, <1>7, TablesMove DEF RemoveMember, DeleteHousehold
<1>8. QED
  BY <1>6, <1>7 DEF Next, vars

-----------------------------------------------------------------------------
(* Who was removed stays out *)

LEMMA OutStep ==
  TypeOK /\ RequestInv /\ ReadInv /\ KeyInv /\ NewInv /\ OutInv /\ [Next]_vars => OutInv'
<1> SUFFICES ASSUME TypeOK, RequestInv, ReadInv, KeyInv, NewInv, OutInv, [Next]_vars
             PROVE  OutInv'
  OBVIOUS
<1>1. \A q \in Came : Returned(q) => Returned(q)'
  BY OverlapKept
<1>2. ASSUME NEW r \in Request, Serve(r) \/ CutOff(r),
             NEW q \in Request, NEW h \in Created', NEW u \in User,
             Removed(q, h, u)', IsMember(h, u)'
      PROVE  Returned(q)'
  <2>1. CASE q = r
    <3>1. RemoveMember(r)
      BY <1>2, <2>1, Enters DEF Removed
    <3>2. h = req[r].at /\ u = req[r].target
      BY <1>2, <2>1, <3>1, AskingKept DEF KeepsAsking, RemoveMember, At, Removed
    <3>3. QED
      BY <1>2, <3>1, <3>2 DEF RemoveMember, IsMember
  <2>2. CASE q # r
    <3>1. Removed(q, h, u) /\ q \in Came
      BY <1>2, <2>2, OthersStay DEF Removed, Done
    <3>2. h \in Created
      BY <3>1 DEF Removed, RequestInv, Created
    <3>3. CASE IsMember(h, u)
      BY <1>1, <3>1, <3>2, <3>3 DEF OutInv
    <3>4. CASE ~IsMember(h, u)
      <4>1. PICK m \in members' : m.household = h /\ m.user = u
        BY <1>2 DEF IsMember
      <4>2. m \notin members
        BY <3>4, <4>1 DEF IsMember
      <4>3. CASE SaveAdmin(r)
        <5>1. m.household = r /\ Unfinished(r)
          BY <4>2, <4>3 DEF SaveAdmin, Row, Unfinished, At
        <5>2. req[q].op = "remove" /\ req[q].at = r /\ Done(q)
          BY <3>1, <4>1, <5>1 DEF Removed
        <5>3. req[q].pc \in {"check", "refused"}
          BY <3>1, <5>1, <5>2 DEF NewInv
        <5>4. QED
          BY <5>2, <5>3 DEF Done
      <4>4. CASE SaveMember(r)
        <5>1. r \in Came /\ r \notin Over /\ req[r].op = "accept"
          BY <4>4 DEF SaveMember, At, Over
        <5>2. m.user = req[r].user /\ req[r].target = req[r].user
          BY <4>2, <4>4, <5>1 DEF SaveMember, Row, RequestInv
        <5>3. r \notin req[q].after /\ req[q].target = u
          BY <3>1, <5>1 DEF RequestInv, Removed
        <5>4. Returned(q)
          BY <4>1, <5>1, <5>2, <5>3 DEF Returned
        <5>5. QED
          BY <1>1, <3>1, <5>4
      <4>5. CASE SaveRole(r)
        <5>1. ReadsMember(r)
          BY <4>5 DEF SaveRole, ReadsMember
        <5>2. /\ read[r] \in Member
              /\ read[r].household = req[r].at /\ read[r].user = req[r].target
          BY <5>1 DEF ReadInv
        <5>3. m = [read[r] EXCEPT !.role = req[r].role]
          BY <4>2, <4>5 DEF SaveRole
        <5>4. m.household = req[r].at /\ m.user = req[r].target
          BY <5>2, <5>3 DEF Member
        <5>5. Returned(q)
          BY <3>1, <4>1, <5>1, <5>4 DEF OutInv
        <5>6. QED
          BY <1>1, <3>1, <5>5
      <4>6. QED
        BY <1>2, <4>2, <4>3, <4>4, <4>5, TablesMove DEF RemoveMember, DeleteHousehold
    <3>5. QED
      BY <3>3, <3>4
  <2>3. QED
    BY <2>1, <2>2
<1>3. ASSUME NEW r \in Request, Serve(r) \/ CutOff(r),
             NEW q \in Request, NEW a \in Request,
             ReadsMember(a)', Removed(q, req[a].at, req[a].target)'
      PROVE  Returned(q)'
  <2>1. CASE a = r
    <3>1. /\ FindMember(r) /\ read'[r] \in members
          /\ read'[r].household = req[r].at /\ read'[r].user = req[r].target
      BY <1>3, <2>1, ReadsMove
    <3>2. r \in Came /\ req[r].op = "setRole" /\ req[r] \in Asked
      BY <3>1 DEF FindMember, At, Came, TypeOK
    <3>3. req'[r].at = req[r].at /\ req'[r].target = req[r].target /\ req'[r].op = "setRole"
      BY <3>2, AskingKept DEF KeepsAsking
    <3>4. q # r
      BY <1>3, <3>3 DEF Removed
    <3>5. Removed(q, req[r].at, req[r].target) /\ q \in Came
      BY <1>3, <2>1, <3>3, <3>4, OthersStay DEF Removed, Done
    <3>6. IsMember(req[r].at, req[r].target)
      BY <3>1 DEF IsMember
    <3>7. req[r].at \in Created /\ req[r].target \in User
      BY <3>2 DEF RequestInv, Created, Asked
    <3>8. Returned(q)
      BY <3>5, <3>6, <3>7 DEF OutInv
    <3>9. QED
      BY <1>1, <3>5, <3>8
  <2>2. CASE a # r /\ q = r
    <3>1. ReadsMember(a) /\ req'[a] = req[a]
      BY <1>3, <2>2, OthersStay, ReadsMove
    <3>2. RemoveMember(r)
      BY <1>3, <2>2, Enters DEF Removed
    <3>3. a \in InFlight /\ r \in InFlight
      BY <3>1, <3>2 DEF ReadsMember, RemoveMember, At, InFlight, Over
    <3>4. Overlap(a, r) /\ a \in Came /\ r \in Came
      BY <2>2, <3>3, InFlightOverlap
    <3>5. req[r].target = req[a].target
      BY <1>3, <2>2, <3>1, <3>4, AskingKept DEF KeepsAsking, Removed
    <3>6. Returned(r)
      BY <3>1, <3>4, <3>5 DEF Returned, ReadsMember, At
    <3>7. QED
      BY <1>1, <2>2, <3>4, <3>6
  <2>3. CASE a # r /\ q # r
    <3>1. ReadsMember(a) /\ req'[a] = req[a]
      BY <1>3, <2>3, OthersStay, ReadsMove
    <3>2. Removed(q, req[a].at, req[a].target) /\ q \in Came
      BY <1>3, <2>3, <3>1, OthersStay DEF Removed, Done
    <3>3. QED
      BY <1>1, <3>1, <3>2 DEF OutInv
  <2>4. QED
    BY <2>1, <2>2, <2>3
<1>4. CASE UNCHANGED vars
  <2>1. \A q \in Request : Removed(q, req[q].at, req[q].target)' => q \in Came
    BY <1>4 DEF vars, Removed, Came
  <2>2. QED
    BY <1>1, <1>4, <2>1
    DEF vars, OutInv, Removed, IsMember, ReadsMember, At, Came, Created, Done
<1>5. CASE \E r \in Request : Serve(r) \/ CutOff(r)
  BY <1>2, <1>3, <1>5 DEF OutInv
<1>6. QED
  BY <1>4, <1>5 DEF Next

-----------------------------------------------------------------------------
(* Members were invited *)

\* Being invited ends with the household only, which its return makes up for.
LEMMA InvitedKept ==
  ASSUME TypeOK, RequestInv, ReadInv, KeyInv, RenameInv,
         NEW r \in Request, Serve(r) \/ CutOff(r), NEW h \in Created, NEW u
  PROVE  /\ Invited(h, u) /\ ~(DeleteHousehold(r) /\ req[r].at = h) => Invited(h, u)'
         /\ (h \notin households \/ Invited(h, u)) /\ ~(SaveHousehold(r) /\ h = r)
              => (h \notin households \/ Invited(h, u))'
<1>0. [Next]_vars
  BY DEF Next
<1>1. \A k : Reopened(k) => Reopened(k)'
  BY <1>0, OverlapKept
<1>2. FounderOf(h)' = FounderOf(h)
  BY <1>0, AskingKept DEF KeepsAsking, FounderOf, Created
<1>3. ASSUME NEW i \in invitations, i.household = h, i.user = u, i.used,
             ~(DeleteHousehold(r) /\ req[r].at = h)
      PROVE  \E j \in invitations' : j.household = h /\ j.user = u /\ j.used
  <2>1. CASE MarkUsed(r)
    <3>1. ReadsInvitation(r)
      BY <2>1 DEF MarkUsed, ReadsInvitation, At
    <3>2. read[r] \in Invitation /\ read[r] \in KnownInvitations
      BY <3>1 DEF ReadInv, KnownInvitations
    <3>3. CASE i.token = read[r].token
      <4>1. i.household = read[r].household /\ i.user = read[r].user
        BY <3>2, <3>3 DEF KeyInv, KnownInvitations
      <4> DEFINE j == [read[r] EXCEPT !.used = TRUE]
      <4>2. j \in invitations'
        BY <2>1 DEF MarkUsed
      <4>3. j.household = read[r].household /\ j.user = read[r].user /\ j.used
        BY <3>2 DEF Invitation
      <4>4. QED
        BY <1>3, <4>1, <4>2, <4>3
    <3>4. CASE i.token # read[r].token
      BY <1>3, <2>1, <3>4 DEF MarkUsed
    <3>5. QED
      BY <3>3, <3>4
  <2>2. CASE DeleteHousehold(r)
    BY <1>3, <2>2 DEF DeleteHousehold
  <2>3. CASE invitations \subseteq invitations'
    BY <1>3, <2>3
  <2>4. QED
    BY <2>1, <2>2, <2>3, TablesMove DEF SaveInvitation
<1>4. ASSUME Invited(h, u), ~(DeleteHousehold(r) /\ req[r].at = h) PROVE Invited(h, u)'
  BY <1>1, <1>2, <1>3, <1>4 DEF Invited
<1>5. ASSUME h \notin households \/ Invited(h, u), ~(SaveHousehold(r) /\ h = r)
      PROVE  (h \notin households \/ Invited(h, u))'
  <2>1. CASE DeleteHousehold(r) /\ req[r].at = h
    BY <2>1 DEF DeleteHousehold
  <2>2. CASE Invited(h, u) /\ ~(DeleteHousehold(r) /\ req[r].at = h)
    BY <1>4, <2>2
  <2>3. CASE h \notin households /\ SaveName(r) /\ req[r].at = h
    BY <1>1, <2>3 DEF SaveName, RenameInv, Invited
  <2>4. CASE h \notin households /\ ~(SaveName(r) /\ req[r].at = h)
    BY <1>5, <2>4, TablesMove DEF SaveName, SaveHousehold, DeleteHousehold
  <2>5. QED
    BY <1>5, <2>1, <2>2, <2>3, <2>4
<1>6. QED
  BY <1>4, <1>5

LEMMA InvitedStep ==
  /\ TypeOK /\ RequestInv /\ ReadInv /\ KeyInv /\ NewInv /\ RenameInv /\ InvitedInv
  /\ [Next]_vars
  => InvitedInv'
<1> SUFFICES ASSUME TypeOK, RequestInv, ReadInv, KeyInv, NewInv, RenameInv, InvitedInv,
                    [Next]_vars
             PROVE  InvitedInv'
  OBVIOUS
<1>1. ASSUME NEW r \in Request, Serve(r) \/ CutOff(r), NEW m \in members'
      PROVE  Invited(m.household, m.user)'
  <2>1. CASE m \in members
    <3>1. m.household \in Created /\ Invited(m.household, m.user)
      BY <2>1 DEF InvitedInv, KeyInv, KnownMembers
    <3>2. ~(DeleteHousehold(r) /\ req[r].at = m.household)
      BY <1>1 DEF DeleteHousehold
    <3>3. QED
      BY <1>1, <3>1, <3>2, InvitedKept
  <2>2. CASE m \notin members /\ SaveAdmin(r)
    <3>1. m.household = r /\ m.user = req[r].user /\ r \in Came
      BY <1>1, <2>2 DEF SaveAdmin, Row, At
    <3>2. req'[r].user = req[r].user
      BY <3>1, AskingKept DEF KeepsAsking
    <3>3. r # Home
      BY HouseholdAssumption
    <3>4. QED
      BY <3>1, <3>2, <3>3 DEF Invited, FounderOf
  <2>3. CASE m \notin members /\ SaveMember(r)
    <3>1. m.household = read[r].household /\ m.user = req[r].user
      BY <1>1, <2>3 DEF SaveMember, Row
    <3>2. read[r] \in KnownInvitations
      BY <2>3 DEF SaveMember, At, KnownInvitations, ReadsInvitation
    <3>3. read[r].household \in Created /\ Invited(read[r].household, req[r].user)
      BY <2>3, <3>2 DEF SaveMember, InvitedInv, KeyInv
    <3>4. ~DeleteHousehold(r)
      BY <2>3 DEF SaveMember, DeleteHousehold, At
    <3>5. QED
      BY <1>1, <3>1, <3>3, <3>4, InvitedKept
  <2>4. CASE m \notin members /\ SaveRole(r)
    <3>1. /\ ReadsMember(r) /\ read[r] \in Member /\ read[r] \in KnownMembers
          /\ read[r].household = req[r].at /\ read[r].user = req[r].target
      BY <2>4 DEF SaveRole, ReadInv, ReadsMember, KnownMembers
    <3>2. m = [read[r] EXCEPT !.role = req[r].role]
      BY <1>1, <2>4 DEF SaveRole
    <3>3. m.household = req[r].at /\ m.user = req[r].target
      BY <3>1, <3>2 DEF Member
    <3>4. req[r].at \in Created /\ Invited(req[r].at, req[r].target)
      BY <2>4, <3>1 DEF SaveRole, InvitedInv, KeyInv
    <3>5. ~DeleteHousehold(r)
      BY <2>4 DEF SaveRole, DeleteHousehold, At
    <3>6. QED
      BY <1>1, <3>3, <3>4, <3>5, InvitedKept
  <2>5. QED
    BY <1>1, <2>1, <2>2, <2>3, <2>4, TablesMove DEF RemoveMember, DeleteHousehold
<1>2. ASSUME NEW r \in Request, Serve(r) \/ CutOff(r), NEW s \in Request,
             At(s, "accept", "look")' \/ At(s, "accept", "join")'
      PROVE  (read[s].household \notin households
                \/ Invited(read[s].household, req[s].user))'
  <2>1. CASE s = r /\ MarkUsed(r)
    <3>1. /\ ReadsInvitation(r) /\ read[r] \in Invitation
          /\ read[r].user = req[r].user /\ r \in Came
      BY <2>1 DEF MarkUsed, ReadsInvitation, At, ReadInv
    <3>2. read' = read /\ req'[r].user = req[r].user
      BY <2>1, <3>1, AskingKept DEF KeepsAsking, MarkUsed
    <3> DEFINE i == [read[r] EXCEPT !.used = TRUE]
    <3>3. i \in invitations'
      BY <2>1 DEF MarkUsed
    <3>4. i.household = read[r].household /\ i.user = req[r].user /\ i.used
      BY <3>1 DEF Invitation
    <3>5. QED
      BY <2>1, <3>2, <3>3, <3>4 DEF Invited
  <2>2. CASE s # r \/ LookForMember(r)
    <3>1. At(s, "accept", "look") \/ At(s, "accept", "join")
      <4>1. CASE s = r
        BY <2>2, <4>1 DEF LookForMember
      <4>2. CASE s # r
        BY <1>2, <4>2, OthersStay
      <4>3. QED
        BY <4>1, <4>2
    <3>2. read'[s] = read[s] /\ req'[s].user = req[s].user
      <4>1. read'[s] = read[s]
        BY <1>2, <2>2, ReadsMove DEF LookForMember
      <4>2. req'[s].user = req[s].user
        BY <3>1, AskingKept DEF KeepsAsking, At
      <4>3. QED
        BY <4>1, <4>2
    <3>3. read[s] \in KnownInvitations
      BY <3>1 DEF At, KnownInvitations, ReadsInvitation
    <3>4. /\ read[s].household \in Created
          /\ read[s].household \notin households \/ Invited(read[s].household, req[s].user)
      BY <3>1, <3>3 DEF InvitedInv, KeyInv
    <3>5. ~(SaveHousehold(r) /\ read[s].household = r)
      BY <3>3 DEF SaveHousehold, At, NewInv, Unfinished
    <3>6. (read[s].household \notin households)'
            \/ (Invited(read[s].household, req[s].user))'
      <4> DEFINE h == read[s].household
                 u == req[s].user
      <4>1. h' = h /\ u' = u
        BY <3>2
      <4>2. h \notin households' \/ \A k, v : k = h /\ v = u => Invited(k, v)'
        BY <1>2, <3>4, <3>5, InvitedKept
      <4>3. QED
        BY <4>1, <4>2
    <3>7. QED
      BY <3>6
  <2>3. QED
    BY <1>2, <2>1, <2>2, Enters
<1>3. ASSUME NEW r \in Request, Serve(r) \/ CutOff(r), NEW s \in Request, ReadsMember(s)'
      PROVE  (req[s].at \notin households \/ Invited(req[s].at, req[s].target))'
  <2>0. /\ s \in Came
        /\ req'[s].at = req[s].at /\ req'[s].target = req[s].target /\ req'[s].op = req[s].op
    <3>1. s \in Came
      BY <1>3, ReadsMove, OthersStay DEF ReadsMember, FindMember, At
    <3>2. QED
      BY <3>1, AskingKept DEF KeepsAsking
  <2>1. /\ req[s].at \in Created
        /\ req[s].at \notin households \/ Invited(req[s].at, req[s].target)
        /\ ~(SaveHousehold(r) /\ req[s].at = r)
    <3>1. CASE s = r
      <4>1. /\ FindMember(r) /\ read'[r] \in members
            /\ read'[r].household = req[r].at /\ read'[r].user = req[r].target
        BY <1>3, <3>1, ReadsMove
      <4>2. ~SaveHousehold(r)
        BY <4>1 DEF FindMember, SaveHousehold, At
      <4>3. QED
        BY <3>1, <4>1, <4>2 DEF InvitedInv, KeyInv, KnownMembers
    <3>2. CASE s # r
      <4>1. ReadsMember(s)
        BY <1>3, <3>2, ReadsMove
      <4>2. read[s] \in KnownMembers /\ read[s].household = req[s].at
        BY <4>1 DEF KnownMembers, ReadInv
      <4>3. ~(SaveHousehold(r) /\ req[s].at = r)
        BY <4>2 DEF SaveHousehold, At, NewInv, Unfinished
      <4>4. QED
        BY <4>1, <4>2, <4>3 DEF InvitedInv, KeyInv
    <3>3. QED
      BY <3>1, <3>2
  <2>2. req[s].at \notin households'
          \/ \A k, v : k = req[s].at /\ v = req[s].target => Invited(k, v)'
    BY <1>3, <2>1, InvitedKept
  <2>3. QED
    BY <2>0, <2>2
<1>4. CASE UNCHANGED vars
  BY <1>4 DEF vars, InvitedInv, Invited, FounderOf, Reopened, Asks, Overlap, At, Came,
              ReadsMember
<1>5. CASE \E r \in Request : Serve(r) \/ CutOff(r)
  BY <1>1, <1>2, <1>3, <1>5 DEF InvitedInv
<1>6. QED
  BY <1>4, <1>5 DEF Next

\* A member stays one, unless he is removed or his household goes.
LEMMA MemberKept ==
  ASSUME ReadInv, KeyInv, NEW r \in Request, Serve(r) \/ CutOff(r),
         NEW h, NEW u, IsMember(h, u),
         ~(DeleteHousehold(r) /\ req[r].at = h),
         ~(RemoveMember(r) /\ req[r].at = h /\ req[r].target = u)
  PROVE  IsMember(h, u)'
<1>1. PICK m \in members : m.household = h /\ m.user = u
  BY DEF IsMember
<1>2. CASE SaveRole(r)
  <2>1. read[r] \in Member /\ read[r] \in KnownMembers
    BY <1>2 DEF SaveRole, ReadsMember, ReadInv, KnownMembers
  <2> DEFINE row == [read[r] EXCEPT !.role = req[r].role]
  <2>2. row \in members' /\ row.household = read[r].household /\ row.user = read[r].user
    BY <1>2, <2>1 DEF SaveRole, Member
  <2>3. m.id = read[r].id => m.household = read[r].household /\ m.user = read[r].user
    BY <1>1, <2>1 DEF KeyInv, KnownMembers
  <2>4. m.id # read[r].id => m \in members'
    BY <1>1, <1>2 DEF SaveRole
  <2>5. QED
    BY <1>1, <2>2, <2>3, <2>4 DEF IsMember
<1>3. CASE RemoveMember(r)
  BY <1>1, <1>3 DEF RemoveMember, IsMember
<1>4. CASE DeleteHousehold(r)
  BY <1>1, <1>4 DEF DeleteHousehold, IsMember
<1>5. CASE members \subseteq members'
  BY <1>1, <1>5 DEF IsMember
<1>6. QED
  BY <1>2, <1>3, <1>4, <1>5, TablesMove DEF SaveAdmin, SaveMember

LEMMA UsedStep ==
  TypeOK /\ RequestInv /\ ReadInv /\ KeyInv /\ UsedInv /\ [Next]_vars => UsedInv'
<1> SUFFICES ASSUME TypeOK, RequestInv, ReadInv, KeyInv, UsedInv, [Next]_vars
             PROVE  UsedInv'
  OBVIOUS
<1> DEFINE Using(q, i) == /\ req[q].op = "accept" /\ req[q].at = i.token
                          /\ req[q].pc \in {"look", "join", "cutOff"}
           Explained(i) == \/ IsMember(i.household, i.user)
                           \/ \E q \in Came : Removed(q, i.household, i.user)
                           \/ \E q \in Came : Using(q, i)
<1>1. ASSUME NEW r \in Request, Serve(r) \/ CutOff(r), NEW i \in invitations', i.used
      PROVE  \/ IsMember(i.household, i.user)'
             \/ \E q \in Came' : Removed(q, i.household, i.user)'
             \/ \E q \in Came' : Using(q, i)'
  <2>1. CASE i \notin invitations
    <3>1. MarkUsed(r)
      <4>1. ~SaveInvitation(r)
        BY <1>1, <2>1 DEF SaveInvitation, Sent
      <4>2. QED
        BY <1>1, <2>1, <4>1, TablesMove DEF DeleteHousehold
    <3>2. i = [read[r] EXCEPT !.used = TRUE]
      BY <1>1, <2>1, <3>1 DEF MarkUsed
    <3>3. r \in Came /\ req[r].op = "accept" /\ req[r].pc = "write"
      BY <3>1 DEF MarkUsed, At
    <3>4. read[r] \in Invitation /\ read[r].token = req[r].at
      BY <3>3 DEF ReadInv, ReadsInvitation
    <3>5. i.token = req[r].at
      BY <3>2, <3>4 DEF Invitation
    <3>6. /\ r \in Came' /\ req'[r].op = "accept" /\ req'[r].at = req[r].at
          /\ req'[r].pc = "look"
      <4>1. r \in Came' /\ req'[r].op = "accept" /\ req'[r].at = req[r].at
        BY <3>3, AskingKept DEF KeepsAsking
      <4>2. req'[r].pc = "look"
        BY <3>1, <3>3 DEF MarkUsed, Goto, TypeOK, Came, Asked
      <4>3. QED
        BY <4>1, <4>2
    <3>7. QED
      BY <3>5, <3>6
  <2>2. CASE i \in invitations
    <3>1. ~(DeleteHousehold(r) /\ req[r].at = i.household)
      BY <1>1 DEF DeleteHousehold
    <3>2. CASE IsMember(i.household, i.user)
      <4>1. CASE RemoveMember(r) /\ req[r].at = i.household /\ req[r].target = i.user
        <5>1. r \in Came /\ req[r].op = "remove"
          BY <4>1 DEF RemoveMember, At
        <5>2. /\ r \in Came' /\ req'[r].op = "remove" /\ req'[r].at = i.household
              /\ req'[r].target = i.user
          BY <4>1, <5>1, AskingKept DEF KeepsAsking
        <5>3. req'[r].pc = "done"
          BY <4>1, <5>1 DEF RemoveMember, Goto, TypeOK, Came, Asked
        <5>4. QED
          BY <5>2, <5>3 DEF Removed, Done
      <4>2. CASE ~(RemoveMember(r) /\ req[r].at = i.household /\ req[r].target = i.user)
        BY <1>1, <3>1, <3>2, <4>2, MemberKept
      <4>3. QED
        BY <4>1, <4>2
    <3>3. ASSUME NEW q \in Came, Removed(q, i.household, i.user)
          PROVE  q \in Came' /\ Removed(q, i.household, i.user)'
      BY <3>3, AskingKept DEF KeepsAsking, Removed, Done, Over
    <3>4. ASSUME NEW q \in Came, Using(q, i)
          PROVE  (q \in Came' /\ Using(q, i)') \/ IsMember(i.household, i.user)'
      <4>1. CASE q # r
        BY <1>1, <3>4, <4>1, OthersStay DEF Came
      <4>2. CASE q = r
        <5>1. CASE req'[r].pc \in {"look", "join", "cutOff"}
          BY <3>4, <4>2, <5>1, AskingKept DEF KeepsAsking
        <5>2. ASSUME req[r].pc \in {"look", "join"}
              PROVE  read[r].household = i.household /\ req[r].user = i.user
          <6>1. ReadsInvitation(r)
            BY <3>4, <4>2, <5>2 DEF ReadsInvitation
          <6>2. read[r] \in KnownInvitations /\ i \in KnownInvitations
            BY <2>2, <6>1 DEF KnownInvitations
          <6>3. read[r].token = i.token /\ read[r].user = req[r].user
            BY <3>4, <4>2, <6>1 DEF ReadInv
          <6>4. QED
            BY <6>2, <6>3 DEF KeyInv
        <5>3. CASE LookForMember(r) /\ IsMember(read[r].household, req[r].user)
          <6>1. IsMember(i.household, i.user) /\ members' = members
            BY <5>2, <5>3 DEF LookForMember, At, tables
          <6>2. QED
            BY <6>1 DEF IsMember
        <5>4. CASE SaveMember(r)
          <6> DEFINE row == Row(r, read[r].household, req[r].user, "member")
          <6>1. row.household = i.household /\ row.user = i.user
            BY <5>2, <5>4 DEF SaveMember, At, Row
          <6>2. row \in members'
            BY <5>4 DEF SaveMember
          <6>3. QED
            BY <6>1, <6>2 DEF IsMember
        <5>5. QED
          BY <1>1, <3>4, <4>2, <5>1, <5>3, <5>4, Enters
      <4>3. QED
        BY <4>1, <4>2
    <3>5. Explained(i)
      BY <1>1, <2>2 DEF UsedInv
    <3>6. QED
      BY <3>2, <3>3, <3>4, <3>5
  <2>3. QED
    BY <2>1, <2>2
<1>2. CASE UNCHANGED vars
  BY <1>2 DEF vars, UsedInv, IsMember, Removed, Came, Done
<1>3. CASE \E r \in Request : Serve(r) \/ CutOff(r)
  BY <1>1, <1>3 DEF UsedInv
<1>4. QED
  BY <1>2, <1>3 DEF Next

-----------------------------------------------------------------------------
(* An admin remains *)

LEMMA AdminKept ==
  ASSUME ReadInv, KeyInv, NEW r \in Request, Serve(r) \/ CutOff(r),
         NEW h, NEW u, IsAdmin(h, u),
         ~(DeleteHousehold(r) /\ req[r].at = h),
         ~(RemoveMember(r) /\ req[r].at = h /\ req[r].target = u),
         ~(SaveRole(r) /\ req[r].at = h /\ req[r].target = u)
  PROVE  IsAdmin(h, u)'
<1>1. PICK m \in members : m.household = h /\ m.user = u /\ m.role = "admin"
  BY DEF IsAdmin
<1>2. CASE SaveRole(r)
  <2>1. /\ read[r] \in KnownMembers
        /\ read[r].household = req[r].at /\ read[r].user = req[r].target
    BY <1>2 DEF SaveRole, ReadsMember, ReadInv, KnownMembers
  <2>2. m.id # read[r].id
    BY <1>1, <1>2, <2>1 DEF KeyInv, KnownMembers
  <2>3. m \in members'
    BY <1>1, <1>2, <2>2 DEF SaveRole
  <2>4. QED
    BY <1>1, <2>3 DEF IsAdmin
<1>3. CASE RemoveMember(r)
  BY <1>1, <1>3 DEF RemoveMember, IsAdmin
<1>4. CASE DeleteHousehold(r)
  BY <1>1, <1>4 DEF DeleteHousehold, IsAdmin
<1>5. CASE members \subseteq members'
  BY <1>1, <1>5 DEF IsAdmin
<1>6. QED
  BY <1>2, <1>3, <1>4, <1>5, TablesMove DEF SaveAdmin, SaveMember

LEMMA AdminStep ==
  /\ TypeOK /\ RequestInv /\ ReadInv /\ KeyInv /\ RenameInv /\ AdminInv
  /\ [Next]_vars
  => AdminInv'
<1> SUFFICES ASSUME TypeOK, RequestInv, ReadInv, KeyInv, RenameInv, AdminInv, [Next]_vars
             PROVE  AdminInv'
  OBVIOUS
<1>1. \A h : Contested(h) => Contested(h)'
  BY OverlapKept
<1>2. ASSUME NEW r \in Request, Serve(r) \/ CutOff(r), NEW s \in Came',
             req'[s].op \in AdminOps, req'[s].pc \in {"find", "write"}
      PROVE  (IsAdmin(req[s].at, req[s].user) \/ Contested(req[s].at))'
  <2>1. s \in Request /\ s \in Came
    BY <1>2, Enters, OthersStay DEF Came
  <2>2. req'[s].at = req[s].at /\ req'[s].user = req[s].user /\ req'[s].op = req[s].op
    BY <2>1, AskingKept DEF KeepsAsking
  <2>3. CASE s = r
    <3>1. /\ UNCHANGED tables
          /\ IsAdmin(req[r].at, req[r].user) \/ Contested(req[r].at)
      BY <1>2, <2>3, Enters DEF AdminInv
    <3>2. QED
      BY <1>1, <2>2, <2>3, <3>1 DEF tables, IsAdmin
  <2>4. CASE s # r
    <3>1. req[s].op \in AdminOps /\ req[s].pc \in {"find", "write"}
      BY <1>2, <2>1, <2>4, OthersStay
    <3>2. IsAdmin(req[s].at, req[s].user) \/ Contested(req[s].at)
      BY <2>1, <3>1 DEF AdminInv
    <3>3. CASE /\ DeleteHousehold(r) \/ RemoveMember(r) \/ SaveRole(r)
               /\ req[r].at = req[s].at
      <4>1. r \in InFlight /\ s \in InFlight /\ req[r].op \in AdminOps
        BY <2>1, <3>1, <3>3
        DEF DeleteHousehold, RemoveMember, SaveRole, At, InFlight, Over, AdminOps
      <4>2. r \in Asks(AdminOps, req[s].at) /\ s \in Asks(AdminOps, req[s].at)
        BY <3>1, <3>3, <4>1 DEF Asks, InFlight
      <4>3. Overlap(r, s)
        BY <2>4, <4>1, InFlightOverlap
      <4>4. Contested(req[s].at)
        BY <4>2, <4>3 DEF Contested
      <4>5. QED
        BY <1>1, <2>2, <4>4
    <3>4. CASE ~(/\ DeleteHousehold(r) \/ RemoveMember(r) \/ SaveRole(r)
                 /\ req[r].at = req[s].at)
      <4>1. IsAdmin(req[s].at, req[s].user)
              => \A h, u : h = req[s].at /\ u = req[s].user => IsAdmin(h, u)'
        BY <1>2, <3>4, AdminKept
      <4>2. QED
        BY <1>1, <2>2, <3>2, <4>1
    <3>5. QED
      BY <3>3, <3>4
  <2>5. QED
    BY <2>3, <2>4
<1>3. ASSUME NEW r \in Request, Serve(r) \/ CutOff(r), NEW h \in households'
      PROVE  \/ \E u \in User : IsAdmin(h, u)'
             \/ h \in Request /\ req'[h].pc \in {"join", "cutOff"}
             \/ \E s \in Asks({"remove", "setRole"}, h)' : req'[s].target = req'[s].user
             \/ Contested(h)'
  <2>1. CASE h \notin households /\ SaveName(r)
    <3>1. Reopened(h)
      BY <1>3, <2>1 DEF SaveName, RenameInv
    <3>2. Contested(h)
      BY <3>1 DEF Reopened, Contested, Asks, AdminOps
    <3>3. QED
      BY <1>1, <3>2
  <2>2. CASE h \notin households /\ SaveHousehold(r)
    <3>1. h = r /\ r \in Came
      BY <1>3, <2>2 DEF SaveHousehold, At
    <3>2. req'[r].pc = "join"
      BY <2>2, <3>1 DEF SaveHousehold, Goto, TypeOK, Came, Asked
    <3>3. QED
      BY <3>1, <3>2
  <2>3. ASSUME NEW s \in Asks({"remove", "setRole"}, h), req[s].target = req[s].user
        PROVE  /\ s \in Asks({"remove", "setRole"}, h)'
               /\ req'[s].target = req'[s].user
    BY <2>3, AskingKept DEF KeepsAsking, Asks
  <2>4. CASE h \in households /\ (RemoveMember(r) \/ SaveRole(r)) /\ req[r].at = h
    <3>1. /\ r \in Asks({"remove", "setRole"}, h) /\ r \in Came
          /\ req[r].op \in AdminOps /\ req[r].pc = "write" /\ req[r].user \in User
      BY <2>4 DEF RemoveMember, SaveRole, At, Asks, AdminOps, TypeOK, Came, Asked
    <3>2. IsAdmin(h, req[r].user) \/ Contested(h)
      BY <2>4, <3>1 DEF AdminInv
    <3>3. CASE req[r].target = req[r].user
      BY <2>3, <3>1, <3>3
    <3>4. CASE req[r].target # req[r].user /\ IsAdmin(h, req[r].user)
      <4>1. ~DeleteHousehold(r)
        BY <2>4 DEF DeleteHousehold, RemoveMember, SaveRole, At
      <4>2. \A u : u = req[r].user => IsAdmin(h, u)'
        BY <1>3, <3>4, <4>1, AdminKept
      <4>3. QED
        BY <3>1, <4>2
    <3>5. QED
      BY <1>1, <3>2, <3>3, <3>4
  <2>5. CASE h \in households /\ ~((RemoveMember(r) \/ SaveRole(r)) /\ req[r].at = h)
    <3>1. ~(DeleteHousehold(r) /\ req[r].at = h)
      BY <1>3 DEF DeleteHousehold
    <3>2. ASSUME NEW u \in User, IsAdmin(h, u) PROVE IsAdmin(h, u)'
      BY <1>3, <2>5, <3>1, <3>2, AdminKept
    <3>3. ASSUME h \in Request, req[h].pc \in {"join", "cutOff"}
          PROVE  req'[h].pc \in {"join", "cutOff"} \/ \E u \in User : IsAdmin(h, u)'
      <4>1. h \in Came /\ req[h].op = "create" /\ req[h] \in Asked
        BY <2>5, <3>3, HouseholdAssumption DEF KeyInv, Created, Came, TypeOK
      <4>2. CASE h = r
        <5>1. SaveAdmin(r) \/ CutOff(r)
          BY <1>3, <3>3, <4>1, <4>2
          DEF Serve, Arrive, RequireAdmin, SaveHousehold, GetHousehold, SaveName,
              DeleteHousehold, SaveInvitation, FindValidInvitation, MarkUsed,
              LookForMember, SaveMember, RemoveMember, FindMember, SaveRole,
              HouseholdGone, At
        <5>2. CASE SaveAdmin(r)
          <6> DEFINE row == Row(r, r, req[r].user, "admin")
          <6>1. row \in members' /\ row.household = r /\ row.user = req[r].user
                /\ row.role = "admin"
            BY <5>2 DEF SaveAdmin, Row
          <6>2. req[r].user \in User
            BY <4>1, <4>2 DEF Asked
          <6>3. QED
            BY <4>2, <6>1, <6>2 DEF IsAdmin
        <5>3. CASE CutOff(r)
          BY <4>1, <4>2, <5>3 DEF CutOff, Goto, TypeOK, Asked
        <5>4. QED
          BY <5>1, <5>2, <5>3
      <4>3. CASE h # r
        BY <1>3, <3>3, <4>3, OthersStay
      <4>4. QED
        BY <4>2, <4>3
    <3>4. \/ \E u \in User : IsAdmin(h, u)
          \/ h \in Request /\ req[h].pc \in {"join", "cutOff"}
          \/ \E s \in Asks({"remove", "setRole"}, h) : req[s].target = req[s].user
          \/ Contested(h)
      BY <2>5 DEF AdminInv, AdminRemains, Contested
    <3>5. QED
      BY <1>1, <2>3, <3>2, <3>3, <3>4
  <2>6. QED
    BY <1>3, <2>1, <2>2, <2>4, <2>5, TablesMove DEF DeleteHousehold
<1>4. CASE UNCHANGED vars
  BY <1>1, <1>4
  DEF vars, AdminInv, AdminRemains, IsAdmin, Came, Asks, Contested, Overlap
<1>5. CASE \E r \in Request : Serve(r) \/ CutOff(r)
  <2>1. AdminRemains'
    BY <1>3, <1>5 DEF AdminRemains, Contested
  <2>2. QED
    BY <1>2, <1>5, <2>1 DEF AdminInv
<1>6. QED
  BY <1>4, <1>5 DEF Next

-----------------------------------------------------------------------------
(* Theorems *)

LEMMA Initially == Init => IInv
<1> SUFFICES ASSUME Init PROVE IInv
  OBVIOUS
<1>1. Came = {} /\ households = {Home} /\ Created = {Home}
  BY DEF Init, Came, Created
<1>2. Home \in Id /\ Guest \in Id /\ Founder \in User /\ Guest \in User
  BY HouseholdAssumption DEF Id
<1> DEFINE first == Row(Home, Home, Founder, "admin")
           Late(row) == row \in Member /\ row.id = Guest /\ row.household = Home
                          /\ row.user = Guest
           open == Sent(Home, Home, Guest, FALSE)
           used == Sent(Home, Home, Guest, TRUE)
<1>3. /\ first \in Member /\ first.id = Home /\ first.household = Home
      /\ first.user = Founder /\ first.role = "admin"
      /\ open \in Invitation /\ open.household = Home /\ open.token = Home
      /\ open.user = Guest /\ ~open.used
      /\ used \in Invitation /\ used.household = Home /\ used.token = Home
      /\ used.user = Guest /\ used.used
  BY <1>2 DEF Row, Sent, Member, Invitation, MemberRole
<1>4. \A role \in MemberRole : Late(Row(Guest, Home, Guest, role))
  BY <1>2 DEF Row, Member
<1>5. \/ members = {first} /\ invitations = {}
      \/ members = {first} /\ invitations = {open}
      \/ \E row : Late(row) /\ members = {first, row} /\ invitations = {used}
  <2>1. CASE \E role \in MemberRole :
               /\ members = {first, Row(Guest, Home, Guest, role)}
               /\ invitations = {used}
    <3>1. PICK role \in MemberRole :
            members = {first, Row(Guest, Home, Guest, role)} /\ invitations = {used}
      BY <2>1
    <3>2. Late(Row(Guest, Home, Guest, role))
      BY <1>4
    <3> HIDE DEF first, used, Late
    <3>3. QED
      BY <3>1, <3>2
  <2>2. CASE members = {first} /\ invitations \in {{}, {open}}
    BY <2>2
  <2>3. QED
    BY <2>1, <2>2 DEF Init
<1>6. Founder # Guest /\ Home # Guest
  BY HouseholdAssumption
<1>7. /\ members \subseteq Member /\ invitations \subseteq Invitation
      /\ \A m \in members : m.household = Home /\ m.id \in {Home, Guest}
                              /\ m.user \in {Founder, Guest}
                              /\ (m.id = Guest <=> m.user = Guest)
      /\ \A m, n \in members : m.id = n.id => m = n
      /\ \A i \in invitations : i.household = Home /\ i.token = Home /\ i.user = Guest
      /\ \A i \in invitations : i.used => IsMember(Home, Guest)
      /\ \A m \in members : m.user = Guest => \E i \in invitations : i.used
      /\ IsAdmin(Home, Founder)
  <2> HIDE DEF first, open, used
  <2>1. CASE members = {first} /\ invitations = {}
    BY <2>1, <1>3, <1>6 DEF IsMember, IsAdmin
  <2>2. CASE members = {first} /\ invitations = {open}
    BY <2>2, <1>3, <1>6 DEF IsMember, IsAdmin
  <2>3. ASSUME NEW row, Late(row), members = {first, row}, invitations = {used}
        PROVE  /\ members \subseteq Member /\ invitations \subseteq Invitation
               /\ \A m \in members : m.household = Home /\ m.id \in {Home, Guest}
                                       /\ m.user \in {Founder, Guest}
                                       /\ (m.id = Guest <=> m.user = Guest)
               /\ \A m, n \in members : m.id = n.id => m = n
               /\ \A i \in invitations :
                    i.household = Home /\ i.token = Home /\ i.user = Guest
               /\ \A i \in invitations : i.used => IsMember(Home, Guest)
               /\ \A m \in members : m.user = Guest => \E i \in invitations : i.used
               /\ IsAdmin(Home, Founder)
    BY <2>3, <1>3, <1>6 DEF IsMember, IsAdmin
  <2>4. QED
    BY <1>5, <2>1, <2>2, <2>3
<1>8. TypeOK
  BY <1>1, <1>2, <1>7 DEF Init, TypeOK
<1>9. KnownMembers = members /\ KnownInvitations = invitations
  BY <1>1 DEF KnownMembers, KnownInvitations, ReadsMember, ReadsInvitation, At
<1>10. KeyInv
  BY <1>1, <1>7, <1>9 DEF KeyInv
<1>11. NewInv /\ RequestInv /\ ReadInv /\ RenameInv /\ FreshInv /\ OutInv
  BY <1>1
  DEF NewInv, RequestInv, ReadInv, RenameInv, FreshInv, OutInv, Unfinished, ReadsMember,
      ReadsInvitation, At, Removed
<1>12. Closed
  BY <1>1, <1>7 DEF Closed
<1>13. Single
  BY <1>7 DEF Single
<1>14. InvitedInv
  BY <1>1, <1>7 DEF InvitedInv, Invited, FounderOf, At, ReadsMember
<1>15. UsedInv
  BY <1>7 DEF UsedInv
<1>16. AdminInv
  BY <1>1, <1>2, <1>7 DEF AdminInv, AdminRemains
<1>17. QED
  BY <1>8, <1>10, <1>11, <1>12, <1>13, <1>14, <1>15, <1>16 DEF IInv

\* The inductive invariant holds, whatever requests come and however their
\* statements interleave.
THEOREM Invariance == Spec => []IInv
<1>1. Init => IInv
  BY Initially
<1>2. IInv /\ [Next]_vars => IInv'
  BY TypeStep, RequestStep, ReadStep, KeyStep, NewStep, RenameStep, ClosedStep, FreshStep,
     SingleStep, OutStep, InvitedStep, UsedStep, AdminStep
  DEF IInv
<1>3. QED
  BY <1>1, <1>2, PTL DEF Spec

\* Types: every household, member and invitation is one that a request has made,
\* and what a request has read is such a row, or nothing.
THEOREM TypeCorrect == Spec => []TypeOK
<1>1. IInv => TypeOK
  BY DEF IInv
<1>2. QED
  BY <1>1, Invariance, PTL

\* acceptInvitation is the only way into a household that one has not made, and an
\* invitation that is used up has brought its user in, for any interleaving.
THEOREM OnlyTheInvited == Spec => []MembersWereInvited
<1>1. IInv => MembersWereInvited
  <2> SUFFICES ASSUME IInv PROVE MembersWereInvited
    OBVIOUS
  <2>1. ASSUME NEW m \in members
        PROVE  \/ m.user = FounderOf(m.household)
               \/ \E i \in invitations :
                    i.household = m.household /\ i.user = m.user /\ i.used
               \/ Reopened(m.household)
    BY DEF IInv, InvitedInv, Invited
  <2>2. ASSUME NEW i \in invitations, i.used
        PROVE  \/ IsMember(i.household, i.user)
               \/ \E r \in Asks({"remove"}, i.household) : req[r].target = i.user /\ Done(r)
               \/ \E r \in Asks({"accept"}, i.token) : req[r].pc \in {"look", "join", "cutOff"}
    BY <2>2 DEF IInv, UsedInv, Removed, Asks
  <2>3. QED
    BY <2>1, <2>2 DEF MembersWereInvited
<1>2. QED
  BY <1>1, Invariance, PTL

\* A user has two memberships in a household only if an accept or a change of role
\* of his has overlapped with an accept, a removal or a deletion.
THEOREM NoSecondMembership == Spec => []OneMembership
<1>1. IInv => OneMembership
  BY DEF IInv, Single, Doubted, OneMembership
<1>2. QED
  BY <1>1, Invariance, PTL

\* removeMember lasts: only an invitation accepted since, or a change of role that
\* overlapped with the removal, makes a member of whom it has removed.
THEOREM RemovalLasts == Spec => []RemovedStaysOut
<1>1. IInv => RemovedStaysOut
  <2> SUFFICES ASSUME IInv, NEW h \in households, NEW r \in Asks({"remove"}, h),
                      Done(r), IsMember(h, req[r].target)
               PROVE  Returned(r)
    BY DEF RemovedStaysOut, Returned
  <2>1. r \in Request /\ r \in Came /\ req[r].target \in User
    BY DEF Asks, Came, IInv, TypeOK, Asked
  <2>2. h \in Created
    BY DEF IInv, KeyInv
  <2>3. Removed(r, h, req[r].target)
    BY <2>1 DEF Asks, Removed
  <2>4. QED
    BY <2>1, <2>2, <2>3 DEF IInv, OutInv
<1>2. QED
  BY <1>1, Invariance, PTL

\* deleteHousehold lasts and takes everything along: no member and no invitation is
\* without a household, and only a rename that overlapped with the deletion brings
\* the household back.
THEOREM DeletionLasts == Spec => []ClosedForGood
<1>1. IInv => ClosedForGood
  BY DEF IInv, Closed, ClosedForGood, Asks
<1>2. QED
  BY <1>1, Invariance, PTL

\* A household keeps an admin, unless an admin has turned on himself, its creation
\* was cut short, or two operations of admins have overlapped.
THEOREM AdminStays == Spec => []AdminRemains
<1>1. IInv => AdminRemains
  BY DEF IInv, AdminInv
<1>2. QED
  BY <1>1, Invariance, PTL
=============================================================================
