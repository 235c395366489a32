------------------------- MODULE MCHouseholdService -------------------------
(***************************************************************************)
(* Small instances of HouseholdService.  Requests are interchangeable; the *)
(* users are not, one of them has made the household.                      *)
(***************************************************************************)
EXTENDS HouseholdService, TLC

CONSTANTS anna, ben

Want(op, u, target, role) == [op |-> op, user |-> u, target |-> target, role |-> role]

MCWanted ==
  {Want(op, anna, anna, "member") : op \in {"create", "rename", "delete"}}
    \cup {Want("invite", anna, u, "member") : u \in {anna, ben}}
    \cup {Want("accept", u, u, "member") : u \in {anna, ben}}
    \cup {Want("remove", u, v, "member") : u \in {anna, ben}, v \in {anna, ben}}
    \cup {Want("setRole", anna, u, role) : u \in {anna, ben}, role \in {"member", "admin"}}

MCSymmetry == Permutations(Request)
=============================================================================
