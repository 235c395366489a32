---------------------------- MODULE AuthService ----------------------------
(***************************************************************************)
(* auth-service: the refresh tokens of one user.  A session is a chain of  *)
(* tokens: a login issues the first one, each refresh deletes the token it *)
(* is given and issues the next, with no database transaction around the   *)
(* two.  A token that is not found or has expired counts as stolen, and    *)
(* deletes every token of the user.                                        *)
(*                                                                         *)
(* A call is a request that the service is serving.  Calls interleave at   *)
(* their awaits; those of one call that touch no state a concurrent call   *)
(* can change are one step with the next (the bcrypt comparisons, the hash *)
(* of a new token).  Clients take the reply, or lose it, in modules that   *)
(* extend this one.                                                        *)
(***************************************************************************)
EXTENDS Integers

CONSTANTS
  Call,       \* calls that can be served at the same time
  MaxToken,   \* bound: tokens issued, a token is its number
  NoToken     \* no cookie

ASSUME TokenAssumption == MaxToken \in Nat /\ NoToken \notin Nat

VARIABLES
  user,       \* the row in users: "active" or "gone"
  valid,      \* rows in refresh_tokens
  expired,    \* tokens whose expires_at has passed
  issued,     \* tokens generated so far
  call        \* what each call is doing

authVars == <<user, valid, expired, issued, call>>

Token == 1..MaxToken
Given == Token \cup {NoToken}
Op == {"login", "refresh", "logout", "delete"}
NoCall == [op |-> "none", step |-> "free", token |-> NoToken, fresh |-> NoToken]
CallState == [op: Op \cup {"none"},
              step: {"free", "find", "rotate", "revoke", "issue", "drop",
                     "deleteUser", "deleteTokens", "ok", "failed"},
              token: Given, fresh: Given]

AuthTypeOK ==
  /\ user \in {"active", "gone"}
  /\ valid \subseteq Token
  /\ expired \subseteq Token
  /\ issued \in 0..MaxToken
  /\ call \in [Call -> CallState]

In(c, op, step) == call[c].op = op /\ call[c].step = step
Free(c) == call[c].step = "free"
Goto(c, step) == call' = [call EXCEPT ![c].step = step]

\* A client sends a request, with its cookie.  Without one a refresh is refused
\* and a logout has nothing to do.
Request(op, token) ==
  [NoCall EXCEPT !.op = op, !.token = token,
     !.step = CASE op = "login" -> IF user = "active" THEN "issue" ELSE "failed"
                [] op = "refresh" -> IF token = NoToken THEN "failed" ELSE "find"
                [] op = "logout" -> IF token = NoToken THEN "ok" ELSE "find"
                [] op = "delete" -> "deleteUser"]

\* refresh: all tokens of the user are read and compared with the given one.
FindToken(c) ==
  /\ In(c, "refresh", "find")
  /\ Goto(c, IF call[c].token \in valid \ expired THEN "rotate" ELSE "revoke")
  /\ UNCHANGED <<user, valid, expired, issued>>

RevokeAll(c) ==
  /\ In(c, "refresh", "revoke")
  /\ valid' = {}
  /\ Goto(c, "failed")
  /\ UNCHANGED <<user, expired, issued>>

\* Mutant: delete({ userId }) in place of delete({ id }).
RotateEndsAll(c) ==
  /\ In(c, "refresh", "rotate")
  /\ valid' = {}
  /\ Goto(c, "issue")
  /\ UNCHANGED <<user, expired, issued>>

RotateToken(c) ==
  /\ In(c, "refresh", "rotate")
  /\ valid' = valid \ {call[c].token}
  /\ Goto(c, "issue")
  /\ UNCHANGED <<user, expired, issued>>

\* Mutant: refresh_tokens has no foreign key.
IssueTokenUnchecked(c) ==
  /\ call[c].step = "issue"
  /\ issued < MaxToken
  /\ issued' = issued + 1
  /\ valid' = valid \cup {issued + 1}
  /\ call' = [call EXCEPT ![c].step = "ok", ![c].fresh = issued + 1]
  /\ UNCHANGED <<user, expired>>

\* issueTokens; when the user is gone the lookup or the foreign key fails.
IssueToken(c) ==
  /\ call[c].step = "issue"
  /\ \/ /\ user = "active"
        /\ issued < MaxToken
        /\ issued' = issued + 1
        /\ valid' = valid \cup {issued + 1}
        /\ call' = [call EXCEPT ![c].step = "ok", ![c].fresh = issued + 1]
     \/ /\ user = "gone"
        /\ Goto(c, "failed")
        /\ UNCHANGED <<issued, valid>>
  /\ UNCHANGED <<user, expired>>

FindOwnToken(c) ==
  /\ In(c, "logout", "find")
  /\ Goto(c, IF call[c].token \in valid THEN "drop" ELSE "ok")
  /\ UNCHANGED <<user, valid, expired, issued>>

\* Mutant: logout only clears the cookie.
DropNothing(c) ==
  /\ In(c, "logout", "drop")
  /\ Goto(c, "ok")
  /\ UNCHANGED <<user, valid, expired, issued>>

DropToken(c) ==
  /\ In(c, "logout", "drop")
  /\ valid' = valid \ {call[c].token}
  /\ Goto(c, "ok")
  /\ UNCHANGED <<user, expired, issued>>

\* deleteUser: the foreign key deletes the tokens along with the user.
DeleteUser(c) ==
  /\ In(c, "delete", "deleteUser")
  /\ user' = "gone"
  /\ valid' = {}
  /\ Goto(c, "deleteTokens")
  /\ UNCHANGED <<expired, issued>>

DeleteTokens(c) ==
  /\ In(c, "delete", "deleteTokens")
  /\ valid' = {}
  /\ Goto(c, "ok")
  /\ UNCHANGED <<user, expired, issued>>

Serve(c) ==
  \/ FindToken(c) \/ RevokeAll(c) \/ RotateToken(c) \/ IssueToken(c)
  \/ FindOwnToken(c) \/ DropToken(c)
  \/ DeleteUser(c) \/ DeleteTokens(c)

\* The process dies: what it was serving fails where it was.
CrashAuth ==
  /\ call' = [c \in Call |-> IF call[c].step \in {"free", "ok", "failed"}
                             THEN call[c] ELSE [call[c] EXCEPT !.step = "failed"]]
  /\ UNCHANGED <<user, valid, expired, issued>>

\* The reply of a call is lost on its way.
LoseReply(c) ==
  /\ call[c].step = "ok"
  /\ Goto(c, "failed")
  /\ UNCHANGED <<user, valid, expired, issued>>

\* Thirty days have passed since it was issued.
TokenExpires(t) ==
  /\ t \in valid \ expired
  /\ expired' = expired \cup {t}
  /\ UNCHANGED <<user, valid, issued, call>>
=============================================================================
