----------------------------- MODULE WebSession -----------------------------
(***************************************************************************)
(* The browsers of one user, on top of AuthService.  A browser has one     *)
(* cookie jar and one window.  The shell and each micro frontend bring     *)
(* their own copy of libs/api-client/src/client.ts: the access token is    *)
(* shared through window, but isRefreshing and refreshSubscribers are not. *)
(*                                                                         *)
(* A request that is answered 401 starts a refresh, or waits for the one   *)
(* its bundle has started.  The browser takes the new cookie from the      *)
(* reply; the refresh cookie a call carries is the one at its start.       *)
(***************************************************************************)
EXTENDS AuthService, FiniteSets, Functions

CONSTANTS
  Browser,
  Bundle,
  Home,         \* the browser of each bundle
  Req,          \* API requests the pages make, each of them once
  BundleOf,     \* the bundle of each request
  LogoutReq,    \* those that are POST /auth/logout
  Deleting,     \* bound: browsers in which the user may delete the account
  MaxLogins,    \* bound: logins after the initial ones
  MaxExpiries,  \* bound: access tokens that run out
  FaultKinds,   \* which faults happen: "crash", "lost", "expiry"
  MaxFaults     \* bound

ASSUME WebAssumption ==
  /\ Call = Browser \cup Bundle
  /\ Browser \cap Bundle = {}
  /\ Home \in [Bundle -> Browser]
  /\ BundleOf \in [Req -> Bundle]
  /\ LogoutReq \subseteq Req
  /\ IsFiniteSet(Browser) /\ Cardinality(Browser) <= MaxToken
  /\ MaxLogins \in Nat /\ MaxExpiries \in Nat /\ MaxFaults \in Nat

VARIABLES
  cookie,       \* refresh token in each browser's jar
  access,       \* access token in each window: "none", "good" or "old"
  refreshing,   \* bundles whose isRefreshing is set
  req,          \* state of each request
  retried,      \* requests with _retry set
  logins, expiries, faults,
  issuedTo,     \* history: the browser each token was issued to
  signedIn,     \* history: browsers that are signed in, as their user sees it
  shared,       \* history: browsers that had two calls going at once
  refused       \* history: bundles of which a refresh was refused or lost

webVars == <<cookie, access, refreshing, req, retried>>
boundVars == <<logins, expiries, faults>>
historyVars == <<issuedTo, signedIn, shared, refused>>
vars == <<authVars, webVars, boundVars, historyVars>>

\* A request under way carries a good access token ("sent") or has been, or will
\* be, answered 401.
ReqState == {"new", "sent", "unauthorized", "refresher", "queued", "leaving",
             "done", "failed"}
Access == {"none", "good", "old"}

TypeOK ==
  /\ AuthTypeOK
  /\ cookie \in [Browser -> Given]
  /\ access \in [Browser -> Access]
  /\ refreshing \subseteq Bundle
  /\ req \in [Req -> ReqState]
  /\ retried \subseteq Req
  /\ logins \in 0..MaxLogins
  /\ expiries \in 0..MaxExpiries
  /\ faults \in 0..MaxFaults
  /\ issuedTo \in [Token -> Browser \cup {NoToken}]
  /\ signedIn \subseteq Browser
  /\ shared \subseteq Browser
  /\ refused \subseteq Bundle

\* Every browser starts signed in; its access token has run out.
InitialToken == CHOOSE f \in Bijection(Browser, 1..Cardinality(Browser)) : TRUE

Init ==
  /\ user = "active"
  /\ issued = Cardinality(Browser)
  /\ valid = 1..Cardinality(Browser)
  /\ expired = {}
  /\ call = [c \in Call |-> NoCall]
  /\ cookie = InitialToken
  /\ access = [w \in Browser |-> "old"]
  /\ refreshing = {}
  /\ req = [q \in Req |-> "new"]
  /\ retried = {}
  /\ logins = 0
  /\ expiries = 0
  /\ faults = 0
  /\ issuedTo = [t \in Token |->
                  IF t \in valid THEN CHOOSE w \in Browser : InitialToken[w] = t
                  ELSE NoToken]
  /\ signedIn = Browser
  /\ shared = {}
  /\ refused = {}

-----------------------------------------------------------------------------
(* Calls to auth-service *)

window(q) == Home[BundleOf[q]]
CallsOf(w) == {w} \cup {b \in Bundle : Home[b] = w}

StartCall(c, w, op) ==
  /\ Free(c)
  /\ call' = [call EXCEPT ![c] = Request(op, cookie[w])]
  /\ shared' = IF \E d \in CallsOf(w) : ~Free(d) THEN shared \cup {w} ELSE shared
  /\ UNCHANGED <<user, valid, expired, issued, issuedTo, refused>>

Finish(c) ==
  /\ call' = [call EXCEPT ![c] = NoCall]
  /\ UNCHANGED <<user, valid, expired, issued>>

ServeCall(c) ==
  /\ Serve(c)
  /\ issuedTo' = [t \in Token |->
                   IF t = issued' /\ issued' > issued
                   THEN (IF c \in Bundle THEN Home[c] ELSE c) ELSE issuedTo[t]]
  /\ UNCHANGED <<webVars, boundVars, signedIn, shared, refused>>

-----------------------------------------------------------------------------
(* The interceptors of client.ts *)

Send(q) == IF access[window(q)] = "good" THEN "sent" ELSE "unauthorized"

SendRequest(q) ==
  /\ req[q] = "new"
  /\ req' = [req EXCEPT ![q] = Send(q)]
  /\ UNCHANGED <<authVars, cookie, access, refreshing, retried, boundVars,
                 historyVars>>

Answered(q) ==
  /\ req[q] = "sent"
  /\ q \notin LogoutReq
  /\ req' = [req EXCEPT ![q] = "done"]
  /\ UNCHANGED <<authVars, cookie, access, refreshing, retried, boundVars,
                 historyVars>>

RejectRetried(q) ==
  /\ req[q] = "unauthorized"
  /\ q \in retried
  /\ req' = [req EXCEPT ![q] = "failed"]
  /\ UNCHANGED <<authVars, cookie, access, refreshing, retried, boundVars,
                 historyVars>>

JoinRefresh(q) ==
  /\ req[q] = "unauthorized"
  /\ q \notin retried
  /\ BundleOf[q] \in refreshing
  /\ req' = [req EXCEPT ![q] = "queued"]
  /\ UNCHANGED <<authVars, cookie, access, refreshing, retried, boundVars,
                 historyVars>>

StartRefresh(q) ==
  /\ req[q] = "unauthorized"
  /\ q \notin retried
  /\ BundleOf[q] \notin refreshing
  /\ retried' = retried \cup {q}
  /\ refreshing' = refreshing \cup {BundleOf[q]}
  /\ req' = [req EXCEPT ![q] = "refresher"]
  /\ StartCall(BundleOf[q], window(q), "refresh")
  /\ UNCHANGED <<cookie, access, boundVars, signedIn>>

\* Mutant: the queued requests are dropped instead of sent again.
RefreshForgetsQueue(b) ==
  /\ In(b, "refresh", "ok")
  /\ req' = [q \in Req |-> IF BundleOf[q] = b /\ req[q] = "refresher"
                          THEN "sent" ELSE req[q]]
  /\ cookie' = [cookie EXCEPT ![Home[b]] = call[b].fresh]
  /\ access' = [access EXCEPT ![Home[b]] = "good"]
  /\ refreshing' = refreshing \ {b}
  /\ Finish(b)
  /\ UNCHANGED <<retried, boundVars, historyVars>>

\* The token is set, and all who waited for it send their request again.
RefreshSucceeds(b) ==
  /\ In(b, "refresh", "ok")
  /\ req' = [q \in Req |-> IF BundleOf[q] = b /\ req[q] \in {"refresher", "queued"}
                          THEN "sent" ELSE req[q]]
  /\ cookie' = [cookie EXCEPT ![Home[b]] = call[b].fresh]
  /\ access' = [access EXCEPT ![Home[b]] = "good"]
  /\ refreshing' = refreshing \ {b}
  /\ Finish(b)
  /\ UNCHANGED <<retried, boundVars, historyVars>>

\* The catch clause: only the request that started the refresh is rejected.
RefreshFails(b) ==
  /\ In(b, "refresh", "failed")
  /\ req' = [q \in Req |-> IF BundleOf[q] = b /\ req[q] = "refresher" THEN "failed"
                           ELSE req[q]]
  /\ access' = [access EXCEPT ![Home[b]] = "none"]
  /\ refreshing' = refreshing \ {b}
  /\ refused' = refused \cup {b}
  /\ Finish(b)
  /\ UNCHANGED <<cookie, retried, boundVars, issuedTo, signedIn, shared>>

-----------------------------------------------------------------------------
(* AuthContext: login, logout; and DELETE /auth/me *)

PostLogin(w) ==
  /\ access[w] = "none"
  /\ logins < MaxLogins
  /\ logins' = logins + 1
  /\ StartCall(w, w, "login")
  /\ UNCHANGED <<webVars, expiries, faults, signedIn>>

LoginReply(w) ==
  /\ call[w].op = "login"
  /\ \/ /\ In(w, "login", "ok")
        /\ cookie' = [cookie EXCEPT ![w] = call[w].fresh]
        /\ access' = [access EXCEPT ![w] = "good"]
        /\ signedIn' = signedIn \cup {w}
     \/ /\ In(w, "login", "failed")
        /\ UNCHANGED <<cookie, access, signedIn>>
  /\ Finish(w)
  /\ UNCHANGED <<refreshing, req, retried, boundVars, issuedTo, shared, refused>>

\* The gateway lets POST /auth/logout pass with a good access token.
PostLogout(q) ==
  /\ q \in LogoutReq
  /\ req[q] = "sent"
  /\ req' = [req EXCEPT ![q] = "leaving"]
  /\ StartCall(window(q), window(q), "logout")
  /\ UNCHANGED <<cookie, access, refreshing, retried, boundVars, signedIn>>

\* clearCookie comes with the reply; the finally clause drops the access token.
LogoutReply(q) ==
  /\ req[q] = "leaving"
  /\ LET w == window(q)
     IN  /\ \/ /\ In(w, "logout", "ok")
               /\ cookie' = [cookie EXCEPT ![w] = NoToken]
               /\ signedIn' = signedIn \ {w}
            \/ /\ In(w, "logout", "failed")
               /\ UNCHANGED <<cookie, signedIn>>
         /\ access' = [access EXCEPT ![w] = "none"]
         /\ Finish(w)
  /\ req' = [req EXCEPT ![q] = "done"]
  /\ UNCHANGED <<refreshing, retried, boundVars, issuedTo, shared, refused>>

DeleteAccount(w) ==
  /\ w \in Deleting
  /\ access[w] = "good"
  /\ user = "active"
  /\ StartCall(w, w, "delete")
  /\ UNCHANGED <<webVars, boundVars, signedIn>>

DeleteAccountReply(w) ==
  /\ call[w].op = "delete"
  /\ call[w].step \in {"ok", "failed"}
  /\ Finish(w)
  /\ UNCHANGED <<webVars, boundVars, historyVars>>

-----------------------------------------------------------------------------
(* Time and faults *)

\* Fifteen minutes are over, for the requests under way, too.
AccessExpires(w) ==
  /\ access[w] = "good"
  /\ expiries < MaxExpiries
  /\ expiries' = expiries + 1
  /\ access' = [access EXCEPT ![w] = "old"]
  /\ req' = [q \in Req |-> IF window(q) = w /\ req[q] = "sent" THEN "unauthorized"
                          ELSE req[q]]
  /\ UNCHANGED <<authVars, cookie, refreshing, retried, logins, faults,
                 historyVars>>

Fault(kind) ==
  /\ kind \in FaultKinds
  /\ faults < MaxFaults
  /\ faults' = faults + 1
  /\ UNCHANGED <<webVars, logins, expiries, historyVars>>

Faulty ==
  \/ Fault("crash") /\ CrashAuth
  \/ Fault("expiry") /\ \E t \in Token : TokenExpires(t)
  \/ Fault("lost") /\ \E c \in Call : LoseReply(c)

-----------------------------------------------------------------------------
Interceptor ==
  \/ \E q \in Req : Answered(q) \/ RejectRetried(q) \/ JoinRefresh(q)
                    \/ StartRefresh(q)
  \/ \E b \in Bundle : RefreshSucceeds(b) \/ RefreshFails(b)

Account ==
  \/ \E q \in Req : PostLogout(q) \/ LogoutReply(q)
  \/ \E w \in Browser : LoginReply(w) \/ DeleteAccountReply(w)

UserActs ==
  \/ \E q \in Req : SendRequest(q)
  \/ \E w \in Browser : PostLogin(w) \/ DeleteAccount(w)

System ==
  \/ \E c \in Call : ServeCall(c)
  \/ Interceptor
  \/ Account

Next ==
  \/ System
  \/ UserActs
  \/ \E w \in Browser : AccessExpires(w)
  \/ Faulty

Spec == Init /\ [][Next]_vars

-----------------------------------------------------------------------------
(* Properties *)

Quiet == \A c \in Call : Free(c)

\* Whatever is under way when an account is deleted, no refresh token of it is
\* left or issued later (deleteUser against issueTokens and the foreign key).
DeletedUserHasNoToken == user = "gone" => valid = {}

\* Nobody is signed out in silence: while nothing is under way, the cookie of a
\* browser that is signed in is good for a refresh (docs/services.md:101).
SessionAlive ==
  Quiet /\ user = "active" => \A w \in signedIn : cookie[w] \in valid

\* It is so as long as no browser has two calls going at once, and no reply, no
\* token and no process is lost: the refreshes, logins and logouts of one
\* browser leave the sessions of the others alone.  And a session is one token:
\* rotation neither forks nor multiplies it.
SessionKept ==
  shared = {} /\ faults = 0 =>
    /\ SessionAlive
    /\ \A t1, t2 \in valid : issuedTo[t1] = issuedTo[t2] => t1 = t2

\* Once a logout is answered nothing is left of the session, not in the browser
\* and not in refresh_tokens, unless a refresh ran into it (docs/services.md:66).
LogoutEndsSession ==
  Quiet /\ shared = {} /\ faults = 0 =>
    \A w \in Browser \ signedIn :
      cookie[w] = NoToken /\ \A t \in valid : issuedTo[t] # w

-----------------------------------------------------------------------------
(* Liveness: while a call can be served, or a reply taken, the services and  *)
(* the pages do not all stop.  Nothing is assumed of the user, of time or of *)
(* faults.                                                                   *)

FairSpec == Spec /\ WF_vars(System)

Settled(q) == req[q] \in {"done", "failed"}

\* A request that waits for the refresh of its bundle is answered: none is
\* forgotten when the refresh succeeds (docs/edge-cases.md:163).  When it is
\* refused or lost, the promises in refreshSubscribers stay as they are.
QueuedRequestsServed ==
  \A q \in Req : req[q] = "queued" ~> Settled(q) \/ BundleOf[q] \in refused
=============================================================================
