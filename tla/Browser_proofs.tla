--------------------------- MODULE Browser_proofs ---------------------------
(***************************************************************************)
(* The browser's side: sessions and account deletion (WebSession), the     *)
(* window with its pages and its query cache (BrowserPages), and the       *)
(* sockets of the tabs (NotificationGateway).  For any users, households,  *)
(* browsers, bundles, tabs, tokens, requests, steps and faults.            *)
(***************************************************************************)
EXTENDS WebSession, BrowserPages, NotificationGateway, FiniteSetTheorems,
        FunctionTheorems, TLAPS

(***************************************************************************)
(* Sessions.                                                               *)
(***************************************************************************)
\* What the pages, time and lost replies do leaves users and refresh_tokens as
\* they are: only auth-service serving a call changes them.
LEMMA TablesUntouched ==
  ASSUME Interceptor \/ Account \/ UserActs \/ (\E w \in Browser : AccessExpires(w))
           \/ Faulty
  PROVE  UNCHANGED <<user, valid>>
<1>1. ASSUME NEW q \in Req
      PROVE  /\ Answered(q) => UNCHANGED <<user, valid>>
             /\ RejectRetried(q) => UNCHANGED <<user, valid>>
             /\ JoinRefresh(q) => UNCHANGED <<user, valid>>
             /\ StartRefresh(q) => UNCHANGED <<user, valid>>
             /\ SendRequest(q) => UNCHANGED <<user, valid>>
             /\ PostLogout(q) => UNCHANGED <<user, valid>>
             /\ LogoutReply(q) => UNCHANGED <<user, valid>>
  BY DEF Answered, RejectRetried, JoinRefresh, StartRefresh, SendRequest,
         PostLogout, LogoutReply, StartCall, Finish, authVars
<1>2. ASSUME NEW b \in Bundle
      PROVE  /\ RefreshSucceeds(b) => UNCHANGED <<user, valid>>
             /\ RefreshFails(b) => UNCHANGED <<user, valid>>
  BY DEF RefreshSucceeds, RefreshFails, Finish
<1>3. ASSUME NEW w \in Browser
      PROVE  /\ PostLogin(w) => UNCHANGED <<user, valid>>
             /\ LoginReply(w) => UNCHANGED <<user, valid>>
             /\ DeleteAccount(w) => UNCHANGED <<user, valid>>
             /\ DeleteAccountReply(w) => UNCHANGED <<user, valid>>
             /\ AccessExpires(w) => UNCHANGED <<user, valid>>
  BY DEF PostLogin, LoginReply, DeleteAccount, DeleteAccountReply, AccessExpires,
         StartCall, Finish, authVars
<1>4. Faulty => UNCHANGED <<user, valid>>
  BY DEF Faulty, CrashAuth, TokenExpires, LoseReply
<1>5. QED
  BY <1>1, <1>2, <1>3, <1>4 DEF Interceptor, Account, UserActs

\* A step of auth-service keeps a deleted account without tokens: users and
\* refresh_tokens lose their rows together, and the foreign key refuses new ones.
LEMMA ServingKeeps ==
  ASSUME NEW c \in Call, Serve(c), DeletedUserHasNoToken
  PROVE  DeletedUserHasNoToken'
<1> USE DEF DeletedUserHasNoToken
<1>1. CASE FindToken(c) \/ FindOwnToken(c)
  BY <1>1 DEF FindToken, FindOwnToken
<1>2. CASE RevokeAll(c) \/ DeleteUser(c) \/ DeleteTokens(c)
  BY <1>2 DEF RevokeAll, DeleteUser, DeleteTokens
<1>3. CASE RotateToken(c) \/ DropToken(c)
  BY <1>3 DEF RotateToken, DropToken
<1>4. CASE IssueToken(c)
  <2>1. CASE user = "active" /\ UNCHANGED user
    BY <2>1
  <2>2. CASE user = "gone" /\ UNCHANGED <<user, valid>>
    BY <2>2
  <2>3. QED
    BY <1>4, <2>1, <2>2 DEF IssueToken
<1>5. QED
  BY <1>1, <1>2, <1>3, <1>4 DEF Serve

\* No refresh token of a deleted account is ever left or issued, whatever logins
\* and refreshes are under way when deleteUser runs, and whatever crashes.
THEOREM DeletionIsFinal == Spec => []DeletedUserHasNoToken
<1>1. Init => DeletedUserHasNoToken
  BY DEF Init, DeletedUserHasNoToken
<1>2. DeletedUserHasNoToken /\ [Next]_vars => DeletedUserHasNoToken'
  <2> SUFFICES ASSUME DeletedUserHasNoToken, [Next]_vars
               PROVE  DeletedUserHasNoToken'
    OBVIOUS
  <2>1. CASE \E c \in Call : ServeCall(c)
    BY <2>1, ServingKeeps DEF ServeCall
  <2>2. CASE \/ Interceptor \/ Account \/ UserActs
             \/ \E w \in Browser : AccessExpires(w)
             \/ Faulty
    BY <2>2, TablesUntouched DEF DeletedUserHasNoToken
  <2>3. CASE UNCHANGED vars
    BY <2>3 DEF vars, authVars, DeletedUserHasNoToken
  <2>4. QED
    BY <2>1, <2>2, <2>3 DEF Next, System
<1>3. QED
  BY <1>1, <1>2, PTL DEF Spec
-----------------------------------------------------------------------------
(* Types *)

LEMMA CallTypes ==
  ASSUME call \in [Call -> CallState], NEW c \in Call
  PROVE  /\ call[c] \in CallState /\ call[c].fresh \in Given /\ call[c].token \in Given
         /\ NoCall \in CallState
         /\ \A step \in {"find", "rotate", "revoke", "issue", "drop", "deleteUser",
                         "deleteTokens", "ok", "failed"} :
              [call EXCEPT ![c].step = step] \in [Call -> CallState]
  BY DEF CallState, NoCall, Given

\* A request starts with a token of the browser's cookie jar.
LEMMA RequestTypes ==
  ASSUME NEW op \in Op, NEW t \in Given
  PROVE  Request(op, t) \in CallState
<1>1. ASSUME NEW s \in {"issue", "failed", "find", "ok", "deleteUser"}
      PROVE  [NoCall EXCEPT !.op = op, !.token = t, !.step = s] \in CallState
  BY DEF NoCall, CallState, Given
<1> DEFINE s == CASE op = "login" -> IF user = "active" THEN "issue" ELSE "failed"
                  [] op = "refresh" -> IF t = NoToken THEN "failed" ELSE "find"
                  [] op = "logout" -> IF t = NoToken THEN "ok" ELSE "find"
                  [] op = "delete" -> "deleteUser"
<1>2. s \in {"issue", "failed", "find", "ok", "deleteUser"}
  BY DEF Op
<1>3. Request(op, t) = [NoCall EXCEPT !.op = op, !.token = t, !.step = s]
  BY DEF Request
<1> HIDE DEF s
<1> QED
  BY <1>1, <1>2, <1>3

LEMMA ServingTypes ==
  ASSUME NEW c \in Call, AuthTypeOK, Serve(c)
  PROVE  AuthTypeOK'
<1> USE DEF AuthTypeOK, Token
<1>0. ASSUME NEW step \in {"find", "rotate", "revoke", "issue", "drop", "deleteUser",
                           "deleteTokens", "ok", "failed"},
             Goto(c, step)
      PROVE  call' \in [Call -> CallState]
  <2>1. [call EXCEPT ![c].step = step] \in [Call -> CallState]
    BY CallTypes
  <2> QED
    BY <1>0, <2>1 DEF Goto
<1>1. CASE FindToken(c) \/ FindOwnToken(c)
  <2>1. call' \in [Call -> CallState]
    BY <1>0, <1>1 DEF FindToken, FindOwnToken
  <2> QED
    BY <1>1, <2>1 DEF FindToken, FindOwnToken
<1>2. CASE RevokeAll(c) \/ DeleteUser(c) \/ DeleteTokens(c)
  <2>1. call' \in [Call -> CallState]
    BY <1>0, <1>2 DEF RevokeAll, DeleteUser, DeleteTokens
  <2> QED
    BY <1>2, <2>1 DEF RevokeAll, DeleteUser, DeleteTokens
<1>3. CASE RotateToken(c) \/ DropToken(c)
  <2>1. call' \in [Call -> CallState]
    BY <1>0, <1>3 DEF RotateToken, DropToken
  <2> QED
    BY <1>3, <2>1 DEF RotateToken, DropToken
<1>4. CASE IssueToken(c)
  <2>1. CASE user = "active" /\ issued < MaxToken
    <3>1. issued + 1 \in Token /\ issued + 1 \in 0..MaxToken
      BY <2>1, TokenAssumption
    <3>2. [call EXCEPT ![c].step = "ok", ![c].fresh = issued + 1] \in [Call -> CallState]
      BY <3>1 DEF CallState, Given
    <3> QED
      BY <1>4, <2>1, <3>1, <3>2 DEF IssueToken
  <2>2. CASE user = "gone"
    BY <1>4, <2>2, CallTypes DEF IssueToken, Goto
  <2> QED
    BY <1>4, <2>1, <2>2 DEF IssueToken
<1>5. QED
  BY <1>1, <1>2, <1>3, <1>4 DEF Serve

LEMMA CallStartTypes ==
  ASSUME TypeOK, NEW c \in Call, NEW w \in Browser, NEW op \in Op, StartCall(c, w, op)
  PROVE  /\ AuthTypeOK' /\ shared' \subseteq Browser
         /\ UNCHANGED <<issuedTo, refused>>
<1>1. Request(op, cookie[w]) \in CallState
  BY RequestTypes DEF TypeOK
<1> QED
  BY <1>1 DEF StartCall, TypeOK, AuthTypeOK

LEMMA FinishTypes ==
  ASSUME AuthTypeOK, NEW c \in Call, Finish(c)
  PROVE  AuthTypeOK'
  BY CallTypes DEF Finish, AuthTypeOK

\* The tokens the browsers start with.
LEMMA InitialTokens ==
  /\ InitialToken \in Bijection(Browser, 1..Cardinality(Browser))
  /\ InitialToken \in [Browser -> Given]
  /\ Cardinality(Browser) \in 0..MaxToken
<1>1. Cardinality(Browser) \in 0..MaxToken
  BY FS_CardinalityType, WebAssumption, TokenAssumption
<1>2. ExistsBijection(Browser, 1..Cardinality(Browser))
  BY FS_CardinalityType, Fun_ExistsBijSymmetric, WebAssumption
<1>3. Bijection(Browser, 1..Cardinality(Browser)) # {}
  BY <1>2, Fun_ExistsBij
<1>4. InitialToken \in Bijection(Browser, 1..Cardinality(Browser))
  BY <1>3 DEF InitialToken
<1>5. InitialToken \in [Browser -> 1..Cardinality(Browser)]
  BY <1>4, Fun_BijectionProperties
<1> QED
  BY <1>1, <1>4, <1>5, TokenAssumption DEF Given, Token

LEMMA SessionTypeInit == Init => TypeOK
<1> SUFFICES ASSUME Init PROVE TypeOK
  OBVIOUS
<1>1. valid = 1..Cardinality(Browser) /\ valid \subseteq Token
  BY InitialTokens, TokenAssumption DEF Init, Token
<1>2. \A t \in valid : \E w \in Browser : InitialToken[w] = t
  <2>1. ASSUME NEW T, NEW f \in Bijection(Browser, T)
        PROVE  \A t \in T : \E w \in Browser : f[w] = t
    BY <2>1, Fun_BijectionProperties
  <2> QED
    BY <1>1, <2>1, InitialTokens
<1>3. issuedTo \in [Token -> Browser \cup {NoToken}]
  BY <1>2 DEF Init
<1>4. AuthTypeOK
  BY <1>1, InitialTokens DEF Init, AuthTypeOK, NoCall, CallState, Given
<1> QED
  BY <1>3, <1>4, InitialTokens, WebAssumption DEF Init, TypeOK, Access, ReqState

LEMMA SessionTypeStep == TypeOK /\ [Next]_vars => TypeOK'
<1> SUFFICES ASSUME TypeOK, [Next]_vars PROVE TypeOK'
  OBVIOUS
<1> USE WebAssumption DEF TypeOK, boundVars, Access, ReqState
<1>0. /\ \A b \in Bundle : b \in Call /\ Home[b] \in Browser
      /\ \A w \in Browser : w \in Call
      /\ \A q \in Req : BundleOf[q] \in Bundle /\ window(q) \in Browser /\ window(q) \in Call
      /\ \A c \in Call : call[c].fresh \in Given
  BY CallTypes DEF window, AuthTypeOK
<1>1. ASSUME NEW c \in Call, ServeCall(c) PROVE TypeOK'
  <2>1. AuthTypeOK'
    BY <1>1, ServingTypes DEF ServeCall
  <2>2. (IF c \in Bundle THEN Home[c] ELSE c) \in Browser
    BY <1>0
  <2>3. issuedTo' \in [Token -> Browser \cup {NoToken}]
    BY <1>1, <2>2 DEF ServeCall
  <2> QED
    BY <1>1, <2>1, <2>3 DEF ServeCall, webVars
<1>2. ASSUME NEW q \in Req,
             SendRequest(q) \/ Answered(q) \/ RejectRetried(q) \/ JoinRefresh(q)
      PROVE  TypeOK'
  <2>1. UNCHANGED <<authVars, cookie, access, refreshing, retried, boundVars, historyVars>>
    BY <1>2 DEF SendRequest, Answered, RejectRetried, JoinRefresh
  <2>2. req' \in [Req -> ReqState]
    BY <1>2 DEF SendRequest, Answered, RejectRetried, JoinRefresh, Send
  <2> QED
    BY <2>1, <2>2 DEF authVars, historyVars, AuthTypeOK
<1>3. ASSUME NEW q \in Req, StartRefresh(q) PROVE TypeOK'
  <2>1. AuthTypeOK' /\ shared' \subseteq Browser /\ UNCHANGED <<issuedTo, refused>>
    BY <1>0, <1>3, CallStartTypes DEF StartRefresh, Op
  <2> QED
    BY <1>0, <1>3, <2>1 DEF StartRefresh
<1>4. ASSUME NEW b \in Bundle, RefreshSucceeds(b) \/ RefreshFails(b) PROVE TypeOK'
  <2>1. AuthTypeOK'
    BY <1>0, <1>4, FinishTypes DEF RefreshSucceeds, RefreshFails
  <2> QED
    BY <1>0, <1>4, <2>1 DEF RefreshSucceeds, RefreshFails, historyVars
<1>5. ASSUME NEW w \in Browser, PostLogin(w) \/ DeleteAccount(w) PROVE TypeOK'
  <2>1. AuthTypeOK' /\ shared' \subseteq Browser /\ UNCHANGED <<issuedTo, refused>>
    BY <1>0, <1>5, CallStartTypes DEF PostLogin, DeleteAccount, Op
  <2> QED
    BY <1>5, <2>1 DEF PostLogin, DeleteAccount, webVars
<1>6. ASSUME NEW w \in Browser, LoginReply(w) \/ DeleteAccountReply(w) PROVE TypeOK'
  <2>1. AuthTypeOK'
    BY <1>0, <1>6, FinishTypes DEF LoginReply, DeleteAccountReply
  <2> QED
    BY <1>0, <1>6, <2>1 DEF LoginReply, DeleteAccountReply, webVars, historyVars
<1>7. ASSUME NEW q \in Req, PostLogout(q) PROVE TypeOK'
  <2>1. AuthTypeOK' /\ shared' \subseteq Browser /\ UNCHANGED <<issuedTo, refused>>
    BY <1>0, <1>7, CallStartTypes DEF PostLogout, Op
  <2> QED
    BY <1>7, <2>1 DEF PostLogout
<1>8. ASSUME NEW q \in Req, LogoutReply(q) PROVE TypeOK'
  <2>1. AuthTypeOK'
    BY <1>0, <1>8, FinishTypes DEF LogoutReply
  <2>2. NoToken \in Given
    BY DEF Given
  <2> QED
    BY <1>0, <1>8, <2>1, <2>2 DEF LogoutReply
<1>9. ASSUME NEW w \in Browser, AccessExpires(w) PROVE TypeOK'
  BY <1>9 DEF AccessExpires, authVars, historyVars, AuthTypeOK
<1>10. CASE Faulty
  <2>1. PICK kind \in {"crash", "expiry", "lost"} : Fault(kind)
    BY <1>10 DEF Faulty
  <2>2. AuthTypeOK'
    <3>1. \A c \in Call : [call[c] EXCEPT !.step = "failed"] \in CallState
      BY DEF AuthTypeOK, CallState
    <3>2. CrashAuth => AuthTypeOK'
      BY <3>1 DEF CrashAuth, AuthTypeOK
    <3>3. ASSUME NEW t \in Token, TokenExpires(t) PROVE AuthTypeOK'
      BY <3>3 DEF TokenExpires, AuthTypeOK
    <3>4. ASSUME NEW c \in Call, LoseReply(c) PROVE AuthTypeOK'
      BY <3>4, CallTypes DEF LoseReply, Goto, AuthTypeOK
    <3> QED
      BY <1>10, <3>2, <3>3, <3>4 DEF Faulty
  <2> QED
    BY <2>1, <2>2 DEF Fault, webVars, historyVars
<1>11. CASE UNCHANGED vars
  BY <1>11 DEF vars, authVars, webVars, historyVars, AuthTypeOK
<1> QED
  BY <1>1, <1>2, <1>3, <1>4, <1>5, <1>6, <1>7, <1>8, <1>9, <1>10, <1>11
  DEF Next, System, Interceptor, Account, UserActs

\* Whatever is answered, lost, expired or restarted, cookies and sessions are
\* made of tokens that exist, and no bound is passed.
THEOREM SessionTypeCorrect == Spec => []TypeOK
<1> QED
  BY SessionTypeInit, SessionTypeStep, PTL DEF Spec

-----------------------------------------------------------------------------
(***************************************************************************)
(* As long as no browser has two calls going at once and nothing is lost,  *)
(* a browser's session is in one place: in its cookie, or, from the moment *)
(* a call has ended it or issued the next token, in that call.             *)
(***************************************************************************)
Undisturbed == shared = {} /\ faults = 0

HomeOf(c) == IF c \in Bundle THEN Home[c] ELSE c
TokensOf(w) == {t \in valid : issuedTo[t] = w}

\* The cookie does not tell what is left of the session: the call does.
Decided(c) == call[c].step = "issue" \/ (call[c].step = "ok" /\ call[c].op # "delete")

OneCall ==
  \A c, d \in Call : HomeOf(c) = HomeOf(d) /\ ~Free(c) /\ ~Free(d) => c = d

TokenInv ==
  /\ expired = {}
  /\ \A t \in valid : t <= issued /\ issuedTo[t] \in Browser

CallOK(c) ==
  /\ call[c].op # "none"
  /\ call[c].op \in {"refresh", "logout"} => call[c].token = cookie[HomeOf(c)]
  /\ call[c].step = "find" => call[c].op \in {"refresh", "logout"} /\ call[c].token # NoToken
  /\ call[c].step = "rotate" => call[c].op = "refresh" /\ call[c].token # NoToken
  /\ call[c].step \in {"revoke", "deleteTokens"} => user = "gone"
  /\ call[c].step = "drop" => call[c].op = "logout" /\ call[c].token # NoToken
  /\ call[c].step = "issue" =>
       /\ call[c].op # "login" => call[c].op = "refresh" /\ call[c].token # NoToken
       /\ TokensOf(HomeOf(c)) = {}
  /\ call[c].step = "ok" /\ call[c].op \in {"login", "refresh"} =>
       /\ TokensOf(HomeOf(c)) \subseteq {call[c].fresh}
       /\ user = "active" => call[c].fresh \in TokensOf(HomeOf(c))
       /\ call[c].op = "refresh" => call[c].token # NoToken
  /\ call[c].step = "ok" /\ call[c].op = "logout" => TokensOf(HomeOf(c)) = {}
  /\ call[c].step = "failed" =>
       /\ call[c].op # "logout"
       /\ call[c].op = "refresh" => call[c].token = NoToken \/ user = "gone"

CookieOK(w) ==
  /\ w \notin signedIn => cookie[w] = NoToken
  /\ access[w] = "none" => w \notin signedIn \/ user = "gone"
  /\ (\A c \in CallsOf(w) : ~Decided(c)) =>
       /\ TokensOf(w) \subseteq {cookie[w]}
       /\ w \in signedIn /\ user = "active" => cookie[w] \in TokensOf(w)

InOnePlace ==
  /\ OneCall
  /\ TokenInv
  /\ \A c \in Call : ~Free(c) => CallOK(c)
  /\ \A w \in Browser : CookieOK(w)

SessionInv == Undisturbed => InOnePlace

LEMMA Homes ==
  /\ \A c \in Call : HomeOf(c) \in Browser
  /\ \A w \in Browser : HomeOf(w) = w /\ w \in Call
  /\ \A b \in Bundle : HomeOf(b) = Home[b] /\ b \in Call
  /\ \A w \in Browser : CallsOf(w) = {c \in Call : HomeOf(c) = w}
  BY WebAssumption DEF HomeOf, CallsOf

\* A step of one call changes that call only.
LEMMA GotoEffect ==
  ASSUME call \in [Call -> CallState], NEW c \in Call, NEW s, Goto(c, s)
  PROVE  /\ call'[c].step = s /\ call'[c].op = call[c].op
         /\ call'[c].token = call[c].token /\ call'[c].fresh = call[c].fresh
         /\ \A d \in Call \ {c} : call'[d] = call[d]
  BY DEF Goto, CallState

\* What a step in browser w leaves alone keeps all that holds of the others.
LEMMA OthersKeep ==
  ASSUME NEW w \in Browser, user' = user,
         \A c \in Call : ~Free(c) => CallOK(c),
         \A v \in Browser : CookieOK(v),
         \A c \in Call : HomeOf(c) # w => call'[c] = call[c],
         \A v \in Browser \ {w} :
           /\ cookie'[v] = cookie[v] /\ access'[v] = access[v]
           /\ v \in signedIn' <=> v \in signedIn
           /\ TokensOf(v)' = TokensOf(v)
  PROVE  /\ \A c \in Call : HomeOf(c) # w /\ ~Free(c)' => CallOK(c)'
         /\ \A v \in Browser \ {w} : CookieOK(v)'
<1>1. ASSUME NEW c \in Call, HomeOf(c) # w, ~Free(c)' PROVE CallOK(c)'
  <2>1. HomeOf(c) \in Browser \ {w} /\ call'[c] = call[c]
    BY <1>1, Homes
  <2>2. CallOK(c)
    BY <1>1, <2>1 DEF Free
  <2>3. TokensOf(HomeOf(c))' = TokensOf(HomeOf(c)) /\ cookie'[HomeOf(c)] = cookie[HomeOf(c)]
    BY <2>1
  <2> QED
    BY <2>1, <2>2, <2>3 DEF CallOK
<1>2. ASSUME NEW v \in Browser \ {w} PROVE CookieOK(v)'
  <2>1. \A c \in CallsOf(v) : call'[c] = call[c]
    BY Homes
  <2>2. (\A c \in CallsOf(v) : ~Decided(c))' <=> \A c \in CallsOf(v) : ~Decided(c)
    BY <2>1 DEF Decided, CallsOf
  <2>3. TokensOf(v)' = TokensOf(v)
    OBVIOUS
  <2> QED
    BY <2>2, <2>3 DEF CookieOK
<1> QED
  BY <1>1, <1>2

\* Calls that end or go on leave at most one call to a browser.
LEMMA OneCallKept ==
  ASSUME OneCall, \A c \in Call : Free(c) => Free(c)'
  PROVE  OneCall'
  BY DEF OneCall


LEMMA NoTokenIsNone == AuthTypeOK => NoToken \notin valid
<1>1. Token \subseteq Nat
  BY TokenAssumption DEF Token
<1> QED
  BY <1>1, TokenAssumption DEF AuthTypeOK

\* A request that a browser makes when it has no other under way.
LEMMA StartKeeps ==
  ASSUME TypeOK, DeletedUserHasNoToken, InOnePlace,
         NEW c \in Call, NEW op \in Op, StartCall(c, HomeOf(c), op), shared' = {},
         UNCHANGED <<cookie, access, signedIn>>,
         op = "login" => TokensOf(HomeOf(c)) = {}
  PROVE  InOnePlace'
<1> DEFINE w == HomeOf(c)
<1> HIDE DEF w
<1>0. w = HomeOf(c) /\ w \in Browser /\ \A d \in Call : HomeOf(d) = w <=> d \in CallsOf(w)
  BY Homes DEF w
<1>1. \A d \in Call : HomeOf(d) = w => Free(d)
  <2>1. \A d \in CallsOf(w) : Free(d)
    BY <1>0 DEF StartCall
  <2> QED
    BY <1>0, <2>1
<1>2. /\ call'[c] = Request(op, cookie[w])
      /\ \A d \in Call \ {c} : call'[d] = call[d]
      /\ UNCHANGED <<user, valid, expired, issued, issuedTo>>
  BY <1>0 DEF StartCall, TypeOK, AuthTypeOK
<1>3. /\ call'[c].op = op /\ call'[c].token = cookie[w]
      /\ op = "login" => call'[c].step = IF user = "active" THEN "issue" ELSE "failed"
      /\ op = "refresh" => call'[c].step = IF cookie[w] = NoToken THEN "failed" ELSE "find"
      /\ op = "logout" => call'[c].step = IF cookie[w] = NoToken THEN "ok" ELSE "find"
      /\ op = "delete" => call'[c].step = "deleteUser"
  BY <1>2 DEF Request, NoCall, Op
<1>4. \A v \in Browser : TokensOf(v)' = TokensOf(v)
  BY <1>2 DEF TokensOf
<1>5. /\ \A d \in Call : HomeOf(d) # w /\ ~Free(d)' => CallOK(d)'
      /\ \A v \in Browser \ {w} : CookieOK(v)'
  BY <1>0, <1>2, <1>4, OthersKeep DEF InOnePlace
<1>6. \A d \in CallsOf(w) : ~Decided(d)
  BY <1>0, <1>1, Homes DEF Decided, Free
<1>7. /\ TokensOf(w) \subseteq {cookie[w]}
      /\ w \in signedIn /\ user = "active" => cookie[w] \in TokensOf(w)
      /\ w \notin signedIn => cookie[w] = NoToken
      /\ access[w] = "none" => w \notin signedIn \/ user = "gone"
  BY <1>0, <1>6 DEF CookieOK, InOnePlace
<1>8. cookie[w] = NoToken => TokensOf(w) = {}
  <2>1. NoToken \notin valid
    BY NoTokenIsNone DEF TypeOK
  <2> QED
    BY <1>7, <2>1 DEF TokensOf
<1>9. CallOK(c)'
  <2>1. TokensOf(HomeOf(c))' = TokensOf(w) /\ cookie'[HomeOf(c)] = cookie[w]
    BY <1>0, <1>4
  <2> QED
    BY <1>0, <1>3, <1>8, <2>1 DEF CallOK, Op
<1>10. CookieOK(w)'
  <2>1. TokensOf(w)' = TokensOf(w)
    BY <1>0, <1>4
  <2> QED
    BY <1>2, <1>7, <2>1 DEF CookieOK
<1>11. OneCall'
  <2>1. \A d \in Call : HomeOf(d) = w /\ d # c => Free(d)'
    BY <1>1, <1>2 DEF Free
  <2>2. \A d \in Call : HomeOf(d) # w => (Free(d)' <=> Free(d))
    BY <1>0, <1>2 DEF Free
  <2> QED
    BY <1>0, <2>1, <2>2 DEF OneCall, InOnePlace
<1>12. TokenInv'
  BY <1>2 DEF TokenInv, InOnePlace
<1>13. \A d \in Call : ~Free(d)' => CallOK(d)'
  BY <1>1, <1>2, <1>5, <1>9 DEF Free
<1> QED
  BY <1>0, <1>5, <1>10, <1>11, <1>12, <1>13 DEF InOnePlace

\* A step of a call in browser w that leaves its cookie alone, and the tokens of
\* the others: what is left to show is what the step is about.
LEMMA StepKeeps ==
  ASSUME InOnePlace, NEW c \in Call, ~Free(c),
         \A d \in Call \ {c} : call'[d] = call[d], user' = user,
         \A v \in Browser \ {HomeOf(c)} :
           /\ cookie'[v] = cookie[v] /\ access'[v] = access[v]
           /\ v \in signedIn' <=> v \in signedIn
           /\ TokensOf(v)' = TokensOf(v),
         TokenInv', ~Free(c)' => CallOK(c)',
         CookieOK(HomeOf(c))'
  PROVE  InOnePlace'
<1>1. \A d \in Call \ {c} : HomeOf(d) = HomeOf(c) => Free(d)
  BY DEF OneCall, InOnePlace
<1>2. /\ \A d \in Call : HomeOf(d) # HomeOf(c) /\ ~Free(d)' => CallOK(d)'
      /\ \A v \in Browser \ {HomeOf(c)} : CookieOK(v)'
  BY Homes, OthersKeep DEF InOnePlace
<1>3. OneCall'
  <2>1. \A d \in Call : Free(d) => Free(d)'
    BY DEF Free
  <2> QED
    BY <2>1, OneCallKept DEF InOnePlace
<1>4. \A d \in Call : ~Free(d)' => CallOK(d)'
  BY <1>1, <1>2 DEF Free
<1> QED
  BY <1>2, <1>3, <1>4, Homes DEF InOnePlace

\* auth-service serves a call.  Nobody else's token is rotated or dropped, and
\* the token that is issued is nobody else's.
LEMMA ServeKeeps ==
  ASSUME TypeOK, DeletedUserHasNoToken, DeletedUserHasNoToken', InOnePlace,
         NEW c \in Call, ServeCall(c)
  PROVE  InOnePlace'
<1> DEFINE w == HomeOf(c)
<1> HIDE DEF w
<1>0. /\ w = HomeOf(c) /\ w \in Browser /\ c \in CallsOf(w)
      /\ \A d \in CallsOf(w) \ {c} : Free(d)
      /\ call \in [Call -> CallState]
  BY Homes DEF w, OneCall, InOnePlace, TypeOK, AuthTypeOK, ServeCall, Serve, FindToken,
     RevokeAll, RotateToken, IssueToken, FindOwnToken, DropToken, DeleteUser,
     DeleteTokens, In, Free
<1>1. /\ UNCHANGED <<cookie, access, signedIn>>
      /\ issued' = issued => issuedTo' = issuedTo
  <2>1. issued \in Int
    BY DEF TypeOK, AuthTypeOK
  <2>2. issued' = issued => \A t \in Token : issuedTo'[t] = issuedTo[t]
    BY <2>1 DEF ServeCall
  <2>3. issuedTo \in [Token -> Browser \cup {NoToken}]
    BY DEF TypeOK
  <2>4. issuedTo' = [t \in Token |-> issuedTo'[t]]
    BY DEF ServeCall
  <2>5. issued' = issued => issuedTo' = issuedTo
    BY <2>2, <2>3, <2>4
  <2> QED
    BY <2>5 DEF ServeCall, webVars
<1>2. ~Free(c)
  BY DEF ServeCall, Serve, FindToken, RevokeAll, RotateToken, IssueToken, FindOwnToken,
     DropToken, DeleteUser, DeleteTokens, In, Free
<1>3. CallOK(c) /\ CookieOK(w) /\ TokenInv
  BY <1>0, <1>2 DEF InOnePlace
<1>4. ASSUME ~Decided(c) PROVE \A d \in CallsOf(w) : ~Decided(d)
  BY <1>0, <1>4 DEF Decided, Free
<1>5. call[c].step # "issue" /\ call[c].step # "ok" => ~Decided(c)
  BY DEF Decided
<1>6. CASE FindToken(c)
  <2>1. PICK s \in {"rotate", "revoke"} :
          /\ Goto(c, s)
          /\ s = "revoke" => call[c].token \notin valid \ expired
    BY <1>6 DEF FindToken
  <2>2. /\ call'[c].step = s /\ call'[c].op = "refresh" /\ call'[c].token = call[c].token
        /\ \A d \in Call \ {c} : call'[d] = call[d]
    BY <1>0, <1>6, <2>1, GotoEffect DEF FindToken, In
  <2>3. UNCHANGED <<user, valid, expired, issued, issuedTo>>
    BY <1>1, <1>6 DEF FindToken
  <2>4. \A v \in Browser : TokensOf(v)' = TokensOf(v)
    BY <2>3 DEF TokensOf
  <2>5. call[c].token = cookie[w] /\ call[c].token # NoToken /\ ~Decided(c)
    BY <1>0, <1>3, <1>5, <1>6 DEF CallOK, FindToken, In
  <2>6. s = "revoke" => user = "gone"
    <3>1. w \in signedIn /\ (user = "active" => cookie[w] \in TokensOf(w))
      BY <1>3, <1>4, <2>5 DEF CookieOK
    <3>2. cookie[w] \in TokensOf(w) => cookie[w] \in valid \ expired
      BY <1>3 DEF TokensOf, TokenInv
    <3> QED
      BY <2>1, <2>5, <3>1, <3>2 DEF TypeOK, AuthTypeOK
  <2>7. CallOK(c)'
    BY <1>0, <1>1, <2>2, <2>3, <2>4, <2>5, <2>6 DEF CallOK
  <2>8. CookieOK(w)'
    <3>1. TokensOf(w)' = TokensOf(w)
      BY <1>0, <2>4
    <3> QED
      BY <1>1, <1>3, <1>4, <2>3, <2>5, <3>1 DEF CookieOK
  <2>9. TokenInv'
    BY <1>3, <2>3 DEF TokenInv
  <2> QED
    BY <1>0, <1>1, <1>2, <2>2, <2>3, <2>4, <2>7, <2>8, <2>9, StepKeeps
<1>7. CASE RevokeAll(c) \/ DeleteUser(c) \/ DeleteTokens(c)
  <2>1. /\ user' = "gone" /\ valid' = {} /\ UNCHANGED <<expired, issued, issuedTo>>
    BY <1>1, <1>3, <1>7 DEF RevokeAll, DeleteUser, DeleteTokens, CallOK, In
  <2>2. PICK s \in {"failed", "deleteTokens", "ok"} :
          /\ Goto(c, s)
          /\ s = "failed" => call[c].op = "refresh"
          /\ s # "failed" => call[c].op = "delete"
    BY <1>7 DEF RevokeAll, DeleteUser, DeleteTokens, In
  <2>3. /\ call'[c].step = s /\ call'[c].op = call[c].op /\ call'[c].token = call[c].token
        /\ \A d \in Call \ {c} : call'[d] = call[d]
    BY <1>0, <2>2, GotoEffect
  <2>4. \A v \in Browser : TokensOf(v)' = {}
    BY <2>1 DEF TokensOf
  <2>5. ASSUME NEW d \in Call, ~Free(d)' PROVE CallOK(d)'
    <3>1. TokensOf(HomeOf(d))' = {} /\ cookie'[HomeOf(d)] = cookie[HomeOf(d)]
      BY <1>1, <2>4, Homes
    <3>2. CASE d # c
      <4>1. call'[d] = call[d] /\ CallOK(d)
        BY <2>3, <2>5, <3>2 DEF InOnePlace, Free
      <4> QED
        BY <2>1, <3>1, <4>1 DEF CallOK
    <3>3. CASE d = c
      <4>1. call'[c].op \in {"refresh", "logout"} => call'[c].token = cookie[w]
        BY <1>0, <1>3, <2>3 DEF CallOK
      <4> QED
        BY <1>0, <2>1, <2>2, <2>3, <3>1, <3>3, <4>1 DEF CallOK
    <3> QED
      BY <3>2, <3>3
  <2>6. ASSUME NEW v \in Browser PROVE CookieOK(v)'
    <3>1. CookieOK(v) /\ TokensOf(v)' = {}
      BY <2>4 DEF InOnePlace
    <3> QED
      BY <1>1, <2>1, <3>1 DEF CookieOK
  <2>7. TokenInv'
    BY <1>3, <2>1 DEF TokenInv
  <2>8. OneCall'
    <3>1. \A d \in Call : Free(d) => Free(d)'
      BY <1>2, <2>3 DEF Free
    <3> QED
      BY <3>1, OneCallKept DEF InOnePlace
  <2> QED
    BY <2>5, <2>6, <2>7, <2>8 DEF InOnePlace
<1>8. CASE RotateToken(c) \/ DropToken(c)
  <2>1. PICK s \in {"issue", "ok"} :
          /\ Goto(c, s)
          /\ s = "issue" => call[c].op = "refresh"
          /\ s = "ok" => call[c].op = "logout"
    BY <1>8 DEF RotateToken, DropToken, In
  <2>2. /\ call'[c].step = s /\ call'[c].op = call[c].op /\ call'[c].token = call[c].token
        /\ \A d \in Call \ {c} : call'[d] = call[d]
    BY <1>0, <2>1, GotoEffect
  <2>3. /\ valid' = valid \ {call[c].token}
        /\ UNCHANGED <<user, expired, issued, issuedTo>>
    BY <1>1, <1>8 DEF RotateToken, DropToken
  <2>4. call[c].token = cookie[w] /\ call[c].token # NoToken /\ ~Decided(c)
    BY <1>0, <1>3, <1>5, <1>8 DEF CallOK, RotateToken, DropToken, In
  <2>5. /\ TokensOf(w) \subseteq {cookie[w]}
        /\ user = "active" => cookie[w] \in TokensOf(w)
    BY <1>3, <1>4, <2>4 DEF CookieOK
  <2>6. TokensOf(w)' = {}
    BY <2>3, <2>4, <2>5 DEF TokensOf
  <2>7. \A v \in Browser \ {w} : TokensOf(v)' = TokensOf(v)
    <3>1. CASE user = "active"
      BY <2>3, <2>4, <2>5, <3>1 DEF TokensOf
    <3>2. CASE user # "active"
      <4>1. valid = {}
        BY <3>2 DEF DeletedUserHasNoToken, TypeOK, AuthTypeOK
      <4> QED
        BY <2>3, <4>1 DEF TokensOf
    <3> QED
      BY <3>1, <3>2
  <2>8. CallOK(c)'
    BY <1>0, <1>1, <2>1, <2>2, <2>3, <2>4, <2>6 DEF CallOK
  <2>9. CookieOK(w)'
    <3>1. Decided(c)'
      BY <2>1, <2>2 DEF Decided
    <3>2. (\E d \in CallsOf(w) : Decided(d))'
      BY <1>0, <3>1 DEF CallsOf
    <3> QED
      BY <1>1, <1>3, <2>3, <3>2 DEF CookieOK
  <2>10. TokenInv'
    BY <1>3, <2>3 DEF TokenInv
  <2> QED
    BY <1>0, <1>1, <1>2, <2>2, <2>3, <2>7, <2>8, <2>9, <2>10, StepKeeps
<1>9. CASE IssueToken(c) /\ user = "gone"
  <2>1. Goto(c, "failed") /\ UNCHANGED <<user, valid, expired, issued, issuedTo>>
    BY <1>1, <1>9 DEF IssueToken
  <2>2. /\ call'[c].step = "failed" /\ call'[c].op = call[c].op
        /\ call'[c].token = call[c].token /\ \A d \in Call \ {c} : call'[d] = call[d]
    BY <1>0, <2>1, GotoEffect
  <2>3. \A v \in Browser : TokensOf(v)' = TokensOf(v)
    BY <2>1 DEF TokensOf
  <2>4. CallOK(c)'
    BY <1>0, <1>1, <1>3, <1>9, <2>1, <2>2 DEF CallOK, IssueToken
  <2>5. CookieOK(w)'
    <3>1. TokensOf(w)' = {}
      BY <1>9, <2>1 DEF TokensOf, DeletedUserHasNoToken
    <3> QED
      BY <1>1, <1>3, <1>9, <2>1, <3>1 DEF CookieOK
  <2>6. TokenInv'
    BY <1>3, <2>1 DEF TokenInv
  <2> QED
    BY <1>0, <1>1, <1>2, <2>1, <2>2, <2>3, <2>4, <2>5, <2>6, StepKeeps
<1>10. CASE IssueToken(c) /\ user # "gone"
  <2> DEFINE t == issued + 1
  <2>1. /\ user = "active" /\ issued < MaxToken /\ issued' = t /\ valid' = valid \cup {t}
        /\ call' = [call EXCEPT ![c].step = "ok", ![c].fresh = t]
        /\ UNCHANGED <<user, expired>>
    BY <1>10 DEF IssueToken, TypeOK, AuthTypeOK
  <2>2. /\ call'[c].step = "ok" /\ call'[c].op = call[c].op /\ call'[c].fresh = t
        /\ call'[c].token = call[c].token /\ \A d \in Call \ {c} : call'[d] = call[d]
    BY <1>0, <2>1 DEF CallState
  <2>3. /\ issued \in Nat /\ t \in Token /\ issued' > issued
        /\ \A u \in valid : u \in Token /\ u # t /\ u <= t
    BY <1>3, <2>1, TokenAssumption DEF Token, TypeOK, AuthTypeOK, TokenInv
  <2>4. issuedTo'[t] = w /\ \A u \in valid : issuedTo'[u] = issuedTo[u]
    BY <1>0, <2>1, <2>3 DEF ServeCall, HomeOf
  <2>5. /\ TokensOf(w) = {} /\ call[c].op \in {"login", "refresh"}
        /\ call[c].op = "refresh" => call[c].token # NoToken /\ call[c].token = cookie[w]
    BY <1>0, <1>3, <1>10 DEF CallOK, IssueToken
  <2>6. TokensOf(w)' = {t}
    BY <2>1, <2>4, <2>5 DEF TokensOf
  <2>7. \A v \in Browser \ {w} : TokensOf(v)' = TokensOf(v)
    BY <2>1, <2>4 DEF TokensOf
  <2>8. CallOK(c)'
    BY <1>0, <1>1, <2>1, <2>2, <2>5, <2>6 DEF CallOK
  <2>9. CookieOK(w)'
    <3>1. Decided(c)'
      BY <2>2, <2>5 DEF Decided
    <3>2. (\E d \in CallsOf(w) : Decided(d))'
      BY <1>0, <3>1 DEF CallsOf
    <3> QED
      BY <1>1, <1>3, <2>1, <3>2 DEF CookieOK
  <2>10. TokenInv'
    BY <1>0, <1>3, <2>1, <2>3, <2>4 DEF TokenInv
  <2> QED
    BY <1>0, <1>1, <1>2, <2>1, <2>2, <2>7, <2>8, <2>9, <2>10, StepKeeps
<1>11. CASE FindOwnToken(c)
  <2>1. PICK s \in {"drop", "ok"} :
          /\ Goto(c, s)
          /\ s = "ok" => call[c].token \notin valid
    BY <1>11 DEF FindOwnToken
  <2>2. /\ call'[c].step = s /\ call'[c].op = call[c].op /\ call'[c].token = call[c].token
        /\ \A d \in Call \ {c} : call'[d] = call[d]
    BY <1>0, <2>1, GotoEffect
  <2>3. UNCHANGED <<user, valid, expired, issued, issuedTo>>
    BY <1>1, <1>11 DEF FindOwnToken
  <2>4. \A v \in Browser : TokensOf(v)' = TokensOf(v)
    BY <2>3 DEF TokensOf
  <2>5. /\ call[c].op = "logout" /\ call[c].token = cookie[w]
        /\ call[c].token # NoToken /\ ~Decided(c)
    BY <1>0, <1>3, <1>5, <1>11 DEF CallOK, FindOwnToken, In
  <2>6. s = "ok" => TokensOf(w) = {}
    BY <1>3, <1>4, <2>1, <2>5 DEF CookieOK, TokensOf
  <2>7. CallOK(c)'
    BY <1>0, <1>1, <2>1, <2>2, <2>3, <2>4, <2>5, <2>6 DEF CallOK
  <2>8. CookieOK(w)'
    <3>1. TokensOf(w)' = TokensOf(w)
      BY <1>0, <2>4
    <3> QED
      BY <1>1, <1>3, <1>4, <2>3, <2>5, <3>1 DEF CookieOK
  <2>9. TokenInv'
    BY <1>3, <2>3 DEF TokenInv
  <2> QED
    BY <1>0, <1>1, <1>2, <2>2, <2>3, <2>4, <2>7, <2>8, <2>9, StepKeeps
<1> QED
  BY <1>6, <1>7, <1>8, <1>9, <1>10, <1>11 DEF ServeCall, Serve

\* The browser takes the reply to a call: the cookie that comes with it is what
\* is left of the session.
LEMMA FinishKeeps ==
  ASSUME TypeOK, InOnePlace, NEW c \in Call, ~Free(c), Finish(c), issuedTo' = issuedTo,
         \A v \in Browser \ {HomeOf(c)} :
           /\ cookie'[v] = cookie[v] /\ access'[v] = access[v]
           /\ v \in signedIn' <=> v \in signedIn,
         HomeOf(c) \notin signedIn' => cookie'[HomeOf(c)] = NoToken,
         access'[HomeOf(c)] = "none" => HomeOf(c) \notin signedIn' \/ user = "gone",
         TokensOf(HomeOf(c)) \subseteq {cookie'[HomeOf(c)]},
         HomeOf(c) \in signedIn' /\ user = "active" => cookie'[HomeOf(c)] \in TokensOf(HomeOf(c))
  PROVE  InOnePlace'
<1>1. /\ Free(c)' /\ \A d \in Call \ {c} : call'[d] = call[d]
      /\ UNCHANGED <<user, valid, expired, issued>>
  BY DEF Finish, Free, NoCall, TypeOK, AuthTypeOK
<1>2. \A v \in Browser : TokensOf(v)' = TokensOf(v)
  BY <1>1 DEF TokensOf
<1>3. CookieOK(HomeOf(c))'
  <2>1. TokensOf(HomeOf(c))' = TokensOf(HomeOf(c))
    BY <1>2, Homes
  <2> QED
    BY <1>1, <2>1 DEF CookieOK
<1>4. TokenInv'
  BY <1>1 DEF TokenInv, InOnePlace
<1> QED
  BY <1>1, <1>2, <1>3, <1>4, StepKeeps

LEMMA RepliesKeep ==
  ASSUME TypeOK, DeletedUserHasNoToken, InOnePlace,
         \/ \E b \in Bundle : RefreshSucceeds(b) \/ RefreshFails(b)
         \/ \E w \in Browser : LoginReply(w) \/ DeleteAccountReply(w)
         \/ \E q \in Req : LogoutReply(q)
  PROVE  InOnePlace'
<1> USE DEF TypeOK, AuthTypeOK
<1>0. ASSUME NEW c \in Call, ~Free(c)
      PROVE  /\ HomeOf(c) \in Browser /\ CallOK(c) /\ CookieOK(HomeOf(c))
             /\ c \in CallsOf(HomeOf(c))
             /\ ~Decided(c) => \A d \in CallsOf(HomeOf(c)) : ~Decided(d)
  BY <1>0, Homes DEF InOnePlace, OneCall, Decided, Free
<1>1. ASSUME NEW b \in Bundle, RefreshSucceeds(b) PROVE InOnePlace'
  <2>1. /\ b \in Call /\ HomeOf(b) = Home[b] /\ Home[b] \in Browser
        /\ ~Free(b) /\ CallOK(b) /\ CookieOK(Home[b])
    BY <1>0, <1>1, Homes DEF RefreshSucceeds, In, Free
  <2>2. /\ cookie' = [cookie EXCEPT ![Home[b]] = call[b].fresh]
        /\ access' = [access EXCEPT ![Home[b]] = "good"]
        /\ Finish(b) /\ UNCHANGED <<issuedTo, signedIn>>
        /\ call[b].op = "refresh" /\ call[b].step = "ok"
    BY <1>1 DEF RefreshSucceeds, historyVars, In
  <2>3. Home[b] \in signedIn
    BY <2>1, <2>2 DEF CallOK, CookieOK
  <2>4. /\ TokensOf(Home[b]) \subseteq {call[b].fresh}
        /\ user = "active" => call[b].fresh \in TokensOf(Home[b])
    BY <2>1, <2>2 DEF CallOK
  <2> QED
    BY <2>1, <2>2, <2>3, <2>4, FinishKeeps
<1>2. ASSUME NEW b \in Bundle, RefreshFails(b) PROVE InOnePlace'
  <2>1. /\ b \in Call /\ HomeOf(b) = Home[b] /\ Home[b] \in Browser
        /\ ~Free(b) /\ CallOK(b) /\ CookieOK(Home[b])
        /\ call[b].op = "refresh" /\ call[b].step = "failed"
    BY <1>0, <1>2, Homes DEF RefreshFails, In, Free
  <2>2. /\ access' = [access EXCEPT ![Home[b]] = "none"]
        /\ Finish(b) /\ UNCHANGED <<cookie, issuedTo, signedIn>>
    BY <1>2 DEF RefreshFails, In
  <2>3. /\ TokensOf(Home[b]) \subseteq {cookie[Home[b]]}
        /\ Home[b] \in signedIn /\ user = "active" => cookie[Home[b]] \in TokensOf(Home[b])
    BY <1>0, <2>1 DEF CookieOK, Decided
  <2>4. user = "active" => Home[b] \notin signedIn
    <3>1. user = "active" => cookie[Home[b]] = NoToken
      BY <2>1 DEF CallOK
    <3>2. NoToken \notin valid
      BY NoTokenIsNone
    <3> QED
      BY <2>3, <3>1, <3>2 DEF TokensOf
  <2>5. Home[b] \notin signedIn => cookie[Home[b]] = NoToken
    BY <2>1 DEF CookieOK
  <2> QED
    BY <2>1, <2>2, <2>3, <2>4, <2>5, FinishKeeps
<1>3. ASSUME NEW w \in Browser, LoginReply(w) PROVE InOnePlace'
  <2>1. /\ w \in Call /\ HomeOf(w) = w /\ ~Free(w) /\ CallOK(w) /\ CookieOK(w)
        /\ call[w].op = "login" /\ Finish(w) /\ UNCHANGED issuedTo
    BY <1>0, <1>3, Homes DEF LoginReply, In, Free
  <2>2. CASE In(w, "login", "ok")
    <3>1. /\ cookie' = [cookie EXCEPT ![w] = call[w].fresh]
          /\ access' = [access EXCEPT ![w] = "good"]
          /\ signedIn' = signedIn \cup {w}
      BY <1>3, <2>2 DEF LoginReply, In
    <3>2. /\ TokensOf(w) \subseteq {call[w].fresh}
          /\ user = "active" => call[w].fresh \in TokensOf(w)
      BY <2>1, <2>2 DEF CallOK, In
    <3> QED
      BY <2>1, <3>1, <3>2, FinishKeeps
  <2>3. CASE In(w, "login", "failed")
    <3>1. UNCHANGED <<cookie, access, signedIn>>
      BY <1>3, <2>3 DEF LoginReply, In
    <3>2. \A d \in CallsOf(w) : ~Decided(d)
      BY <1>0, <2>1, <2>3 DEF Decided, In
    <3> QED
      BY <2>1, <3>1, <3>2, FinishKeeps DEF CookieOK
  <2> QED
    BY <1>3, <2>2, <2>3 DEF LoginReply
<1>4. ASSUME NEW w \in Browser, DeleteAccountReply(w) PROVE InOnePlace'
  <2>1. /\ w \in Call /\ HomeOf(w) = w /\ ~Free(w) /\ CookieOK(w)
        /\ call[w].op = "delete" /\ call[w].step \in {"ok", "failed"} /\ Finish(w)
        /\ UNCHANGED <<issuedTo, cookie, access, signedIn>>
    BY <1>0, <1>4, Homes DEF DeleteAccountReply, In, Free, webVars, historyVars
  <2>2. \A d \in CallsOf(w) : ~Decided(d)
    BY <1>0, <2>1 DEF Decided
  <2> QED
    BY <2>1, <2>2, FinishKeeps DEF CookieOK
<1>5. ASSUME NEW q \in Req, LogoutReply(q) PROVE InOnePlace'
  <2> DEFINE w == window(q)
  <2>0. w \in Browser
    BY WebAssumption DEF window
  <2>1. /\ w \in Call /\ HomeOf(w) = w /\ ~Free(w) /\ CallOK(w) /\ CookieOK(w)
        /\ call[w].op = "logout" /\ call[w].step \in {"ok", "failed"}
    BY <1>0, <1>5, <2>0, Homes DEF LogoutReply, In, Free
  <2>2. In(w, "logout", "ok")
    BY <2>1 DEF CallOK, In
  <2>3. /\ cookie' = [cookie EXCEPT ![w] = NoToken]
        /\ signedIn' = signedIn \ {w}
        /\ access' = [access EXCEPT ![w] = "none"]
        /\ Finish(w) /\ UNCHANGED issuedTo
    BY <1>5, <2>2 DEF LogoutReply, In
  <2>4. TokensOf(w) = {}
    BY <2>1, <2>2 DEF CallOK, In
  <2> QED
    BY <2>0, <2>1, <2>3, <2>4, FinishKeeps
<1> QED
  BY <1>1, <1>2, <1>3, <1>4, <1>5

LEMMA SessionInit == Init => SessionInv
<1> SUFFICES ASSUME Init PROVE InOnePlace
  BY DEF SessionInv
<1>1. \A c \in Call : Free(c)
  BY DEF Init, Free, NoCall
<1>2. OneCall
  BY <1>1 DEF OneCall
<1>3. /\ \A w, v \in Browser : InitialToken[w] = InitialToken[v] => w = v
      /\ \A t \in 1..Cardinality(Browser) : \E w \in Browser : InitialToken[w] = t
      /\ \A w \in Browser : InitialToken[w] \in 1..Cardinality(Browser)
  <2>1. ASSUME NEW T, NEW f \in Bijection(Browser, T)
        PROVE  /\ \A w, v \in Browser : f[w] = f[v] => w = v
               /\ \A t \in T : \E w \in Browser : f[w] = t
               /\ \A w \in Browser : f[w] \in T
    BY <2>1, Fun_BijectionProperties
  <2> QED
    BY <2>1, InitialTokens
<1>4. valid = 1..Cardinality(Browser) /\ valid \subseteq Token /\ issued = Cardinality(Browser)
  BY InitialTokens, TokenAssumption DEF Init, Token
<1>5. \A t \in valid : issuedTo[t] \in Browser /\ InitialToken[issuedTo[t]] = t
  <2>1. \A t \in valid : issuedTo[t] = CHOOSE w \in Browser : InitialToken[w] = t
    BY <1>4 DEF Init
  <2> QED
    BY <1>3, <1>4, <2>1
<1>6. TokenInv
  BY <1>4, <1>5, InitialTokens DEF TokenInv, Init
<1>7. ASSUME NEW w \in Browser PROVE CookieOK(w)
  <2>1. cookie[w] = InitialToken[w] /\ w \in signedIn /\ access[w] = "old"
    BY DEF Init
  <2>2. TokensOf(w) = {InitialToken[w]}
    BY <1>3, <1>4, <1>5 DEF TokensOf
  <2> QED
    BY <2>1, <2>2 DEF CookieOK
<1> QED
  BY <1>1, <1>2, <1>6, <1>7 DEF InOnePlace

\* Calls that were at the same time, and faults, are never forgotten.
LEMMA DisturbedForGood ==
  ASSUME TypeOK, [Next]_vars, Undisturbed'
  PROVE  Undisturbed /\ ~Faulty
<1> USE DEF TypeOK, Undisturbed
<1>1. ~Faulty
  BY DEF Faulty, Fault
<1>2. ASSUME NEW c \in Call, NEW w \in Browser, NEW op, StartCall(c, w, op)
      PROVE  shared = {}
  BY <1>2 DEF StartCall
<1>3. ASSUME NEW c \in Call, ServeCall(c) PROVE Undisturbed
  BY <1>3 DEF ServeCall, boundVars
<1>4. ASSUME NEW q \in Req, SendRequest(q) \/ Answered(q) \/ RejectRetried(q) \/ JoinRefresh(q)
      PROVE  Undisturbed
  BY <1>4 DEF SendRequest, Answered, RejectRetried, JoinRefresh, boundVars, historyVars
<1>5. ASSUME NEW q \in Req, StartRefresh(q) \/ PostLogout(q) PROVE Undisturbed
  <2>1. BundleOf[q] \in Call /\ window(q) \in Browser /\ window(q) \in Call
    BY WebAssumption DEF window
  <2> QED
    BY <1>2, <1>5, <2>1 DEF StartRefresh, PostLogout, boundVars
<1>6. ASSUME NEW w \in Browser, PostLogin(w) \/ DeleteAccount(w) PROVE Undisturbed
  BY <1>2, <1>6, WebAssumption DEF PostLogin, DeleteAccount, boundVars
<1>7. ASSUME NEW b \in Bundle, RefreshSucceeds(b) \/ RefreshFails(b) PROVE Undisturbed
  BY <1>7 DEF RefreshSucceeds, RefreshFails, boundVars, historyVars
<1>8. ASSUME NEW w \in Browser, LoginReply(w) \/ DeleteAccountReply(w) PROVE Undisturbed
  BY <1>8 DEF LoginReply, DeleteAccountReply, boundVars, historyVars
<1>9. ASSUME NEW q \in Req, LogoutReply(q) PROVE Undisturbed
  BY <1>9 DEF LogoutReply, boundVars
<1>10. ASSUME NEW w \in Browser, AccessExpires(w) PROVE Undisturbed
  BY <1>10 DEF AccessExpires, historyVars
<1>11. CASE UNCHANGED vars
  BY <1>1, <1>11 DEF vars, boundVars, historyVars
<1> QED
  BY <1>1, <1>3, <1>4, <1>5, <1>6, <1>7, <1>8, <1>9, <1>10, <1>11
  DEF Next, System, Interceptor, Account, UserActs

LEMMA SessionStep ==
  ASSUME TypeOK, DeletedUserHasNoToken, DeletedUserHasNoToken', SessionInv, [Next]_vars
  PROVE  SessionInv'
<1> SUFFICES ASSUME Undisturbed' PROVE InOnePlace'
  BY DEF SessionInv
<1>0. Undisturbed /\ InOnePlace /\ ~Faulty /\ shared' = {}
  BY DisturbedForGood DEF SessionInv, Undisturbed
\* What no call and no cookie is changed by.
<1>1. ASSUME UNCHANGED <<authVars, cookie, issuedTo, signedIn>>,
             \A w \in Browser : access'[w] = "none" => access[w] = "none"
      PROVE  InOnePlace'
  <2>1. \A w \in Browser : TokensOf(w)' = TokensOf(w)
    BY <1>1 DEF TokensOf, authVars
  <2>2. OneCall' /\ TokenInv'
    BY <1>0, <1>1 DEF InOnePlace, OneCall, TokenInv, Free, authVars
  <2>3. ASSUME NEW c \in Call, ~Free(c)' PROVE CallOK(c)'
    <3>1. CallOK(c) /\ HomeOf(c) \in Browser
      BY <1>0, <1>1, <2>3, Homes DEF InOnePlace, Free, authVars
    <3>2. TokensOf(HomeOf(c))' = TokensOf(HomeOf(c))
      BY <2>1, <3>1
    <3> QED
      BY <1>1, <3>1, <3>2 DEF CallOK, authVars
  <2>4. ASSUME NEW w \in Browser PROVE CookieOK(w)'
    <3>1. (\A c \in CallsOf(w) : ~Decided(c))' <=> \A c \in CallsOf(w) : ~Decided(c)
      BY <1>1 DEF Decided, CallsOf, authVars
    <3>2. CookieOK(w) /\ TokensOf(w)' = TokensOf(w)
      BY <1>0, <2>1 DEF InOnePlace
    <3> QED
      BY <1>1, <3>1, <3>2 DEF CookieOK, authVars
  <2> QED
    BY <2>2, <2>3, <2>4 DEF InOnePlace
<1>2. ASSUME NEW c \in Call, ServeCall(c) PROVE InOnePlace'
  BY <1>0, <1>2, ServeKeeps
<1>3. ASSUME NEW q \in Req, SendRequest(q) \/ Answered(q) \/ RejectRetried(q) \/ JoinRefresh(q)
      PROVE  InOnePlace'
  BY <1>1, <1>3 DEF SendRequest, Answered, RejectRetried, JoinRefresh, historyVars
<1>4. ASSUME NEW w \in Browser, AccessExpires(w) PROVE InOnePlace'
  BY <1>1, <1>4 DEF AccessExpires, historyVars, TypeOK
<1>5. CASE UNCHANGED vars
  BY <1>1, <1>5 DEF vars, webVars, historyVars
<1>6. ASSUME NEW q \in Req, StartRefresh(q) PROVE InOnePlace'
  <2>1. BundleOf[q] \in Call /\ HomeOf(BundleOf[q]) = window(q)
    BY Homes, WebAssumption DEF window
  <2>2. /\ StartCall(BundleOf[q], HomeOf(BundleOf[q]), "refresh")
        /\ UNCHANGED <<cookie, access, signedIn>>
    BY <1>6, <2>1 DEF StartRefresh
  <2> QED
    BY <1>0, <2>1, <2>2, StartKeeps DEF Op
<1>7. ASSUME NEW q \in Req, PostLogout(q) PROVE InOnePlace'
  <2>1. window(q) \in Call /\ HomeOf(window(q)) = window(q)
    BY Homes, WebAssumption DEF window
  <2>2. /\ StartCall(window(q), HomeOf(window(q)), "logout")
        /\ UNCHANGED <<cookie, access, signedIn>>
    BY <1>7, <2>1 DEF PostLogout
  <2> QED
    BY <1>0, <2>1, <2>2, StartKeeps DEF Op
<1>8. ASSUME NEW w \in Browser, DeleteAccount(w) PROVE InOnePlace'
  <2>1. /\ w \in Call /\ StartCall(w, HomeOf(w), "delete")
        /\ UNCHANGED <<cookie, access, signedIn>>
    BY <1>8, Homes DEF DeleteAccount, webVars
  <2> QED
    BY <1>0, <2>1, StartKeeps DEF Op
\* Who can log in has signed out, or has no account any more.
<1>9. ASSUME NEW w \in Browser, PostLogin(w) PROVE InOnePlace'
  <2>1. /\ w \in Call /\ HomeOf(w) = w /\ StartCall(w, HomeOf(w), "login")
        /\ UNCHANGED <<cookie, access, signedIn>> /\ access[w] = "none"
    BY <1>9, Homes DEF PostLogin, webVars
  <2>2. \A c \in CallsOf(w) : Free(c)
    BY <1>0, <2>1 DEF StartCall
  <2>3. \A c \in CallsOf(w) : ~Decided(c)
    BY <2>2 DEF Free, Decided
  <2>4. CookieOK(w)
    BY <1>0 DEF InOnePlace
  <2>5. TokensOf(w) = {}
    <3>1. CASE user = "gone"
      BY <3>1 DEF TokensOf, DeletedUserHasNoToken
    <3>2. CASE user # "gone"
      <4>1. TokensOf(w) \subseteq {NoToken}
        BY <2>1, <2>3, <2>4, <3>2 DEF CookieOK
      <4> QED
        BY <4>1, NoTokenIsNone DEF TokensOf, TypeOK
    <3> QED
      BY <3>1, <3>2
  <2> QED
    BY <1>0, <2>1, <2>5, StartKeeps DEF Op
<1>10. CASE \/ \E b \in Bundle : RefreshSucceeds(b) \/ RefreshFails(b)
            \/ \E w \in Browser : LoginReply(w) \/ DeleteAccountReply(w)
            \/ \E q \in Req : LogoutReply(q)
  BY <1>0, <1>10, RepliesKeep
<1> QED
  BY <1>0, <1>2, <1>3, <1>4, <1>5, <1>6, <1>7, <1>8, <1>9, <1>10
  DEF Next, System, Interceptor, Account, UserActs

LEMMA SessionInvariance == Spec => [](TypeOK /\ SessionInv)
<1>1. Init => TypeOK /\ SessionInv
  BY SessionTypeInit, SessionInit
<1>2. TypeOK /\ DeletedUserHasNoToken /\ DeletedUserHasNoToken' /\ SessionInv /\ [Next]_vars
        => (TypeOK /\ SessionInv)'
  BY SessionTypeStep, SessionStep
<1> QED
  BY <1>1, <1>2, DeletionIsFinal, PTL DEF Spec

\* While no browser has two calls going at once and nothing is lost, the refreshes,
\* logins and logouts of each leave the sessions of the others alone: whoever is
\* signed in can refresh, and rotation never leaves a browser two valid tokens.
THEOREM SessionsAreKept == Spec => []SessionKept
<1>1. TypeOK /\ SessionInv => SessionKept
  <2> SUFFICES ASSUME TypeOK, InOnePlace PROVE SessionKept
    BY DEF SessionInv, SessionKept, Undisturbed
  <2>1. SessionAlive
    <3> SUFFICES ASSUME Quiet, user = "active", NEW w \in signedIn PROVE cookie[w] \in valid
      BY DEF SessionAlive
    <3>1. w \in Browser /\ \A c \in CallsOf(w) : ~Decided(c)
      BY Homes DEF Quiet, Free, Decided, TypeOK
    <3> QED
      BY <3>1 DEF InOnePlace, CookieOK, TokensOf
  <2>2. ASSUME NEW t1 \in valid, NEW t2 \in valid, issuedTo[t1] = issuedTo[t2] PROVE t1 = t2
    <3> DEFINE w == issuedTo[t1]
    <3>1. w \in Browser /\ t1 \in TokensOf(w) /\ t2 \in TokensOf(w)
      BY <2>2 DEF InOnePlace, TokenInv, TokensOf
    <3> HIDE DEF w
    <3>2. CASE \A c \in CallsOf(w) : ~Decided(c)
      BY <3>1, <3>2 DEF InOnePlace, CookieOK
    <3>3. CASE \E c \in CallsOf(w) : Decided(c)
      <4>1. PICK c \in Call : HomeOf(c) = w /\ Decided(c) /\ ~Free(c)
        BY <3>1, <3>3, Homes DEF Decided, Free
      <4>2. CallOK(c) /\ call[c] \in CallState
        BY <4>1 DEF InOnePlace, TypeOK, AuthTypeOK
      <4>3. call[c].op # "none"
        BY <4>1, <4>2 DEF CallOK
      <4> QED
        BY <3>1, <4>1, <4>2, <4>3 DEF CallOK, Decided, CallState, Op
    <3> QED
      BY <3>2, <3>3
  <2> QED
    BY <2>1, <2>2 DEF SessionKept
<1> QED
  BY <1>1, SessionInvariance, PTL

\* Under the same conditions a browser that has signed out keeps no cookie, and
\* no refresh token of it is left in the table.
THEOREM LogoutIsComplete == Spec => []LogoutEndsSession
<1>1. TypeOK /\ SessionInv => LogoutEndsSession
  <2> SUFFICES ASSUME TypeOK, InOnePlace, Quiet, NEW w \in Browser \ signedIn
               PROVE  cookie[w] = NoToken /\ \A t \in valid : issuedTo[t] # w
    BY DEF SessionInv, LogoutEndsSession, Undisturbed
  <2>1. \A c \in CallsOf(w) : ~Decided(c)
    BY Homes DEF Quiet, Free, Decided
  <2>2. cookie[w] = NoToken /\ TokensOf(w) \subseteq {NoToken}
    BY <2>1 DEF InOnePlace, CookieOK
  <2> QED
    BY <2>2, NoTokenIsNone DEF TokensOf, TypeOK
<1> QED
  BY <1>1, SessionInvariance, PTL

-----------------------------------------------------------------------------
(***************************************************************************)
(* The window.                                                             *)
(***************************************************************************)
(***************************************************************************)
(* What is cached and what is asked for belongs to somebody in S.          *)
(***************************************************************************)
IsRequest(r) ==
    r = [user |-> r.user, hh |-> r.hh, from |-> r.from,
         retried |-> r.retried, late |-> r.late]

IsEntry(e) == e = [data |-> e.data, stale |-> e.stale, failed |-> e.failed]

RequestsOf(p, S) ==
    /\ p = [k \in DOMAIN p |-> p[k]]
    /\ \A k \in DOMAIN p : IsRequest(p[k]) /\ p[k].user \in S

AnswersOf(c, S) ==
    /\ c = [k \in DOMAIN c |-> c[k]]
    /\ \A k \in DOMAIN c : IsEntry(c[k]) /\ \A d \in c[k].data : d.user \in S

Known == ({token} \cup left) \ {NoOne}

\* A signed out window shows the login page, which mounts no query: that is why
\* nothing is asked for in nobody's name.
OwnerInv ==
    /\ token = NoOne => page = "login"
    /\ RequestsOf(pending, Known)
    /\ AnswersOf(cache, Known)

SelectionInv ==
    /\ page # "list" => selected = {}
    /\ active = NoOne => selected = {}
    /\ DeletesWhatIsShown

-----------------------------------------------------------------------------
(* Operators *)

LEMMA EntryShape ==
    ASSUME NEW e, IsEntry(e), NEW v
    PROVE  /\ IsEntry([e EXCEPT !.stale = v]) /\ IsEntry([e EXCEPT !.failed = v])
           /\ [e EXCEPT !.stale = v].data = e.data
           /\ [e EXCEPT !.stale = v].stale = v /\ [e EXCEPT !.stale = v].failed = e.failed
           /\ [e EXCEPT !.failed = v].data = e.data
           /\ [e EXCEPT !.failed = v].stale = e.stale /\ [e EXCEPT !.failed = v].failed = v
<1> DEFINE d == e.data  s == e.stale  f == e.failed
<1>1. e = [data |-> d, stale |-> s, failed |-> f]
  BY DEF IsEntry
<1> HIDE DEF d, s, f
<1>2. [e EXCEPT !.stale = v] = [data |-> d, stale |-> v, failed |-> f]
  BY <1>1
<1>3. [e EXCEPT !.failed = v] = [data |-> d, stale |-> s, failed |-> v]
  BY <1>1
<1>4. /\ IsEntry([e EXCEPT !.stale = v]) /\ [e EXCEPT !.stale = v].data = d
      /\ [e EXCEPT !.stale = v].stale = v /\ [e EXCEPT !.stale = v].failed = f
  BY <1>2 DEF IsEntry
<1>5. /\ IsEntry([e EXCEPT !.failed = v]) /\ [e EXCEPT !.failed = v].data = d
      /\ [e EXCEPT !.failed = v].stale = s /\ [e EXCEPT !.failed = v].failed = v
  BY <1>3 DEF IsEntry
<1> QED
  BY <1>4, <1>5 DEF d, s, f

LEMMA RequestShape ==
    ASSUME NEW r, IsRequest(r), NEW l
    PROVE  /\ IsRequest([r EXCEPT !.late = l])
           /\ [r EXCEPT !.late = l].user = r.user /\ [r EXCEPT !.late = l].hh = r.hh
           /\ [r EXCEPT !.late = l].retried = r.retried /\ [r EXCEPT !.late = l].late = l
<1> DEFINE a == r.user  b == r.hh  c == r.from  d == r.retried  e == r.late
<1>1. r = [user |-> a, hh |-> b, from |-> c, retried |-> d, late |-> e]
  BY DEF IsRequest
<1> HIDE DEF a, b, c, d, e
<1>2. [r EXCEPT !.late = l] =
        [user |-> a, hh |-> b, from |-> c, retried |-> d, late |-> l]
  BY <1>1
<1>3. /\ IsRequest([r EXCEPT !.late = l])
      /\ [r EXCEPT !.late = l].user = a /\ [r EXCEPT !.late = l].hh = b
      /\ [r EXCEPT !.late = l].retried = d /\ [r EXCEPT !.late = l].late = l
  BY <1>2 DEF IsRequest
<1> QED
  BY <1>3 DEF a, b, d

LEMMA LoginMountsNothing ==
    ASSUME NEW h, NEW f
    PROVE  PageQueriesOf("login", h, f) = {}
  BY DEF PageQueriesOf

LEMMA StartKeepsOwners ==
    ASSUME NEW p, NEW ks, NEW u, NEW h, NEW n, NEW S,
           RequestsOf(p, S), ks # {} => u \in S
    PROVE  RequestsOf(Start(p, ks, u, h, n), S)
  BY DEF RequestsOf, Start, Sent, IsRequest

LEMMA WithoutKeepsOwners ==
    ASSUME NEW p, NEW ks, NEW S, RequestsOf(p, S)
    PROVE  RequestsOf(Without(p, ks), S)
  BY DEF RequestsOf, Without

\* Wherever the router goes, what the new page asks for is asked by t, and
\* without a t the new page is the login page.
LEMMA ShowKeepsOwners ==
    ASSUME NEW p, NEW t, NEW h, NEW c, NEW pnd, NEW n, NEW ms, NEW S,
           Show(p, t, h, c, pnd, n, ms),
           RequestsOf(pnd, S), t # NoOne => t \in S
    PROVE  /\ RequestsOf(pending', S)
           /\ t = NoOne => page' = "login"
<1>1. page' = Landing(p, t)
  BY DEF Show
<1>2. PICK f : pending' = Start(pnd, Wanted(c, pnd, PageQueriesOf(page', h, f)), t, h, n)
  BY DEF Show
<1>3. t = NoOne => page' = "login"
  BY <1>1 DEF Landing
<1>4. Wanted(c, pnd, PageQueriesOf(page', h, f)) # {} => t \in S
  BY <1>3, LoginMountsNothing DEF Wanted
<1> QED
  BY <1>2, <1>3, <1>4, StartKeepsOwners

LEMMA FailedKeepsOwners ==
    ASSUME NEW c, NEW k, NEW S, AnswersOf(c, S)
    PROVE  AnswersOf(Failed(c, k), S)
<1> DEFINE f == Failed(c, k)
<1>1. f = [j \in DOMAIN f |-> f[j]] /\ DOMAIN f = DOMAIN c \cup {k}
  BY DEF Failed
<1>2. ASSUME NEW j \in DOMAIN f PROVE IsEntry(f[j]) /\ \A d \in f[j].data : d.user \in S
  <2>1. CASE j # k
    BY <1>2, <2>1 DEF Failed, AnswersOf
  <2>2. CASE j = k /\ k \in DOMAIN c
    <3>1. IsEntry(c[k]) /\ \A d \in c[k].data : d.user \in S
      BY <2>2 DEF AnswersOf
    <3>2. f[j] = [c[k] EXCEPT !.failed = TRUE]
      BY <1>2, <2>2 DEF Failed
    <3>3. IsEntry([c[k] EXCEPT !.failed = TRUE]) /\ [c[k] EXCEPT !.failed = TRUE].data = c[k].data
      BY <3>1, EntryShape
    <3> HIDE DEF f
    <3> QED BY <3>1, <3>2, <3>3
  <2>3. CASE j = k /\ k \notin DOMAIN c
    BY <1>2, <2>3 DEF Failed, IsEntry
  <2> QED BY <2>1, <2>2, <2>3
<1> QED
  BY <1>1, <1>2 DEF AnswersOf

LEMMA MarkedKeepsOwners ==
    ASSUME NEW c, NEW inv, NEW S, AnswersOf(c, S)
    PROVE  AnswersOf(MarkedStale(c, inv), S)
<1> DEFINE f == MarkedStale(c, inv)
<1>1. f = [k \in DOMAIN f |-> f[k]] /\ DOMAIN f = DOMAIN c
  BY DEF MarkedStale
<1>2. ASSUME NEW k \in DOMAIN c PROVE IsEntry(f[k]) /\ f[k].data = c[k].data
  <2>1. IsEntry(c[k])
    BY DEF AnswersOf
  <2>2. f[k] = IF k \in inv THEN [c[k] EXCEPT !.stale = TRUE] ELSE c[k]
    BY DEF MarkedStale
  <2>3. IsEntry([c[k] EXCEPT !.stale = TRUE]) /\ [c[k] EXCEPT !.stale = TRUE].data = c[k].data
    BY <2>1, EntryShape
  <2> HIDE DEF f
  <2> QED BY <2>1, <2>2, <2>3
<1> QED
  BY <1>1, <1>2 DEF AnswersOf

\* invalidateQueries asks again only for what the page shows.
LEMMA RefetchedKeepsOwners ==
    ASSUME OwnerInv, NEW inv, NEW n
    PROVE  RequestsOf(Refetched(inv, Again(inv), n), Known)
<1> DEFINE q == Start(pending, Again(inv), token, active, n)
<1>1. Again(inv) # {} => token \in Known
  BY LoginMountsNothing DEF Again, MountedNow, OwnerInv, Known
<1>2. RequestsOf(q, Known)
  BY <1>1, StartKeepsOwners DEF OwnerInv
<1> HIDE DEF q
<1>3. Refetched(inv, Again(inv), n) =
        [k \in DOMAIN q |-> IF k \in inv \ Again(inv) THEN [q[k] EXCEPT !.late = TRUE] ELSE q[k]]
  BY DEF Refetched, q
<1> QED
  BY <1>2, <1>3, RequestShape DEF RequestsOf

-----------------------------------------------------------------------------
(* Owners *)

LEMMA OwnerInit == PagesInit => OwnerInv
<1> SUFFICES ASSUME PagesInit PROVE OwnerInv
  OBVIOUS
<1>1. token = NoOne => page = "login"
  BY DEF PagesInit, Landing
<1>2. MountedNow # {} => token \in Known
  BY <1>1, LoginMountsNothing DEF MountedNow, Known
<1>3. RequestsOf(NoFun, Known) /\ AnswersOf(NoFun, Known)
  BY DEF NoFun, RequestsOf, AnswersOf
<1>4. RequestsOf(pending, Known)
  BY <1>2, <1>3, StartKeepsOwners DEF PagesInit
<1> QED
  BY <1>1, <1>3, <1>4 DEF PagesInit, OwnerInv

\* Who is known stays known as long as nobody logs out.
LEMMA OwnersGrow ==
    ASSUME OwnerInv, Known \subseteq Known'
    PROVE  RequestsOf(pending, Known') /\ AnswersOf(cache, Known')
  BY DEF OwnerInv, RequestsOf, AnswersOf

LEMMA OwnerStep == OwnerInv /\ [PagesNext]_pagesVars => OwnerInv'
<1> SUFFICES ASSUME OwnerInv, [PagesNext]_pagesVars PROVE OwnerInv'
  OBVIOUS
<1>0. /\ token # NoOne => token \in Known
      /\ UNCHANGED session => Known' = Known
      /\ token' # NoOne => token' \in Known'
  BY DEF Known, session
<1>1. ASSUME NEW p \in Pages, Visit(p) PROVE OwnerInv'
  <2>1. RequestsOf(pending', Known) /\ (token = NoOne => page' = "login")
    BY <1>0, <1>1, ShowKeepsOwners DEF Visit, OwnerInv
  <2> QED
    BY <1>0, <1>1, <2>1 DEF Visit, OwnerInv, session
<1>2. ASSUME NEW f \in Filters, SetFilter(f) PROVE OwnerInv'
  <2>1. token # NoOne
    BY <1>2 DEF SetFilter, OwnerInv
  <2>2. RequestsOf(pending', Known)
    BY <1>0, <1>2, <2>1, StartKeepsOwners DEF SetFilter, OwnerInv
  <2> QED
    BY <1>0, <1>2, <2>2 DEF SetFilter, OwnerInv, session
<1>3. CASE Tick
  BY <1>0, <1>3 DEF Tick, OwnerInv, session, queries
<1>4. ASSUME NEW u \in Users, NEW known \in BOOLEAN, Login(u, known) PROVE OwnerInv'
  <2>1. token' = u /\ u # NoOne /\ Known \subseteq Known'
    BY <1>4, NoOneIsNoUser DEF Login, Known
  <2>2. RequestsOf(pending, Known') /\ AnswersOf(cache', Known')
    BY <1>4, <2>1, OwnersGrow DEF Login
  <2>3. RequestsOf(pending', Known')
    BY <1>0, <1>4, <2>1, <2>2, ShowKeepsOwners DEF Login
  <2> QED
    BY <2>1, <2>2, <2>3 DEF OwnerInv
<1>5. CASE Logout
  <2>1. RequestsOf(NoFun, {}) /\ AnswersOf(NoFun, Known')
    BY DEF NoFun, RequestsOf, AnswersOf
  <2>2. RequestsOf(pending', {}) /\ page' = "login"
    BY <1>5, <2>1, ShowKeepsOwners DEF Logout
  <2> QED
    BY <1>5, <2>1, <2>2 DEF Logout, OwnerInv, RequestsOf
<1>6. ASSUME NEW k \in DOMAIN pending, Resend(k) PROVE OwnerInv'
  <2>1. RequestsOf(pending', Known)
    BY <1>0, <1>6 DEF Resend, OwnerInv, RequestsOf, IsRequest
  <2> QED
    BY <1>0, <1>6, <2>1 DEF Resend, OwnerInv, session, view
<1>7. ASSUME NEW k \in DOMAIN pending, Refused(k) PROVE OwnerInv'
  BY <1>0, <1>7, WithoutKeepsOwners, FailedKeepsOwners DEF Refused, OwnerInv, session, view
<1>8. ASSUME NEW k \in DOMAIN pending, NEW queue \in SUBSET DOMAIN pending, Expire(k, queue)
      PROVE  OwnerInv'
  <2>1. token' = NoOne /\ Known \subseteq Known'
    BY <1>8 DEF Expire, Known
  <2>2. RequestsOf(Without(pending, {k}), Known') /\ AnswersOf(Failed(cache, k), Known')
    BY <2>1, OwnersGrow, WithoutKeepsOwners, FailedKeepsOwners
  <2>3. RequestsOf(pending', Known') /\ page' = "login"
    BY <1>8, <2>2, ShowKeepsOwners DEF Expire
  <2> QED
    BY <1>8, <2>2, <2>3 DEF Expire, OwnerInv
<1>9. ASSUME NEW k \in DOMAIN pending, NEW n \in 0..MaxSteps, Arrive(k, n) PROVE OwnerInv'
  <2> DEFINE r == pending[k]
             e == [data |-> {[user |-> r.user, hh |-> r.hh, asOf |-> n,
                              retried |-> r.retried, late |-> r.late]},
                   stale |-> FALSE, failed |-> FALSE]
  <2>1. cache' = [j \in DOMAIN cache \cup {k} |-> IF j # k THEN cache[j] ELSE e]
    BY <1>9 DEF Arrive
  <2>2. r.user \in Known
    BY <1>9 DEF OwnerInv, RequestsOf
  <2>3. IsEntry(e) /\ \A d \in e.data : d.user \in Known
    BY <2>2 DEF IsEntry
  <2>4. AnswersOf(cache', Known)
    <3> HIDE DEF e
    <3> QED BY <2>1, <2>3 DEF OwnerInv, AnswersOf
  <2>5. RequestsOf(pending', Known)
    BY <1>9, WithoutKeepsOwners DEF Arrive, OwnerInv
  <2> QED
    BY <1>0, <1>9, <2>4, <2>5 DEF Arrive, OwnerInv, session, view
<1>10. ASSUME NEW k \in DOMAIN cache, GrowStale(k) PROVE OwnerInv'
  <2>1. AnswersOf(MarkedStale(cache, {k}), Known)
    BY MarkedKeepsOwners DEF OwnerInv
  <2>2. cache' = MarkedStale(cache, {k})
    BY <1>10 DEF GrowStale, MarkedStale, OwnerInv, AnswersOf
  <2> QED
    BY <1>0, <1>10, <2>1, <2>2 DEF GrowStale, OwnerInv, session, view
<1>11. CASE Focus
  <2>1. token # NoOne
    BY <1>11, LoginMountsNothing DEF Focus, OwnerInv, MountedNow, Wanted
  <2>2. RequestsOf(pending', Known)
    BY <1>0, <1>11, <2>1, StartKeepsOwners DEF Focus, OwnerInv
  <2> QED
    BY <1>0, <1>11, <2>2 DEF Focus, OwnerInv, session, view
<1>12. ASSUME NEW kind \in Mutations, Submit(kind) PROVE OwnerInv'
  BY <1>0, <1>12 DEF Submit, OwnerInv, session, view, queries
<1>13. ASSUME NEW m \in writes, NEW h \in Households \cup {NoOne}, Succeed(m, h)
       PROVE  OwnerInv'
  <2>1. PICK inv : /\ cache' = MarkedStale(cache, inv)
                   /\ PageAfter(m, h, cache', Refetched(inv, Again(inv), applied'), applied')
    BY <1>13 DEF Succeed
  <2>2. AnswersOf(cache', Known)
    BY <2>1, MarkedKeepsOwners DEF OwnerInv
  <2>3. RequestsOf(Refetched(inv, Again(inv), applied'), Known)
    BY RefetchedKeepsOwners
  <2>4. /\ RequestsOf(pending', Known)
        /\ token = NoOne => page' = "login"
    BY <1>0, <2>1, <2>3, ShowKeepsOwners DEF PageAfter, OwnerInv
  <2> QED
    BY <1>0, <1>13, <2>2, <2>4 DEF Succeed, OwnerInv, session
<1>14. ASSUME NEW m \in writes, Fail(m) PROVE OwnerInv'
  BY <1>0, <1>14 DEF Fail, OwnerInv, session, view, queries
<1>15. CASE UNCHANGED pagesVars
  BY <1>15 DEF pagesVars, OwnerInv, Known
<1> QED
  BY <1>1, <1>2, <1>3, <1>4, <1>5, <1>6, <1>7, <1>8, <1>9, <1>10, <1>11, <1>12,
     <1>13, <1>14, <1>15 DEF PagesNext

-----------------------------------------------------------------------------
(* Selection *)

\* A page that mounts has nothing selected; a page that stays keeps its filter.
LEMMA ShowKeepsSelection ==
    ASSUME NEW p, NEW t, NEW h, NEW c, NEW pnd, NEW n, NEW ms,
           Show(p, t, h, c, pnd, n, ms)
    PROVE  selected' = {} \/ UNCHANGED <<page, filter, selected>>
  BY DEF Show

LEMMA SelectionStep == SelectionInv /\ [PagesNext]_pagesVars => SelectionInv'
<1> SUFFICES ASSUME SelectionInv, [PagesNext]_pagesVars PROVE SelectionInv'
  OBVIOUS
<1>0. /\ selected' = {} => SelectionInv'
      /\ UNCHANGED <<page, filter, selected, active>> /\ (recreated => recreated') => SelectionInv'
  BY DEF SelectionInv, DeletesWhatIsShown
<1>1. ASSUME NEW p \in Pages, Visit(p) PROVE SelectionInv'
  BY <1>0, <1>1, ShowKeepsSelection DEF Visit
<1>2. ASSUME NEW f \in Filters, SetFilter(f) PROVE SelectionInv'
  BY <1>0, <1>2 DEF SetFilter
<1>3. CASE Tick
  BY <1>3 DEF Tick, SelectionInv, DeletesWhatIsShown, changes
<1>4. ASSUME NEW u \in Users, NEW known \in BOOLEAN, Login(u, known) PROVE SelectionInv'
  BY <1>0, <1>4, ShowKeepsSelection DEF Login, view
<1>5. CASE Logout
  BY <1>0, <1>5, ShowKeepsSelection DEF Logout
<1>6. ASSUME NEW k \in DOMAIN pending, NEW queue \in SUBSET DOMAIN pending, Expire(k, queue)
      PROVE  SelectionInv'
  BY <1>0, <1>6, ShowKeepsSelection DEF Expire
<1>7. ASSUME NEW m \in writes, NEW h \in Households \cup {NoOne}, Succeed(m, h)
      PROVE  SelectionInv'
  <2>1. PICK c, p : PageAfter(m, h, c, p, applied')
    BY <1>7 DEF Succeed
  <2>2. CASE m.kind = "save"
    BY <1>0, <1>7, <2>1, <2>2, ShowKeepsSelection DEF PageAfter, Succeed, ActiveAfter
  <2>3. CASE m.kind = "accept"
    \* Whoever is on the dashboard has nothing selected.
    <3>1. Show("dashboard", token, h, c, p, applied', writes \ {m})
      BY <2>1, <2>3 DEF PageAfter
    <3>2. selected' = {}
      BY <3>1 DEF Show, Landing, SelectionInv
    <3> QED BY <1>0, <3>2
  <2>4. CASE m.kind = "create household"
    <3>1. selected' = {} \/ UNCHANGED <<page, filter, selected>>
      BY <2>1, <2>4, ShowKeepsSelection DEF PageAfter
    <3>2. active' \in Households /\ active' # NoOne
      BY <1>7, <2>4, NoOneIsNobody DEF Succeed, ActiveAfter
    <3>3. active # NoOne => recreated'
      BY <1>7, <2>4 DEF Succeed
    <3> QED
      BY <1>0, <3>1, <3>2, <3>3 DEF SelectionInv, DeletesWhatIsShown
  <2>5. CASE m.kind \notin {"save", "accept", "create household"}
    BY <1>0, <1>7, <2>1, <2>5 DEF PageAfter, Succeed, ActiveAfter
  <2> QED
    BY <2>2, <2>3, <2>4, <2>5
<1>8. CASE UNCHANGED <<page, filter, selected, active, recreated>>
  BY <1>0, <1>8
<1> QED
  BY <1>1, <1>2, <1>3, <1>4, <1>5, <1>6, <1>7, <1>8
  DEF PagesNext, Resend, Refused, Arrive, GrowStale, Focus, Submit, Fail, pagesVars, view, changes

-----------------------------------------------------------------------------
(* Types *)

AnyHousehold == Households \cup {NoOne}

Requested(p) == DOMAIN p \subseteq AllKeys /\ \A k \in DOMAIN p : p[k] \in Requests

Cached(c) == DOMAIN c \subseteq AllKeys /\ \A k \in DOMAIN c : c[k] \in Entries

\* A key names a household or none, whatever page mounts it.
LEMMA KeyTypes ==
    ASSUME NEW k \in AllKeys
    PROVE  k.hh \in AnyHousehold
<1>1. PICK p \in Pages, h \in AnyHousehold, f \in Filters : k \in PageQueriesOf(p, h, f)
  BY DEF AllKeys, AnyHousehold
<1> USE DEF Key, OfHousehold, AnyHousehold
<1>2. \A q \in DashboardQueries(h) \cup HouseholdQueries(h) \cup ActivityQueries(h) : q.hh \in AnyHousehold
  BY DEF DashboardQueries, HouseholdQueries, ActivityQueries
<1>3. \A q \in MonthlyReportQueries(h) \cup YearlyReportQueries(h) : q.hh \in AnyHousehold
  BY DEF MonthlyReportQueries, YearlyReportQueries
<1>4. \A q \in MemberReportQueries(h) \cup ExportHistoryQueries(h) : q.hh \in AnyHousehold
  BY DEF MemberReportQueries, ExportHistoryQueries
<1>5. \A q \in CategoriesQueries \cup InvitationQueries \cup ProfileQueries \cup NotificationQueries :
        q.hh \in AnyHousehold
  BY DEF CategoriesQueries, InvitationQueries, ProfileQueries, NotificationQueries
<1>6. \A q \in TransactionListQueries(h, f) : q.hh \in AnyHousehold
  <2>1. ASSUME NEW kinds PROVE \A q \in OfHousehold(kinds, h) : q.hh = h
    OBVIOUS
  <2>2. \A q \in {Key("list", g, f) : g \in {h} \ {NoOne}} : q.hh \in AnyHousehold
    OBVIOUS
  <2> HIDE DEF Key, OfHousehold
  <2>3. \A q \in OfHousehold({"categories of"}, h) : q.hh \in AnyHousehold
    BY <2>1
  <2> QED
    BY <2>2, <2>3 DEF TransactionListQueries
<1>7. \A q \in TransactionFormQueries(h, p = "edit") : q.hh \in AnyHousehold
  BY <1>5 DEF TransactionFormQueries
<1> QED
  BY <1>1, <1>2, <1>3, <1>4, <1>5, <1>6, <1>7 DEF PageQueriesOf, Pages, ProtectedPages

LEMMA MountedKeys ==
    ASSUME NEW p \in Pages, NEW h \in AnyHousehold, NEW f \in Filters
    PROVE  PageQueriesOf(p, h, f) \subseteq AllKeys
  BY DEF AllKeys, AnyHousehold

LEMMA StartTypes ==
    ASSUME NEW p, NEW ks \in SUBSET AllKeys, NEW u, NEW h \in AnyHousehold, NEW n \in Nat,
           Requested(p), ks # {} => u \in Users
    PROVE  Requested(Start(p, ks, u, h, n)) /\ DOMAIN p \subseteq DOMAIN Start(p, ks, u, h, n)
<1>1. \A k \in ks : Sent(k, u, h, n) \in Requests
  BY KeyTypes DEF Sent, Requests, RequestHousehold, AnyHousehold
<1> QED
  BY <1>1 DEF Start, Requested

LEMMA WithoutTypes ==
    ASSUME NEW p, NEW ks, Requested(p)
    PROVE  Requested(Without(p, ks)) /\ DOMAIN Without(p, ks) = DOMAIN p \ ks
  BY DEF Requested, Without

LEMMA EntryTypes ==
    ASSUME NEW e \in Entries, NEW v \in BOOLEAN
    PROVE  [e EXCEPT !.stale = v] \in Entries /\ [e EXCEPT !.failed = v] \in Entries
  BY DEF Entries

LEMMA CacheTypes ==
    ASSUME NEW c, NEW k \in AllKeys, NEW inv, Cached(c)
    PROVE  Cached(Failed(c, k)) /\ Cached(MarkedStale(c, inv))
<1>1. \A j \in DOMAIN c : /\ [c[j] EXCEPT !.stale = TRUE] \in Entries
                          /\ [c[j] EXCEPT !.failed = TRUE] \in Entries
  BY EntryTypes DEF Cached
<1>2. [data |-> {}, stale |-> FALSE, failed |-> TRUE] \in Entries
  BY DEF Entries
<1>3. Cached(Failed(c, k))
  BY <1>1, <1>2 DEF Cached, Failed
<1>4. Cached(MarkedStale(c, inv))
  BY <1>1 DEF Cached, MarkedStale
<1> QED
  BY <1>3, <1>4

LEMMA UnmountedTypes ==
    ASSUME NEW ms \in SUBSET Writes
    PROVE  Unmounted(ms) \subseteq Writes
<1>1. \A m \in Writes : [m EXCEPT !.here = FALSE] \in Writes
  BY DEF Writes
<1> QED
  BY <1>1 DEF Unmounted

\* Wherever the router goes.
LEMMA ShowTypes ==
    ASSUME NEW p \in Pages, NEW t \in Users \cup {NoOne}, NEW h \in AnyHousehold, NEW c, NEW pnd,
           NEW n \in Nat, NEW ms \in SUBSET Writes, Show(p, t, h, c, pnd, n, ms),
           PagesTypeOK, Requested(pnd)
    PROVE  /\ page' \in Pages /\ filter' \in Filters
           /\ selected' \subseteq [hh : Households, filter : Filters]
           /\ writes' \subseteq Writes
           /\ Requested(pending') /\ DOMAIN pnd \subseteq DOMAIN pending'
<1>1. page' = Landing(p, t) /\ page' \in Pages
  BY DEF Show, Landing, Pages
<1>2. DefaultFilter \in Filters
  BY SomeFilter DEF DefaultFilter
<1>3. PICK f \in Filters :
        /\ filter' = f
        /\ pending' = Start(pnd, Wanted(c, pnd, PageQueriesOf(page', h, f)), t, h, n)
  BY <1>2 DEF Show, PagesTypeOK
<1>4. Wanted(c, pnd, PageQueriesOf(page', h, f)) \in SUBSET AllKeys
  BY <1>1, MountedKeys DEF Wanted
<1>5. Wanted(c, pnd, PageQueriesOf(page', h, f)) # {} => t \in Users
  BY <1>1, LoginMountsNothing DEF Wanted, Landing
<1>6. selected' \subseteq [hh : Households, filter : Filters] /\ writes' \subseteq Writes
  BY UnmountedTypes DEF Show, PagesTypeOK
<1> QED
  BY <1>1, <1>3, <1>4, <1>5, <1>6, StartTypes

LEMMA TypesByPart ==
    PagesTypeOK <=> /\ token \in Users \cup {NoOne} /\ left \subseteq Users
               /\ active \in AnyHousehold
               /\ page \in Pages /\ filter \in Filters
               /\ selected \subseteq [hh : Households, filter : Filters]
               /\ Cached(cache)
               /\ Requested(pending) /\ hung \subseteq DOMAIN pending
               /\ writes \subseteq Writes /\ applied \in Nat /\ recreated \in BOOLEAN
               /\ submitted \in 0..steps /\ steps \in 0..MaxSteps
  BY DEF PagesTypeOK, Cached, Requested, AnyHousehold

LEMMA PagesTypeInit == PagesInit => PagesTypeOK
<1> SUFFICES ASSUME PagesInit PROVE PagesTypeOK
  OBVIOUS
<1>1. page \in Pages /\ filter \in Filters /\ active \in AnyHousehold /\ token \in Users \cup {NoOne}
  BY SomeFilter DEF PagesInit, Landing, Pages, DefaultFilter, AnyHousehold
<1>2. MountedNow \in SUBSET AllKeys
  BY <1>1, MountedKeys DEF MountedNow
<1>3. MountedNow # {} => token \in Users
  BY LoginMountsNothing DEF MountedNow, PagesInit, Landing
<1>4. Requested(NoFun) /\ Cached(NoFun)
  BY DEF Requested, Cached, NoFun
<1>5. Requested(pending)
  BY <1>1, <1>2, <1>3, <1>4, StartTypes DEF PagesInit
<1>6. hung \subseteq DOMAIN pending /\ left \subseteq Users /\ writes \subseteq Writes
  BY DEF PagesInit
<1>7. selected \subseteq [hh : Households, filter : Filters] /\ recreated \in BOOLEAN
  BY DEF PagesInit
<1>8. applied \in Nat /\ submitted \in 0..steps /\ steps \in 0..MaxSteps
  BY SomeFilter DEF PagesInit
<1>9. Cached(cache)
  BY <1>4 DEF PagesInit
<1> QED
  BY <1>1, <1>5, <1>6, <1>7, <1>8, <1>9, TypesByPart

\* A token is needed for anything to be mounted: OwnerInv.
LEMMA PagesTypeStep == PagesTypeOK /\ OwnerInv /\ [PagesNext]_pagesVars => PagesTypeOK'
<1> SUFFICES ASSUME PagesTypeOK, OwnerInv, [PagesNext]_pagesVars PROVE PagesTypeOK'
  OBVIOUS
<1> DEFINE TypeParts ==
             /\ token \in Users \cup {NoOne} /\ left \subseteq Users
             /\ active \in AnyHousehold
             /\ page \in Pages /\ filter \in Filters
             /\ selected \subseteq [hh : Households, filter : Filters]
             /\ Cached(cache)
             /\ Requested(pending) /\ hung \subseteq DOMAIN pending
             /\ writes \subseteq Writes /\ applied \in Nat /\ recreated \in BOOLEAN
             /\ submitted \in 0..steps /\ steps \in 0..MaxSteps
<1>a. TypeParts
  BY TypesByPart
<1>b. TypeParts' => PagesTypeOK'
  BY TypesByPart, PTL
<1>c. Step => steps' \in 0..MaxSteps /\ steps' = steps + 1 /\ submitted \in 0..steps'
  BY <1>a, SomeFilter DEF Step
<1>d. MountedNow \in SUBSET AllKeys /\ (MountedNow # {} => token \in Users)
  BY <1>a, MountedKeys, LoginMountsNothing DEF MountedNow, OwnerInv
<1> SUFFICES TypeParts'
  BY <1>b
<1>1. ASSUME NEW p \in Pages, Visit(p) PROVE TypeParts'
  <2>1. Show(p, token, active, cache, pending, applied, writes)
    BY <1>1 DEF Visit
  <2> QED
    BY <1>1, <1>a, <1>c, <2>1, ShowTypes DEF Visit, session
<1>2. ASSUME NEW f \in Filters, SetFilter(f) PROVE TypeParts'
  <2>1. token \in Users
    BY <1>2, <1>a DEF SetFilter, OwnerInv
  <2>2. Wanted(cache, pending, PageQueriesOf(page, active, f)) \in SUBSET AllKeys
    BY <1>a, MountedKeys DEF Wanted
  <2>3. Requested(pending') /\ DOMAIN pending \subseteq DOMAIN pending'
    BY <1>2, <1>a, <2>1, <2>2, StartTypes DEF SetFilter
  <2> QED
    BY <1>2, <1>a, <1>c, <2>3 DEF SetFilter, session, changes
<1>3. CASE Tick
  BY <1>3, <1>a DEF Tick, session, queries, changes, AnyHousehold
<1>4. ASSUME NEW u \in Users, NEW known \in BOOLEAN, Login(u, known) PROVE TypeParts'
  <2>1. CASE known
    <3>1. Show("dashboard", u, active, cache, pending, applied, writes)
      BY <1>4, <2>1 DEF Login
    <3>2. "dashboard" \in Pages
      BY DEF Pages, ProtectedPages
    <3> QED
      BY <1>4, <1>a, <1>c, <3>1, <3>2, ShowTypes DEF Login
  <2>2. CASE ~known
    BY <1>4, <1>a, <1>c, <2>2 DEF Login, view
  <2> QED
    BY <2>1, <2>2
<1>5. CASE Logout
  <2>1. Show("login", NoOne, active, NoFun, NoFun, applied, writes)
    BY <1>5 DEF Logout
  <2>2. "login" \in Pages /\ Requested(NoFun) /\ Cached(NoFun)
    BY DEF Pages, Requested, Cached, NoFun
  <2> QED
    BY <1>5, <1>a, <2>1, <2>2, ShowTypes DEF Logout
<1>6. ASSUME NEW k \in DOMAIN pending, Resend(k) PROVE TypeParts'
  <2>1. token \in Users /\ k.hh \in AnyHousehold
    BY <1>6, <1>a, KeyTypes DEF Resend, Requested
  <2>2. pending[k].late \in BOOLEAN
    BY <1>a DEF Requested, Requests
  <2>3. [user |-> token, hh |-> RequestHousehold(k, active), from |-> applied,
         retried |-> TRUE, late |-> pending[k].late] \in Requests
    BY <1>a, <2>1, <2>2 DEF Requests, RequestHousehold, AnyHousehold
  <2>4. Requested(pending') /\ DOMAIN pending' = DOMAIN pending
    BY <1>6, <1>a, <2>3 DEF Resend, Requested
  <2> QED
    BY <1>6, <1>a, <1>c, <2>4 DEF Resend, session, view, changes
<1>7. ASSUME NEW k \in DOMAIN pending, Refused(k) PROVE TypeParts'
  <2>1. k \in AllKeys
    BY <1>a DEF Requested
  <2>2. steps' \in 0..MaxSteps /\ submitted \in 0..steps'
    BY <1>7, <1>a, <1>c DEF Refused
  <2>3. Cached(cache') /\ Requested(pending') /\ DOMAIN pending' = DOMAIN pending \ {k}
    BY <1>7, <1>a, <2>1, CacheTypes, WithoutTypes DEF Refused
  <2> QED
    BY <1>7, <1>a, <2>2, <2>3 DEF Refused, session, view, changes
<1>8. ASSUME NEW k \in DOMAIN pending, NEW queue \in SUBSET DOMAIN pending, Expire(k, queue)
      PROVE  TypeParts'
  <2>1. k \in AllKeys
    BY <1>a DEF Requested
  <2>2. Requested(Without(pending, {k})) /\ DOMAIN Without(pending, {k}) = DOMAIN pending \ {k}
    BY <1>a, WithoutTypes
  <2>3. Show(page, NoOne, active, cache, Without(pending, {k}), applied, writes)
    BY <1>8 DEF Expire
  <2>4. Cached(cache')
    BY <1>8, <1>a, <2>1, CacheTypes DEF Expire
  <2>5. hung' \subseteq DOMAIN Without(pending, {k})
    BY <1>8, <1>a, <2>2 DEF Expire
  <2> QED
    BY <1>8, <1>a, <1>c, <2>2, <2>3, <2>4, <2>5, ShowTypes DEF Expire
<1>9. ASSUME NEW k \in DOMAIN pending, NEW n \in 0..MaxSteps, Arrive(k, n) PROVE TypeParts'
  <2> DEFINE r == pending[k]
             d == [user |-> r.user, hh |-> r.hh, asOf |-> n,
                   retried |-> r.retried, late |-> r.late]
             e == [data |-> {d}, stale |-> FALSE, failed |-> FALSE]
  <2>1. cache' = [j \in DOMAIN cache \cup {k} |-> IF j # k THEN cache[j] ELSE e]
    BY <1>9 DEF Arrive
  <2>2. r \in Requests /\ k \in AllKeys
    BY <1>a DEF Requested
  <2>3. d \in Answers
    BY <2>2 DEF Requests, Answers
  <2>4. e \in Entries
    <3> HIDE DEF d
    <3> QED BY <2>3 DEF Entries
  <2>5. Cached(cache')
    <3> HIDE DEF e
    <3> QED BY <1>a, <2>1, <2>2, <2>4 DEF Cached
  <2>6. Requested(pending') /\ DOMAIN pending' = DOMAIN pending \ {k}
    BY <1>9, <1>a, WithoutTypes DEF Arrive
  <2> QED
    BY <1>9, <1>a, <2>5, <2>6 DEF Arrive, session, view, changes
<1>10. ASSUME NEW k \in DOMAIN cache, GrowStale(k) PROVE TypeParts'
  <2>1. [cache[k] EXCEPT !.stale = TRUE] \in Entries
    BY <1>a, EntryTypes DEF Cached
  <2>2. Cached(cache')
    BY <1>10, <1>a, <2>1 DEF GrowStale, Cached
  <2> QED
    BY <1>10, <1>a, <1>c, <2>2 DEF GrowStale, session, view, changes
<1>11. CASE Focus
  <2>1. Wanted(cache, pending, MountedNow) \in SUBSET AllKeys
    BY <1>d DEF Wanted
  <2>2. token \in Users
    BY <1>11, <1>d DEF Focus, Wanted
  <2>3. Requested(pending') /\ DOMAIN pending \subseteq DOMAIN pending'
    BY <1>11, <1>a, <2>1, <2>2, StartTypes DEF Focus
  <2> QED
    BY <1>11, <1>a, <1>c, <2>3 DEF Focus, session, view, changes
<1>12. ASSUME NEW kind \in Mutations, Submit(kind) PROVE TypeParts'
  <2>1. submitted' \in 0..steps' /\ submitted' \in Nat
    BY <1>12, <1>a, <1>c, SomeFilter DEF Submit
  <2>2. [id |-> submitted', kind |-> kind, user |-> token, hh |-> active, here |-> TRUE] \in Writes
    BY <1>12, <1>a, <2>1 DEF Submit, Writes, AnyHousehold
  <2> QED
    BY <1>12, <1>a, <1>c, <2>1, <2>2 DEF Submit, session, view, queries
<1>13. ASSUME NEW m \in writes, NEW h \in AnyHousehold, Succeed(m, h) PROVE TypeParts'
  <2>1. PICK inv : /\ cache' = MarkedStale(cache, inv)
                   /\ hung' = hung \ Again(inv)
                   /\ PageAfter(m, h, cache', Refetched(inv, Again(inv), applied'), applied')
    BY <1>13 DEF Succeed
  <2>2. applied' \in Nat /\ active' \in AnyHousehold /\ recreated' \in BOOLEAN
    <3>1. applied' = applied + 1
      BY <1>13 DEF Succeed
    <3>2. active' = ActiveAfter(m, h) /\ active' \in AnyHousehold
      BY <1>13, <1>a DEF Succeed, ActiveAfter
    <3>3. recreated' \in BOOLEAN
      BY <1>13 DEF Succeed
    <3> QED BY <1>a, <3>1, <3>2, <3>3
  <2>3. Cached(cache')
    <3>1. \A j \in DOMAIN cache : [cache[j] EXCEPT !.stale = TRUE] \in Entries
      BY <1>a, EntryTypes DEF Cached
    <3> QED
      BY <1>a, <2>1, <3>1 DEF Cached, MarkedStale
  <2> DEFINE p == Refetched(inv, Again(inv), applied')
             q == Start(pending, Again(inv), token, active, applied')
  <2>4. Again(inv) \in SUBSET AllKeys /\ (Again(inv) # {} => token \in Users)
    BY <1>d DEF Again
  <2>5. Requested(q) /\ DOMAIN pending \subseteq DOMAIN q
    BY <1>a, <2>2, <2>4, StartTypes
  <2>6. Requested(p) /\ DOMAIN p = DOMAIN q
    <3>1. \A r \in Requests : [r EXCEPT !.late = TRUE] \in Requests
      BY DEF Requests
    <3>2. p = [k \in DOMAIN q |->
                 IF k \in inv \ Again(inv) THEN [q[k] EXCEPT !.late = TRUE] ELSE q[k]]
      BY DEF Refetched
    <3> HIDE DEF p, q
    <3> QED
      BY <2>5, <3>1, <3>2 DEF Requested
  <2>7. ASSUME NEW to \in Pages, Show(to, token, h, cache', p, applied', writes \ {m})
        PROVE  /\ page' \in Pages /\ filter' \in Filters
               /\ selected' \subseteq [hh : Households, filter : Filters]
               /\ writes' \subseteq Writes
               /\ Requested(pending') /\ DOMAIN p \subseteq DOMAIN pending'
    <3> HIDE DEF p, q
    <3>1. writes \ {m} \in SUBSET Writes
      BY <1>a
    <3> QED
      BY <1>a, <2>2, <2>6, <2>7, <3>1, ShowTypes
  <2>8. /\ page' \in Pages /\ filter' \in Filters
        /\ selected' \subseteq [hh : Households, filter : Filters]
        /\ writes' \subseteq Writes
        /\ Requested(pending') /\ DOMAIN p \subseteq DOMAIN pending'
    <3> HIDE DEF p, q
    <3>1. PageAfter(m, h, cache', p, applied')
      BY <2>1 DEF p
    <3>2. {"list", "dashboard", page} \subseteq Pages
      BY <1>a DEF Pages, ProtectedPages
    <3>3. CASE m.kind = "save"
      <4>1. Show("list", token, active, cache', p, applied', writes \ {m})
        BY <3>1, <3>3 DEF PageAfter
      <4>2. h = active
        BY <1>13, <3>3 DEF Succeed
      <4> QED BY <2>7, <3>2, <4>1, <4>2
    <3>4. CASE m.kind = "accept"
      BY <2>7, <3>1, <3>2, <3>4 DEF PageAfter
    <3>5. CASE m.kind = "create household"
      BY <2>7, <3>1, <3>2, <3>5 DEF PageAfter
    <3>6. CASE m.kind \notin {"save", "accept", "create household"}
      BY <1>a, <2>6, <3>1, <3>6 DEF PageAfter
    <3> QED
      BY <3>3, <3>4, <3>5, <3>6
  <2>9. hung' \subseteq DOMAIN pending'
    <3> HIDE DEF p, q
    <3> QED BY <1>a, <2>1, <2>5, <2>6, <2>8
  <2> QED
    BY <1>13, <1>a, <2>2, <2>3, <2>8, <2>9 DEF Succeed, session
<1>14. ASSUME NEW m \in writes, Fail(m) PROVE TypeParts'
  BY <1>14, <1>a, <1>c DEF Fail, session, view, queries
<1>15. CASE UNCHANGED pagesVars
  BY <1>15, <1>a DEF pagesVars
<1> QED
  BY <1>1, <1>2, <1>3, <1>4, <1>5, <1>6, <1>7, <1>8, <1>9, <1>10, <1>11, <1>12,
     <1>13, <1>14, <1>15 DEF PagesNext, AnyHousehold

-----------------------------------------------------------------------------
(***************************************************************************)
(* What is asked and answered belongs to the household its key names.      *)
(***************************************************************************)
HouseholdKinds == (NeedsHeader \ {"categories"}) \cup {"household"}

\* The household page has its household in the URL: even a request that is sent
\* again asks for the one in its key.
Addressed(k, r) ==
    /\ k.kind \in HouseholdKinds => r.retried \/ r.hh = k.hh
    /\ k.kind = "household" => r.hh = k.hh

RequestsAddressed(p) == \A k \in DOMAIN p : Addressed(k, p[k])

AnswersAddressed(c) == \A k \in DOMAIN c : \A d \in c[k].data : Addressed(k, d)

HouseholdInv == RequestsAddressed(pending) /\ AnswersAddressed(cache)

(***************************************************************************)
(* What the window was told of its own writes.                             *)
(***************************************************************************)
About(k, r) == Subject(k.kind, r.user, r.hh)

\* Whether r, a request or an answer, has to reckon with a write.
MustKnow(k, r) ==
    /\ ~r.late /\ About(k, r) \in DOMAIN told
    /\ k.kind = "household" => ~recreated

ToldInv == \A s \in DOMAIN told : told[s] \in Nat /\ told[s] <= applied

\* A request under way will be answered from after the write ...
AskedSince ==
    \A k \in DOMAIN pending :
      MustKnow(k, pending[k]) => pending[k].from >= told[About(k, pending[k])]

Outdated(k) == \E d \in cache[k].data : MustKnow(k, d) /\ d.asOf < told[About(k, d)]

\* ... and an answer from before it is stale; while its query is mounted there
\* is a request under way to replace it, unless one has failed.
OutdatedIsStale == \A k \in DOMAIN cache : Outdated(k) => cache[k].stale

BeingFetched(k) == k \in MountedNow => k \in DOMAIN pending \/ cache[k].failed

OutdatedIsFetched == \A k \in DOMAIN cache : Outdated(k) => BeingFetched(k)

\* A change of members whose page is still shown is one of the active household:
\* what it invalidates is what it was about.
MembersHere ==
    \A m \in writes :
      m.kind = "member" /\ m.here =>
        page = "household" /\ (recreated \/ (m.hh = active /\ active # NoOne))

WrittenInv == ToldInv /\ AskedSince /\ OutdatedIsStale /\ OutdatedIsFetched /\ MembersHere

-----------------------------------------------------------------------------
(* What a step asks for *)

LEMMA MountedNameActive ==
    ASSUME NEW p \in Pages, NEW h, NEW f, NEW k \in PageQueriesOf(p, h, f)
    PROVE  k.kind \in HouseholdKinds => k.hh = h
<1>1. ASSUME NEW kinds PROVE \A q \in OfHousehold(kinds, h) : q.hh = h
  BY DEF OfHousehold, Key
<1>2. \A q \in CategoriesQueries \cup InvitationQueries \cup ProfileQueries \cup NotificationQueries :
        q.kind \notin HouseholdKinds
  <2>1. \A q \in CategoriesQueries \cup InvitationQueries \cup ProfileQueries \cup NotificationQueries :
          q.kind \in {"categories", "invitation", "me", "notifications"}
    BY DEF CategoriesQueries, InvitationQueries, ProfileQueries, NotificationQueries, Key
  <2>2. {"categories", "invitation", "me", "notifications"} \cap HouseholdKinds = {}
    BY DEF HouseholdKinds, NeedsHeader
  <2> QED
    BY <2>1, <2>2
<1>3. \A q \in TransactionListQueries(h, f) : q.hh = h
  <2>1. \A q \in {Key("list", g, f) : g \in {h} \ {NoOne}} : q.hh = h
    BY DEF Key
  <2> QED
    BY <1>1, <2>1 DEF TransactionListQueries
<1>4. \A q \in TransactionFormQueries(h, p = "edit") : q.kind \in HouseholdKinds => q.hh = h
  BY <1>1, <1>2 DEF TransactionFormQueries
<1>5. \A q \in DashboardQueries(h) \cup HouseholdQueries(h) \cup ActivityQueries(h) : q.hh = h
  BY <1>1 DEF DashboardQueries, HouseholdQueries, ActivityQueries
<1>6. \A q \in MonthlyReportQueries(h) \cup YearlyReportQueries(h) : q.hh = h
  BY <1>1 DEF MonthlyReportQueries, YearlyReportQueries
<1>7. \A q \in MemberReportQueries(h) \cup ExportHistoryQueries(h) : q.hh = h
  BY <1>1 DEF MemberReportQueries, ExportHistoryQueries
<1> QED
  BY <1>2, <1>3, <1>4, <1>5, <1>6, <1>7 DEF PageQueriesOf, Pages, ProtectedPages

LEMMA SentAddressed ==
    ASSUME NEW p \in Pages, NEW h, NEW f, NEW k \in PageQueriesOf(p, h, f), NEW u, NEW n
    PROVE  Addressed(k, Sent(k, u, h, n))
  BY MountedNameActive DEF Addressed, Sent, RequestHousehold, HouseholdKinds, NeedsHeader

LEMMA StartAt ==
    ASSUME NEW p, NEW ks, NEW u, NEW h, NEW n
    PROVE  /\ DOMAIN Start(p, ks, u, h, n) = DOMAIN p \cup ks
           /\ \A k \in ks : Start(p, ks, u, h, n)[k] = Sent(k, u, h, n)
           /\ \A k \in DOMAIN p \ ks : Start(p, ks, u, h, n)[k] = p[k]
  BY DEF Start

LEMMA ShowStarts ==
    ASSUME NEW p \in Pages, NEW t, NEW h, NEW c, NEW pnd, NEW n, NEW ms,
           Show(p, t, h, c, pnd, n, ms)
    PROVE  /\ page' = Landing(p, t) /\ page' \in Pages
           /\ pending' = Start(pnd, Wanted(c, pnd, PageQueriesOf(page', h, filter')), t, h, n)
  BY DEF Show, Landing, Pages

\* An invalidation asks again for what is mounted, leaves alone what it is not
\* about, and marks the first requests it could not replace.
LEMMA RefetchedAt ==
    ASSUME OwnerInv, NEW inv, NEW n, NEW k \in DOMAIN Refetched(inv, Again(inv), n)
    PROVE  LET r == Refetched(inv, Again(inv), n)[k] IN
           \/ k \in Again(inv) /\ r = Sent(k, token, active, n)
           \/ k \in DOMAIN pending \ inv /\ r = pending[k]
           \/ /\ k \in DOMAIN pending /\ k \in inv /\ r.late
              /\ r.hh = pending[k].hh /\ r.retried = pending[k].retried
<1> DEFINE q == Start(pending, Again(inv), token, active, n)
<1>0. Again(inv) \subseteq inv
  BY DEF Again
<1>1. /\ DOMAIN q = DOMAIN pending \cup Again(inv)
      /\ \A j \in Again(inv) : q[j] = Sent(j, token, active, n)
      /\ \A j \in DOMAIN pending \ Again(inv) : q[j] = pending[j]
  BY DEF Start
<1>2. /\ k \in Again(inv) => q[k] = Sent(k, token, active, n)
      /\ k \notin Again(inv) => k \in DOMAIN pending /\ q[k] = pending[k]
  <2>1. k \in DOMAIN q
    BY DEF Refetched
  <2> HIDE DEF q
  <2> QED
    BY <1>1, <2>1
<1> HIDE DEF q
<1>3. /\ k \in DOMAIN q
      /\ Refetched(inv, Again(inv), n)[k] =
           IF k \in inv \ Again(inv) THEN [q[k] EXCEPT !.late = TRUE] ELSE q[k]
  BY DEF Refetched, q
<1>4. CASE k \in inv \ Again(inv)
  <2>1. k \in DOMAIN pending /\ IsRequest(pending[k]) /\ q[k] = pending[k]
    BY <1>2, <1>4 DEF OwnerInv, RequestsOf
  <2> QED
    BY <1>3, <1>4, <2>1, RequestShape
<1> QED
  BY <1>0, <1>2, <1>3, <1>4

LEMMA RefetchedDomain ==
    ASSUME NEW inv, NEW n
    PROVE  DOMAIN Refetched(inv, Again(inv), n) = DOMAIN pending \cup Again(inv)
  BY DEF Refetched, Start

\* Failures and invalidations change no answer.
LEMMA FailedAt ==
    ASSUME AnswersOf(cache, Known), NEW k, NEW j \in DOMAIN Failed(cache, k)
    PROVE  /\ j \in DOMAIN cache =>
                /\ Failed(cache, k)[j].data = cache[j].data
                /\ Failed(cache, k)[j].stale = cache[j].stale
                /\ cache[j].failed => Failed(cache, k)[j].failed
           /\ j \notin DOMAIN cache => Failed(cache, k)[j].data = {}
           /\ j = k => Failed(cache, k)[j].failed
<1>1. CASE j \in DOMAIN cache /\ j = k
  <2>1. Failed(cache, k)[j] = [cache[j] EXCEPT !.failed = TRUE]
    BY <1>1 DEF Failed
  <2>2. IsEntry(cache[j])
    BY <1>1 DEF AnswersOf
  <2> QED BY <1>1, <2>1, <2>2, EntryShape
<1>2. CASE j \in DOMAIN cache /\ j # k
  <2>1. Failed(cache, k)[j] = cache[j]
    BY <1>2 DEF Failed
  <2> QED BY <1>2, <2>1
<1>3. CASE j \notin DOMAIN cache
  <2>1. Failed(cache, k)[j] = [data |-> {}, stale |-> FALSE, failed |-> TRUE]
    BY <1>3 DEF Failed
  <2>2. Failed(cache, k)[j].data = {} /\ Failed(cache, k)[j].failed = TRUE
    BY <2>1
  <2> QED BY <1>3, <2>2
<1> QED BY <1>1, <1>2, <1>3

LEMMA MarkedAt ==
    ASSUME AnswersOf(cache, Known), NEW inv, NEW k \in DOMAIN MarkedStale(cache, inv)
    PROVE  /\ k \in DOMAIN cache
           /\ MarkedStale(cache, inv)[k].data = cache[k].data
           /\ MarkedStale(cache, inv)[k].failed = cache[k].failed
           /\ k \in inv \/ cache[k].stale => MarkedStale(cache, inv)[k].stale
<1>1. k \in DOMAIN cache /\ IsEntry(cache[k])
  BY DEF MarkedStale, AnswersOf
<1>2. CASE k \in inv
  <2>1. MarkedStale(cache, inv)[k] = [cache[k] EXCEPT !.stale = TRUE]
    BY <1>1, <1>2 DEF MarkedStale
  <2> QED BY <1>1, <1>2, <2>1, EntryShape
<1>3. CASE k \notin inv
  <2>1. MarkedStale(cache, inv)[k] = cache[k]
    BY <1>1, <1>3 DEF MarkedStale
  <2> QED BY <1>1, <1>3, <2>1
<1> QED BY <1>2, <1>3

-----------------------------------------------------------------------------
(* Households *)

LEMMA StartAddressed ==
    ASSUME NEW pnd, RequestsAddressed(pnd), NEW p \in Pages, NEW h, NEW f,
           NEW ks \in SUBSET PageQueriesOf(p, h, f), NEW u, NEW n
    PROVE  RequestsAddressed(Start(pnd, ks, u, h, n))
<1>1. \A k \in ks : Addressed(k, Sent(k, u, h, n))
  BY SentAddressed
<1> QED
  BY <1>1 DEF RequestsAddressed, Start

LEMMA ShowAddressed ==
    ASSUME NEW p \in Pages, NEW t, NEW h, NEW c, NEW pnd, NEW n, NEW ms,
           Show(p, t, h, c, pnd, n, ms), RequestsAddressed(pnd)
    PROVE  RequestsAddressed(pending')
<1>1. Wanted(c, pnd, PageQueriesOf(page', h, filter')) \in SUBSET PageQueriesOf(page', h, filter')
  BY DEF Wanted
<1> QED
  BY <1>1, ShowStarts, StartAddressed

LEMMA RefetchedAddressed ==
    ASSUME PagesTypeOK, OwnerInv, HouseholdInv, NEW inv, NEW n
    PROVE  RequestsAddressed(Refetched(inv, Again(inv), n))
<1> SUFFICES ASSUME NEW k \in DOMAIN Refetched(inv, Again(inv), n)
             PROVE  Addressed(k, Refetched(inv, Again(inv), n)[k])
  BY DEF RequestsAddressed
<1> DEFINE r == Refetched(inv, Again(inv), n)[k]
<1>1. CASE k \in Again(inv) /\ r = Sent(k, token, active, n)
  <2>1. page \in Pages /\ k \in PageQueriesOf(page, active, filter)
    BY <1>1 DEF Again, MountedNow, PagesTypeOK
  <2> QED
    BY <1>1, <2>1, SentAddressed
<1>2. CASE k \in DOMAIN pending \ inv /\ r = pending[k]
  BY <1>2 DEF HouseholdInv, RequestsAddressed
<1>3. CASE k \in DOMAIN pending /\ r.hh = pending[k].hh /\ r.retried = pending[k].retried
  BY <1>3 DEF HouseholdInv, RequestsAddressed, Addressed
<1> QED
  BY <1>1, <1>2, <1>3, RefetchedAt

LEMMA HouseholdInit == PagesInit => HouseholdInv
<1> SUFFICES ASSUME PagesInit PROVE HouseholdInv
  OBVIOUS
<1>1. page \in Pages /\ MountedNow \in SUBSET PageQueriesOf(page, active, filter)
  BY DEF PagesInit, Landing, Pages, MountedNow
<1>2. RequestsAddressed(NoFun) /\ AnswersAddressed(NoFun)
  BY DEF NoFun, RequestsAddressed, AnswersAddressed
<1> QED
  BY <1>1, <1>2, StartAddressed DEF PagesInit, HouseholdInv

LEMMA HouseholdStep ==
    PagesTypeOK /\ OwnerInv /\ HouseholdInv /\ [PagesNext]_pagesVars => HouseholdInv'
<1> SUFFICES ASSUME PagesTypeOK, OwnerInv, HouseholdInv, [PagesNext]_pagesVars
             PROVE  HouseholdInv'
  OBVIOUS
<1>0. /\ RequestsAddressed(pending') /\ AnswersAddressed(cache') => HouseholdInv'
      /\ RequestsAddressed(pending) /\ AnswersAddressed(cache)
      /\ AnswersOf(cache, Known) /\ page \in Pages
      /\ \A ks : RequestsAddressed(Without(pending, ks))
  BY DEF HouseholdInv, RequestsAddressed, AnswersAddressed, OwnerInv, PagesTypeOK, Without
<1>a. \A k : AnswersAddressed(Failed(cache, k))
  BY <1>0, FailedAt DEF AnswersAddressed
<1>1. ASSUME NEW p \in Pages, Visit(p) PROVE HouseholdInv'
  BY <1>0, <1>1, ShowAddressed DEF Visit
<1>2. ASSUME NEW f \in Filters, SetFilter(f) PROVE HouseholdInv'
  <2> DEFINE ks == Wanted(cache, pending, PageQueriesOf(page, active, f))
  <2>1. pending' = Start(pending, ks, token, active, applied) /\ UNCHANGED cache
    BY <1>2 DEF SetFilter
  <2>2. ks \in SUBSET PageQueriesOf(page, active, f)
    BY DEF Wanted
  <2> HIDE DEF ks
  <2> QED
    BY <1>0, <2>1, <2>2, StartAddressed
<1>3. CASE Tick
  BY <1>0, <1>3 DEF Tick, queries
<1>4. ASSUME NEW u \in Users, NEW known \in BOOLEAN, Login(u, known) PROVE HouseholdInv'
  <2>1. "dashboard" \in Pages
    BY DEF Pages, ProtectedPages
  <2> QED
    BY <1>0, <1>4, <2>1, ShowAddressed DEF Login
<1>5. CASE Logout
  <2>1. "login" \in Pages /\ RequestsAddressed(NoFun) /\ AnswersAddressed(NoFun)
    BY DEF Pages, NoFun, RequestsAddressed, AnswersAddressed
  <2> QED
    BY <1>0, <1>5, <2>1, ShowAddressed DEF Logout
<1>6. ASSUME NEW k \in DOMAIN pending, Resend(k) PROVE HouseholdInv'
  <2> DEFINE r == [user |-> token, hh |-> RequestHousehold(k, active),
                   from |-> applied, retried |-> TRUE, late |-> pending[k].late]
  <2>1. pending' = [pending EXCEPT ![k] = r]
    BY <1>6 DEF Resend
  <2>2. Addressed(k, r)
    BY DEF Addressed, RequestHousehold, NeedsHeader
  <2> HIDE DEF r
  <2> QED
    BY <1>0, <1>6, <2>1, <2>2 DEF Resend, RequestsAddressed
<1>7. ASSUME NEW k \in DOMAIN pending, Refused(k) PROVE HouseholdInv'
  BY <1>0, <1>a, <1>7 DEF Refused
<1>8. ASSUME NEW k \in DOMAIN pending, NEW queue \in SUBSET DOMAIN pending, Expire(k, queue)
      PROVE  HouseholdInv'
  BY <1>0, <1>a, <1>8, ShowAddressed DEF Expire
<1>9. ASSUME NEW k \in DOMAIN pending, NEW n \in 0..MaxSteps, Arrive(k, n) PROVE HouseholdInv'
  <2> DEFINE r == pending[k]
             a == [user |-> r.user, hh |-> r.hh, asOf |-> n, retried |-> r.retried, late |-> r.late]
             e == [data |-> {a}, stale |-> FALSE, failed |-> FALSE]
  <2>1. cache' = [j \in DOMAIN cache \cup {k} |-> IF j # k THEN cache[j] ELSE e]
    BY <1>9 DEF Arrive
  <2>2. Addressed(k, a)
    BY <1>0 DEF RequestsAddressed, Addressed
  <2>3. \A d \in e.data : Addressed(k, d)
    <3> HIDE DEF a
    <3> QED BY <2>2
  <2>4. AnswersAddressed(cache')
    <3> HIDE DEF e
    <3> QED BY <1>0, <2>1, <2>3 DEF AnswersAddressed
  <2> QED
    BY <1>0, <1>9, <2>4 DEF Arrive
<1>10. ASSUME NEW k \in DOMAIN cache, GrowStale(k) PROVE HouseholdInv'
  <2>1. cache' = MarkedStale(cache, {k})
    BY <1>10 DEF GrowStale, MarkedStale, OwnerInv, AnswersOf
  <2>2. AnswersAddressed(cache')
    BY <1>0, <2>1, MarkedAt DEF AnswersAddressed
  <2> QED
    BY <1>0, <1>10, <2>2 DEF GrowStale
<1>11. CASE Focus
  <2>1. Wanted(cache, pending, MountedNow) \in SUBSET PageQueriesOf(page, active, filter)
    BY DEF Wanted, MountedNow
  <2> QED
    BY <1>0, <1>11, <2>1, StartAddressed DEF Focus
<1>12. ASSUME NEW kind \in Mutations, Submit(kind) PROVE HouseholdInv'
  BY <1>0, <1>12 DEF Submit, queries
<1>13. ASSUME NEW m \in writes, NEW h \in Households \cup {NoOne}, Succeed(m, h)
       PROVE  HouseholdInv'
  <2>1. PICK inv : /\ cache' = MarkedStale(cache, inv)
                   /\ PageAfter(m, h, cache', Refetched(inv, Again(inv), applied'), applied')
    BY <1>13 DEF Succeed
  <2>2. AnswersAddressed(cache')
    BY <1>0, <2>1, MarkedAt DEF AnswersAddressed
  <2>3. RequestsAddressed(Refetched(inv, Again(inv), applied'))
    BY RefetchedAddressed
  <2>4. {"list", "dashboard", page} \subseteq Pages
    BY <1>0 DEF Pages, ProtectedPages
  <2>5. RequestsAddressed(pending')
    BY <2>1, <2>3, <2>4, ShowAddressed DEF PageAfter
  <2> QED
    BY <1>0, <2>2, <2>5
<1>14. ASSUME NEW m \in writes, Fail(m) PROVE HouseholdInv'
  BY <1>0, <1>14 DEF Fail, queries
<1>15. CASE UNCHANGED pagesVars
  BY <1>15 DEF pagesVars, HouseholdInv, RequestsAddressed, AnswersAddressed
<1> QED
  BY <1>1, <1>2, <1>3, <1>4, <1>5, <1>6, <1>7, <1>8, <1>9, <1>10, <1>11, <1>12,
     <1>13, <1>14, <1>15 DEF PagesNext

-----------------------------------------------------------------------------
(* Writes *)

KeyKinds == {"summary", "list", "categories of", "categories", "transaction", "household",
             "invitation", "me", "notifications", "monthly", "yearly", "members", "exports",
             "activity"}

LEMMA KindsOfKeys ==
    ASSUME NEW k \in AllKeys
    PROVE  k.kind \in KeyKinds
<1>1. PICK p \in Pages, h \in AnyHousehold, f \in Filters : k \in PageQueriesOf(p, h, f)
  BY DEF AllKeys, AnyHousehold
<1>2. ASSUME NEW kinds PROVE \A q \in OfHousehold(kinds, h) : q.kind \in kinds
  BY DEF OfHousehold, Key
<1>3. \A q \in DashboardQueries(h) \cup HouseholdQueries(h) \cup ActivityQueries(h) : q.kind \in KeyKinds
  BY <1>2 DEF DashboardQueries, HouseholdQueries, ActivityQueries, KeyKinds
<1>4. \A q \in MonthlyReportQueries(h) \cup YearlyReportQueries(h) : q.kind \in KeyKinds
  BY <1>2 DEF MonthlyReportQueries, YearlyReportQueries, KeyKinds
<1>5. \A q \in MemberReportQueries(h) \cup ExportHistoryQueries(h) : q.kind \in KeyKinds
  BY <1>2 DEF MemberReportQueries, ExportHistoryQueries, KeyKinds
<1>6. \A q \in CategoriesQueries \cup InvitationQueries \cup ProfileQueries \cup NotificationQueries :
        q.kind \in KeyKinds
  <2>1. \A q \in CategoriesQueries \cup InvitationQueries \cup ProfileQueries \cup NotificationQueries :
          q.kind \in {"categories", "invitation", "me", "notifications"}
    BY DEF CategoriesQueries, InvitationQueries, ProfileQueries, NotificationQueries, Key
  <2> QED
    BY <2>1 DEF KeyKinds
<1>7. \A q \in TransactionListQueries(h, f) : q.kind \in KeyKinds
  <2>1. \A q \in {Key("list", g, f) : g \in {h} \ {NoOne}} : q.kind = "list"
    BY DEF Key
  <2>2. \A q \in OfHousehold({"categories of"}, h) : q.kind \in KeyKinds
    BY <1>2 DEF KeyKinds
  <2> QED
    BY <2>1, <2>2 DEF TransactionListQueries, KeyKinds
<1>8. \A q \in TransactionFormQueries(h, p = "edit") : q.kind \in KeyKinds
  <2>1. \A q \in OfHousehold({"transaction"}, h) : q.kind \in KeyKinds
    BY <1>2 DEF KeyKinds
  <2> QED
    BY <1>6, <2>1 DEF TransactionFormQueries
<1> QED
  BY <1>1, <1>3, <1>4, <1>5, <1>6, <1>7, <1>8 DEF PageQueriesOf, Pages, ProtectedPages

\* What a mutation invalidates is at least every query of its subject.
LEMMA WritesInvalidate ==
    ASSUME NEW k, k.kind \in KeyKinds, NEW r, NEW m, m.kind \in Mutations, NEW was, was.kind = m.kind,
           About(k, r) = Subject(m.kind, m.user, m.hh),
           k.kind = "household" /\ m.kind = "member" /\ r.hh = m.hh => k.hh = was.hh
    PROVE  Invalidates(was, k)
<1>1. /\ About(k, r).what = Subject(m.kind, m.user, m.hh).what
      /\ About(k, r).owner = Subject(m.kind, m.user, m.hh).owner
  OBVIOUS
<1>2. CASE m.kind \in {"save", "bulk delete"}
  <2>1. Subject(m.kind, m.user, m.hh).what = "transactions"
    BY <1>2 DEF Subject
  <2>2. k.kind \in TransactionKinds
    BY <1>1, <2>1 DEF About, Subject, KeyKinds, TransactionKinds
  <2> QED
    BY <1>2, <2>2 DEF Invalidates
<1>3. CASE m.kind = "category"
  <2>1. Subject(m.kind, m.user, m.hh).what = "categories"
    BY <1>3 DEF Subject, TransactionKinds
  <2>2. k.kind \in {"categories", "categories of"}
    BY <1>1, <2>1 DEF About, Subject, KeyKinds, TransactionKinds
  <2> QED
    BY <1>3, <2>2 DEF Invalidates
<1>4. CASE m.kind = "member"
  <2>1. /\ Subject(m.kind, m.user, m.hh).what = "household"
        /\ Subject(m.kind, m.user, m.hh).owner = m.hh
    BY <1>4 DEF Subject, TransactionKinds
  <2>2. k.kind = "household"
    BY <1>1, <2>1 DEF About, Subject, KeyKinds, TransactionKinds
  <2>3. r.hh = m.hh
    BY <1>1, <2>1, <2>2 DEF About, Subject
  <2> QED
    BY <1>4, <2>2, <2>3 DEF Invalidates
<1>5. CASE m.kind = "profile"
  <2>1. Subject(m.kind, m.user, m.hh).what = "me"
    BY <1>5 DEF Subject, TransactionKinds
  <2>2. k.kind = "me"
    BY <1>1, <2>1 DEF About, Subject, KeyKinds, TransactionKinds
  <2> QED
    BY <1>5, <2>2 DEF Invalidates
<1>6. CASE m.kind = "read"
  <2>1. Subject(m.kind, m.user, m.hh).what = "notifications"
    BY <1>6 DEF Subject, TransactionKinds
  <2>2. k.kind = "notifications"
    BY <1>1, <2>1 DEF About, Subject, KeyKinds, TransactionKinds
  <2> QED
    BY <1>6, <2>2 DEF Invalidates
<1>7. CASE m.kind \in {"create household", "accept"}
  <2>1. Subject(m.kind, m.user, m.hh).what = m.kind
    BY <1>7 DEF Subject, TransactionKinds
  <2> QED
    BY <1>1, <1>7, <2>1 DEF About, Subject, KeyKinds, TransactionKinds
<1> QED
  BY <1>2, <1>3, <1>4, <1>5, <1>6, <1>7 DEF Mutations

\* A request is as before, or is sent now and will see every write so far.
LEMMA AskedKept ==
    ASSUME WrittenInv, UNCHANGED <<told, recreated>>,
           \A k \in DOMAIN pending' : \/ k \in DOMAIN pending /\ pending'[k] = pending[k]
                                      \/ pending'[k].from = applied
    PROVE  AskedSince'
<1> SUFFICES ASSUME NEW k \in DOMAIN pending', MustKnow(k, pending'[k])
             PROVE  pending'[k].from >= told[About(k, pending'[k])]
  BY DEF AskedSince, MustKnow, About
<1>1. CASE k \in DOMAIN pending /\ pending'[k] = pending[k]
  BY <1>1 DEF WrittenInv, AskedSince
<1>2. CASE pending'[k].from = applied
  <2>1. /\ told[About(k, pending'[k])] \in Nat
        /\ told[About(k, pending'[k])] <= applied
    BY DEF WrittenInv, ToldInv, MustKnow
  <2> QED
    BY <1>2, <2>1
<1> QED
  BY <1>1, <1>2

\* An answer that is kept stays as stale and as failed as it was.
AnswersKept ==
    \A k \in DOMAIN cache' :
      cache'[k].data # {} =>
        /\ k \in DOMAIN cache /\ cache'[k].data = cache[k].data
        /\ cache[k].stale => cache'[k].stale
        /\ cache[k].failed => cache'[k].failed

LEMMA OutdatedBefore ==
    ASSUME AnswersKept, UNCHANGED <<told, recreated>>, OutdatedIsStale
    PROVE  /\ OutdatedIsStale'
           /\ \A k \in DOMAIN cache' : Outdated(k)' => k \in DOMAIN cache /\ Outdated(k)
<1>1. ASSUME NEW k \in DOMAIN cache', Outdated(k)'
      PROVE  k \in DOMAIN cache /\ Outdated(k) /\ (cache[k].stale => cache'[k].stale)
  BY <1>1 DEF AnswersKept, Outdated, MustKnow, About
<1> QED
  BY <1>1 DEF OutdatedIsStale

LEMMA ToldKept ==
    ASSUME PagesTypeOK, ToldInv, UNCHANGED told, applied' \in {applied, applied + 1}
    PROVE  ToldInv'
  BY DEF PagesTypeOK, ToldInv

\* The page stays, or its mutations outlive it.
LEMMA MembersKept ==
    ASSUME PagesTypeOK, MembersHere, recreated => recreated',
           active' = active \/ active = NoOne \/ recreated' \/ page' # "household",
           \/ page' = page /\ writes' \subseteq writes
           \/ page' # page /\ \E ms \in SUBSET writes : writes' = Unmounted(ms)
    PROVE  MembersHere'
<1>1. CASE page' = page /\ writes' \subseteq writes
  BY <1>1 DEF MembersHere
<1>2. ASSUME NEW ms \in SUBSET writes, writes' = Unmounted(ms) PROVE MembersHere'
  <2>1. \A m \in ms : [m EXCEPT !.here = FALSE].here = FALSE
    BY DEF PagesTypeOK, Writes
  <2> QED
    BY <1>2, <2>1 DEF MembersHere, Unmounted
<1> QED
  BY <1>1, <1>2

LEMMA ShowMembers ==
    ASSUME NEW p, NEW t, NEW h, NEW c, NEW pnd, NEW n, NEW ms \in SUBSET writes,
           Show(p, t, h, c, pnd, n, ms)
    PROVE  \/ page' = page /\ writes' \subseteq writes
           \/ page' # page /\ \E xs \in SUBSET writes : writes' = Unmounted(xs)
  BY DEF Show

\* Whatever is stale and mounted is asked for by the page that mounts it.
LEMMA ShowFetches ==
    ASSUME NEW p \in Pages, NEW t, NEW pnd, NEW n, NEW ms,
           Show(p, t, active', cache', pnd, n, ms)
    PROVE  /\ DOMAIN pnd \subseteq DOMAIN pending'
           /\ \A k \in DOMAIN pending' : \/ k \in DOMAIN pnd /\ pending'[k] = pnd[k]
                                         \/ pending'[k].from = n
           /\ \A k \in MountedNow' : k \in DOMAIN cache' /\ cache'[k].stale => k \in DOMAIN pending'
<1> DEFINE ks == Wanted(cache', pnd, PageQueriesOf(page', active', filter'))
<1>1. pending' = Start(pnd, ks, t, active', n)
  BY ShowStarts
<1>2. \A k \in MountedNow' : k \in DOMAIN cache' /\ cache'[k].stale => k \in DOMAIN pnd \cup ks
  BY DEF MountedNow, Wanted
<1> HIDE DEF ks
<1>3. DOMAIN pending' = DOMAIN pnd \cup ks
  BY <1>1 DEF Start
<1>4. \A k \in ks : pending'[k].from = n
  BY <1>1 DEF Start, Sent
<1>5. \A k \in DOMAIN pnd \ ks : pending'[k] = pnd[k]
  BY <1>1 DEF Start
<1> QED
  BY <1>2, <1>3, <1>4, <1>5

LEMMA ShowWritten ==
    ASSUME PagesTypeOK, WrittenInv, UNCHANGED <<told, recreated, applied, active>>,
           NEW p \in Pages, NEW t, NEW pnd, Show(p, t, active, cache', pnd, applied, writes),
           \A k \in DOMAIN pnd : k \in DOMAIN pending /\ pnd[k] = pending[k],
           AnswersKept
    PROVE  WrittenInv'
<1>1. Show(p, t, active', cache', pnd, applied, writes)
  OBVIOUS
<1>2. AskedSince'
  BY <1>1, ShowFetches, AskedKept
<1>3. OutdatedIsStale' /\ ToldInv'
  BY OutdatedBefore, ToldKept DEF WrittenInv
<1>4. OutdatedIsFetched'
  BY <1>1, <1>3, ShowFetches DEF OutdatedIsFetched, OutdatedIsStale, BeingFetched
<1>5. MembersHere'
  BY <1>1, ShowMembers, MembersKept DEF WrittenInv
<1> QED
  BY <1>2, <1>3, <1>4, <1>5 DEF WrittenInv

\* The page stays as it is, and so do the requests but for new ones.
LEMMA StayWritten ==
    ASSUME PagesTypeOK, WrittenInv, UNCHANGED <<told, recreated, active, page, filter>>,
           applied' \in {applied, applied + 1}, AnswersKept, MembersHere',
           \A k \in DOMAIN pending' : \/ k \in DOMAIN pending /\ pending'[k] = pending[k]
                                      \/ pending'[k].from = applied,
           \A k \in DOMAIN cache' : k \in DOMAIN pending => k \in DOMAIN pending' \/ cache'[k].failed
    PROVE  WrittenInv'
<1>1. AskedSince'
  BY AskedKept
<1>2. /\ OutdatedIsStale' /\ ToldInv'
      /\ \A k \in DOMAIN cache' : Outdated(k)' => k \in DOMAIN cache /\ Outdated(k)
  BY OutdatedBefore, ToldKept DEF WrittenInv
<1>3. \A k \in DOMAIN cache' : Outdated(k)' => cache'[k].data # {}
  BY DEF Outdated
<1>4. MountedNow' = MountedNow
  BY DEF MountedNow
<1>5. OutdatedIsFetched'
  BY <1>2, <1>3, <1>4 DEF WrittenInv, OutdatedIsFetched, BeingFetched, AnswersKept
<1> QED
  BY <1>1, <1>2, <1>5 DEF WrittenInv

\* An answer comes from after every write the window knew of when it asked.
LEMMA ArriveWritten ==
    ASSUME PagesTypeOK, WrittenInv, NEW k \in DOMAIN pending, NEW n \in 0..MaxSteps, Arrive(k, n)
    PROVE  WrittenInv'
<1> DEFINE r == pending[k]
           a == [user |-> r.user, hh |-> r.hh, asOf |-> n, retried |-> r.retried, late |-> r.late]
           e == [data |-> {a}, stale |-> FALSE, failed |-> FALSE]
<1>0. /\ UNCHANGED <<told, recreated, active, applied, page, filter, writes>>
      /\ pending' = Without(pending, {k}) /\ n >= r.from /\ r.from \in Nat
  BY SomeFilter DEF Arrive, view, changes, PagesTypeOK, Requests
<1>1. DOMAIN cache' = DOMAIN cache \cup {k}
  BY DEF Arrive
<1>2. cache'[k] = e
  BY DEF Arrive
<1>3. \A j \in DOMAIN cache' : j # k => j \in DOMAIN cache /\ cache'[j] = cache[j]
  BY DEF Arrive
<1>4. ~Outdated(k)'
  <2> SUFFICES ASSUME NEW d \in cache'[k].data, MustKnow(k, d)', d.asOf < told'[About(k, d)]
               PROVE  FALSE
    BY DEF Outdated, About
  <2>1. d = a
    BY <1>2
  <2>2. /\ d.asOf = n /\ d.user = r.user /\ d.hh = r.hh /\ d.late = r.late
    BY <2>1
  <2>3. About(k, d) = About(k, r) /\ MustKnow(k, r)
    BY <1>0, <2>2 DEF MustKnow, About
  <2>4. r.from >= told[About(k, r)] /\ told[About(k, r)] \in Nat
    BY <2>3 DEF WrittenInv, AskedSince, ToldInv, MustKnow
  <2> QED
    BY <1>0, <2>2, <2>3, <2>4
<1>5. \A j \in DOMAIN cache' : Outdated(j)' =>
        /\ j # k /\ j \in DOMAIN cache /\ cache'[j] = cache[j] /\ Outdated(j)
  BY <1>0, <1>3, <1>4 DEF Outdated, MustKnow, About
<1>6. OutdatedIsStale'
  BY <1>5 DEF WrittenInv, OutdatedIsStale
<1>7. DOMAIN pending' = DOMAIN pending \ {k} /\ MountedNow' = MountedNow
  BY <1>0 DEF Without, MountedNow
<1>8. OutdatedIsFetched'
  BY <1>5, <1>7 DEF WrittenInv, OutdatedIsFetched, BeingFetched
<1>9. AskedSince'
  <2>1. \A j \in DOMAIN pending' : j \in DOMAIN pending /\ pending'[j] = pending[j]
    BY <1>0 DEF Without
  <2> QED
    BY <1>0, <2>1, AskedKept
<1>10. ToldInv' /\ MembersHere'
  BY <1>0, ToldKept DEF WrittenInv, MembersHere
<1> QED
  BY <1>6, <1>8, <1>9, <1>10 DEF WrittenInv

LEMMA SucceedWritten ==
    ASSUME PagesTypeOK, OwnerInv, HouseholdInv, WrittenInv,
           NEW m \in writes, NEW h \in Households \cup {NoOne}, Succeed(m, h)
    PROVE  WrittenInv'
<1> DEFINE S == Subject(m.kind, m.user, m.hh)
           was == [m EXCEPT !.hh = IF m.here THEN active ELSE @]
           inv == {k \in DOMAIN cache \cup DOMAIN pending : Invalidates(was, k)}
           q == Refetched(inv, Again(inv), applied')
<1>0. /\ applied' = applied + 1 /\ active' = ActiveAfter(m, h)
      /\ cache' = MarkedStale(cache, inv)
      /\ PageAfter(m, h, cache', q, applied')
  BY DEF Succeed
<1>1. /\ recreated => recreated'
      /\ m.kind # "create household" => recreated' = recreated
      /\ m.kind = "create household" /\ active # NoOne => recreated'
  BY DEF Succeed, PagesTypeOK
<1>2. /\ DOMAIN told' = DOMAIN told \cup {S} /\ told'[S] = applied'
      /\ \A s \in DOMAIN told \ {S} : told'[s] = told[s]
  BY DEF Succeed
<1>3. ToldInv'
  BY <1>0, <1>2 DEF WrittenInv, ToldInv, PagesTypeOK
<1>4. m \in Writes /\ m.kind \in Mutations
  BY DEF PagesTypeOK, Writes
<1>5. /\ was.kind = m.kind /\ was.hh = IF m.here THEN active ELSE m.hh
  BY <1>4 DEF Writes
<1> HIDE DEF was, q
\* What is about the subject of m is invalidated by it.
<1>6. ASSUME NEW k \in DOMAIN cache \cup DOMAIN pending, NEW r, Addressed(k, r),
             MustKnow(k, r)', About(k, r) = S
      PROVE  k \in inv
  <2>1. k \in AllKeys /\ k.kind \in KeyKinds
    BY KindsOfKeys DEF PagesTypeOK
  <2>2. ASSUME k.kind = "household", m.kind = "member", r.hh = m.hh PROVE k.hh = was.hh
    <3>1. k.hh = m.hh /\ ~recreated
      BY <1>1, <1>6, <2>2 DEF Addressed, MustKnow
    <3>2. m.here => active = m.hh
      BY <2>2, <3>1 DEF WrittenInv, MembersHere
    <3> QED
      BY <1>5, <3>1, <3>2
  <2>3. Invalidates(was, k)
    BY <1>4, <1>5, <1>6, <2>1, <2>2, WritesInvalidate
  <2> QED
    BY <2>3
\* What has to reckon with another write had to before.
<1>7. ASSUME NEW k, NEW r, MustKnow(k, r)', About(k, r) # S
      PROVE  MustKnow(k, r) /\ told'[About(k, r)] = told[About(k, r)]
  BY <1>1, <1>2, <1>7 DEF MustKnow, About
<1>8. ASSUME NEW k \in DOMAIN q, NEW r, r = q[k], MustKnow(k, r)'
      PROVE  r.from >= told'[About(k, r)]
  <2>1. CASE r = Sent(k, token, active, applied')
    <3>1. r.from = applied'
      BY <2>1 DEF Sent
    <3>2. About(k, r) \in DOMAIN told'
      BY <1>8 DEF MustKnow, About
    <3> QED
      BY <1>0, <1>3, <3>1, <3>2 DEF PagesTypeOK, ToldInv
  <2>2. CASE k \in DOMAIN pending \ inv /\ r = pending[k]
    <3>1. About(k, r) # S
      BY <1>6, <1>8, <2>2 DEF HouseholdInv, RequestsAddressed
    <3>2. MustKnow(k, r) /\ told'[About(k, r)] = told[About(k, r)]
      BY <1>7, <1>8, <3>1
    <3> QED
      BY <2>2, <3>2 DEF WrittenInv, AskedSince
  <2>3. CASE r.late
    BY <1>8, <2>3 DEF MustKnow
  <2> QED
    BY <1>8, <2>1, <2>2, <2>3, RefetchedAt DEF q
<1>9. ASSUME NEW k \in DOMAIN cache', Outdated(k)'
      PROVE  /\ k \in DOMAIN cache /\ cache'[k].stale
             /\ (k \in inv /\ HasData(cache, k)) \/ Outdated(k)
             /\ cache[k].failed => cache'[k].failed
  <2>1. /\ k \in DOMAIN cache /\ cache'[k].data = cache[k].data
        /\ cache'[k].failed = cache[k].failed
        /\ k \in inv \/ cache[k].stale => cache'[k].stale
    BY <1>0, MarkedAt DEF OwnerInv
  <2>2. PICK d \in cache[k].data : MustKnow(k, d)' /\ d.asOf < told'[About(k, d)]
    BY <1>9, <2>1 DEF Outdated, About
  <2>3. CASE About(k, d) = S
    <3>1. k \in inv
      BY <1>6, <2>1, <2>2, <2>3 DEF HouseholdInv, AnswersAddressed
    <3> QED
      BY <2>1, <2>2, <3>1 DEF HasData
  <2>4. CASE About(k, d) # S
    <3>1. Outdated(k)
      BY <1>7, <2>2, <2>4 DEF Outdated
    <3> QED
      BY <2>1, <3>1 DEF WrittenInv, OutdatedIsStale
  <2> QED
    BY <2>3, <2>4
<1>10. OutdatedIsStale'
  BY <1>9 DEF OutdatedIsStale
<1>11. DOMAIN q = DOMAIN pending \cup Again(inv)
  BY RefetchedDomain DEF q
<1>12. CASE m.kind \in {"save", "accept", "create household"}
  <2>1. PICK p \in Pages :
          /\ Show(p, token, active', cache', q, applied', writes \ {m})
          /\ m.kind = "accept" => p = "dashboard"
    BY <1>0, <1>12 DEF PageAfter, ActiveAfter, Pages, ProtectedPages, PagesTypeOK
  <2>2. AskedSince'
    <3>1. \A k \in DOMAIN pending' : \/ k \in DOMAIN q /\ pending'[k] = q[k]
                                     \/ pending'[k].from = applied'
      BY <2>1, ShowFetches
    <3>2. \A s \in DOMAIN told' : told'[s] \in Nat /\ told'[s] <= applied'
      BY <1>3 DEF ToldInv
    <3> SUFFICES ASSUME NEW k \in DOMAIN pending', NEW r, r = pending'[k], MustKnow(k, r)'
                 PROVE  r.from >= told'[About(k, r)]
      BY DEF AskedSince, About, MustKnow
    <3>3. CASE k \in DOMAIN q /\ r = q[k]
      BY <1>8, <3>3
    <3>4. CASE r.from = applied'
      <4>1. About(k, r) \in DOMAIN told'
        BY DEF MustKnow, About
      <4> QED
        BY <1>0, <3>2, <3>4, <4>1 DEF PagesTypeOK
    <3> QED
      BY <3>1, <3>3, <3>4
  <2>3. OutdatedIsFetched'
    BY <1>9, <2>1, ShowFetches DEF OutdatedIsFetched, BeingFetched
  <2>4. MembersHere'
    <3>1. \/ page' = page /\ writes' \subseteq writes
          \/ page' # page /\ \E ms \in SUBSET writes : writes' = Unmounted(ms)
      BY <2>1, ShowMembers
    <3>2. m.kind = "accept" => page' # "household"
      BY <2>1, ShowStarts DEF Landing
    <3>3. m.kind = "save" => active' = active
      BY <1>0 DEF ActiveAfter
    <3> QED
      BY <1>1, <1>12, <3>1, <3>2, <3>3, MembersKept DEF WrittenInv
  <2> QED
    BY <1>3, <1>10, <2>2, <2>3, <2>4 DEF WrittenInv
<1>13. CASE m.kind \notin {"save", "accept", "create household"}
  <2>1. /\ pending' = q /\ writes' = writes \ {m}
        /\ UNCHANGED <<page, filter, active, recreated>>
    BY <1>0, <1>1, <1>13 DEF PageAfter, ActiveAfter
  <2>2. AskedSince'
    <3>1. SUFFICES ASSUME NEW k \in DOMAIN pending', NEW r, r = pending'[k], MustKnow(k, r)'
                   PROVE  r.from >= told'[About(k, r)]
      BY DEF AskedSince, About, MustKnow
    <3> QED
      BY <1>8, <2>1, <3>1
  <2>3. MountedNow' = MountedNow
    BY <2>1 DEF MountedNow
  <2>4. ASSUME NEW k \in DOMAIN cache', Outdated(k)', k \in MountedNow
        PROVE  k \in DOMAIN q \/ cache'[k].failed
    <3>1. CASE k \in inv /\ HasData(cache, k)
      BY <1>11, <2>4, <3>1 DEF Again
    <3>2. CASE Outdated(k)
      BY <1>9, <1>11, <2>4, <3>2 DEF WrittenInv, OutdatedIsFetched, BeingFetched
    <3> QED
      BY <1>9, <2>4, <3>1, <3>2
  <2>5. OutdatedIsFetched'
    BY <2>1, <2>3, <2>4 DEF OutdatedIsFetched, BeingFetched
  <2>6. MembersHere'
    BY <2>1 DEF WrittenInv, MembersHere
  <2> QED
    BY <1>3, <1>10, <2>2, <2>5, <2>6 DEF WrittenInv
<1> QED
  BY <1>12, <1>13

LEMMA WrittenInit == PagesInit => WrittenInv
  BY DEF PagesInit, NoFun, WrittenInv, ToldInv, AskedSince, MustKnow, OutdatedIsStale,
         OutdatedIsFetched, MembersHere

LEMMA WrittenStep ==
    PagesTypeOK /\ OwnerInv /\ HouseholdInv /\ WrittenInv /\ [PagesNext]_pagesVars => WrittenInv'
<1> SUFFICES ASSUME PagesTypeOK, OwnerInv, HouseholdInv, WrittenInv, [PagesNext]_pagesVars
             PROVE  WrittenInv'
  OBVIOUS
<1>0. /\ page \in Pages /\ {"dashboard", "login"} \subseteq Pages
      /\ AnswersOf(cache, Known)
  BY DEF PagesTypeOK, OwnerInv, Pages, ProtectedPages
<1>a. UNCHANGED cache => AnswersKept
  BY DEF AnswersKept
<1>b. \A k : cache' = Failed(cache, k) => AnswersKept /\ k \in DOMAIN cache' /\ cache'[k].failed
  <2>1. \A k : k \in DOMAIN Failed(cache, k)
    BY DEF Failed
  <2> QED
    BY <1>0, <2>1, FailedAt DEF AnswersKept
<1>c. \A ks : /\ DOMAIN Without(pending, ks) = DOMAIN pending \ ks
              /\ \A k \in DOMAIN Without(pending, ks) : Without(pending, ks)[k] = pending[k]
  BY DEF Without
<1>d. UNCHANGED <<page, writes, active, recreated>> => MembersHere'
  BY DEF WrittenInv, MembersHere
<1>1. ASSUME NEW p \in Pages, Visit(p) PROVE WrittenInv'
  <2>1. Show(p, token, active, cache', pending, applied, writes)
    BY <1>1 DEF Visit
  <2> QED
    BY <1>a, <1>1, <2>1, ShowWritten DEF Visit
<1>2. ASSUME NEW f \in Filters, SetFilter(f) PROVE WrittenInv'
  <2> DEFINE ks == Wanted(cache, pending, PageQueriesOf(page, active, f))
  <2>1. /\ pending' = Start(pending, ks, token, active, applied) /\ filter' = f
        /\ UNCHANGED <<cache, page, active, told, recreated, applied, writes>>
    BY <1>2 DEF SetFilter, changes
  <2>2. \A k \in MountedNow' : k \in DOMAIN cache' /\ cache'[k].stale => k \in DOMAIN pending \cup ks
    BY <2>1 DEF MountedNow, Wanted
  <2> HIDE DEF ks
  <2>3. DOMAIN pending' = DOMAIN pending \cup ks
    BY <2>1 DEF Start
  <2>4. \A k \in DOMAIN pending' : \/ k \in DOMAIN pending /\ pending'[k] = pending[k]
                                   \/ pending'[k].from = applied
    BY <2>1 DEF Start, Sent
  <2>5. AskedSince'
    BY <2>1, <2>4, AskedKept
  <2>6. OutdatedIsStale' /\ ToldInv'
    BY <1>a, <2>1, OutdatedBefore, ToldKept DEF WrittenInv
  <2>7. OutdatedIsFetched'
    BY <2>2, <2>3, <2>6 DEF OutdatedIsStale, OutdatedIsFetched, BeingFetched
  <2> QED
    BY <1>d, <2>1, <2>5, <2>6, <2>7 DEF WrittenInv
<1>3. CASE Tick
  BY <1>a, <1>d, <1>3, StayWritten DEF Tick, queries, changes
<1>4. ASSUME NEW u \in Users, NEW known \in BOOLEAN, Login(u, known) PROVE WrittenInv'
  <2>1. CASE known
    <3>1. Show("dashboard", u, active, cache', pending, applied, writes)
      BY <1>4, <2>1 DEF Login
    <3> QED
      BY <1>0, <1>a, <1>4, <3>1, ShowWritten DEF Login
  <2>2. CASE ~known
    BY <1>a, <1>d, <1>4, <2>2, StayWritten DEF Login, view
  <2> QED
    BY <2>1, <2>2
<1>5. CASE Logout
  <2>1. AnswersKept /\ DOMAIN NoFun = {}
    BY <1>5 DEF Logout, AnswersKept, NoFun
  <2>2. Show("login", NoOne, active, cache', NoFun, applied, writes)
    BY <1>5 DEF Logout
  <2> QED
    BY <1>0, <1>5, <2>1, <2>2, ShowWritten DEF Logout
<1>6. ASSUME NEW k \in DOMAIN pending, Resend(k) PROVE WrittenInv'
  <2> DEFINE r == [user |-> token, hh |-> RequestHousehold(k, active),
                   from |-> applied, retried |-> TRUE, late |-> pending[k].late]
  <2>1. pending' = [pending EXCEPT ![k] = r]
    BY <1>6 DEF Resend
  <2>2. r.from = applied
    OBVIOUS
  <2> HIDE DEF r
  <2>3. /\ DOMAIN pending' = DOMAIN pending
        /\ \A j \in DOMAIN pending' : pending'[j] = pending[j] \/ pending'[j].from = applied
    BY <2>1, <2>2
  <2>4. UNCHANGED <<cache, page, filter, active, told, recreated, applied, writes>>
    BY <1>6 DEF Resend, view, changes
  <2> QED
    BY <1>a, <1>d, <2>3, <2>4, StayWritten
<1>7. ASSUME NEW k \in DOMAIN pending, Refused(k) PROVE WrittenInv'
  <2>1. /\ cache' = Failed(cache, k) /\ pending' = Without(pending, {k})
        /\ UNCHANGED <<page, filter, active, told, recreated, applied, writes>>
    BY <1>7 DEF Refused, view, changes
  <2> QED
    BY <1>b, <1>c, <1>d, <2>1, StayWritten
<1>8. ASSUME NEW k \in DOMAIN pending, NEW queue \in SUBSET DOMAIN pending, Expire(k, queue)
      PROVE  WrittenInv'
  <2>1. /\ cache' = Failed(cache, k)
        /\ UNCHANGED <<active, told, recreated, applied>>
    BY <1>8 DEF Expire
  <2>2. Show(page, NoOne, active, cache', Without(pending, {k}), applied, writes)
    \* The login page asks for nothing, whatever is cached.
    <3>1. Show(page, NoOne, active, cache, Without(pending, {k}), applied, writes)
      BY <1>8 DEF Expire
    <3>2. \A c, f : Wanted(c, Without(pending, {k}), PageQueriesOf("login", active, f)) = {}
      BY LoginMountsNothing DEF Wanted
    <3> QED
      BY <3>1, <3>2 DEF Show, Landing
  <2> DEFINE pnd == Without(pending, {k})
  <2>3. \A j \in DOMAIN pnd : j \in DOMAIN pending /\ pnd[j] = pending[j]
    BY <1>c
  <2>4. AnswersKept
    BY <1>b, <2>1
  <2> HIDE DEF pnd
  <2>5. Show(page, NoOne, active, cache', pnd, applied, writes)
    BY <2>2 DEF pnd
  <2> QED
    BY <1>0, <2>1, <2>3, <2>4, <2>5, ShowWritten
<1>9. ASSUME NEW k \in DOMAIN pending, NEW n \in 0..MaxSteps, Arrive(k, n) PROVE WrittenInv'
  BY <1>9, ArriveWritten
<1>10. ASSUME NEW k \in DOMAIN cache, GrowStale(k) PROVE WrittenInv'
  <2>1. cache' = MarkedStale(cache, {k})
    BY <1>10 DEF GrowStale, MarkedStale, OwnerInv, AnswersOf
  <2>2. AnswersKept
    BY <1>0, <2>1, MarkedAt DEF AnswersKept
  <2> QED
    BY <1>d, <1>10, <2>2, StayWritten DEF GrowStale, view, changes
<1>11. CASE Focus
  <2>1. /\ DOMAIN pending \subseteq DOMAIN pending'
        /\ \A k \in DOMAIN pending' : \/ k \in DOMAIN pending /\ pending'[k] = pending[k]
                                      \/ pending'[k].from = applied
    BY <1>11 DEF Focus, Start, Sent
  <2> QED
    BY <1>a, <1>d, <1>11, <2>1, StayWritten DEF Focus, view, changes
<1>12. ASSUME NEW kind \in Mutations, Submit(kind) PROVE WrittenInv'
  <2> DEFINE w == [id |-> submitted', kind |-> kind, user |-> token, hh |-> active, here |-> TRUE]
  <2>1. writes' = writes \cup {w}
    BY <1>12 DEF Submit
  <2>2. w.kind = "member" => page = "household" /\ w.hh = active /\ active # NoOne
    BY <1>12 DEF Submit, CanSubmit, CanManageMembers
  <2> HIDE DEF w
  <2>3. UNCHANGED <<page, filter, active, told, recreated, applied, cache, pending>>
    BY <1>12 DEF Submit, view, queries
  <2>4. MembersHere'
    BY <2>1, <2>2, <2>3 DEF WrittenInv, MembersHere
  <2> QED
    BY <1>a, <2>3, <2>4, StayWritten
<1>13. ASSUME NEW m \in writes, NEW h \in Households \cup {NoOne}, Succeed(m, h)
       PROVE  WrittenInv'
  BY <1>13, SucceedWritten
<1>14. ASSUME NEW m \in writes, Fail(m) PROVE WrittenInv'
  <2>1. MembersHere'
    BY <1>14 DEF Fail, WrittenInv, MembersHere, view
  <2> QED
    BY <1>a, <1>14, <2>1, StayWritten DEF Fail, view, queries
<1>15. CASE UNCHANGED pagesVars
  BY <1>a, <1>d, <1>15, StayWritten DEF pagesVars
<1> QED
  BY <1>1, <1>2, <1>3, <1>4, <1>5, <1>6, <1>7, <1>8, <1>9, <1>10, <1>11, <1>12,
     <1>13, <1>14, <1>15 DEF PagesNext

-----------------------------------------------------------------------------
(* Theorems *)

\* Every variable stays in its type: in particular a request that waits for a
\* refresh that never ends is one that is under way.
THEOREM PagesTypeCorrect == PagesSpec => []PagesTypeOK
<1>1. PagesInit => PagesTypeOK /\ OwnerInv
  BY PagesTypeInit, OwnerInit
<1>2. PagesTypeOK /\ OwnerInv /\ [PagesNext]_pagesVars => (PagesTypeOK /\ OwnerInv)'
  BY PagesTypeStep, OwnerStep
<1> QED
  BY <1>1, <1>2, PTL DEF PagesSpec

\* Whatever requests, mutations and refreshes were under way at a logout, and
\* whoever logs in next: no answer to a former user is in the cache, apart from
\* users whose session did not end in a logout.
THEOREM CacheIsPrivate == PagesSpec => []NothingOfAFormerUser
<1>1. OwnerInv => NothingOfAFormerUser
  BY DEF OwnerInv, AnswersOf, NothingOfAFormerUser, Known
<1> QED
  BY <1>1, OwnerInit, OwnerStep, PTL DEF PagesSpec

\* Whatever household is created or joined, and wherever the router goes, while
\* rows of the list are selected: they are rows of the list that is shown.
THEOREM SelectionIsShown == PagesSpec => []DeletesWhatIsShown
<1>1. PagesInit => SelectionInv
  BY DEF PagesInit, SelectionInv, DeletesWhatIsShown
<1>2. SelectionInv => DeletesWhatIsShown
  BY DEF SelectionInv
<1> QED
  BY <1>1, <1>2, SelectionStep, PTL DEF PagesSpec

\* Whatever household is switched to, and however old the requests are whose
\* answers come in: what a mounted page shows of a household is of the active one,
\* apart from answers to requests that were sent again.
THEOREM HouseholdIsShown == PagesSpec => []ShownForItsHousehold
<1>1. PagesTypeOK /\ HouseholdInv => ShownForItsHousehold
  <2> SUFFICES ASSUME PagesTypeOK, HouseholdInv, NEW k \in MountedNow,
                      k.kind \in HouseholdKinds, HasData(cache, k), ~Data(k).retried
               PROVE  Data(k).hh = active
    BY DEF ShownForItsHousehold, HouseholdKinds
  <2>1. Data(k) \in cache[k].data /\ k \in DOMAIN cache
    BY DEF HasData, Data
  <2>2. Data(k).hh = k.hh
    BY <2>1 DEF HouseholdInv, AnswersAddressed, Addressed
  <2>3. k.hh = active
    BY MountedNameActive DEF MountedNow, PagesTypeOK
  <2> QED
    BY <2>2, <2>3
<1>2. PagesInit => PagesTypeOK /\ OwnerInv /\ HouseholdInv
  BY PagesTypeInit, OwnerInit, HouseholdInit
<1>3. PagesTypeOK /\ OwnerInv /\ HouseholdInv /\ [PagesNext]_pagesVars
        => (PagesTypeOK /\ OwnerInv /\ HouseholdInv)'
  BY PagesTypeStep, OwnerStep, HouseholdStep
<1> QED
  BY <1>1, <1>2, <1>3, PTL DEF PagesSpec

\* Whatever answers overtake a write of the window's own, and wherever its pages
\* have gone meanwhile: a mounted query that is at rest shows every write the window
\* was told of, but for the exceptions the property names.
THEOREM OwnWritesAreShown == PagesSpec => []OwnWritesShown
<1>1. PagesTypeOK /\ WrittenInv => OwnWritesShown
  <2> SUFFICES ASSUME PagesTypeOK, WrittenInv, NEW k \in MountedNow \ DOMAIN pending,
                      HasData(cache, k), ~cache[k].failed, MustKnow(k, Data(k))
               PROVE  Data(k).asOf >= told[About(k, Data(k))]
    BY DEF OwnWritesShown, MustKnow, About
  <2>1. k \in DOMAIN cache /\ Data(k) \in cache[k].data
    BY DEF HasData, Data
  <2>2. ~Outdated(k)
    BY <2>1 DEF WrittenInv, OutdatedIsFetched, BeingFetched
  <2>3. ~(Data(k).asOf < told[About(k, Data(k))])
    BY <2>1, <2>2 DEF Outdated
  <2>4. Data(k).asOf \in Nat
    BY <2>1, SomeFilter DEF PagesTypeOK, Entries, Answers
  <2>5. told[About(k, Data(k))] \in Nat
    BY DEF WrittenInv, ToldInv, MustKnow
  <2> QED
    BY <2>3, <2>4, <2>5
<1>2. PagesInit => PagesTypeOK /\ OwnerInv /\ HouseholdInv /\ WrittenInv
  BY PagesTypeInit, OwnerInit, HouseholdInit, WrittenInit
<1>3. PagesTypeOK /\ OwnerInv /\ HouseholdInv /\ WrittenInv /\ [PagesNext]_pagesVars
        => (PagesTypeOK /\ OwnerInv /\ HouseholdInv /\ WrittenInv)'
  BY PagesTypeStep, OwnerStep, HouseholdStep, WrittenStep
<1> QED
  BY <1>1, <1>2, <1>3, PTL DEF PagesSpec

-----------------------------------------------------------------------------
(***************************************************************************)
(* The sockets.                                                            *)
(***************************************************************************)
LEMMA GatewayTypeStep == GatewayTypeOK /\ [GatewayNext]_gatewayVars => GatewayTypeOK'
<1> SUFFICES ASSUME GatewayTypeOK, [GatewayNext]_gatewayVars PROVE GatewayTypeOK'
  OBVIOUS
<1> USE GatewayAssumption DEF GatewayTypeOK, events, tabs, Siblings
<1>1. ASSUME NEW n \in Notification, Persist(n) PROVE GatewayTypeOK'
  BY <1>1 DEF Persist
<1>2. CASE Erase
  BY <1>2 DEF Erase
<1>3. ASSUME NEW t \in Tab, HandleConnection(t) \/ RenewSocket(t) PROVE GatewayTypeOK'
  BY <1>3 DEF HandleConnection, RenewSocket
<1>4. ASSUME NEW t \in Tab, HandleDisconnect(t) \/ FormerSocketCloses(t)
      PROVE  GatewayTypeOK'
  BY <1>4 DEF HandleDisconnect, FormerSocketCloses
<1>5. ASSUME NEW t \in Tab, FetchList(t) PROVE GatewayTypeOK'
  BY <1>5 DEF FetchList, ListForUser
<1>6. ASSUME NEW n \in waiting, PushToClient(n) PROVE GatewayTypeOK'
  BY <1>6 DEF PushToClient
<1>7. CASE RestartGateway
  BY <1>7 DEF RestartGateway
<1>8. CASE UNCHANGED gatewayVars
  BY <1>8 DEF gatewayVars
<1> QED
  BY <1>1, <1>2, <1>3, <1>4, <1>5, <1>6, <1>7, <1>8 DEF GatewayNext

LEMMA RegisteredStep ==
  GatewayTypeOK /\ RegisteredAndOpen /\ [GatewayNext]_gatewayVars => RegisteredAndOpen'
<1> SUFFICES ASSUME GatewayTypeOK, RegisteredAndOpen, [GatewayNext]_gatewayVars
             PROVE  RegisteredAndOpen'
  OBVIOUS
<1> USE GatewayAssumption DEF RegisteredAndOpen, GatewayTypeOK, events, tabs, Siblings
<1>1. ASSUME NEW n \in Notification, Persist(n) PROVE RegisteredAndOpen'
  BY <1>1 DEF Persist
<1>2. CASE Erase
  BY <1>2 DEF Erase
<1>3. ASSUME NEW t \in Tab, HandleConnection(t) PROVE RegisteredAndOpen'
  BY <1>3 DEF HandleConnection
<1>4. ASSUME NEW t \in Tab, HandleDisconnect(t) PROVE RegisteredAndOpen'
  BY <1>4 DEF HandleDisconnect
<1>5. ASSUME NEW t \in Tab, RenewSocket(t) PROVE RegisteredAndOpen'
  BY <1>5 DEF RenewSocket
<1>6. ASSUME NEW t \in Tab, FormerSocketCloses(t) PROVE RegisteredAndOpen'
  BY <1>6 DEF FormerSocketCloses
<1>7. ASSUME NEW t \in Tab, FetchList(t) PROVE RegisteredAndOpen'
  BY <1>7 DEF FetchList
<1>8. ASSUME NEW n \in waiting, PushToClient(n) PROVE RegisteredAndOpen'
  BY <1>8 DEF PushToClient
<1>9. CASE RestartGateway
  BY <1>9 DEF RestartGateway
<1>10. CASE UNCHANGED gatewayVars
  BY <1>10 DEF gatewayVars
<1> QED
  BY <1>1, <1>2, <1>3, <1>4, <1>5, <1>6, <1>7, <1>8, <1>9, <1>10 DEF GatewayNext

\* The gateway's map names connected sockets of the right users, and a tab that
\* saw no other socket of its user come or go is the one the user's events go to.
THEOREM Registered == GatewaySpec => [](GatewayTypeOK /\ RegisteredAndOpen)
<1>1. GatewayInit => GatewayTypeOK /\ RegisteredAndOpen
  BY GatewayAssumption DEF GatewayInit, GatewayTypeOK, RegisteredAndOpen
<1> QED
  BY <1>1, GatewayTypeStep, RegisteredStep, PTL DEF GatewaySpec
=============================================================================
