---------------------------- MODULE BrowserPages ----------------------------
(***************************************************************************)
(* One browser window: the session and the active household of             *)
(* AuthContext, the page the router shows, the query cache all micro       *)
(* frontends share, and the requests and mutations in flight.              *)
(*                                                                         *)
(* A request is answered for the user and the household its headers name   *)
(* when it is sent, and again when it is sent again after a 401.  A        *)
(* cached answer remembers both, and how many of the window's own writes   *)
(* the service had applied ("asOf").                                       *)
(*                                                                         *)
(* Bound: MaxSteps page changes, logins, mutations, failed or repeated      *)
(* requests, expiries and refocusings in all; answers are not counted.     *)
(***************************************************************************)
EXTENDS PageQueries, Naturals

CONSTANTS Users, MaxSteps

ASSUME NoOneIsNoUser == NoOne \notin Users
ASSUME SomeFilter == Filters # {} /\ MaxSteps \in Nat

VARIABLES
    token,       \* the user of the access token, NoOne when signed out
    active,      \* activeHouseholdId, kept in localStorage
    page, filter, selected,  \* the route and the state of the list page
    cache,       \* the query cache, by key
    pending,     \* the requests in flight, by key
    hung,        \* the keys whose request waits for a refresh that has failed
    writes,      \* the mutations in flight
    submitted, applied,  \* mutations sent; mutations the services applied
    told,        \* per subject: the last write the window was told of
    left,        \* ghost: the users whose session ended without a logout
    recreated,   \* ghost: a second household was created over an active one
    steps        \* page changes, mutations, failed or repeated requests so far

pagesVars == <<token, active, page, filter, selected, cache, pending, hung,
               writes, submitted, applied, told, recreated, left, steps>>

session == <<token, left>>
view    == <<page, filter, selected>>
queries == <<cache, pending, hung>>
changes == <<writes, submitted, applied, told, recreated>>

Step == steps < MaxSteps /\ steps' = steps + 1

DefaultFilter == CHOOSE f \in Filters : TRUE

Answers == [user : Users, hh : Households \cup {NoOne}, asOf : 0..MaxSteps,
            retried : BOOLEAN, late : BOOLEAN]
Entries == [data : {{}} \cup {{d} : d \in Answers}, stale : BOOLEAN, failed : BOOLEAN]
Requests == [user : Users, hh : Households \cup {NoOne}, from : Nat,
             retried : BOOLEAN, late : BOOLEAN]
Writes == [id : Nat, kind : Mutations, user : Users, hh : Households \cup {NoOne},
           here : BOOLEAN]

\* What a write is about, and what a cached answer is about.
Subject(kind, user, h) ==
    [what |-> CASE kind \in TransactionKinds \cup {"save", "bulk delete"} -> "transactions"
                [] kind \in {"categories", "categories of", "category"} -> "categories"
                [] kind \in {"household", "member"} -> "household"
                [] kind \in {"me", "profile"}       -> "me"
                [] kind \in {"notifications", "read"} -> "notifications"
                [] OTHER                            -> kind,
     owner |-> IF kind \in {"me", "profile", "notifications", "read"}
               THEN user ELSE h]

MountedNow == PageQueriesOf(page, active, filter)

HasData(c, k) == k \in DOMAIN c /\ c[k].data # {}

Data(k) == CHOOSE d \in cache[k].data : TRUE

(***************************************************************************)
(* The query library (external): a query that mounts, or whose window is   *)
(* focused, is fetched when it has no data or its data is stale, and never *)
(* twice at a time.                                                        *)
(***************************************************************************)
Wanted(c, p, ks) ==
    {k \in ks \ DOMAIN p : ~HasData(c, k) \/ c[k].stale}

Sent(k, u, h, n) ==
    [user |-> u, hh |-> RequestHousehold(k, h), from |-> n,
     retried |-> FALSE, late |-> FALSE]

Start(p, ks, u, h, n) ==
    [k \in DOMAIN p \cup ks |-> IF k \in ks THEN Sent(k, u, h, n) ELSE p[k]]

Without(f, ks) == [k \in DOMAIN f \ ks |-> f[k]]

\* ProtectedRoute and InvitationPage: without a token the login page.
Landing(p, t) == IF t = NoOne THEN "login" ELSE p

\* A mutation outlives the page that sent it; what it sets there does not.
Unmounted(ms) == {[m EXCEPT !.here = FALSE] : m \in ms}

\* The router shows a page: unless it is shown already its component mounts, with
\* its initial state.
Show(p, t, h, c, pnd, n, ms) ==
    LET to == Landing(p, t)
        f  == IF to = page THEN filter ELSE DefaultFilter
    IN  /\ page' = to
        /\ filter' = f
        /\ selected' = IF to = page THEN selected ELSE {}
        /\ writes' = IF to = page THEN ms ELSE Unmounted(ms)
        /\ pending' = Start(pnd, Wanted(c, pnd, PageQueriesOf(to, h, f)), t, h, n)

\* A request has failed: what was cached stays.
Failed(c, k) ==
    [j \in DOMAIN c \cup {k} |->
       IF j # k THEN c[j]
       ELSE IF k \in DOMAIN c THEN [c[k] EXCEPT !.failed = TRUE]
       ELSE [data |-> {}, stale |-> FALSE, failed |-> TRUE]]
-----------------------------------------------------------------------------
NoFun == [k \in {} |-> NoOne]

\* The window is loaded at some address; tryRestore has found a session or not.
PagesInit ==
    /\ token \in Users \cup {NoOne} /\ left = {}
    /\ active \in Households \cup {NoOne}
    /\ page \in {Landing(p, token) : p \in Pages}
    /\ filter = DefaultFilter /\ selected = {}
    /\ cache = NoFun /\ hung = {}
    /\ pending = Start(NoFun, MountedNow, token, active, 0)
    /\ writes = {} /\ submitted = 0 /\ applied = 0
    /\ told = NoFun /\ recreated = FALSE
    /\ steps = 0

(***************************************************************************)
(* Navigation.                                                             *)
(***************************************************************************)
Visit(p) ==
    /\ Step
    /\ p # page
    /\ Show(p, token, active, cache, pending, applied, writes)
    /\ UNCHANGED <<session, active, cache, hung, submitted, applied, told, recreated>>

\* The filters are changed and the selection is kept.
SetFilterKeepsSelection(f) ==
    /\ page = "list" /\ f # filter
    /\ Step
    /\ filter' = f
    /\ LET ks == PageQueriesOf(page, active, f)
       IN  pending' = Start(pending, Wanted(cache, pending, ks), token, active, applied)
    /\ UNCHANGED <<session, active, page, selected, cache, hung, changes>>

\* The list page: a change of a filter drops the selection.
SetFilter(f) ==
    /\ page = "list" /\ f # filter
    /\ Step
    /\ filter' = f
    /\ selected' = {}
    /\ LET ks == PageQueriesOf(page, active, f)
       IN  pending' = Start(pending, Wanted(cache, pending, ks), token, active, applied)
    /\ UNCHANGED <<session, active, page, cache, hung, changes>>

\* toggleSelect and toggleAll on a row of the list that is shown.  A row is
\* told apart by the household and the filters of the list it was ticked in.
Tick ==
    /\ page = "list" /\ active # NoOne
    /\ HasData(cache, Key("list", active, filter))
    /\ selected' \in {{}, selected \cup {[hh |-> active, filter |-> filter]}}
    /\ UNCHANGED <<session, active, page, filter, queries, changes, steps>>

(***************************************************************************)
(* Sessions.                                                               *)
(***************************************************************************)
\* LoginPage, and RegisterPage once the account exists.  "known" is whether
\* the getMe that follows the login succeeds: when it does not, the token is
\* set, the page reports a wrong password and stays.
Login(u, known) ==
    /\ page = "login"
    /\ Step
    /\ token' = u
    /\ left' = left \cup ({token} \ {NoOne, u})
    /\ IF known THEN Show("dashboard", u, active, cache, pending, applied, writes)
                ELSE UNCHANGED <<view, pending, writes>>
    /\ UNCHANGED <<active, cache, hung, submitted, applied, told, recreated>>

\* The logout forgets queryClient.clear().
LogoutKeepsCache ==
    /\ token # NoOne
    /\ token' = NoOne /\ left' = {}
    /\ Show("login", NoOne, active, cache, pending, applied, writes)
    /\ UNCHANGED <<active, cache, hung, submitted, applied, told, recreated, steps>>

\* AuthContext.logout, from the top bar, the profile page or after the account
\* was deleted: whatever the service answers, the session and the cache go.
\* The active household stays.
Logout ==
    /\ token # NoOne
    /\ token' = NoOne /\ left' = {}
    /\ cache' = NoFun /\ hung' = {}
    /\ Show("login", NoOne, active, NoFun, NoFun, applied, writes)
    /\ UNCHANGED <<active, submitted, applied, told, recreated, steps>>

\* A 401 whose refresh succeeds: the request is sent again, and the request
\* interceptor writes its headers anew.
Resend(k) ==
    /\ Step
    /\ token # NoOne
    /\ k \in DOMAIN pending \ hung
    /\ pending' = [pending EXCEPT ![k] =
                     [user |-> token, hh |-> RequestHousehold(k, active),
                      from |-> applied, retried |-> TRUE, late |-> @.late]]
    /\ UNCHANGED <<session, active, view, cache, hung, changes>>

\* A 401 whose refresh fails: the token is dropped and nothing else.  The
\* request that asked for the refresh fails; the ones queued behind it wait for
\* subscribers that are never called.
Expire(k, queue) ==
    /\ Step
    /\ token # NoOne
    /\ k \in DOMAIN pending \ hung
    /\ queue \subseteq DOMAIN pending \ ({k} \cup hung)
    /\ token' = NoOne /\ left' = left \cup {token}
    /\ hung' = hung \cup queue
    /\ cache' = Failed(cache, k)
    /\ Show(page, NoOne, active, cache, Without(pending, {k}), applied, writes)
    /\ UNCHANGED <<active, submitted, applied, told, recreated>>
-----------------------------------------------------------------------------
(***************************************************************************)
(* The query cache.                                                        *)
(***************************************************************************)
\* An answer arrives: the state of the service at a moment between the request
\* and now.  Without a household the services refuse a request that needs one.
Arrive(k, n) ==
    /\ k \in DOMAIN pending \ hung
    /\ LET r == pending[k] IN
       /\ k.kind \in NeedsHeader => r.hh # NoOne
       /\ n \in r.from..applied
       /\ cache' = [j \in DOMAIN cache \cup {k} |->
                      IF j # k THEN cache[j]
                      ELSE [data |-> {[user |-> r.user, hh |-> r.hh, asOf |-> n,
                                       retried |-> r.retried, late |-> r.late]},
                            stale |-> FALSE, failed |-> FALSE]]
    /\ pending' = Without(pending, {k})
    /\ UNCHANGED <<session, active, view, hung, changes, steps>>

\* An answer that is an error: no retry, and what was cached stays.  A request
\* that needs a household and has none is always refused.
Refused(k) ==
    /\ k \in DOMAIN pending \ hung
    /\ IF k.kind \in NeedsHeader /\ pending[k].hh = NoOne THEN UNCHANGED steps ELSE Step
    /\ cache' = Failed(cache, k)
    /\ pending' = Without(pending, {k})
    /\ UNCHANGED <<session, active, view, hung, changes>>

\* staleTime has passed since the answer.
GrowStale(k) ==
    /\ Step
    /\ HasData(cache, k) /\ ~cache[k].stale
    /\ cache' = [cache EXCEPT ![k].stale = TRUE]
    /\ UNCHANGED <<session, active, view, pending, hung, changes>>

\* The window is focused again.
Focus ==
    /\ Step
    /\ Wanted(cache, pending, MountedNow) # {}
    /\ pending' = Start(pending, Wanted(cache, pending, MountedNow), token, active, applied)
    /\ UNCHANGED <<session, active, view, cache, hung, changes>>

(***************************************************************************)
(* invalidateQueries: every matching query becomes stale; the mounted ones *)
(* are fetched again, in place of a request that is under way, unless that *)
(* is the first one.  A request that is left under way may bring an answer *)
(* from before the write, and makes the query fresh again.                 *)
(***************************************************************************)
MarkedStale(c, inv) ==
    [k \in DOMAIN c |-> IF k \in inv THEN [c[k] EXCEPT !.stale = TRUE] ELSE c[k]]

Again(inv) ==
    {k \in inv \cap MountedNow : HasData(cache, k) \/ k \notin DOMAIN pending}

Refetched(inv, again, n) ==
    LET p == Start(pending, again, token, active, n)
    IN  [k \in DOMAIN p |->
           IF k \in inv \ again THEN [p[k] EXCEPT !.late = TRUE] ELSE p[k]]
-----------------------------------------------------------------------------
(***************************************************************************)
(* Mutations.                                                              *)
(***************************************************************************)
\* The buttons.  Only the bulk deletion, the acceptance and the profile form
\* disable theirs while the mutation is under way: the other forms wait for
\* handleSubmit, which returns at once.
Idle(kind) == ~\E m \in writes : m.kind = kind /\ m.here

CanSave        == page \in {"new", "edit"}
CanBulkDelete  == page = "list" /\ selected # {} /\ Idle("bulk delete")
CanEditCategories == page = "categories"
\* Roles and removals, of an admin; an invitation changes no query.
CanManageMembers == /\ page = "household" /\ active # NoOne
                    /\ HasData(cache, Key("household", active, NoOne))
CanCreateHousehold == page = "household" /\ active = NoOne
CanAccept      == /\ page = "invitation" /\ Idle("accept")
                  /\ \E k \in InvitationQueries : HasData(cache, k)
CanSaveProfile == page = "profile" /\ Idle("profile")
CanMarkRead    == /\ page = "notifications"
                  /\ \E k \in NotificationQueries : HasData(cache, k)

CanSubmit(kind) ==
    CASE kind = "save"             -> CanSave
      [] kind = "bulk delete"      -> CanBulkDelete
      [] kind = "category"         -> CanEditCategories
      [] kind = "member"           -> CanManageMembers
      [] kind = "create household" -> CanCreateHousehold
      [] kind = "accept"           -> CanAccept
      [] kind = "profile"          -> CanSaveProfile
      [] kind = "read"             -> CanMarkRead

Submit(kind) ==
    /\ token # NoOne
    /\ Step
    /\ CanSubmit(kind)
    /\ submitted' = submitted + 1
    /\ writes' = writes \cup {[id |-> submitted', kind |-> kind, user |-> token,
                               hh |-> active, here |-> TRUE]}
    /\ UNCHANGED <<session, active, view, queries, applied, told, recreated>>

\* The household that is active after m: the one created or joined.
ActiveAfter(m, h) == IF m.kind \in {"create household", "accept"} THEN h ELSE active

\* The page after m, and what is left of the state of the page.
PageAfter(m, h, c, p, n) ==
    LET rest == writes \ {m} IN
    \/ m.kind = "save" /\ Show("list", token, active, c, p, n, rest)
    \/ m.kind = "accept" /\ Show("dashboard", token, h, c, p, n, rest)
    \/ m.kind = "create household" /\ Show(page, token, h, c, p, n, rest)
    \/ /\ m.kind \notin {"save", "accept", "create household"}
       /\ selected' = IF m.kind = "bulk delete" /\ m.here THEN {} ELSE selected
       /\ pending' = p
       /\ writes' = rest
       /\ UNCHANGED <<page, filter>>

\* onSuccess: the write is applied, its queries are invalidated, and the page
\* goes on.  While the page is mounted its last render says which household.
Succeed(m, h) ==
    /\ IF m.kind \in {"create household", "accept"} THEN h \in Households ELSE h = active
    /\ applied' = applied + 1
    /\ told' = [s \in DOMAIN told \cup {Subject(m.kind, m.user, m.hh)} |->
                  IF s = Subject(m.kind, m.user, m.hh) THEN applied' ELSE told[s]]
    /\ recreated' = (recreated \/ (m.kind = "create household" /\ active # NoOne))
    /\ active' = ActiveAfter(m, h)
    /\ LET was == [m EXCEPT !.hh = IF m.here THEN active ELSE @]
           inv == {k \in DOMAIN cache \cup DOMAIN pending : Invalidates(was, k)}
           again == Again(inv)
           c == MarkedStale(cache, inv)
       IN  /\ cache' = c
           /\ hung' = hung \ again
           /\ PageAfter(m, h, c, Refetched(inv, again, applied'), applied')
    /\ UNCHANGED <<session, submitted, steps>>

\* onError: the page reports it; the write may have been applied all the same.
Fail(m) ==
    /\ Step
    /\ applied' \in {applied, applied + 1}
    /\ writes' = writes \ {m}
    /\ UNCHANGED <<session, active, view, queries, submitted, told, recreated>>
-----------------------------------------------------------------------------
PagesNext ==
    \/ \E p \in Pages : Visit(p)
    \/ \E f \in Filters : SetFilter(f)
    \/ Tick
    \/ \E u \in Users, known \in BOOLEAN : Login(u, known)
    \/ Logout
    \/ \E k \in DOMAIN pending : Resend(k) \/ Refused(k)
    \/ \E k \in DOMAIN pending, queue \in SUBSET DOMAIN pending : Expire(k, queue)
    \/ \E k \in DOMAIN pending, n \in 0..MaxSteps : Arrive(k, n)
    \/ \E k \in DOMAIN cache : GrowStale(k)
    \/ Focus
    \/ \E kind \in Mutations : Submit(kind)
    \/ \E m \in writes, h \in Households \cup {NoOne} : Succeed(m, h)
    \/ \E m \in writes : Fail(m)

PagesSpec == PagesInit /\ [][PagesNext]_pagesVars
-----------------------------------------------------------------------------
PagesTypeOK ==
    /\ token \in Users \cup {NoOne}
    /\ active \in Households \cup {NoOne}
    /\ page \in Pages /\ filter \in Filters
    /\ selected \subseteq [hh : Households, filter : Filters]
    /\ DOMAIN cache \subseteq AllKeys
    /\ \A k \in DOMAIN cache : cache[k] \in Entries
    /\ DOMAIN pending \subseteq AllKeys
    /\ \A k \in DOMAIN pending : pending[k] \in Requests
    /\ hung \subseteq DOMAIN pending
    /\ writes \subseteq Writes
    /\ submitted \in 0..steps /\ steps \in 0..MaxSteps /\ applied \in Nat
    /\ left \subseteq Users /\ recreated \in BOOLEAN

\* The keys of the queries do not name the user: what the cache holds was
\* answered to the user who is signed in, or to one whose session was ended by a
\* failed refresh or by signing in over it, which leave the cache alone
\* (AuthContext.tsx:137-145, client.ts:115).  A logout leaves nothing behind,
\* not even through a request that was under way.
NothingOfAFormerUser ==
    \A k \in DOMAIN cache :
      \A d \in cache[k].data : d.user \in {token} \cup left

\* What a mounted page shows of a household is of the active one, whatever
\* requests overlapped a switch of household, unless the answer came to a request
\* sent again after a 401: its header is written anew, its key is not
\* (client.ts:46-56, 97, 113).  The categories of the form and the categories page
\* are left out: their key names no household, and they do show the former ones.
ShownForItsHousehold ==
    \A k \in MountedNow :
      /\ k.kind \in (NeedsHeader \ {"categories"}) \cup {"household"}
      /\ HasData(cache, k) /\ ~Data(k).retried
      => Data(k).hh = active

\* Once the window was told that a write of its own succeeded, no mounted query
\* of that subject rests on an answer from before it: it shows the write, or is
\* being fetched, or failed to.  The exceptions are an answer that was already on
\* its way to a page not mounted, or not yet loaded, when the write succeeded,
\* and the members of a household left by creating a second one meanwhile.
OwnWritesShown ==
    \A k \in MountedNow \ DOMAIN pending :
      LET s == Subject(k.kind, Data(k).user, Data(k).hh) IN
      (/\ HasData(cache, k) /\ ~cache[k].failed /\ ~Data(k).late
       /\ s \in DOMAIN told /\ (k.kind = "household" => ~recreated)) => Data(k).asOf >= told[s]

\* The delete button of the list sends only rows that were ticked in the list
\* under the filters and the household that are shown now, unless the household
\* was created twice (the button stays enabled) and the second answer came later.
DeletesWhatIsShown ==
    ~recreated => selected \subseteq {[hh |-> active, filter |-> filter]}
=============================================================================
