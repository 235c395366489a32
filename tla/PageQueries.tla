---------------------------- MODULE PageQueries ----------------------------
(***************************************************************************)
(* What the pages of the web client read and write: the query keys each    *)
(* page of the micro frontends mounts, and the keys each of its mutations  *)
(* invalidates.  A key is [kind, hh, filter]: "kind" stands for the fixed  *)
(* parts of the queryKey array, "hh" for the household in it and "filter"  *)
(* for the month, the category and the type; NoOne is a part the key does  *)
(* not have.                                                               *)
(***************************************************************************)
CONSTANTS Households, Filters, NoOne

ASSUME NoOneIsNobody == NoOne \notin Households \cup Filters

Key(kind, h, f) == [kind |-> kind, hh |-> h, filter |-> f]

\* A query with "enabled: !!householdId" is not run without a household.
OfHousehold(kinds, h) == {Key(kind, h, NoOne) : kind \in IF h = NoOne THEN {} ELSE kinds}

\* The key of the dashboard does not name the household.
DashboardOfAnyHousehold(h) ==
    {Key("summary", NoOne, NoOne) : g \in {h} \ {NoOne}}

\* The summary and the recent transactions are two queries of one form.
DashboardQueries(h) == OfHousehold({"summary"}, h)

TransactionListQueries(h, f) ==
    OfHousehold({"categories of"}, h) \cup {Key("list", g, f) : g \in {h} \ {NoOne}}

\* The form and the categories page name no household in the key.
CategoriesQueries == {Key("categories", NoOne, NoOne)}

\* "edit" is the form of a transaction of the household, "new" an empty one.
TransactionFormQueries(h, isEdit) ==
    CategoriesQueries \cup IF isEdit THEN OfHousehold({"transaction"}, h) ELSE {}

HouseholdQueries(h) == OfHousehold({"household"}, h)

InvitationQueries == {Key("invitation", NoOne, NoOne)}

\* The profile and the notification preferences are two queries of one form.
ProfileQueries == {Key("me", NoOne, NoOne)}

\* The bell of the top bar has the same query; NotificationGateway models it.
NotificationQueries == {Key("notifications", NoOne, NoOne)}

\* The month and the year of a report are left out.
MonthlyReportQueries(h) == OfHousehold({"monthly"}, h)
YearlyReportQueries(h)  == OfHousehold({"yearly"}, h)
MemberReportQueries(h)  == OfHousehold({"members"}, h)
ExportHistoryQueries(h) == OfHousehold({"exports"}, h)

ActivityQueries(h) == OfHousehold({"activity"}, h)

\* The routes of App.tsx; the protected ones are shown inside the layout.
ProtectedPages == {"dashboard", "list", "new", "edit", "categories", "household",
                   "notifications", "profile", "monthly", "yearly", "members",
                   "exports", "settings"}
Pages == ProtectedPages \cup {"login", "invitation"}

PageQueriesOf(page, h, f) ==
    CASE page = "dashboard"     -> DashboardQueries(h)
      [] page = "list"          -> TransactionListQueries(h, f)
      [] page \in {"new", "edit"} -> TransactionFormQueries(h, page = "edit")
      [] page = "categories"    -> CategoriesQueries
      [] page = "household"     -> HouseholdQueries(h)
      [] page = "invitation"    -> InvitationQueries
      [] page = "profile"       -> ProfileQueries
      [] page = "notifications" -> NotificationQueries
      [] page = "monthly"       -> MonthlyReportQueries(h)
      [] page = "yearly"        -> YearlyReportQueries(h)
      [] page = "members"       -> MemberReportQueries(h)
      [] page = "exports"       -> ExportHistoryQueries(h)
      [] page = "settings"      -> ActivityQueries(h)
      [] page = "login"         -> {}

\* Every query of the window.
AllKeys ==
    UNION {PageQueriesOf(page, h, f) : page \in Pages,
                                       h \in Households \cup {NoOne}, f \in Filters}

(***************************************************************************)
(* Requests.  The household travels in the X-Household-ID header, except   *)
(* for the household page, whose URL names it.                             *)
(***************************************************************************)
NeedsHeader == {"summary", "list", "categories of", "categories",
                "transaction", "monthly", "yearly", "members", "exports", "activity"}

RequestHousehold(k, active) == IF k.kind \in NeedsHeader THEN active ELSE k.hh

(***************************************************************************)
(* Mutations, and the keys the onSuccess of each invalidates (by the first *)
(* part of the key; the household page names the household too).           *)
(***************************************************************************)
Mutations == {"save", "bulk delete", "category", "member", "create household",
              "accept", "profile", "read"}

TransactionKinds == {"summary", "list"}

\* An onSuccess that names the list and forgets the summary.
InvalidatesTheListOnly(m, k) ==
    CASE m.kind \in {"save", "bulk delete"} -> k.kind = "list"
      [] m.kind = "category"    -> k.kind \in {"categories", "categories of"}
      [] m.kind = "member"      -> k.kind = "household" /\ k.hh = m.hh
      [] m.kind = "profile"     -> k.kind = "me"
      [] m.kind = "read"        -> k.kind = "notifications"
      [] OTHER                  -> FALSE

Invalidates(m, k) ==
    CASE m.kind \in {"save", "bulk delete"} -> k.kind \in TransactionKinds
      [] m.kind = "category"    -> k.kind \in {"categories", "categories of"}
      [] m.kind = "member"      -> k.kind = "household" /\ k.hh = m.hh
      [] m.kind = "profile"     -> k.kind = "me"
      [] m.kind = "read"        -> k.kind = "notifications"
      [] OTHER                  -> FALSE
=============================================================================
