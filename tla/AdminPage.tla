----------------------------- MODULE AdminPage -----------------------------
(***************************************************************************)
(* The administration page of the browser (AdminPage.tsx) and the two      *)
(* routes of the server that it asks (routes/admin.ts).                    *)
(*                                                                         *)
(* The page has three tabs, each with its data, a loading flag and an      *)
(* error.  Choosing a tab, an audit page or an audit filter sends a        *)
(* request; requests are answered in any order, and whatever answer comes  *)
(* last is kept.  Opening the audit tab sends its request twice, once per  *)
(* effect that depends on the tab.  There is no route for the employees,   *)
(* so that request is always answered by 404.                              *)
(*                                                                         *)
(* While the page is open, audit logs are written and people log in for    *)
(* the first time.  Logs are ordered by their timestamp alone, a           *)
(* millisecond taken before the row can be seen: some share one, and some  *)
(* appear behind newer ones.                                               *)
(***************************************************************************)
EXTENDS Integers, FiniteSets, Sequences

CONSTANTS
  Events,       \* what audit logs are filtered by: event type and severity
  Choices,      \* the ones among them that the page offers as filters
  All,          \* no filter
  Pages,        \* pages the pagination offers, 1..10 in the source
  Limit,        \* logs per page, 20 in the source
  Inactive,     \* inactive employees
  MaxRequests,  \* bound on the requests of a run
  Times,        \* the milliseconds of audit logs
  Before,       \* the audit logs when the page is opened first
  MaxLogs,      \* bound on the audit logs
  MaxStaff      \* bound on the active employees

Logs == [event : Events, time : Times]

ASSUME AdminAssumption ==
  /\ Choices \subseteq Events /\ All \notin Events
  /\ Pages \subseteq Nat \ {0} /\ 1 \in Pages
  /\ Limit \in Nat \ {0}
  /\ Times \subseteq Nat /\ Before \in Seq(Logs)
  /\ {Inactive, MaxRequests, MaxLogs, MaxStaff} \subseteq Nat

Tabs == {"statistics", "employees", "audit"}
Filters == Choices \cup {All}
Unknown == -1   \* a count that is not known yet

VARIABLES
  tab,         \* tabValue
  page,        \* auditPage
  filter,      \* auditFilter
  loading,     \* loading flag of each tab
  error,       \* whether a tab has an error message
  figures,     \* statistics
  shown,       \* auditLogs, with the page and the filter they answer
  flight,      \* requests without an answer in the browser
  sent,        \* how many requests were sent
  logs,        \* the audit logs, in the order in which they appeared
  active,      \* how many employees are active
  asked,       \* history: number of the last audit request
  newest,      \* history: highest number of an answered audit request
  lastAnswer   \* history: number of the last answered audit request

controls == <<tab, page, filter>>
panels == <<loading, error, figures, shown>>
history == <<asked, newest, lastAnswer>>
database == <<logs, active>>
vars == <<tab, page, filter, loading, error, figures, shown, flight, sent, logs,
          active, asked, newest, lastAnswer>>

\* A request, with what the server has found for it so far.
Requests == [no : Nat, kind : Tabs, page : Nat, filter : Filters,
             status : {"sent", "served"}, total : Int, active : Int,
             since : Nat, rows : SUBSET Nat, asOf : Nat]

TypeOK ==
  /\ tab \in Tabs
  /\ page \in Pages
  /\ filter \in Filters
  /\ loading \in [Tabs -> BOOLEAN]
  /\ error \in [Tabs -> BOOLEAN]
  /\ figures \in [known : BOOLEAN, inactive : Int, since : Nat, until : Nat]
  /\ shown \in [known : BOOLEAN, page : Nat, filter : Filters, rows : SUBSET Nat, asOf : Nat]
  /\ flight \subseteq Requests
  /\ sent \in Nat
  /\ logs \in Seq(Logs)
  /\ active \in Nat
  /\ asked \in Nat /\ newest \in Nat /\ lastAnswer \in Nat

-----------------------------------------------------------------------------
(* Vocabulary *)

Request(n, k, p, f) ==
  [no |-> n, kind |-> k, page |-> p, filter |-> f, status |-> "sent",
   total |-> Unknown, active |-> Unknown, since |-> active, rows |-> {}, asOf |-> 0]

\* The audit page and filter that the controls are set to.
Current(x) == x.page = page /\ x.filter = filter

InFlight(k) == {r \in flight : r.kind = k}

StatisticsShown == ~loading["statistics"] /\ figures.known
PaginationShown == tab = "audit" /\ ~loading["audit"] /\ shown.rows # {}

\* The numbers of the logs that f selects.
Matching(f) == {i \in DOMAIN logs : f \in {All, logs[i].event}}

\* S may be the first n logs of M, all of M if there are fewer, in the order of
\* the timestamps, newest first.  Logs of one millisecond are in any order.
MayComeFirst(S, M, n) ==
  /\ Cardinality(S) = n \/ (S = M /\ Cardinality(S) < n)
  /\ \A i \in S, j \in M \ S : logs[i].time >= logs[j].time

\* What a query may answer that skips n of the logs M: Limit of the others.
MayFollow(R, M, n) ==
  \E S \in SUBSET (M \ R) : MayComeFirst(S, M, n) /\ MayComeFirst(S \cup R, M, n + Limit)

\* Mutant: the offset starts at page 1 instead of 0.
RowsShifted(f, p) ==
  {R \in SUBSET Matching(f) : MayFollow(R, Matching(f), (IF p = 1 THEN 0 ELSE p) * Limit)}

\* The possible answers for page p of the logs that f selects
Rows(f, p) ==
  {R \in SUBSET Matching(f) : MayFollow(R, Matching(f), (p - 1) * Limit)}

\* The page as it is when it is mounted: the first tab loads.
FirstLoading == [k \in Tabs |-> k = "statistics"]
NoErrors == [k \in Tabs |-> FALSE]
NoFigures == [known |-> FALSE, inactive |-> 0, since |-> 0, until |-> 0]
NoLogs == [known |-> FALSE, page |-> 1, filter |-> All, rows |-> {}, asOf |-> 0]

Init ==
  /\ tab = "statistics" /\ page = 1 /\ filter = All
  /\ loading = FirstLoading /\ error = NoErrors
  /\ figures = NoFigures /\ shown = NoLogs
  /\ logs = Before /\ active = 1
  /\ sent = 1 /\ flight = {Request(1, "statistics", 1, All)}
  /\ asked = 0 /\ newest = 0 /\ lastAnswer = 0

-----------------------------------------------------------------------------
(* The user *)

\* Sends one request for the tab k, and sets its loading flag.
Fetch(k) ==
  /\ sent + 1 <= MaxRequests
  /\ loading' = [loading EXCEPT ![k] = TRUE]
  /\ sent' = sent + 1
  /\ flight' = flight \cup {Request(sent + 1, k, page, filter)}
  /\ UNCHANGED history

\* Sends n requests for the audit logs of page p and filter f.
FetchAuditLogs(p, f, n) ==
  /\ sent + n <= MaxRequests
  /\ loading' = [loading EXCEPT !["audit"] = TRUE]
  /\ sent' = sent + n
  /\ flight' = flight \cup {Request(m, "audit", p, f) : m \in (sent + 1)..(sent + n)}
  /\ asked' = sent + n
  /\ UNCHANGED <<newest, lastAnswer>>

\* Mutant: the tab of the employees is not loaded.
ChangeTabForgetting(t) ==
  /\ t # tab
  /\ tab' = t
  /\ CASE t = "audit" -> FetchAuditLogs(page, filter, 2)
       [] t = "employees" -> UNCHANGED <<loading, sent, flight, history>>
       [] OTHER -> Fetch(t)
  /\ UNCHANGED <<page, filter, error, figures, shown, database>>

\* Both effects depend on the tab, and both load the audit logs.
ChangeTab(t) ==
  /\ t # tab
  /\ tab' = t
  /\ IF t = "audit" THEN FetchAuditLogs(page, filter, 2) ELSE Fetch(t)
  /\ UNCHANGED <<page, filter, error, figures, shown, database>>

\* The pagination is hidden while logs are loading or there are none.
ChangePage(p) ==
  /\ PaginationShown
  /\ p # page
  /\ page' = p
  /\ FetchAuditLogs(p, filter, 1)
  /\ UNCHANGED <<tab, filter, error, figures, shown, database>>

\* Mutant: the filter is no dependency of the effect.
ChangeFilterOnly(f) ==
  /\ tab = "audit"
  /\ f # filter
  /\ filter' = f
  /\ UNCHANGED <<tab, page, panels, flight, sent, history, database>>

\* The filters stay usable while logs are loading.  The page is kept.
ChangeFilter(f) ==
  /\ tab = "audit"
  /\ f # filter
  /\ filter' = f
  /\ FetchAuditLogs(page, f, 1)
  /\ UNCHANGED <<tab, page, error, figures, shown, database>>

\* The page is left, by a logout or a reload, and opened again: answers to the
\* requests of before are ignored.
Reopen ==
  /\ sent + 1 <= MaxRequests
  /\ tab' = "statistics" /\ page' = 1 /\ filter' = All
  /\ loading' = FirstLoading /\ error' = NoErrors
  /\ figures' = NoFigures /\ shown' = NoLogs
  /\ sent' = sent + 1 /\ flight' = {Request(sent + 1, "statistics", 1, All)}
  /\ asked' = 0 /\ newest' = 0 /\ lastAnswer' = 0
  /\ UNCHANGED database

-----------------------------------------------------------------------------
(* The server *)

Serve(r, s) ==
  /\ flight' = (flight \ {r}) \cup {s}
  /\ UNCHANGED <<controls, panels, sent, history, database>>

\* GET /audit-logs answers with one page of the logs.
ServeAuditLogs(r) ==
  /\ r.kind = "audit" /\ r.status = "sent"
  /\ \E rows \in Rows(r.filter, r.page) :
       Serve(r, [r EXCEPT !.status = "served", !.rows = rows, !.asOf = Len(logs)])

\* Mutant: the second count lost its condition.
CountStaffAll(r) ==
  /\ r.kind = "statistics"
  /\ \/ r.total = Unknown /\ Serve(r, [r EXCEPT !.total = active + Inactive])
     \/ r.active = Unknown /\ Serve(r, [r EXCEPT !.active = active + Inactive])

\* GET /statistics counts all employees and the active ones in two queries of
\* its own, which the database runs in either order.
CountStaff(r) ==
  /\ r.kind = "statistics"
  /\ \/ r.total = Unknown /\ Serve(r, [r EXCEPT !.total = active + Inactive])
     \/ r.active = Unknown /\ Serve(r, [r EXCEPT !.active = active])

\* Then it reads the roles, and answers.
ServeStatistics(r) ==
  /\ r.kind = "statistics" /\ r.status = "sent"
  /\ r.total # Unknown /\ r.active # Unknown
  /\ Serve(r, [r EXCEPT !.status = "served"])

\* An audit log appears, written by any request of any user, maybe behind logs
\* with a later timestamp or the same.
WriteLog(log) ==
  /\ Len(logs) < MaxLogs
  /\ logs' = Append(logs, log)
  /\ UNCHANGED <<controls, panels, flight, sent, active, history>>

\* Someone logs in for the first time.
Join ==
  /\ active < MaxStaff
  /\ active' = active + 1
  /\ UNCHANGED <<controls, panels, flight, sent, logs, history>>

-----------------------------------------------------------------------------
(* The answers *)

NoteAnswer(r) ==
  IF r.kind = "audit"
    THEN /\ lastAnswer' = r.no
         /\ newest' = IF r.no > newest THEN r.no ELSE newest
         /\ UNCHANGED asked
    ELSE UNCHANGED history

\* An answer arrives and replaces what the tab shows.
Succeed(r) ==
  /\ r.status = "served"
  /\ flight' = flight \ {r}
  /\ loading' = [loading EXCEPT ![r.kind] = FALSE]
  /\ error' = [error EXCEPT ![r.kind] = FALSE]
  /\ figures' = IF r.kind = "statistics"
       THEN [known |-> TRUE, inactive |-> r.total - r.active,
             since |-> r.since, until |-> active]
       ELSE figures
  /\ shown' = IF r.kind = "audit"
       THEN [known |-> TRUE, page |-> r.page, filter |-> r.filter, rows |-> r.rows,
             asOf |-> r.asOf]
       ELSE shown
  /\ NoteAnswer(r)
  /\ UNCHANGED <<controls, sent, database>>

\* Mutant: the loading flag is cleared after a success only.
FailLoading(r) ==
  /\ flight' = flight \ {r}
  /\ error' = [error EXCEPT ![r.kind] = TRUE]
  /\ NoteAnswer(r)
  /\ UNCHANGED <<controls, loading, figures, shown, sent, database>>

\* The request is refused, finds no route, fails or takes too long: the tab
\* keeps its data and gets an error.
Fail(r) ==
  /\ flight' = flight \ {r}
  /\ loading' = [loading EXCEPT ![r.kind] = FALSE]
  /\ error' = [error EXCEPT ![r.kind] = TRUE]
  /\ NoteAnswer(r)
  /\ UNCHANGED <<controls, figures, shown, sent, database>>

-----------------------------------------------------------------------------

Answer(k) == \E r \in InFlight(k) : Succeed(r) \/ Fail(r)

Next ==
  \/ \E t \in Tabs : ChangeTab(t)
  \/ \E p \in Pages : ChangePage(p)
  \/ \E f \in Filters : ChangeFilter(f)
  \/ Reopen
  \/ \E r \in flight : ServeAuditLogs(r) \/ CountStaff(r) \/ ServeStatistics(r)
  \/ \E log \in Logs : WriteLog(log)
  \/ Join
  \/ \E k \in Tabs : Answer(k)

Spec == Init /\ [][Next]_vars

\* Every request ends, by an answer or by axios's timeout.
FairSpec == Spec /\ \A k \in Tabs : WF_vars(Answer(k))

-----------------------------------------------------------------------------
(* Properties *)

\* Once the audit requests are answered, the logs shown are those of the page
\* and the filter chosen, unless an error is shown or the answer to an older
\* request came after that to a newer one.
ShownAsChosen ==
  InFlight("audit") = {} /\ ~error["audit"] /\ lastAnswer = newest =>
    Current(shown) /\ shown.rows \subseteq Matching(filter)

\* A tab never looks empty for no reason: it is loading, shows an error, or has
\* been answered.
EmptyIsExplained ==
  LET answered == [k \in Tabs |-> CASE k = "statistics" -> figures.known
                                    [] k = "audit" -> shown.known
                                    [] OTHER -> FALSE]
  IN loading[tab] \/ error[tab] \/ answered[tab]

\* The inactive employees are the difference of two counts, made at different
\* instants: it is off by at most the number of people who joined between the
\* request and its answer.
InactiveOffByJoins ==
  StatisticsShown =>
    LET joined == figures.until - figures.since IN
    Inactive - joined <= figures.inactive /\ figures.inactive <= Inactive + joined

\* Going to the next page skips no log by its offset, although logs appear
\* meanwhile, behind others too: a log that was there when the page shown was
\* read, older than all of it and newer than some log of the next page, is on
\* that page, if it was read later.  Logs that share a millisecond across the
\* border of two pages can be skipped.
NoLogSkipped ==
  [][ \A log \in Matching(shown.filter) :
        /\ shown'.page = shown.page + 1 /\ shown'.filter = shown.filter
        /\ log <= shown.asOf /\ shown.asOf <= shown'.asOf
        /\ shown.rows # {}
        /\ \A i \in shown.rows : logs[log].time < logs[i].time
        /\ \E j \in shown'.rows : logs[j].time < logs[log].time
        => log \in shown'.rows ]_shown

\* The audit tab does not keep its spinner, whatever becomes of the two requests
\* that opening it sends.
SpinnerStops == loading["audit"] ~> ~loading["audit"]

-----------------------------------------------------------------------------
(* Why the invariants hold: an inductive invariant, in parts *)

\* Request numbers are given out once, and an answer has a number of its own.
NumbersInOrder ==
  /\ \A r, s \in flight : r.no = s.no => r = s
  /\ \A r \in flight : r.no <= sent
  /\ \A r \in InFlight("audit") : r.no <= asked
  /\ lastAnswer <= newest /\ newest <= asked /\ asked <= sent

\* The last audit request is for what is chosen now: it is in flight, or it has
\* been answered.
LastAskedIsCurrent ==
  /\ \A r \in InFlight("audit") : r.no = asked => Current(r)
  /\ newest < asked => \E r \in InFlight("audit") : r.no = asked
  /\ lastAnswer = asked /\ ~error["audit"] => Current(shown)

\* Logs that answer a filter satisfy it, then and later.
RowsMatch ==
  /\ \A r \in flight : r.rows \subseteq Matching(r.filter)
  /\ shown.rows \subseteq Matching(shown.filter)

\* A spinner waits for a request.
SpinnerIsPending == \A k \in Tabs : loading[k] => InFlight(k) # {}

\* The statistics kept, shown or not, are off by at most those who joined.
FiguresRight ==
  figures.known =>
    LET joined == figures.until - figures.since IN
    Inactive - joined <= figures.inactive /\ figures.inactive <= Inactive + joined

\* A count that was made while nobody joined is exact.
CountsInRange ==
  /\ \A r \in flight :
       /\ r.since <= active
       /\ r.total # Unknown => r.since + Inactive <= r.total /\ r.total <= active + Inactive
       /\ r.active # Unknown => r.since <= r.active /\ r.active <= active
       /\ r.status = "served" /\ r.kind = "statistics" => r.total # Unknown /\ r.active # Unknown
       /\ r.status = "served" => r.kind # "employees"

\* The logs that f selects among the first n that appeared.
MatchingAsOf(f, n) == {i \in Matching(f) : i <= n}

\* x, an answer or what is shown, is a page that was asked for as the logs were
\* when the server read it.
AsRead(x) ==
  /\ x.asOf <= Len(logs)
  /\ x.rows \subseteq MatchingAsOf(x.filter, x.asOf)
  /\ MayFollow(x.rows, MatchingAsOf(x.filter, x.asOf), (x.page - 1) * Limit)

\* That is so in flight and on the screen, however many logs appear afterwards.
PagesAsRead ==
  /\ \A r \in InFlight("audit") : r.status = "served" => AsRead(r)
  /\ shown.known => AsRead(shown)
  /\ ~shown.known => shown.rows = {}

AdminInvariant ==
  /\ TypeOK
  /\ NumbersInOrder
  /\ LastAskedIsCurrent
  /\ RowsMatch
  /\ SpinnerIsPending
  /\ CountsInRange
  /\ EmptyIsExplained
  /\ FiguresRight

=============================================================================
