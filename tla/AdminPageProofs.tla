--------------------------- MODULE AdminPageProofs ---------------------------
(***************************************************************************)
(* Proofs about AdminPage, for all events, pages and numbers of requests.  *)
(*                                                                         *)
(* All requests of the user add some requests to flight (SendInvariant),   *)
(* and each server step replaces one (ServeInvariant).                     *)
(***************************************************************************)
EXTENDS AdminPage, FiniteSetTheorems, TLAPS

\* A new request has the fields it is made of.
LEMMA NewRequest ==
  ASSUME NEW n \in Nat, NEW k \in Tabs, NEW p \in Nat, NEW f \in Filters, active \in Nat,
         NEW q, q = Request(n, k, p, f)
  PROVE  /\ q \in Requests
         /\ q.no = n /\ q.kind = k /\ q.page = p /\ q.filter = f /\ q.status = "sent"
         /\ q.total = Unknown /\ q.active = Unknown /\ q.since = active /\ q.rows = {}
  BY DEF Request, Requests, Unknown

\* The types of a request's fields.
LEMMA RequestFields ==
  ASSUME NEW q \in Requests
  PROVE  /\ q.no \in Nat /\ q.kind \in Tabs /\ q.page \in Nat /\ q.filter \in Filters
         /\ q.status \in {"sent", "served"} /\ q.total \in Int /\ q.active \in Int
         /\ q.since \in Nat /\ q.rows \subseteq Nat /\ q.asOf \in Nat
  BY DEF Requests

\* The page as it is mounted satisfies the invariant.
LEMMA MountInvariant ==
  ASSUME NEW q, q = Request(1, "statistics", 1, All), Init
  PROVE  AdminInvariant
<1>1. /\ q \in Requests
      /\ q.no = 1 /\ q.kind = "statistics" /\ q.page = 1 /\ q.filter = All /\ q.status = "sent"
      /\ q.total = Unknown /\ q.active = Unknown /\ q.since = active /\ q.rows = {}
  BY NewRequest DEF Init, Tabs, Filters
<1>2. flight = {q} /\ sent = 1 /\ active = 1 /\ logs = Before
  BY DEF Init
<1>3. loading = FirstLoading /\ error = NoErrors /\ figures = NoFigures /\ shown = NoLogs
  BY DEF Init
<1>4. asked = 0 /\ newest = 0 /\ lastAnswer = 0 /\ tab = "statistics" /\ page = 1 /\ filter = All
  BY DEF Init
<1>5. TypeOK
  BY <1>1, <1>2, <1>3, <1>4, AdminAssumption DEF TypeOK, Tabs, Filters, FirstLoading, NoErrors,
     NoFigures, NoLogs
<1>6. NumbersInOrder
  BY <1>1, <1>2, <1>4 DEF NumbersInOrder, InFlight
<1>7. LastAskedIsCurrent
  BY <1>1, <1>2, <1>3, <1>4 DEF LastAskedIsCurrent, InFlight, Current, NoLogs
<1>8. RowsMatch
  BY <1>1, <1>2, <1>3 DEF RowsMatch, NoLogs
<1>9. SpinnerIsPending
  BY <1>1, <1>2, <1>3 DEF SpinnerIsPending, FirstLoading, InFlight, Tabs
<1>10. CountsInRange
  BY <1>1, <1>2 DEF CountsInRange
<1>11. EmptyIsExplained /\ FiguresRight
  BY <1>3, <1>4 DEF EmptyIsExplained, FiguresRight, FirstLoading,
     NoFigures, Tabs
<1> QED
  BY <1>5, <1>6, <1>7, <1>8, <1>9, <1>10, <1>11 DEF AdminInvariant

-----------------------------------------------------------------------------

\* Sending the requests N preserves the invariant, if the tab chosen loads and
\* the requests are either none for audit logs or all for those chosen.
LEMMA SendInvariant ==
  ASSUME AdminInvariant, NEW N \in SUBSET Requests,
         flight' = flight \cup N,
         \A q \in N :
           /\ q.status = "sent" /\ q.total = Unknown /\ q.active = Unknown
           /\ q.since = active /\ q.rows = {} /\ sent < q.no /\ q.no <= sent',
         \A q, s \in N : q.no = s.no => q = s,
         sent' \in Nat, sent <= sent',
         tab' \in Tabs, page' \in Pages, filter' \in Filters,
         loading' \in [Tabs -> BOOLEAN], loading'[tab'],
         \A k \in Tabs : loading[k] => loading'[k],
         \A k \in Tabs : loading'[k] => loading[k] \/ \E q \in N : q.kind = k,
         UNCHANGED <<error, figures, shown, newest, lastAnswer, logs, active>>,
         \/ UNCHANGED <<asked, page, filter>> /\ \A q \in N : q.kind # "audit"
         \/ /\ asked' = sent' /\ sent < sent'
            /\ \A q \in N : q.page = page' /\ q.filter = filter'
            /\ \E q \in N : q.kind = "audit" /\ q.no = sent'
  PROVE  AdminInvariant'
<1> USE DEF AdminInvariant
<1> USE AdminAssumption, RequestFields DEF InFlight, Current, Matching
<1>1. TypeOK'
  BY DEF TypeOK
<1>2. NumbersInOrder'
  <2>1. \A q \in flight : q.no \in Nat /\ q.no <= sent
    BY DEF TypeOK, NumbersInOrder
  <2>2. \A q \in N : q.no \in Nat /\ sent < q.no /\ q.no <= sent'
    OBVIOUS
  <2>3. asked \in Nat /\ sent \in Nat
    BY DEF TypeOK
  <2>4. \A q, s \in flight' : q.no = s.no => q = s
    BY <2>1, <2>2, <2>3 DEF NumbersInOrder
  <2>5. \A q \in flight' : q.no <= sent'
    BY <2>1, <2>2, <2>3
  <2>6. \A q \in InFlight("audit")' : q.no <= asked'
    BY <2>1, <2>2, <2>3, <2>5 DEF NumbersInOrder
  <2>7. lastAnswer' <= newest' /\ newest' <= asked' /\ asked' <= sent'
    BY <2>3 DEF NumbersInOrder, TypeOK
  <2> QED
    BY <2>4, <2>5, <2>6, <2>7 DEF NumbersInOrder
<1>3. LastAskedIsCurrent'
  BY DEF TypeOK, NumbersInOrder, LastAskedIsCurrent
<1>4. RowsMatch'
  BY DEF RowsMatch
<1>5. SpinnerIsPending'
  BY DEF SpinnerIsPending
<1>6. CountsInRange'
  BY DEF TypeOK, CountsInRange
<1>7. EmptyIsExplained'
  BY DEF EmptyIsExplained
<1>8. FiguresRight'
  BY DEF FiguresRight
<1> QED
  BY <1>1, <1>2, <1>3, <1>4, <1>5, <1>6, <1>7, <1>8

\* What the user does preserves the invariant.
LEMMA UserInvariant ==
  ASSUME AdminInvariant,
         \/ \E t \in Tabs : ChangeTab(t)
         \/ \E p \in Pages : ChangePage(p)
         \/ \E f \in Filters : ChangeFilter(f)
  PROVE  AdminInvariant'
<1>1. sent \in Nat /\ active \in Nat /\ page \in Pages /\ filter \in Filters /\ tab \in Tabs
      /\ loading \in [Tabs -> BOOLEAN]
  BY DEF AdminInvariant, TypeOK
<1>2. "audit" \in Tabs
  BY DEF Tabs
<1>3. ASSUME NEW p \in Pages, NEW f \in Filters, NEW n \in Nat \ {0}, FetchAuditLogs(p, f, n),
             tab' = "audit", page' = p, filter' = f,
             UNCHANGED <<error, figures, shown, logs, active>>
      PROVE  AdminInvariant'
  <2> DEFINE N == {Request(m, "audit", p, f) : m \in (sent + 1)..(sent + n)}
  <2>1. flight' = flight \cup N /\ asked' = sent' /\ sent' = sent + n
        /\ loading' = [loading EXCEPT !["audit"] = TRUE] /\ UNCHANGED <<newest, lastAnswer>>
    BY <1>1, <1>3 DEF FetchAuditLogs
  <2>2. ASSUME NEW q \in N
        PROVE  /\ q \in Requests /\ q.status = "sent" /\ q.total = Unknown
               /\ q.active = Unknown /\ q.since = active /\ q.rows = {}
               /\ sent < q.no /\ q.no <= sent' /\ q.kind = "audit"
               /\ q.page = p /\ q.filter = f
               /\ q = Request(q.no, "audit", p, f)
    <3>1. PICK m \in (sent + 1)..(sent + n) : q = Request(m, "audit", p, f)
      BY <2>2
    <3>2. m \in Nat /\ sent < m /\ m <= sent + n /\ p \in Nat
      BY <1>1, AdminAssumption
    <3>3. f \in Filters /\ active \in Nat
      BY <1>1
    <3>4. /\ q \in Requests
          /\ q.no = m /\ q.kind = "audit" /\ q.page = p /\ q.filter = f /\ q.status = "sent"
          /\ q.total = Unknown /\ q.active = Unknown /\ q.since = active /\ q.rows = {}
      BY <1>2, <3>1, <3>2, <3>3, NewRequest
    <3> QED
      BY <2>1, <3>1, <3>2, <3>4
  <2>3. \E q \in N : q.kind = "audit" /\ q.no = sent'
    <3>1. Request(sent + n, "audit", p, f) \in N
      <4>1. sent + n \in (sent + 1)..(sent + n)
        BY <1>1
      <4> QED
        BY <4>1
    <3>3. p \in Nat /\ sent + n \in Nat /\ active \in Nat
      BY <1>1, AdminAssumption
    <3>4. Request(sent + n, "audit", p, f).no = sent + n
          /\ Request(sent + n, "audit", p, f).kind = "audit"
      BY <1>2, <3>3, NewRequest
    <3> QED
      BY <2>1, <3>1, <3>4
  <2> HIDE DEF N
  <2>4. \A q, s \in N : q.no = s.no => q = s
    BY <2>2
  <2>5. sent' \in Nat /\ sent < sent' /\ sent <= sent'
    BY <1>1, <2>1
  <2>6. loading' \in [Tabs -> BOOLEAN] /\ loading'[tab'] /\ \A k \in Tabs : loading[k] => loading'[k]
    BY <1>1, <1>2, <1>3, <2>1
  <2>7. \A k \in Tabs : loading'[k] => loading[k] \/ \E q \in N : q.kind = k
    BY <1>1, <1>2, <2>1, <2>3
  <2>8. N \in SUBSET Requests /\ \A q \in N :
           /\ q.status = "sent" /\ q.total = Unknown /\ q.active = Unknown
           /\ q.since = active /\ q.rows = {} /\ sent < q.no /\ q.no <= sent'
    BY <2>2
  <2>9. \A q \in N : q.page = page' /\ q.filter = filter'
    BY <1>3, <2>2
  <2>10. tab' \in Tabs /\ page' \in Pages /\ filter' \in Filters
    BY <1>2, <1>3
  <2> QED
    BY <1>3, <2>1, <2>3, <2>4, <2>5, <2>6, <2>7, <2>8, <2>9, <2>10, SendInvariant
<1>4. ASSUME NEW t \in Tabs, t # "audit", Fetch(t), tab' = t,
             UNCHANGED <<page, filter, error, figures, shown, logs, active>>
      PROVE  AdminInvariant'
  <2> DEFINE q == Request(sent + 1, t, page, filter)
  <2>1. flight' = flight \cup {q} /\ sent' = sent + 1
        /\ loading' = [loading EXCEPT ![t] = TRUE] /\ UNCHANGED <<asked, newest, lastAnswer>>
    BY <1>4 DEF Fetch, history
  <2>2. page \in Nat /\ sent + 1 \in Nat
    BY <1>1, AdminAssumption
  <2>3. /\ q \in Requests /\ q.no = sent + 1 /\ q.kind = t
        /\ q.status = "sent" /\ q.total = Unknown /\ q.active = Unknown /\ q.since = active
        /\ q.rows = {}
    BY <1>1, <2>2, NewRequest
  <2> HIDE DEF q
  <2>4. loading' \in [Tabs -> BOOLEAN] /\ loading'[tab'] /\ \A k \in Tabs : loading[k] => loading'[k]
    BY <1>1, <1>4, <2>1
  <2>5. \A k \in Tabs : loading'[k] => loading[k] \/ \E s \in {q} : s.kind = k
    BY <1>1, <2>1, <2>3
  <2>6. {q} \in SUBSET Requests /\ \A s \in {q} :
           /\ s.status = "sent" /\ s.total = Unknown /\ s.active = Unknown
           /\ s.since = active /\ s.rows = {} /\ sent < s.no /\ s.no <= sent'
    BY <1>1, <2>1, <2>3
  <2>7. sent' \in Nat /\ sent <= sent' /\ \A s \in {q} : s.kind # "audit"
    BY <1>1, <1>4, <2>1, <2>3
  <2>8. tab' \in Tabs /\ page' \in Pages /\ filter' \in Filters
    BY <1>1, <1>4
  <2>9. \A s, u \in {q} : s.no = u.no => s = u
    OBVIOUS
  <2> QED
    BY <1>4, <2>1, <2>4, <2>5, <2>6, <2>7, <2>8, <2>9, SendInvariant
<1>5. ASSUME NEW t \in Tabs, ChangeTab(t)
      PROVE  AdminInvariant'
  BY <1>1, <1>3, <1>4, <1>5 DEF ChangeTab, database
<1>6. ASSUME NEW p \in Pages, ChangePage(p)
      PROVE  AdminInvariant'
  BY <1>1, <1>3, <1>6 DEF ChangePage, PaginationShown, database
<1>7. ASSUME NEW f \in Filters, ChangeFilter(f)
      PROVE  AdminInvariant'
  BY <1>1, <1>3, <1>7 DEF ChangeFilter, database
<1> QED
  BY <1>5, <1>6, <1>7

\* Opening the page again preserves the invariant: it starts afresh.
LEMMA ReopenInvariant ==
  ASSUME AdminInvariant, Reopen
  PROVE  AdminInvariant'
<1> DEFINE q == Request(sent + 1, "statistics", 1, All)
<1>1. /\ sent \in Nat /\ sent + 1 \in Nat /\ active \in Nat /\ logs \in Seq(Logs)
  BY DEF AdminInvariant, TypeOK
<1>2. /\ q \in Requests
      /\ q.no = sent + 1 /\ q.kind = "statistics" /\ q.status = "sent"
      /\ q.total = Unknown /\ q.active = Unknown /\ q.since = active /\ q.rows = {}
  BY <1>1, NewRequest DEF Tabs, Filters
<1>3. flight' = {q} /\ sent' = sent + 1 /\ active' = active /\ logs' = logs
  BY DEF Reopen, database
<1>4. loading' = FirstLoading /\ error' = NoErrors /\ figures' = NoFigures /\ shown' = NoLogs
  BY DEF Reopen
<1>5. asked' = 0 /\ newest' = 0 /\ lastAnswer' = 0 /\ tab' = "statistics" /\ page' = 1 /\ filter' = All
  BY DEF Reopen
<1> HIDE DEF q
<1>6. TypeOK'
  BY <1>1, <1>2, <1>3, <1>4, <1>5, AdminAssumption DEF TypeOK, Tabs, Filters, FirstLoading,
     NoErrors, NoFigures, NoLogs
<1>7. NumbersInOrder'
  BY <1>1, <1>2, <1>3, <1>5 DEF NumbersInOrder, InFlight
<1>8. LastAskedIsCurrent'
  BY <1>2, <1>3, <1>4, <1>5 DEF LastAskedIsCurrent, InFlight, Current, NoLogs
<1>9. RowsMatch'
  BY <1>2, <1>3, <1>4 DEF RowsMatch, NoLogs
<1>10. SpinnerIsPending'
  BY <1>2, <1>3, <1>4 DEF SpinnerIsPending, FirstLoading, InFlight, Tabs
<1>11. CountsInRange'
  BY <1>1, <1>2, <1>3 DEF CountsInRange
<1>12. EmptyIsExplained' /\ FiguresRight'
  BY <1>4, <1>5 DEF EmptyIsExplained, FiguresRight, FirstLoading,
     NoFigures, Tabs
<1> QED
  BY <1>6, <1>7, <1>8, <1>9, <1>10, <1>11, <1>12 DEF AdminInvariant

-----------------------------------------------------------------------------

\* Replacing a request by what the server made of it preserves the invariant.
LEMMA ServeInvariant ==
  ASSUME AdminInvariant, NEW r \in flight, NEW s \in Requests, Serve(r, s),
         s.no = r.no, s.kind = r.kind, s.page = r.page, s.filter = r.filter, s.since = r.since,
         s.rows \subseteq Matching(s.filter),
         s.total # Unknown => s.since + Inactive <= s.total /\ s.total <= active + Inactive,
         s.active # Unknown => s.since <= s.active /\ s.active <= active,
         s.status = "served" /\ s.kind = "statistics" => s.total # Unknown /\ s.active # Unknown,
         s.status = "served" => s.kind # "employees"
  PROVE  AdminInvariant'
<1> USE DEF AdminInvariant
<1>1. flight' = (flight \ {r}) \cup {s}
  BY DEF Serve
<1>2. UNCHANGED <<tab, page, filter, loading, error, figures, shown, sent, asked, newest,
                  lastAnswer, logs, active>>
  BY DEF Serve, controls, panels, history, database
<1> USE <1>1, <1>2 DEF InFlight, Current, Matching
<1>3. TypeOK'
  BY DEF TypeOK
<1>4. NumbersInOrder'
  BY DEF NumbersInOrder
<1>5. LastAskedIsCurrent'
  BY DEF LastAskedIsCurrent
<1>6. RowsMatch'
  BY DEF RowsMatch
<1>7. SpinnerIsPending'
  BY DEF SpinnerIsPending
<1>8. CountsInRange'
  BY DEF CountsInRange
<1>9. EmptyIsExplained' /\ FiguresRight'
  BY DEF EmptyIsExplained, FiguresRight
<1> QED
  BY <1>3, <1>4, <1>5, <1>6, <1>7, <1>8, <1>9

\* What the server does for a request preserves the invariant.
LEMMA WorkInvariant ==
  ASSUME AdminInvariant, NEW r \in flight,
         ServeAuditLogs(r) \/ CountStaff(r) \/ ServeStatistics(r)
  PROVE  AdminInvariant'
<1>1. r \in Requests /\ active \in Nat /\ logs \in Seq(Logs) /\ Inactive \in Nat
  BY AdminAssumption DEF AdminInvariant, TypeOK
<1>2. /\ r.rows \subseteq Matching(r.filter)
      /\ r.since <= active
      /\ r.total # Unknown => r.since + Inactive <= r.total /\ r.total <= active + Inactive
      /\ r.active # Unknown => r.since <= r.active /\ r.active <= active
      /\ r.status = "served" /\ r.kind = "statistics" => r.total # Unknown /\ r.active # Unknown
      /\ r.status = "served" => r.kind # "employees"
  BY DEF AdminInvariant, RowsMatch, CountsInRange
<1>3. CASE ServeAuditLogs(r)
  <2>1. PICK rows \in Rows(r.filter, r.page) :
          Serve(r, [r EXCEPT !.status = "served", !.rows = rows, !.asOf = Len(logs)])
    BY <1>3 DEF ServeAuditLogs
  <2> DEFINE s == [r EXCEPT !.status = "served", !.rows = rows, !.asOf = Len(logs)]
  <2>2. rows \subseteq Matching(r.filter) /\ rows \in SUBSET Nat /\ Len(logs) \in Nat
    BY <1>1 DEF Rows, Matching
  <2>3. /\ s \in Requests /\ s.no = r.no /\ s.kind = r.kind /\ s.page = r.page
        /\ s.filter = r.filter /\ s.since = r.since /\ s.rows = rows
        /\ s.total = r.total /\ s.active = r.active
    BY <1>1, <2>2 DEF Requests
  <2>4. Serve(r, s) /\ r.kind = "audit"
    BY <1>3, <2>1 DEF ServeAuditLogs
  <2> HIDE DEF s
  <2> QED
    BY <1>2, <2>2, <2>3, <2>4, ServeInvariant
<1>4. ASSUME r.total = Unknown, r.kind = "statistics",
             Serve(r, [r EXCEPT !.total = active + Inactive])
      PROVE  AdminInvariant'
  <2> DEFINE s == [r EXCEPT !.total = active + Inactive]
  <2>1. /\ s \in Requests /\ s.no = r.no /\ s.kind = r.kind /\ s.page = r.page
        /\ s.filter = r.filter /\ s.since = r.since /\ s.rows = r.rows /\ s.status = r.status
        /\ s.total = active + Inactive /\ s.active = r.active
    <3>1. active + Inactive \in Int
      BY <1>1
    <3> QED
      BY <1>1, <3>1 DEF Requests
  <2>2. Serve(r, s)
    BY <1>4
  <2>3. s.since + Inactive <= s.total /\ s.total <= active + Inactive /\ s.total # Unknown
    BY <1>1, <1>2, <2>1, RequestFields DEF Unknown
  <2> HIDE DEF s
  <2> QED
    BY <1>2, <1>4, <2>1, <2>2, <2>3, ServeInvariant
<1>5. ASSUME r.active = Unknown, r.kind = "statistics",
             Serve(r, [r EXCEPT !.active = active])
      PROVE  AdminInvariant'
  <2> DEFINE s == [r EXCEPT !.active = active]
  <2>1. /\ s \in Requests /\ s.no = r.no /\ s.kind = r.kind /\ s.page = r.page
        /\ s.filter = r.filter /\ s.since = r.since /\ s.rows = r.rows /\ s.status = r.status
        /\ s.total = r.total /\ s.active = active
    BY <1>1 DEF Requests
  <2>2. Serve(r, s)
    BY <1>5
  <2>3. s.since <= s.active /\ s.active <= active /\ s.active # Unknown
    BY <1>1, <1>2, <2>1, RequestFields DEF Unknown
  <2> HIDE DEF s
  <2> QED
    BY <1>2, <1>5, <2>1, <2>2, <2>3, ServeInvariant
<1>6. CASE ServeStatistics(r)
  <2> DEFINE s == [r EXCEPT !.status = "served"]
  <2>1. Serve(r, s) /\ r.kind = "statistics" /\ r.total # Unknown /\ r.active # Unknown
    BY <1>6 DEF ServeStatistics
  <2>2. /\ s \in Requests /\ s.no = r.no /\ s.kind = r.kind /\ s.page = r.page
        /\ s.filter = r.filter /\ s.since = r.since /\ s.rows = r.rows
        /\ s.total = r.total /\ s.active = r.active
    BY <1>1 DEF Requests
  <2> HIDE DEF s
  <2> QED
    BY <1>2, <2>1, <2>2, ServeInvariant
<1> QED
  BY <1>3, <1>4, <1>5, <1>6 DEF CountStaff

\* Logs that are written and people who join preserve the invariant.
LEMMA DatabaseInvariant ==
  ASSUME AdminInvariant, (\E log \in Logs : WriteLog(log)) \/ Join
  PROVE  AdminInvariant'
<1> USE DEF AdminInvariant, InFlight, Current, controls, panels, history
<1>1. ASSUME NEW log \in Logs, WriteLog(log)
      PROVE  AdminInvariant'
  <2>1. /\ logs \in Seq(Logs) /\ logs' = Append(logs, log) /\ logs' \in Seq(Logs)
        /\ \A i \in DOMAIN logs : i \in DOMAIN logs' /\ logs'[i] = logs[i]
    BY <1>1 DEF WriteLog, TypeOK
  <2>2. UNCHANGED <<tab, page, filter, loading, error, figures, shown, flight, sent, active,
                    asked, newest, lastAnswer>>
    BY <1>1 DEF WriteLog
  <2>3. TypeOK'
    BY <2>1, <2>2 DEF TypeOK
  <2>4. NumbersInOrder' /\ LastAskedIsCurrent' /\ SpinnerIsPending' /\ CountsInRange'
    BY <2>2 DEF NumbersInOrder, LastAskedIsCurrent, SpinnerIsPending, CountsInRange
  <2>5. RowsMatch'
    BY <2>1, <2>2 DEF RowsMatch, Matching
  <2>6. EmptyIsExplained' /\ FiguresRight'
    BY <2>2 DEF EmptyIsExplained, FiguresRight
  <2> QED
    BY <2>3, <2>4, <2>5, <2>6
<1>2. CASE Join
  <2>1. active \in Nat /\ active' = active + 1 /\ Inactive \in Nat
    BY <1>2, AdminAssumption DEF Join, TypeOK
  <2>2. UNCHANGED <<tab, page, filter, loading, error, figures, shown, flight, sent, logs,
                    asked, newest, lastAnswer>>
    BY <1>2 DEF Join
  <2>3. TypeOK'
    BY <2>1, <2>2 DEF TypeOK
  <2>4. NumbersInOrder' /\ LastAskedIsCurrent' /\ SpinnerIsPending' /\ RowsMatch'
    BY <2>2 DEF NumbersInOrder, LastAskedIsCurrent, SpinnerIsPending, RowsMatch, Matching
  <2>5. CountsInRange'
    BY <2>1, <2>2, RequestFields DEF CountsInRange, TypeOK
  <2>6. EmptyIsExplained' /\ FiguresRight'
    BY <2>2 DEF EmptyIsExplained, FiguresRight
  <2> QED
    BY <2>3, <2>4, <2>5, <2>6
<1> QED
  BY <1>1, <1>2

\* An answer preserves the invariant.
LEMMA AnswerInvariant ==
  ASSUME AdminInvariant, NEW r \in flight, Succeed(r) \/ Fail(r)
  PROVE  AdminInvariant'
<1> USE DEF AdminInvariant
<1>1. /\ flight' = flight \ {r} /\ r \in Requests
      /\ loading' = [loading EXCEPT ![r.kind] = FALSE]
      /\ loading \in [Tabs -> BOOLEAN] /\ error \in [Tabs -> BOOLEAN] /\ r.kind \in Tabs
      /\ UNCHANGED <<tab, page, filter, sent, logs, active>>
  BY RequestFields DEF Succeed, Fail, TypeOK, controls, database
<1>2. /\ asked' = asked
      /\ r.kind = "audit" => lastAnswer' = r.no /\ newest' = IF r.no > newest THEN r.no ELSE newest
      /\ r.kind # "audit" => UNCHANGED <<newest, lastAnswer>>
  BY DEF Succeed, Fail, NoteAnswer, history
<1>3. r.no \in Nat /\ r.total \in Int /\ r.active \in Int /\ r.since \in Nat /\ r.page \in Nat
      /\ r.filter \in Filters /\ r.rows \subseteq Nat /\ r.asOf \in Nat
  BY <1>1, RequestFields
<1>4. \/ /\ error' = [error EXCEPT ![r.kind] = TRUE] /\ UNCHANGED <<figures, shown>>
      \/ /\ error' = [error EXCEPT ![r.kind] = FALSE] /\ r.status = "served"
         /\ figures' = IF r.kind = "statistics"
              THEN [known |-> TRUE, inactive |-> r.total - r.active,
                    since |-> r.since, until |-> active]
              ELSE figures
         /\ shown' = IF r.kind = "audit"
              THEN [known |-> TRUE, page |-> r.page, filter |-> r.filter, rows |-> r.rows,
                    asOf |-> r.asOf]
              ELSE shown
  BY DEF Succeed, Fail
<1>5. active \in Nat /\ Inactive \in Nat
  BY AdminAssumption DEF TypeOK
<1>6. TypeOK'
  <2>1. newest' \in Nat /\ lastAnswer' \in Nat /\ asked' \in Nat
    BY <1>2, <1>3 DEF TypeOK
  <2>2. figures' \in [known : BOOLEAN, inactive : Int, since : Nat, until : Nat]
    <3>1. r.total - r.active \in Int
      BY <1>3
    <3>2. [known |-> TRUE, inactive |-> r.total - r.active, since |-> r.since, until |-> active]
            \in [known : BOOLEAN, inactive : Int, since : Nat, until : Nat]
      BY <1>3, <1>5, <3>1
    <3>3. figures \in [known : BOOLEAN, inactive : Int, since : Nat, until : Nat]
      BY DEF TypeOK
    <3> QED
      BY <1>4, <3>2, <3>3
  <2>3. shown' \in [known : BOOLEAN, page : Nat, filter : Filters, rows : SUBSET Nat, asOf : Nat]
    <3>1. [known |-> TRUE, page |-> r.page, filter |-> r.filter, rows |-> r.rows, asOf |-> r.asOf]
            \in [known : BOOLEAN, page : Nat, filter : Filters, rows : SUBSET Nat, asOf : Nat]
      BY <1>3
    <3>2. shown \in [known : BOOLEAN, page : Nat, filter : Filters, rows : SUBSET Nat, asOf : Nat]
      BY DEF TypeOK
    <3> QED
      BY <1>4, <3>1, <3>2
  <2>4. loading' \in [Tabs -> BOOLEAN] /\ error' \in [Tabs -> BOOLEAN] /\ flight' \subseteq Requests
    BY <1>1, <1>4 DEF TypeOK
  <2> QED
    BY <1>1, <2>1, <2>2, <2>3, <2>4 DEF TypeOK
<1>7. NumbersInOrder'
  BY <1>1, <1>2, <1>3 DEF NumbersInOrder, InFlight, TypeOK
<1>8. LastAskedIsCurrent'
  <2>1. CASE r.kind # "audit"
    BY <1>1, <1>2, <1>4, <2>1 DEF LastAskedIsCurrent, InFlight, Current, Tabs
  <2>2. CASE r.kind = "audit"
    <3>1. \A q \in InFlight("audit")' : q.no = asked' => Current(q)'
      BY <1>1, <1>2 DEF LastAskedIsCurrent, InFlight, Current
    <3>2. newest' < asked' => \E q \in InFlight("audit")' : q.no = asked'
      BY <1>1, <1>2, <1>3, <2>2 DEF LastAskedIsCurrent, NumbersInOrder, InFlight, TypeOK
    <3>3. lastAnswer' = asked' /\ ~error'["audit"] => Current(shown)'
      BY <1>1, <1>2, <1>4, <2>2 DEF LastAskedIsCurrent, InFlight, Current
    <3> QED
      BY <3>1, <3>2, <3>3 DEF LastAskedIsCurrent
  <2> QED
    BY <2>1, <2>2
<1>9. RowsMatch'
  BY <1>1, <1>4 DEF RowsMatch, Matching
<1>10. SpinnerIsPending'
  BY <1>1 DEF SpinnerIsPending, InFlight
<1>11. CountsInRange'
  BY <1>1 DEF CountsInRange
<1>12. EmptyIsExplained'
  BY <1>1, <1>4 DEF EmptyIsExplained, CountsInRange, Tabs, TypeOK
<1>13. FiguresRight'
  <2>1. CASE UNCHANGED figures
    BY <2>1 DEF FiguresRight
  <2>2. CASE /\ r.kind = "statistics" /\ r.status = "served"
             /\ figures' = [known |-> TRUE, inactive |-> r.total - r.active,
                            since |-> r.since, until |-> active]
    <3>1. figures'.since = r.since /\ figures'.until = active /\ figures'.inactive = r.total - r.active
      BY <2>2
    <3>2. /\ r.since + Inactive <= r.total /\ r.total <= active + Inactive
          /\ r.since <= r.active /\ r.active <= active
      BY <2>2 DEF CountsInRange
    <3> QED
      BY <1>3, <1>5, <3>1, <3>2 DEF FiguresRight
  <2> QED
    BY <1>4, <2>1, <2>2
<1> QED
  BY <1>6, <1>7, <1>8, <1>9, <1>10, <1>11, <1>12, <1>13

-----------------------------------------------------------------------------

\* Every reachable state of the page satisfies the invariant.
THEOREM AdminInvariantHolds == Spec => []AdminInvariant
<1>1. Init => AdminInvariant
  BY MountInvariant
<1>2. AdminInvariant /\ [Next]_vars => AdminInvariant'
  <2> SUFFICES ASSUME AdminInvariant, [Next]_vars
               PROVE  AdminInvariant'
    OBVIOUS
  <2>1. CASE \E k \in Tabs : Answer(k)
    BY <2>1, AnswerInvariant DEF Answer, InFlight
  <2>2. CASE UNCHANGED vars
    BY <2>2 DEF vars, AdminInvariant, TypeOK, NumbersInOrder, LastAskedIsCurrent, RowsMatch,
       SpinnerIsPending, CountsInRange, EmptyIsExplained, FiguresRight, Current, InFlight, Matching
  <2> QED
    BY <2>1, <2>2, UserInvariant, ReopenInvariant, WorkInvariant, DatabaseInvariant DEF Next
<1> QED
  BY <1>1, <1>2, PTL DEF Spec

\* fetchAuditLogs: once all its requests are answered, the logs shown are those
\* chosen, unless an older answer came last.
THEOREM ShownAsChosenHolds == Spec => []ShownAsChosen
<1>1. AdminInvariant => ShownAsChosen
  BY DEF AdminInvariant, TypeOK, NumbersInOrder, LastAskedIsCurrent, RowsMatch, ShownAsChosen,
     Current, InFlight, Matching
<1> QED
  BY <1>1, AdminInvariantHolds, PTL

\* A tab that looks empty is loading, shows an error or has been answered.
THEOREM EmptyIsExplainedHolds == Spec => []EmptyIsExplained
<1>1. AdminInvariant => EmptyIsExplained
  BY DEF AdminInvariant
<1> QED
  BY <1>1, AdminInvariantHolds, PTL

\* GET /statistics: the inactive employees are off by at most the number of people
\* who joined between the request and its answer.
THEOREM InactiveOffByJoinsHolds == Spec => []InactiveOffByJoins
<1>1. AdminInvariant => InactiveOffByJoins
  BY DEF AdminInvariant, FiguresRight, InactiveOffByJoins, StatisticsShown
<1> QED
  BY <1>1, AdminInvariantHolds, PTL

-----------------------------------------------------------------------------
(* No log is skipped: pages of a longer and a longer list of logs *)

\* search in auditService: R may follow the first n logs of M, and Q, read from
\* more logs N, those on the page after it.  A log of M that is older than all of
\* R and newer than one of Q is in Q, however ties were broken in either query.
LEMMA PagesAdjoin ==
  ASSUME logs \in Seq(Logs), NEW N \in SUBSET DOMAIN logs, NEW M \in SUBSET N,
         NEW n \in Int, NEW R \in SUBSET M, NEW Q \in SUBSET N,
         MayFollow(R, M, n), MayFollow(Q, N, n + Limit),
         NEW i \in R, NEW j \in Q, NEW log \in M,
         \A k \in R : logs[log].time < logs[k].time,
         logs[j].time < logs[log].time
  PROVE  log \in Q
<1>1. \A k \in DOMAIN logs : logs[k].time \in Nat
  <2>1. \A k \in DOMAIN logs : logs[k] \in Logs
    OBVIOUS
  <2> QED
    BY <2>1, AdminAssumption DEF Logs
<1>2. IsFiniteSet(N)
  <2>1. Len(logs) \in Int /\ N \in SUBSET (1..Len(logs))
    OBVIOUS
  <2> QED
    BY <2>1, FS_Interval, FS_Subset
<1>3. PICK S \in SUBSET (M \ R) : MayComeFirst(S, M, n) /\ MayComeFirst(S \cup R, M, n + Limit)
  BY DEF MayFollow
<1>4. PICK T \in SUBSET (N \ Q) :
        MayComeFirst(T, N, n + Limit) /\ MayComeFirst(T \cup Q, N, n + Limit + Limit)
  BY DEF MayFollow
<1>5. log \notin S \cup R /\ \A k \in S \cup R : logs[log].time < logs[k].time
  <2>1. \A k \in S : logs[k].time >= logs[i].time
    BY <1>3 DEF MayComeFirst
  <2> QED
    BY <1>1, <1>3, <2>1
<1>6. Cardinality(S \cup R) = n + Limit
  BY <1>3, <1>5 DEF MayComeFirst
<1>7. Cardinality(T) = n + Limit
  BY <1>4 DEF MayComeFirst
<1>8. log \notin T
  <2> SUFFICES ASSUME log \in T PROVE FALSE
    OBVIOUS
  <2>1. ASSUME NEW k \in S \cup R
        PROVE  k \in T
    <3>1. k \notin T => logs[log].time >= logs[k].time
      BY <1>3, <1>4 DEF MayComeFirst
    <3> QED
      BY <1>1, <1>3, <1>5, <3>1
  <2>2. IsFiniteSet(T)
    BY <1>2, <1>4, FS_Subset
  <2>3. IsFiniteSet(T \ {log}) /\ Cardinality(T \ {log}) = Cardinality(T) - 1
    BY <2>2, FS_RemoveElement
  <2>4. S \cup R \in SUBSET (T \ {log})
    BY <1>5, <2>1
  <2>5. Cardinality(S \cup R) <= Cardinality(T \ {log})
    BY <2>3, <2>4, FS_Subset
  <2> QED
    BY <1>6, <1>7, <2>3, <2>5, AdminAssumption
<1>9. log \notin T \cup Q => logs[j].time >= logs[log].time
  BY <1>4 DEF MayComeFirst
<1> QED
  BY <1>1, <1>8, <1>9

\* Logs that stay as they are follow each other as before.
LEMMA OldLogsFollow ==
  ASSUME \A i \in DOMAIN logs : logs'[i] = logs[i],
         NEW M \in SUBSET DOMAIN logs, NEW R \in SUBSET M, NEW n, MayFollow(R, M, n)
  PROVE  MayFollow(R, M, n)'
<1>1. PICK S \in SUBSET (M \ R) : MayComeFirst(S, M, n) /\ MayComeFirst(S \cup R, M, n + Limit)
  BY DEF MayFollow
<1>2. ASSUME NEW Z \in SUBSET M, NEW k, MayComeFirst(Z, M, k)
      PROVE  MayComeFirst(Z, M, k)'
  BY <1>2 DEF MayComeFirst
<1>3. MayComeFirst(S, M, n)' /\ MayComeFirst(S \cup R, M, n + Limit)'
  BY <1>1, <1>2
<1> QED
  BY <1>3 DEF MayFollow

\* A page that still follows the logs of before is as read.
LEMMA PageKept ==
  ASSUME logs \in Seq(Logs), NEW x, AsRead(x), (x.asOf <= Len(logs))',
         MatchingAsOf(x.filter, x.asOf)' = MatchingAsOf(x.filter, x.asOf),
         \A i \in DOMAIN logs : logs'[i] = logs[i]
  PROVE  AsRead(x)'
<1>1. ASSUME NEW M, M = MatchingAsOf(x.filter, x.asOf)
      PROVE  AsRead(x)'
  <2>1. M \in SUBSET DOMAIN logs
    BY <1>1 DEF MatchingAsOf, Matching
  <2>2. x.rows \in SUBSET M /\ MayFollow(x.rows, M, (x.page - 1) * Limit)
    BY <1>1 DEF AsRead
  <2>3. MayFollow(x.rows, M, (x.page - 1) * Limit)'
    BY <2>1, <2>2, OldLogsFollow
  <2>4. MatchingAsOf(x.filter, x.asOf)' = M
    BY <1>1
  <2> QED
    BY <2>2, <2>3, <2>4 DEF AsRead, MayFollow, MayComeFirst
<1> QED
  BY <1>1

\* Without a new log, a page stays as it was.
LEMMA SameLogsKeepPages ==
  ASSUME logs \in Seq(Logs), UNCHANGED logs, NEW x, AsRead(x)
  PROVE  AsRead(x)'
<1>1. MatchingAsOf(x.filter, x.asOf)' = MatchingAsOf(x.filter, x.asOf)
  BY DEF MatchingAsOf, Matching
<1>2. (x.asOf <= Len(logs))'
  BY DEF AsRead
<1> QED
  BY <1>1, <1>2, PageKept

\* A log that appears leaves the pages of before as they were.
LEMMA WrittenLogKeepsPages ==
  ASSUME logs \in Seq(Logs), NEW log \in Logs, logs' = Append(logs, log),
         NEW x, x.asOf \in Nat, AsRead(x)
  PROVE  AsRead(x)'
<1>1. /\ Len(logs) \in Nat /\ DOMAIN logs = 1..Len(logs)
      /\ DOMAIN logs' = 1..(Len(logs) + 1) /\ Len(logs') = Len(logs) + 1
      /\ \A i \in 1..Len(logs) : logs'[i] = logs[i]
  OBVIOUS
<1>2. x.asOf <= Len(logs)
  BY DEF AsRead
<1>3. MatchingAsOf(x.filter, x.asOf)' = MatchingAsOf(x.filter, x.asOf)
  BY <1>1, <1>2 DEF MatchingAsOf, Matching
<1>4. (x.asOf <= Len(logs))' /\ \A i \in DOMAIN logs : logs'[i] = logs[i]
  BY <1>1, <1>2
<1> QED
  BY <1>3, <1>4, PageKept

\* If pages stay as read, the screen stays and every other answer in flight is as
\* read too, then all pages are as read.
LEMMA PagesKept ==
  ASSUME PagesAsRead, UNCHANGED shown,
         \A r \in flight \cup {shown} : AsRead(r) => AsRead(r)',
         \A r \in flight' : r \in flight \/ r.status = "sent" \/ r.kind # "audit" \/ AsRead(r)'
  PROVE  PagesAsRead'
<1>1. ASSUME NEW r \in InFlight("audit")', r.status = "served"
      PROVE  AsRead(r)'
  BY <1>1 DEF PagesAsRead, InFlight
<1>2. ASSUME NEW x, x = shown, x.known
      PROVE  AsRead(x)'
  BY <1>2 DEF PagesAsRead
<1>3. ~shown'.known => shown'.rows = {}
  BY DEF PagesAsRead
<1>4. shown'.known => AsRead(shown)'
  BY <1>2 DEF AsRead
<1> QED
  BY <1>1, <1>3, <1>4 DEF PagesAsRead

\* Every step keeps the pages as the server read them.
LEMMA PagesStep ==
  ASSUME AdminInvariant, PagesAsRead, [Next]_vars
  PROVE  PagesAsRead'
<1>1. logs \in Seq(Logs) /\ Len(logs) \in Nat /\ DOMAIN logs = 1..Len(logs)
  BY DEF AdminInvariant, TypeOK
<1>2. \A r \in flight : r \in Requests
  BY DEF AdminInvariant, TypeOK
<1>3. shown.asOf \in Nat
  BY DEF AdminInvariant, TypeOK
<1>4. ASSUME UNCHANGED <<logs, shown>>,
             \A r \in flight' : r \in flight \/ r.status = "sent" \/ r.kind # "audit"
      PROVE  PagesAsRead'
  BY <1>1, <1>4, PagesKept, SameLogsKeepPages
<1>5. CASE \/ \E t \in Tabs : ChangeTab(t)
           \/ \E p \in Pages : ChangePage(p)
           \/ \E f \in Filters : ChangeFilter(f)
  BY <1>4, <1>5 DEF ChangeTab, ChangePage, ChangeFilter, Fetch, FetchAuditLogs, Request, database
<1>6. CASE Reopen
  BY <1>6 DEF Reopen, PagesAsRead, InFlight, Request, NoLogs
<1>7. ASSUME NEW r \in flight, ServeAuditLogs(r)
      PROVE  PagesAsRead'
  <2>0. PICK rows \in Rows(r.filter, r.page) :
          Serve(r, [r EXCEPT !.status = "served", !.rows = rows, !.asOf = Len(logs)])
    BY <1>7 DEF ServeAuditLogs
  <2> DEFINE s == [r EXCEPT !.status = "served", !.rows = rows, !.asOf = Len(logs)]
  <2>1. flight' = (flight \ {r}) \cup {s} /\ UNCHANGED <<shown, logs>>
    BY <2>0 DEF Serve, panels, database
  <2>2. s.asOf = Len(logs) /\ s.rows = rows /\ s.filter = r.filter /\ s.page = r.page
    BY <1>2 DEF Requests
  <2>3. ASSUME NEW q, q = s
        PROVE  AsRead(q)'
    <3>0. MatchingAsOf(r.filter, Len(logs)) = Matching(r.filter)
      BY <1>1 DEF MatchingAsOf, Matching
    <3>1. AsRead(q)
      BY <1>1, <2>0, <2>2, <2>3, <3>0 DEF AsRead, Rows
    <3> QED
      BY <1>1, <2>1, <3>1, SameLogsKeepPages
  <2> HIDE DEF s
  <2> QED
    BY <1>1, <2>1, <2>3, PagesKept, SameLogsKeepPages
<1>8. ASSUME NEW r \in flight, CountStaff(r) \/ ServeStatistics(r)
      PROVE  PagesAsRead'
  <2>1. r \in Requests /\ r.kind = "statistics"
    BY <1>2, <1>8 DEF CountStaff, ServeStatistics
  <2>2. ASSUME NEW s, Serve(r, s), s.kind = "statistics"
        PROVE  PagesAsRead'
    BY <1>4, <2>2 DEF Serve, panels, database
  <2> QED
    BY <1>8, <2>1, <2>2 DEF CountStaff, ServeStatistics, Requests
<1>9. ASSUME NEW log \in Logs, WriteLog(log)
      PROVE  PagesAsRead'
  <2>1. logs' = Append(logs, log) /\ UNCHANGED <<shown, flight>>
    BY <1>9 DEF WriteLog, panels
  <2>2. \A x \in flight \cup {shown} : x.asOf \in Nat
    BY <1>2, <1>3, RequestFields
  <2> QED
    BY <1>1, <2>1, <2>2, PagesKept, WrittenLogKeepsPages
<1>10. CASE Join
  BY <1>4, <1>10 DEF Join, panels
<1>11. ASSUME NEW r \in flight, Succeed(r)
       PROVE  PagesAsRead'
  <2>1. flight' = flight \ {r} /\ UNCHANGED logs
    BY <1>11 DEF Succeed, database
  <2>2. CASE r.kind # "audit"
    <3>1. UNCHANGED shown
      BY <1>11, <2>2 DEF Succeed
    <3> QED
      BY <1>4, <2>1, <3>1
  <2>3. CASE r.kind = "audit"
    <3>1. /\ shown'.known /\ shown'.rows = r.rows /\ shown'.filter = r.filter
          /\ shown'.page = r.page /\ shown'.asOf = r.asOf
      BY <1>11, <2>3 DEF Succeed
    <3>2. AsRead(r)'
      BY <1>1, <1>11, <2>1, <2>3, SameLogsKeepPages DEF PagesAsRead, InFlight, Succeed
    <3>3. \A q \in InFlight("audit")' : q.status = "served" => AsRead(q)'
      BY <1>1, <2>1, SameLogsKeepPages DEF PagesAsRead, InFlight
    <3>4. ASSUME NEW x, x = shown'
          PROVE  AsRead(x)'
      BY <3>1, <3>2, <3>4 DEF AsRead
    <3>5. AsRead(shown)'
      BY <3>4 DEF AsRead
    <3> QED
      BY <3>1, <3>3, <3>5 DEF PagesAsRead
  <2> QED
    BY <2>2, <2>3
<1>12. ASSUME NEW r \in flight, Fail(r)
       PROVE  PagesAsRead'
  BY <1>4, <1>12 DEF Fail, database
<1>13. CASE UNCHANGED vars
  BY <1>4, <1>13 DEF vars
<1> QED
  BY <1>5, <1>6, <1>7, <1>8, <1>9, <1>10, <1>11, <1>12, <1>13 DEF Next, Answer, InFlight

\* An answered page stays one that the server may have read from the logs of one
\* instant, for any number of logs that appear later.
THEOREM PagesAsReadHolds == Spec => []PagesAsRead
<1>1. Init => PagesAsRead
  BY DEF Init, PagesAsRead, InFlight, Request, NoLogs
<1> QED
  BY <1>1, PagesStep, AdminInvariantHolds, PTL DEF Spec

\* Each step that shows the next page shows it behind the page of before.
LEMMA NextPageFollows ==
  ASSUME AdminInvariant, PagesAsRead, [Next]_vars,
         NEW log \in Matching(shown.filter),
         shown'.page = shown.page + 1, shown'.filter = shown.filter,
         log <= shown.asOf, shown.asOf <= shown'.asOf,
         shown.rows # {},
         \A i \in shown.rows : logs[log].time < logs[i].time,
         \E j \in shown'.rows : logs[j].time < logs[log].time
  PROVE  log \in shown'.rows
<1>1. /\ logs \in Seq(Logs)
      /\ shown \in [known : BOOLEAN, page : Nat, filter : Filters, rows : SUBSET Nat, asOf : Nat]
  BY DEF AdminInvariant, TypeOK
<1>2. shown' # shown
  BY <1>1
<1>3. CASE Reopen
  BY <1>3 DEF Reopen, NoLogs
<1>4. ASSUME NEW r \in flight, Succeed(r)
      PROVE  log \in shown'.rows
  <2>1. r.kind = "audit" /\ r.status = "served"
        /\ shown'.rows = r.rows /\ shown'.page = r.page
        /\ shown'.filter = r.filter /\ shown'.asOf = r.asOf
    BY <1>2, <1>4 DEF Succeed
  <2> DEFINE M == MatchingAsOf(shown.filter, shown.asOf)
             N == MatchingAsOf(shown.filter, shown'.asOf)
             n == (shown.page - 1) * Limit
  <2>2. /\ shown'.rows \subseteq N
        /\ MayFollow(shown'.rows, N, ((shown.page + 1) - 1) * Limit)
    BY <2>1 DEF PagesAsRead, AsRead, InFlight
  <2>3. shown.rows \subseteq M /\ MayFollow(shown.rows, M, n)
    BY DEF PagesAsRead, AsRead
  <2>4. shown.asOf \in Nat /\ shown'.asOf \in Nat /\ shown.page \in Nat
    BY <1>1, <2>1, RequestFields DEF AdminInvariant, TypeOK
  <2>5. N \in SUBSET DOMAIN logs /\ M \in SUBSET N /\ log \in M
    BY <1>1, <2>4 DEF MatchingAsOf, Matching
  <2>6. (shown.page + 1) - 1 = (shown.page - 1) + 1 /\ shown.page - 1 \in Int /\ Limit \in Int
    BY <2>4, AdminAssumption
  <2>7. n \in Int /\ ((shown.page + 1) - 1) * Limit = n + Limit
    <3>1. \A k \in Int : (k + 1) * Limit = k * Limit + Limit /\ k * Limit \in Int
      BY AdminAssumption
    <3> QED
      BY <2>6, <3>1
  <2> HIDE DEF M, N, n
  <2>8. MayFollow(shown'.rows, N, n + Limit)
    BY <2>2, <2>7
  <2>9. PICK i \in shown.rows, j \in shown'.rows : logs[j].time < logs[log].time
    OBVIOUS
  <2> QED
    BY <1>1, <2>2, <2>3, <2>5, <2>7, <2>8, <2>9, PagesAdjoin
<1>5. CASE \/ \E t \in Tabs : ChangeTab(t)
           \/ \E p \in Pages : ChangePage(p)
           \/ \E f \in Filters : ChangeFilter(f)
  BY <1>2, <1>5 DEF ChangeTab, ChangePage, ChangeFilter
<1>6. ASSUME NEW r \in flight, ServeAuditLogs(r) \/ CountStaff(r) \/ ServeStatistics(r)
      PROVE  UNCHANGED shown
  BY <1>6 DEF ServeAuditLogs, CountStaff, ServeStatistics, Serve, panels
<1>7. CASE (\E l \in Logs : WriteLog(l)) \/ Join
  BY <1>2, <1>7 DEF WriteLog, Join, panels
<1>8. ASSUME NEW r \in flight, Fail(r)
      PROVE  UNCHANGED shown
  BY <1>8 DEF Fail
<1>9. CASE UNCHANGED vars
  BY <1>2, <1>9 DEF vars
<1> QED
  BY <1>2, <1>3, <1>4, <1>5, <1>6, <1>7, <1>8, <1>9 DEF Next, Answer, InFlight

\* The pagination of AdminPage.tsx: who turns to a page that is read later than the
\* one shown misses no log that was there, is older than all of that one and newer
\* than some log of the next, for any limit, any filter, any logs that appear in
\* between and any order of logs of one millisecond.
THEOREM NoLogSkippedHolds == Spec => NoLogSkipped
<1>1. AdminInvariant /\ PagesAsRead /\ [Next]_vars =>
        [ \A log \in Matching(shown.filter) :
            /\ shown'.page = shown.page + 1 /\ shown'.filter = shown.filter
            /\ log <= shown.asOf /\ shown.asOf <= shown'.asOf
            /\ shown.rows # {}
            /\ \A i \in shown.rows : logs[log].time < logs[i].time
            /\ \E j \in shown'.rows : logs[j].time < logs[log].time
            => log \in shown'.rows ]_shown
  BY NextPageFollows
<1> QED
  BY <1>1, AdminInvariantHolds, PagesAsReadHolds, PTL DEF Spec, NoLogSkipped

=============================================================================
