----------------------------- MODULE Reporting ------------------------------
(***************************************************************************)
(* What dashboards, reports, forecasts and the lists of customers and of   *)
(* organizations make of the books.  A figure is the set of rows it is     *)
(* counted or summed from, so that two figures can be compared row by row; *)
(* names and ranks are left out.  The queries of one answer                *)
(* read one state, where the program's read the database one after the     *)
(* other, and answers are not kept for a minute as the dashboard's are.    *)
(***************************************************************************)
EXTENDS InvoiceLists

CONSTANTS
    Expenses,  \* rows of the table of expenses
    TopRows    \* how many rows a list of the best ones has, 8 in the program

Expense == [id: Nat, org: Orgs, creator: Users, amount: Nat, day: Nat,
            currency: Currencies, category: Nat]

ASSUME ExpensesAssumption == Expenses \subseteq Expense /\ TopRows \in Nat

\* What is dated ahead is not dated further ahead than a copy of the last day.
ASSUME DatesAssumption == \A d \in Drafts : d.due <= LastDay + 14

\* The calendar has whole years, one before and one after that of the first
\* day at least, and is not over on any day that is asked about.
ASSUME YearsAssumption ==
    /\ LastMonth >= 35 /\ (LastMonth + 1) % 12 = 0
    /\ {FirstDay - 2, FirstDay + 40, LastDay} \subseteq CalendarDays

\* The members of S by a key of theirs.
GroupBy(S, key(_)) == [k \in {key(x) : x \in S} |-> {x \in S : key(x) = k}]

InOrganization(S, org) == {row \in S : org \in {None, row.org}}

\* The organizations of a dashboard or a report: a super administrator's
\* request, the only one there is, or all of them.
ReportedOrganizations(actor, requested) ==
    IF actor.role = "SUPER_ADMIN"
    THEN IF requested # None THEN {requested}
         ELSE IF Cardinality(Orgs) = 1 THEN Orgs ELSE {None}
    ELSE ScopedOrganizations(actor, requested)

-----------------------------------------------------------------------------
(***************************************************************************)
(* The dashboard.                                                          *)
(***************************************************************************)
DashboardScopes(u, requested) ==
    LET actor == AsActor(users, u)
    IN  {[org |-> o, users |-> InvoiceUserScope(users, actor), admin |-> AdministratorOf(users, actor)] :
            o \in ReportedOrganizations(actor, requested)}

InvoicesIn(sc, range) == {i \in Selected(sc) : invoices[i].date \in DaysOf(range)}

\* Slip: the organization's payments are shown to everybody in it.
PaymentsOfOrganization(sc, range) == {p \in InOrganization(Received, sc.org) : p.day \in DaysOf(range)}

PaymentsIn(sc, range) ==
    {p \in InOrganization(Received, sc.org) :
        p.day \in DaysOf(range) /\ (sc.users # Users => p.invoice \in Selected(sc))}

\* Which of S have one of the statuses.
WithStatus(S, statuses) == {i \in S : invoices[i].status \in statuses}

\* Slip: what was cancelled counts as unpaid.
NotPaid(S) == S \ WithStatus(S, {"PAID"})

Unpaid(S) == S \ WithStatus(S, {"PAID", "CANCELLED"})

InvoiceCounts(sc, range) ==
    LET inRange == InvoicesIn(sc, range)
    IN  [all |-> inRange,
         paid |-> WithStatus(inRange, {"PAID"}),
         unpaid |-> Unpaid(inRange),
         overdue |-> {i \in inRange : Open(i) /\ Late(i)},
         partial |-> WithStatus(inRange, {"PARTIALLY_PAID"}),
         cancelled |-> WithStatus(inRange, {"CANCELLED"}),
         draft |-> WithStatus(inRange, {"DRAFT"}),
         sent |-> WithStatus(inRange, {"SENT"}),
         viewed |-> {i \in WithStatus(inRange, {"VIEWED"}) : ~Late(i)}]

EmailDelivery(sc, range) ==
    LET mail(i) == invoices[i].mail IN GroupBy(InvoicesIn(sc, range), mail)

PeopleCounts(sc) ==
    LET people == {u \in Users : sc.org \in {None, users[u].org}}
    IN  [organizations |-> IF sc.org = None THEN Orgs ELSE {sc.org},
         admins |-> {u \in people : users[u].role = "ADMIN"},
         members |-> {u \in people : users[u].role = "MEMBER" /\ sc.admin \in {None, users[u].admin}},
         withoutMembers |-> {u \in people : users[u].role = "ADMIN" /\ MembersOf(users, u) = {}}]

CustomersOf(org, admin) ==
    {c \in Customers : org \in {None, CustomerRow[c].org} /\ admin \in {None, CustomerRow[c].admin}}

CustomerCount(sc, range) ==
    IF sc.admin = None /\ sc.users # Users
    THEN {invoices[i].customer : i \in InvoicesIn(sc, range)}
    ELSE CustomersOf(sc.org, sc.admin)

\* Slip: money that has come in is not taken off.
OpenTotals(sc, range) ==
    LET currency(i) == invoices[i].currency
        groups == GroupBy({i \in InvoicesIn(sc, range) : Open(i)}, currency)
    IN  [k \in DOMAIN groups |-> [total |-> Totals(groups[k]), paid |-> 0]]

OutstandingByCurrency(sc, range) ==
    LET currency(i) == invoices[i].currency
        groups == GroupBy({i \in InvoicesIn(sc, range) : Open(i)}, currency)
    IN  [k \in DOMAIN groups |-> Balances(groups[k])]

OverdueByCurrency(sc, range) ==
    LET currency(i) == invoices[i].currency
        groups == GroupBy({i \in InvoicesIn(sc, range) : Open(i) /\ Late(i)}, currency)
    IN  [k \in DOMAIN groups |-> Balances(groups[k])]

RevenueByCurrency(sc, range) ==
    LET currency(p) == p.currency
        groups == GroupBy(PaymentsIn(sc, range), currency)
    IN  [k \in DOMAIN groups |-> Amounts(groups[k])]

\* The currency of the latest invoice: which that is, is left open.
ShownCurrencies(sc) == {invoices[i].currency : i \in Selected(sc)}

\* In the shown currency, or of all of them when none came in in that one.
Revenue(sc, range, currency) ==
    LET revenue == RevenueByCurrency(sc, range)
    IN  IF currency \in DOMAIN revenue THEN revenue[currency] ELSE Amounts(PaymentsIn(sc, range))

\* Sums by day, or by month when the range has more than 31 days.
Daily(range) == RangeDayCount(range) <= 31

MoneySeries(S, range, currency) ==
    LET daily == Daily(range)
        dayOf(p) == p.day
    IN  [k \in PeriodKeys(range, daily) |->
            Amounts({p \in S : p.currency = currency /\ PeriodKey(p.day, daily) = k})]

\* A day outside the range's periods is in no bucket.
CountSeries(S, range) ==
    LET daily == Daily(range)
    IN  [k \in PeriodKeys(range, daily) |->
            {i \in S : PeriodKey(invoices[i].date, daily) = k}]

CreatedSeries(sc, range) == CountSeries(InvoicesIn(sc, range), range)

ExpensesIn(org, range) == {e \in InOrganization(Expenses, org) : e.day \in DaysOf(range)}

\* Drafts and cancelled invoices count as outstanding in these groups.
Performance(S) == [count |-> S, total |-> Totals(S), paid |-> AmountsPaid(S)]

MemberPerformance(sc, range) ==
    LET member(i) == invoices[i].assignee
        groups == GroupBy(InvoicesIn(sc, range), member)
    IN  [k \in DOMAIN groups |-> Performance(groups[k])]

\* What may be left of S when an answer takes n.
Taken(S, n) == {K \in SUBSET S : Cardinality(K) <= n /\ (K # S => Cardinality(K) = n)}

\* The lists the best rows of a table make: which of equal ones, is left open.
Best(table, worth(_)) ==
    {[k \in K |-> table[k]] : K \in {L \in Taken(DOMAIN table, TopRows) :
        \A k \in L, l \in DOMAIN table \ L : worth(table[k]) >= worth(table[l])}}

CustomerTable(sc, range) ==
    LET customer(i) == invoices[i].customer
        groups == GroupBy(InvoicesIn(sc, range), customer)
    IN  [k \in DOMAIN groups |-> Performance(groups[k])]

TopCustomers(sc, range) ==
    LET total(row) == row.total IN Best(CustomerTable(sc, range), total)

OrganizationTable(sc, range) ==
    LET org(i) == invoices[i].org
        groups == GroupBy(InvoicesIn(sc, range), org)
    IN  [k \in DOMAIN groups |-> Performance(groups[k])]

OrganizationActivity(sc, range) ==
    LET paid(row) == row.paid IN Best(OrganizationTable(sc, range), paid)

\* What an administrator or one of its members made or was given.
AdministratorOverview(sc, range, currency) ==
    [a \in PeopleCounts(sc).admins |->
        Performance({i \in InvoicesIn(sc, range) :
            /\ invoices[i].currency = currency
            /\ \/ a \in {invoices[i].creator, invoices[i].assignee}
               \/ invoices[i].assignee # None /\ users[invoices[i].assignee].admin = a})]

\* The five latest, whichever they are.
RecentCustomers(sc, range) ==
    {[c \in K |-> {i \in InvoicesIn(sc, range) : invoices[i].customer = c}] :
        K \in Taken(CustomersOf(sc.org, sc.admin), 5)}

InvoiceSummaryRow(i) == ListView(i)

-----------------------------------------------------------------------------
(***************************************************************************)
(* Reports.                                                                *)
(***************************************************************************)

\* Whose rows: a super administrator may ask for an administrator, and
\* both may ask for a member.
ReportUsers(u, administrator, member) ==
    LET actor == AsActor(users, u)
        isMember == member # None /\ users[member].role = "MEMBER"
        created == [users |-> {member}, expenses |-> {member}]
    IN  CASE actor.role = "MEMBER" -> {[users |-> {u}, expenses |-> {u}]}
          [] actor.role # "MEMBER" /\ administrator # None ->
                IF actor.role # "SUPER_ADMIN" \/ users[administrator].role # "ADMIN" THEN {}
                ELSE IF member = None
                THEN LET own == MembersOf(users, administrator) IN {[users |-> own, expenses |-> own]}
                ELSE IF isMember /\ users[member].admin = administrator THEN {created} ELSE {}
          [] actor.role # "MEMBER" /\ administrator = None /\ member # None ->
                IF actor.role \in {"ADMIN", "SUPER_ADMIN"} /\ isMember /\ OwnsMember(actor, users[member])
                THEN {created} ELSE {}
          [] OTHER -> LET own == InvoiceUserScope(users, actor) IN {[users |-> own, expenses |-> own]}

ReportScopes(u, requested, administrator, member) ==
    {[org |-> o, users |-> access.users, expenses |-> access.expenses] :
        o \in ReportedOrganizations(AsActor(users, u), requested),
        access \in ReportUsers(u, administrator, member)}

\* Nobody's invoices: then the payments are not limited to invoices at all.
ReportPayments(sc, range) ==
    {p \in InOrganization(Received, sc.org) :
        /\ p.day \in DaysOf(range)
        /\ sc.users \notin {{}, Users} => p.invoice \in Selected(sc)}

ReportExpenses(sc, range) == {e \in ExpensesIn(sc.org, range) : e.creator \in sc.expenses}

\* Due, and late, in the range.
ReportOverdue(sc, range) ==
    {i \in Selected(sc) : Open(i) /\ invoices[i].due \in DaysOf(range) /\ Late(i)}

ReportOutstanding(sc, range) == {i \in InvoicesIn(sc, range) : Open(i)}

ReportPaid(sc, range) == WithStatus(InvoicesIn(sc, range), {"PAID"})

ReportOverview(sc, range) ==
    [payments |-> ReportPayments(sc, range), expenses |-> ReportExpenses(sc, range),
     invoices |-> InvoicesIn(sc, range), paid |-> ReportPaid(sc, range),
     outstanding |-> ReportOutstanding(sc, range), overdue |-> ReportOverdue(sc, range)]

\* Periods without a payment are left out.
ReportBuckets(S, range, currency) ==
    LET daily == RangeDayCount(range) <= 45
        key(p) == PeriodKey(p.day, daily)
        groups == GroupBy({p \in S : p.currency = currency}, key)
    IN  [k \in DOMAIN groups |-> Amounts(groups[k])]

StatusReport(sc, range) ==
    LET status(i) == invoices[i].status IN GroupBy(InvoicesIn(sc, range), status)

InvoiceListReport(S) ==
    [rows |-> S, billed |-> Totals(S), collected |-> AmountsPaid(S), outstanding |-> Balances(S)]

CustomerBalances(sc, range) ==
    LET customer(i) == invoices[i].customer
        groups == GroupBy(ReportOutstanding(sc, range), customer)
    IN  [k \in DOMAIN groups |-> Performance(groups[k])]

ExpenseReport(sc, range) ==
    LET category(e) == e.category
        groups == GroupBy(ReportExpenses(sc, range), category)
    IN  [k \in DOMAIN groups |-> Amounts(groups[k])]

-----------------------------------------------------------------------------
(***************************************************************************)
(* An administrator's forecast.                                            *)
(***************************************************************************)
ForecastScopes(u) == IF users[u].role = "ADMIN" THEN SummaryScopes(u) ELSE {}

\* Open invoices by when they are due, whatever their date.
Forecast(sc) ==
    LET open == {i \in Selected(sc) : Open(i)}
        due(range) == {i \in open : invoices[i].due \in DaysOf(range)}
        month == ResolveDateRange("this_month", today)
    IN  [open |-> open,
         overdue |-> {i \in open : Late(i)},
         expectedThisMonth |-> due(month),
         expectedNext30Days |-> due(Span(today, today + 31)),
         dueWithin7Days |-> due(Span(today, today + 8)),
         collectedThisMonth |-> PaymentsIn(sc, month),
         collectedLastMonth |-> PaymentsIn(sc, ResolveDateRange("last_month", today))]

\* All currencies are added up.
ForecastTrend(sc, range) ==
    LET daily == Daily(range)
    IN  [k \in PeriodKeys(range, daily) |->
            [collected |-> Amounts({p \in PaymentsIn(sc, range) : PeriodKey(p.day, daily) = k}),
             outstanding |-> Balances({i \in Selected(sc) :
                Open(i) /\ invoices[i].due \in DaysOf(range) /\ PeriodKey(invoices[i].due, daily) = k})]]

-----------------------------------------------------------------------------
(***************************************************************************)
(* Organizations and customers.                                            *)
(***************************************************************************)
OrganizationOverview(o) ==
    [admins |-> {u \in Users : users[u].role = "ADMIN" /\ users[u].org = o},
     members |-> {u \in Users : users[u].role = "MEMBER" /\ users[u].org = o},
     customers |-> CustomersOf(o, None),
     invoices |-> Selected(Scope(o, Users))]

Mailed(c) == \E i \in Invoices : invoices[i].customer = c /\ invoices[i].mail = "SENT"

\* One of the customer's invoices that are still to be mailed.
UnsentInvoices(c) ==
    {i \in Invoices : /\ invoices[i].customer = c /\ invoices[i].status # "CANCELLED"
                      /\ invoices[i].mail \in {"NOT_SENT", "FAILED"}}

\* lifecycle is OLD, NEW, or ALL when the request does not ask.
CustomerList(org, admin, lifecycle) ==
    {c \in CustomersOf(org, admin) :
        CASE lifecycle = "OLD" -> Mailed(c) [] lifecycle = "NEW" -> ~Mailed(c) [] OTHER -> TRUE}

CustomerCounts(org, admin) ==
    LET all == CustomersOf(org, admin)
        old == Cardinality({c \in all : Mailed(c)})
    IN  [all |-> Cardinality(all), old |-> old, new |-> Cardinality(all) - old]

CustomerLists(u, requested, lifecycle) ==
    LET actor == AsActor(users, u)
    IN  {CustomerList(o, AdministratorOf(users, actor), lifecycle) :
            o \in ScopedTenants(actor, requested, Active)}

\* What one customer's page says is still to be mailed.
UnsentShown(c) == IF Mailed(c) THEN {} ELSE UnsentInvoices(c)

-----------------------------------------------------------------------------
(***************************************************************************)
(* Properties.  Ever is a range that holds every date (DatesAssumption).   *)
(***************************************************************************)
Ever == Span(0, LastDay + 15)

\* Every report a user can ask for.
ReportsOf(u) ==
    UNION {ReportScopes(u, requested, f[1], f[2]) :
              requested \in Orgs \cup {None}, f \in PeopleFilters}

Limited == {u \in Users : users[u].role \in {"ADMIN", "MEMBER"}}

SumOfValues(f) == LET value(k) == f[k] IN SumOver(DOMAIN f, value)

\* What the groups of a table come to.
Collected(groups) == LET paid(k) == groups[k].paid IN SumOver(DOMAIN groups, paid)

SumOfBalances(f) ==
    LET total(k) == f[k].total
        paid(k) == f[k].paid
    IN  [total |-> SumOver(DOMAIN f, total), paid |-> SumOver(DOMAIN f, paid)]

(***************************************************************************)
(* The where clauses of loadDashboardSnapshot, loadReport and              *)
(* loadForecastSnapshot: for an administrator or a member every row behind *)
(* a figure is, or pays, an invoice the user may open, whatever the        *)
(* request asks for.  The payments of a report on nobody are excepted.     *)
(***************************************************************************)
FiguresWithinAccess ==
    \A u \in Limited :
        LET mine == {i \in Invoices : Opens(u, i)}
            own(S) == {p.invoice : p \in S} \subseteq mine
        IN  /\ \A sc \in UNION {DashboardScopes(u, requested) : requested \in Orgs \cup {None}} :
                  InvoicesIn(sc, Ever) \subseteq mine /\ own(PaymentsIn(sc, Ever))
            /\ \A sc \in ReportsOf(u) :
                  /\ InvoicesIn(sc, Ever) \cup ReportOverdue(sc, Ever) \subseteq mine
                  /\ sc.users # {} => own(ReportPayments(sc, Ever))
            /\ \A sc \in ForecastScopes(u) :
                  Forecast(sc).open \subseteq mine /\ own(Forecast(sc).collectedThisMonth)

(***************************************************************************)
(* The revenue of a dashboard, summed from payments, is in each currency   *)
(* what the invoices say was paid, and so are the groups by member, by     *)
(* customer and by organization, which are summed from invoices; a list    *)
(* that not every group is in comes to no more.  Refused, refunded and     *)
(* repeated payments keep it so, as long as no late write parted the       *)
(* amount of one of the invoices from its payments.                        *)
(***************************************************************************)
RevenueIsPaid ==
    \A sc \in UNION {DashboardScopes(u, requested) : u \in Users, requested \in Orgs \cup {None}} :
        Selected(sc) \cap parted = {} =>
            LET revenue == RevenueByCurrency(sc, Ever)
                all == SumOfValues(revenue)
                paidIn(c) == AmountsPaid({i \in Selected(sc) : invoices[i].currency = c})
                fits(list, table) ==
                    IF DOMAIN list = DOMAIN table THEN Collected(list) = all ELSE Collected(list) <= all
            IN  /\ \A c \in Currencies : paidIn(c) = IF c \in DOMAIN revenue THEN revenue[c] ELSE 0
                /\ Collected(MemberPerformance(sc, Ever)) = all
                /\ \A list \in TopCustomers(sc, Ever) : fits(list, CustomerTable(sc, Ever))
                /\ \A list \in OrganizationActivity(sc, Ever) : fits(list, OrganizationTable(sc, Ever))

(***************************************************************************)
(* A super administrator's dashboard of an organization counts the people, *)
(* customers and invoices that the overview of the organization counts,    *)
(* and its figures by status make up all invoices, as do the mail statuses *)
(* and the report by status.                                               *)
(***************************************************************************)
CountsAgree ==
    \A u \in {v \in Users : users[v].role = "SUPER_ADMIN"}, o \in Orgs : \A sc \in DashboardScopes(u, o) :
        LET counts == InvoiceCounts(sc, Ever)
            overview == OrganizationOverview(o)
            mails == EmailDelivery(sc, Ever)
            statuses == StatusReport(sc, Ever)
            people == PeopleCounts(sc)
        IN  /\ overview.invoices = counts.all
            /\ overview.customers = CustomerCount(sc, Ever)
            /\ overview.admins = people.admins /\ overview.members = people.members
            /\ counts.all = UNION {mails[k] : k \in DOMAIN mails}
            /\ counts.all = UNION {statuses[k] : k \in DOMAIN statuses}
            /\ Cardinality(counts.all) = Cardinality(counts.unpaid) + Cardinality(counts.paid)
                  + Cardinality(counts.cancelled)
            /\ counts.unpaid = UNION {counts.draft, counts.sent, counts.viewed, counts.overdue, counts.partial}

(***************************************************************************)
(* What a user is owed, and what of it is late, is the same amount on the  *)
(* summary cards, the dashboard, the forecast and the reports, each of     *)
(* which selects and adds up for itself.                                   *)
(***************************************************************************)
OpenBalancesAgree ==
    \A sc \in UNION {SummaryScopes(u) : u \in Limited} :
        LET cards == Summary(sc)
            overdue == Balances(cards.overdue)
            awaited == Balances(cards.awaitingPayment)
            owed == [total |-> overdue.total + awaited.total, paid |-> overdue.paid + awaited.paid]
        IN  /\ owed = SumOfBalances(OutstandingByCurrency(sc, Ever))
            /\ owed = Balances(Forecast(sc).open)
            /\ owed = InvoiceListReport(ReportOutstanding(sc, Ever)).outstanding
            /\ owed = SumOfBalances(CustomerBalances(sc, Ever))
            /\ overdue = SumOfBalances(OverdueByCurrency(sc, Ever))
            /\ cards.overdue = Forecast(sc).overdue
            /\ cards.overdue = ReportOverdue(sc, Ever)

(***************************************************************************)
(* The buckets of buildMoneySeries, buildCountSeries, bucketAmounts and of *)
(* the forecast's trend: the periods of a series add up to the figure      *)
(* above it, so no row falls between two buckets; asked by day, by month,  *)
(* and by month for a range that starts inside one.                        *)
(***************************************************************************)
Asked ==
    {ResolveDateRange("this_month", today), ResolveDateRange("this_year", today)}
        \cup CustomRanges(FirstDay - 2, FirstDay + 40)

SeriesAddUp ==
    \A range \in Asked, sc \in {own \in UNION {SummaryScopes(u) : u \in Limited} : Selected(own) # {}} :
        LET rows == PaymentsIn(sc, range)
            trend == ForecastTrend(sc, range)
            created == CreatedSeries(sc, range)
            collected(k) == trend[k].collected
            outstanding == [k \in DOMAIN trend |-> trend[k].outstanding]
        IN  /\ UNION {created[k] : k \in DOMAIN created} = InvoicesIn(sc, range)
            /\ SumOver(DOMAIN trend, collected) = Amounts(rows)
            /\ SumOfBalances(outstanding) =
                  Balances({i \in Selected(sc) : Open(i) /\ invoices[i].due \in DaysOf(range)})
            /\ \A c \in {p.currency : p \in rows} :
                  LET revenue == Amounts({p \in rows : p.currency = c})
                  IN  /\ SumOfValues(MoneySeries(rows, range, c)) = revenue
                      /\ SumOfValues(ReportBuckets(rows, range, c)) = revenue

(***************************************************************************)
(* A customer is NEW or OLD, and whoever owes something is OLD and is not  *)
(* shown an invoice that is still to be mailed, or is NEW again since the  *)
(* mail of that invoice was repeated and failed, and is shown it.          *)
(***************************************************************************)
CustomersSplit ==
    \A u \in {v \in Users : users[v].role \in {"SUPER_ADMIN", "MEMBER"}}, requested \in Orgs :
        \A all \in CustomerLists(u, requested, "ALL"),
           new \in CustomerLists(u, requested, "NEW"), old \in CustomerLists(u, requested, "OLD") :
            /\ new \cup old = all /\ new \cap old = {}
            /\ \A i \in Invoices : Exists(i) /\ Open(i) /\ invoices[i].customer \in all =>
                  LET owes == invoices[i].customer
                  IN  \/ owes \in old /\ UnsentShown(owes) = {}
                      \/ owes \in new /\ invoices[i].mail = "FAILED" /\ i \in UnsentShown(owes)

\* Every day of a year: asked while the books are empty, as it does not depend on them.
CalendarHolds ==
    (\A i \in Invoices : ~Exists(i)) => \A day \in MonthStart[12] .. MonthStart[24] - 1 : PresetsFit(day)

=============================================================================
