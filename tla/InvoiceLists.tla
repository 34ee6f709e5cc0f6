---------------------------- MODULE InvoiceLists ----------------------------
(***************************************************************************)
(* What the list of invoices, its board and its summary cards show to whom.*)
(* A scope is an organization, or None for all of them, and the users      *)
(* whose invoices are meant, all of them for a super administrator.  Pages *)
(* and sorting are left out: a list is the set of its rows.                *)
(***************************************************************************)
EXTENDS InvoiceBooks

Active == [o \in Orgs |-> TRUE]

Scope(org, members) == [org |-> org, users |-> members]

\* Slip: the invoices a member was given are not its own.
SelectedByCreator(sc) ==
    {i \in Invoices : Exists(i) /\ sc.org \in {None, invoices[i].org}
                      /\ invoices[i].creator \in sc.users}

Selected(sc) ==
    {i \in Invoices : Exists(i) /\ sc.org \in {None, invoices[i].org}
                      /\ {invoices[i].creator, invoices[i].assignee} \cap sc.users # {}}

\* The scopes a list may have; None, when the request is refused.
ListScopes(u, requested, administrator, member) ==
    LET actor == AsActor(users, u)
        chosen == IF administrator = None THEN InvoiceUserScope(users, actor)
                  ELSE MembersOf(users, administrator)
    IN  {Scope(o, IF member = None THEN chosen ELSE chosen \cap {member}) :
            o \in {p \in ScopedTenants(actor, requested, Active) :
                /\ administrator # None =>
                      actor.role = "SUPER_ADMIN" /\ users[administrator].role = "ADMIN"
                /\ member # None =>
                      /\ actor.role \in {"SUPER_ADMIN", "ADMIN"}
                      /\ users[member].role = "MEMBER"
                      /\ actor.role = "ADMIN" => users[member].admin = u
                      /\ administrator # None => users[member].admin = administrator}}

-----------------------------------------------------------------------------
(***************************************************************************)
(* The board.                                                              *)
(***************************************************************************)
Late(i) == invoices[i].due < today

Open(i) == invoices[i].status \notin {"DRAFT", "CANCELLED", "PAID"}

Columns == {"new", "sent", "overdue", "outstanding", "paid"}

\* Slip: an invoice that is partly paid is no longer awaited.
AwaitedUnpaid(i) == invoices[i].status \in {"SENT", "VIEWED"} /\ ~Late(i)

Awaited(i) == invoices[i].status \in {"SENT", "VIEWED", "PARTIALLY_PAID"} /\ ~Late(i)

InColumn(i, column) ==
    CASE column = "new" -> invoices[i].status = "DRAFT"
      [] column = "sent" -> Awaited(i)
      [] column = "overdue" -> Open(i) /\ Late(i)
      [] column = "outstanding" -> invoices[i].status \in PayableStatuses
      [] column = "paid" -> invoices[i].status = "PAID"

\* The payments list: payments carry an organization of their own.
PaymentsListed(sc) ==
    {p \in payments : /\ sc.org \in {None, p.org}
                      /\ sc.users # Users =>
                            {invoices[p.invoice].creator, invoices[p.invoice].assignee} \cap sc.users # {}}

\* A column goes before a status, and the status OVERDUE is a due date.
Matches(i, column, status) ==
    CASE column # None -> InColumn(i, column)
      [] column = None /\ status = "OVERDUE" -> Open(i) /\ Late(i)
      [] OTHER -> status \in {None, invoices[i].status}

\* found holds what a search finds: the scope's own condition replaces it.
Listed(sc, range, customer, found, column, status) ==
    {i \in Selected(sc) :
        /\ customer \in {None, invoices[i].customer}
        /\ invoices[i].date \in DaysOf(range)
        /\ i \in found \/ sc.users # Users
        /\ Matches(i, column, status)}

-----------------------------------------------------------------------------
(***************************************************************************)
(* The summary cards.                                                      *)
(***************************************************************************)
Totals(S) == LET total(i) == invoices[i].total IN SumOver(S, total)

AmountsPaid(S) == LET paid(i) == invoices[i].paid IN SumOver(S, paid)

\* What is open of S: the program takes the second from the first.
Balances(S) == [total |-> Totals(S), paid |-> AmountsPaid(S)]

SummaryScopes(u) ==
    LET actor == AsActor(users, u)
    IN  {Scope(o, InvoiceUserScope(users, actor)) : o \in ScopedTenants(actor, None, Active)}

\* The invoices behind each card.
Summary(sc) ==
    LET base == Selected(sc)
        overdue == {i \in base : Open(i) /\ Late(i)}
    IN  [all |-> base,
         paid |-> {i \in base : invoices[i].status = "PAID"},
         void |-> {i \in base : invoices[i].status = "CANCELLED"},
         outstanding |-> {i \in base : invoices[i].status \in PayableStatuses},
         overdue |-> overdue,
         awaitingPayment |-> {i \in base : Awaited(i)},
         notSent |-> {i \in base : invoices[i].status = "DRAFT"},
         \* The alternative of drafts and overdue ones replaces the scope's own.
         overview |-> IF sc.users = {} THEN {}
                      ELSE overdue \cup {i \in Selected(Scope(sc.org, Users)) :
                                            invoices[i].status = "DRAFT"}]

-----------------------------------------------------------------------------
(***************************************************************************)
(* One invoice: the detail adds its payments up, a list row does not.      *)
(***************************************************************************)
InvoiceView(i, paid) ==
    LET row == invoices[i]
        status == DeriveInvoiceStatus(row.status, row.total, paid, Late(i))
    IN  [status |-> status, payment |-> DerivePaymentStatus(row.total, paid, status),
         balance |-> IF row.total < paid THEN 0 ELSE row.total - paid]

DetailView(i) == InvoiceView(i, Amounts(Completed(i)))

ListView(i) == InvoiceView(i, invoices[i].paid)

-----------------------------------------------------------------------------
(***************************************************************************)
(* Properties.                                                             *)
(***************************************************************************)
\* An administrator or none, and a member or none, to ask for.
PeopleFilters ==
    ({u \in Users : users[u].role = "ADMIN"} \cup {None})
        \X ({u \in Users : users[u].role = "MEMBER"} \cup {None})

(***************************************************************************)
(* listInvoices and listPayments against assertInvoiceAccess: an invoice   *)
(* and its payments are in a user's lists exactly when the user may open   *)
(* it, also after its administrator was moved, and no filter lists more.   *)
(***************************************************************************)
ListAgreesWithAccess ==
    \A u \in {v \in Users : users[v].role # "NONE"} :
        LET lists(filters) ==
                UNION {ListScopes(u, requested, f[1], f[2]) :
                          requested \in Orgs \cup {None}, f \in filters}
            plain == lists({<<None, None>>})
            open == {i \in Invoices : Opens(u, i)}
        IN  /\ open = UNION {Selected(sc) : sc \in plain}
            /\ {p \in payments : p.invoice \in open} = UNION {PaymentsListed(sc) : sc \in plain}
            /\ \A sc \in lists(PeopleFilters) : Selected(sc) \subseteq open

(***************************************************************************)
(* The board of listInvoices and the cards of countInvoiceSummary: every   *)
(* invoice is in one column or cancelled, the columns sent and overdue are *)
(* what is outstanding, and each card counts its column.                   *)
(***************************************************************************)
BoardIsComplete ==
    \A sc \in UNION {SummaryScopes(u) : u \in Users} :
        LET cards == Summary(sc)
            column(c) == {i \in Selected(sc) : InColumn(i, c)}
        IN  /\ Cardinality(cards.all) = Cardinality(cards.void) + Cardinality(column("new"))
                  + Cardinality(column("sent")) + Cardinality(column("overdue"))
                  + Cardinality(column("paid"))
            /\ column("outstanding") = column("sent") \cup column("overdue")
            /\ cards.outstanding = cards.awaitingPayment \cup cards.overdue
            /\ cards.overdue = {i \in Selected(sc) : Matches(i, None, "OVERDUE")}

(***************************************************************************)
(* toInvoiceView: the detail, which adds the payments up, shows what a row *)
(* of the list shows from the stored amount, unless a late write parted    *)
(* the two; and what a row shows fits the column of the board, unless a    *)
(* late write replaced the status or the contents, and but for an invoice  *)
(* of nothing, which is shown as paid wherever it is.                      *)
(***************************************************************************)
ViewsAgree ==
    \A i \in {j \in Invoices : Exists(j)} :
        LET shown == ListView(i)
        IN  /\ i \notin parted => DetailView(i) = shown
            /\ i \notin restated /\ invoices[i].total > 0 =>
                  /\ InColumn(i, "paid") <=> shown.status = "PAID"
                  /\ InColumn(i, "sent") => shown.status \in {"SENT", "VIEWED", "PARTIALLY_PAID"}
                  /\ InColumn(i, "overdue") => shown.status \in {"OVERDUE", "PARTIALLY_PAID"}

(***************************************************************************)
(* The comment of countInvoiceSummary: when the users are given, only      *)
(* invoices the user can access are counted.                               *)
(***************************************************************************)
SummaryWithinAccess ==
    \A u \in {v \in Users : users[v].role \in {"ADMIN", "MEMBER"}} :
        \A sc \in SummaryScopes(u) : \A i \in Summary(sc).overview : Opens(u, i)

=============================================================================
