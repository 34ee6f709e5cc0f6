---------------------------- MODULE InvoiceBooks ----------------------------
(***************************************************************************)
(* The invoices and payments that lists, dashboards and reports are read   *)
(* from.  Customers and expenses are tables that stay as they are; users   *)
(* only change by an administrator being moved.                            *)
(*                                                                         *)
(* A request reads an invoice, checks it and writes it later, whatever it  *)
(* has become: nothing limits how many requests are on their way, nor how  *)
(* long.  So an action here is the write, and it may happen as soon as the *)
(* invoice has once been what the check asks for.  A write over another    *)
(* status than the one checked is late.  The transaction of a settlement   *)
(* locks the invoice and sums the payments again, so it is one step; who   *)
(* asks is checked with the write.                                         *)
(*                                                                         *)
(* Money is a natural number of units, and a date is a day of Calendar.    *)
(* Disturbances are bounded: late writes, failed mails, payments undone    *)
(* and administrators moved.                                               *)
(***************************************************************************)
EXTENDS TenantAccess, InvoiceStatus, Calendar

CONSTANTS
    Invoices,          \* ids of invoices
    Customers,         \* ids of customers
    CustomerRow,       \* the organization and the administrator of each
    Currencies,        \* currencies
    Drafts,            \* what an invoice may be created or edited to say
    InitialDirectory,  \* the users at the start
    FirstDay,          \* the day of the first step
    LastDay,           \* bound on days
    MaxPayments,       \* bound on payments
    MaxDisturbances    \* bound on disturbances

Draft == [customer: Customers, total: Nat, currency: Currencies, date: Nat, due: Nat]

ASSUME BooksAssumption ==
    /\ CustomerRow \in [Customers -> [org: Orgs, admin: Users \cup {None}]]
    /\ Drafts \subseteq Draft
    /\ \A d \in Drafts : d.date <= d.due
    /\ InitialDirectory \in [Users -> UserRow]
    /\ \A u \in Users : InitialDirectory[u].role \in {"ADMIN", "MEMBER"} =>
          InitialDirectory[u].org \in Orgs
    /\ FirstDay \in Nat /\ LastDay \in Nat /\ FirstDay <= LastDay
    /\ MaxPayments \in Nat /\ MaxDisturbances \in Nat

VARIABLES
    users,        \* the row of each user
    invoices,     \* the row of each invoice
    payments,     \* payments that were completed once
    today,        \* the day
    viewable,     \* invoices that a request may have found SENT
    payable,      \* invoices that a request may have found open to payments
    restated,     \* invoices whose status or contents a late write replaced
    parted,       \* invoices whose payments and amount a late write parted
    disturbances  \* how many there were

checks == <<viewable, payable>>

overlaps == <<restated, parted, disturbances>>

vars == <<users, invoices, payments, today, checks, overlaps>>

-----------------------------------------------------------------------------
MailStatuses == {"NOT_SENT", "SENT", "FAILED"}

\* An invoice that does not exist has the status NONE.
Row == [org: Orgs \cup {None}, creator: Users \cup {None}, assignee: Users \cup {None},
        customer: Customers \cup {None}, status: InvoiceStatuses \cup {"NONE"},
        mail: MailStatuses, total: Nat, paid: Nat, currency: Currencies \cup {None},
        date: Nat, due: Nat]

NoInvoice ==
    [org |-> None, creator |-> None, assignee |-> None, customer |-> None, status |-> "NONE",
     mail |-> "NOT_SENT", total |-> 0, paid |-> 0, currency |-> None, date |-> 0, due |-> 0]

\* A session that no money came in on yet is no row here: nothing adds it up.
Payment == [invoice: Invoices, nr: Nat, org: Orgs, currency: Currencies,
            amount: Nat \ {0}, day: Nat, status: {"COMPLETED", "FAILED", "REFUNDED"}]

Exists(i) == invoices[i].status # "NONE"

PaymentsOf(i) == {p \in payments : p.invoice = i}

\* What figures add up.
Received == {p \in payments : p.status = "COMPLETED"}

Completed(i) == {p \in PaymentsOf(i) : p.status = "COMPLETED"}

\* The amounts of the members of S, none of them below zero, added up.
SumOver(S, amount(_)) == SumOf([x \in S |-> amount(x)], S)

Amounts(S) == LET amount(p) == p.amount IN SumOver(S, amount)

\* The route's permission, asked of an account that is active.
May(u, verb) ==
    users[u].active /\ <<"INVOICES", verb>> \in RolePermissions(users[u].role)

Opens(u, i) == Exists(i) /\ InvoiceAccess(users, AsActor(users, u), invoices[i])

\* A row is written: from now on a request may have read it.
Write(i, row) ==
    /\ invoices' = [invoices EXCEPT ![i] = row]
    /\ viewable' = IF row.status = "SENT" THEN viewable \cup {i} ELSE viewable
    /\ payable' = IF CanRecordPayment(DeriveInvoiceStatus(row.status, row.total, row.paid, FALSE))
                  THEN payable \cup {i} ELSE payable

\* One that replaces the status or contents of the invoices of S, and that
\* parts the payments and amounts of those of T.
Disturb(S, T) ==
    /\ disturbances < MaxDisturbances /\ disturbances' = disturbances + 1
    /\ restated' = restated \cup S
    /\ parted' = parted \cup T

\* The write comes late unless the invoice still has a status of S.
InTime(i, S, T) ==
    IF invoices[i].status \in S THEN UNCHANGED overlaps ELSE Disturb({i}, T)

-----------------------------------------------------------------------------
(***************************************************************************)
(* Creating, editing and duplicating.                                      *)
(***************************************************************************)

\* Whom the invoice is assigned to when named is asked for: nobody, one
\* member, or a refusal.
Assignments(actor, org, named) ==
    LET member == IF named = None /\ actor.role = "MEMBER" THEN actor.id ELSE named
    IN  IF member = None THEN {None}
        ELSE {u \in {member} :
                /\ users[u].role = "MEMBER" /\ users[u].org = org
                /\ actor.role = "MEMBER" => u = actor.id
                /\ actor.role = "ADMIN" => users[u].admin = actor.id}

NewRow(u, d, assignee) ==
    [org |-> CustomerRow[d.customer].org, creator |-> u, assignee |-> assignee,
     customer |-> d.customer, status |-> "DRAFT", mail |-> "NOT_SENT", total |-> d.total,
     paid |-> 0, currency |-> d.currency, date |-> d.date, due |-> d.due]

\* createInvoiceAccount, up to its insert.
Insert(i, u, d, requested, named) ==
    LET actor == AsActor(users, u)
        org == CustomerRow[d.customer].org
    IN  /\ ~Exists(i)
        /\ org \in ManagedOrganizations(actor, requested, [o \in Orgs |-> TRUE])
        /\ CustomerInScope(users, actor, CustomerRow[d.customer])
        /\ \E assignee \in Assignments(actor, org, named) :
              Write(i, NewRow(u, d, assignee))
        /\ UNCHANGED <<users, payments, today, overlaps>>

CreateInvoice(i, u) ==
    /\ May(u, "CREATE")
    /\ \E d \in Drafts, requested \in Orgs \cup {None}, named \in Users \cup {None} :
          Insert(i, u, d, requested, named)

DuplicateInvoice(i, u, original) ==
    /\ May(u, "CREATE") /\ Opens(u, original)
    /\ LET row == invoices[original]
       IN  Insert(i, u, [customer |-> row.customer, total |-> row.total, date |-> today,
                         due |-> today + 14, currency |-> row.currency], row.org, None)

\* Every invoice was a draft once.  It keeps its organization and its creator.
EditInvoice(i, u) ==
    LET row == invoices[i]
        actor == AsActor(users, u)
    IN  /\ May(u, "UPDATE") /\ Opens(u, i)
        /\ \E d \in Drafts, named \in Users \cup {None} :
              /\ CustomerRow[d.customer].org = row.org
              /\ d.customer # row.customer => CustomerInScope(users, actor, CustomerRow[d.customer])
              /\ \E assignee \in Assignments(actor, row.org, named) :
                    Write(i, [NewRow(row.creator, d, assignee) EXCEPT
                                  !.status = row.status, !.paid = row.paid, !.mail = row.mail])
        /\ InTime(i, {"DRAFT"}, {i})
        /\ UNCHANGED <<users, payments, today>>

\* Only a payment keeps the row.
DeleteInvoice(i, u) ==
    /\ May(u, "DELETE") /\ Opens(u, i) /\ PaymentsOf(i) = {}
    /\ invoices' = [invoices EXCEPT ![i] = NoInvoice]
    /\ viewable' = viewable \ {i} /\ payable' = payable \ {i}
    /\ restated' = restated \ {i} /\ parted' = parted \ {i}
    /\ UNCHANGED <<users, payments, today, disturbances>>

-----------------------------------------------------------------------------
(***************************************************************************)
(* Sending, viewing, cancelling.                                           *)
(***************************************************************************)

\* The mail goes out, and issues the invoice if it was read as a draft, or
\* fails; by then the invoice may be cancelled, which only the request asks.
SendInvoice(i, u) ==
    LET row == invoices[i]
    IN  /\ May(u, "SEND") /\ Opens(u, i)
        /\ \/ /\ Write(i, [row EXCEPT !.mail = "FAILED"])
              /\ Disturb({}, {})
           \/ /\ row.status # "DRAFT"
              /\ Write(i, [row EXCEPT !.mail = "SENT"])
              /\ UNCHANGED overlaps
           \/ /\ Write(i, [row EXCEPT !.status = "SENT", !.mail = "SENT"])
              /\ InTime(i, {"DRAFT", "SENT"}, {})
        /\ UNCHANGED <<users, payments, today>>

ViewInvoice(i) ==
    LET row == invoices[i]
    IN  /\ i \in viewable
        /\ Write(i, [row EXCEPT !.status = "VIEWED"])
        /\ InTime(i, {"SENT", "VIEWED"}, {})
        /\ UNCHANGED <<users, payments, today>>

\* A draft may be cancelled, and every invoice was one.
CancelInvoice(i, u) ==
    LET row == invoices[i]
    IN  /\ May(u, "UPDATE") /\ Opens(u, i)
        /\ Write(i, [row EXCEPT !.status = "CANCELLED"])
        /\ InTime(i, CancellableStatuses \cup {"CANCELLED"}, {})
        /\ UNCHANGED <<users, payments, today>>

-----------------------------------------------------------------------------
(***************************************************************************)
(* Paying.  Any payment may be a provider's, which may fail or be refunded *)
(* after it was completed.                                                 *)
(***************************************************************************)

\* Slip: a payment is recorded without the invoice's amount.
AmountForgotten(i, amount) == Amounts(Completed(i))

PaidAfter(i, amount) == Amounts(Completed(i)) + amount

\* The transaction that records an amount beside the rows of rest.
Settle(i, amount, rest, nr) ==
    LET row == invoices[i]
        paid == Amounts(Completed(i)) + amount
    IN  /\ paid <= row.total
        /\ payments' = rest \cup
              {[invoice |-> i, nr |-> nr, org |-> row.org, currency |-> row.currency,
                amount |-> amount, day |-> today, status |-> "COMPLETED"]}
        /\ Write(i, [row EXCEPT !.paid = PaidAfter(i, amount), !.status = SettledStatus(paid, row.total)])
        /\ UNCHANGED <<users, today, overlaps>>

\* A manual payment or one of a provider.
RecordPayment(i) ==
    /\ i \in payable
    /\ Cardinality(payments) < MaxPayments
    /\ \E amount \in 1 .. invoices[i].total :
          Settle(i, amount, payments, Cardinality(PaymentsOf(i)) + 1)

\* The provider reports the money of a row that is not COMPLETED any more.
CompleteAgain(p) ==
    /\ p.status # "COMPLETED"
    /\ Settle(p.invoice, p.amount, payments \ {p}, p.nr)

Restatus(p, status) == payments' = (payments \ {p}) \cup {[p EXCEPT !.status = status]}

\* A refusal of the provider, written over what the row has become.
FailPayment(p) ==
    /\ p.status # "FAILED"
    /\ Restatus(p, "FAILED")
    /\ Disturb({}, IF p.status = "COMPLETED" THEN {p.invoice} ELSE {})
    /\ UNCHANGED <<users, invoices, today, checks>>

StatusAfterRefund(sum, was, total) ==
    IF sum > 0 THEN SettledStatus(sum, total)
    ELSE IF was \in {"PAID", "PARTIALLY_PAID"} THEN "SENT" ELSE was

(***************************************************************************)
(* The transaction of a refund reads the invoice and sums without locking  *)
(* it.  In between, payments may have been completed, which are newer, and *)
(* others undone: then the sum is an old one, of an invoice that was paid. *)
(***************************************************************************)
RefundPayment(p) ==
    LET i == p.invoice
        row == invoices[i]
        refunded(sum, was) ==
            Write(i, [row EXCEPT !.paid = sum, !.status = StatusAfterRefund(sum, was, row.total)])
    IN  /\ p.status # "REFUNDED"
        /\ Restatus(p, "REFUNDED")
        /\ \/ /\ refunded(Amounts(Completed(i) \ {p}), row.status)
              /\ Disturb({}, {})
           \/ \E new \in SUBSET {q \in Completed(i) : q.nr > p.nr},
                 undone \in SUBSET (PaymentsOf(i) \ (Completed(i) \cup {p})) :
                 /\ new \cup undone # {}
                 /\ refunded(Amounts(((Completed(i) \ {p}) \ new) \cup undone), "PAID")
                 /\ Disturb({i}, {i})
        /\ UNCHANGED <<users, today>>

-----------------------------------------------------------------------------
\* An administrator is given another organization; its members stay.
MoveAdministrator(u) ==
    /\ users[u].role = "ADMIN"
    /\ \E o \in Orgs \ {users[u].org} : users' = [users EXCEPT ![u].org = o]
    /\ Disturb({}, {})
    /\ UNCHANGED <<invoices, payments, today, checks>>

NextDay ==
    /\ today < LastDay
    /\ today' = today + 1
    /\ UNCHANGED <<users, invoices, payments, checks, overlaps>>

Init ==
    /\ users = InitialDirectory
    /\ invoices = [i \in Invoices |-> NoInvoice]
    /\ payments = {}
    /\ today = FirstDay
    /\ viewable = {} /\ payable = {}
    /\ restated = {} /\ parted = {} /\ disturbances = 0

Next ==
    \/ NextDay
    \/ \E i \in Invoices : ViewInvoice(i) \/ RecordPayment(i)
    \/ \E p \in payments : CompleteAgain(p) \/ FailPayment(p) \/ RefundPayment(p)
    \/ \E u \in Users : MoveAdministrator(u)
    \/ \E i \in Invoices, u \in Users :
          \/ CreateInvoice(i, u) \/ EditInvoice(i, u) \/ DeleteInvoice(i, u)
          \/ SendInvoice(i, u) \/ CancelInvoice(i, u)
          \/ \E original \in Invoices : DuplicateInvoice(i, u, original)

Spec == Init /\ [][Next]_vars

-----------------------------------------------------------------------------
TypeOK ==
    /\ users \in [Users -> UserRow]
    /\ invoices \in [Invoices -> Row]
    /\ payments \subseteq Payment
    /\ today \in FirstDay .. LastDay
    /\ viewable \subseteq Invoices /\ payable \subseteq Invoices
    /\ restated \subseteq Invoices /\ parted \subseteq Invoices /\ disturbances \in 0 .. MaxDisturbances

=============================================================================
