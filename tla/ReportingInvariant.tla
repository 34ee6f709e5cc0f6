------------------------- MODULE ReportingInvariant -------------------------
(***************************************************************************)
(* Why the figures of Reporting agree: what the books themselves keep.     *)
(*                                                                         *)
(* Every figure is counted or summed from rows that carry copies of what   *)
(* other rows say: a payment its invoice's organization and currency, an   *)
(* invoice what its payments add up to.  Figures agree since the copies    *)
(* do, where no late write came between them.                              *)
(***************************************************************************)
EXTENDS Reporting

Existing == {i \in Invoices : Exists(i)}

\* What every row says, however late it was written.  What was sent or may
\* be paid was mailed, but the mail may have been repeated and have failed.
RowSound(i) ==
    LET row == invoices[i]
    IN  /\ row.org \in Orgs /\ row.creator \in Users
        /\ row.customer \in Customers /\ row.currency \in Currencies
        /\ row.date <= LastDay + 14 /\ row.due <= LastDay + 14
        /\ row.status # "OVERDUE"
        /\ row.status = "DRAFT" => i \notin viewable \cup payable
        /\ row.status \notin {"DRAFT", "CANCELLED"} \/ i \in viewable \cup payable =>
              row.mail # "NOT_SENT"

\* The status says how much was paid.
StatusFits(row) ==
    /\ row.status \in {"DRAFT", "SENT", "VIEWED", "CANCELLED"} => row.paid = 0
    /\ row.status = "PARTIALLY_PAID" => row.paid \in 1 .. row.total - 1
    /\ row.status = "PAID" => row.paid = row.total

\* What is paid is what came in.
AmountFits(i) ==
    /\ invoices[i].paid = Amounts(Completed(i))
    /\ \A p \in PaymentsOf(i) : p.currency = invoices[i].currency

PaymentSound(p) ==
    /\ Exists(p.invoice) /\ p.invoice \in payable
    /\ p.org = invoices[p.invoice].org /\ p.day <= LastDay

\* The payments on one invoice are numbered without gaps.
Numbered(i) ==
    /\ \A p \in PaymentsOf(i) : p.nr \in 1 .. Cardinality(PaymentsOf(i))
    /\ \A p, q \in PaymentsOf(i) : p.nr = q.nr => p = q

IInv ==
    /\ TypeOK
    /\ IsFiniteSet(Existing) /\ IsFiniteSet(payments)
    /\ \A u \in Users : users[u].role \in {"ADMIN", "MEMBER"} => users[u].org \in Orgs
    /\ viewable \cup payable \subseteq Existing
    /\ \A i \in Existing : RowSound(i)
    /\ \A i \in Existing \ restated :
          StatusFits(invoices[i]) /\ Amounts(Completed(i)) <= invoices[i].total
    /\ \A i \in Existing \ parted : AmountFits(i)
    /\ \A p \in payments : PaymentSound(p)
    /\ \A i \in Invoices : Numbered(i)

-----------------------------------------------------------------------------
(***************************************************************************)
(* The books keep what the figures rest on, their types included; every    *)
(* invoice is in one column of the board of listInvoices, and its views    *)
(* show what its column says (toInvoiceView).                              *)
(***************************************************************************)
BoardAgrees ==
    /\ IInv
    /\ BoardIsComplete
    /\ ViewsAgree

(***************************************************************************)
(* The counts of the dashboard, the overview and the reports agree, and    *)
(* the lists of new and of old customers make up the list of all.          *)
(***************************************************************************)
CountsMakeUp ==
    /\ CountsAgree
    /\ CustomersSplit

(***************************************************************************)
(* No row falls between two periods of a series (buildMoneySeries,         *)
(* buildCountSeries, bucketAmounts), and every preset of resolveDateRange  *)
(* fits every day of a year.                                               *)
(***************************************************************************)
PeriodsHold ==
    /\ SeriesAddUp
    /\ CalendarHolds

=============================================================================
