-------------------------- MODULE ReportingProofs ---------------------------
(***************************************************************************)
(* What Reporting shows agrees with itself and with what may be opened, for *)
(* any number of users, organizations, invoices, customers, currencies and *)
(* expenses, and any calendar.                                             *)
(***************************************************************************)
EXTENDS ReportingInvariant, UnitSumsProofs

(***************************************************************************)
(* The books keep IInv.                                                    *)
(***************************************************************************)
LEMMA NoInvoiceIsRow == NoInvoice \in Row
BY DEF NoInvoice, Row, MailStatuses

LEMMA NoAmounts == Amounts({}) = 0
BY SumEmpty DEF Amounts, SumOver

LEMMA BooksOpen == Init => IInv
<1> SUFFICES ASSUME Init PROVE IInv
  OBVIOUS
<1>1. invoices \in [Invoices -> Row] /\ payments = {} /\ users \in [Users -> UserRow]
  BY NoInvoiceIsRow, BooksAssumption DEF Init
<1>2. Existing = {} /\ \A i \in Invoices : PaymentsOf(i) = {}
  BY <1>1 DEF Init, Exists, NoInvoice, Existing, PaymentsOf
<1>3. today \in FirstDay .. LastDay /\ disturbances \in 0 .. MaxDisturbances
  BY BooksAssumption DEF Init
<1>4. viewable = {} /\ payable = {} /\ restated = {} /\ parted = {}
  BY DEF Init
<1>5. TypeOK
  BY <1>1, <1>3, <1>4 DEF TypeOK
<1>6. \A u \in Users : users[u].role \in {"ADMIN", "MEMBER"} => users[u].org \in Orgs
  BY BooksAssumption DEF Init
<1>7. IsFiniteSet(Existing) /\ IsFiniteSet(payments)
  BY <1>1, <1>2, FS_EmptySet
<1>8. \A i \in Invoices : Numbered(i)
  BY <1>2 DEF Numbered
<1> QED
  BY <1>1, <1>2, <1>4, <1>5, <1>6, <1>7, <1>8 DEF IInv

\* The marks that late writes leave are only added to.
Marked ==
    /\ restated \subseteq restated' /\ restated' \subseteq Invoices
    /\ parted \subseteq parted' /\ parted' \subseteq Invoices
    /\ disturbances' \in 0 .. MaxDisturbances

LEMMA MarksAdded ==
    ASSUME IInv, NEW S \in SUBSET Invoices, NEW T \in SUBSET Invoices,
           Disturb(S, T) \/ UNCHANGED overlaps
    PROVE  Marked
BY BooksAssumption DEF Marked, Disturb, overlaps, IInv, TypeOK

\* Requests that may have read the invoice are only added to, but for i.
Seen(i) ==
    /\ viewable \subseteq viewable' /\ viewable' \subseteq viewable \cup {i}
    /\ payable \subseteq payable' /\ payable' \subseteq payable \cup {i}

\* What is to be shown of an invoice whose row or payments were written.
LEMMA InvoiceWritten ==
    ASSUME IInv, NEW i \in Invoices, NEW row \in Row, row.status # "NONE",
           invoices' = [invoices EXCEPT ![i] = row], UNCHANGED <<users, today>>,
           Marked, Seen(i),
           payments' \subseteq Payment, IsFiniteSet(payments'),
           \A j \in Invoices \ {i} : PaymentsOf(j)' = PaymentsOf(j),
           RowSound(i)',
           i \notin restated' => StatusFits(row) /\ Amounts(Completed(i)') <= row.total,
           i \notin parted' => AmountFits(i)',
           \A p \in PaymentsOf(i)' : i \in payable' /\ p.org = row.org /\ p.day <= LastDay,
           Numbered(i)'
    PROVE  IInv'
<1>1. /\ invoices' \in [Invoices -> Row] /\ invoices'[i] = row
      /\ \A j \in Invoices \ {i} : invoices'[j] = invoices[j]
  BY DEF IInv, TypeOK
<1>2. TypeOK'
  BY <1>1 DEF IInv, TypeOK, Marked, Seen
<1>3. Existing' = Existing \cup {i}
  BY <1>1 DEF Existing, Exists
<1>4. IsFiniteSet(Existing') /\ viewable' \cup payable' \subseteq Existing'
  BY <1>3, FS_AddElement DEF IInv, Seen
<1>5. \A j \in Existing' : RowSound(j)'
  <2> SUFFICES ASSUME NEW j \in Existing \ {i} PROVE RowSound(j)'
    BY <1>3
  <2>1. j \in Invoices /\ RowSound(j) /\ invoices'[j] = invoices[j]
    BY <1>1 DEF IInv, Existing
  <2>2. j \in viewable' \cup payable' <=> j \in viewable \cup payable
    BY DEF Seen
  <2> QED
    BY <2>1, <2>2 DEF RowSound
<1>6. ASSUME NEW j \in Invoices \ {i} PROVE Completed(j)' = Completed(j)
  BY DEF Completed
<1>7. \A j \in Existing' \ restated' : StatusFits(invoices'[j]) /\ Amounts(Completed(j)') <= invoices'[j].total
  <2> SUFFICES ASSUME NEW j \in Existing \ restated', j # i
               PROVE StatusFits(invoices'[j]) /\ Amounts(Completed(j)') <= invoices'[j].total
    BY <1>1, <1>3
  <2> QED
    BY <1>1, <1>6 DEF IInv, Existing, Marked
<1>8. \A j \in Existing' \ parted' : AmountFits(j)'
  <2> SUFFICES ASSUME NEW j \in Existing \ parted', j # i PROVE AmountFits(j)'
    BY <1>3
  <2>1. j \in Invoices /\ AmountFits(j)
    BY DEF IInv, Existing, Marked
  <2> QED
    BY <1>1, <1>6, <2>1 DEF AmountFits
<1>9. \A p \in payments' : PaymentSound(p)'
  <2> SUFFICES ASSUME NEW p \in payments' PROVE PaymentSound(p)'
    OBVIOUS
  <2>1. CASE p.invoice = i
    BY <1>1, <2>1 DEF PaymentSound, PaymentsOf, Exists
  <2>2. CASE p.invoice # i
    <3>1. p.invoice \in Invoices \ {i} /\ p \in PaymentsOf(p.invoice)'
      BY <2>2 DEF Payment, PaymentsOf
    <3>2. p \in payments /\ PaymentSound(p)
      BY <3>1 DEF PaymentsOf, IInv
    <3> QED
      BY <1>1, <3>1, <3>2 DEF PaymentSound, Exists, Seen
  <2> QED
    BY <2>1, <2>2
<1>10. \A j \in Invoices : Numbered(j)'
  BY DEF IInv, Numbered
<1>11. \A u \in Users : users'[u].role \in {"ADMIN", "MEMBER"} => users'[u].org \in Orgs
  BY DEF IInv
<1> QED
  BY <1>2, <1>4, <1>5, <1>7, <1>8, <1>9, <1>10, <1>11 DEF IInv

\* The amounts of some of an invoice's payments.
LEMMA PaymentsOfFinite ==
    ASSUME IInv, NEW i \in Invoices
    PROVE  /\ IsFiniteSet(PaymentsOf(i)) /\ Cardinality(PaymentsOf(i)) \in Nat
           /\ IsFiniteSet(Completed(i)) /\ Completed(i) \subseteq PaymentsOf(i)
           /\ PaymentsOf(i) \subseteq Payment
           /\ \A p \in PaymentsOf(i) : p.invoice = i /\ p \in payments
<1>1. PaymentsOf(i) \subseteq payments /\ Completed(i) \subseteq PaymentsOf(i)
  BY DEF PaymentsOf, Completed
<1>2. IsFiniteSet(PaymentsOf(i)) /\ IsFiniteSet(Completed(i))
  BY <1>1, FS_Subset DEF IInv
<1>3. payments \subseteq Payment
  BY DEF IInv, TypeOK
<1> QED
  BY <1>1, <1>2, <1>3, FS_CardinalityType DEF PaymentsOf

LEMMA AmountsOfSome ==
    ASSUME IInv, NEW i \in Invoices, NEW S \in SUBSET PaymentsOf(i)
    PROVE  IsFiniteSet(S) /\ Amounts(S) \in Nat
<1>1. IsFiniteSet(S) /\ \A p \in S : p.amount \in Nat
  BY PaymentsOfFinite, FS_Subset DEF Payment
<1>2. SumOf([p \in S |-> p.amount], S) \in Nat
  BY <1>1, SumNat
<1> QED
  BY <1>1, <1>2 DEF Amounts, SumOver

LEMMA AmountsOfFewer ==
    ASSUME IInv, NEW i \in Invoices, NEW S \in SUBSET PaymentsOf(i), NEW T \in SUBSET S
    PROVE  Amounts(T) <= Amounts(S)
<1> DEFINE f == [p \in S |-> p.amount]
           g == [p \in T |-> p.amount]
<1>1. IsFiniteSet(S) /\ \A p \in S : p.amount \in Nat
  BY PaymentsOfFinite, FS_Subset DEF Payment
<1>2. SumOf(g, T) <= SumOf(f, S)
  <2>1. \A p \in S : f[p] \in Nat
    BY <1>1
  <2>2. \A p \in T : g[p] = f[p]
    OBVIOUS
  <2> HIDE DEF f, g
  <2> QED
    BY <1>1, <2>1, <2>2, SumShrink
<1> QED
  BY <1>2 DEF Amounts, SumOver

LEMMA AmountAdded ==
    ASSUME NEW S, IsFiniteSet(S), NEW q, q \notin S, \A p \in S \cup {q} : p.amount \in Nat
    PROVE  Amounts(S \cup {q}) = Amounts(S) + q.amount
<1> DEFINE f == [p \in S |-> p.amount]
           g == [p \in S \cup {q} |-> p.amount]
<1>1. SumOf(g, S \cup {q}) = SumOf(g, S) + g[q]
  BY SumAdd
<1>2. SumOf(g, S) = SumOf(f, S)
  BY SumSame
<1> QED
  BY <1>1, <1>2 DEF Amounts, SumOver

(***************************************************************************)
(* Rows that are written while payments stay.                              *)
(***************************************************************************)
\* What RowSound asks of a row that takes the place of i's.
RowIsSound(i, row) ==
    /\ row.org \in Orgs /\ row.creator \in Users
    /\ row.customer \in Customers /\ row.currency \in Currencies
    /\ row.date <= LastDay + 14 /\ row.due <= LastDay + 14
    /\ row.status \in InvoiceStatuses \ {"OVERDUE"}
    /\ row.status = "DRAFT" => i \notin viewable \cup payable
    /\ row.mail # "NOT_SENT" \/ (row.status \in {"DRAFT", "CANCELLED"} /\ i \notin viewable \cup payable)

LEMMA SoundRow ==
    ASSUME IInv, NEW i \in Existing
    PROVE  /\ i \in Invoices /\ invoices[i] \in Row
           /\ RowIsSound(i, invoices[i])
BY DEF IInv, TypeOK, Existing, Exists, Row, RowSound, RowIsSound

LEMMA WrittenIsSeen ==
    ASSUME IInv, NEW i \in Invoices, NEW row \in Row, Write(i, row), RowIsSound(i, row)
    PROVE  Seen(i) /\ RowSound(i)'
<1>1. Seen(i)
  BY DEF Write, Seen
<1>2. invoices'[i] = row
  BY DEF Write, IInv, TypeOK
<1>3. row.status \in {"DRAFT", "CANCELLED"} =>
         (i \in viewable' \cup payable' <=> i \in viewable \cup payable)
  BY DEF Write, DeriveInvoiceStatus, CanRecordPayment, PayableStatuses
<1> QED
  BY <1>1, <1>2, <1>3 DEF RowSound, RowIsSound

LEMMA RowRewritten ==
    ASSUME IInv, NEW i \in Invoices, NEW row \in Row, Write(i, row), RowIsSound(i, row),
           UNCHANGED <<users, payments, today>>, Marked,
           PaymentsOf(i) # {} => row.org = invoices[i].org,
           i \notin restated' => StatusFits(row) /\ Amounts(Completed(i)) <= row.total,
           i \notin parted' => /\ row.paid = Amounts(Completed(i))
                               /\ \A p \in PaymentsOf(i) : p.currency = row.currency
    PROVE  IInv'
<1>1. /\ row.status # "NONE" /\ invoices' = [invoices EXCEPT ![i] = row] /\ invoices'[i] = row
      /\ Seen(i) /\ RowSound(i)'
  BY WrittenIsSeen DEF Write, RowIsSound, InvoiceStatuses, IInv, TypeOK
<1>2. \A j \in Invoices : PaymentsOf(j)' = PaymentsOf(j) /\ Completed(j)' = Completed(j)
  BY DEF PaymentsOf, Completed
<1>3. payments' \subseteq Payment /\ IsFiniteSet(payments')
  BY DEF IInv, TypeOK
<1>4. i \notin restated' => StatusFits(row) /\ Amounts(Completed(i)') <= row.total
  BY <1>2
<1>5. i \notin parted' => AmountFits(i)'
  BY <1>1, <1>2 DEF AmountFits
<1>6. \A p \in PaymentsOf(i)' : i \in payable' /\ p.org = row.org /\ p.day <= LastDay
  <2> SUFFICES ASSUME NEW p \in PaymentsOf(i) PROVE i \in payable' /\ p.org = row.org /\ p.day <= LastDay
    BY <1>2
  <2>1. p \in payments /\ p.invoice = i /\ PaymentSound(p)
    BY DEF PaymentsOf, IInv
  <2> QED
    BY <1>1, <2>1 DEF PaymentSound, Seen
<1>7. Numbered(i)'
  BY <1>2 DEF IInv, Numbered
<1> QED
  BY <1>1, <1>2, <1>3, <1>4, <1>5, <1>6, <1>7, InvoiceWritten

LEMMA NothingPaidYet ==
    ASSUME IInv, NEW i \in Invoices, i \notin payable
    PROVE  PaymentsOf(i) = {} /\ Completed(i) = {} /\ Amounts(Completed(i)) = 0
<1>1. PaymentsOf(i) = {}
  BY DEF IInv, PaymentSound, PaymentsOf
<1> QED
  BY <1>1, NoAmounts DEF Completed

LEMMA AssignedIsUser ==
    ASSUME NEW u \in Users, NEW org, NEW named \in Users \cup {None},
           NEW assignee \in Assignments(AsActor(users, u), org, named)
    PROVE  assignee \in Users \cup {None}
BY DEF Assignments, AsActor

\* A row that a draft makes, and what later writes make of it.
LEMMA DraftIsRow ==
    ASSUME NEW creator \in Users, NEW d \in Draft, NEW assignee \in Users \cup {None}
    PROVE  /\ NewRow(creator, d, assignee) \in Row
           /\ NewRow(creator, d, assignee).org = CustomerRow[d.customer].org
           /\ NewRow(creator, d, assignee).org \in Orgs
           /\ NewRow(creator, d, assignee).creator = creator
           /\ NewRow(creator, d, assignee).customer \in Customers
           /\ NewRow(creator, d, assignee).currency \in Currencies
           /\ NewRow(creator, d, assignee).total = d.total
           /\ NewRow(creator, d, assignee).date = d.date
           /\ NewRow(creator, d, assignee).due = d.due
           /\ NewRow(creator, d, assignee).status = "DRAFT"
           /\ NewRow(creator, d, assignee).paid = 0
           /\ NewRow(creator, d, assignee).mail = "NOT_SENT"
<1>1. /\ d.customer \in Customers /\ d.total \in Nat /\ d.currency \in Currencies
      /\ d.date \in Nat /\ d.due \in Nat
  BY DEF Draft
<1>2. CustomerRow[d.customer].org \in Orgs
  BY <1>1, BooksAssumption
<1> QED
  BY <1>1, <1>2 DEF NewRow, Row, InvoiceStatuses, MailStatuses

Alike(row, other) ==
    /\ row.org = other.org /\ row.creator = other.creator /\ row.customer = other.customer
    /\ row.currency = other.currency /\ row.total = other.total
    /\ row.date = other.date /\ row.due = other.due

LEMMA InsertKeeps ==
    ASSUME IInv, NEW i \in Invoices, NEW u \in Users, NEW d \in Draft,
           d.due <= LastDay + 14, d.date <= LastDay + 14,
           NEW requested, NEW named \in Users \cup {None}, Insert(i, u, d, requested, named)
    PROVE  IInv'
<1>1. PICK assignee \in Assignments(AsActor(users, u), CustomerRow[d.customer].org, named) :
         Write(i, NewRow(u, d, assignee))
  BY DEF Insert
<1>2. assignee \in Users \cup {None}
  BY <1>1, AssignedIsUser
<1> DEFINE row == NewRow(u, d, assignee)
<1>3. /\ row \in Row /\ row.org \in Orgs /\ row.creator = u /\ row.customer \in Customers
      /\ row.currency \in Currencies /\ row.total = d.total /\ row.date = d.date /\ row.due = d.due
      /\ row.status = "DRAFT" /\ row.paid = 0 /\ row.mail = "NOT_SENT"
  BY <1>2, DraftIsRow
<1> HIDE DEF row
<1>6. i \notin viewable \cup payable
  BY DEF Insert, IInv, Existing
<1>7. PaymentsOf(i) = {} /\ Amounts(Completed(i)) = 0
  BY <1>6, NothingPaidYet
<1>8. RowIsSound(i, row)
  BY <1>3, <1>6 DEF RowIsSound, InvoiceStatuses
<1>9. d.total \in Nat
  BY DEF Draft
<1>10. StatusFits(row) /\ Amounts(Completed(i)) <= row.total
  BY <1>3, <1>7, <1>9 DEF StatusFits
<1>11. Marked
  BY MarksAdded DEF Insert
<1>12. UNCHANGED <<users, payments, today>> /\ Write(i, row)
  BY <1>1 DEF Insert, row
<1> QED
  BY <1>3, <1>7, <1>8, <1>10, <1>11, <1>12, RowRewritten

LEMMA DraftDates ==
    ASSUME NEW d \in Drafts
    PROVE  d \in Draft /\ d.date <= LastDay + 14 /\ d.due <= LastDay + 14
<1>1. d \in Draft /\ d.date <= d.due /\ d.due <= LastDay + 14
  BY BooksAssumption, DatesAssumption
<1>2. d.date \in Nat /\ d.due \in Nat /\ LastDay \in Nat
  BY <1>1, BooksAssumption DEF Draft
<1> QED
  BY <1>1, <1>2

LEMMA CreateKeeps ==
    ASSUME IInv, NEW i \in Invoices, NEW u \in Users, CreateInvoice(i, u)
    PROVE  IInv'
<1>1. PICK d \in Drafts, requested \in Orgs \cup {None}, named \in Users \cup {None} :
         Insert(i, u, d, requested, named)
  BY DEF CreateInvoice
<1> QED
  BY <1>1, DraftDates, InsertKeeps

LEMMA DuplicateKeeps ==
    ASSUME IInv, NEW i \in Invoices, NEW u \in Users, NEW original \in Invoices,
           DuplicateInvoice(i, u, original)
    PROVE  IInv'
<1> DEFINE row == invoices[original]
           d == [customer |-> row.customer, total |-> row.total, date |-> today,
                 due |-> today + 14, currency |-> row.currency]
<1>1. original \in Existing
  BY DEF DuplicateInvoice, Opens, Existing
<1>2. row.customer \in Customers /\ row.currency \in Currencies /\ row.total \in Nat
  BY <1>1, SoundRow DEF RowIsSound, Row
<1>3. today \in Nat /\ today <= LastDay /\ LastDay \in Nat
  BY BooksAssumption DEF IInv, TypeOK
<1>4. d \in Draft /\ d.date <= LastDay + 14 /\ d.due <= LastDay + 14
  BY <1>2, <1>3 DEF Draft
<1>5. Insert(i, u, d, row.org, None)
  BY DEF DuplicateInvoice
<1> HIDE DEF d, row
<1> QED
  BY <1>4, <1>5, InsertKeeps

LEMMA EditKeeps ==
    ASSUME IInv, NEW i \in Invoices, NEW u \in Users, EditInvoice(i, u)
    PROVE  IInv'
<1> DEFINE old == invoices[i]
<1>1. i \in Existing
  BY DEF EditInvoice, Opens, Existing
<1>2. PICK d \in Drafts, named \in Users \cup {None} :
         /\ CustomerRow[d.customer].org = old.org
         /\ \E assignee \in Assignments(AsActor(users, u), old.org, named) :
               Write(i, [NewRow(old.creator, d, assignee) EXCEPT
                             !.status = old.status, !.paid = old.paid, !.mail = old.mail])
  BY DEF EditInvoice
<1>3. PICK assignee \in Assignments(AsActor(users, u), old.org, named) :
         Write(i, [NewRow(old.creator, d, assignee) EXCEPT
                       !.status = old.status, !.paid = old.paid, !.mail = old.mail])
  BY <1>2
<1>4. assignee \in Users \cup {None}
  BY AssignedIsUser
<1>5. d \in Draft /\ d.date <= LastDay + 14 /\ d.due <= LastDay + 14 /\ d.total \in Nat
  BY DraftDates DEF Draft
<1>6. /\ old.creator \in Users /\ old.status \in InvoiceStatuses \ {"OVERDUE"} /\ old.paid \in Nat
      /\ old.mail \in MailStatuses /\ RowIsSound(i, old)
  BY <1>1, SoundRow DEF RowIsSound, Row
<1> DEFINE row == [NewRow(old.creator, d, assignee) EXCEPT
                       !.status = old.status, !.paid = old.paid, !.mail = old.mail]
<1>7. UNCHANGED <<users, payments, today>> /\ InTime(i, {"DRAFT"}, {i}) /\ Write(i, row)
  BY <1>3 DEF EditInvoice
<1>8. /\ row \in Row /\ row.org = old.org /\ row.org \in Orgs /\ row.creator = old.creator
      /\ row.customer \in Customers /\ row.currency \in Currencies /\ row.total = d.total
      /\ row.date = d.date /\ row.due = d.due
      /\ row.status = old.status /\ row.paid = old.paid /\ row.mail = old.mail
  <2> DEFINE new == NewRow(old.creator, d, assignee)
  <2>1. /\ new \in Row /\ new.org = old.org /\ new.org \in Orgs /\ new.creator = old.creator
        /\ new.customer \in Customers /\ new.currency \in Currencies /\ new.total = d.total
        /\ new.date = d.date /\ new.due = d.due
    BY <1>2, <1>4, <1>5, <1>6, DraftIsRow
  <2>2. row = [new EXCEPT !.status = old.status, !.paid = old.paid, !.mail = old.mail]
    OBVIOUS
  <2> HIDE DEF old, new, row
  <2>3. /\ row \in Row /\ Alike(row, new)
        /\ row.status = old.status /\ row.paid = old.paid /\ row.mail = old.mail
    BY <1>6, <2>1, <2>2 DEF Row, Alike
  <2> QED
    BY <2>1, <2>3 DEF Alike
<1> HIDE DEF row, old
<1>9. RowIsSound(i, row)
  BY <1>5, <1>6, <1>8 DEF RowIsSound
<1>10. Marked
  BY <1>7, MarksAdded DEF InTime
<1>11. CASE old.status = "DRAFT"
  <2>1. PaymentsOf(i) = {} /\ Amounts(Completed(i)) = 0
    BY <1>6, <1>11, NothingPaidYet DEF RowIsSound
  <2>2. restated' = restated /\ parted' = parted
    BY <1>7, <1>11 DEF InTime, overlaps, old
  <2>3. i \notin restated' => StatusFits(row) /\ Amounts(Completed(i)) <= row.total
    <3>1. i \notin restated' => old.paid = 0
      BY <1>1, <1>11, <2>2 DEF IInv, StatusFits, old
    <3> QED
      BY <1>5, <1>8, <1>11, <2>1, <3>1 DEF StatusFits
  <2>4. i \notin parted' => row.paid = Amounts(Completed(i))
    BY <1>1, <1>8, <2>2 DEF IInv, AmountFits, old
  <2> QED
    BY <1>7, <1>8, <1>9, <1>10, <2>1, <2>3, <2>4, RowRewritten
<1>12. CASE old.status # "DRAFT"
  <2>1. i \in restated' /\ i \in parted'
    BY <1>7, <1>12 DEF InTime, Disturb, old
  <2> QED
    BY <1>7, <1>8, <1>9, <1>10, <2>1, RowRewritten DEF old
<1> QED
  BY <1>11, <1>12

LEMMA DeleteKeeps ==
    ASSUME IInv, NEW i \in Invoices, NEW u \in Users, DeleteInvoice(i, u)
    PROVE  IInv'
<1>1. /\ PaymentsOf(i) = {} /\ UNCHANGED <<users, payments, today, disturbances>>
      /\ viewable' = viewable \ {i} /\ payable' = payable \ {i}
      /\ restated' = restated \ {i} /\ parted' = parted \ {i}
  BY DEF DeleteInvoice
<1>2. /\ invoices' \in [Invoices -> Row] /\ invoices'[i] = NoInvoice
      /\ \A j \in Invoices \ {i} : invoices'[j] = invoices[j]
  BY NoInvoiceIsRow DEF DeleteInvoice, IInv, TypeOK
<1>3. TypeOK'
  BY <1>1, <1>2 DEF IInv, TypeOK
<1>4. Existing' = Existing \ {i}
  BY <1>2 DEF Existing, Exists, NoInvoice
<1>5. IsFiniteSet(Existing') /\ IsFiniteSet(payments')
  BY <1>1, <1>4, FS_Subset DEF IInv
<1>6. viewable' \cup payable' \subseteq Existing'
  BY <1>1, <1>4 DEF IInv
<1>7. \A j : PaymentsOf(j)' = PaymentsOf(j) /\ Completed(j)' = Completed(j)
  BY <1>1 DEF PaymentsOf, Completed
<1>8. \A j \in Existing' : RowSound(j)'
  <2> SUFFICES ASSUME NEW j \in Existing \ {i} PROVE RowSound(j)'
    BY <1>4
  <2>1. RowSound(j) /\ invoices'[j] = invoices[j]
    BY <1>2 DEF IInv, Existing
  <2>2. j \in viewable' \cup payable' <=> j \in viewable \cup payable
    BY <1>1
  <2> QED
    BY <2>1, <2>2 DEF RowSound
<1>9. \A j \in Existing' \ restated' :
         StatusFits(invoices'[j]) /\ Amounts(Completed(j)') <= invoices'[j].total
  <2> SUFFICES ASSUME NEW j \in Existing \ restated, j # i
               PROVE StatusFits(invoices'[j]) /\ Amounts(Completed(j)') <= invoices'[j].total
    BY <1>1, <1>4
  <2> QED
    BY <1>2, <1>7 DEF IInv, Existing
<1>10. \A j \in Existing' \ parted' : AmountFits(j)'
  <2> SUFFICES ASSUME NEW j \in Existing \ parted, j # i PROVE AmountFits(j)'
    BY <1>1, <1>4
  <2>1. AmountFits(j) /\ invoices'[j] = invoices[j]
    BY <1>2 DEF IInv, Existing
  <2> QED
    BY <1>7, <2>1 DEF AmountFits
<1>11. \A p \in payments' : PaymentSound(p)'
  <2> SUFFICES ASSUME NEW p \in payments PROVE PaymentSound(p)'
    BY <1>1
  <2>1. PaymentSound(p) /\ p.invoice \in Invoices \ {i}
    BY <1>1 DEF IInv, TypeOK, Payment, PaymentsOf
  <2> QED
    BY <1>1, <1>2, <2>1 DEF PaymentSound, Exists
<1>12. \A j \in Invoices : Numbered(j)'
  BY <1>7 DEF IInv, Numbered
<1>13. \A v \in Users : users'[v].role \in {"ADMIN", "MEMBER"} => users'[v].org \in Orgs
  BY <1>1 DEF IInv
<1> QED
  BY <1>3, <1>5, <1>6, <1>8, <1>9, <1>10, <1>11, <1>12, <1>13 DEF IInv

\* A write of nothing but the status of the invoice and of its mail.
LEMMA StatusWritten ==
    ASSUME IInv, NEW i \in Existing, NEW row \in Row, Write(i, row),
           Alike(row, invoices[i]), row.paid = invoices[i].paid,
           UNCHANGED <<users, payments, today>>, Marked,
           row.status \in InvoiceStatuses \ {"OVERDUE"},
           row.status = "DRAFT" => invoices[i].status = "DRAFT",
           row.mail # "NOT_SENT" \/ (row.status \in {"DRAFT", "CANCELLED"} /\ i \notin viewable \cup payable),
           i \notin restated' => StatusFits(row)
    PROVE  IInv'
<1>1. i \in Invoices /\ RowIsSound(i, invoices[i])
  BY SoundRow
<1>2. RowIsSound(i, row)
  BY <1>1 DEF RowIsSound, Alike
<1>3. i \notin restated' => Amounts(Completed(i)) <= row.total
  BY <1>1 DEF IInv, Marked, Alike
<1>4. i \notin parted' => /\ row.paid = Amounts(Completed(i))
                          /\ \A p \in PaymentsOf(i) : p.currency = row.currency
  BY <1>1 DEF IInv, Marked, Alike, AmountFits
<1>5. row.org = invoices[i].org
  BY DEF Alike
<1> QED
  BY <1>1, <1>2, <1>3, <1>4, <1>5, RowRewritten

LEMMA SendKeeps ==
    ASSUME IInv, NEW i \in Invoices, NEW u \in Users, SendInvoice(i, u)
    PROVE  IInv'
<1> DEFINE old == invoices[i]
<1>1. i \in Existing /\ UNCHANGED <<users, payments, today>>
  BY DEF SendInvoice, Opens, Existing
<1>2. old \in Row /\ RowIsSound(i, old) /\ (i \notin restated => StatusFits(old))
  BY <1>1, SoundRow DEF IInv
<1>3. CASE Write(i, [old EXCEPT !.mail = "FAILED"]) /\ Disturb({}, {})
  <2> DEFINE row == [old EXCEPT !.mail = "FAILED"]
  <2>1. /\ row \in Row /\ Alike(row, old) /\ row.paid = old.paid
        /\ row.status = old.status /\ row.mail = "FAILED"
    BY <1>2 DEF Row, Alike, MailStatuses
  <2>2. Marked
    BY <1>3, MarksAdded
  <2>3. Write(i, row)
    BY <1>3
  <2> HIDE DEF row
  <2>4. i \notin restated' => StatusFits(row)
    BY <1>2, <2>1, <2>2 DEF StatusFits, Marked, Alike
  <2>5. row.status \in InvoiceStatuses \ {"OVERDUE"}
    BY <1>2, <2>1 DEF RowIsSound
  <2> QED
    BY <1>1, <2>1, <2>2, <2>3, <2>4, <2>5, StatusWritten
<1>4. CASE old.status # "DRAFT" /\ Write(i, [old EXCEPT !.mail = "SENT"]) /\ UNCHANGED overlaps
  <2> DEFINE row == [old EXCEPT !.mail = "SENT"]
  <2>1. /\ row \in Row /\ Alike(row, old) /\ row.paid = old.paid
        /\ row.status = old.status /\ row.mail = "SENT"
    BY <1>2 DEF Row, Alike, MailStatuses
  <2>2. Marked
    BY <1>4, MarksAdded
  <2>3. Write(i, row)
    BY <1>4
  <2> HIDE DEF row
  <2>4. i \notin restated' => StatusFits(row)
    BY <1>2, <2>1, <2>2 DEF StatusFits, Marked, Alike
  <2>5. row.status \in InvoiceStatuses \ {"OVERDUE"}
    BY <1>2, <2>1 DEF RowIsSound
  <2> QED
    BY <1>1, <2>1, <2>2, <2>3, <2>4, <2>5, StatusWritten
<1>5. CASE Write(i, [old EXCEPT !.status = "SENT", !.mail = "SENT"]) /\ InTime(i, {"DRAFT", "SENT"}, {})
  <2> DEFINE row == [old EXCEPT !.status = "SENT", !.mail = "SENT"]
  <2>1. /\ row \in Row /\ Alike(row, old) /\ row.paid = old.paid
        /\ row.status = "SENT" /\ row.mail = "SENT"
    BY <1>2 DEF Row, Alike, MailStatuses, InvoiceStatuses
  <2>2. Marked
    BY <1>5, MarksAdded DEF InTime
  <2>3. Write(i, row)
    BY <1>5
  <2>4. old.status \in {"DRAFT", "SENT"} \/ i \in restated'
    BY <1>5 DEF InTime, Disturb
  <2> HIDE DEF row
  <2>5. i \notin restated' => StatusFits(row)
    BY <1>2, <2>1, <2>2, <2>4 DEF StatusFits, Marked, Row
  <2>6. row.status \in InvoiceStatuses \ {"OVERDUE"}
    BY <2>1 DEF InvoiceStatuses
  <2> QED
    BY <1>1, <2>1, <2>2, <2>3, <2>5, <2>6, StatusWritten
<1> QED
  BY <1>3, <1>4, <1>5 DEF SendInvoice

LEMMA ViewKeeps ==
    ASSUME IInv, NEW i \in Invoices, ViewInvoice(i)
    PROVE  IInv'
<1> DEFINE old == invoices[i]
           row == [old EXCEPT !.status = "VIEWED"]
<1>1. /\ i \in viewable /\ Write(i, row) /\ InTime(i, {"SENT", "VIEWED"}, {})
      /\ UNCHANGED <<users, payments, today>>
  BY DEF ViewInvoice
<1>2. i \in Existing
  BY <1>1 DEF IInv
<1>3. old \in Row /\ RowIsSound(i, old) /\ (i \notin restated => StatusFits(old))
  BY <1>2, SoundRow DEF IInv
<1>4. /\ row \in Row /\ Alike(row, old) /\ row.paid = old.paid
      /\ row.status = "VIEWED" /\ row.mail = old.mail
  BY <1>3 DEF Row, Alike, InvoiceStatuses
<1>5. Marked
  BY <1>1, MarksAdded DEF InTime
<1>6. old.status \in {"SENT", "VIEWED"} \/ i \in restated'
  BY <1>1 DEF InTime, Disturb
<1> HIDE DEF row
<1>7. i \notin restated' => StatusFits(row)
  BY <1>3, <1>4, <1>5, <1>6 DEF StatusFits, Marked, Row
<1>8. row.status \in InvoiceStatuses \ {"OVERDUE"} /\ row.mail # "NOT_SENT"
  BY <1>1, <1>3, <1>4 DEF InvoiceStatuses, RowIsSound
<1> QED
  BY <1>1, <1>2, <1>4, <1>5, <1>7, <1>8, StatusWritten

LEMMA CancelKeeps ==
    ASSUME IInv, NEW i \in Invoices, NEW u \in Users, CancelInvoice(i, u)
    PROVE  IInv'
<1> DEFINE old == invoices[i]
           row == [old EXCEPT !.status = "CANCELLED"]
<1>1. /\ Write(i, row) /\ InTime(i, CancellableStatuses \cup {"CANCELLED"}, {})
      /\ UNCHANGED <<users, payments, today>> /\ i \in Existing
  BY DEF CancelInvoice, Opens, Existing
<1>2. old \in Row /\ RowIsSound(i, old) /\ (i \notin restated => StatusFits(old))
  BY <1>1, SoundRow DEF IInv
<1>3. /\ row \in Row /\ Alike(row, old) /\ row.paid = old.paid
      /\ row.status = "CANCELLED" /\ row.mail = old.mail
  BY <1>2 DEF Row, Alike, InvoiceStatuses
<1>4. Marked
  BY <1>1, MarksAdded DEF InTime
<1>5. old.status \in {"DRAFT", "SENT", "VIEWED", "OVERDUE", "CANCELLED"} \/ i \in restated'
  BY <1>1 DEF InTime, Disturb, CancellableStatuses
<1> HIDE DEF row
<1>6. i \notin restated' => StatusFits(row)
  BY <1>2, <1>3, <1>4, <1>5 DEF StatusFits, Marked, Row, RowIsSound
<1>7. /\ row.status \in InvoiceStatuses \ {"OVERDUE"}
      /\ row.mail # "NOT_SENT" \/ (row.status \in {"DRAFT", "CANCELLED"} /\ i \notin viewable \cup payable)
  BY <1>2, <1>3 DEF InvoiceStatuses, RowIsSound
<1> QED
  BY <1>1, <1>3, <1>4, <1>6, <1>7, StatusWritten

(***************************************************************************)
(* Payments that are written.                                              *)
(***************************************************************************)
\* Of i's payments only q was written.
OnlyWritten(i, q) ==
    /\ payments' \subseteq Payment /\ IsFiniteSet(payments')
    /\ \A j \in Invoices \ {i} : PaymentsOf(j)' = PaymentsOf(j)
    /\ PaymentsOf(i)' \subseteq PaymentsOf(i) \cup {q}
    /\ Numbered(i)'

LEMMA NumbersKept ==
    ASSUME NEW S, NEW T, IsFiniteSet(S), NEW p \in S, NEW q, T = (S \ {p}) \cup {q},
           q.nr = p.nr, \A x, y \in S : x.nr = y.nr => x = y
    PROVE  /\ \A x, y \in T : x.nr = y.nr => x = y
           /\ q \notin S \ {p} /\ Cardinality(T) = Cardinality(S)
<1>1. q \notin S \ {p}
  OBVIOUS
<1>2. IsFiniteSet(S \ {p}) /\ Cardinality(S \ {p}) = Cardinality(S) - 1
  BY FS_RemoveElement
<1>3. Cardinality(T) = Cardinality(S \ {p}) + 1
  BY <1>1, <1>2, FS_AddElement
<1>4. Cardinality(S) \in Nat
  BY FS_CardinalityType
<1>5. \A x, y \in T : x.nr = y.nr => x = y
  OBVIOUS
<1> QED
  BY <1>1, <1>2, <1>3, <1>4, <1>5

LEMMA PaymentReplaced ==
    ASSUME IInv, NEW p \in payments, NEW q \in Payment, q.invoice = p.invoice, q.nr = p.nr,
           payments' = (payments \ {p}) \cup {q}
    PROVE  /\ OnlyWritten(p.invoice, q)
           /\ PaymentsOf(p.invoice)' = (PaymentsOf(p.invoice) \ {p}) \cup {q}
           /\ q \notin PaymentsOf(p.invoice) \ {p}
<1> DEFINE i == p.invoice
           S == PaymentsOf(i)
           T == PaymentsOf(i)'
<1>1. p \in Payment /\ payments \subseteq Payment /\ i \in Invoices /\ p \in S
  BY DEF IInv, TypeOK, Payment, PaymentsOf
<1>2. T = (S \ {p}) \cup {q}
  BY DEF PaymentsOf
<1>3. \A j \in Invoices \ {i} : PaymentsOf(j)' = PaymentsOf(j)
  BY DEF PaymentsOf
<1>4. IsFiniteSet(payments') /\ payments' \subseteq Payment
  <2>1. IsFiniteSet(payments \ {p})
    BY FS_Subset DEF IInv
  <2> QED
    BY <1>1, <2>1, FS_AddElement
<1>5. /\ \A x \in S : x.nr \in 1 .. Cardinality(S)
      /\ \A x, y \in S : x.nr = y.nr => x = y
  BY <1>1 DEF IInv, Numbered
<1>6. IsFiniteSet(S)
  BY <1>1, PaymentsOfFinite
<1> HIDE DEF i, S, T
<1>7. /\ \A x, y \in T : x.nr = y.nr => x = y
      /\ q \notin S \ {p} /\ Cardinality(T) = Cardinality(S)
  BY <1>1, <1>2, <1>5, <1>6, NumbersKept
<1>8. \A x \in T : x.nr \in 1 .. Cardinality(T)
  BY <1>1, <1>2, <1>5, <1>7
<1>9. Numbered(i)'
  BY <1>7, <1>8 DEF Numbered, T, i
<1> QED
  BY <1>2, <1>3, <1>4, <1>7, <1>9 DEF OnlyWritten, i, S, T

LEMMA PaymentAdded ==
    ASSUME IInv, NEW i \in Invoices, NEW q \in Payment, q.invoice = i,
           q.nr = Cardinality(PaymentsOf(i)) + 1, payments' = payments \cup {q}
    PROVE  OnlyWritten(i, q) /\ PaymentsOf(i)' = PaymentsOf(i) \cup {q} /\ q \notin PaymentsOf(i)
<1>1. PaymentsOf(i)' = PaymentsOf(i) \cup {q}
  BY DEF PaymentsOf
<1>2. \A j \in Invoices \ {i} : PaymentsOf(j)' = PaymentsOf(j)
  BY DEF PaymentsOf
<1>3. payments' \subseteq Payment /\ IsFiniteSet(payments')
  BY FS_AddElement DEF IInv, TypeOK
<1>4. /\ \A x \in PaymentsOf(i) : x.nr \in 1 .. Cardinality(PaymentsOf(i))
      /\ \A x, y \in PaymentsOf(i) : x.nr = y.nr => x = y
  BY DEF IInv, Numbered
<1>5. IsFiniteSet(PaymentsOf(i)) /\ Cardinality(PaymentsOf(i)) \in Nat
  BY PaymentsOfFinite
<1>6. q \notin PaymentsOf(i)
  BY <1>4, <1>5
<1>7. Cardinality(PaymentsOf(i)') = Cardinality(PaymentsOf(i)) + 1
  BY <1>1, <1>5, <1>6, FS_AddElement
<1>8. Numbered(i)'
  <2>1. \A x \in PaymentsOf(i)' : x.nr \in 1 .. Cardinality(PaymentsOf(i)')
    BY <1>1, <1>4, <1>5, <1>7
  <2>2. \A x, y \in PaymentsOf(i)' : x.nr = y.nr => x = y
    BY <1>1, <1>4, <1>5
  <2> QED
    BY <2>1, <2>2 DEF Numbered
<1> QED
  BY <1>1, <1>2, <1>3, <1>6, <1>8 DEF OnlyWritten

\* A settlement, whichever payment it completes.
Settled(i, amount, nr) ==
    [invoice |-> i, nr |-> nr, org |-> invoices[i].org, currency |-> invoices[i].currency,
     amount |-> amount, day |-> today, status |-> "COMPLETED"]

LEMMA SettledIsPayment ==
    ASSUME IInv, NEW i \in payable, NEW amount \in Nat \ {0}, NEW nr \in Nat
    PROVE  Settled(i, amount, nr) \in Payment
<1>1. i \in Existing /\ i \in Invoices
  BY DEF IInv, Existing
<1>2. invoices[i].org \in Orgs /\ invoices[i].currency \in Currencies /\ today \in Nat
  BY <1>1, SoundRow, BooksAssumption DEF IInv, TypeOK, RowIsSound
<1> QED
  BY <1>1, <1>2 DEF Settled, Payment

LEMMA SettleKeeps ==
    ASSUME IInv, NEW i \in payable, NEW amount \in Nat \ {0}, NEW rest, NEW nr,
           Settle(i, amount, rest, nr), OnlyWritten(i, Settled(i, amount, nr)),
           Completed(i)' = Completed(i) \cup {Settled(i, amount, nr)},
           Settled(i, amount, nr) \notin Completed(i)
    PROVE  IInv'
<1> DEFINE old == invoices[i]
           q == Settled(i, amount, nr)
           before == Amounts(Completed(i))
           paid == before + amount
           row == [old EXCEPT !.paid = paid, !.status = SettledStatus(paid, old.total)]
<1>1. i \in Existing /\ i \in Invoices
  BY DEF IInv, Existing
<1>2. old \in Row /\ RowIsSound(i, old)
  BY <1>1, SoundRow
<1>3. /\ paid <= old.total /\ UNCHANGED <<users, today, overlaps>>
      /\ Write(i, row)
  BY DEF Settle, PaidAfter
<1>4. before \in Nat /\ IsFiniteSet(Completed(i)) /\ \A p \in Completed(i) : p.amount \in Nat
  BY <1>1, PaymentsOfFinite, AmountsOfSome DEF Payment
<1>5. q.amount = amount /\ q.org = old.org /\ q.currency = old.currency /\ q.day = today
  BY DEF Settled
<1>6. Amounts(Completed(i)') = paid
  <2> HIDE DEF q
  <2> QED
    BY <1>4, <1>5, AmountAdded DEF q
<1>7. paid \in Nat /\ paid > 0 /\ old.total \in Nat
  BY <1>2, <1>4 DEF Row
<1> HIDE DEF paid, before
<1>8. /\ row \in Row /\ Alike(row, old) /\ row.paid = paid /\ row.mail = old.mail
      /\ row.status = SettledStatus(paid, old.total)
  BY <1>2, <1>7 DEF Row, Alike, SettledStatus, InvoiceStatuses
<1> HIDE DEF row, old, q
<1>9. row.status \in {"PAID", "PARTIALLY_PAID"} /\ StatusFits(row) /\ row.total = old.total
  BY <1>3, <1>7, <1>8 DEF StatusFits, SettledStatus, Alike
<1>10. RowIsSound(i, row) /\ row.status # "NONE"
  BY <1>2, <1>8, <1>9 DEF RowIsSound, Alike, InvoiceStatuses
<1>11. invoices' = [invoices EXCEPT ![i] = row] /\ invoices'[i] = row
  BY <1>1, <1>3 DEF Write, IInv, TypeOK
<1>12. Seen(i) /\ RowSound(i)'
  BY <1>1, <1>3, <1>8, <1>10, WrittenIsSeen
<1>13. Marked
  BY <1>3, MarksAdded
<1>14. Amounts(Completed(i)') <= row.total
  BY <1>3, <1>6, <1>9
<1>15. i \notin parted' => AmountFits(i)'
  <2> SUFFICES ASSUME i \notin parted' PROVE AmountFits(i)'
    OBVIOUS
  <2>1. \A p \in PaymentsOf(i) : p.currency = old.currency
    BY <1>1, <1>13 DEF IInv, AmountFits, Marked, old
  <2>2. \A p \in PaymentsOf(i)' : p.currency = row.currency
    BY <1>5, <1>8, <2>1 DEF OnlyWritten, Alike, q
  <2> QED
    BY <1>6, <1>8, <1>11, <2>2 DEF AmountFits
<1>16. \A p \in PaymentsOf(i)' : i \in payable' /\ p.org = row.org /\ p.day <= LastDay
  <2> SUFFICES ASSUME NEW p \in PaymentsOf(i)'
               PROVE i \in payable' /\ p.org = row.org /\ p.day <= LastDay
    OBVIOUS
  <2>1. i \in payable'
    BY <1>12 DEF Seen
  <2>2. row.org = old.org /\ today <= LastDay
    BY <1>8, BooksAssumption DEF Alike, IInv, TypeOK
  <2>3. CASE p = q
    BY <1>5, <2>1, <2>2, <2>3
  <2>4. CASE p \in PaymentsOf(i)
    <3>1. p.invoice = i /\ PaymentSound(p)
      BY <2>4 DEF PaymentsOf, IInv
    <3> QED
      BY <2>1, <2>2, <3>1 DEF PaymentSound, old
  <2> QED
    BY <2>3, <2>4 DEF OnlyWritten, q
<1> QED
  BY <1>1, <1>3, <1>8, <1>9, <1>10, <1>11, <1>12, <1>13, <1>14, <1>15, <1>16, InvoiceWritten DEF OnlyWritten

LEMMA PayKeeps ==
    ASSUME IInv, NEW i \in Invoices, RecordPayment(i)
    PROVE  IInv'
<1> DEFINE nr == Cardinality(PaymentsOf(i)) + 1
<1>1. PICK amount \in 1 .. invoices[i].total : Settle(i, amount, payments, nr)
  BY DEF RecordPayment
<1> DEFINE q == Settled(i, amount, nr)
<1>2. i \in payable /\ amount \in Nat \ {0} /\ nr \in Nat
  BY PaymentsOfFinite DEF RecordPayment
<1>3. payments' = payments \cup {q}
  BY <1>1 DEF Settle, Settled
<1>4. q \in Payment
  BY <1>2, SettledIsPayment
<1>5. q.invoice = i /\ q.nr = nr /\ q.status = "COMPLETED"
  BY DEF Settled
<1> HIDE DEF q
<1>6. OnlyWritten(i, q) /\ PaymentsOf(i)' = PaymentsOf(i) \cup {q} /\ q \notin PaymentsOf(i)
  BY <1>3, <1>4, <1>5, PaymentAdded
<1>7. Completed(i)' = Completed(i) \cup {q} /\ q \notin Completed(i)
  BY <1>5, <1>6 DEF Completed
<1> QED
  BY <1>1, <1>2, <1>6, <1>7, SettleKeeps DEF q

LEMMA CompleteKeeps ==
    ASSUME IInv, NEW p \in payments, CompleteAgain(p)
    PROVE  IInv'
<1> DEFINE i == p.invoice
           q == Settled(i, p.amount, p.nr)
<1>1. /\ p.status # "COMPLETED" /\ Settle(i, p.amount, payments \ {p}, p.nr)
      /\ payments' = (payments \ {p}) \cup {q}
  BY DEF CompleteAgain, Settle, Settled
<1>2. p \in Payment /\ i \in payable /\ p.amount \in Nat \ {0} /\ p.nr \in Nat /\ p \in PaymentsOf(i)
  BY DEF IInv, TypeOK, PaymentSound, Payment, PaymentsOf
<1>3. q \in Payment
  BY <1>2, SettledIsPayment
<1>4. q.invoice = i /\ q.nr = p.nr /\ q.status = "COMPLETED"
  BY DEF Settled
<1> HIDE DEF q
<1>5. OnlyWritten(i, q) /\ PaymentsOf(i)' = (PaymentsOf(i) \ {p}) \cup {q} /\ q \notin PaymentsOf(i) \ {p}
  BY <1>1, <1>3, <1>4, PaymentReplaced
<1>6. Completed(i)' = Completed(i) \cup {q} /\ q \notin Completed(i)
  BY <1>1, <1>4, <1>5 DEF Completed
<1> HIDE DEF i
<1> QED
  BY <1>1, <1>2, <1>5, <1>6, SettleKeeps DEF q

\* A payment is given another status; the others stay as they are.
LEMMA StatusGiven ==
    ASSUME IInv, NEW p \in payments, NEW status \in {"FAILED", "REFUNDED"}, Restatus(p, status),
           NEW i, i = p.invoice
    PROVE  /\ i \in Existing /\ i \in Invoices /\ i \in payable
           /\ \E q \in Payment :
                 /\ OnlyWritten(i, q)
                 /\ q.org = p.org /\ q.currency = p.currency /\ q.day = p.day
                 /\ PaymentsOf(i)' = (PaymentsOf(i) \ {p}) \cup {q}
           /\ p \in PaymentsOf(i)
           /\ Completed(i)' = Completed(i) \ {p}
<1> DEFINE q == [p EXCEPT !.status = status]
<1>1. p \in Payment /\ p \in PaymentsOf(i) /\ i \in payable /\ i \in Existing /\ i \in Invoices
  BY DEF IInv, TypeOK, PaymentSound, Payment, PaymentsOf
<1>2. payments' = (payments \ {p}) \cup {q}
  BY DEF Restatus
<1>3. /\ q \in Payment /\ q.invoice = i /\ q.nr = p.nr /\ q.status = status
      /\ q.org = p.org /\ q.currency = p.currency /\ q.day = p.day
  BY <1>1 DEF Payment
<1> HIDE DEF q
<1>4. OnlyWritten(i, q) /\ PaymentsOf(i)' = (PaymentsOf(i) \ {p}) \cup {q}
  BY <1>2, <1>3, PaymentReplaced
<1>5. Completed(i)' = Completed(i) \ {p}
  BY <1>3, <1>4 DEF Completed
<1> QED
  BY <1>1, <1>3, <1>4, <1>5

\* What the payments say that were not written, and the one that was.
LEMMA PaymentsStaySound ==
    ASSUME IInv, NEW i \in Invoices, NEW p \in PaymentsOf(i), NEW q,
           q.org = p.org, q.currency = p.currency, q.day = p.day,
           PaymentsOf(i)' = (PaymentsOf(i) \ {p}) \cup {q}
    PROVE  /\ \A r \in PaymentsOf(i)' : r.org = invoices[i].org /\ r.day <= LastDay
           /\ i \notin parted => \A r \in PaymentsOf(i)' : r.currency = invoices[i].currency
<1>1. \A r \in PaymentsOf(i) : r.org = invoices[i].org /\ r.day <= LastDay
  BY DEF IInv, PaymentSound, PaymentsOf
<1>2. i \notin parted => \A r \in PaymentsOf(i) : r.currency = invoices[i].currency
  <2>1. i \in Existing
    BY DEF IInv, PaymentSound, PaymentsOf, Existing
  <2> QED
    BY <2>1 DEF IInv, AmountFits
<1> QED
  BY <1>1, <1>2

LEMMA FailKeeps ==
    ASSUME IInv, NEW p \in payments, FailPayment(p)
    PROVE  IInv'
<1> DEFINE i == p.invoice
           row == invoices[i]
<1>1. /\ Restatus(p, "FAILED") /\ UNCHANGED <<users, invoices, today, viewable, payable>>
      /\ Disturb({}, IF p.status = "COMPLETED" THEN {i} ELSE {})
  BY DEF FailPayment, checks
<1>2. /\ i \in Existing /\ i \in Invoices /\ i \in payable
      /\ p \in PaymentsOf(i) /\ Completed(i)' = Completed(i) \ {p}
  BY <1>1, StatusGiven
<1>3. PICK q \in Payment :
         /\ OnlyWritten(i, q)
         /\ q.org = p.org /\ q.currency = p.currency /\ q.day = p.day
         /\ PaymentsOf(i)' = (PaymentsOf(i) \ {p}) \cup {q}
  BY <1>1, StatusGiven
<1>4. row \in Row /\ row.status # "NONE" /\ invoices' = [invoices EXCEPT ![i] = row]
  BY <1>1, <1>2, SoundRow DEF IInv, TypeOK, Existing, Exists
<1>5. Seen(i) /\ RowSound(i)'
  BY <1>1, <1>2 DEF Seen, IInv, RowSound
<1>6. Marked
  BY <1>1, <1>2, MarksAdded
<1>7. Completed(i) \ {p} \subseteq Completed(i) /\ Completed(i) \subseteq PaymentsOf(i)
  BY <1>2, PaymentsOfFinite
<1>8. Amounts(Completed(i)') <= Amounts(Completed(i))
  BY <1>2, <1>7, AmountsOfFewer
<1>9. i \notin restated' => StatusFits(row) /\ Amounts(Completed(i)') <= row.total
  <2> SUFFICES ASSUME i \notin restated' PROVE StatusFits(row) /\ Amounts(Completed(i)') <= row.total
    OBVIOUS
  <2>1. StatusFits(row) /\ Amounts(Completed(i)) <= row.total
    BY <1>2, <1>6 DEF IInv, Marked
  <2>2. Amounts(Completed(i)') \in Nat /\ Amounts(Completed(i)) \in Nat /\ row.total \in Nat
    BY <1>2, <1>4, <1>7, AmountsOfSome DEF Row
  <2> QED
    BY <1>8, <2>1, <2>2
<1>10. /\ \A r \in PaymentsOf(i)' : r.org = row.org /\ r.day <= LastDay
       /\ i \notin parted => \A r \in PaymentsOf(i)' : r.currency = row.currency
  BY <1>2, <1>3, PaymentsStaySound
<1>11. i \notin parted' => AmountFits(i)'
  <2> SUFFICES ASSUME i \notin parted' PROVE AmountFits(i)'
    OBVIOUS
  <2>1. p.status # "COMPLETED" /\ i \notin parted
    BY <1>1 DEF Disturb
  <2>2. Completed(i)' = Completed(i)
    BY <1>2, <2>1 DEF Completed
  <2>3. row.paid = Amounts(Completed(i))
    BY <1>2, <2>1 DEF IInv, AmountFits
  <2> QED
    BY <1>1, <1>10, <2>1, <2>2, <2>3 DEF AmountFits
<1>12. i \in payable'
  BY <1>1, <1>2
<1> HIDE DEF row
<1> QED
  BY <1>1, <1>2, <1>3, <1>4, <1>5, <1>6, <1>9, <1>10, <1>11, <1>12, InvoiceWritten DEF OnlyWritten

\* A row that a refund leaves, whichever sum it has taken.
Refunded(i, sum, was) ==
    [invoices[i] EXCEPT !.paid = sum, !.status = StatusAfterRefund(sum, was, invoices[i].total)]

LEMMA RefundedRow ==
    ASSUME IInv, NEW i \in payable, NEW sum \in Nat, NEW was \in InvoiceStatuses \ {"OVERDUE", "DRAFT"},
           NEW row, row = Refunded(i, sum, was)
    PROVE  /\ row \in Row /\ Alike(row, invoices[i]) /\ row.paid = sum
           /\ row.status = StatusAfterRefund(sum, was, invoices[i].total)
           /\ RowIsSound(i, row)
<1>1. i \in Existing /\ invoices[i] \in Row /\ RowIsSound(i, invoices[i])
  BY SoundRow DEF IInv
<1>2. StatusAfterRefund(sum, was, invoices[i].total) \in InvoiceStatuses \ {"OVERDUE", "DRAFT"}
  BY DEF StatusAfterRefund, SettledStatus, InvoiceStatuses
<1>3. /\ row \in Row /\ Alike(row, invoices[i]) /\ row.paid = sum /\ row.mail = invoices[i].mail
      /\ row.status = StatusAfterRefund(sum, was, invoices[i].total)
  BY <1>1, <1>2 DEF Row, Alike, Refunded
<1>4. row.status \in InvoiceStatuses \ {"OVERDUE", "DRAFT"} /\ row.mail # "NOT_SENT"
  BY <1>1, <1>2, <1>3 DEF RowIsSound
<1>5. RowIsSound(i, row)
  BY <1>1, <1>3, <1>4 DEF RowIsSound, Alike
<1> QED
  BY <1>3, <1>5

LEMMA RefundWritten ==
    ASSUME IInv, NEW p \in payments, Restatus(p, "REFUNDED"),
           NEW i, i = p.invoice, NEW row \in Row, Write(i, row), Alike(row, invoices[i]),
           RowIsSound(i, row), UNCHANGED <<users, today>>, Marked,
           i \notin restated' => StatusFits(row) /\ Amounts(Completed(i) \ {p}) <= row.total,
           i \notin parted' => row.paid = Amounts(Completed(i) \ {p})
    PROVE  IInv'
<1>1. /\ i \in Existing /\ i \in Invoices /\ i \in payable
      /\ p \in PaymentsOf(i) /\ Completed(i)' = Completed(i) \ {p}
  BY StatusGiven
<1>2. PICK q \in Payment :
         /\ OnlyWritten(i, q)
         /\ q.org = p.org /\ q.currency = p.currency /\ q.day = p.day
         /\ PaymentsOf(i)' = (PaymentsOf(i) \ {p}) \cup {q}
  BY StatusGiven
<1>3. /\ row.status # "NONE" /\ invoices' = [invoices EXCEPT ![i] = row] /\ invoices'[i] = row
  BY <1>1 DEF Write, RowIsSound, InvoiceStatuses, IInv, TypeOK
<1>4. Seen(i) /\ RowSound(i)'
  BY <1>1, WrittenIsSeen
<1>5. /\ \A r \in PaymentsOf(i)' : r.org = row.org /\ r.day <= LastDay
      /\ i \notin parted => \A r \in PaymentsOf(i)' : r.currency = row.currency
  BY <1>1, <1>2, PaymentsStaySound DEF Alike
<1>6. i \notin parted' => AmountFits(i)'
  BY <1>1, <1>3, <1>5 DEF AmountFits, Marked
<1>7. i \in payable'
  BY <1>1, <1>4 DEF Seen
<1> QED
  BY <1>1, <1>2, <1>3, <1>4, <1>5, <1>6, <1>7, InvoiceWritten DEF OnlyWritten

LEMMA RefundKeeps ==
    ASSUME IInv, NEW p \in payments, RefundPayment(p)
    PROVE  IInv'
<1> DEFINE i == p.invoice
           old == invoices[i]
           refunded(sum, was) ==
               Write(i, [old EXCEPT !.paid = sum, !.status = StatusAfterRefund(sum, was, old.total)])
           left == Completed(i) \ {p}
<1>1. Restatus(p, "REFUNDED") /\ UNCHANGED <<users, today>>
  BY DEF RefundPayment
<1>2. i \in Existing /\ i \in Invoices /\ i \in payable
  BY <1>1, StatusGiven
<1>3. old \in Row /\ RowIsSound(i, old) /\ (i \notin restated => StatusFits(old))
  BY <1>2, SoundRow DEF IInv
<1>4. Completed(i) \subseteq PaymentsOf(i)
  BY <1>2, PaymentsOfFinite
<1>5. CASE refunded(Amounts(left), old.status) /\ Disturb({}, {})
  <2> DEFINE sum == Amounts(left)
             row == Refunded(i, sum, old.status)
  <2>1. left \subseteq Completed(i)
    OBVIOUS
  <2>2. sum <= Amounts(Completed(i)) /\ sum \in Nat /\ Amounts(Completed(i)) \in Nat
    BY <1>2, <1>4, <2>1, AmountsOfFewer, AmountsOfSome
  <2>3. old.status \in InvoiceStatuses \ {"OVERDUE", "DRAFT"}
    BY <1>2, <1>3 DEF RowIsSound
  <2>4. Write(i, row)
    BY <1>5 DEF Refunded
  <2> HIDE DEF sum
  <2>5. /\ row \in Row /\ Alike(row, old) /\ row.paid = sum
        /\ row.status = StatusAfterRefund(sum, old.status, old.total)
        /\ RowIsSound(i, row)
    BY <1>2, <2>2, <2>3, RefundedRow
  <2> HIDE DEF row, left
  <2>6. Marked
    BY <1>5, MarksAdded
  <2>7. i \notin restated' => StatusFits(row) /\ sum <= row.total
    <3> SUFFICES ASSUME i \notin restated' PROVE StatusFits(row) /\ sum <= row.total
      OBVIOUS
    <3>1. StatusFits(old) /\ Amounts(Completed(i)) <= old.total
      BY <1>2, <2>6 DEF IInv, Marked
    <3>2. old.total \in Nat /\ row.total = old.total
      BY <1>3, <2>5 DEF Row, Alike
    <3>3. sum <= old.total
      BY <2>2, <3>1, <3>2
    <3>4. CASE sum > 0
      BY <2>2, <2>5, <3>2, <3>3, <3>4 DEF StatusAfterRefund, SettledStatus, StatusFits
    <3>5. CASE sum = 0
      <4>1. row.status = IF old.status \in {"PAID", "PARTIALLY_PAID"} THEN "SENT" ELSE old.status
        BY <2>5, <3>5 DEF StatusAfterRefund
      <4>2. row.status \notin {"PAID", "PARTIALLY_PAID"} /\ row.paid = 0
        BY <2>5, <3>5, <4>1
      <4> QED
        BY <3>2, <3>3, <4>2 DEF StatusFits
    <3> QED
      BY <2>2, <3>4, <3>5
  <2>8. row.paid = sum
    BY <2>5
  <2> QED
    BY <1>1, <2>4, <2>5, <2>6, <2>7, <2>8, RefundWritten DEF sum, left
<1>6. ASSUME NEW new \in SUBSET {q \in Completed(i) : q.nr > p.nr},
             NEW undone \in SUBSET (PaymentsOf(i) \ (Completed(i) \cup {p})),
             refunded(Amounts((left \ new) \cup undone), "PAID"), Disturb({i}, {i})
      PROVE  IInv'
  <2> DEFINE sum == Amounts((left \ new) \cup undone)
             row == Refunded(i, sum, "PAID")
  <2>1. (left \ new) \cup undone \subseteq PaymentsOf(i)
    BY <1>4
  <2>2. sum \in Nat
    BY <1>2, <2>1, AmountsOfSome
  <2>3. Write(i, row)
    BY <1>6 DEF Refunded
  <2>4. "PAID" \in InvoiceStatuses \ {"OVERDUE", "DRAFT"}
    BY DEF InvoiceStatuses
  <2> HIDE DEF sum
  <2>5. row \in Row /\ Alike(row, old) /\ RowIsSound(i, row)
    BY <1>2, <2>2, <2>4, RefundedRow
  <2> HIDE DEF row
  <2>6. Marked /\ i \in restated' /\ i \in parted'
    BY <1>2, <1>6, MarksAdded DEF Disturb
  <2> QED
    BY <1>1, <2>3, <2>5, <2>6, RefundWritten
<1> QED
  BY <1>5, <1>6 DEF RefundPayment

\* Nothing that an invoice or a payment says depends on users or on the day.
LEMMA BooksStay ==
    ASSUME IInv, UNCHANGED <<invoices, payments, viewable, payable>>, Marked,
           users' \in [Users -> UserRow], today' \in FirstDay .. LastDay,
           \A u \in Users : users'[u].role \in {"ADMIN", "MEMBER"} => users'[u].org \in Orgs
    PROVE  IInv'
<1>1. TypeOK'
  BY DEF IInv, TypeOK, Marked
<1>2. Existing' = Existing
  BY DEF Existing, Exists
<1>3. IsFiniteSet(Existing') /\ IsFiniteSet(payments') /\ viewable' \cup payable' \subseteq Existing'
  BY <1>2 DEF IInv
<1>4. \A i : PaymentsOf(i)' = PaymentsOf(i) /\ Completed(i)' = Completed(i)
  BY DEF PaymentsOf, Completed
<1>5. \A i \in Existing' : RowSound(i)'
  BY <1>2 DEF IInv, RowSound
<1>6. \A i \in Existing' \ restated' :
         StatusFits(invoices'[i]) /\ Amounts(Completed(i)') <= invoices'[i].total
  <2> SUFFICES ASSUME NEW i \in Existing \ restated
               PROVE StatusFits(invoices[i]) /\ Amounts(Completed(i)) <= invoices[i].total
    BY <1>2, <1>4 DEF Marked
  <2> QED
    BY DEF IInv
<1>7. \A i \in Existing' \ parted' : AmountFits(i)'
  <2> SUFFICES ASSUME NEW i \in Existing \ parted PROVE AmountFits(i)'
    BY <1>2 DEF Marked
  <2> QED
    BY <1>4 DEF IInv, AmountFits
<1>8. \A p \in payments' : PaymentSound(p)'
  BY DEF IInv, PaymentSound, Exists
<1>9. \A i \in Invoices : Numbered(i)'
  BY <1>4 DEF IInv, Numbered
<1> QED
  BY <1>1, <1>3, <1>5, <1>6, <1>7, <1>8, <1>9 DEF IInv

LEMMA MoveKeeps ==
    ASSUME IInv, NEW u \in Users, MoveAdministrator(u)
    PROVE  IInv'
<1>1. PICK o \in Orgs : users' = [users EXCEPT ![u].org = o]
  BY DEF MoveAdministrator
<1>2. users \in [Users -> UserRow]
  BY DEF IInv, TypeOK
<1>3. \A v \in Users : users'[v].role = users[v].role /\ users'[v].org = IF v = u THEN o ELSE users[v].org
  BY <1>1, <1>2 DEF UserRow
<1>4. users' \in [Users -> UserRow]
  BY <1>1, <1>2 DEF UserRow
<1>5. \A v \in Users : users'[v].role \in {"ADMIN", "MEMBER"} => users'[v].org \in Orgs
  BY <1>3 DEF IInv
<1>6. Marked
  BY MarksAdded DEF MoveAdministrator
<1>7. UNCHANGED <<invoices, payments, viewable, payable>> /\ today' \in FirstDay .. LastDay
  BY DEF MoveAdministrator, checks, IInv, TypeOK
<1> QED
  BY <1>4, <1>5, <1>6, <1>7, BooksStay

LEMMA DayKeeps ==
    ASSUME IInv, NextDay
    PROVE  IInv'
<1>1. today' \in FirstDay .. LastDay
  BY BooksAssumption DEF NextDay, IInv, TypeOK
<1>2. Marked
  BY MarksAdded DEF NextDay
<1>3. UNCHANGED <<users, invoices, payments, viewable, payable>>
  BY DEF NextDay, checks
<1>4. users' \in [Users -> UserRow]
  BY <1>3 DEF IInv, TypeOK
<1>5. \A u \in Users : users'[u].role \in {"ADMIN", "MEMBER"} => users'[u].org \in Orgs
  BY <1>3 DEF IInv
<1> QED
  BY <1>1, <1>2, <1>3, <1>4, <1>5, BooksStay

LEMMA StutterKeeps ==
    ASSUME IInv, UNCHANGED vars
    PROVE  IInv'
<1>1. UNCHANGED <<users, invoices, payments, today, viewable, payable>> /\ UNCHANGED overlaps
  BY DEF vars, checks
<1>2. Marked
  BY <1>1, MarksAdded
<1>3. users' \in [Users -> UserRow] /\ today' \in FirstDay .. LastDay
  BY <1>1 DEF IInv, TypeOK
<1>4. \A u \in Users : users'[u].role \in {"ADMIN", "MEMBER"} => users'[u].org \in Orgs
  BY <1>1 DEF IInv
<1> QED
  BY <1>1, <1>2, <1>3, <1>4, BooksStay

(***************************************************************************)
(* What the books keep (invoice.service.ts, payment.repository.ts):        *)
(* whatever is created, edited, sent, viewed, paid, refused, refunded,     *)
(* cancelled, deleted or moved, and however late it is written, a payment  *)
(* has its invoice's organization.  An invoice says what its payments add  *)
(* up to unless a late edit, a refusal of a completed payment or a refund  *)
(* on an old sum came between; its status goes with that amount unless a   *)
(* late write replaced it.                                                 *)
(***************************************************************************)
THEOREM BooksInvariance == Spec => []IInv
<1>1. ASSUME IInv, [Next]_vars PROVE IInv'
  <2>1. CASE NextDay
    BY <1>1, <2>1, DayKeeps
  <2>2. ASSUME NEW i \in Invoices, ViewInvoice(i) \/ RecordPayment(i) PROVE IInv'
    BY <1>1, <2>2, ViewKeeps, PayKeeps
  <2>3. ASSUME NEW p \in payments, CompleteAgain(p) \/ FailPayment(p) \/ RefundPayment(p) PROVE IInv'
    BY <1>1, <2>3, CompleteKeeps, FailKeeps, RefundKeeps
  <2>4. ASSUME NEW u \in Users, MoveAdministrator(u) PROVE IInv'
    BY <1>1, <2>4, MoveKeeps
  <2>5. ASSUME NEW i \in Invoices, NEW u \in Users,
               \/ CreateInvoice(i, u) \/ EditInvoice(i, u) \/ DeleteInvoice(i, u)
               \/ SendInvoice(i, u) \/ CancelInvoice(i, u)
        PROVE  IInv'
    BY <1>1, <2>5, CreateKeeps, EditKeeps, DeleteKeeps, SendKeeps, CancelKeeps
  <2>6. ASSUME NEW i \in Invoices, NEW u \in Users, NEW original \in Invoices,
               DuplicateInvoice(i, u, original)
        PROVE  IInv'
    BY <1>1, <2>6, DuplicateKeeps
  <2>7. CASE UNCHANGED vars
    BY <1>1, <2>7, StutterKeeps
  <2> QED
    BY <1>1, <2>1, <2>2, <2>3, <2>4, <2>5, <2>6, <2>7 DEF Next
<1> QED
  BY <1>1, BooksOpen, PTL DEF Spec

(***************************************************************************)
(* Who is shown what.  Whatever a request asks for, the scope an           *)
(* administrator or a member gets is its organization and some of those    *)
(* whose invoices it works with.                                           *)
(***************************************************************************)
Mine(u) == InvoiceUserScope(users, AsActor(users, u))

Within(u, sc) == sc.org = users[u].org /\ sc.users \subseteq Mine(u)

LEMMA PaidInvoiceExists ==
    ASSUME IInv, NEW p \in payments
    PROVE  /\ p.invoice \in Existing /\ p.invoice \in Invoices /\ RowSound(p.invoice)
           /\ p.org = invoices[p.invoice].org /\ p.day <= LastDay
           /\ p.invoice \notin parted => p.currency = invoices[p.invoice].currency
<1>1. p.invoice \in Invoices /\ PaymentSound(p) /\ p \in PaymentsOf(p.invoice)
  BY DEF IInv, TypeOK, Payment, PaymentsOf
<1>2. p.invoice \in Existing
  BY <1>1 DEF PaymentSound, Existing
<1> QED
  BY <1>1, <1>2 DEF IInv, PaymentSound, AmountFits

LEMMA ReceivedIsSome == Received \subseteq payments
BY DEF Received

LEMMA SelectedExists ==
    ASSUME NEW sc
    PROVE  Selected(sc) = {i \in Existing : /\ sc.org \in {None, invoices[i].org}
                                            /\ {invoices[i].creator, invoices[i].assignee} \cap sc.users # {}}
BY DEF Selected, Existing

LEMMA OrganizationIsKnown ==
    ASSUME IInv, NEW u \in Limited
    PROVE  u \in Users /\ users[u].org \in Orgs /\ users[u].org # None
BY AccessAssumption DEF IInv, Limited

LEMMA WithinIsOpened ==
    ASSUME IInv, NEW u \in Limited, NEW sc, Within(u, sc)
    PROVE  Selected(sc) \subseteq {i \in Invoices : Opens(u, i)}
BY OrganizationIsKnown DEF Within, Mine, Selected, Opens, InvoiceAccess, AsActor

\* The payments of a scope are on its invoices, also where the query does not ask.
LEMMA PaymentsAreSelected ==
    ASSUME IInv, NEW sc, NEW p \in InOrganization(Received, sc.org),
           sc.users # Users => p.invoice \in Selected(sc)
    PROVE  p.invoice \in Selected(sc)
<1>1. p \in payments /\ sc.org \in {None, p.org}
  BY ReceivedIsSome DEF InOrganization
<1>2. invoices[p.invoice].creator \in Users
  BY <1>1, PaidInvoiceExists DEF RowSound
<1> QED
  BY <1>1, <1>2, PaidInvoiceExists, SelectedExists

LEMMA TenantsOfLimited ==
    ASSUME IInv, NEW u \in Limited, NEW requested
    PROVE  /\ ScopedTenants(AsActor(users, u), requested, Active) \subseteq {users[u].org}
           /\ ReportedOrganizations(AsActor(users, u), requested) \subseteq {users[u].org}
           /\ users[u].org \in ScopedTenants(AsActor(users, u), None, Active)
BY OrganizationIsKnown DEF ScopedTenants, ScopedOrganizations, ReportedOrganizations, AsActor, Limited

LEMMA ListsWithin ==
    ASSUME IInv, NEW u \in Limited, NEW requested, NEW administrator, NEW member,
           NEW sc \in ListScopes(u, requested, administrator, member)
    PROVE  Within(u, sc)
BY TenantsOfLimited DEF ListScopes, Within, Mine, Scope, AsActor, Limited

LEMMA DashboardsWithin ==
    ASSUME IInv, NEW u \in Limited, NEW requested, NEW sc \in DashboardScopes(u, requested)
    PROVE  Within(u, sc)
BY TenantsOfLimited DEF DashboardScopes, Within, Mine

LEMMA SummariesWithin ==
    ASSUME IInv, NEW u \in Limited, NEW sc \in SummaryScopes(u)
    PROVE  Within(u, sc)
BY TenantsOfLimited DEF SummaryScopes, Within, Mine, Scope

LEMMA ReportsWithin ==
    ASSUME IInv, NEW u \in Limited, NEW sc \in ReportsOf(u)
    PROVE  Within(u, sc)
<1>1. PICK requested \in Orgs \cup {None}, f \in PeopleFilters : sc \in ReportScopes(u, requested, f[1], f[2])
  BY DEF ReportsOf
<1>2. PICK access \in ReportUsers(u, f[1], f[2]) :
         sc.org \in ReportedOrganizations(AsActor(users, u), requested) /\ sc.users = access.users
  BY <1>1 DEF ReportScopes
<1>3. f[2] \in Users \cup {None}
  BY DEF PeopleFilters
<1>4. access.users \subseteq Mine(u)
  <2>1. CASE users[u].role = "MEMBER"
    BY <1>2, <2>1 DEF ReportUsers, AsActor, Mine, InvoiceUserScope
  <2>2. CASE users[u].role = "ADMIN"
    BY <1>2, <1>3, <2>2 DEF ReportUsers, AsActor, Mine, InvoiceUserScope, MembersOf, OwnsMember
  <2> QED
    BY <2>1, <2>2 DEF Limited
<1> QED
  BY <1>2, <1>4, TenantsOfLimited DEF Within

(***************************************************************************)
(* Lists and payments show what may be opened, whatever is asked for       *)
(* (listInvoices, listPayments, assertInvoiceAccess).                      *)
(***************************************************************************)
LEMMA OpenedByAll ==
    ASSUME IInv, NEW u \in Users, users[u].role = "SUPER_ADMIN"
    PROVE  \A i \in Invoices : Opens(u, i) <=> i \in Existing
BY DEF Opens, InvoiceAccess, AsActor, Existing

\* The scopes of a list without a filter: one organization, and whom the
\* user works with.
LEMMA PlainScopes ==
    ASSUME IInv, NEW u \in Users, users[u].role # "NONE"
    PROVE  /\ u \in Limited => Scope(users[u].org, Mine(u)) \in ListScopes(u, None, None, None)
           /\ u \notin Limited => \A o \in Orgs : Scope(o, Users) \in ListScopes(u, o, None, None)
           /\ u \in Limited \/ users[u].role = "SUPER_ADMIN"
<1>1. u \in Limited \/ users[u].role = "SUPER_ADMIN"
  BY DEF IInv, TypeOK, UserRow, Roles, Limited
<1>2. ASSUME u \in Limited PROVE Scope(users[u].org, Mine(u)) \in ListScopes(u, None, None, None)
  BY <1>2, TenantsOfLimited DEF ListScopes, Mine
<1>3. ASSUME users[u].role = "SUPER_ADMIN", NEW o \in Orgs
      PROVE  Scope(o, Users) \in ListScopes(u, o, None, None)
  BY <1>3, AccessAssumption DEF ListScopes, ScopedTenants, AsActor, InvoiceUserScope
<1> QED
  BY <1>1, <1>2, <1>3 DEF Limited

LEMMA ScopesShowTheOpened ==
    ASSUME IInv, NEW u \in Users, users[u].role # "NONE",
           NEW requested, NEW administrator, NEW member,
           NEW sc \in ListScopes(u, requested, administrator, member)
    PROVE  Selected(sc) \subseteq {i \in Invoices : Opens(u, i)}
<1>1. CASE u \in Limited
  BY <1>1, ListsWithin, WithinIsOpened
<1>2. CASE u \notin Limited
  BY <1>2, PlainScopes, OpenedByAll DEF Selected, Existing
<1> QED
  BY <1>1, <1>2

\* Each invoice that may be opened is in a list.
LEMMA OpenedIsListed ==
    ASSUME IInv, NEW u \in Users, users[u].role # "NONE", NEW i \in Invoices, Opens(u, i)
    PROVE  \E requested \in Orgs \cup {None} : \E sc \in ListScopes(u, requested, None, None) :
              i \in Selected(sc)
<1>1. i \in Existing /\ invoices[i].org \in Orgs /\ invoices[i].creator \in Users
  BY DEF Opens, Existing, IInv, RowSound
<1>2. CASE u \in Limited
  <2>1. i \in Selected(Scope(users[u].org, Mine(u)))
    BY <1>1, <1>2 DEF Selected, Scope, Existing, Opens, InvoiceAccess, AsActor, Mine, Limited
  <2> QED
    BY <1>2, <2>1, PlainScopes
<1>3. CASE u \notin Limited
  <2>1. i \in Selected(Scope(invoices[i].org, Users))
    BY <1>1 DEF Selected, Scope, Existing
  <2> QED
    BY <1>1, <1>3, <2>1, PlainScopes
<1> QED
  BY <1>2, <1>3

LEMMA PaymentsListedAreSelected ==
    ASSUME IInv, NEW sc, sc.users \subseteq Users
    PROVE  PaymentsListed(sc) = {p \in payments : p.invoice \in Selected(sc)}
<1>1. ASSUME NEW p \in payments, sc.users = Users
      PROVE  {invoices[p.invoice].creator, invoices[p.invoice].assignee} \cap sc.users # {}
  BY <1>1, PaidInvoiceExists DEF RowSound
<1> QED
  BY <1>1, PaidInvoiceExists, SelectedExists DEF PaymentsListed

LEMMA ScopesAreOfUsers ==
    ASSUME NEW u \in Users, NEW requested, NEW administrator, NEW member,
           NEW sc \in ListScopes(u, requested, administrator, member)
    PROVE  sc.users \subseteq Users
BY DEF ListScopes, Scope, InvoiceUserScope, MembersOf, AsActor

(***************************************************************************)
(* Lists of invoices and of payments (listInvoiceAccounts, listPayments)   *)
(* show exactly what the reader may open (getInvoiceAccount).              *)
(***************************************************************************)
THEOREM ListsAreWhatOpens == Spec => []ListAgreesWithAccess
<1>1. ASSUME IInv PROVE ListAgreesWithAccess
  <2> SUFFICES ASSUME NEW u \in {v \in Users : users[v].role # "NONE"}
               PROVE  LET lists(filters) ==
                              UNION {ListScopes(u, requested, f[1], f[2]) :
                                        requested \in Orgs \cup {None}, f \in filters}
                          plain == lists({<<None, None>>})
                          open == {i \in Invoices : Opens(u, i)}
                      IN  /\ open = UNION {Selected(sc) : sc \in plain}
                          /\ {p \in payments : p.invoice \in open} = UNION {PaymentsListed(sc) : sc \in plain}
                          /\ \A sc \in lists(PeopleFilters) : Selected(sc) \subseteq open
    BY SMTT(30) DEF ListAgreesWithAccess
  <2> DEFINE lists(filters) ==
                UNION {ListScopes(u, requested, f[1], f[2]) :
                          requested \in Orgs \cup {None}, f \in filters}
             plain == lists({<<None, None>>})
             open == {i \in Invoices : Opens(u, i)}
  <2>1. plain = UNION {ListScopes(u, requested, None, None) : requested \in Orgs \cup {None}}
    OBVIOUS
  <2>2. ASSUME NEW requested, NEW administrator, NEW member,
               NEW sc \in ListScopes(u, requested, administrator, member)
        PROVE  Selected(sc) \subseteq open /\ sc.users \subseteq Users
    BY <1>1, ScopesShowTheOpened, ScopesAreOfUsers
  <2>3. \A sc \in plain : Selected(sc) \subseteq open /\ sc.users \subseteq Users
    BY <2>1, <2>2
  <2>4. \A i \in open : \E sc \in plain : i \in Selected(sc)
    BY <1>1, <2>1, OpenedIsListed
  <2> HIDE DEF plain, lists, open
  <2>5. open = UNION {Selected(sc) : sc \in plain}
    BY <2>3, <2>4
  <2>6. \A sc \in plain : PaymentsListed(sc) = {p \in payments : p.invoice \in Selected(sc)}
    BY <1>1, <2>3, PaymentsListedAreSelected
  <2>7. {p \in payments : p.invoice \in open} = UNION {PaymentsListed(sc) : sc \in plain}
    BY <2>3, <2>4, <2>6
  <2>8. \A sc \in lists(PeopleFilters) : Selected(sc) \subseteq open
    BY <2>2 DEF lists
  <2> QED
    BY <2>5, <2>7, <2>8 DEF plain, lists, open
<1> QED
  BY <1>1, BooksInvariance, PTL

(***************************************************************************)
(* No figure of a dashboard, a report or a forecast takes in a row that    *)
(* its reader may not open (loadDashboardSnapshot, loadReport,             *)
(* loadForecastSnapshot).                                                  *)
(***************************************************************************)
THEOREM FiguresAreOfWhatOpens == Spec => []FiguresWithinAccess
<1>1. ASSUME IInv, NEW u \in Limited, NEW sc, Within(u, sc)
      PROVE  /\ Selected(sc) \subseteq {i \in Invoices : Opens(u, i)}
             /\ \A range : {p.invoice : p \in PaymentsIn(sc, range)} \subseteq {i \in Invoices : Opens(u, i)}
             /\ sc.users # {} => \A range :
                   {p.invoice : p \in ReportPayments(sc, range)} \subseteq {i \in Invoices : Opens(u, i)}
  <2>1. Selected(sc) \subseteq {i \in Invoices : Opens(u, i)}
    BY <1>1, WithinIsOpened
  <2>2. ASSUME NEW range, NEW p \in PaymentsIn(sc, range) PROVE p.invoice \in Selected(sc)
    BY <1>1, PaymentsAreSelected DEF PaymentsIn
  <2>3. ASSUME sc.users # {}, NEW range, NEW p \in ReportPayments(sc, range) PROVE p.invoice \in Selected(sc)
    BY <1>1, <2>3, PaymentsAreSelected DEF ReportPayments
  <2> QED
    BY <2>1, <2>2, <2>3
<1>2. ASSUME IInv PROVE FiguresWithinAccess
  <2> SUFFICES ASSUME NEW u \in Limited
               PROVE  LET mine == {i \in Invoices : Opens(u, i)}
                          own(S) == {p.invoice : p \in S} \subseteq mine
                      IN  /\ \A sc \in UNION {DashboardScopes(u, requested) : requested \in Orgs \cup {None}} :
                                InvoicesIn(sc, Ever) \subseteq mine /\ own(PaymentsIn(sc, Ever))
                          /\ \A sc \in ReportsOf(u) :
                                /\ InvoicesIn(sc, Ever) \cup ReportOverdue(sc, Ever) \subseteq mine
                                /\ sc.users # {} => own(ReportPayments(sc, Ever))
                          /\ \A sc \in ForecastScopes(u) :
                                Forecast(sc).open \subseteq mine /\ own(Forecast(sc).collectedThisMonth)
    BY DEF FiguresWithinAccess
  <2>1. ASSUME NEW sc, Within(u, sc) PROVE InvoicesIn(sc, Ever) \cup ReportOverdue(sc, Ever) \subseteq Selected(sc)
    BY DEF InvoicesIn, ReportOverdue
  <2>2. ASSUME NEW sc \in UNION {DashboardScopes(u, requested) : requested \in Orgs \cup {None}}
        PROVE  Within(u, sc)
    BY <1>2, DashboardsWithin
  <2>3. ASSUME NEW sc \in ReportsOf(u) PROVE Within(u, sc)
    BY <1>2, ReportsWithin
  <2>4. ASSUME NEW sc \in ForecastScopes(u) PROVE Within(u, sc)
    BY <1>2, SummariesWithin DEF ForecastScopes
  <2>5. ASSUME NEW sc
        PROVE  /\ Forecast(sc).open \subseteq Selected(sc)
               /\ Forecast(sc).collectedThisMonth = PaymentsIn(sc, ResolveDateRange("this_month", today))
    BY DEF Forecast
  <2> QED
    BY <1>1, <1>2, <2>1, <2>2, <2>3, <2>4, <2>5
<1> QED
  BY <1>2, BooksInvariance, PTL

(***************************************************************************)
(* The board and the views.                                                *)
(***************************************************************************)
LEMMA StatusesOfExisting ==
    ASSUME IInv, NEW i \in Existing
    PROVE  /\ i \in Invoices
           /\ invoices[i].status \in {"DRAFT", "SENT", "VIEWED", "PARTIALLY_PAID", "PAID", "CANCELLED"}
           /\ RowSound(i) /\ (i \notin restated => StatusFits(invoices[i]))
           /\ invoices[i].paid \in Nat /\ invoices[i].total \in Nat
BY DEF IInv, TypeOK, Existing, Exists, Row, InvoiceStatuses, RowSound

LEMMA CountsApart ==
    ASSUME NEW S, IsFiniteSet(S), NEW T, IsFiniteSet(T), S \cap T = {}
    PROVE  /\ IsFiniteSet(S \cup T)
           /\ Cardinality(S \cup T) = Cardinality(S) + Cardinality(T)
           /\ Cardinality(S) \in Nat /\ Cardinality(T) \in Nat
<1>1. Cardinality(S \cup T) = Cardinality(S) + Cardinality(T) - Cardinality(S \cap T)
  BY FS_Union
<1>2. Cardinality(S \cap T) = 0
  BY FS_EmptySet
<1> QED
  BY <1>1, <1>2, FS_Union, FS_CardinalityType

LEMMA SelectedFinite ==
    ASSUME IInv, NEW sc
    PROVE  Selected(sc) \subseteq Existing /\ IsFiniteSet(Selected(sc))
BY SelectedExists, FS_Subset DEF IInv

LEMMA BoardHolds == IInv => BoardIsComplete
<1> SUFFICES ASSUME IInv, NEW u \in Users, NEW sc \in SummaryScopes(u)
             PROVE  LET cards == Summary(sc)
                        column(c) == {i \in Selected(sc) : InColumn(i, c)}
                    IN  /\ Cardinality(cards.all) = Cardinality(cards.void) + Cardinality(column("new"))
                              + Cardinality(column("sent")) + Cardinality(column("overdue"))
                              + Cardinality(column("paid"))
                        /\ column("outstanding") = column("sent") \cup column("overdue")
                        /\ cards.outstanding = cards.awaitingPayment \cup cards.overdue
                        /\ cards.overdue = {i \in Selected(sc) : Matches(i, None, "OVERDUE")}
  BY DEF BoardIsComplete
<1> DEFINE base == Selected(sc)
           column(c) == {i \in base : InColumn(i, c)}
           void == {i \in base : invoices[i].status = "CANCELLED"}
<1>1. base \subseteq Existing /\ IsFiniteSet(base)
  BY SelectedFinite
<1>2. /\ column("new") = {i \in base : invoices[i].status = "DRAFT"}
      /\ column("sent") = {i \in base : Awaited(i)}
      /\ column("overdue") = {i \in base : Open(i) /\ Late(i)}
      /\ column("outstanding") = {i \in base : invoices[i].status \in PayableStatuses}
      /\ column("paid") = {i \in base : invoices[i].status = "PAID"}
  BY DEF InColumn
<1>3. /\ Summary(sc).all = base /\ Summary(sc).void = void
      /\ Summary(sc).outstanding = column("outstanding")
      /\ Summary(sc).awaitingPayment = column("sent")
      /\ Summary(sc).overdue = column("overdue")
  BY <1>2 DEF Summary
<1>4. column("overdue") = {i \in base : Matches(i, None, "OVERDUE")}
  BY <1>2 DEF Matches
<1>5. column("outstanding") = column("sent") \cup column("overdue")
  BY <1>1, <1>2, StatusesOfExisting DEF PayableStatuses, Awaited, Open
<1> DEFINE rest == column("overdue") \cup column("paid")
           issued == column("sent") \cup rest
           noted == column("new") \cup issued
<1>6. /\ base = void \cup noted
      /\ void \cap noted = {} /\ column("new") \cap issued = {}
      /\ column("sent") \cap rest = {} /\ column("overdue") \cap column("paid") = {}
  BY <1>1, <1>2, StatusesOfExisting DEF Awaited, Open
<1>7. /\ IsFiniteSet(void) /\ IsFiniteSet(column("new")) /\ IsFiniteSet(column("sent"))
      /\ IsFiniteSet(column("overdue")) /\ IsFiniteSet(column("paid"))
  BY <1>1, FS_Subset
<1> HIDE DEF column, void, base
<1>8. IsFiniteSet(rest) /\ Cardinality(rest) = Cardinality(column("overdue")) + Cardinality(column("paid"))
  BY <1>6, <1>7, CountsApart
<1>9. IsFiniteSet(issued) /\ Cardinality(issued) = Cardinality(column("sent")) + Cardinality(rest)
  BY <1>6, <1>7, <1>8, CountsApart
<1>10. IsFiniteSet(noted) /\ Cardinality(noted) = Cardinality(column("new")) + Cardinality(issued)
  BY <1>6, <1>7, <1>9, CountsApart
<1>11. Cardinality(base) = Cardinality(void) + Cardinality(noted)
  BY <1>6, <1>7, <1>10, CountsApart
<1>12. /\ Cardinality(void) \in Nat /\ Cardinality(column("new")) \in Nat
       /\ Cardinality(column("sent")) \in Nat /\ Cardinality(column("overdue")) \in Nat
       /\ Cardinality(column("paid")) \in Nat
  BY <1>7, FS_CardinalityType
<1>13. Cardinality(base) = Cardinality(void) + Cardinality(column("new"))
          + Cardinality(column("sent")) + Cardinality(column("overdue")) + Cardinality(column("paid"))
  BY <1>8, <1>9, <1>10, <1>11, <1>12
<1> QED
  BY <1>3, <1>4, <1>5, <1>13 DEF column, base

\* What is shown of an invoice with a total.
LEMMA ShownStatus ==
    ASSUME IInv, NEW i \in Existing \ restated, invoices[i].total > 0
    PROVE  LET shown == ListView(i)
           IN  /\ InColumn(i, "paid") <=> shown.status = "PAID"
               /\ InColumn(i, "sent") => shown.status \in {"SENT", "VIEWED", "PARTIALLY_PAID"}
               /\ InColumn(i, "overdue") => shown.status \in {"OVERDUE", "PARTIALLY_PAID"}
<1> DEFINE row == invoices[i]
           shown == DeriveInvoiceStatus(row.status, row.total, row.paid, Late(i))
<1>1. /\ row.status \in {"DRAFT", "SENT", "VIEWED", "PARTIALLY_PAID", "PAID", "CANCELLED"}
      /\ row.paid \in Nat /\ row.total \in Nat /\ row.total > 0
      /\ row.status \in {"DRAFT", "SENT", "VIEWED", "CANCELLED"} => row.paid = 0
      /\ row.status = "PARTIALLY_PAID" => row.paid > 0 /\ row.paid < row.total
      /\ row.status = "PAID" => row.paid = row.total
  BY StatusesOfExisting DEF StatusFits
<1>2. ListView(i).status = shown
  BY DEF ListView, InvoiceView
<1> HIDE DEF row
<1>3. /\ row.status \in {"DRAFT", "CANCELLED"} => shown = row.status
      /\ row.status \in {"SENT", "VIEWED"} => shown = IF Late(i) THEN "OVERDUE" ELSE row.status
      /\ row.status = "PARTIALLY_PAID" => shown = "PARTIALLY_PAID"
      /\ row.status = "PAID" => shown = "PAID"
  BY <1>1 DEF DeriveInvoiceStatus, DerivePaymentStatus
<1> QED
  BY <1>1, <1>2, <1>3 DEF row, InColumn, Awaited, Open

LEMMA ViewsHold == IInv => ViewsAgree
<1> SUFFICES ASSUME IInv, NEW i \in Existing
             PROVE  LET shown == ListView(i)
                    IN  /\ i \notin parted => DetailView(i) = shown
                        /\ i \notin restated /\ invoices[i].total > 0 =>
                              /\ InColumn(i, "paid") <=> shown.status = "PAID"
                              /\ InColumn(i, "sent") => shown.status \in {"SENT", "VIEWED", "PARTIALLY_PAID"}
                              /\ InColumn(i, "overdue") => shown.status \in {"OVERDUE", "PARTIALLY_PAID"}
  BY DEF ViewsAgree, Existing
<1>1. ASSUME i \notin parted PROVE DetailView(i) = ListView(i)
  BY <1>1 DEF DetailView, ListView, AmountFits, IInv
<1> QED
  BY <1>1, ShownStatus

(***************************************************************************)
(* Every invoice is in one column of the board (listInvoices), the summary *)
(* cards count their columns (countInvoiceSummary), and the views of an    *)
(* invoice (toInvoiceView) agree with each other unless a late write       *)
(* parted its amount from its payments, and with its column unless one     *)
(* replaced its status or contents.                                        *)
(***************************************************************************)
THEOREM BoardShowsAll == Spec => []BoardAgrees
BY BooksInvariance, BoardHolds, ViewsHold, PTL DEF BoardAgrees

(***************************************************************************)
(* What is counted.                                                        *)
(***************************************************************************)
LEMMA EverHoldsAll ==
    ASSUME IInv
    PROVE  /\ \A i \in Existing : invoices[i].date \in DaysOf(Ever) /\ invoices[i].due \in DaysOf(Ever)
           /\ \A p \in payments : p.day \in DaysOf(Ever)
<1>1. LastDay \in Nat /\ DaysOf(Ever) = 0 .. LastDay + 15 - 1
  BY BooksAssumption DEF Ever, DaysOf, Span
<1>2. ASSUME NEW i \in Existing
      PROVE  /\ invoices[i].date \in Nat /\ invoices[i].date <= LastDay + 14
             /\ invoices[i].due \in Nat /\ invoices[i].due <= LastDay + 14
  BY DEF IInv, TypeOK, Existing, Row, RowSound
<1>3. ASSUME NEW p \in payments PROVE p.day \in Nat /\ p.day <= LastDay
  BY DEF IInv, TypeOK, Payment, PaymentSound
<1> QED
  BY <1>1, <1>2, <1>3

LEMMA AllAreInEver ==
    ASSUME IInv, NEW sc
    PROVE  InvoicesIn(sc, Ever) = Selected(sc)
BY EverHoldsAll, SelectedFinite DEF InvoicesIn

\* A super administrator's dashboard of an organization.
LEMMA WholeDashboard ==
    ASSUME NEW u \in Users, users[u].role = "SUPER_ADMIN", NEW o \in Orgs, NEW sc \in DashboardScopes(u, o)
    PROVE  sc.org = o /\ sc.users = Users /\ sc.admin = None
BY AccessAssumption DEF DashboardScopes, ReportedOrganizations, AsActor, InvoiceUserScope, AdministratorOf

LEMMA CountsByStatus ==
    ASSUME IInv, NEW sc
    PROVE  LET counts == InvoiceCounts(sc, Ever)
           IN  /\ Cardinality(counts.all) = Cardinality(counts.unpaid) + Cardinality(counts.paid)
                     + Cardinality(counts.cancelled)
               /\ counts.unpaid = UNION {counts.draft, counts.sent, counts.viewed, counts.overdue, counts.partial}
<1> DEFINE all == InvoicesIn(sc, Ever)
           unpaid == Unpaid(all)
           paid == WithStatus(all, {"PAID"})
           cancelled == WithStatus(all, {"CANCELLED"})
           counts == InvoiceCounts(sc, Ever)
<1>1. all \subseteq Existing /\ IsFiniteSet(all)
  BY AllAreInEver, SelectedFinite
<1>2. counts.all = all /\ counts.unpaid = unpaid /\ counts.paid = paid /\ counts.cancelled = cancelled
  BY DEF InvoiceCounts
<1>3. /\ counts.draft = {i \in all : invoices[i].status = "DRAFT"}
      /\ counts.sent = {i \in all : invoices[i].status = "SENT"}
      /\ counts.viewed = {i \in all : invoices[i].status = "VIEWED" /\ ~Late(i)}
      /\ counts.overdue = {i \in all : Open(i) /\ Late(i)}
      /\ counts.partial = {i \in all : invoices[i].status = "PARTIALLY_PAID"}
  BY DEF InvoiceCounts, WithStatus
<1>4. unpaid = {i \in all : invoices[i].status \notin {"PAID", "CANCELLED"}}
  BY DEF Unpaid, WithStatus
<1>5. /\ paid = {i \in all : invoices[i].status = "PAID"}
      /\ cancelled = {i \in all : invoices[i].status = "CANCELLED"}
  BY DEF WithStatus
<1> HIDE DEF all, unpaid, paid, cancelled, counts
<1>6. counts.unpaid = UNION {counts.draft, counts.sent, counts.viewed, counts.overdue, counts.partial}
  <2>1. \A i \in unpaid : i \in counts.draft \/ i \in counts.sent \/ i \in counts.viewed
                             \/ i \in counts.overdue \/ i \in counts.partial
    <3> SUFFICES ASSUME NEW i \in unpaid
                 PROVE  \/ i \in counts.draft \/ i \in counts.sent \/ i \in counts.viewed
                        \/ i \in counts.overdue \/ i \in counts.partial
      OBVIOUS
    <3>1. i \in all /\ invoices[i].status \in {"DRAFT", "SENT", "VIEWED", "PARTIALLY_PAID"}
      BY <1>1, <1>4, StatusesOfExisting
    <3>2. invoices[i].status = "VIEWED" => Open(i)
      BY DEF Open
    <3> QED
      BY <1>3, <3>1, <3>2
  <2>2. /\ counts.draft \subseteq unpaid /\ counts.sent \subseteq unpaid /\ counts.viewed \subseteq unpaid
        /\ counts.overdue \subseteq unpaid /\ counts.partial \subseteq unpaid
    BY <1>3, <1>4 DEF Open
  <2> QED
    BY <1>2, <2>1, <2>2
<1>7. /\ all = unpaid \cup (paid \cup cancelled)
      /\ unpaid \cap (paid \cup cancelled) = {} /\ paid \cap cancelled = {}
  BY <1>4, <1>5
<1>8. IsFiniteSet(unpaid) /\ IsFiniteSet(paid) /\ IsFiniteSet(cancelled)
  BY <1>1, <1>4, <1>5, FS_Subset
<1>9. /\ IsFiniteSet(paid \cup cancelled)
      /\ Cardinality(paid \cup cancelled) = Cardinality(paid) + Cardinality(cancelled)
  BY <1>7, <1>8, CountsApart
<1>10. Cardinality(all) = Cardinality(unpaid) + Cardinality(paid \cup cancelled)
  BY <1>7, <1>8, <1>9, CountsApart
<1>11. Cardinality(unpaid) \in Nat /\ Cardinality(paid) \in Nat /\ Cardinality(cancelled) \in Nat
  BY <1>8, FS_CardinalityType
<1>12. Cardinality(all) = Cardinality(unpaid) + Cardinality(paid) + Cardinality(cancelled)
  BY <1>9, <1>10, <1>11
<1> QED
  BY <1>2, <1>6, <1>12 DEF counts

\* Nothing is in no group.
GroupsBy(groups, key, S) == groups = [k \in {key[x] : x \in S} |-> {x \in S : key[x] = k}]

LEMMA GroupsCover ==
    ASSUME NEW S, NEW key, NEW groups, GroupsBy(groups, key, S)
    PROVE  \A x : x \in S <=> \E k \in DOMAIN groups : x \in groups[k]
<1> USE DEF GroupsBy
<1>1. DOMAIN groups = {key[x] : x \in S}
  OBVIOUS
<1>2. \A k \in DOMAIN groups : groups[k] \subseteq S
  OBVIOUS
<1>3. \A x \in S : key[x] \in DOMAIN groups /\ x \in groups[key[x]]
  OBVIOUS
<1> QED
  BY <1>2, <1>3

LEMMA CountsHold == IInv => CountsAgree
<1> SUFFICES ASSUME IInv, NEW u \in {v \in Users : users[v].role = "SUPER_ADMIN"}, NEW o \in Orgs,
                    NEW sc \in DashboardScopes(u, o)
             PROVE  LET counts == InvoiceCounts(sc, Ever)
                        overview == OrganizationOverview(o)
                        mails == EmailDelivery(sc, Ever)
                        statuses == StatusReport(sc, Ever)
                        people == PeopleCounts(sc)
                    IN  /\ overview.invoices = counts.all
                        /\ overview.customers = CustomerCount(sc, Ever)
                        /\ overview.admins = people.admins /\ overview.members = people.members
                        /\ counts.all = UNION {mails[k] : k \in DOMAIN mails}
                        /\ counts.all = UNION {statuses[k] : k \in DOMAIN statuses}
                        /\ Cardinality(counts.all) = Cardinality(counts.unpaid) + Cardinality(counts.paid)
                              + Cardinality(counts.cancelled)
                        /\ counts.unpaid = UNION {counts.draft, counts.sent, counts.viewed, counts.overdue, counts.partial}
  BY DEF CountsAgree
<1> DEFINE all == InvoicesIn(sc, Ever)
<1>1. sc.org = o /\ sc.users = Users /\ sc.admin = None /\ o # None
  BY WholeDashboard, AccessAssumption
<1>2. InvoiceCounts(sc, Ever).all = all
  BY DEF InvoiceCounts
<1>3. OrganizationOverview(o).invoices = all
  BY <1>1, AllAreInEver DEF OrganizationOverview, Selected, Scope
<1>4. OrganizationOverview(o).customers = CustomerCount(sc, Ever)
  BY <1>1 DEF OrganizationOverview, CustomerCount
<1>5. /\ OrganizationOverview(o).admins = PeopleCounts(sc).admins
      /\ OrganizationOverview(o).members = PeopleCounts(sc).members
  BY <1>1 DEF OrganizationOverview, PeopleCounts
<1> HIDE DEF all
<1>6. LET mails == EmailDelivery(sc, Ever) IN all = UNION {mails[k] : k \in DOMAIN mails}
  <2>1. EmailDelivery(sc, Ever) = [k \in {invoices[i].mail : i \in all} |-> {i \in all : invoices[i].mail = k}]
    BY DEF EmailDelivery, GroupBy, all
  <2> DEFINE key == [i \in all |-> invoices[i].mail]
  <2>2. /\ {invoices[i].mail : i \in all} = {key[i] : i \in all}
        /\ \A k : {i \in all : invoices[i].mail = k} = {i \in all : key[i] = k}
    OBVIOUS
  <2>3. EmailDelivery(sc, Ever) = [k \in {key[i] : i \in all} |-> {i \in all : key[i] = k}]
    BY <2>1, <2>2
  <2>4. GroupsBy(EmailDelivery(sc, Ever), key, all)
    BY <2>3 DEF GroupsBy
  <2> HIDE DEF key
  <2>5. \A i : i \in all <=> \E k \in DOMAIN EmailDelivery(sc, Ever) : i \in EmailDelivery(sc, Ever)[k]
    BY <2>4, GroupsCover
  <2> QED
    BY <2>5
<1>7. LET statuses == StatusReport(sc, Ever) IN all = UNION {statuses[k] : k \in DOMAIN statuses}
  <2>1. StatusReport(sc, Ever) = [k \in {invoices[i].status : i \in all} |-> {i \in all : invoices[i].status = k}]
    BY DEF StatusReport, GroupBy, all
  <2> DEFINE key == [i \in all |-> invoices[i].status]
  <2>2. /\ {invoices[i].status : i \in all} = {key[i] : i \in all}
        /\ \A k : {i \in all : invoices[i].status = k} = {i \in all : key[i] = k}
    OBVIOUS
  <2>3. StatusReport(sc, Ever) = [k \in {key[i] : i \in all} |-> {i \in all : key[i] = k}]
    BY <2>1, <2>2
  <2>4. GroupsBy(StatusReport(sc, Ever), key, all)
    BY <2>3 DEF GroupsBy
  <2> HIDE DEF key
  <2>5. \A i : i \in all <=> \E k \in DOMAIN StatusReport(sc, Ever) : i \in StatusReport(sc, Ever)[k]
    BY <2>4, GroupsCover
  <2> QED
    BY <2>5
<1> QED
  BY <1>2, <1>3, <1>4, <1>5, <1>6, <1>7, CountsByStatus

\* Whoever owes something was sent the invoice, or its repetition failed.
LEMMA CustomersHold == IInv => CustomersSplit
<1> SUFFICES ASSUME IInv, NEW u \in {v \in Users : users[v].role \in {"SUPER_ADMIN", "MEMBER"}},
                    NEW requested \in Orgs,
                    NEW all \in CustomerLists(u, requested, "ALL"),
                    NEW new \in CustomerLists(u, requested, "NEW"),
                    NEW old \in CustomerLists(u, requested, "OLD")
             PROVE  /\ new \cup old = all /\ new \cap old = {}
                    /\ \A i \in Invoices : Exists(i) /\ Open(i) /\ invoices[i].customer \in all =>
                          LET owes == invoices[i].customer
                          IN  \/ owes \in old /\ UnsentShown(owes) = {}
                              \/ owes \in new /\ invoices[i].mail = "FAILED" /\ i \in UnsentShown(owes)
  BY DEF CustomersSplit
<1> DEFINE actor == AsActor(users, u)
           administrator == AdministratorOf(users, actor)
<1>1. \A o, p \in ScopedTenants(actor, requested, Active) : o = p
  <2>1. CASE users[u].role = "SUPER_ADMIN"
    BY <2>1, AccessAssumption DEF ScopedTenants, AsActor
  <2>2. CASE users[u].role = "MEMBER"
    BY <2>2, TenantsOfLimited DEF Limited
  <2> QED
    BY <2>1, <2>2
<1>2. PICK o \in ScopedTenants(actor, requested, Active) :
         /\ all = CustomerList(o, administrator, "ALL")
         /\ new = CustomerList(o, administrator, "NEW")
         /\ old = CustomerList(o, administrator, "OLD")
  BY <1>1 DEF CustomerLists
<1>3. /\ new = {c \in CustomersOf(o, administrator) : ~Mailed(c)}
      /\ old = {c \in CustomersOf(o, administrator) : Mailed(c)}
  BY <1>2 DEF CustomerList
<1>4. all = CustomersOf(o, administrator)
  BY <1>2 DEF CustomerList
<1>5. new \cup old = all /\ new \cap old = {}
  BY <1>3, <1>4
<1>6. ASSUME NEW i \in Invoices, Exists(i), Open(i), invoices[i].customer \in all
      PROVE  LET owes == invoices[i].customer
             IN  \/ owes \in old /\ UnsentShown(owes) = {}
                 \/ owes \in new /\ invoices[i].mail = "FAILED" /\ i \in UnsentShown(owes)
  <2> DEFINE c == invoices[i].customer
  <2>1. invoices[i].mail \in {"SENT", "FAILED"} /\ invoices[i].status # "CANCELLED"
    <3>1. i \in Existing /\ invoices[i] \in Row
      BY <1>6 DEF Existing, IInv, TypeOK
    <3> QED
      BY <1>6, <3>1, StatusesOfExisting DEF Open, RowSound, Row, MailStatuses
  <2>2. CASE Mailed(c)
    BY <1>3, <1>4, <1>6, <2>2 DEF UnsentShown
  <2>3. CASE ~Mailed(c)
    <3>1. invoices[i].mail = "FAILED"
      BY <2>1, <2>3 DEF Mailed
    <3>2. i \in UnsentShown(c)
      BY <2>1, <2>3, <3>1 DEF UnsentShown, UnsentInvoices
    <3> QED
      BY <1>3, <1>4, <1>6, <2>3, <3>1, <3>2
  <2> QED
    BY <2>2, <2>3
<1> QED
  BY <1>5, <1>6

(***************************************************************************)
(* The counts of the dashboard, of the overview of an organization and of  *)
(* the report by status agree, and a customer is new or old                *)
(* (buildCustomerWhere); who owes something is new again only where a      *)
(* repeated mail of the invoice failed.                                    *)
(***************************************************************************)
THEOREM CountsMatch == Spec => []CountsMakeUp
BY BooksInvariance, CountsHold, CustomersHold, PTL DEF CountsMakeUp

(***************************************************************************)
(* What is added up.                                                       *)
(***************************************************************************)
LEMMA PaymentsFinite ==
    ASSUME IInv, NEW P \in SUBSET payments
    PROVE  IsFiniteSet(P) /\ \A p \in P : p \in Payment /\ p.amount \in Nat
BY FS_Subset DEF IInv, TypeOK, Payment

\* What the invoices I say was paid is what came in on them.
LEMMA InvoicesArePaid ==
    ASSUME IInv, NEW I \in SUBSET (Existing \ parted)
    PROVE  AmountsPaid(I) = Amounts({p \in Received : p.invoice \in I})
<1> DEFINE P == {p \in Received : p.invoice \in I}
           amount == [p \in P |-> p.amount]
           key == [p \in P |-> p.invoice]
           total == [i \in I |-> invoices[i].paid]
<1>1. IsFiniteSet(P) /\ \A p \in P : amount[p] \in Nat /\ key[p] \in I
  BY PaymentsFinite, ReceivedIsSome
<1> DEFINE group == [i \in I |-> Completed(i)]
           own == [i \in I |-> [p \in Completed(i) |-> p.amount]]
<1>2. ASSUME NEW i \in I
      PROVE  /\ \A p : p \in group[i] <=> p \in P /\ key[p] = i
             /\ \A p \in group[i] : own[i][p] = amount[p]
             /\ total[i] = SumOf(own[i], group[i])
  <2>1. \A p : p \in Completed(i) <=> p \in P /\ key[p] = i
    BY DEF PaymentsOf, Completed, Received
  <2>2. total[i] = Amounts(Completed(i))
    BY DEF IInv, AmountFits
  <2> QED
    BY <2>1, <2>2 DEF Amounts, SumOver
<1>3. AmountsPaid(I) = SumOf(total, I) /\ Amounts(P) = SumOf(amount, P)
  BY DEF AmountsPaid, Amounts, SumOver
<1> HIDE DEF P, amount, key, total, group, own
<1>4. Grouped(P, amount, I, key, group, own, total)
  BY <1>1, <1>2 DEF Grouped
<1>5. SumOf(total, I) = SumOf(amount, P)
  BY <1>4, SumOfGroups
<1> QED
  BY <1>3, <1>5 DEF P

\* The payments of a dashboard are those on its invoices.
LEMMA RevenueRows ==
    ASSUME IInv, NEW sc
    PROVE  PaymentsIn(sc, Ever) = {p \in Received : p.invoice \in Selected(sc)}
<1>1. ASSUME NEW p \in PaymentsIn(sc, Ever) PROVE p \in Received /\ p.invoice \in Selected(sc)
  BY PaymentsAreSelected DEF PaymentsIn, InOrganization
<1>2. ASSUME NEW p \in Received, p.invoice \in Selected(sc) PROVE p \in PaymentsIn(sc, Ever)
  BY <1>2, EverHoldsAll, PaidInvoiceExists, SelectedExists, ReceivedIsSome DEF PaymentsIn, InOrganization
<1> QED
  BY <1>1, <1>2

LEMMA RevenueOfCurrency ==
    ASSUME IInv, NEW sc, Selected(sc) \cap parted = {}, NEW c
    PROVE  AmountsPaid({i \in Selected(sc) : invoices[i].currency = c})
              = Amounts({p \in PaymentsIn(sc, Ever) : p.currency = c})
<1> DEFINE I == {i \in Selected(sc) : invoices[i].currency = c}
<1>1. I \in SUBSET (Existing \ parted)
  BY SelectedFinite
<1>2. {p \in PaymentsIn(sc, Ever) : p.currency = c} = {p \in Received : p.invoice \in I}
  BY RevenueRows, PaidInvoiceExists, ReceivedIsSome
<1> HIDE DEF I
<1> QED
  BY <1>1, <1>2, InvoicesArePaid DEF I

\* The currencies of a dashboard's revenue add up to all that came in.
LEMMA RevenueAddsUp ==
    ASSUME IInv, NEW sc, Selected(sc) \cap parted = {}
    PROVE  SumOfValues(RevenueByCurrency(sc, Ever)) = AmountsPaid(Selected(sc))
<1> DEFINE P == PaymentsIn(sc, Ever)
           revenue == RevenueByCurrency(sc, Ever)
           amount == [p \in P |-> p.amount]
           key == [p \in P |-> p.currency]
           K == {p.currency : p \in P}
           total == [k \in DOMAIN revenue |-> revenue[k]]
<1>1. P \in SUBSET payments
  BY ReceivedIsSome DEF PaymentsIn, InOrganization
<1>2. IsFiniteSet(P) /\ \A p \in P : amount[p] \in Nat
  BY <1>1, PaymentsFinite
<1>3. revenue = [k \in {p.currency : p \in P} |-> Amounts({p \in P : p.currency = k})]
  BY DEF RevenueByCurrency, GroupBy
<1> DEFINE group == [k \in K |-> {p \in P : p.currency = k}]
           own == [k \in K |-> [p \in group[k] |-> p.amount]]
<1>4. DOMAIN revenue = K /\ \A k \in K : total[k] = Amounts(group[k])
  BY <1>3
<1>5. ASSUME NEW k \in K
      PROVE  /\ \A p : p \in group[k] <=> p \in P /\ key[p] = k
             /\ \A p \in group[k] : own[k][p] = amount[p]
             /\ total[k] = SumOf(own[k], group[k])
  <2>1. \A p : p \in group[k] <=> p \in P /\ key[p] = k
    OBVIOUS
  <2>2. own[k] = [p \in group[k] |-> p.amount]
    OBVIOUS
  <2>3. \A p \in group[k] : own[k][p] = amount[p]
    OBVIOUS
  <2> HIDE DEF group, own, total
  <2> QED
    BY <1>4, <2>1, <2>2, <2>3 DEF Amounts, SumOver
<1>6. SumOfValues(revenue) = SumOf(total, K)
  BY <1>4 DEF SumOfValues, SumOver
<1>7. Amounts(P) = SumOf(amount, P)
  BY DEF Amounts, SumOver
<1>8. Amounts(P) = AmountsPaid(Selected(sc))
  <2>1. Selected(sc) \in SUBSET (Existing \ parted)
    BY SelectedFinite
  <2> QED
    BY <2>1, RevenueRows, InvoicesArePaid
<1>9. \A p \in P : key[p] \in K
  OBVIOUS
<1> HIDE DEF P, revenue, amount, key, total, K, group, own
<1>10. Grouped(P, amount, K, key, group, own, total)
  BY <1>2, <1>5, <1>9 DEF Grouped
<1>11. SumOf(total, K) = SumOf(amount, P)
  BY <1>10, SumOfGroups
<1> QED
  BY <1>6, <1>7, <1>8, <1>11 DEF revenue

\* What invoices come to, and what was paid on them, add up by groups.
LEMMA PaidOfGroups ==
    ASSUME IInv, NEW S \in SUBSET Existing, NEW key, NEW K, \A i \in S : key[i] \in K,
           NEW group, \A k \in K : group[k] = {i \in S : key[i] = k},
           NEW total, \A k \in K : total[k] = AmountsPaid(group[k])
    PROVE  SumOf(total, K) = AmountsPaid(S)
<1> DEFINE amount == [i \in S |-> invoices[i].paid]
           own == [k \in K |-> [i \in group[k] |-> invoices[i].paid]]
<1>1. IsFiniteSet(S) /\ \A i \in S : amount[i] \in Nat /\ key[i] \in K
  BY FS_Subset, StatusesOfExisting DEF IInv
<1>2. ASSUME NEW k \in K
      PROVE  /\ \A i : i \in group[k] <=> i \in S /\ key[i] = k
             /\ \A i \in group[k] : own[k][i] = amount[i]
             /\ total[k] = SumOf(own[k], group[k])
  <2>1. \A i : i \in group[k] <=> i \in S /\ key[i] = k
    OBVIOUS
  <2>2. own[k] = [i \in group[k] |-> invoices[i].paid]
    OBVIOUS
  <2>3. \A i \in group[k] : own[k][i] = amount[i]
    BY <2>1
  <2>4. total[k] = AmountsPaid(group[k])
    OBVIOUS
  <2> HIDE DEF own, amount
  <2> QED
    BY <2>1, <2>2, <2>3, <2>4 DEF AmountsPaid, SumOver
<1>3. AmountsPaid(S) = SumOf(amount, S)
  BY DEF AmountsPaid, SumOver
<1> HIDE DEF amount, own
<1>4. Grouped(S, amount, K, key, group, own, total)
  BY <1>1, <1>2 DEF Grouped
<1> QED
  BY <1>3, <1>4, SumOfGroups

LEMMA TotalsOfGroups ==
    ASSUME IInv, NEW S \in SUBSET Existing, NEW key, NEW K, \A i \in S : key[i] \in K,
           NEW group, \A k \in K : group[k] = {i \in S : key[i] = k},
           NEW total, \A k \in K : total[k] = Totals(group[k])
    PROVE  SumOf(total, K) = Totals(S)
<1> DEFINE amount == [i \in S |-> invoices[i].total]
           own == [k \in K |-> [i \in group[k] |-> invoices[i].total]]
<1>1. IsFiniteSet(S) /\ \A i \in S : amount[i] \in Nat /\ key[i] \in K
  BY FS_Subset, StatusesOfExisting DEF IInv
<1>2. ASSUME NEW k \in K
      PROVE  /\ \A i : i \in group[k] <=> i \in S /\ key[i] = k
             /\ \A i \in group[k] : own[k][i] = amount[i]
             /\ total[k] = SumOf(own[k], group[k])
  <2>1. \A i : i \in group[k] <=> i \in S /\ key[i] = k
    OBVIOUS
  <2>2. own[k] = [i \in group[k] |-> invoices[i].total]
    OBVIOUS
  <2>3. \A i \in group[k] : own[k][i] = amount[i]
    BY <2>1
  <2>4. total[k] = Totals(group[k])
    OBVIOUS
  <2> HIDE DEF own, amount
  <2> QED
    BY <2>1, <2>2, <2>3, <2>4 DEF Totals, SumOver
<1>3. Totals(S) = SumOf(amount, S)
  BY DEF Totals, SumOver
<1> HIDE DEF amount, own
<1>4. Grouped(S, amount, K, key, group, own, total)
  BY <1>1, <1>2 DEF Grouped
<1> QED
  BY <1>3, <1>4, SumOfGroups

PerformanceBy(groups, key, S) ==
    groups = [k \in {key[i] : i \in S} |-> Performance({i \in S : key[i] = k})]

LEMMA PerformanceAddsUp ==
    ASSUME IInv, NEW S \in SUBSET Existing, NEW key, NEW groups, PerformanceBy(groups, key, S)
    PROVE  Collected(groups) = AmountsPaid(S) /\ SumOfBalances(groups) = Balances(S)
<1> USE DEF PerformanceBy
<1> DEFINE K == {key[i] : i \in S}
           group == [k \in K |-> {i \in S : key[i] = k}]
           paid == [k \in K |-> groups[k].paid]
           total == [k \in K |-> groups[k].total]
<1>1. DOMAIN groups = K /\ \A k \in K : group[k] = {i \in S : key[i] = k}
  OBVIOUS
<1>2. \A k \in K : groups[k] = Performance(group[k])
  OBVIOUS
<1>3. \A k \in K : paid[k] = AmountsPaid(group[k]) /\ total[k] = Totals(group[k])
  BY <1>2 DEF Performance
<1>4. \A i \in S : key[i] \in K
  OBVIOUS
<1>5. /\ Collected(groups) = SumOf(paid, K)
      /\ SumOfBalances(groups) = [total |-> SumOf(total, K), paid |-> SumOf(paid, K)]
  BY <1>1 DEF Collected, SumOfBalances, SumOver
<1> HIDE DEF group, paid, total, K
<1>6. SumOf(paid, K) = AmountsPaid(S)
  BY <1>1, <1>3, <1>4, PaidOfGroups
<1>7. SumOf(total, K) = Totals(S)
  BY <1>1, <1>3, <1>4, TotalsOfGroups
<1> QED
  BY <1>5, <1>6, <1>7 DEF Balances

\* Finitely many groups, each with an amount.
Summable(groups) == IsFiniteSet(DOMAIN groups) /\ \A k \in DOMAIN groups : groups[k].paid \in Nat

LEMMA PerformanceSummable ==
    ASSUME IInv, NEW S \in SUBSET Existing, NEW key, NEW groups, PerformanceBy(groups, key, S)
    PROVE  Summable(groups)
<1> USE DEF PerformanceBy
<1> DEFINE K == {key[i] : i \in S}
           f == [i \in S |-> key[i]]
<1>1. IsFiniteSet(S) /\ \A i \in S : invoices[i].paid \in Nat
  BY FS_Subset, StatusesOfExisting DEF IInv
<1>2. f \in Surjection(S, K)
  BY DEF Surjection
<1>3. IsFiniteSet(K)
  BY <1>1, <1>2, FS_Surjection
<1>4. ASSUME NEW T \in SUBSET S PROVE AmountsPaid(T) \in Nat
  <2> DEFINE amount == [i \in T |-> invoices[i].paid]
  <2>1. IsFiniteSet(T) /\ \A i \in T : amount[i] \in Nat
    BY <1>1, FS_Subset
  <2>2. AmountsPaid(T) = SumOf(amount, T)
    BY DEF AmountsPaid, SumOver
  <2> HIDE DEF amount
  <2> QED
    BY <2>1, <2>2, SumNat
<1>5. DOMAIN groups = K /\ \A k \in K : groups[k].paid = AmountsPaid({i \in S : key[i] = k})
  BY DEF Performance
<1> QED
  BY <1>3, <1>4, <1>5 DEF Summable

\* The groups of a dashboard, by member, customer and organization.
LEMMA GroupsArePaid ==
    ASSUME IInv, NEW sc,
           NEW groups \in {MemberPerformance(sc, Ever), CustomerTable(sc, Ever), OrganizationTable(sc, Ever)}
    PROVE  Collected(groups) = AmountsPaid(Selected(sc)) /\ Summable(groups)
<1> DEFINE S == Selected(sc)
           member == [i \in S |-> invoices[i].assignee]
           customer == [i \in S |-> invoices[i].customer]
           org == [i \in S |-> invoices[i].org]
<1>1. S \in SUBSET Existing /\ InvoicesIn(sc, Ever) = S
  BY AllAreInEver, SelectedFinite
<1>2. CASE groups = MemberPerformance(sc, Ever)
  <2>1. groups = [k \in {invoices[i].assignee : i \in S} |-> Performance({i \in S : invoices[i].assignee = k})]
    BY <1>1, <1>2 DEF MemberPerformance, GroupBy
  <2>2. /\ {invoices[i].assignee : i \in S} = {member[i] : i \in S}
        /\ \A k : {i \in S : invoices[i].assignee = k} = {i \in S : member[i] = k}
    OBVIOUS
  <2>3. PerformanceBy(groups, member, S)
    BY <2>1, <2>2 DEF PerformanceBy
  <2> HIDE DEF member, S
  <2> QED
    BY <1>1, <2>3, PerformanceAddsUp, PerformanceSummable DEF S
<1>3. CASE groups = CustomerTable(sc, Ever)
  <2>1. groups = [k \in {invoices[i].customer : i \in S} |-> Performance({i \in S : invoices[i].customer = k})]
    BY <1>1, <1>3 DEF CustomerTable, GroupBy
  <2>2. /\ {invoices[i].customer : i \in S} = {customer[i] : i \in S}
        /\ \A k : {i \in S : invoices[i].customer = k} = {i \in S : customer[i] = k}
    OBVIOUS
  <2>3. PerformanceBy(groups, customer, S)
    BY <2>1, <2>2 DEF PerformanceBy
  <2> HIDE DEF customer, S
  <2> QED
    BY <1>1, <2>3, PerformanceAddsUp, PerformanceSummable DEF S
<1>4. CASE groups = OrganizationTable(sc, Ever)
  <2>1. groups = [k \in {invoices[i].org : i \in S} |-> Performance({i \in S : invoices[i].org = k})]
    BY <1>1, <1>4 DEF OrganizationTable, GroupBy
  <2>2. /\ {invoices[i].org : i \in S} = {org[i] : i \in S}
        /\ \A k : {i \in S : invoices[i].org = k} = {i \in S : org[i] = k}
    OBVIOUS
  <2>3. PerformanceBy(groups, org, S)
    BY <2>1, <2>2 DEF PerformanceBy
  <2> HIDE DEF org, S
  <2> QED
    BY <1>1, <2>3, PerformanceAddsUp, PerformanceSummable DEF S
<1> QED
  BY <1>2, <1>3, <1>4

\* A list of some rows of a table comes to no more than the table.
SomeOf(list, table) == \E K \in SUBSET DOMAIN table : list = [k \in K |-> table[k]]

LEMMA ListsOfTables ==
    ASSUME NEW sc
    PROVE  /\ \A list \in TopCustomers(sc, Ever) : SomeOf(list, CustomerTable(sc, Ever))
           /\ \A list \in OrganizationActivity(sc, Ever) : SomeOf(list, OrganizationTable(sc, Ever))
BY DEF TopCustomers, OrganizationActivity, Best, Taken, SomeOf

LEMMA ListComesToNoMore ==
    ASSUME NEW table, Summable(table), NEW list, SomeOf(list, table)
    PROVE  IF DOMAIN list = DOMAIN table THEN Collected(list) = Collected(table)
           ELSE Collected(list) <= Collected(table)
<1>1. PICK K \in SUBSET DOMAIN table : list = [k \in K |-> table[k]]
  BY DEF SomeOf
<1> DEFINE f == [k \in DOMAIN table |-> table[k].paid]
           g == [k \in K |-> list[k].paid]
<1>2. /\ IsFiniteSet(DOMAIN table) /\ \A k \in DOMAIN table : f[k] \in Nat
      /\ \A k \in K : g[k] = f[k]
  BY <1>1 DEF Summable
<1>3. DOMAIN list = K
  BY <1>1
<1>4. Collected(table) = SumOf(f, DOMAIN table) /\ Collected(list) = SumOf(g, K)
  BY <1>3 DEF Collected, SumOver
<1> HIDE DEF f, g
<1>5. SumOf(g, K) <= SumOf(f, DOMAIN table)
  BY <1>2, SumShrink
<1>6. K = DOMAIN table => SumOf(g, K) = SumOf(f, DOMAIN table)
  BY <1>2, SumSame
<1> QED
  BY <1>3, <1>4, <1>5, <1>6

(***************************************************************************)
(* Revenue, which the dashboard sums from payments, is in each currency    *)
(* what the invoices say was paid, and so are its groups by member,        *)
(* customer and organization; a list of the best of them comes to no more. *)
(* Of the invoices it covers, none was parted from its payments by a late  *)
(* write: whatever else was refused, repeated or refunded is counted.      *)
(***************************************************************************)
THEOREM RevenueIsWhatWasPaid == Spec => []RevenueIsPaid
<1>1. ASSUME IInv PROVE RevenueIsPaid
  <2> SUFFICES ASSUME NEW sc, Selected(sc) \cap parted = {}
               PROVE  LET revenue == RevenueByCurrency(sc, Ever)
                          all == SumOfValues(revenue)
                          paidIn(c) == AmountsPaid({i \in Selected(sc) : invoices[i].currency = c})
                          fits(list, table) ==
                              IF DOMAIN list = DOMAIN table THEN Collected(list) = all ELSE Collected(list) <= all
                      IN  /\ \A c \in Currencies : paidIn(c) = IF c \in DOMAIN revenue THEN revenue[c] ELSE 0
                          /\ Collected(MemberPerformance(sc, Ever)) = all
                          /\ \A list \in TopCustomers(sc, Ever) : fits(list, CustomerTable(sc, Ever))
                          /\ \A list \in OrganizationActivity(sc, Ever) : fits(list, OrganizationTable(sc, Ever))
    BY DEF RevenueIsPaid
  <2> DEFINE revenue == RevenueByCurrency(sc, Ever)
             all == SumOfValues(revenue)
             P == PaymentsIn(sc, Ever)
  <2>1. revenue = [k \in {p.currency : p \in P} |-> Amounts({p \in P : p.currency = k})]
    BY DEF RevenueByCurrency, GroupBy
  <2>2. ASSUME NEW c
        PROVE  AmountsPaid({i \in Selected(sc) : invoices[i].currency = c})
                  = IF c \in DOMAIN revenue THEN revenue[c] ELSE 0
    <3>1. AmountsPaid({i \in Selected(sc) : invoices[i].currency = c}) = Amounts({p \in P : p.currency = c})
      BY <1>1, RevenueOfCurrency
    <3>2. CASE c \in DOMAIN revenue
      BY <2>1, <3>1, <3>2
    <3>3. CASE c \notin DOMAIN revenue
      <4>1. {p \in P : p.currency = c} = {}
        BY <2>1, <3>3
      <4> QED
        BY <3>1, <3>3, <4>1, NoAmounts
    <3> QED
      BY <3>2, <3>3
  <2>3. all = AmountsPaid(Selected(sc))
    BY <1>1, RevenueAddsUp
  <2>4. ASSUME NEW groups \in {MemberPerformance(sc, Ever), CustomerTable(sc, Ever),
                               OrganizationTable(sc, Ever)}
        PROVE  Collected(groups) = all /\ Summable(groups)
    BY <1>1, <2>3, GroupsArePaid
  <2>5. ASSUME NEW list, NEW table \in {CustomerTable(sc, Ever), OrganizationTable(sc, Ever)},
               SomeOf(list, table)
        PROVE  IF DOMAIN list = DOMAIN table THEN Collected(list) = all ELSE Collected(list) <= all
    <3>1. Collected(table) = all /\ Summable(table)
      BY <2>4
    <3> HIDE DEF all
    <3> QED
      BY <2>5, <3>1, ListComesToNoMore
  <2> HIDE DEF revenue, P, all
  <2>6. Collected(MemberPerformance(sc, Ever)) = all
    BY <2>4
  <2>7. /\ \A list \in TopCustomers(sc, Ever) :
              IF DOMAIN list = DOMAIN CustomerTable(sc, Ever) THEN Collected(list) = all ELSE Collected(list) <= all
        /\ \A list \in OrganizationActivity(sc, Ever) :
              IF DOMAIN list = DOMAIN OrganizationTable(sc, Ever) THEN Collected(list) = all ELSE Collected(list) <= all
    BY <2>5, ListsOfTables
  <2> QED
    BY <2>2, <2>6, <2>7 DEF revenue, all
<1> QED
  BY <1>1, BooksInvariance, PTL

\* Balances by a key of the rows: every row has one of the keys.
BalancesBy(sums, key, S) ==
    /\ \A i \in S : key[i] \in DOMAIN sums
    /\ \A k \in DOMAIN sums : sums[k] = Balances({i \in S : key[i] = k})

LEMMA BalancesAddUp ==
    ASSUME IInv, NEW S \in SUBSET Existing, NEW key, NEW sums, BalancesBy(sums, key, S)
    PROVE  SumOfBalances(sums) = Balances(S)
<1> DEFINE K == DOMAIN sums
           group == [k \in K |-> {i \in S : key[i] = k}]
           paid == [k \in K |-> sums[k].paid]
           total == [k \in K |-> sums[k].total]
<1>1. \A k \in K : group[k] = {i \in S : key[i] = k}
  OBVIOUS
<1>2. \A k \in K : sums[k] = Balances(group[k])
  BY DEF BalancesBy
<1>3. \A k \in K : paid[k] = AmountsPaid(group[k]) /\ total[k] = Totals(group[k])
  BY <1>2 DEF Balances
<1>4. \A i \in S : key[i] \in K
  BY DEF BalancesBy
<1>5. SumOfBalances(sums) = [total |-> SumOf(total, K), paid |-> SumOf(paid, K)]
  BY DEF SumOfBalances, SumOver
<1> HIDE DEF group, paid, total, K
<1>6. SumOf(paid, K) = AmountsPaid(S)
  BY <1>1, <1>3, <1>4, PaidOfGroups
<1>7. SumOf(total, K) = Totals(S)
  BY <1>1, <1>3, <1>4, TotalsOfGroups
<1> QED
  BY <1>5, <1>6, <1>7 DEF Balances

\* A sum of balances by currency is the balance of the rows.
LEMMA CurrenciesAddUp ==
    ASSUME IInv, NEW S \in SUBSET Existing, NEW sums,
           sums = [k \in {invoices[i].currency : i \in S} |->
                      Balances({i \in S : invoices[i].currency = k})]
    PROVE  SumOfBalances(sums) = Balances(S)
<1> DEFINE key == [i \in S |-> invoices[i].currency]
<1>1. /\ {invoices[i].currency : i \in S} = {key[i] : i \in S}
      /\ \A k : {i \in S : invoices[i].currency = k} = {i \in S : key[i] = k}
  OBVIOUS
<1>2. BalancesBy(sums, key, S)
  BY <1>1 DEF BalancesBy
<1> HIDE DEF key
<1> QED
  BY <1>2, BalancesAddUp

\* The rows of two sets that have none in common come to what both come to.
LEMMA RowsApart ==
    ASSUME IInv, NEW S \in SUBSET Existing, NEW T \in SUBSET Existing, S \cap T = {}
    PROVE  /\ Totals(S \cup T) = Totals(S) + Totals(T)
           /\ AmountsPaid(S \cup T) = AmountsPaid(S) + AmountsPaid(T)
<1> DEFINE total == [i \in S \cup T |-> invoices[i].total]
           paid == [i \in S \cup T |-> invoices[i].paid]
<1>1. IsFiniteSet(S) /\ IsFiniteSet(T)
  BY FS_Subset DEF IInv
<1>2. \A i \in S \cup T : total[i] \in Nat /\ paid[i] \in Nat
  BY StatusesOfExisting
<1>3. ASSUME NEW U \in SUBSET (S \cup T)
      PROVE  Totals(U) = SumOf(total, U) /\ AmountsPaid(U) = SumOf(paid, U)
  <2> DEFINE f == [i \in U |-> invoices[i].total]
             g == [i \in U |-> invoices[i].paid]
  <2>1. \A i \in U : f[i] = total[i] /\ g[i] = paid[i]
    OBVIOUS
  <2>2. Totals(U) = SumOf(f, U) /\ AmountsPaid(U) = SumOf(g, U)
    BY DEF Totals, AmountsPaid, SumOver
  <2> HIDE DEF f, g, total, paid
  <2> QED
    BY <2>1, <2>2, SumSame
<1> HIDE DEF total, paid
<1>4. SumOf(total, S \cup T) = SumOf(total, S) + SumOf(total, T)
  BY <1>1, <1>2, SumApart
<1>5. SumOf(paid, S \cup T) = SumOf(paid, S) + SumOf(paid, T)
  BY <1>1, <1>2, SumApart
<1>6. /\ Totals(S \cup T) = SumOf(total, S \cup T) /\ AmountsPaid(S \cup T) = SumOf(paid, S \cup T)
      /\ Totals(S) = SumOf(total, S) /\ AmountsPaid(S) = SumOf(paid, S)
      /\ Totals(T) = SumOf(total, T) /\ AmountsPaid(T) = SumOf(paid, T)
  BY <1>3
<1> QED
  BY <1>4, <1>5, <1>6

\* Apart from what is late, what is open is awaited.
LEMMA OpenIsLateOrAwaited ==
    ASSUME IInv, NEW S \in SUBSET Existing
    PROVE  LET late == Balances({i \in S : Open(i) /\ Late(i)})
               awaited == Balances({i \in S : Awaited(i)})
           IN  Balances({i \in S : Open(i)})
                  = [total |-> late.total + awaited.total, paid |-> late.paid + awaited.paid]
<1> DEFINE late == {i \in S : Open(i) /\ Late(i)}
           awaited == {i \in S : Awaited(i)}
           open == {i \in S : Open(i)}
<1>1. open = late \cup awaited /\ late \cap awaited = {}
  BY StatusesOfExisting DEF Open, Awaited
<1>2. late \in SUBSET Existing /\ awaited \in SUBSET Existing
  OBVIOUS
<1> HIDE DEF late, awaited, open
<1>3. /\ Totals(open) = Totals(late) + Totals(awaited)
      /\ AmountsPaid(open) = AmountsPaid(late) + AmountsPaid(awaited)
  BY <1>1, <1>2, RowsApart
<1> QED
  BY <1>3 DEF Balances, late, awaited, open

LEMMA OpenBalancesHold == IInv => OpenBalancesAgree
<1> SUFFICES ASSUME IInv, NEW sc
             PROVE  LET cards == Summary(sc)
                        overdue == Balances(cards.overdue)
                        awaited == Balances(cards.awaitingPayment)
                        owed == [total |-> overdue.total + awaited.total, paid |-> overdue.paid + awaited.paid]
                    IN  /\ owed = SumOfBalances(OutstandingByCurrency(sc, Ever))
                        /\ owed = Balances(Forecast(sc).open)
                        /\ owed = InvoiceListReport(ReportOutstanding(sc, Ever)).outstanding
                        /\ owed = SumOfBalances(CustomerBalances(sc, Ever))
                        /\ overdue = SumOfBalances(OverdueByCurrency(sc, Ever))
                        /\ cards.overdue = Forecast(sc).overdue
                        /\ cards.overdue = ReportOverdue(sc, Ever)
  BY DEF OpenBalancesAgree
<1> DEFINE S == Selected(sc)
           open == {i \in S : Open(i)}
           late == {i \in S : Open(i) /\ Late(i)}
           cards == Summary(sc)
           overdue == Balances(cards.overdue)
           awaited == Balances(cards.awaitingPayment)
           owed == [total |-> overdue.total + awaited.total, paid |-> overdue.paid + awaited.paid]
<1>1. S \in SUBSET Existing /\ InvoicesIn(sc, Ever) = S
  BY AllAreInEver, SelectedFinite
<1>2. cards.overdue = late /\ cards.awaitingPayment = {i \in S : Awaited(i)}
  BY DEF Summary
<1>3. owed = Balances(open)
  BY <1>1, <1>2, OpenIsLateOrAwaited
<1>4. open \in SUBSET Existing /\ late \in SUBSET Existing
  BY <1>1
<1>5. ReportOutstanding(sc, Ever) = open /\ ReportOverdue(sc, Ever) = late
  <2>1. ReportOutstanding(sc, Ever) = open
    BY <1>1 DEF ReportOutstanding
  <2>2. ReportOverdue(sc, Ever) = late
    BY <1>1, EverHoldsAll DEF ReportOverdue
  <2> QED
    BY <2>1, <2>2
<1>6. Forecast(sc).open = open /\ Forecast(sc).overdue = late
  BY DEF Forecast
<1>7. SumOfBalances(OutstandingByCurrency(sc, Ever)) = Balances(open)
  <2>1. OutstandingByCurrency(sc, Ever) =
           [k \in {invoices[i].currency : i \in open} |-> Balances({i \in open : invoices[i].currency = k})]
    BY <1>1 DEF OutstandingByCurrency, GroupBy
  <2> HIDE DEF open
  <2> QED
    BY <1>4, <2>1, CurrenciesAddUp
<1>8. SumOfBalances(OverdueByCurrency(sc, Ever)) = Balances(late)
  <2>1. OverdueByCurrency(sc, Ever) =
           [k \in {invoices[i].currency : i \in late} |-> Balances({i \in late : invoices[i].currency = k})]
    BY <1>1 DEF OverdueByCurrency, GroupBy
  <2> HIDE DEF late
  <2> QED
    BY <1>4, <2>1, CurrenciesAddUp
<1>9. SumOfBalances(CustomerBalances(sc, Ever)) = Balances(open)
  <2> DEFINE key == [i \in open |-> invoices[i].customer]
  <2>1. CustomerBalances(sc, Ever) =
           [k \in {invoices[i].customer : i \in open} |-> Performance({i \in open : invoices[i].customer = k})]
    BY <1>5 DEF CustomerBalances, GroupBy
  <2>2. /\ {invoices[i].customer : i \in open} = {key[i] : i \in open}
        /\ \A k : {i \in open : invoices[i].customer = k} = {i \in open : key[i] = k}
    OBVIOUS
  <2>3. PerformanceBy(CustomerBalances(sc, Ever), key, open)
    BY <2>1, <2>2 DEF PerformanceBy
  <2> HIDE DEF key, open
  <2> QED
    BY <1>4, <2>3, PerformanceAddsUp
<1>10. InvoiceListReport(open).outstanding = Balances(open)
  BY DEF InvoiceListReport
<1> HIDE DEF open, late, S
<1> QED
  BY <1>2, <1>3, <1>5, <1>6, <1>7, <1>8, <1>9, <1>10

(***************************************************************************)
(* What is owed, and what of it is late, is the same amount on the summary *)
(* cards, the dashboard, the forecast and the reports.                     *)
(***************************************************************************)
THEOREM OpenBalancesMatch == Spec => []OpenBalancesAgree
BY BooksInvariance, OpenBalancesHold, PTL

-----------------------------------------------------------------------------
(***************************************************************************)
(* The calendar.  A month starts as many days after another as those from  *)
(* the one to the other have.                                              *)
(***************************************************************************)
LEMMA MonthsApart ==
    ASSUME NEW j \in 0 .. LastMonth + 1, NEW k \in 0 .. LastMonth + 1, j < k
    PROVE  /\ MonthStart[j] \in Nat /\ MonthStart[k] \in Nat
           /\ MonthStart[j] + DaysIn[j] <= MonthStart[k]
           /\ k = j + 1 => MonthStart[k] = MonthStart[j] + DaysIn[j]
<1> DEFINE early == 0 .. j - 1
           late == j .. k - 1
           a == SumOf(DaysIn, early)
           b == SumOf(DaysIn, late)
<1>1. LastMonth \in Nat /\ \A i \in 0 .. k - 1 : DaysIn[i] \in Nat
  BY CalendarAssumption
<1>2. IsFiniteSet(early) /\ IsFiniteSet(late)
  <2>1. 0 \in Int /\ j - 1 \in Int /\ j \in Int /\ k - 1 \in Int
    OBVIOUS
  <2>2. IsFiniteSet(0 .. j - 1)
    BY <2>1, FS_Interval
  <2>3. IsFiniteSet(j .. k - 1)
    BY <2>1, FS_Interval
  <2> QED
    BY <2>2, <2>3
<1>3. early \cap late = {} /\ early \cup late = 0 .. k - 1
  OBVIOUS
<1>4. \A i \in early \cup late : DaysIn[i] \in Nat
  BY <1>1, <1>3
<1>5. MonthStart[j] = SumOf(DaysIn, early) /\ MonthStart[k] = SumOf(DaysIn, 0 .. k - 1)
  BY <1>1 DEF MonthStart
<1>6. j \in late /\ (k = j + 1 => late = {j})
  OBVIOUS
<1> HIDE DEF early, late
<1>7. SumOf(DaysIn, early \cup late) = a + b
  BY <1>2, <1>3, <1>4, SumApart
<1>8. a \in Nat /\ b \in Nat
  BY <1>2, <1>4, SumNat
<1>9. SumOf(DaysIn, {j}) = DaysIn[j] /\ DaysIn[j] \in Nat
  BY <1>4, <1>6, SumOne
<1>10. SumOf(DaysIn, {j}) <= b /\ (k = j + 1 => b = SumOf(DaysIn, {j}))
  <2>1. {j} \in SUBSET late /\ \A i \in late : DaysIn[i] \in Nat
    BY <1>4, <1>6
  <2> QED
    BY <1>2, <1>6, <2>1, SumMono
<1>11. MonthStart[j] = a /\ MonthStart[k] = a + b
  BY <1>3, <1>5, <1>7
<1>12. DaysIn[j] <= b /\ DaysIn[j] \in Nat /\ (k = j + 1 => b = DaysIn[j])
  BY <1>9, <1>10
<1> HIDE DEF a, b
<1> QED
  BY <1>8, <1>11, <1>12

\* Later months start later, the first one on day 0.
LEMMA MonthsInOrder ==
    /\ LastMonth \in Nat
    /\ MonthStart[0] = 0
    /\ \A k \in 0 .. LastMonth + 1 : MonthStart[k] \in Nat
    /\ \A j, k \in 0 .. LastMonth + 1 : j < k => MonthStart[j] + 1 <= MonthStart[k]
    /\ \A j, k \in 0 .. LastMonth + 1 : j <= k => MonthStart[j] <= MonthStart[k]
    /\ \A k \in Months : MonthStart[k + 1] = MonthStart[k] + DaysIn[k]
<1>1. LastMonth \in Nat /\ \A k \in Months : DaysIn[k] \in Nat /\ DaysIn[k] >= 1
  BY CalendarAssumption DEF Months
<1>2. MonthStart[0] = 0
  <2>1. MonthStart[0] = SumOf(DaysIn, 0 .. 0 - 1)
    BY <1>1 DEF MonthStart
  <2>2. 0 .. 0 - 1 = {}
    OBVIOUS
  <2> QED
    BY <2>1, <2>2, SumEmpty
<1>3. ASSUME NEW j \in 0 .. LastMonth + 1, NEW k \in 0 .. LastMonth + 1, j < k
      PROVE  /\ MonthStart[j] \in Nat /\ MonthStart[k] \in Nat
             /\ MonthStart[j] + DaysIn[j] <= MonthStart[k]
             /\ k = j + 1 => MonthStart[k] = MonthStart[j] + DaysIn[j]
             /\ DaysIn[j] \in Nat /\ DaysIn[j] >= 1
  <2>1. j \in Months
    BY <1>1, <1>3 DEF Months
  <2> QED
    BY <1>1, <1>3, <2>1, MonthsApart
<1>4. \A k \in 0 .. LastMonth + 1 : MonthStart[k] \in Nat
  BY <1>1, <1>2, <1>3
<1>5. \A j, k \in 0 .. LastMonth + 1 : j < k => MonthStart[j] + 1 <= MonthStart[k]
  BY <1>3
<1>6. \A j, k \in 0 .. LastMonth + 1 : j <= k => MonthStart[j] <= MonthStart[k]
  BY <1>1, <1>4, <1>5
<1>7. \A k \in Months : MonthStart[k + 1] = MonthStart[k] + DaysIn[k]
  BY <1>1, <1>3 DEF Months
<1> QED
  BY <1>1, <1>2, <1>4, <1>5, <1>6, <1>7

\* Every day is in a month: as many months have started as there are before it.
LEMMA DayHasMonth ==
    ASSUME NEW day \in CalendarDays
    PROVE  \E k \in Months : MonthStart[k] <= day /\ day < MonthStart[k + 1]
<1> DEFINE B == {k \in 0 .. LastMonth + 1 : MonthStart[k] <= day}
           n == Cardinality(B)
<1>1. /\ LastMonth \in Nat /\ MonthStart[0] = 0 /\ MonthStart[LastMonth + 1] \in Nat
      /\ \A k \in 0 .. LastMonth + 1 : MonthStart[k] \in Nat
      /\ \A j, k \in 0 .. LastMonth + 1 : j <= k => MonthStart[j] <= MonthStart[k]
  BY MonthsInOrder
<1>2. day \in Nat /\ day < MonthStart[LastMonth + 1]
  BY <1>1 DEF CalendarDays
<1>3. B \in SUBSET (0 .. LastMonth + 1) /\ 0 \in B /\ LastMonth + 1 \notin B
  BY <1>1, <1>2
<1>4. \A k \in B : \A j \in 0 .. k : j \in B
  <2>1. ASSUME NEW k \in B, NEW j \in 0 .. k PROVE j \in B
    <3>1. j \in 0 .. LastMonth + 1 /\ k \in 0 .. LastMonth + 1 /\ j <= k
      BY <1>1
    <3>2. MonthStart[j] <= MonthStart[k] /\ MonthStart[j] \in Nat /\ MonthStart[k] \in Nat
      BY <1>1, <3>1
    <3> QED
      BY <1>2, <3>1, <3>2
  <2> QED
    BY <2>1
<1>5. \A k \in 0 .. LastMonth + 1 : k \in B <=> MonthStart[k] <= day
  OBVIOUS
<1> HIDE DEF B
<1>6. IsFiniteSet(B) /\ n \in Nat /\ Cardinality({}) = 0 /\ n # 0
  <2>1. IsFiniteSet(0 .. LastMonth + 1)
    BY <1>1, FS_Interval
  <2>2. IsFiniteSet(B)
    BY <1>3, <2>1, FS_Subset
  <2> QED
    BY <1>3, <2>2, FS_EmptySet, FS_CardinalityType
<1> HIDE DEF n
<1>7. n \notin B
  <2> SUFFICES ASSUME n \in B PROVE FALSE
    OBVIOUS
  <2>1. 0 .. n \in SUBSET B
    BY <1>4
  <2>2. Cardinality(0 .. n) <= Cardinality(B)
    BY <1>6, <2>1, FS_Subset
  <2>3. Cardinality(0 .. n) = n + 1
    BY <1>6, FS_Interval
  <2> QED
    BY <1>6, <2>2, <2>3 DEF n
<1>8. n - 1 \in B
  <2> SUFFICES ASSUME n - 1 \notin B PROVE FALSE
    OBVIOUS
  <2>1. B \in SUBSET (0 .. n - 2)
    <3>1. ASSUME NEW k \in B PROVE k \in 0 .. n - 2
      <4>1. k \in Nat
        BY <1>1, <1>3
      <4>2. ~(n - 1 \in 0 .. k)
        BY <1>4
      <4> QED
        BY <1>6, <4>1, <4>2
    <3> QED
      BY <3>1
  <2>2. IsFiniteSet(0 .. n - 2) /\ Cardinality(0 .. n - 2) <= n - 1
    <3>1. 0 \in Int /\ n - 2 \in Int /\ n >= 1
      BY <1>6
    <3>2. /\ IsFiniteSet(0 .. n - 2)
          /\ Cardinality(0 .. n - 2) = IF 0 > n - 2 THEN 0 ELSE (n - 2) - 0 + 1
      BY <3>1, FS_Interval
    <3> QED
      BY <1>6, <3>1, <3>2
  <2>3. Cardinality(B) <= Cardinality(0 .. n - 2) /\ Cardinality(0 .. n - 2) \in Nat
    BY <2>1, <2>2, FS_Subset, FS_CardinalityType
  <2> QED
    BY <1>6, <2>2, <2>3 DEF n
<1>9. n - 1 \in Months /\ n \in 0 .. LastMonth + 1
  BY <1>1, <1>3, <1>6, <1>8 DEF Months
<1>10. MonthStart[n - 1] <= day /\ day < MonthStart[n]
  <2>1. MonthStart[n - 1] <= day /\ ~(MonthStart[n] <= day)
    BY <1>1, <1>3, <1>5, <1>7, <1>8, <1>9
  <2>2. MonthStart[n] \in Nat
    BY <1>1, <1>9
  <2> QED
    BY <1>2, <2>1, <2>2
<1>11. (n - 1) + 1 = n
  BY <1>6
<1> QED
  BY <1>9, <1>10, <1>11

\* The month of a day, and that months go with the days.
LEMMA MonthIs ==
    ASSUME NEW day \in CalendarDays
    PROVE  /\ MonthOf[day] \in Months
           /\ MonthStart[MonthOf[day]] <= day /\ day < MonthStart[MonthOf[day] + 1]
<1>1. MonthOf[day] = CHOOSE k \in Months : MonthStart[k] <= day /\ day < MonthStart[k + 1]
  BY DEF MonthOf, CalendarDays
<1> QED
  BY <1>1, DayHasMonth

LEMMA MonthIsUnique ==
    ASSUME NEW day \in CalendarDays, NEW k \in 0 .. LastMonth + 1
    PROVE  /\ MonthOf[day] < k <=> day < MonthStart[k]
           /\ k <= MonthOf[day] <=> MonthStart[k] <= day
           /\ k \in Months /\ MonthStart[k] <= day /\ day < MonthStart[k + 1] => MonthOf[day] = k
<1> DEFINE m == MonthOf[day]
<1>1. m \in Months /\ MonthStart[m] <= day /\ day < MonthStart[m + 1]
  BY MonthIs
<1> HIDE DEF m
<1>2. LastMonth \in Nat /\ MonthStart[LastMonth + 1] \in Nat
  BY MonthsInOrder
<1>3. day \in Nat /\ k \in Nat /\ m \in Nat /\ m \in 0 .. LastMonth + 1 /\ m + 1 \in 0 .. LastMonth + 1
  BY <1>1, <1>2 DEF CalendarDays, Months
<1>4. MonthStart[k] \in Nat /\ MonthStart[m] \in Nat /\ MonthStart[m + 1] \in Nat
  BY <1>3, MonthsInOrder
<1>5. m < k => day < MonthStart[k]
  <2>1. m < k => MonthStart[m + 1] <= MonthStart[k]
    BY <1>3, MonthsInOrder
  <2> QED
    BY <1>1, <1>3, <1>4, <2>1
<1>6. k <= m => MonthStart[k] <= day
  <2>1. k <= m => MonthStart[k] <= MonthStart[m]
    BY <1>3, MonthsInOrder
  <2> QED
    BY <1>1, <1>3, <1>4, <2>1
<1>7. k \in Months /\ m > k => MonthStart[k + 1] <= day
  <2>1. k \in Months /\ m > k => k + 1 \in 0 .. LastMonth + 1 /\ k + 1 <= m
    BY <1>2, <1>3 DEF Months
  <2>2. k \in Months /\ m > k => MonthStart[k + 1] <= MonthStart[m] /\ MonthStart[k + 1] \in Nat
    BY <1>3, <2>1, MonthsInOrder
  <2> QED
    BY <1>1, <1>3, <1>4, <2>2
<1>8. k \in Months => MonthStart[k + 1] \in Nat
  BY <1>2, MonthsInOrder DEF Months
<1> QED
  BY <1>3, <1>4, <1>5, <1>6, <1>7, <1>8 DEF m

\* The periods of a range are those of its days.
LEMMA PeriodsOfDays ==
    ASSUME NEW a \in CalendarDays, NEW b \in Int, b - 1 \in CalendarDays, a < b, NEW daily
    PROVE  {PeriodKey(d, daily) : d \in DaysOf(Span(a, b))} = PeriodKeys(Span(a, b), daily)
<1> DEFINE z == b - 1
           K == MonthOf[a] .. MonthOf[z]
<1>1. MonthStart[LastMonth + 1] \in Nat /\ LastMonth \in Nat
  BY MonthsInOrder
<1>2. DaysOf(Span(a, b)) = a .. z /\ a \in Nat /\ z \in Nat /\ a <= z
  BY <1>1 DEF DaysOf, Span, CalendarDays
<1>3. \A d \in a .. z : d \in CalendarDays
  BY <1>1, <1>2 DEF CalendarDays
<1>4. PeriodKeys(Span(a, b), daily) = IF daily THEN a .. z ELSE K
  BY <1>2 DEF PeriodKeys, Span
<1>5. {PeriodKey(d, daily) : d \in DaysOf(Span(a, b))}
         = IF daily THEN a .. z ELSE {MonthOf[d] : d \in a .. z}
  BY <1>2 DEF PeriodKey
<1>6. MonthOf[a] \in 0 .. LastMonth + 1 /\ MonthOf[z] \in 0 .. LastMonth + 1 /\ z \in CalendarDays
  BY <1>1, <1>2, <1>3, MonthIs DEF Months
<1>7. ASSUME NEW d \in a .. z PROVE MonthOf[d] \in K
  <2>1. d \in CalendarDays /\ d \in Nat /\ a <= d /\ d <= z
    BY <1>2, <1>3
  <2>2. MonthOf[d] \in Months /\ MonthStart[MonthOf[d]] <= d
    BY <2>1, MonthIs
  <2>3. MonthOf[d] \in 0 .. LastMonth + 1 /\ MonthStart[MonthOf[d]] \in Nat
    BY <1>1, <2>2, MonthsInOrder DEF Months
  <2>4. MonthStart[MonthOf[d]] <= z
    BY <1>2, <2>1, <2>2, <2>3
  <2>5. MonthOf[d] <= MonthOf[z]
    BY <1>6, <2>3, <2>4, MonthIsUnique
  <2>6. MonthStart[MonthOf[a]] <= a /\ MonthStart[MonthOf[a]] \in Nat
    BY <1>6, MonthIs, MonthsInOrder
  <2>7. MonthStart[MonthOf[a]] <= d
    BY <1>2, <2>1, <2>6
  <2>8. MonthOf[a] <= MonthOf[d]
    BY <1>6, <2>1, <2>7, MonthIsUnique
  <2> QED
    BY <1>1, <1>6, <2>3, <2>5, <2>8
<1>8. ASSUME NEW k \in K PROVE \E d \in a .. z : MonthOf[d] = k
  <2>1. k \in Months /\ MonthOf[a] <= k /\ k <= MonthOf[z] /\ k \in 0 .. LastMonth + 1
    BY <1>1, <1>2, <1>3, <1>6, MonthIs DEF Months
  <2>2. CASE k = MonthOf[a]
    BY <1>2, <2>2
  <2>3. CASE k # MonthOf[a]
    <3>1. MonthOf[a] < k
      BY <1>1, <1>6, <2>1, <2>3
    <3>2. a < MonthStart[k] /\ MonthStart[k] <= z /\ MonthStart[k] \in Nat
      BY <1>6, <2>1, <3>1, MonthIsUnique, MonthsInOrder
    <3>3. MonthStart[k] \in a .. z
      BY <1>2, <3>2
    <3>4. MonthStart[k] < MonthStart[k + 1]
      <4>1. k + 1 \in 0 .. LastMonth + 1 /\ k < k + 1
        BY <1>1, <2>1 DEF Months
      <4>2. MonthStart[k] + 1 <= MonthStart[k + 1] /\ MonthStart[k + 1] \in Nat
        BY <2>1, <4>1, MonthsInOrder
      <4> QED
        BY <3>2, <4>2
    <3>5. MonthOf[MonthStart[k]] = k
      BY <1>3, <2>1, <3>2, <3>3, <3>4, MonthIsUnique
    <3> QED
      BY <3>3, <3>5
  <2> QED
    BY <2>2, <2>3
<1>9. {MonthOf[d] : d \in a .. z} = K
  BY <1>7, <1>8
<1> QED
  BY <1>4, <1>5, <1>9

\* A range of at least one day, all in the calendar.
IsRange(range) ==
    /\ range = Span(range.start, range.end)
    /\ range.start \in CalendarDays /\ range.end \in Int /\ range.end - 1 \in CalendarDays
    /\ range.start < range.end

LEMMA SpanIsRange ==
    ASSUME NEW a \in CalendarDays, NEW b \in Int, b - 1 \in CalendarDays, a < b
    PROVE  /\ IsRange(Span(a, b)) /\ DaysOf(Span(a, b)) = a .. b - 1
           /\ RangeDayCount(Span(a, b)) = b - a
BY DEF IsRange, Span, DaysOf, RangeDayCount

LEMMA PeriodsOfRange ==
    ASSUME NEW range, IsRange(range), NEW daily
    PROVE  {PeriodKey(d, daily) : d \in DaysOf(range)} = PeriodKeys(range, daily)
<1> DEFINE a == range.start
           b == range.end
<1>1. range = Span(a, b) /\ a \in CalendarDays /\ b \in Int /\ b - 1 \in CalendarDays /\ a < b
  BY DEF IsRange
<1> HIDE DEF a, b
<1>2. {PeriodKey(e, daily) : e \in DaysOf(Span(a, b))} = PeriodKeys(Span(a, b), daily)
  BY <1>1, PeriodsOfDays
<1> QED
  BY <1>1, <1>2

\* Whatever is dated inside a range is in one of its periods.
LEMMA DatedIsInPeriod ==
    ASSUME NEW range, IsRange(range), NEW daily, NEW d \in DaysOf(range)
    PROVE  PeriodKey(d, daily) \in PeriodKeys(range, daily)
BY PeriodsOfRange

\* Months, one or more, are a range.
LEMMA WholeMonths ==
    ASSUME NEW j \in 0 .. LastMonth + 1, NEW k \in 0 .. LastMonth + 1, j < k
    PROVE  /\ MonthStart[j] \in CalendarDays /\ MonthStart[k] \in Nat
           /\ MonthStart[k] - 1 \in CalendarDays /\ MonthStart[j] < MonthStart[k]
<1>1. LastMonth \in Nat /\ LastMonth + 1 \in 0 .. LastMonth + 1
  BY MonthsInOrder
<1>2. /\ MonthStart[j] \in Nat /\ MonthStart[k] \in Nat /\ MonthStart[LastMonth + 1] \in Nat
      /\ MonthStart[j] + 1 <= MonthStart[k]
      /\ MonthStart[k] <= MonthStart[LastMonth + 1]
  BY <1>1, MonthsInOrder
<1> QED
  BY <1>2 DEF CalendarDays

\* What the presets are that the series are asked for.
LEMMA PresetsOfSeries ==
    ASSUME NEW day
    PROVE  /\ ResolveDateRange("this_month", day)
                 = Span(MonthStart[MonthOf[day]], MonthStart[MonthOf[day] + 1])
           /\ ResolveDateRange("this_year", day)
                 = Span(MonthStart[YearStart(MonthOf[day])], MonthStart[YearStart(MonthOf[day]) + 12])
BY DEF ResolveDateRange

\* The year of a month is in the calendar.
LEMMA YearsAreWhole ==
    ASSUME NEW month \in Months
    PROVE  /\ YearStart(month) \in 0 .. LastMonth + 1 /\ YearStart(month) + 12 \in 0 .. LastMonth + 1
           /\ YearStart(month) <= month /\ month < YearStart(month) + 12
<1>1. LastMonth \in Nat /\ (LastMonth + 1) % 12 = 0 /\ month \in Nat /\ month <= LastMonth
  BY CalendarAssumption, YearsAssumption DEF Months
<1>2. YearStart(month) \in Nat /\ YearStart(month) <= month /\ month < YearStart(month) + 12
  BY <1>1 DEF YearStart
<1>3. YearStart(month) + 12 <= LastMonth + 1
  BY <1>1 DEF YearStart
<1> QED
  BY <1>1, <1>2, <1>3

LEMMA MonthAndYearOfDay ==
    ASSUME NEW day \in CalendarDays
    PROVE  /\ IsRange(ResolveDateRange("this_month", day))
           /\ IsRange(ResolveDateRange("this_year", day))
<1> DEFINE m == MonthOf[day]
           y == YearStart(m)
<1>1. LastMonth \in Nat /\ m \in Months
  BY MonthsInOrder, MonthIs
<1>2. m \in 0 .. LastMonth + 1 /\ m + 1 \in 0 .. LastMonth + 1 /\ m < m + 1
  BY <1>1 DEF Months
<1>3. y \in 0 .. LastMonth + 1 /\ y + 12 \in 0 .. LastMonth + 1 /\ y < y + 12
  BY <1>1, YearsAreWhole
<1>4. /\ ResolveDateRange("this_month", day) = Span(MonthStart[m], MonthStart[m + 1])
      /\ ResolveDateRange("this_year", day) = Span(MonthStart[y], MonthStart[y + 12])
  BY PresetsOfSeries
<1> HIDE DEF m, y
<1>5. IsRange(Span(MonthStart[m], MonthStart[m + 1]))
  BY <1>2, WholeMonths, SpanIsRange
<1>6. IsRange(Span(MonthStart[y], MonthStart[y + 12]))
  BY <1>3, WholeMonths, SpanIsRange
<1> QED
  BY <1>4, <1>5, <1>6

LEMMA AskedAreRanges ==
    ASSUME IInv
    PROVE  \A range \in Asked : IsRange(range)
<1>1. today \in FirstDay .. LastDay /\ FirstDay \in Nat /\ LastDay \in Nat
  BY BooksAssumption DEF IInv, TypeOK
<1>2. MonthStart[LastMonth + 1] \in Nat
  BY MonthsInOrder
<1>3. /\ FirstDay - 2 \in CalendarDays /\ FirstDay + 40 \in CalendarDays
      /\ LastDay \in CalendarDays
  BY YearsAssumption
<1>4. today \in CalendarDays
  BY <1>1, <1>2, <1>3 DEF CalendarDays
<1>5. IsRange(Span(FirstDay - 2, FirstDay + 40 + 1))
  <2>1. FirstDay + 40 + 1 \in Int /\ (FirstDay + 40 + 1) - 1 = FirstDay + 40
        /\ FirstDay - 2 < FirstDay + 40 + 1
    BY <1>1
  <2> QED
    BY <1>3, <2>1, SpanIsRange
<1>6. \A range \in CustomRanges(FirstDay - 2, FirstDay + 40) :
         range = Span(FirstDay - 2, FirstDay + 40 + 1)
  BY DEF CustomRanges
<1> QED
  BY <1>4, <1>5, <1>6, MonthAndYearOfDay DEF Asked

\* Payments by a key of theirs: the amounts of the keys are all that came in.
AmountsBy(total, key, K, P) ==
    /\ \A p \in P : key[p] \in K
    /\ \A k \in K : total[k] = Amounts({p \in P : key[p] = k})

LEMMA AmountsAddUp ==
    ASSUME IInv, NEW P \in SUBSET payments, NEW K, NEW key, NEW total,
           AmountsBy(total, key, K, P)
    PROVE  SumOf(total, K) = Amounts(P)
<1> DEFINE amount == [p \in P |-> p.amount]
           group == [k \in K |-> {p \in P : key[p] = k}]
           own == [k \in K |-> [p \in group[k] |-> p.amount]]
<1>1. IsFiniteSet(P) /\ \A p \in P : amount[p] \in Nat /\ key[p] \in K
  BY PaymentsFinite DEF AmountsBy
<1>2. ASSUME NEW k \in K
      PROVE  /\ \A p : p \in group[k] <=> p \in P /\ key[p] = k
             /\ \A p \in group[k] : own[k][p] = amount[p]
             /\ total[k] = SumOf(own[k], group[k])
  <2>1. \A p : p \in group[k] <=> p \in P /\ key[p] = k
    OBVIOUS
  <2>2. own[k] = [p \in group[k] |-> p.amount]
    OBVIOUS
  <2>3. \A p \in group[k] : own[k][p] = amount[p]
    BY <2>1
  <2>4. total[k] = Amounts(group[k])
    BY DEF AmountsBy
  <2> HIDE DEF own, amount, group
  <2> QED
    BY <2>1, <2>2, <2>3, <2>4 DEF Amounts, SumOver
<1>3. Amounts(P) = SumOf(amount, P)
  BY DEF Amounts, SumOver
<1> HIDE DEF amount, group, own
<1>4. Grouped(P, amount, K, key, group, own, total)
  BY <1>1, <1>2 DEF Grouped
<1> QED
  BY <1>3, <1>4, SumOfGroups

\* What came in in a range, by day or by month.
LEMMA RangeOfPayments ==
    ASSUME IInv, NEW range, IsRange(range), NEW sc, NEW daily
    PROVE  /\ PaymentsIn(sc, range) \subseteq payments
           /\ \A p \in PaymentsIn(sc, range) : PeriodKey(p.day, daily) \in PeriodKeys(range, daily)
<1>1. \A p \in PaymentsIn(sc, range) : p \in payments /\ p.day \in DaysOf(range)
  BY ReceivedIsSome DEF PaymentsIn, InOrganization
<1> QED
  BY <1>1, DatedIsInPeriod

LEMMA MoneySeriesAddsUp ==
    ASSUME IInv, NEW range, IsRange(range), NEW sc, NEW c
    PROVE  SumOfValues(MoneySeries(PaymentsIn(sc, range), range, c))
              = Amounts({p \in PaymentsIn(sc, range) : p.currency = c})
<1> DEFINE rows == PaymentsIn(sc, range)
           daily == Daily(range)
           P == {p \in rows : p.currency = c}
           K == PeriodKeys(range, daily)
           key == [p \in P |-> PeriodKey(p.day, daily)]
           series == MoneySeries(rows, range, c)
           total == [k \in DOMAIN series |-> series[k]]
<1>1. P \in SUBSET payments /\ \A p \in P : key[p] \in K
  BY RangeOfPayments
<1>2. series = [k \in K |-> Amounts({p \in rows : p.currency = c /\ PeriodKey(p.day, daily) = k})]
  BY DEF MoneySeries
<1>3. ASSUME NEW k \in K
      PROVE  {p \in rows : p.currency = c /\ PeriodKey(p.day, daily) = k} = {p \in P : key[p] = k}
  OBVIOUS
<1>4. DOMAIN series = K /\ \A k \in K : series[k] = Amounts({p \in P : key[p] = k})
  BY <1>2, <1>3
<1> HIDE DEF series, K, P, key, rows
<1>5. AmountsBy(total, key, K, P)
  BY <1>1, <1>4 DEF AmountsBy
<1>6. SumOfValues(series) = SumOf(total, K)
  BY <1>4 DEF SumOfValues, SumOver
<1> HIDE DEF total
<1>7. SumOf(total, K) = Amounts(P)
  BY <1>1, <1>5, AmountsAddUp
<1> QED
  BY <1>6, <1>7 DEF series, P, rows

LEMMA ReportBucketsAddUp ==
    ASSUME IInv, NEW range, IsRange(range), NEW sc, NEW c
    PROVE  SumOfValues(ReportBuckets(PaymentsIn(sc, range), range, c))
              = Amounts({p \in PaymentsIn(sc, range) : p.currency = c})
<1> DEFINE rows == PaymentsIn(sc, range)
           daily == RangeDayCount(range) <= 45
           P == {p \in rows : p.currency = c}
           K == {PeriodKey(p.day, daily) : p \in P}
           key == [p \in P |-> PeriodKey(p.day, daily)]
           buckets == ReportBuckets(rows, range, c)
           total == [k \in DOMAIN buckets |-> buckets[k]]
<1>1. P \in SUBSET payments /\ \A p \in P : key[p] \in K
  BY RangeOfPayments
<1>2. buckets = [k \in K |-> Amounts({p \in P : PeriodKey(p.day, daily) = k})]
  BY DEF ReportBuckets, GroupBy
<1>3. ASSUME NEW k \in K
      PROVE  {p \in P : PeriodKey(p.day, daily) = k} = {p \in P : key[p] = k}
  OBVIOUS
<1>4. DOMAIN buckets = K /\ \A k \in K : buckets[k] = Amounts({p \in P : key[p] = k})
  BY <1>2, <1>3
<1> HIDE DEF buckets, K, P, key, rows
<1>5. AmountsBy(total, key, K, P)
  BY <1>1, <1>4 DEF AmountsBy
<1>6. SumOfValues(buckets) = SumOf(total, K)
  BY <1>4 DEF SumOfValues, SumOver
<1> HIDE DEF total
<1>7. SumOf(total, K) = Amounts(P)
  BY <1>1, <1>5, AmountsAddUp
<1> QED
  BY <1>6, <1>7 DEF buckets, P, rows

\* The forecast's trend, all currencies together.
LEMMA TrendAddsUp ==
    ASSUME IInv, NEW range, IsRange(range), NEW sc
    PROVE  /\ SumOf([k \in DOMAIN ForecastTrend(sc, range) |-> ForecastTrend(sc, range)[k].collected],
                    DOMAIN ForecastTrend(sc, range))
                 = Amounts(PaymentsIn(sc, range))
<1> DEFINE rows == PaymentsIn(sc, range)
           daily == Daily(range)
           K == PeriodKeys(range, daily)
           key == [p \in rows |-> PeriodKey(p.day, daily)]
           trend == ForecastTrend(sc, range)
           total == [k \in DOMAIN trend |-> trend[k].collected]
<1>1. rows \in SUBSET payments /\ \A p \in rows : key[p] \in K
  BY RangeOfPayments
<1>2. ASSUME NEW k \in K
      PROVE  {p \in rows : PeriodKey(p.day, daily) = k} = {p \in rows : key[p] = k}
  OBVIOUS
<1>3. DOMAIN trend = K /\ \A k \in K :
         trend[k].collected = Amounts({p \in rows : PeriodKey(p.day, daily) = k})
  BY DEF ForecastTrend
<1>4. \A k \in K : trend[k].collected = Amounts({p \in rows : key[p] = k})
  BY <1>2, <1>3
<1> HIDE DEF trend, K, key, rows
<1>5. AmountsBy(total, key, K, rows)
  BY <1>1, <1>3, <1>4 DEF AmountsBy
<1> HIDE DEF total
<1>6. SumOf(total, K) = Amounts(rows)
  BY <1>1, <1>5, AmountsAddUp
<1> QED
  BY <1>3, <1>6 DEF trend, rows, total

OwedIn(trend) == [k \in DOMAIN trend |-> trend[k].outstanding]

LEMMA TrendIsOwed ==
    ASSUME IInv, NEW range, IsRange(range), NEW sc
    PROVE  SumOfBalances(OwedIn(ForecastTrend(sc, range)))
              = Balances({i \in Selected(sc) : Open(i) /\ invoices[i].due \in DaysOf(range)})
<1> DEFINE S == {i \in Selected(sc) : Open(i) /\ invoices[i].due \in DaysOf(range)}
           daily == Daily(range)
           K == PeriodKeys(range, daily)
           key == [i \in S |-> PeriodKey(invoices[i].due, daily)]
           trend == ForecastTrend(sc, range)
<1>1. S \in SUBSET Existing /\ \A i \in S : key[i] \in K
  BY SelectedFinite, DatedIsInPeriod
<1>2. DOMAIN trend = K /\ \A k \in K :
         trend[k].outstanding = Balances({i \in Selected(sc) :
            Open(i) /\ invoices[i].due \in DaysOf(range) /\ PeriodKey(invoices[i].due, daily) = k})
  BY DEF ForecastTrend
<1>3. ASSUME NEW k \in K
      PROVE  {i \in Selected(sc) : Open(i) /\ invoices[i].due \in DaysOf(range)
                                   /\ PeriodKey(invoices[i].due, daily) = k} = {i \in S : key[i] = k}
  OBVIOUS
<1>4. \A k \in K : trend[k].outstanding = Balances({i \in S : key[i] = k})
  BY <1>2, <1>3
<1> HIDE DEF trend, K, key, S
<1>5. DOMAIN OwedIn(trend) = K /\ \A k \in K : OwedIn(trend)[k] = Balances({i \in S : key[i] = k})
  BY <1>2, <1>4 DEF OwedIn
<1>6. BalancesBy(OwedIn(trend), key, S)
  BY <1>1, <1>5 DEF BalancesBy
<1>7. SumOfBalances(OwedIn(trend)) = Balances(S)
  BY <1>1, <1>6, BalancesAddUp
<1> QED
  BY <1>7 DEF trend, S

\* The invoices of a range, counted by day or by month.
LEMMA CreatedAreAll ==
    ASSUME NEW range, IsRange(range), NEW sc
    PROVE  UNION {CreatedSeries(sc, range)[k] : k \in DOMAIN CreatedSeries(sc, range)} = InvoicesIn(sc, range)
<1> DEFINE rows == InvoicesIn(sc, range)
           daily == Daily(range)
           K == PeriodKeys(range, daily)
<1>1. CreatedSeries(sc, range) = [k \in K |-> {i \in rows : PeriodKey(invoices[i].date, daily) = k}]
  BY DEF CreatedSeries, CountSeries
<1>2. \A i \in rows : PeriodKey(invoices[i].date, daily) \in K
  BY DatedIsInPeriod DEF InvoicesIn
<1> HIDE DEF rows, K, daily
<1> QED
  BY <1>1, <1>2 DEF rows

LEMMA SeriesHold == IInv => SeriesAddUp
<1> SUFFICES ASSUME IInv, NEW range \in Asked, NEW sc
             PROVE  LET rows == PaymentsIn(sc, range)
                        trend == ForecastTrend(sc, range)
                        created == CreatedSeries(sc, range)
                        collected(k) == trend[k].collected
                        outstanding == [k \in DOMAIN trend |-> trend[k].outstanding]
                    IN  /\ UNION {created[k] : k \in DOMAIN created} = InvoicesIn(sc, range)
                        /\ SumOver(DOMAIN trend, collected) = Amounts(rows)
                        /\ SumOfBalances(outstanding) =
                              Balances({i \in Selected(sc) : Open(i) /\ invoices[i].due \in DaysOf(range)})
                        /\ \A c \in {p.currency : p \in rows} :
                              LET revenue == Amounts({p \in rows : p.currency = c})
                              IN  /\ SumOfValues(MoneySeries(rows, range, c)) = revenue
                                  /\ SumOfValues(ReportBuckets(rows, range, c)) = revenue
  BY DEF SeriesAddUp
<1>1. IsRange(range)
  BY AskedAreRanges
<1>2. \A c : /\ SumOfValues(MoneySeries(PaymentsIn(sc, range), range, c))
                   = Amounts({p \in PaymentsIn(sc, range) : p.currency = c})
             /\ SumOfValues(ReportBuckets(PaymentsIn(sc, range), range, c))
                   = Amounts({p \in PaymentsIn(sc, range) : p.currency = c})
  BY <1>1, MoneySeriesAddsUp, ReportBucketsAddUp
<1>3. UNION {CreatedSeries(sc, range)[k] : k \in DOMAIN CreatedSeries(sc, range)} = InvoicesIn(sc, range)
  BY <1>1, CreatedAreAll
<1>4. SumOf([k \in DOMAIN ForecastTrend(sc, range) |-> ForecastTrend(sc, range)[k].collected],
            DOMAIN ForecastTrend(sc, range))
         = Amounts(PaymentsIn(sc, range))
  BY <1>1, TrendAddsUp
<1>5. SumOfBalances([k \in DOMAIN ForecastTrend(sc, range) |-> ForecastTrend(sc, range)[k].outstanding])
         = Balances({i \in Selected(sc) : Open(i) /\ invoices[i].due \in DaysOf(range)})
  BY <1>1, TrendIsOwed DEF OwedIn
<1> QED
  BY <1>2, <1>3, <1>4, <1>5 DEF SumOver

(***************************************************************************)
(* The presets.                                                            *)
(***************************************************************************)
LEMMA PresetsAre ==
    ASSUME NEW day
    PROVE  LET m == MonthOf[day]
               q == QuarterStart(m)
               y == YearStart(m)
           IN  /\ ResolveDateRange("today", day) = Span(day, day + 1)
               /\ ResolveDateRange("this_week", day) = Span(WeekStart(day), WeekStart(day) + 7)
               /\ ResolveDateRange("this_month", day) = Span(MonthStart[m], MonthStart[m + 1])
               /\ ResolveDateRange("last_month", day) = Span(MonthStart[m - 1], MonthStart[m])
               /\ ResolveDateRange("last_3_months", day) = Span(MonthStart[m - 2], day + 1)
               /\ ResolveDateRange("last_6_months", day) = Span(MonthStart[m - 5], day + 1)
               /\ ResolveDateRange("this_quarter", day) = Span(MonthStart[q], MonthStart[q + 3])
               /\ ResolveDateRange("this_year", day) = Span(MonthStart[y], MonthStart[y + 12])
BY DEF ResolveDateRange

\* A month of the second year, its quarter and its year.
LEMMA QuarterAndYear ==
    ASSUME NEW m \in 12 .. 23
    PROVE  /\ QuarterStart(m) \in 12 .. 21 /\ QuarterStart(m) <= m /\ m + 1 <= QuarterStart(m) + 3
           /\ YearStart(m) = 12
BY DEF QuarterStart, YearStart

LEMMA WeekOfDay ==
    ASSUME NEW day \in Nat
    PROVE  /\ WeekStart(day) \in Int /\ WeekStart(day) <= day
           /\ day - 6 <= WeekStart(day)
<1>1. FirstWeekday \in Nat
  BY CalendarAssumption
<1>2. Weekday(day) \in 0 .. 6
  BY <1>1 DEF Weekday
<1> QED
  BY <1>2 DEF WeekStart

\* The months and the days of the second year, whose calendar has a year
\* before it and one after it.
LEMMA SecondYear ==
    ASSUME NEW day \in MonthStart[12] .. MonthStart[24] - 1
    PROVE  /\ day \in CalendarDays /\ day \in Nat
           /\ MonthOf[day] \in 12 .. 23
           /\ day - 6 \in CalendarDays /\ day + 6 \in CalendarDays
<1>1. LastMonth \in Nat /\ LastMonth >= 35
  BY MonthsInOrder, YearsAssumption
<1>2. 0 .. 36 \subseteq 0 .. LastMonth + 1
  BY <1>1
<1>3. /\ \A k \in 0 .. 36 : MonthStart[k] \in Nat
      /\ \A j, k \in 0 .. 36 : j < k => MonthStart[j] + 1 <= MonthStart[k]
  BY <1>2, MonthsInOrder
<1>4. MonthStart[0] = 0 /\ MonthStart[36] <= MonthStart[LastMonth + 1]
      /\ MonthStart[LastMonth + 1] \in Nat
  BY <1>1, MonthsInOrder
<1>5. MonthStart[12] \in Nat /\ MonthStart[24] \in Nat /\ MonthStart[36] \in Nat
  BY <1>3
<1>6. MonthStart[12] >= 6
  <2>1. /\ MonthStart[1] \in Nat /\ MonthStart[2] \in Nat /\ MonthStart[3] \in Nat
        /\ MonthStart[4] \in Nat /\ MonthStart[5] \in Nat /\ MonthStart[6] \in Nat
    BY <1>3
  <2>2. MonthStart[6] >= 6
    <3>1. MonthStart[0] + 1 <= MonthStart[1]
      BY <1>3
    <3>2. MonthStart[1] + 1 <= MonthStart[2]
      BY <1>3
    <3>3. MonthStart[2] + 1 <= MonthStart[3]
      BY <1>3
    <3>4. MonthStart[3] + 1 <= MonthStart[4]
      BY <1>3
    <3>5. MonthStart[4] + 1 <= MonthStart[5]
      BY <1>3
    <3>6. MonthStart[5] + 1 <= MonthStart[6]
      BY <1>3
    <3> QED
      BY <1>4, <2>1, <3>1, <3>2, <3>3, <3>4, <3>5, <3>6
  <2>3. MonthStart[6] + 1 <= MonthStart[12]
    BY <1>3
  <2> QED
    BY <1>5, <2>1, <2>2, <2>3
<1>7. MonthStart[24] + 6 <= MonthStart[36]
  <2>1. /\ MonthStart[25] \in Nat /\ MonthStart[26] \in Nat /\ MonthStart[27] \in Nat
        /\ MonthStart[28] \in Nat /\ MonthStart[29] \in Nat
    BY <1>3
  <2>2. MonthStart[24] + 1 <= MonthStart[25]
    BY <1>3
  <2>3. MonthStart[25] + 1 <= MonthStart[26]
    BY <1>3
  <2>4. MonthStart[26] + 1 <= MonthStart[27]
    BY <1>3
  <2>5. MonthStart[27] + 1 <= MonthStart[28]
    BY <1>3
  <2>6. MonthStart[28] + 1 <= MonthStart[29]
    BY <1>3
  <2>7. MonthStart[29] + 1 <= MonthStart[36]
    BY <1>3
  <2> QED
    BY <1>5, <2>1, <2>2, <2>3, <2>4, <2>5, <2>6, <2>7
<1>8. /\ day \in Nat /\ day >= 6 /\ day < MonthStart[24]
      /\ day + 6 < MonthStart[LastMonth + 1]
  BY <1>4, <1>5, <1>6, <1>7
<1>9. day \in CalendarDays /\ day - 6 \in CalendarDays /\ day + 6 \in CalendarDays
  BY <1>4, <1>8 DEF CalendarDays
<1>10. 12 \in 0 .. LastMonth + 1 /\ 24 \in 0 .. LastMonth + 1
  BY <1>1
<1>11. MonthOf[day] < 24 /\ 12 <= MonthOf[day] /\ MonthOf[day] \in Months
  BY <1>5, <1>8, <1>9, <1>10, MonthIs, MonthIsUnique
<1> QED
  BY <1>1, <1>8, <1>9, <1>11 DEF Months

LEMMA DayFits ==
    ASSUME NEW day \in MonthStart[12] .. MonthStart[24] - 1
    PROVE  PresetsFit(day)
<1> DEFINE m == MonthOf[day]
           q == QuarterStart(m)
           w == WeekStart(day)
           range(preset) == ResolveDateRange(preset, day)
           within(inner, outer) == DaysOf(range(inner)) \subseteq DaysOf(range(outer))
<1>1. /\ day \in CalendarDays /\ day \in Nat /\ m \in 12 .. 23
      /\ day - 6 \in CalendarDays /\ day + 6 \in CalendarDays
  BY SecondYear
<1>2. /\ q \in 12 .. 21 /\ q <= m /\ m + 1 <= q + 3 /\ YearStart(m) = 12
  BY <1>1, QuarterAndYear
<1>3. w \in Int /\ w <= day /\ day - 6 <= w
  BY <1>1, WeekOfDay
<1>4. /\ range("today") = Span(day, day + 1)
      /\ range("this_week") = Span(w, w + 7)
      /\ range("this_month") = Span(MonthStart[m], MonthStart[m + 1])
      /\ range("last_month") = Span(MonthStart[m - 1], MonthStart[m])
      /\ range("last_3_months") = Span(MonthStart[m - 2], day + 1)
      /\ range("last_6_months") = Span(MonthStart[m - 5], day + 1)
      /\ range("this_quarter") = Span(MonthStart[q], MonthStart[q + 3])
      /\ range("this_year") = Span(MonthStart[12], MonthStart[24])
  <2> DEFINE y == YearStart(m)
  <2>1. /\ range("today") = Span(day, day + 1)
        /\ range("this_week") = Span(w, w + 7)
        /\ range("this_month") = Span(MonthStart[m], MonthStart[m + 1])
        /\ range("last_month") = Span(MonthStart[m - 1], MonthStart[m])
        /\ range("last_3_months") = Span(MonthStart[m - 2], day + 1)
        /\ range("last_6_months") = Span(MonthStart[m - 5], day + 1)
        /\ range("this_quarter") = Span(MonthStart[q], MonthStart[q + 3])
        /\ range("this_year") = Span(MonthStart[y], MonthStart[y + 12])
    BY PresetsAre
  <2>2. y = 12 /\ y + 12 = 24
    BY <1>2
  <2> HIDE DEF y, range
  <2> QED
    BY <2>1, <2>2
<1>5. MonthStart[m] <= day /\ day < MonthStart[m + 1]
  BY <1>1, MonthIs
<1> HIDE DEF m, q, w
<1>6. LastMonth \in Nat /\ LastMonth >= 35
  BY MonthsInOrder, YearsAssumption
<1>7. \A k \in 0 .. 24 : k \in 0 .. LastMonth + 1
  BY <1>6
<1>8. /\ m - 5 \in 0 .. 24 /\ m - 2 \in 0 .. 24 /\ m - 1 \in 0 .. 24 /\ m \in 0 .. 24
      /\ m + 1 \in 0 .. 24 /\ q \in 0 .. 24 /\ q + 3 \in 0 .. 24 /\ 12 \in 0 .. 24 /\ 24 \in 0 .. 24
  BY <1>1, <1>2
<1>9. \A k \in 0 .. 24 : MonthStart[k] \in Nat
  BY <1>7, MonthsInOrder
<1>10. \A j, k \in 0 .. 24 : j <= k => MonthStart[j] <= MonthStart[k]
  BY <1>7, MonthsInOrder
<1>11. /\ MonthStart[m - 5] <= MonthStart[m - 2] /\ MonthStart[m - 2] <= MonthStart[m - 1]
       /\ MonthStart[m - 1] <= MonthStart[m] /\ MonthStart[q] <= MonthStart[m]
       /\ MonthStart[m + 1] <= MonthStart[q + 3]
       /\ MonthStart[12] <= MonthStart[q] /\ MonthStart[q + 3] <= MonthStart[24]
  <2>1. /\ m - 5 <= m - 2 /\ m - 2 <= m - 1 /\ m - 1 <= m /\ q <= m /\ m + 1 <= q + 3
        /\ 12 <= q /\ q + 3 <= 24
    BY <1>1, <1>2
  <2> QED
    BY <1>8, <1>10, <2>1
<1>12. /\ MonthStart[m - 5] \in Nat /\ MonthStart[m - 2] \in Nat /\ MonthStart[m - 1] \in Nat
       /\ MonthStart[m] \in Nat /\ MonthStart[m + 1] \in Nat /\ MonthStart[q] \in Nat
       /\ MonthStart[q + 3] \in Nat /\ MonthStart[12] \in Nat /\ MonthStart[24] \in Nat
  BY <1>8, <1>9
<1>13. ASSUME NEW j \in 0 .. 24, NEW k \in 0 .. 24, j < k
       PROVE  IsRange(Span(MonthStart[j], MonthStart[k]))
  <2>1. j \in 0 .. LastMonth + 1 /\ k \in 0 .. LastMonth + 1
    BY <1>7
  <2>2. /\ MonthStart[j] \in CalendarDays /\ MonthStart[k] \in Nat
        /\ MonthStart[k] - 1 \in CalendarDays /\ MonthStart[j] < MonthStart[k]
    BY <1>13, <2>1, WholeMonths
  <2>3. MonthStart[k] \in Int
    BY <2>2
  <2> QED
    BY <2>2, <2>3, SpanIsRange
<1>14. ASSUME NEW j \in 0 .. 24, j <= m
       PROVE  IsRange(Span(MonthStart[j], day + 1))
  <2>1. MonthStart[j] <= day /\ MonthStart[j] \in Nat
    BY <1>1, <1>5, <1>8, <1>9, <1>10, <1>12, <1>14
  <2>2. MonthStart[j] \in CalendarDays
    <3>1. MonthStart[LastMonth + 1] \in Nat
      BY MonthsInOrder
    <3> QED
      BY <1>1, <2>1, <3>1 DEF CalendarDays
  <2>3. day + 1 \in Int /\ (day + 1) - 1 = day /\ MonthStart[j] < day + 1
    BY <1>1, <2>1
  <2> QED
    BY <1>1, <2>2, <2>3, SpanIsRange
<1>15. /\ m \in Int /\ q \in Int /\ w \in Int /\ day \in Int /\ MonthStart[LastMonth + 1] \in Nat
       /\ w <= day /\ day - 6 <= w
  BY <1>1, <1>2, <1>3, MonthsInOrder
<1>16. /\ m < m + 1 /\ m - 1 < m /\ m - 2 <= m /\ m - 5 <= m /\ q < q + 3 /\ 12 < 24
       /\ day + 1 \in Int /\ (day + 1) - 1 = day /\ day < day + 1
       /\ w + 7 \in Int /\ w < w + 7
  BY <1>15
<1>17. w \in CalendarDays /\ (w + 7) - 1 \in CalendarDays
  <2>1. day - 6 \in 0 .. MonthStart[LastMonth + 1] - 1 /\ day + 6 \in 0 .. MonthStart[LastMonth + 1] - 1
    BY <1>1 DEF CalendarDays
  <2> QED
    BY <1>15, <2>1 DEF CalendarDays
<1>18. \A p \in Presets : IsRange(range(p))
  <2>1. IsRange(Span(day, day + 1))
    BY <1>1, <1>16, SpanIsRange
  <2>2. IsRange(Span(w, w + 7))
    BY <1>16, <1>17, SpanIsRange
  <2>3. IsRange(Span(MonthStart[m], MonthStart[m + 1]))
    <3>1. m \in 0 .. 24 /\ m + 1 \in 0 .. 24
      BY <1>8, Zenon
    <3>2. m < m + 1
      BY <1>16, Zenon
    <3> QED
      BY <1>13, <3>1, <3>2, Zenon
  <2>4. IsRange(Span(MonthStart[m - 1], MonthStart[m]))
    <3>1. m - 1 \in 0 .. 24 /\ m \in 0 .. 24
      BY <1>8, Zenon
    <3>2. m - 1 < m
      BY <1>16, Zenon
    <3> QED
      BY <1>13, <3>1, <3>2, Zenon
  <2>5. IsRange(Span(MonthStart[m - 2], day + 1))
    <3>1. m - 2 \in 0 .. 24
      BY <1>8, Zenon
    <3>2. m - 2 <= m
      BY <1>16, Zenon
    <3> QED
      BY <1>14, <3>1, <3>2, Zenon
  <2>6. IsRange(Span(MonthStart[m - 5], day + 1))
    <3>1. m - 5 \in 0 .. 24
      BY <1>8, Zenon
    <3>2. m - 5 <= m
      BY <1>16, Zenon
    <3> QED
      BY <1>14, <3>1, <3>2, Zenon
  <2>7. IsRange(Span(MonthStart[q], MonthStart[q + 3]))
    <3>1. q \in 0 .. 24 /\ q + 3 \in 0 .. 24
      BY <1>8, Zenon
    <3>2. q < q + 3
      BY <1>16, Zenon
    <3> QED
      BY <1>13, <3>1, <3>2, Zenon
  <2>8. IsRange(Span(MonthStart[12], MonthStart[24]))
    <3>1. 12 \in 0 .. 24 /\ 24 \in 0 .. 24
      BY <1>8, Zenon
    <3>2. 12 < 24
      BY <1>16, Zenon
    <3> QED
      BY <1>13, <3>1, <3>2, Zenon
  <2> HIDE DEF range
  <2> QED
    BY <1>4, <2>1, <2>2, <2>3, <2>4, <2>5, <2>6, <2>7, <2>8 DEF Presets
<1>19. \A p \in Presets, daily \in BOOLEAN :
          {PeriodKey(d, daily) : d \in DaysOf(range(p))} = PeriodKeys(range(p), daily)
  <2> HIDE DEF range
  <2> QED
    BY <1>18, PeriodsOfRange
<1>20. /\ DaysOf(range("today")) = day .. (day + 1) - 1
       /\ DaysOf(range("this_week")) = w .. (w + 7) - 1
       /\ DaysOf(range("this_month")) = MonthStart[m] .. MonthStart[m + 1] - 1
       /\ DaysOf(range("last_month")) = MonthStart[m - 1] .. MonthStart[m] - 1
       /\ DaysOf(range("last_3_months")) = MonthStart[m - 2] .. (day + 1) - 1
       /\ DaysOf(range("last_6_months")) = MonthStart[m - 5] .. (day + 1) - 1
       /\ DaysOf(range("this_quarter")) = MonthStart[q] .. MonthStart[q + 3] - 1
       /\ DaysOf(range("this_year")) = MonthStart[12] .. MonthStart[24] - 1
  <2> HIDE DEF range
  <2> QED
    BY <1>4 DEF DaysOf, Span
<1>21. range("last_month").end = range("this_month").start /\ RangeDayCount(range("this_week")) = 7
  <2> HIDE DEF range
  <2> QED
    BY <1>3, <1>4 DEF RangeDayCount, Span
<1> HIDE DEF range
<1> DEFINE m5 == MonthStart[m - 5]
           m2 == MonthStart[m - 2]
           m1 == MonthStart[m - 1]
           start == MonthStart[m]
           end == MonthStart[m + 1]
           q0 == MonthStart[q]
           q3 == MonthStart[q + 3]
           y0 == MonthStart[12]
           y1 == MonthStart[24]
<1>22. /\ DaysOf(range("today")) = day .. (day + 1) - 1
       /\ DaysOf(range("this_week")) = w .. (w + 7) - 1
       /\ DaysOf(range("this_month")) = start .. end - 1
       /\ DaysOf(range("last_month")) = m1 .. start - 1
       /\ DaysOf(range("last_3_months")) = m2 .. (day + 1) - 1
       /\ DaysOf(range("last_6_months")) = m5 .. (day + 1) - 1
       /\ DaysOf(range("this_quarter")) = q0 .. q3 - 1
       /\ DaysOf(range("this_year")) = y0 .. y1 - 1
  BY <1>20
<1>23. /\ m5 \in Nat /\ m2 \in Nat /\ m1 \in Nat /\ start \in Nat /\ end \in Nat
       /\ q0 \in Nat /\ q3 \in Nat /\ y0 \in Nat /\ y1 \in Nat /\ day \in Nat
  BY <1>1, <1>12
<1>24. /\ m5 <= m2 /\ m2 <= m1 /\ m1 <= start /\ start <= day /\ day < end
       /\ q0 <= start /\ end <= q3 /\ y0 <= q0 /\ q3 <= y1
  BY <1>5, <1>11
<1> HIDE DEF m5, m2, m1, start, end, q0, q3, y0, y1
<1>25. \A p \in Presets \ {"last_month"} : day \in DaysOf(range(p))
  <2>1. day \in DaysOf(range("today")) /\ day \in DaysOf(range("this_week"))
    BY <1>3, <1>22, <1>23
  <2>2. day \in DaysOf(range("this_month"))
    BY <1>22, <1>23, <1>24
  <2>3. day \in DaysOf(range("this_quarter"))
    BY <1>22, <1>23, <1>24
  <2>4. day \in DaysOf(range("this_year"))
    BY <1>22, <1>23, <1>24
  <2>5. day \in DaysOf(range("last_3_months")) /\ day \in DaysOf(range("last_6_months"))
    BY <1>22, <1>23, <1>24
  <2> QED
    BY <2>1, <2>2, <2>3, <2>4, <2>5 DEF Presets
<1>26. within("today", "this_week") /\ within("today", "this_month")
  <2>1. within("today", "this_week")
    BY <1>3, <1>22, <1>23
  <2>2. within("today", "this_month")
    BY <1>22, <1>23, <1>24
  <2> QED
    BY <2>1, <2>2
<1>27. within("this_month", "this_quarter")
  BY <1>22, <1>23, <1>24
<1>28. within("this_quarter", "this_year")
  BY <1>22, <1>23, <1>24
<1>29. within("last_month", "last_3_months")
  BY <1>22, <1>23, <1>24
<1>30. within("last_3_months", "last_6_months")
  BY <1>22, <1>23, <1>24
<1> QED
  BY <1>19, <1>21, <1>25, <1>26, <1>27, <1>28, <1>29, <1>30 DEF PresetsFit, range

(***************************************************************************)
(* No payment and no invoice falls between two periods of a series         *)
(* (buildMoneySeries, buildCountSeries, bucketAmounts, the trend of the    *)
(* forecast), whatever the lengths of the months, and every preset of      *)
(* resolveDateRange fits every day of a year.                              *)
(***************************************************************************)
THEOREM NothingBetweenPeriods == Spec => []PeriodsHold
<1>1. CalendarHolds
  BY DayFits DEF CalendarHolds
<1>2. IInv => PeriodsHold
  BY <1>1, SeriesHold DEF PeriodsHold
<1> QED
  BY <1>2, BooksInvariance, PTL

=============================================================================
