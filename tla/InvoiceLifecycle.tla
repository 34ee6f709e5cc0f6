-------------------------- MODULE InvoiceLifecycle --------------------------
(***************************************************************************)
(* Drafting, numbering, editing, issuing, cancelling and deleting the      *)
(* invoices of one organization.  An invoice is a row and its line items.  *)
(* The row holds the totals; an edit that brings new lines replaces the    *)
(* items and the totals in one transaction at PostgreSQL's default         *)
(* isolation, READ COMMITTED.  That a draft is still a draft is only       *)
(* looked at before, in a statement of its own.                            *)
(*                                                                         *)
(* The lines one edit writes are one element of Lines, never used again    *)
(* while anybody still knows it (items have fresh ids), and the row's      *)
(* totals are those of the lines it names.                                 *)
(***************************************************************************)
EXTENDS Naturals, FiniteSets

CONSTANTS
    Invoices,   \* ids of invoices
    Requests,   \* requests that may be in progress together
    Lines,      \* the line items that one edit writes
    MaxNumber,  \* bound on invoice numbers
    Nil         \* no request, no lines

ASSUME LifecycleAssumption ==
    /\ Nil \notin Requests \cup Lines \cup Invoices
    /\ MaxNumber \in Nat

VARIABLES
    row,      \* the row of each invoice
    items,    \* its line items
    paid,     \* the invoices that a payment row refers to
    rowLock,  \* the transaction that is deleting the row, if any
    req       \* the progress of each request

vars == <<row, items, paid, rowLock, req>>

-----------------------------------------------------------------------------
(***************************************************************************)
(* SENT stands for VIEWED and OVERDUE, PAID for PARTIALLY_PAID too.        *)
(***************************************************************************)
Stored == {"DRAFT", "SENT", "PAID", "CANCELLED"}

Numbers == 0 .. MaxNumber

Row == [status: Stored \cup {"NONE", "DELETED"}, number: Numbers, totals: Lines \cup {Nil}]

Steps == {"idle", "insert", "save", "replace", "commit", "delete", "cascade", "remove",
          "issue", "cancel"}

\* old: the lines a transaction has found to delete, then those it has locked.
Req == [step: Steps, invoice: Invoices \cup {Nil}, number: Numbers, lines: Lines \cup {Nil},
        old: SUBSET Lines, draft: BOOLEAN]

Begun(step, i, n, l, draft) ==
    [step |-> step, invoice |-> i, number |-> n, lines |-> l, old |-> {}, draft |-> draft]
Idle == Begun("idle", Nil, 0, Nil, FALSE)

Exists(i) == row[i].status \in Stored

At(r, step) == req[r].step = step
Inv(r) == req[r].invoice

Begin(r, step, i, n, l, draft) == req' = [req EXCEPT ![r] = Begun(step, i, n, l, draft)]

Goto(r, step, old) ==
    req' = [req EXCEPT ![r] = [step |-> step, invoice |-> @.invoice, number |-> @.number,
                               lines |-> @.lines, old |-> old, draft |-> @.draft]]

Done(r) == req' = [req EXCEPT ![r] = Idle]

Fresh(l) ==
    /\ \A i \in Invoices : l \notin items[i]
    /\ \A r \in Requests : l # req[r].lines /\ l \notin req[r].old

\* What a look at the numbers finds.
NumberFree(i, n) == \A j \in Invoices \ {i} : Exists(j) => row[j].number # n

\* The unique index on organization and number.
IndexAllows(i, n) == NumberFree(i, n)

\* Slip: nobody asks whether the row is being deleted.
RowLockIgnored(i) == TRUE

\* A row that is being deleted makes every other write of it, and every row
\* that would refer to it, wait.
RowFree(i) == rowLock[i] = Nil

\* Items that another transaction has deleted cannot be deleted meanwhile.
ItemsFree(r, set) ==
    \A q \in Requests \ {r} : req[q].step \in {"commit", "remove"} => req[q].old \cap set = {}

-----------------------------------------------------------------------------
(***************************************************************************)
(* Creation.  The number is one that no invoice has: the latest plus one,  *)
(* or one that came with the request.                                      *)
(***************************************************************************)
ChooseNumber(r) ==
    /\ At(r, "idle")
    /\ \E n \in Numbers \ {0}, l \in Lines :
          /\ NumberFree(Nil, n)
          /\ Fresh(l)
          /\ Begin(r, "insert", Nil, n, l, FALSE)
    /\ UNCHANGED <<row, items, paid, rowLock>>

InsertInvoice(r) ==
    /\ At(r, "insert")
    /\ \E i \in Invoices :
          /\ row[i].status = "NONE"
          /\ IndexAllows(i, req[r].number)
          /\ row' = [row EXCEPT ![i] = [status |-> "DRAFT", number |-> req[r].number,
                                        totals |-> req[r].lines]]
          /\ items' = [items EXCEPT ![i] = {req[r].lines}]
    /\ Done(r)
    /\ UNCHANGED <<paid, rowLock>>

-----------------------------------------------------------------------------
(***************************************************************************)
(* An edit of a draft.  Without a number it keeps the one the row has by   *)
(* then, without lines it keeps those.                                     *)
(***************************************************************************)
ReadToEdit(r) ==
    /\ At(r, "idle")
    /\ \E i \in Invoices, n \in Numbers, l \in Lines \cup {Nil} :
          /\ row[i].status = "DRAFT"
          /\ n # 0 => NumberFree(i, n)
          /\ l # Nil => Fresh(l)
          /\ Begin(r, "save", i, n, l, FALSE)
    /\ UNCHANGED <<row, items, paid, rowLock>>

\* deleteMany sees the items that are committed when it starts.
FindLines(r) ==
    /\ At(r, "save")
    /\ Goto(r, "replace", IF req[r].lines = Nil THEN {} ELSE items[Inv(r)])
    /\ UNCHANGED <<row, items, paid, rowLock>>

\* It waits for those another transaction deletes, and then skips them.
LockLines(r) ==
    /\ At(r, "replace")
    /\ ItemsFree(r, req[r].old)
    /\ Goto(r, "commit", req[r].old \cap items[Inv(r)])
    /\ UNCHANGED <<row, items, paid, rowLock>>

Savable(r) ==
    /\ RowFree(Inv(r))
    /\ Exists(Inv(r))
    /\ IndexAllows(Inv(r), req[r].number)

Left(r) == items[Inv(r)] \ req[r].old

\* Slip: lines are only written when none are left.
LinesIfNone(r) == IF Left(r) = {} THEN {req[r].lines} ELSE Left(r)

LinesAfter(r) == IF req[r].lines = Nil THEN items[Inv(r)] ELSE Left(r) \cup {req[r].lines}

CommitEdit(r) ==
    /\ At(r, "commit")
    /\ Savable(r)
    /\ row' = [row EXCEPT ![Inv(r)] =
                  [status |-> @.status,
                   number |-> IF req[r].number = 0 THEN @.number ELSE req[r].number,
                   totals |-> IF req[r].lines = Nil THEN @.totals ELSE req[r].lines]]
    /\ items' = [items EXCEPT ![Inv(r)] = LinesAfter(r)]
    /\ Done(r)
    /\ UNCHANGED <<paid, rowLock>>

-----------------------------------------------------------------------------
(***************************************************************************)
(* Deletion of a draft.  The statement locks the row; at its end a payment *)
(* row restricts it, and the items go by cascade, once their locks are     *)
(* free; then it commits.                                                  *)
(***************************************************************************)
ReadToDelete(r) ==
    /\ At(r, "idle")
    /\ \E i \in Invoices :
          /\ row[i].status = "DRAFT"
          /\ Begin(r, "delete", i, 0, Nil, FALSE)
    /\ UNCHANGED <<row, items, paid, rowLock>>

LockToDelete(r) ==
    /\ At(r, "delete")
    /\ Exists(Inv(r)) /\ RowFree(Inv(r))
    /\ rowLock' = [rowLock EXCEPT ![Inv(r)] = r]
    /\ Goto(r, "cascade", {})
    /\ UNCHANGED <<row, items, paid>>

Restricted(i) == i \in paid

\* Slip: no cascade.
NothingCascades(i) == {}

Cascaded(i) == items[i]

Cascade(r) ==
    /\ At(r, "cascade")
    /\ ItemsFree(r, items[Inv(r)])
    /\ ~Restricted(Inv(r))
    /\ Goto(r, "remove", Cascaded(Inv(r)))
    /\ UNCHANGED <<row, items, paid, rowLock>>

CommitDelete(r) ==
    /\ At(r, "remove")
    /\ row' = [row EXCEPT ![Inv(r)].status = "DELETED"]
    /\ items' = [items EXCEPT ![Inv(r)] = @ \ req[r].old]
    /\ rowLock' = [rowLock EXCEPT ![Inv(r)] = Nil]
    /\ Done(r)
    /\ UNCHANGED paid

-----------------------------------------------------------------------------
(***************************************************************************)
(* A delivery mails the invoice it has read and issues it if that was a    *)
(* draft; a cancellation writes over whatever the status is by then.       *)
(***************************************************************************)
ReadToSend(r) ==
    /\ At(r, "idle")
    /\ \E i \in Invoices :
          /\ Exists(i) /\ row[i].status # "CANCELLED"
          /\ Begin(r, "issue", i, 0, Nil, row[i].status = "DRAFT")
    /\ UNCHANGED <<row, items, paid, rowLock>>

Issue(r) ==
    /\ At(r, "issue")
    /\ Exists(Inv(r)) /\ RowFree(Inv(r))
    /\ row' = [row EXCEPT ![Inv(r)].status = IF req[r].draft THEN "SENT" ELSE @]
    /\ Done(r)
    /\ UNCHANGED <<items, paid, rowLock>>

ReadToCancel(r) ==
    /\ At(r, "idle")
    /\ \E i \in Invoices :
          /\ row[i].status \in {"DRAFT", "SENT"}
          /\ Begin(r, "cancel", i, 0, Nil, FALSE)
    /\ UNCHANGED <<row, items, paid, rowLock>>

CancelInvoice(r) ==
    /\ At(r, "cancel")
    /\ Exists(Inv(r)) /\ RowFree(Inv(r))
    /\ row' = [row EXCEPT ![Inv(r)].status = "CANCELLED"]
    /\ Done(r)
    /\ UNCHANGED <<items, paid, rowLock>>

(***************************************************************************)
(* What Settlement does, as far as the row is concerned: payment rows are  *)
(* only inserted for invoices that were issued, and some of them settle.   *)
(***************************************************************************)
InsertPayment(i) ==
    /\ row[i].status \in Stored \ {"DRAFT"}
    /\ RowFree(i)
    /\ paid' = paid \cup {i}
    /\ UNCHANGED <<row, items, rowLock, req>>

Settle(i) ==
    /\ row[i].status = "SENT" /\ i \in paid
    /\ RowFree(i)
    /\ row' = [row EXCEPT ![i].status = "PAID"]
    /\ UNCHANGED <<items, paid, rowLock, req>>

(***************************************************************************)
(* A conflict, a missing row, a payment that restricts a deletion, the     *)
(* deadlock of an edit with a deletion, a lost connection: the transaction *)
(* is rolled back.                                                         *)
(***************************************************************************)
Fail(r) ==
    /\ ~At(r, "idle")
    /\ rowLock' = [i \in Invoices |-> IF rowLock[i] = r THEN Nil ELSE rowLock[i]]
    /\ Done(r)
    /\ UNCHANGED <<row, items, paid>>

-----------------------------------------------------------------------------
Init ==
    /\ row = [i \in Invoices |-> [status |-> "NONE", number |-> 0, totals |-> Nil]]
    /\ items = [i \in Invoices |-> {}]
    /\ paid = {}
    /\ rowLock = [i \in Invoices |-> Nil]
    /\ req = [r \in Requests |-> Idle]

Edit(r) == ReadToEdit(r) \/ FindLines(r) \/ LockLines(r) \/ CommitEdit(r)

Delete(r) == ReadToDelete(r) \/ LockToDelete(r) \/ Cascade(r) \/ CommitDelete(r)

Next ==
    \/ \E r \in Requests :
          \/ ChooseNumber(r) \/ InsertInvoice(r)
          \/ Edit(r) \/ Delete(r)
          \/ ReadToSend(r) \/ Issue(r) \/ ReadToCancel(r) \/ CancelInvoice(r)
          \/ Fail(r)
    \/ \E i \in Invoices : InsertPayment(i) \/ Settle(i)

Spec == Init /\ [][Next]_vars

-----------------------------------------------------------------------------
(***************************************************************************)
(* Properties.                                                             *)
(***************************************************************************)

TypeOK ==
    /\ row \in [Invoices -> Row]
    /\ items \in [Invoices -> SUBSET Lines]
    /\ paid \subseteq Invoices
    /\ rowLock \in [Invoices -> Requests \cup {Nil}]
    /\ req \in [Requests -> Req]

(***************************************************************************)
(* The lines behind an invoice's totals are there: of edits that overlap,  *)
(* the last to write the totals also has its lines stored, although each   *)
(* deletes the items it found before the others wrote theirs.              *)
(***************************************************************************)
TotalsHaveLines == \A i \in Invoices : Exists(i) => row[i].totals \in items[i]

(***************************************************************************)
(* No line items are left of an invoice that is not there, although an     *)
(* edit that read it as a draft may write them after its deletion.         *)
(***************************************************************************)
NoOrphanLines == \A i \in Invoices : ~Exists(i) => items[i] = {}

(***************************************************************************)
(* An invoice with a payment is never deleted, although it may be issued   *)
(* and paid after the deletion saw a draft.                                *)
(***************************************************************************)
PaidInvoiceStays == \A i \in paid : Exists(i)

(***************************************************************************)
(* Invoices of the organization have different numbers, although creations *)
(* and edits choose theirs before they write them.                         *)
(***************************************************************************)
NumbersDiffer ==
    \A i, j \in Invoices :
        Exists(i) /\ Exists(j) /\ row[i].number = row[j].number => i = j

(***************************************************************************)
(* What the tests say and overlapping edits refute: an invoice's totals    *)
(* are those of its lines.                                                 *)
(***************************************************************************)
TotalsOfLines == \A i \in Invoices : Exists(i) => items[i] = {row[i].totals}

=============================================================================
