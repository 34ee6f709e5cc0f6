--------------------------- MODULE InvoiceStatus ---------------------------
(***************************************************************************)
(* The status vocabulary of an invoice and the pure functions that every   *)
(* service asks before it acts: which stored statuses permit an operation, *)
(* and which status a reader is shown for a stored status, a due date and  *)
(* an amount paid.                                                         *)
(*                                                                         *)
(* Money is a natural number of units.                                     *)
(***************************************************************************)
EXTENDS Naturals

InvoiceStatuses ==
    {"DRAFT", "SENT", "VIEWED", "PARTIALLY_PAID", "PAID", "OVERDUE", "CANCELLED"}

CancellableStatuses == {"DRAFT", "SENT", "VIEWED", "OVERDUE"}

PayableStatuses == {"SENT", "VIEWED", "OVERDUE", "PARTIALLY_PAID"}

(***************************************************************************)
(* derivePaymentStatus: the order of the tests matters, a zero total       *)
(* counts as paid once the invoice has left DRAFT.                         *)
(***************************************************************************)
DerivePaymentStatus(total, paid, stored) ==
    CASE stored = "CANCELLED"            -> "NONE"
      [] stored = "DRAFT" /\ paid = 0     -> "UNPAID"
      [] stored = "DRAFT" /\ paid > 0     -> IF paid >= total THEN "PAID" ELSE "PARTIALLY_PAID"
      [] OTHER -> IF paid >= total THEN "PAID"
                  ELSE IF paid = 0 THEN "UNPAID" ELSE "PARTIALLY_PAID"

(***************************************************************************)
(* deriveInvoiceStatus: overdue stands for dueDate < start of today.       *)
(***************************************************************************)
DeriveInvoiceStatus(stored, total, paid, overdue) ==
    LET payment == DerivePaymentStatus(total, paid, stored)
    IN  IF stored \in {"CANCELLED", "DRAFT"} THEN stored
        ELSE IF payment \in {"PAID", "PARTIALLY_PAID"} THEN payment
        ELSE IF overdue THEN "OVERDUE" ELSE stored

CanCancelInvoice(stored) == stored \in CancellableStatuses

CanRecordPayment(shown) == shown \in PayableStatuses

(***************************************************************************)
(* The status the settlement transactions store with an amount paid.       *)
(***************************************************************************)
\* Slip: an invoice counts as paid only when more than its total is.
SettledStatusStrict(paid, total) == IF paid > total THEN "PAID" ELSE "PARTIALLY_PAID"

SettledStatus(paid, total) == IF paid >= total THEN "PAID" ELSE "PARTIALLY_PAID"

=============================================================================
