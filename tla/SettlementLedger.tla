-------------------------- MODULE SettlementLedger --------------------------
(***************************************************************************)
(* Settlement implements InvoiceLedger.  A transaction is credited while   *)
(* its payment row is COMPLETED; the log is the set of captures that have  *)
(* a PaymentTransaction row.                                               *)
(***************************************************************************)
EXTENDS Settlement

credited == [t \in Txns |-> IF pay[t].status = "COMPLETED" THEN pay[t].amount ELSE 0]

captured == {e.ref : e \in entries}

Ledger == INSTANCE InvoiceLedger WITH credit <- credited, logged <- captured

(***************************************************************************)
(* The settling transactions, the refund transaction and the unlocked      *)
(* status writes of completeProviderPayment's neighbours credit and take   *)
(* back as the ledger does: atomically, and never beyond the total.        *)
(***************************************************************************)
ImplementsLedger == Ledger!Spec

=============================================================================
