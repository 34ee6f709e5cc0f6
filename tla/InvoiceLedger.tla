--------------------------- MODULE InvoiceLedger ---------------------------
(***************************************************************************)
(* What settlement promises, with the handlers, transactions, locks and    *)
(* webhooks left out: the payments of an invoice are credited one at a     *)
(* time, each with an amount that fits the balance at that instant, a      *)
(* credit can only be taken back whole, and every capture that was ever    *)
(* credited stays in the log.                                              *)
(***************************************************************************)
EXTENDS UnitSums

CONSTANTS Txns, Total

VARIABLES
    credit,  \* what each transaction id is credited with, 0 for nothing
    logged   \* the captures that were credited

ledger == <<credit, logged>>

Init ==
    /\ credit = [t \in Txns |-> 0]
    /\ logged = {}

Credit(t, a, ref) ==
    /\ credit[t] = 0
    /\ a > 0
    /\ SumOf(credit, Txns) + a <= Total
    /\ credit' = [credit EXCEPT ![t] = a]
    /\ logged' = logged \cup {ref}

TakeBack(t) ==
    /\ credit[t] > 0
    /\ credit' = [credit EXCEPT ![t] = 0]
    /\ UNCHANGED logged

Next ==
    \E t \in Txns :
        \/ \E a \in 1 .. Total, ref \in Txns : Credit(t, a, ref)
        \/ TakeBack(t)

Spec == Init /\ [][Next]_ledger

=============================================================================
