------------------------- MODULE LifecycleInvariant -------------------------
(***************************************************************************)
(* Why invoices stay whole: what a deletion in progress may rely on.       *)
(***************************************************************************)
EXTENDS InvoiceLifecycle

\* A request that is past its reads knows its invoice.
StepsOK ==
    /\ \A r \in Requests : req[r].step \notin {"idle", "insert"} => Inv(r) \in Invoices
    /\ \A r \in Requests : At(r, "insert") => req[r].lines \in Lines

\* A deletion that has its row lock keeps it, and the row with it; once it has
\* found the items and no payment, none of either is added.
DeletesAlone ==
    \A r \in Requests :
        /\ req[r].step \in {"cascade", "remove"} => rowLock[Inv(r)] = r /\ Exists(Inv(r))
        /\ At(r, "remove") => items[Inv(r)] \subseteq req[r].old /\ Inv(r) \notin paid

IInv ==
    /\ TypeOK
    /\ StepsOK
    /\ DeletesAlone
    /\ TotalsHaveLines
    /\ NoOrphanLines
    /\ PaidInvoiceStays
    /\ NumbersDiffer

=============================================================================
