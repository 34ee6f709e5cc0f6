------------------------- MODULE MCInvoiceLifecycle -------------------------
(***************************************************************************)
(* Instances of InvoiceLifecycle for TLC.  Requests, invoices and lines    *)
(* are interchangeable.                                                    *)
(***************************************************************************)
EXTENDS LifecycleInvariant, TLC

Symmetry == Permutations(Requests) \cup Permutations(Invoices) \cup Permutations(Lines)

=============================================================================
