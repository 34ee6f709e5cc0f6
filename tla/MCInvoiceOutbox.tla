-------------------------- MODULE MCInvoiceOutbox --------------------------
(***************************************************************************)
(* Instances of InvoiceOutbox for TLC.  Requests, job slots and events are *)
(* interchangeable.                                                        *)
(***************************************************************************)
EXTENDS OutboxInvariant, TLC

Symmetry == Permutations(Senders) \cup Permutations(Workers) \cup Permutations(Events)

=============================================================================
