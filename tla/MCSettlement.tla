--------------------------- MODULE MCSettlement ---------------------------
(***************************************************************************)
(* Instances of Settlement for TLC.  Handlers and manual transaction ids   *)
(* are interchangeable, and so are sessions: none of them is named in the  *)
(* specification.                                                          *)
(***************************************************************************)
EXTENDS SettlementLedger, SettlementInvariant, TLC

Symmetry ==
    Permutations(Requests) \cup Permutations(Manuals) \cup Permutations(Sessions)

=============================================================================
