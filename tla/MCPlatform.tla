----------------------------- MODULE MCPlatform -----------------------------
(* Small instances of the parts of Platform for TLC. *)
EXTENDS Platform, TLC

Symmetry ==
  Permutations(Requests) \cup Permutations(States) \cup Permutations(Accounts)

=============================================================================
