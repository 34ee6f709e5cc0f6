----------------------------- MODULE MCAccounts -----------------------------
(***************************************************************************)
(* An instance of Accounts for TLC: an empty table of users, and one with  *)
(* a super administrator, an administrator and its member, who may also    *)
(* have lost its administrator or not exist.                               *)
(***************************************************************************)
EXTENDS AccountsInvariant, TLC

CONSTANTS s, a, m, o1

Row(role, org, admin, email) ==
    [role |-> role, org |-> org, admin |-> admin, active |-> TRUE, email |-> email]

Seeded ==
    [u \in Users |->
        CASE u = s -> Row("SUPER_ADMIN", None, None, "boot@")
          [] u = a -> Row("ADMIN", o1, None, "a@")
          [] u = m -> Row("MEMBER", o1, a, "m@")
          [] OTHER -> NoUser]

Directories ==
    {Seeded, [Seeded EXCEPT ![m].admin = None], [Seeded EXCEPT ![m] = NoUser],
     [u \in Users |-> NoUser]}

Symmetry == Permutations(Requests) \cup Permutations(Tokens)

=============================================================================
