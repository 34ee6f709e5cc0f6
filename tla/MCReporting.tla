----------------------------- MODULE MCReporting ----------------------------
(***************************************************************************)
(* An instance of Reporting for TLC: a super administrator, an             *)
(* administrator whose only member is deactivated, and a member of another *)
(* organization that has no administrator, so that invoices are owned by   *)
(* who made them as well as by whom they were given to; two customers, two *)
(* currencies, and a year of 48 days, so that a few days go from one month *)
(* to the next.                                                            *)
(***************************************************************************)
EXTENDS ReportingInvariant, TLC

CONSTANTS s, a, m, n, o1, o2, c1, c2

MCDaysIn == [k \in 0 .. 35 |-> 4]

User(role, org, admin, active) ==
    [role |-> role, org |-> org, admin |-> admin, active |-> active, email |-> None]

Directory ==
    [u \in Users |->
        CASE u = s -> User("SUPER_ADMIN", None, None, TRUE)
          [] u = a -> User("ADMIN", o1, None, TRUE)
          [] u = m -> User("MEMBER", o1, a, FALSE)
          [] u = n -> User("MEMBER", o2, None, TRUE)]

MCCustomerRow ==
    [c \in Customers |-> IF c = c1 THEN [org |-> o1, admin |-> a] ELSE [org |-> o2, admin |-> None]]

\* An invoice of two dollars, and one of a euro.
MCDrafts ==
    {[customer |-> c1, total |-> 2, currency |-> "USD", date |-> FirstDay, due |-> FirstDay],
     [customer |-> c2, total |-> 1, currency |-> "EUR", date |-> FirstDay, due |-> FirstDay + 14]}

MCExpenses ==
    {[id |-> 1, org |-> o1, creator |-> m, amount |-> 1, day |-> FirstDay, currency |-> "USD",
      category |-> 1]}

Symmetry == Permutations(Invoices)

=============================================================================
