-------------------------- MODULE GatewayInvariant --------------------------
(***************************************************************************)
(* The inductive invariant of the gateway connections: what a handler has  *)
(* been told by each step it has taken, and what it carries from the row   *)
(* it read, stay true of the states and of the connections made, whatever  *)
(* the other handlers do meanwhile.                                        *)
(***************************************************************************)
EXTENDS GatewayConnection

\* A row of p, all of it from one connection among cs.
Whole(p, row, cs) ==
  /\ \E c \in cs: c.provider = p /\ c.row = row
  /\ row.access = row.merchant
  /\ row.refresh \in {row.merchant, Nothing}

\* A state was made for an administrator and has been spent once if it is gone.
StateOK(row) ==
  /\ ~row.known => row = NoState
  /\ row.known => /\ row.actor \in Admins
                  /\ row.spent = IF row.stored THEN 0 ELSE 1

\* What handler q relies on, given the states st and the connections cs.
RequestOK(q, st, cs) ==
  /\ q.stage = "open" => q.actor \in Admins
  /\ q.stage = "find" => q.state \in States
  /\ q.stage \in {"spend", "user", "exchange"} =>
       /\ q.state \in States
       /\ st[q.state].known
       /\ st[q.state].provider = q.provider
       /\ q.found < st[q.state].expires
  /\ q.stage \in {"user", "exchange"} => q.actor \in {Nothing, st[q.state].actor}
  /\ q.stage = "exchange" => q.active
  /\ q.stage = "probe" => Whole(q.provider, q.seen, cs)

\* States are sound, handlers rely on nothing that has changed, and every row
\* is empty or one connection's.
IInv ==
  /\ TypeOK
  /\ \A s \in States: StateOK(state[s])
  /\ \A r \in Requests: RequestOK(req[r], state, connections)
  /\ ConnectionsAreVouched
  /\ \A p \in Providers:
       gateway[p] = Disconnected \/ Whole(p, gateway[p], connections)

=============================================================================
