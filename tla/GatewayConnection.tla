------------------------- MODULE GatewayConnection -------------------------
(***************************************************************************)
(* The connection of the platform's payment gateways: one row of           *)
(* payment_gateway_configs per provider, written by the OAuth callback, by *)
(* "test connection" and by "disconnect", none of which holds a lock or a  *)
(* transaction between the row it read and the row it writes.  A callback  *)
(* is let in by a row of payment_oauth_states, made when a super           *)
(* administrator starts to connect, good for ten minutes and for one use.  *)
(* Every database access is a step of its own.  A provider's answer is     *)
(* taken together with the write that follows it: whatever happens while   *)
(* the provider is asked comes before.                                     *)
(***************************************************************************)
EXTENDS Naturals, FiniteSets

CONSTANTS
  Requests,    \* request handlers that may run at the same time
  Admins,      \* users that are super administrators while ACTIVE
  Others,      \* users with a session who are not super administrators
  Accounts,    \* merchant accounts at the providers
  States,      \* OAuth states: the random strings of startConnect
  Nothing,     \* null
  StateLife,   \* how long a state may be used (STATE_TTL_MS)
  MaxTime      \* bound of the clock

ASSUME GatewayAssumption ==
  /\ Nothing \notin Admins \cup Others \cup Accounts \cup States
  /\ Admins \cap Others = {}
  /\ StateLife \in Nat
  /\ MaxTime \in Nat

VARIABLES
  now,          \* the clock
  admin,        \* status of each super administrator's account
  state,        \* payment_oauth_states, with what a deleted row said
  gateway,      \* payment_gateway_configs
  req,          \* the handlers under way
  connections   \* what each successful callback wrote, and whether it might

vars == <<now, admin, state, gateway, req, connections>>

Providers == {"STRIPE", "PAYPAL"}

-----------------------------------------------------------------------------
(* Rows.  A token is named by the account it was issued for. *)

GatewayRow ==
  [status: {"CONNECTED", "DISCONNECTED"}, merchant: Accounts \cup {Nothing},
   access: Accounts \cup {Nothing}, refresh: Accounts \cup {Nothing},
   by: Admins \cup {Nothing}]

Disconnected == [status |-> "DISCONNECTED", merchant |-> Nothing,
                 access |-> Nothing, refresh |-> Nothing, by |-> Nothing]

Connected(a, t, u) == [status |-> "CONNECTED", merchant |-> a, access |-> a,
                       refresh |-> t, by |-> u]

\* `spent` counts the transactions that took the row away.
StateRow ==
  [known: BOOLEAN, stored: BOOLEAN, provider: Providers,
   actor: Admins \cup {Nothing}, expires: Nat, spent: Nat]

NoState == [known |-> FALSE, stored |-> FALSE, provider |-> "STRIPE",
            actor |-> Nothing, expires |-> 0, spent |-> 0]

Visitors == Admins \cup Others \cup {Nothing}

Stages == {"idle", "open", "find", "spend", "user", "exchange", "probe",
           "clear"}

Request ==
  [stage: Stages, provider: Providers, actor: Visitors,
   state: States \cup {Nothing}, found: Nat, active: BOOLEAN, seen: GatewayRow]

\* A handler for p that goes on with a stage, knowing no more than this.
Begun(stage, p, s, u, row) ==
  [stage |-> stage, provider |-> p, actor |-> u, state |-> s, found |-> 0,
   active |-> FALSE, seen |-> row]

Idle == Begun("idle", "STRIPE", Nothing, Nothing, Disconnected)

Connection == [provider: Providers, row: GatewayRow, vouched: BOOLEAN]

Goto(r, q) == req' = [req EXCEPT ![r] = q]

At(r, stage) == req[r].stage = stage

\* requireAuth and assertSuperAdmin.
SuperAdmin(u) == admin[u] = "ACTIVE"

-----------------------------------------------------------------------------
Init ==
  /\ now = 0
  /\ admin = [u \in Admins |-> "ACTIVE"]
  /\ state = [s \in States |-> NoState]
  /\ gateway = [p \in Providers |-> Disconnected]
  /\ req = [r \in Requests |-> Idle]
  /\ connections = {}

-----------------------------------------------------------------------------
(* Starting. *)

StripeStarts(r, u) ==
  /\ At(r, "idle") /\ SuperAdmin(u)
  /\ Goto(r, Begun("open", "STRIPE", Nothing, u, Disconnected))
  /\ UNCHANGED <<now, admin, state, gateway, connections>>

\* PayPal is asked for an application token first; a refusal ends the request.
PayPalStarts(r, u) ==
  /\ At(r, "idle") /\ SuperAdmin(u)
  /\ \/ Goto(r, Begun("open", "PAYPAL", Nothing, u, Disconnected))
     \/ Goto(r, Idle)
  /\ UNCHANGED <<now, admin, state, gateway, connections>>

CreatePaymentOAuthState(r) ==
  /\ At(r, "open")
  /\ \E s \in States:
       /\ ~state[s].known
       /\ state' = [state EXCEPT ![s] =
            [known |-> TRUE, stored |-> TRUE, provider |-> req[r].provider,
             actor |-> req[r].actor, expires |-> now + StateLife, spent |-> 0]]
  /\ Goto(r, Idle)
  /\ UNCHANGED <<now, admin, gateway, connections>>

-----------------------------------------------------------------------------
(* The callback.  The browser brings a state and, when its cookie came     *)
(* along, a session; a callback that reports an error changes nothing.     *)

CallbackArrives(r, p, s, u) ==
  /\ At(r, "idle")
  /\ u \in Admins => SuperAdmin(u)
  /\ Goto(r, Begun("find", p, s, u, Disconnected))
  /\ UNCHANGED <<now, admin, state, gateway, connections>>

\* Slip: a state is good for ever.
UsableForEver(s, p) == state[s].stored /\ state[s].provider = p

\* First half of consumePaymentOAuthState: what the row must say.
Usable(s, p) ==
  /\ state[s].stored
  /\ state[s].provider = p
  /\ now < state[s].expires

FindState(r) ==
  /\ At(r, "find")
  /\ IF Usable(req[r].state, req[r].provider)
       THEN Goto(r, [req[r] EXCEPT !.stage = "spend", !.found = now])
       ELSE Goto(r, Idle)
  /\ UNCHANGED <<now, admin, state, gateway, connections>>

\* Slip: the row is taken away if it is still there, and nobody looks.
SpendAnyway(s) == state[s].known

\* Second half: update and delete throw when another transaction was first.
Spendable(s) == state[s].stored

\* The row after update and delete, as it was.
Spent(row) ==
  [known |-> row.known, stored |-> FALSE, provider |-> row.provider,
   actor |-> row.actor, expires |-> row.expires, spent |-> row.spent + 1]

Mine(r) == req[r].actor \in {Nothing, state[req[r].state].actor}

SpendState(r) ==
  LET s == req[r].state IN
  /\ At(r, "spend")
  /\ IF Spendable(s)
       THEN /\ state' = [state EXCEPT ![s] = Spent(state[s])]
            /\ IF Mine(r) THEN Goto(r, [req[r] EXCEPT !.stage = "user"])
                          ELSE Goto(r, Idle)
       ELSE Goto(r, Idle) /\ UNCHANGED state
  /\ UNCHANGED <<now, admin, gateway, connections>>

\* The user that started must still be an ACTIVE super administrator.
StarterEligible(r) == SuperAdmin(state[req[r].state].actor)

CheckStarter(r) ==
  /\ At(r, "user")
  /\ IF StarterEligible(r)
       THEN Goto(r, [req[r] EXCEPT
              !.stage = "exchange",
              !.active = admin[state[req[r].state].actor] = "ACTIVE"])
       ELSE Goto(r, Idle)
  /\ UNCHANGED <<now, admin, state, gateway, connections>>

\* The row for tokens of account a, with a refresh token or without.
Exchanged(r, a, t) == Connected(a, t, state[req[r].state].actor)

\* What must have let a callback in.  It is recorded and never asked for.
Vouched(q, row) ==
  LET s == state[q.state] IN
  /\ s.provider = q.provider
  /\ s.actor = row.by
  /\ q.actor \in {Nothing, row.by}
  /\ q.found < s.expires
  /\ q.active

SaveConnection(r, row) ==
  /\ gateway' = [gateway EXCEPT ![req[r].provider] = row]
  /\ connections' = connections \cup
       {[provider |-> req[r].provider, row |-> row,
         vouched |-> Vouched(req[r], row)]}

\* The refresh tokens that may come with the access token of an account.
StripeRefresh(a) == {a, Nothing}
PayPalRefresh(a) == {a, Nothing}

\* Stripe names the account with the tokens; that its details cannot be
\* read afterwards does not matter.
StripeConnects(r) ==
  /\ At(r, "exchange") /\ req[r].provider = "STRIPE"
  /\ \E a \in Accounts: \E t \in StripeRefresh(a):
       SaveConnection(r, Exchanged(r, a, t))
  /\ Goto(r, Idle)
  /\ UNCHANGED <<now, admin, state>>

\* PayPal's tokens do not name it: the account is asked for with them.
PayPalConnects(r) ==
  /\ At(r, "exchange") /\ req[r].provider = "PAYPAL"
  /\ \E a \in Accounts: \E t \in PayPalRefresh(a):
       SaveConnection(r, Exchanged(r, a, t))
  /\ Goto(r, Idle)
  /\ UNCHANGED <<now, admin, state>>

\* The provider refuses the code, or PayPal does not name an account.
ExchangeFails(r) ==
  /\ At(r, "exchange")
  /\ Goto(r, Idle)
  /\ UNCHANGED <<now, admin, state, gateway, connections>>

-----------------------------------------------------------------------------
(* Testing: the row is read, the provider asked, the row written back.     *)

Testable(p) ==
  /\ gateway[p].status = "CONNECTED"
  /\ p = "STRIPE" => gateway[p].merchant # Nothing

TestReads(r, p, u) ==
  /\ At(r, "idle") /\ SuperAdmin(u) /\ Testable(p)
  /\ Goto(r, Begun("probe", p, Nothing, Nothing, gateway[p]))
  /\ UNCHANGED <<now, admin, state, gateway, connections>>

\* Slip: only the tokens are written, under whatever merchant is stored.
KeptTokens(r, row) ==
  [gateway[req[r].provider] EXCEPT !.status = "CONNECTED",
     !.access = row.access, !.refresh = row.refresh]

\* The whole row is written from what was read.
Kept(r, row) == row

KeepConnection(r, row) ==
  /\ gateway' = [gateway EXCEPT ![req[r].provider] = Kept(r, row)]
  /\ Goto(r, Idle)
  /\ UNCHANGED <<now, admin, state, connections>>

StripeTested(r) ==
  /\ At(r, "probe") /\ req[r].provider = "STRIPE"
  /\ KeepConnection(r, req[r].seen)

\* With a refresh token the tokens are renewed, perhaps both of them; without
\* one the access token is tried; without any the request ends.
Renewed(row) ==
  IF row.refresh # Nothing THEN [row EXCEPT !.access = row.refresh] ELSE row

PayPalTested(r) ==
  /\ At(r, "probe") /\ req[r].provider = "PAYPAL"
  /\ {req[r].seen.access, req[r].seen.refresh} # {Nothing}
  /\ KeepConnection(r, Renewed(req[r].seen))

TestFails(r) ==
  /\ At(r, "probe")
  /\ Goto(r, Idle)
  /\ UNCHANGED <<now, admin, state, gateway, connections>>

-----------------------------------------------------------------------------
(* Disconnecting. *)

\* Stripe is told when the row names an account; whether it listens does not
\* matter.
StripeDisconnects(r, u) ==
  /\ At(r, "idle") /\ SuperAdmin(u)
  /\ Goto(r, Begun("clear", "STRIPE", Nothing, Nothing, Disconnected))
  /\ UNCHANGED <<now, admin, state, gateway, connections>>

PayPalDisconnects(r, u) ==
  /\ At(r, "idle") /\ SuperAdmin(u)
  /\ Goto(r, Begun("clear", "PAYPAL", Nothing, Nothing, Disconnected))
  /\ UNCHANGED <<now, admin, state, gateway, connections>>

ClearConnection(r) ==
  /\ At(r, "clear")
  /\ gateway' = [gateway EXCEPT ![req[r].provider] = Disconnected]
  /\ Goto(r, Idle)
  /\ UNCHANGED <<now, admin, state, connections>>

-----------------------------------------------------------------------------
(* Time, and accounts of super administrators that are switched off or on. *)

Tick ==
  /\ now < MaxTime
  /\ now' = now + 1
  /\ UNCHANGED <<admin, state, gateway, req, connections>>

SetStatus(u) ==
  /\ admin' = [admin EXCEPT ![u] =
                 IF @ = "ACTIVE" THEN "DEACTIVATED" ELSE "ACTIVE"]
  /\ UNCHANGED <<now, state, gateway, req, connections>>

Begin(r) ==
  \/ \E u \in Admins:
       \/ StripeStarts(r, u)
       \/ PayPalStarts(r, u)
       \/ StripeDisconnects(r, u)
       \/ PayPalDisconnects(r, u)
       \/ \E p \in Providers: TestReads(r, p, u)
  \/ \E p \in Providers, s \in States, u \in Visitors:
       CallbackArrives(r, p, s, u)

Step(r) ==
  \/ CreatePaymentOAuthState(r)
  \/ FindState(r)
  \/ SpendState(r)
  \/ CheckStarter(r)
  \/ StripeConnects(r)
  \/ PayPalConnects(r)
  \/ ExchangeFails(r)
  \/ StripeTested(r)
  \/ PayPalTested(r)
  \/ TestFails(r)
  \/ ClearConnection(r)

Next ==
  \/ \E r \in Requests: Begin(r) \/ Step(r)
  \/ Tick
  \/ \E u \in Admins: SetStatus(u)

Spec == Init /\ [][Next]_vars

-----------------------------------------------------------------------------
(* Properties. *)

\* Every variable holds a value of its kind.
TypeOK ==
  /\ now \in Nat
  /\ admin \in [Admins -> {"ACTIVE", "DEACTIVATED"}]
  /\ state \in [States -> StateRow]
  /\ gateway \in [Providers -> GatewayRow]
  /\ req \in [Requests -> Request]
  /\ connections \subseteq Connection

\* An OAuth state lets one callback through, however many browsers bring it
\* at the same time (consumePaymentOAuthState).
StateSpentOnce == \A s \in States: state[s].spent <= 1

\* Whatever interleaves with a callback, the connection it writes belongs to
\* the provider for which the state was made, names the administrator who
\* started it, was carried by that administrator's session or by none, was
\* begun before the state expired, and the administrator was still ACTIVE
\* when looked up after the state had been spent.
ConnectionsAreVouched == \A c \in connections: c.vouched

\* The row is all of one connection that some callback made, or empty: a test
\* that writes back what it read long ago, crossing a reconnection or a
\* disconnection, never leaves one account's tokens under another's name.
RowIsOneConnection ==
  \A p \in Providers:
    \/ gateway[p] = Disconnected
    \/ /\ \E c \in connections: c.provider = p /\ c.row = gateway[p]
       /\ gateway[p].access = gateway[p].merchant
       /\ gateway[p].refresh \in {gateway[p].merchant, Nothing}

=============================================================================
