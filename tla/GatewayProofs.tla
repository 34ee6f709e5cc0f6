--------------------------- MODULE GatewayProofs ---------------------------
(***************************************************************************)
(* GatewayConnection keeps GatewayInvariant, for any number of handlers,   *)
(* administrators, accounts and OAuth states.                              *)
(***************************************************************************)
EXTENDS GatewayInvariant, TLAPS

LEMMA DisconnectedType == Disconnected \in GatewayRow
BY DEF Disconnected, GatewayRow

LEMMA IdleType == Idle \in Request /\ Idle.stage = "idle"
BY DisconnectedType DEF Idle, Begun, Request, Stages, Providers, Visitors

\* A handler that is idle, or about to write an empty row, relies on nothing.
LEMMA NothingRelied ==
  ASSUME NEW q, q.stage \in {"idle", "clear"}, NEW st, NEW cs
  PROVE  RequestOK(q, st, cs)
BY DEF RequestOK

(***************************************************************************)
(* What a step of one handler does to the rest.                            *)
(***************************************************************************)
LEMMA Moved ==
  ASSUME TypeOK, NEW r \in Requests, NEW q \in Request, Goto(r, q)
  PROVE  /\ req' \in [Requests -> Request]
         /\ req'[r] = q
         /\ \A x \in Requests \ {r}: req'[x] = req[x]
BY DEF TypeOK, Goto

\* What a handler relies on survives every step of another: known states keep
\* what they say, and connections are only added.
LEMMA StillOK ==
  ASSUME NEW q \in Request, NEW st, NEW st2, NEW cs, NEW cs2,
         RequestOK(q, st, cs),
         \A s \in States: st[s].known =>
           /\ st2[s].known
           /\ st2[s].provider = st[s].provider
           /\ st2[s].actor = st[s].actor
           /\ st2[s].expires = st[s].expires,
         cs \subseteq cs2
  PROVE  RequestOK(q, st2, cs2)
<1>1. q.stage = "probe" => Whole(q.provider, q.seen, cs2)
  BY DEF RequestOK, Whole
<1>2. q.stage \in {"spend", "user", "exchange"} =>
        q.state \in States /\ st[q.state].known
  BY DEF RequestOK
<1> QED BY <1>1, <1>2 DEF RequestOK

\* A handler moves on and writes no row.
LEMMA MoveKeeps ==
  ASSUME IInv, NEW r \in Requests, NEW q \in Request, Goto(r, q),
         RequestOK(q, state, connections),
         UNCHANGED <<now, admin, state, gateway, connections>>
  PROVE  IInv'
<1>1. /\ req' \in [Requests -> Request]
      /\ req'[r] = q
      /\ \A x \in Requests \ {r}: req'[x] = req[x]
  BY Moved DEF IInv
<1>2. \A x \in Requests: RequestOK(req'[x], state, connections)
  BY <1>1 DEF IInv
<1> QED BY <1>1, <1>2 DEF IInv, TypeOK, ConnectionsAreVouched

\* A handler ends and writes no row.
LEMMA EndKeeps ==
  ASSUME IInv, NEW r \in Requests, Goto(r, Idle),
         UNCHANGED <<now, admin, state, gateway, connections>>
  PROVE  IInv'
BY IdleType, NothingRelied, MoveKeeps

\* A handler ends and changes one state, whose row stays sound and keeps what
\* it says when it was known.
LEMMA StateKeeps ==
  ASSUME IInv, NEW r \in Requests, NEW q \in Request, Goto(r, q),
         NEW s \in States, NEW row \in StateRow, StateOK(row),
         state' = [state EXCEPT ![s] = row],
         state[s].known =>
           /\ row.known
           /\ row.provider = state[s].provider
           /\ row.actor = state[s].actor
           /\ row.expires = state[s].expires,
         RequestOK(q, state', connections),
         UNCHANGED <<now, admin, gateway, connections>>
  PROVE  IInv'
<1>1. /\ req' \in [Requests -> Request]
      /\ req'[r] = q
      /\ \A x \in Requests \ {r}: req'[x] = req[x]
  BY Moved DEF IInv
<1>2. /\ state' \in [States -> StateRow]
      /\ state'[s] = row
      /\ \A t \in States \ {s}: state'[t] = state[t]
  BY DEF IInv, TypeOK
<1>3. \A t \in States: StateOK(state'[t])
  BY <1>2 DEF IInv
<1>4. \A t \in States: state[t].known =>
        /\ state'[t].known
        /\ state'[t].provider = state[t].provider
        /\ state'[t].actor = state[t].actor
        /\ state'[t].expires = state[t].expires
  BY <1>2
<1>5. ASSUME NEW x \in Requests \ {r}
      PROVE  RequestOK(req'[x], state', connections)
  <2>1. req[x] \in Request /\ RequestOK(req[x], state, connections)
    BY DEF IInv, TypeOK
  <2> QED BY <1>1, <1>4, <2>1, StillOK
<1>6. \A x \in Requests: RequestOK(req'[x], state', connections')
  BY <1>1, <1>5
<1> QED BY <1>1, <1>2, <1>3, <1>6 DEF IInv, TypeOK, ConnectionsAreVouched

\* A handler ends and writes one gateway's row, empty or of one connection.
LEMMA RowKeeps ==
  ASSUME IInv, NEW r \in Requests, Goto(r, Idle),
         NEW p \in Providers, NEW row \in GatewayRow,
         gateway' = [gateway EXCEPT ![p] = row],
         connections \subseteq connections',
         connections' \subseteq Connection,
         ConnectionsAreVouched',
         row = Disconnected \/ Whole(p, row, connections'),
         UNCHANGED <<now, admin, state>>
  PROVE  IInv'
<1>1. /\ req' \in [Requests -> Request]
      /\ req'[r] = Idle
      /\ \A x \in Requests \ {r}: req'[x] = req[x]
  BY Moved, IdleType DEF IInv
<1>2. ASSUME NEW x \in Requests \ {r}
      PROVE  RequestOK(req'[x], state, connections')
  <2>1. req[x] \in Request /\ RequestOK(req[x], state, connections)
    BY DEF IInv, TypeOK
  <2> QED BY <1>1, <2>1, StillOK
<1>3. \A x \in Requests: RequestOK(req'[x], state', connections')
  BY <1>1, <1>2, IdleType, NothingRelied
<1>4. /\ gateway' \in [Providers -> GatewayRow]
      /\ gateway'[p] = row
      /\ \A o \in Providers \ {p}: gateway'[o] = gateway[o]
  BY DEF IInv, TypeOK
<1>5. \A o \in Providers:
        gateway'[o] = Disconnected \/ Whole(o, gateway'[o], connections')
  BY <1>4 DEF IInv, Whole
<1> QED BY <1>1, <1>3, <1>4, <1>5 DEF IInv, TypeOK

(***************************************************************************)
(* The steps.                                                              *)
(***************************************************************************)
LEMMA BeginKeeps ==
  ASSUME IInv, NEW r \in Requests, Begin(r)
  PROVE  IInv'
<1>1. \A stage \in Stages, p \in Providers, s \in States \cup {Nothing},
        u \in Visitors, row \in GatewayRow:
        Begun(stage, p, s, u, row) \in Request
  BY DEF Begun, Request
<1>2. Nothing \in Visitors /\ Admins \subseteq Visitors
  BY DEF Visitors
<1>3. CASE \E u \in Admins: StripeStarts(r, u) \/ PayPalStarts(r, u)
  <2>1. PICK u \in Admins: StripeStarts(r, u) \/ PayPalStarts(r, u)
    BY <1>3
  <2>2. \E p \in Providers:
          Goto(r, Begun("open", p, Nothing, u, Disconnected)) \/ Goto(r, Idle)
    BY <2>1 DEF StripeStarts, PayPalStarts, Providers
  <2>3. PICK p \in Providers:
          Goto(r, Begun("open", p, Nothing, u, Disconnected)) \/ Goto(r, Idle)
    BY <2>2
  <2>4. UNCHANGED <<now, admin, state, gateway, connections>>
    BY <2>1 DEF StripeStarts, PayPalStarts
  <2>5. CASE Goto(r, Idle)
    BY <2>4, <2>5, EndKeeps
  <2>6. CASE Goto(r, Begun("open", p, Nothing, u, Disconnected))
    <3> DEFINE q == Begun("open", p, Nothing, u, Disconnected)
    <3>1. q \in Request
      BY <1>1, <1>2, DisconnectedType DEF Stages
    <3>2. RequestOK(q, state, connections)
      BY DEF RequestOK, Begun
    <3> QED BY <2>4, <2>6, <3>1, <3>2, MoveKeeps
  <2> QED BY <2>3, <2>5, <2>6
<1>4. CASE \E u \in Admins: StripeDisconnects(r, u) \/ PayPalDisconnects(r, u)
  <2>1. UNCHANGED <<now, admin, state, gateway, connections>>
    BY <1>4 DEF StripeDisconnects, PayPalDisconnects
  <2>2. PICK p \in Providers:
          Goto(r, Begun("clear", p, Nothing, Nothing, Disconnected))
    BY <1>4 DEF StripeDisconnects, PayPalDisconnects, Providers
  <2> DEFINE q == Begun("clear", p, Nothing, Nothing, Disconnected)
  <2>3. q \in Request
    BY <1>1, <1>2, DisconnectedType DEF Stages
  <2>4. RequestOK(q, state, connections)
    BY DEF RequestOK, Begun
  <2> QED BY <2>1, <2>2, <2>3, <2>4, MoveKeeps
<1>5. CASE \E u \in Admins, p \in Providers: TestReads(r, p, u)
  <2>1. PICK u \in Admins, p \in Providers: TestReads(r, p, u)
    BY <1>5
  <2> DEFINE q == Begun("probe", p, Nothing, Nothing, gateway[p])
  <2>2. Goto(r, q) /\ UNCHANGED <<now, admin, state, gateway, connections>>
    BY <2>1 DEF TestReads
  <2>3. gateway[p] \in GatewayRow
    BY DEF IInv, TypeOK
  <2>4. q \in Request
    BY <1>1, <1>2, <2>3 DEF Stages
  <2>5. gateway[p] # Disconnected
    BY <2>1 DEF TestReads, Testable, Disconnected
  <2>6. Whole(p, gateway[p], connections)
    BY <2>5 DEF IInv
  <2>7. RequestOK(q, state, connections)
    BY <2>6 DEF RequestOK, Begun
  <2> QED BY <2>2, <2>4, <2>7, MoveKeeps
<1>6. CASE \E p \in Providers, s \in States, u \in Visitors:
             CallbackArrives(r, p, s, u)
  <2>1. PICK p \in Providers, s \in States, u \in Visitors:
          CallbackArrives(r, p, s, u)
    BY <1>6
  <2> DEFINE q == Begun("find", p, s, u, Disconnected)
  <2>2. Goto(r, q) /\ UNCHANGED <<now, admin, state, gateway, connections>>
    BY <2>1 DEF CallbackArrives
  <2>3. q \in Request
    BY <1>1, DisconnectedType DEF Stages
  <2>4. RequestOK(q, state, connections)
    BY DEF RequestOK, Begun
  <2> QED BY <2>2, <2>3, <2>4, MoveKeeps
<1> QED BY <1>3, <1>4, <1>5, <1>6 DEF Begin

LEMMA CreateKeeps ==
  ASSUME IInv, NEW r \in Requests, CreatePaymentOAuthState(r)
  PROVE  IInv'
<1>1. PICK s \in States:
        /\ ~state[s].known
        /\ state' = [state EXCEPT ![s] =
             [known |-> TRUE, stored |-> TRUE, provider |-> req[r].provider,
              actor |-> req[r].actor, expires |-> now + StateLife, spent |-> 0]]
  BY DEF CreatePaymentOAuthState
<1> DEFINE row == [known |-> TRUE, stored |-> TRUE, provider |-> req[r].provider,
                   actor |-> req[r].actor, expires |-> now + StateLife, spent |-> 0]
<1>2. req[r] \in Request /\ req[r].actor \in Admins /\ now \in Nat
  BY DEF CreatePaymentOAuthState, IInv, TypeOK, RequestOK, At
<1>3. row \in StateRow /\ StateOK(row)
  BY <1>2, GatewayAssumption DEF StateRow, StateOK, Request
<1>4. Goto(r, Idle) /\ UNCHANGED <<now, admin, gateway, connections>>
  BY DEF CreatePaymentOAuthState
<1>5. RequestOK(Idle, state', connections)
  BY IdleType, NothingRelied
<1> HIDE DEF row
<1> QED BY <1>1, <1>3, <1>4, <1>5, IdleType, StateKeeps DEF row

LEMMA FindKeeps ==
  ASSUME IInv, NEW r \in Requests, FindState(r)
  PROVE  IInv'
<1>1. UNCHANGED <<now, admin, state, gateway, connections>>
  BY DEF FindState
<1>2. CASE ~Usable(req[r].state, req[r].provider)
  BY <1>1, <1>2, EndKeeps DEF FindState
<1>3. CASE Usable(req[r].state, req[r].provider)
  <2> DEFINE q == [req[r] EXCEPT !.stage = "spend", !.found = now]
  <2>1. req[r] \in Request /\ now \in Nat /\ req[r].state \in States
    BY DEF FindState, At, IInv, TypeOK, RequestOK
  <2>2. StateOK(state[req[r].state])
    BY <2>1 DEF IInv
  <2>3. q \in Request
    BY <2>1 DEF Request, Stages
  <2>4. /\ q.stage = "spend" /\ q.found = now
        /\ q.state = req[r].state /\ q.provider = req[r].provider
    BY <2>1 DEF Request
  <2>5. state[q.state].known
    BY <1>3, <2>2, <2>4 DEF Usable, StateOK, NoState
  <2>6. RequestOK(q, state, connections)
    BY <1>3, <2>1, <2>4, <2>5 DEF Usable, RequestOK
  <2>7. Goto(r, q)
    BY <1>3 DEF FindState
  <2> QED BY <1>1, <2>3, <2>6, <2>7, MoveKeeps
<1> QED BY <1>2, <1>3

LEMMA SpendKeeps ==
  ASSUME IInv, NEW r \in Requests, SpendState(r)
  PROVE  IInv'
<1> DEFINE s == req[r].state
<1>1. /\ req[r] \in Request /\ req[r].stage = "spend"
      /\ RequestOK(req[r], state, connections)
  BY DEF SpendState, At, IInv, TypeOK
<1>2. s \in States /\ state[s].known
  BY <1>1 DEF RequestOK
<1>3. UNCHANGED <<now, admin, gateway, connections>>
  BY DEF SpendState
<1>4. CASE ~Spendable(s)
  BY <1>3, <1>4, EndKeeps DEF SpendState
<1>5. CASE Spendable(s)
  <2> DEFINE row == Spent(state[s])
             q == [req[r] EXCEPT !.stage = "user"]
  <2>1. state[s] \in StateRow /\ StateOK(state[s])
    BY <1>2 DEF IInv, TypeOK
  <2>2. /\ row \in StateRow /\ StateOK(row) /\ row.known
        /\ row.provider = state[s].provider
        /\ row.actor = state[s].actor
        /\ row.expires = state[s].expires
    BY <1>2, <1>5, <2>1 DEF Spent, Spendable, StateRow, StateOK
  <2>3. state' = [state EXCEPT ![s] = row]
    BY <1>5 DEF SpendState
  <2>4. state'[s] = row
    BY <1>2, <2>3 DEF IInv, TypeOK
  <2>5. CASE ~Mine(r)
    <3>1. Goto(r, Idle)
      BY <1>5, <2>5 DEF SpendState
    <3>2. RequestOK(Idle, state', connections)
      BY IdleType, NothingRelied
    <3> HIDE DEF row
    <3> QED BY <1>2, <1>3, <2>2, <2>3, <3>1, <3>2, IdleType, StateKeeps
  <2>6. CASE Mine(r)
    <3>1. Goto(r, q)
      BY <1>5, <2>6 DEF SpendState
    <3>2. q \in Request
      BY <1>1 DEF Request, Stages
    <3>3. /\ q.stage = "user" /\ q.state = s /\ q.provider = req[r].provider
          /\ q.found = req[r].found /\ q.actor = req[r].actor
      BY <1>1 DEF Request
    <3>4. RequestOK(q, state', connections)
      BY <1>1, <1>2, <2>2, <2>4, <2>6, <3>3 DEF RequestOK, Mine
    <3> HIDE DEF row, q
    <3> QED BY <1>2, <1>3, <2>2, <2>3, <3>1, <3>2, <3>4, StateKeeps
  <2> QED BY <2>5, <2>6
<1> QED BY <1>4, <1>5

LEMMA CheckKeeps ==
  ASSUME IInv, NEW r \in Requests, CheckStarter(r)
  PROVE  IInv'
<1>1. UNCHANGED <<now, admin, state, gateway, connections>>
  BY DEF CheckStarter
<1>2. CASE ~StarterEligible(r)
  BY <1>1, <1>2, EndKeeps DEF CheckStarter
<1>3. CASE StarterEligible(r)
  <2> DEFINE active == admin[state[req[r].state].actor] = "ACTIVE"
             q == [req[r] EXCEPT !.stage = "exchange", !.active = active]
  <2>1. /\ req[r] \in Request /\ req[r].stage = "user"
        /\ RequestOK(req[r], state, connections)
    BY DEF CheckStarter, At, IInv, TypeOK
  <2>2. active
    BY <1>3 DEF StarterEligible, SuperAdmin
  <2>3. Goto(r, q)
    BY <1>3 DEF CheckStarter
  <2>4. /\ q \in Request /\ q.stage = "exchange" /\ q.active
        /\ q.state = req[r].state /\ q.provider = req[r].provider
        /\ q.found = req[r].found /\ q.actor = req[r].actor
    BY <2>1, <2>2 DEF Request, Stages
  <2>5. RequestOK(q, state, connections)
    BY <2>1, <2>4 DEF RequestOK
  <2> QED BY <1>1, <2>3, <2>4, <2>5, MoveKeeps
<1> QED BY <1>2, <1>3

LEMMA ConnectKeeps ==
  ASSUME IInv, NEW r \in Requests, StripeConnects(r) \/ PayPalConnects(r)
  PROVE  IInv'
<1>1. /\ Goto(r, Idle) /\ At(r, "exchange")
      /\ UNCHANGED <<now, admin, state>>
  BY DEF StripeConnects, PayPalConnects
<1>2. PICK a \in Accounts, t \in Accounts \cup {Nothing}:
        t \in {a, Nothing} /\ SaveConnection(r, Exchanged(r, a, t))
  BY DEF StripeConnects, PayPalConnects, StripeRefresh, PayPalRefresh
<1> DEFINE p == req[r].provider
           s == state[req[r].state]
           row == Exchanged(r, a, t)
           made == [provider |-> p, row |-> row, vouched |-> TRUE]
<1>3. req[r] \in Request /\ RequestOK(req[r], state, connections)
  BY DEF IInv, TypeOK
<1>4. /\ p \in Providers /\ req[r].state \in States /\ s.known
      /\ s.provider = p /\ req[r].found < s.expires
      /\ req[r].actor \in {Nothing, s.actor} /\ req[r].active
  BY <1>1, <1>3 DEF At, RequestOK, Request
<1>5. s.actor \in Admins
  BY <1>4 DEF IInv, StateOK
<1>6. row \in GatewayRow /\ row.by = s.actor /\ row.merchant = a
      /\ row.access = a /\ row.refresh = t
  BY <1>2, <1>5 DEF Exchanged, Connected, GatewayRow
<1>7. Vouched(req[r], row) = TRUE
  BY <1>4, <1>6 DEF Vouched
<1>8. /\ gateway' = [gateway EXCEPT ![p] = row]
      /\ connections' = connections \cup {made}
  BY <1>2, <1>7 DEF SaveConnection
<1>9. /\ made \in Connection
      /\ made.provider = p /\ made.row = row /\ made.vouched = TRUE
  BY <1>4, <1>6 DEF Connection
<1> HIDE DEF row, made
<1>10. /\ connections \subseteq connections'
       /\ connections' \subseteq Connection
       /\ ConnectionsAreVouched'
  BY <1>8, <1>9 DEF IInv, TypeOK, ConnectionsAreVouched
<1>11. Whole(p, row, connections')
  BY <1>2, <1>6, <1>8, <1>9 DEF Whole
<1> QED BY <1>1, <1>4, <1>6, <1>8, <1>10, <1>11, RowKeeps

LEMMA TestedKeeps ==
  ASSUME IInv, NEW r \in Requests, StripeTested(r) \/ PayPalTested(r)
  PROVE  IInv'
<1> DEFINE p == req[r].provider
           row == req[r].seen
<1>1. /\ req[r] \in Request /\ req[r].stage = "probe"
      /\ RequestOK(req[r], state, connections)
  BY DEF StripeTested, PayPalTested, At, IInv, TypeOK
<1>2. p \in Providers /\ row \in GatewayRow /\ Whole(p, row, connections)
  BY <1>1 DEF Request, RequestOK
<1>3. Renewed(row) = row
  BY <1>2 DEF Renewed, Whole, GatewayRow
<1>4. KeepConnection(r, row)
  BY <1>3 DEF StripeTested, PayPalTested
<1>5. /\ gateway' = [gateway EXCEPT ![p] = row] /\ Goto(r, Idle)
      /\ UNCHANGED <<now, admin, state, connections>>
  BY <1>4 DEF KeepConnection, Kept
<1>6. /\ connections' \subseteq Connection /\ ConnectionsAreVouched'
      /\ connections \subseteq connections'
  BY <1>5 DEF IInv, TypeOK, ConnectionsAreVouched
<1>7. Whole(p, row, connections')
  BY <1>2, <1>5
<1> QED BY <1>2, <1>5, <1>6, <1>7, RowKeeps

LEMMA ClearKeeps ==
  ASSUME IInv, NEW r \in Requests, ClearConnection(r)
  PROVE  IInv'
<1>1. /\ gateway' = [gateway EXCEPT ![req[r].provider] = Disconnected]
      /\ Goto(r, Idle) /\ UNCHANGED <<now, admin, state, connections>>
  BY DEF ClearConnection
<1>2. req[r].provider \in Providers
  BY DEF IInv, TypeOK, Request
<1>3. /\ connections' \subseteq Connection /\ ConnectionsAreVouched'
      /\ connections \subseteq connections'
  BY <1>1 DEF IInv, TypeOK, ConnectionsAreVouched
<1> QED BY <1>1, <1>2, <1>3, DisconnectedType, RowKeeps

\* The clock and the accounts of administrators matter to no handler's record.
LEMMA WorldKeeps ==
  ASSUME IInv, Tick \/ \E u \in Admins: SetStatus(u)
  PROVE  IInv'
<1>1. UNCHANGED <<state, gateway, req, connections>>
  BY DEF Tick, SetStatus
<1>2. now' \in Nat /\ admin' \in [Admins -> {"ACTIVE", "DEACTIVATED"}]
  BY DEF Tick, SetStatus, IInv, TypeOK
<1> QED BY <1>1, <1>2 DEF IInv, TypeOK, ConnectionsAreVouched

(***************************************************************************)
(* The theorems.                                                           *)
(***************************************************************************)

LEMMA GatewayInitially == Init => IInv
<1> SUFFICES ASSUME Init PROVE IInv
  OBVIOUS
<1>1. NoState \in StateRow /\ StateOK(NoState)
  BY DEF NoState, StateRow, StateOK, Providers
<1>2. TypeOK /\ ConnectionsAreVouched
  BY <1>1, IdleType, DisconnectedType DEF Init, TypeOK, ConnectionsAreVouched
<1>3. \A r \in Requests: RequestOK(req[r], state, connections)
  BY IdleType, NothingRelied DEF Init
<1> QED BY <1>1, <1>2, <1>3 DEF Init, IInv

LEMMA GatewayPreserved == IInv /\ [Next]_vars => IInv'
<1> SUFFICES ASSUME IInv, [Next]_vars PROVE IInv'
  OBVIOUS
<1>1. ASSUME NEW r \in Requests, Begin(r) PROVE IInv'
  BY <1>1, BeginKeeps
<1>2. ASSUME NEW r \in Requests, CreatePaymentOAuthState(r) PROVE IInv'
  BY <1>2, CreateKeeps
<1>3. ASSUME NEW r \in Requests, FindState(r) PROVE IInv'
  BY <1>3, FindKeeps
<1>4. ASSUME NEW r \in Requests, SpendState(r) PROVE IInv'
  BY <1>4, SpendKeeps
<1>5. ASSUME NEW r \in Requests, CheckStarter(r) PROVE IInv'
  BY <1>5, CheckKeeps
<1>6. ASSUME NEW r \in Requests, StripeConnects(r) \/ PayPalConnects(r) PROVE IInv'
  BY <1>6, ConnectKeeps
<1>7. ASSUME NEW r \in Requests, ExchangeFails(r) \/ TestFails(r) PROVE IInv'
  BY <1>7, EndKeeps DEF ExchangeFails, TestFails
<1>8. ASSUME NEW r \in Requests, StripeTested(r) \/ PayPalTested(r) PROVE IInv'
  BY <1>8, TestedKeeps
<1>9. ASSUME NEW r \in Requests, ClearConnection(r) PROVE IInv'
  BY <1>9, ClearKeeps
<1>10. CASE Tick \/ \E u \in Admins: SetStatus(u)
  BY <1>10, WorldKeeps
<1>11. CASE UNCHANGED vars
  BY <1>11 DEF vars, IInv, TypeOK, ConnectionsAreVouched
<1> QED BY <1>1, <1>2, <1>3, <1>4, <1>5, <1>6, <1>7, <1>8, <1>9, <1>10, <1>11
        DEF Next, Step

\* States are sound, handlers rely on nothing that has changed, and every row
\* is empty or one connection's.
THEOREM Invariance == Spec => []IInv
BY GatewayInitially, GatewayPreserved, PTL DEF Spec

\* Every variable keeps its type.
THEOREM TypeCorrect == Spec => []TypeOK
<1>1. IInv => TypeOK
  BY DEF IInv
<1> QED BY <1>1, Invariance, PTL

\* However many browsers bring a state, it lets one callback through.
THEOREM StatesAreSpentOnce == Spec => []StateSpentOnce
<1>1. IInv => StateSpentOnce
  <2>1. ASSUME IInv, NEW s \in States PROVE state[s].spent <= 1
    BY <2>1 DEF IInv, StateOK, NoState
  <2> QED BY <2>1 DEF StateSpentOnce
<1> QED BY <1>1, Invariance, PTL

\* Every connection was started by the administrator it names, in time.
THEOREM CallbacksAreVouched == Spec => []ConnectionsAreVouched
<1>1. IInv => ConnectionsAreVouched
  BY DEF IInv
<1> QED BY <1>1, Invariance, PTL

\* No test, callback or disconnection leaves a row of two accounts.
THEOREM RowsAreWhole == Spec => []RowIsOneConnection
<1>1. IInv => RowIsOneConnection
  BY DEF IInv, RowIsOneConnection, Whole
<1> QED BY <1>1, Invariance, PTL

=============================================================================
