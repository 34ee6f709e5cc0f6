--------------------------- MODULE AccountsProofs ---------------------------
(***************************************************************************)
(* Accounts keeps its inductive invariant, for any number of users,        *)
(* organizations, tokens and requests: every revocation ends the sessions  *)
(* that were there, one super administrator is made, and members stay with *)
(* their administrators.                                                   *)
(***************************************************************************)
EXTENDS AccountsInvariant, TLAPS

LEMMA NobodyType == Nobody \in Actor /\ NoUser \in UserRow
BY DEF Nobody, Actor, NoUser, UserRow

LEMMA IdleType == Idle \in Req
BY NobodyType DEF Idle, Request, Req, Steps, Ops

LEMMA AsActorType ==
    ASSUME TypeOK, NEW u \in Users
    PROVE  AsActor(users, u) \in Actor
BY DEF TypeOK, AsActor, Actor, UserRow

LEMMA RequestType ==
    ASSUME NEW s \in Steps, NEW op \in Ops, NEW of \in Roles \cup {"NONE"},
           NEW t \in Tokens \cup {None}, NEW a \in Actor,
           NEW x \in Users \cup Orgs \cup {None}, NEW row \in UserRow
    PROVE  Request(s, op, of, t, a, x, row) \in Req
BY DEF Request, Req

(***************************************************************************)
(* A step of one request leaves the others where they are.                 *)
(***************************************************************************)
LEMMA OneRequestMoves ==
    ASSUME TypeOK, NEW r \in Requests, NEW n \in Req, req' = [req EXCEPT ![r] = n]
    PROVE  /\ req' \in [Requests -> Req]
           /\ req'[r] = n
           /\ \A q \in Requests \ {r} : req'[q] = req[q]
BY DEF TypeOK

LEMMA GotoMoves ==
    ASSUME TypeOK, NEW r \in Requests, NEW s \in Steps, NEW a \in Actor,
           NEW x \in Users \cup Orgs \cup {None}, NEW row \in UserRow, Goto(r, s, a, x, row)
    PROVE  \E n \in Req :
              /\ n = Request(s, req[r].op, req[r].of, req[r].token, a, x, row)
              /\ req' = [req EXCEPT ![r] = n]
<1>1. req[r] \in Req
  BY DEF TypeOK
<1>2. Request(s, req[r].op, req[r].of, req[r].token, a, x, row) \in Req
  BY <1>1, RequestType DEF Req
<1>3. req' = [req EXCEPT ![r] = Request(s, req[r].op, req[r].of, req[r].token, a, x, row)]
  BY DEF Goto
<1> QED BY <1>2, <1>3

LEMMA BeginMoves ==
    ASSUME TypeOK, NEW r \in Requests, NEW s \in Steps, NEW op \in Ops,
           NEW of \in Roles \cup {"NONE"}, NEW t \in Tokens \cup {None}, NEW a \in Actor,
           NEW x \in Users \cup Orgs \cup {None}, Begin(r, s, op, of, t, a, x)
    PROVE  \E n \in Req :
              /\ n = Request(s, op, of, t, a, x, NoUser)
              /\ req' = [req EXCEPT ![r] = n]
<1>1. Request(s, op, of, t, a, x, NoUser) \in Req
  BY NobodyType, RequestType
<1> QED BY <1>1 DEF Begin

LEMMA BeginCounts ==
    ASSUME TypeOK, NEW r, NEW s, NEW op, NEW of, NEW t, NEW a, NEW x,
           Begin(r, s, op, of, t, a, x)
    PROVE  begun' \in 0 .. MaxBegun
BY AccountsAssumption DEF Begin, TypeOK

(***************************************************************************)
(* An idle request relies on nothing.                                      *)
(***************************************************************************)
LEMMA IdleHolds == RequestHolds(Idle) /\ Idle.step = "idle"
BY DEF RequestHolds, Idle, Request, ActorHolds, Nobody, StepHolds, TargetHolds, RowHolds

(***************************************************************************)
(* Steps that touch one request and nothing that another one relies on.    *)
(***************************************************************************)
LEMMA RequestStep ==
    ASSUME IInv, NEW r \in Requests, NEW n \in Req, req' = [req EXCEPT ![r] = n],
           ~At(r, "purge"), RequestHolds(n),
           active' \in [Orgs -> BOOLEAN], begun' \in 0 .. MaxBegun,
           UNCHANGED <<users, sessions, ghosts>>
    PROVE  IInv'
<1> USE DEF ghosts
<1>1. TypeOK
  BY DEF IInv
<1>2. /\ req' \in [Requests -> Req] /\ req'[r] = n
      /\ \A q \in Requests \ {r} : req'[q] = req[q]
  BY <1>1, OneRequestMoves
<1>3. TypeOK'
  BY <1>1, <1>2 DEF TypeOK
<1>4. ASSUME NEW q \in Requests PROVE RequestHolds(req[q])'
  <2>1. RequestHolds(req'[q])
    BY <1>2 DEF IInv
  <2> QED BY <2>1 DEF RequestHolds, ActorHolds, StepHolds, TargetHolds, RowHolds, Exists
<1>5. EmailsDiffer' /\ SessionsOfUsers' /\ MembersWithAdministrator'
  BY DEF IInv, EmailsDiffer, SessionsOfUsers, MembersWithAdministrator,
         Exists
<1>6. RevokedSessionsEnd'
  <2> SUFFICES ASSUME NEW s \in sessions, s.born < revoked[s.user], s.user \notin spared
               PROVE  PurgePending(s.user)'
    BY DEF RevokedSessionsEnd
  <2>1. PICK q \in Requests : At(q, "purge") /\ s.user \in Purged(q)
    BY DEF IInv, RevokedSessionsEnd, PurgePending
  <2>2. req'[q] = req[q]
    BY <1>2, <2>1
  <2>3. At(q, "purge")' /\ s.user \in Purged(q)'
    BY <2>1, <2>2 DEF At, Purged, Op
  <2> QED BY <2>3 DEF PurgePending
<1> QED BY <1>3, <1>4, <1>5, <1>6 DEF IInv

LEMMA DoneStep ==
    ASSUME IInv, NEW r \in Requests, Done(r), ~At(r, "purge"),
           UNCHANGED <<users, active, sessions, begun, ghosts>>
    PROVE  IInv'
BY IdleType, IdleHolds, RequestStep DEF Done, IInv, TypeOK

LEMMA GotoStep ==
    ASSUME IInv, NEW r \in Requests, NEW s \in Steps, NEW a \in Actor,
           NEW x \in Users \cup Orgs \cup {None}, NEW row \in UserRow, Goto(r, s, a, x, row),
           RequestHolds(Request(s, req[r].op, req[r].of, req[r].token, a, x, row)),
           ~At(r, "purge"), UNCHANGED <<users, active, sessions, begun, ghosts>>
    PROVE  IInv'
<1>1. TypeOK
  BY DEF IInv
<1>2. PICK n \in Req : /\ n = Request(s, req[r].op, req[r].of, req[r].token, a, x, row)
                       /\ req' = [req EXCEPT ![r] = n]
  BY <1>1, GotoMoves
<1> QED BY <1>1, <1>2, RequestStep DEF TypeOK

LEMMA BeginStep ==
    ASSUME IInv, NEW r \in Requests, NEW s \in Steps, NEW op \in Ops,
           NEW of \in Roles \cup {"NONE"}, NEW t \in Tokens \cup {None}, NEW a \in Actor,
           NEW x \in Users \cup Orgs \cup {None}, Begin(r, s, op, of, t, a, x),
           RequestHolds(Request(s, op, of, t, a, x, NoUser)),
           ~At(r, "purge"), UNCHANGED <<users, active, sessions, ghosts>>
    PROVE  IInv'
<1>1. TypeOK
  BY DEF IInv
<1>2. begun' \in 0 .. MaxBegun
  BY <1>1, BeginCounts
<1>3. PICK n \in Req : /\ n = Request(s, op, of, t, a, x, NoUser)
                       /\ req' = [req EXCEPT ![r] = n]
  BY <1>1, BeginMoves
<1> QED BY <1>1, <1>2, <1>3, RequestStep DEF TypeOK

(***************************************************************************)
(* What other requests rely on survives a write of the users that keeps    *)
(* the roles, and keeps the organizations of all but administrators.       *)
(***************************************************************************)
UsersKeep ==
    /\ moved \subseteq moved'
    /\ \A u \in Users : Exists(u) =>
          /\ users'[u].role = users[u].role
          /\ \/ users'[u].org = users[u].org
             \/ users[u].role = "ADMIN" /\ u \in moved'

LEMMA OthersHold ==
    ASSUME IInv, UsersKeep, NEW q \in Requests
    PROVE  RequestHolds(req[q]) /\ (req'[q] = req[q] => RequestHolds(req[q])')
<1>1. RequestHolds(req[q])
  BY DEF IInv
<1> SUFFICES ASSUME req'[q] = req[q]
             PROVE  RequestHolds(req[q])'
  BY <1>1
<1>2. ActorHolds(req[q].actor)'
  BY <1>1 DEF RequestHolds, ActorHolds, UsersKeep, Exists
<1>3. TargetHolds(req[q])'
  BY <1>1 DEF RequestHolds, TargetHolds, UsersKeep, Exists, Managed
<1>4. RowHolds(req[q])'
  BY <1>1 DEF RequestHolds, RowHolds, UsersKeep, Exists
<1>5. StepHolds(req[q])'
  BY <1>1 DEF RequestHolds, StepHolds, UsersKeep, Exists
<1> QED BY <1>2, <1>3, <1>4, <1>5 DEF RequestHolds

LEMMA MembersStay ==
    ASSUME IInv, UsersKeep, NEW u \in Users, users[u].role = "MEMBER",
           users[u].admin # None, users'[u].role = "MEMBER",
           users'[u].admin = users[u].admin
    PROVE  /\ users'[users'[u].admin].role = "ADMIN"
           /\ users'[users'[u].admin].org = users'[u].org \/ users'[u].admin \in moved'
<1> DEFINE a == users[u].admin
<1>1. a \in Users /\ users[a].role = "ADMIN" /\ (users[a].org = users[u].org \/ a \in moved)
  BY DEF IInv, TypeOK, UserRow, MembersWithAdministrator
<1>2. users'[a].role = "ADMIN" /\ (users'[a].org = users[a].org \/ a \in moved')
  BY <1>1 DEF UsersKeep, Exists
<1>3. users'[u].org = users[u].org
  BY DEF UsersKeep, Exists
<1> QED BY <1>1, <1>2, <1>3 DEF UsersKeep

(***************************************************************************)
(* The steps before a handler's first write.                               *)
(***************************************************************************)
LEMMA FindByEmailStep ==
    ASSUME IInv, NEW r \in Requests, FindByEmail(r)
    PROVE  IInv'
<1>1. TypeOK
  BY DEF IInv
<1>2. PICK u \in Users :
        /\ Exists(u)
        /\ Begin(r, IF users[u].org = None THEN "open" ELSE "greet", "login", "NONE", None,
                 AsActor(users, u), u)
  BY DEF FindByEmail
<1>3. users[u] \in UserRow /\ (users[u].role \in {"ADMIN", "MEMBER"} => users[u].org \in Orgs)
  BY <1>1 DEF TypeOK
<1>4. ASSUME NEW s \in Steps, s \in {"open", "greet"}, s = "greet" => users[u].org # None
      PROVE  RequestHolds(Request(s, "login", "NONE", None, AsActor(users, u), u, NoUser))
  BY <1>2, <1>3, <1>4 DEF RequestHolds, Request, ActorHolds, StepHolds, TargetHolds, RowHolds,
                         AsActor, UserRow
<1>5. ASSUME NEW s \in Steps, s \in {"open", "greet"}, s = "greet" => users[u].org # None,
             Begin(r, s, "login", "NONE", None, AsActor(users, u), u)
      PROVE  IInv'
  <2>1. AsActor(users, u) \in Actor /\ "login" \in Ops
    BY <1>1, AsActorType DEF Ops
  <2> QED BY <1>4, <1>5, <2>1, BeginStep DEF FindByEmail, At
<1>6. {"open", "greet"} \subseteq Steps
  BY DEF Steps
<1>7. CASE users[u].org = None
  BY <1>2, <1>5, <1>6, <1>7
<1>8. CASE users[u].org # None
  BY <1>2, <1>5, <1>6, <1>8
<1> QED BY <1>7, <1>8

LEMMA AssertActiveOrganizationStep ==
    ASSUME IInv, NEW r \in Requests, AssertActiveOrganization(r)
    PROVE  IInv'
<1>1. CASE Done(r)
  BY <1>1, DoneStep DEF AssertActiveOrganization, At
<1>2. CASE Goto(r, "open", req[r].actor, req[r].target, NoUser)
  <2>1. RequestHolds(req[r]) /\ req[r] \in Req
    BY DEF IInv, TypeOK
  <2>2. /\ "open" \in Steps /\ req[r].actor \in Actor
        /\ req[r].target \in Users \cup Orgs \cup {None} /\ NoUser \in UserRow
    BY <2>1, NobodyType DEF Steps, Req
  <2>3. RequestHolds(Request("open", req[r].op, req[r].of, req[r].token, req[r].actor,
                             req[r].target, NoUser))
    BY <2>1 DEF RequestHolds, Request, ActorHolds, StepHolds, TargetHolds, RowHolds,
                AssertActiveOrganization, At
  <2> QED BY <1>2, <2>2, <2>3, GotoStep DEF AssertActiveOrganization, At
<1> QED BY <1>1, <1>2 DEF AssertActiveOrganization

LEMMA ReadSessionStep ==
    ASSUME IInv, NEW r \in Requests, ReadSession(r)
    PROVE  IInv'
<1>1. TypeOK
  BY DEF IInv
<1>2. PICK s \in sessions :
        \/ sessions' = sessions \ {s} /\ UNCHANGED <<req, begun>>
        \/ /\ \E op \in Ops, of \in Roles \cup {"NONE"} :
               Started(op, of) /\ Begin(r, "user", op, of, s.token, Nobody, s.user)
           /\ UNCHANGED sessions
  BY DEF ReadSession
<1>3. CASE sessions' = sessions \ {s} /\ UNCHANGED <<req, begun>>
  <2>1. UNCHANGED <<users, active, revoked, spared, moved>>
    BY DEF ReadSession, ghosts
  <2>2. TypeOK'
    BY <1>1, <1>3, <2>1 DEF TypeOK
  <2>3. ASSUME NEW q \in Requests PROVE RequestHolds(req[q])'
    BY <1>3, <2>1 DEF IInv, RequestHolds, ActorHolds, StepHolds, TargetHolds, RowHolds, Exists
  <2>4. EmailsDiffer' /\ SessionsOfUsers' /\ MembersWithAdministrator'
    BY <1>3, <2>1 DEF IInv, EmailsDiffer, SessionsOfUsers,
                      MembersWithAdministrator, Exists
  <2>5. RevokedSessionsEnd'
    BY <1>3, <2>1 DEF IInv, RevokedSessionsEnd, PurgePending, Purged, At, Op
  <2> QED BY <2>2, <2>3, <2>4, <2>5 DEF IInv
<1>4. CASE \E op \in Ops, of \in Roles \cup {"NONE"} :
              Started(op, of) /\ Begin(r, "user", op, of, s.token, Nobody, s.user)
           /\ UNCHANGED sessions
  <2>1. PICK op \in Ops, of \in Roles \cup {"NONE"} :
          Started(op, of) /\ Begin(r, "user", op, of, s.token, Nobody, s.user)
    BY <1>4
  <2>2. s.token \in Tokens /\ s.user \in Users /\ Exists(s.user)
    BY <1>1 DEF TypeOK, Session, IInv, SessionsOfUsers
  <2>3. RequestHolds(Request("user", op, of, s.token, Nobody, s.user, NoUser))
    BY <2>1, <2>2 DEF RequestHolds, Request, ActorHolds, Nobody, StepHolds, TargetHolds, RowHolds
  <2>4. "user" \in Steps /\ Nobody \in Actor /\ UNCHANGED sessions
    BY <1>4, NobodyType DEF Steps
  <2> QED BY <2>1, <2>2, <2>3, <2>4, BeginStep DEF ReadSession, At
<1> QED BY <1>2, <1>3, <1>4

LEMMA ReadUserStep ==
    ASSUME IInv, NEW r \in Requests, ReadUser(r)
    PROVE  IInv'
<1>1. RequestHolds(req[r]) /\ req[r] \in Req /\ TypeOK
  BY DEF IInv, TypeOK
<1> DEFINE u == req[r].target
<1>2. CASE Done(r)
  BY <1>2, DoneStep DEF ReadUser, At
<1>3. CASE Goto(r, IF users[u].org = None THEN "handle" ELSE "org", AsActor(users, u), None, NoUser)
  <2>1. u \in Users
    BY <1>1 DEF RequestHolds, StepHolds, ReadUser, At
  <2>2. users[u] \in UserRow /\ (users[u].role \in {"ADMIN", "MEMBER"} => users[u].org \in Orgs)
    BY <1>1, <2>1 DEF TypeOK
  <2>3. ASSUME NEW s \in {"handle", "org"}, s = "org" => users[u].org # None
        PROVE  RequestHolds(Request(s, req[r].op, req[r].of, req[r].token, AsActor(users, u), None,
                                    NoUser))
    BY <1>1, <2>1, <2>2, <2>3
       DEF RequestHolds, Request, ActorHolds, StepHolds, TargetHolds, RowHolds, AsActor, UserRow,
           ReadUser, At
  <2>4. ASSUME NEW s \in {"handle", "org"}, s = "org" => users[u].org # None,
               Goto(r, s, AsActor(users, u), None, NoUser)
        PROVE  IInv'
    <3>1. AsActor(users, u) \in Actor /\ NoUser \in UserRow /\ s \in Steps
      BY <1>1, <2>1, AsActorType, NobodyType DEF Steps
    <3> HIDE DEF u
    <3> QED BY <2>3, <2>4, <3>1, GotoStep DEF ReadUser, At
  <2>5. CASE users[u].org = None
    BY <1>3, <2>4, <2>5
  <2>6. CASE users[u].org # None
    BY <1>3, <2>4, <2>6
  <2> QED BY <2>5, <2>6
<1> QED BY <1>2, <1>3 DEF ReadUser

LEMMA ReadOrganizationStep ==
    ASSUME IInv, NEW r \in Requests, ReadOrganization(r)
    PROVE  IInv'
<1>1. RequestHolds(req[r]) /\ req[r] \in Req
  BY DEF IInv, TypeOK
<1>2. CASE Done(r)
  BY <1>2, DoneStep DEF ReadOrganization, At
<1>3. CASE Goto(r, "handle", req[r].actor, None, NoUser) /\ req[r].actor.id \in Users
  <2>1. "handle" \in Steps /\ req[r].actor \in Actor /\ NoUser \in UserRow
    BY <1>1, NobodyType DEF Steps, Req
  <2>2. RequestHolds(Request("handle", req[r].op, req[r].of, req[r].token, req[r].actor, None,
                             NoUser))
    BY <1>1, <1>3 DEF RequestHolds, Request, ActorHolds, StepHolds, TargetHolds, RowHolds,
                      ReadOrganization, At
  <2> QED BY <1>3, <2>1, <2>2, GotoStep DEF ReadOrganization, At
<1>4. req[r].actor.id \in Users
  BY <1>1 DEF RequestHolds, StepHolds, ReadOrganization, At
<1> QED BY <1>2, <1>3, <1>4 DEF ReadOrganization

LEMMA ChangePasswordStep ==
    ASSUME IInv, NEW r \in Requests, ChangePassword(r)
    PROVE  IInv'
<1>1. RequestHolds(req[r]) /\ req[r] \in Req /\ TypeOK
  BY DEF IInv, TypeOK
<1> DEFINE u == req[r].actor.id
<1>2. u \in Users
  BY <1>1 DEF RequestHolds, StepHolds, ChangePassword, At
<1>3. "write" \in Steps /\ req[r].actor \in Actor /\ users[u] \in UserRow
  BY <1>1, <1>2 DEF Steps, Req, TypeOK
<1>4. RequestHolds(Request("write", req[r].op, req[r].of, req[r].token, req[r].actor, u, users[u]))
  BY <1>1, <1>2 DEF RequestHolds, Request, ActorHolds, StepHolds, TargetHolds, RowHolds,
                    ChangePassword, At, Op
<1> QED BY <1>2, <1>3, <1>4, GotoStep DEF ChangePassword, At

LEMMA ChooseOrganizationStep ==
    ASSUME IInv, NEW r \in Requests, ChooseOrganization(r)
    PROVE  IInv'
<1>1. RequestHolds(req[r]) /\ req[r] \in Req
  BY DEF IInv, TypeOK
<1>2. PICK o \in Orgs : Goto(r, "write", req[r].actor, o, NoUser)
  BY DEF ChooseOrganization
<1>3. "write" \in Steps /\ req[r].actor \in Actor /\ NoUser \in UserRow
  BY <1>1, NobodyType DEF Steps, Req
<1>4. RequestHolds(Request("write", req[r].op, req[r].of, req[r].token, req[r].actor, o, NoUser))
  BY <1>1 DEF RequestHolds, Request, ActorHolds, StepHolds, TargetHolds, RowHolds,
              ChooseOrganization, At, Op
<1> QED BY <1>2, <1>3, <1>4, GotoStep DEF ChooseOrganization, At

LEMMA FindAccountStep ==
    ASSUME IInv, NEW r \in Requests, FindAccount(r)
    PROVE  IInv'
<1>1. RequestHolds(req[r]) /\ req[r] \in Req /\ TypeOK
  BY DEF IInv, TypeOK
<1>2. PICK u \in Users, email \in Emails \cup {None}, org \in Orgs :
        /\ users[u].role = req[r].of
        /\ req[r].of = "MEMBER" => org = users[u].org
        /\ Goto(r, "write", req[r].actor, u,
                [role |-> users[u].role, org |-> org, admin |-> users[u].admin,
                 active |-> users[u].active, email |-> email])
  BY DEF FindAccount
<1> DEFINE row == [role |-> users[u].role, org |-> org, admin |-> users[u].admin,
                   active |-> users[u].active, email |-> email]
<1>3. "write" \in Steps /\ req[r].actor \in Actor /\ row \in UserRow
  BY <1>1 DEF Steps, Req, TypeOK, UserRow
<1>4. Started(req[r].op, req[r].of) /\ ActorHolds(req[r].actor)
  BY <1>1 DEF RequestHolds, StepHolds, FindAccount, At
<1>5. req[r].of \in Managed
  BY <1>4 DEF Started, FindAccount, Op, Managed
<1>6. RequestHolds(Request("write", req[r].op, req[r].of, req[r].token, req[r].actor, u, row))
  BY <1>2, <1>4, <1>5 DEF RequestHolds, Request, StepHolds, TargetHolds, RowHolds, FindAccount, Op
<1>7. Goto(r, "write", req[r].actor, u, row)
  BY <1>2
<1> HIDE DEF row
<1> QED BY <1>3, <1>6, <1>7, GotoStep DEF FindAccount, At

LEMMA CheckNewAccountStep ==
    ASSUME IInv, NEW r \in Requests, CheckNewAccount(r)
    PROVE  IInv'
<1>1. RequestHolds(req[r]) /\ req[r] \in Req /\ TypeOK
  BY DEF IInv, TypeOK
<1> DEFINE actor == req[r].actor
           of == req[r].of
<1>2. PICK email \in Emails, requested \in Orgs \cup {None}, on \in BOOLEAN :
         \E org \in ManagedOrganizations(actor, requested, active) :
            Goto(r, "insert", actor, None,
                 [role |-> of, org |-> org, active |-> on, email |-> email,
                  admin |-> IF of = "MEMBER" THEN actor.id ELSE None])
  BY DEF CheckNewAccount
<1>3. PICK org \in ManagedOrganizations(actor, requested, active) :
            Goto(r, "insert", actor, None,
                 [role |-> of, org |-> org, active |-> on, email |-> email,
                  admin |-> IF of = "MEMBER" THEN actor.id ELSE None])
  BY <1>2
<1> DEFINE row == [role |-> of, org |-> org, active |-> on, email |-> email,
                   admin |-> IF of = "MEMBER" THEN actor.id ELSE None]
<1>4. /\ actor \in Actor /\ actor.id \in Users /\ ActorHolds(actor)
      /\ of \in Managed /\ (of = "MEMBER" => actor.role = "ADMIN")
  <2>1. Started(req[r].op, of) /\ actor.id \in Users /\ ActorHolds(actor)
    BY <1>1 DEF RequestHolds, StepHolds, CheckNewAccount, At
  <2>2. of \in Managed
    BY <2>1 DEF Started, CheckNewAccount, Op, Managed
  <2>3. of = "MEMBER" => actor.role = "ADMIN"
    BY DEF CheckNewAccount, MayManage
  <2> QED BY <1>1, <2>1, <2>2, <2>3 DEF Req
<1>5. org \in Orgs /\ (actor.role = "ADMIN" => org = actor.org)
  <2>1. actor.org \in Orgs \cup {None}
    BY <1>4 DEF Actor
  <2> QED BY <1>4, <2>1 DEF ManagedOrganizations, DefaultOrganizations, ActorHolds
<1>6. row \in UserRow
  BY <1>4, <1>5 DEF UserRow, Roles, Managed
<1>7. RequestHolds(Request("insert", req[r].op, of, req[r].token, actor, None, row))
  BY <1>4, <1>5 DEF RequestHolds, Request, ActorHolds, StepHolds, TargetHolds, RowHolds, Managed,
                    Roles
<1>8. Goto(r, "insert", actor, None, row) /\ "insert" \in Steps
  BY <1>3 DEF Steps
<1> HIDE DEF row
<1> QED BY <1>4, <1>6, <1>7, <1>8, GotoStep DEF CheckNewAccount, At

LEMMA CountSuperAdminsStep ==
    ASSUME IInv, NEW r \in Requests, CountSuperAdmins(r)
    PROVE  IInv'
<1>1. Begin(r, "find", "bootstrap", "NONE", None, Nobody, None)
  BY DEF CountSuperAdmins
<1>2. "find" \in Steps /\ "bootstrap" \in Ops /\ Nobody \in Actor
  BY NobodyType DEF Steps, Ops
<1>3. RequestHolds(Request("find", "bootstrap", "NONE", None, Nobody, None, NoUser))
  BY DEF RequestHolds, Request, ActorHolds, Nobody, StepHolds, TargetHolds, RowHolds
<1> QED BY <1>1, <1>2, <1>3, BeginStep DEF CountSuperAdmins, At

LEMMA FindDuplicateStep ==
    ASSUME IInv, NEW r \in Requests, FindDuplicate(r)
    PROVE  IInv'
<1>3. PICK email \in Emails :
        \/ Goto(r, "insert", Nobody, None,
                [role |-> "SUPER_ADMIN", org |-> None, admin |-> None, active |-> TRUE,
                 email |-> email])
        \/ Done(r)
  BY DEF FindDuplicate
<1> DEFINE row == [role |-> "SUPER_ADMIN", org |-> None, admin |-> None, active |-> TRUE,
                   email |-> email]
<1>1. CASE Done(r)
  BY <1>1, DoneStep DEF FindDuplicate, At
<1>2. CASE Goto(r, "insert", Nobody, None, row)
  <2>1. "insert" \in Steps /\ Nobody \in Actor /\ row \in UserRow
    BY NobodyType DEF Steps, UserRow, Roles
  <2>2. RequestHolds(Request("insert", req[r].op, req[r].of, req[r].token, Nobody, None, row))
    BY DEF RequestHolds, Request, ActorHolds, Nobody, StepHolds, TargetHolds, RowHolds, Roles,
           Managed
  <2> HIDE DEF row
  <2> QED BY <1>2, <2>1, <2>2, GotoStep DEF FindDuplicate, At
<1> QED BY <1>1, <1>2, <1>3

(***************************************************************************)
(* The writes.  A request that is about to delete sessions still is after  *)
(* a step of another one, and deletes those of the same users, but for     *)
(* those that were moved.                                                  *)
(***************************************************************************)
LEMMA SessionOpens ==
    ASSUME IInv, NEW r \in Requests, OpenSession(r)
    PROVE  IInv'
<1>1. RequestHolds(req[r]) /\ TypeOK
  BY DEF IInv
<1> DEFINE u == req[r].target
<1>2. u \in Users /\ Exists(u)
  BY <1>1 DEF RequestHolds, StepHolds, OpenSession, At
<1>3. PICK t \in Tokens :
        sessions' = sessions \cup {[token |-> t, user |-> u, expired |-> FALSE, born |-> revoked[u]]}
  BY DEF OpenSession
<1>4. UNCHANGED <<users, active, begun, revoked, spared, moved>>
  BY DEF OpenSession, ghosts
<1>5. req' \in [Requests -> Req] /\ req'[r] = Idle /\ \A q \in Requests \ {r} : req'[q] = req[q]
  BY <1>1, IdleType, OneRequestMoves DEF OpenSession, Done
<1>6. TypeOK'
  <2>1. [token |-> t, user |-> u, expired |-> FALSE, born |-> revoked[u]] \in Session
    BY <1>1, <1>2 DEF TypeOK, Session
  <2>2. sessions' \subseteq Session
    BY <1>1, <1>3, <2>1 DEF TypeOK
  <2> QED BY <1>1, <1>4, <1>5, <2>2 DEF TypeOK
<1>7. ASSUME NEW q \in Requests PROVE RequestHolds(req[q])'
  <2>1. RequestHolds(req'[q])
    BY <1>5, IdleHolds DEF IInv
  <2> QED BY <1>4, <2>1 DEF RequestHolds, ActorHolds, StepHolds, TargetHolds, RowHolds, Exists
<1>8. EmailsDiffer' /\ MembersWithAdministrator'
  BY <1>4 DEF IInv, EmailsDiffer, MembersWithAdministrator, Exists
<1>9. revoked[u] \in Nat
  BY <1>1, <1>2 DEF TypeOK
<1>10. SessionsOfUsers'
  BY <1>2, <1>3, <1>4, <1>9 DEF IInv, SessionsOfUsers, Exists
<1>11. RevokedSessionsEnd'
  <2> SUFFICES ASSUME NEW s \in sessions, s.born < revoked[s.user], s.user \notin spared
               PROVE  PurgePending(s.user)'
    BY <1>3, <1>4, <1>9 DEF RevokedSessionsEnd
  <2>1. PICK q \in Requests : At(q, "purge") /\ s.user \in Purged(q)
    BY DEF IInv, RevokedSessionsEnd, PurgePending
  <2>2. req'[q] = req[q]
    BY <1>5, <2>1 DEF OpenSession, At
  <2>3. At(q, "purge")' /\ s.user \in Purged(q)'
    BY <1>4, <2>1, <2>2 DEF At, Purged, Op
  <2> QED BY <2>3 DEF PurgePending
<1> QED BY <1>6, <1>7, <1>8, <1>10, <1>11 DEF IInv

\* A step that takes sessions away, or marks them, and ends nobody's purge.
LEMMA FewerSessions ==
    ASSUME IInv, TypeOK', UNCHANGED <<users, revoked, moved>>, spared \subseteq spared',
           \A s \in sessions' : \E s0 \in sessions : s.user = s0.user /\ s.born = s0.born,
           \A q \in Requests : req'[q] = req[q] \/ (req'[q] = Idle /\ ~At(q, "purge"))
    PROVE  IInv'
<1>1. ASSUME NEW q \in Requests PROVE RequestHolds(req[q])'
  <2>1. RequestHolds(req'[q])
    BY IdleHolds DEF IInv
  <2> QED BY <2>1 DEF RequestHolds, ActorHolds, StepHolds, TargetHolds, RowHolds, Exists
<1>2. EmailsDiffer' /\ MembersWithAdministrator' /\ SessionsOfUsers'
  BY DEF IInv, EmailsDiffer, MembersWithAdministrator, SessionsOfUsers,
         Exists
<1>3. RevokedSessionsEnd'
  <2> SUFFICES ASSUME NEW s \in sessions, s.born < revoked[s.user], s.user \notin spared
               PROVE  PurgePending(s.user)'
    BY DEF RevokedSessionsEnd
  <2>1. PICK q \in Requests : At(q, "purge") /\ s.user \in Purged(q)
    BY DEF IInv, RevokedSessionsEnd, PurgePending
  <2>2. req'[q] = req[q]
    BY <2>1
  <2>3. At(q, "purge")' /\ s.user \in Purged(q)'
    BY <2>1, <2>2 DEF At, Purged, Op
  <2> QED BY <2>3 DEF PurgePending
<1> QED BY <1>1, <1>2, <1>3 DEF IInv

LEMMA ExpireStep ==
    ASSUME IInv, Expire
    PROVE  IInv'
<1>1. PICK s \in sessions :
        sessions' = (sessions \ {s}) \cup {[token |-> s.token, user |-> s.user,
                                             expired |-> TRUE, born |-> s.born]}
  BY DEF Expire
<1> DEFINE new == [token |-> s.token, user |-> s.user, expired |-> TRUE, born |-> s.born]
<1>2. s \in Session /\ TypeOK
  BY DEF IInv, TypeOK
<1>3. new \in Session /\ new.user = s.user /\ new.born = s.born
  BY <1>2 DEF Session
<1>4. UNCHANGED <<users, active, req, begun, revoked, spared, moved>>
  BY DEF Expire, ghosts
<1>5. sessions' = (sessions \ {s}) \cup {new}
  BY <1>1
<1> HIDE DEF new
<1>6. TypeOK'
  <2>1. sessions' \subseteq Session
    BY <1>2, <1>3, <1>5 DEF TypeOK
  <2> QED BY <1>2, <1>4, <2>1 DEF TypeOK
<1>7. \A s1 \in sessions' : \E s0 \in sessions : s1.user = s0.user /\ s1.born = s0.born
  BY <1>3, <1>5
<1>8. \A q \in Requests : req'[q] = req[q] \/ (req'[q] = Idle /\ ~At(q, "purge"))
  BY <1>4
<1> QED BY <1>4, <1>6, <1>7, <1>8, FewerSessions

LEMMA LogoutStep ==
    ASSUME IInv, NEW r \in Requests, Logout(r)
    PROVE  IInv'
<1>1. TypeOK
  BY DEF IInv
<1>2. req' \in [Requests -> Req] /\ req'[r] = Idle /\ \A q \in Requests \ {r} : req'[q] = req[q]
  BY <1>1, IdleType, OneRequestMoves DEF Logout, Done
<1>3. UNCHANGED <<users, active, begun, revoked, spared, moved>> /\ sessions' \subseteq sessions
  BY DEF Logout, ghosts
<1>4. TypeOK'
  BY <1>1, <1>2, <1>3 DEF TypeOK
<1>5. \A q \in Requests : req'[q] = req[q] \/ (req'[q] = Idle /\ ~At(q, "purge"))
  BY <1>2 DEF Logout, At
<1>6. \A s1 \in sessions' : \E s0 \in sessions : s1.user = s0.user /\ s1.born = s0.born
  BY <1>3
<1> QED BY <1>3, <1>4, <1>5, <1>6, FewerSessions

LEMMA DeleteSessionsStep ==
    ASSUME IInv, NEW r \in Requests, DeleteSessions(r)
    PROVE  IInv'
<1>1. TypeOK
  BY DEF IInv
<1>2. req' \in [Requests -> Req] /\ req'[r] = Idle /\ \A q \in Requests \ {r} : req'[q] = req[q]
  BY <1>1, IdleType, OneRequestMoves DEF DeleteSessions, Done
<1>3. /\ UNCHANGED <<users, active, begun, revoked, moved>>
      /\ sessions' = {s \in sessions : s.user \notin Purged(r)}
      /\ spared' = spared \ Purged(r)
  BY DEF DeleteSessions
<1>4. TypeOK'
  BY <1>1, <1>2, <1>3 DEF TypeOK
<1>5. ASSUME NEW q \in Requests PROVE RequestHolds(req[q])'
  <2>1. RequestHolds(req'[q])
    BY <1>2, IdleHolds DEF IInv
  <2> QED BY <1>3, <2>1 DEF RequestHolds, ActorHolds, StepHolds, TargetHolds, RowHolds, Exists
<1>6. EmailsDiffer' /\ MembersWithAdministrator' /\ SessionsOfUsers'
  BY <1>3 DEF IInv, EmailsDiffer, MembersWithAdministrator,
              SessionsOfUsers, Exists
<1>7. RevokedSessionsEnd'
  <2> SUFFICES ASSUME NEW s \in sessions, s.user \notin Purged(r), s.born < revoked[s.user],
                      s.user \notin spared
               PROVE  PurgePending(s.user)'
    BY <1>3 DEF RevokedSessionsEnd
  <2>1. PICK q \in Requests : At(q, "purge") /\ s.user \in Purged(q)
    BY DEF IInv, RevokedSessionsEnd, PurgePending
  <2>2. req'[q] = req[q]
    BY <1>2, <2>1
  <2>3. At(q, "purge")' /\ s.user \in Purged(q)'
    BY <1>3, <2>1, <2>2 DEF At, Purged, Op
  <2> QED BY <2>3 DEF PurgePending
<1> QED BY <1>4, <1>5, <1>6, <1>7 DEF IInv

LEMMA PurgedUsers ==
    ASSUME IInv, NEW r \in Requests, At(r, "purge")
    PROVE  Purged(r) \subseteq Users
BY DEF IInv, RequestHolds, StepHolds, At, Purged, Op

LEMMA FailStep ==
    ASSUME IInv, NEW r \in Requests, Fail(r)
    PROVE  IInv'
<1>1. TypeOK
  BY DEF IInv
<1>2. req' \in [Requests -> Req] /\ req'[r] = Idle /\ \A q \in Requests \ {r} : req'[q] = req[q]
  BY <1>1, IdleType, OneRequestMoves DEF Fail, Done
<1>3. /\ UNCHANGED <<users, active, begun, sessions, revoked, moved>>
      /\ spared' = IF At(r, "purge") THEN spared \cup Purged(r) ELSE spared
  BY DEF Fail
<1>4. TypeOK'
  <2>1. spared' \subseteq Users
    BY <1>1, <1>3, PurgedUsers DEF TypeOK
  <2> QED BY <1>1, <1>2, <1>3, <2>1 DEF TypeOK
<1>5. ASSUME NEW q \in Requests PROVE RequestHolds(req[q])'
  <2>1. RequestHolds(req'[q])
    BY <1>2, IdleHolds DEF IInv
  <2> QED BY <1>3, <2>1 DEF RequestHolds, ActorHolds, StepHolds, TargetHolds, RowHolds, Exists
<1>6. EmailsDiffer' /\ MembersWithAdministrator' /\ SessionsOfUsers'
  BY <1>3 DEF IInv, EmailsDiffer, MembersWithAdministrator,
              SessionsOfUsers, Exists
<1>7. RevokedSessionsEnd'
  <2> SUFFICES ASSUME NEW s \in sessions, s.born < revoked[s.user], s.user \notin spared'
               PROVE  PurgePending(s.user)'
    BY <1>3 DEF RevokedSessionsEnd
  <2>1. PICK q \in Requests : At(q, "purge") /\ s.user \in Purged(q)
    BY <1>3 DEF IInv, RevokedSessionsEnd, PurgePending
  <2>2. req'[q] = req[q]
    BY <1>2, <1>3, <2>1
  <2>3. At(q, "purge")' /\ s.user \in Purged(q)'
    BY <1>3, <2>1, <2>2 DEF At, Purged, Op
  <2> QED BY <2>3 DEF PurgePending
<1> QED BY <1>4, <1>5, <1>6, <1>7 DEF IInv

(***************************************************************************)
(* A write of the users.                                                   *)
(***************************************************************************)
LEMMA UserWrite ==
    ASSUME IInv, TypeOK', NEW r \in Requests, UsersKeep, UNCHANGED sessions,
           \A q \in Requests \ {r} : req'[q] = req[q], ~At(r, "purge"),
           RequestHolds(req[r])',
           EmailsDiffer', MembersWithAdministrator',
           \A u \in Users : revoked[u] <= revoked'[u],
           \A u \in Users : Exists(u) /\ revoked'[u] # revoked[u] =>
                At(r, "purge")' /\ u \in Purged(r)',
           spared \subseteq spared',
           \A u \in Users, q \in Requests \ {r} :
                At(q, "purge") /\ u \in Purged(q) /\ Exists(u) => u \in Purged(q)' \/ u \in spared'
    PROVE  IInv'
<1>1. ASSUME NEW q \in Requests PROVE RequestHolds(req[q])'
  <2>1. CASE q = r
    BY <2>1
  <2>2. CASE q # r
    BY <2>2, OthersHold
  <2> QED BY <2>1, <2>2
<1>2. ASSUME NEW s \in sessions
      PROVE  /\ s.user \in Users /\ Exists(s.user) /\ s.born \in Nat
             /\ s.born <= revoked[s.user] /\ revoked[s.user] \in Nat /\ revoked'[s.user] \in Nat
  BY DEF IInv, TypeOK, Session, SessionsOfUsers
<1>3. SessionsOfUsers'
  <2> SUFFICES ASSUME NEW s \in sessions
               PROVE  Exists(s.user)' /\ s.born <= revoked'[s.user]
    BY DEF SessionsOfUsers
  <2>1. revoked[s.user] <= revoked'[s.user] /\ Exists(s.user)'
    BY <1>2 DEF UsersKeep, Exists
  <2> QED BY <1>2, <2>1
<1>4. RevokedSessionsEnd'
  <2> SUFFICES ASSUME NEW s \in sessions, s.born < revoked'[s.user], s.user \notin spared'
               PROVE  PurgePending(s.user)'
    BY DEF RevokedSessionsEnd
  <2>1. CASE revoked'[s.user] # revoked[s.user]
    BY <1>2, <2>1 DEF PurgePending
  <2>2. CASE revoked'[s.user] = revoked[s.user]
    <3>1. PICK q \in Requests : At(q, "purge") /\ s.user \in Purged(q)
      BY <2>2 DEF IInv, RevokedSessionsEnd, PurgePending
    <3>2. req'[q] = req[q] /\ s.user \in Purged(q)'
      BY <1>2, <3>1
    <3> QED BY <3>1, <3>2 DEF PurgePending, At
  <2> QED BY <2>1, <2>2
<1> QED BY <1>1, <1>3, <1>4 DEF IInv

\* A request that goes on to delete sessions after its write.
LEMMA PurgeNext ==
    ASSUME IInv, NEW r \in Requests, ThenPurge(r, "purge"),
           req[r].target \in IF Op(r) = "orgDeactivate" THEN Orgs ELSE Users, UsersKeep
    PROVE  /\ req' \in [Requests -> Req]
           /\ \A q \in Requests \ {r} : req'[q] = req[q]
           /\ At(r, "purge")' /\ Op(r)' = Op(r) /\ req'[r].target = req[r].target
           /\ RequestHolds(req[r])'
<1>1. TypeOK /\ req[r] \in Req
  BY DEF IInv, TypeOK
<1>2. "purge" \in Steps /\ req[r].actor \in Actor /\ NoUser \in UserRow
      /\ req[r].target \in Users \cup Orgs \cup {None}
  BY <1>1, NobodyType DEF Steps, Req
<1>3. PICK n \in Req : /\ n = Request("purge", req[r].op, req[r].of, req[r].token, req[r].actor,
                                      req[r].target, NoUser)
                       /\ req' = [req EXCEPT ![r] = n]
  BY <1>1, <1>2, GotoMoves DEF ThenPurge
<1>4. /\ req' \in [Requests -> Req] /\ req'[r] = n
      /\ \A q \in Requests \ {r} : req'[q] = req[q]
  BY <1>1, <1>3, OneRequestMoves
<1>5. /\ req'[r].step = "purge" /\ req'[r].op = req[r].op /\ req'[r].actor = req[r].actor
      /\ req'[r].target = req[r].target
  BY <1>3, <1>4 DEF Request
<1>6. ActorHolds(req[r].actor)'
  <2>1. ActorHolds(req[r].actor)
    BY DEF IInv, RequestHolds
  <2> QED BY <1>5, <2>1 DEF ActorHolds, UsersKeep, Exists
<1>7. RequestHolds(req[r])'
  BY <1>5, <1>6 DEF RequestHolds, StepHolds, TargetHolds, RowHolds, Op
<1> QED BY <1>4, <1>5, <1>7 DEF At, Op

LEMMA RevokedGrow ==
    ASSUME TypeOK, NEW set, Revoke(set)
    PROVE  /\ revoked' \in [Users -> Nat]
           /\ \A u \in Users : revoked[u] <= revoked'[u]
           /\ \A u \in Users : revoked'[u] # revoked[u] => u \in set
BY DEF TypeOK, Revoke

LEMMA UsersSame ==
    ASSUME IInv, UNCHANGED <<users, moved>>
    PROVE  /\ UsersKeep
           /\ EmailsDiffer' /\ MembersWithAdministrator'
BY DEF IInv, UsersKeep, EmailsDiffer, MembersWithAdministrator, Exists

\* What a write that changes no organization does to the purges of others.
LEMMA PurgesSame ==
    ASSUME NEW r \in Requests, \A q \in Requests \ {r} : req'[q] = req[q],
           \A u \in Users : Exists(u) => users'[u].org = users[u].org
    PROVE  \A u \in Users, q \in Requests \ {r} :
             At(q, "purge") /\ u \in Purged(q) /\ Exists(u) => u \in Purged(q)' \/ u \in spared'
BY DEF Purged, Op

LEMMA WritePasswordStep ==
    ASSUME IInv, NEW r \in Requests, WritePassword(r)
    PROVE  IInv'
<1>1. RequestHolds(req[r]) /\ TypeOK
  BY DEF IInv
<1>2. req[r].target \in Users /\ Op(r) # "orgDeactivate"
  BY <1>1 DEF RequestHolds, TargetHolds, WritePassword, At, Op
<1>3. UNCHANGED <<users, active, sessions, spared, moved, begun>> /\ ~At(r, "purge")
  BY DEF WritePassword, At
<1>4. UsersKeep /\ EmailsDiffer' /\ MembersWithAdministrator'
  BY <1>3, UsersSame
<1>5. /\ req' \in [Requests -> Req] /\ \A q \in Requests \ {r} : req'[q] = req[q]
      /\ At(r, "purge")' /\ Op(r)' = Op(r) /\ req'[r].target = req[r].target
      /\ RequestHolds(req[r])'
  BY <1>2, <1>4, PurgeNext DEF WritePassword
<1>6. /\ revoked' \in [Users -> Nat] /\ \A u \in Users : revoked[u] <= revoked'[u]
      /\ \A u \in Users : revoked'[u] # revoked[u] => u = req[r].target
  BY <1>1, RevokedGrow DEF WritePassword
<1>7. TypeOK'
  BY <1>1, <1>3, <1>5, <1>6 DEF TypeOK
<1>8. \A u \in Users : Exists(u) /\ revoked'[u] # revoked[u] => At(r, "purge")' /\ u \in Purged(r)'
  BY <1>2, <1>5, <1>6 DEF Purged
<1>9. \A u \in Users, q \in Requests \ {r} :
        At(q, "purge") /\ u \in Purged(q) /\ Exists(u) => u \in Purged(q)' \/ u \in spared'
  BY <1>3, <1>5, PurgesSame
<1> QED BY <1>3, <1>4, <1>5, <1>6, <1>7, <1>8, <1>9, UserWrite

LEMMA OrganizationStatusStep ==
    ASSUME IInv, NEW r \in Requests, OrganizationStatus(r)
    PROVE  IInv'
<1>1. RequestHolds(req[r]) /\ TypeOK
  BY DEF IInv
<1>2. req[r].target \in Orgs
  BY <1>1 DEF RequestHolds, TargetHolds, OrganizationStatus, At, Op
<1>3. UNCHANGED <<users, sessions, spared, moved, begun>> /\ ~At(r, "purge")
      /\ active' \in [Orgs -> BOOLEAN]
  BY <1>1 DEF OrganizationStatus, At, TypeOK
<1>4. UsersKeep /\ EmailsDiffer' /\ MembersWithAdministrator'
  BY <1>3, UsersSame
<1>5. CASE Op(r) = "orgDeactivate"
  <2>1. /\ req' \in [Requests -> Req] /\ \A q \in Requests \ {r} : req'[q] = req[q]
        /\ At(r, "purge")' /\ Op(r)' = Op(r) /\ req'[r].target = req[r].target
        /\ RequestHolds(req[r])'
    BY <1>2, <1>4, <1>5, PurgeNext DEF OrganizationStatus
  <2>2. /\ revoked' \in [Users -> Nat] /\ \A u \in Users : revoked[u] <= revoked'[u]
        /\ \A u \in Users : revoked'[u] # revoked[u] => users[u].org = req[r].target
    BY <1>1, <1>5, RevokedGrow DEF OrganizationStatus
  <2>3. TypeOK'
    BY <1>1, <1>3, <2>1, <2>2 DEF TypeOK
  <2>4. \A u \in Users : Exists(u) /\ revoked'[u] # revoked[u] => At(r, "purge")' /\ u \in Purged(r)'
    BY <1>3, <1>5, <2>1, <2>2 DEF Purged
  <2>5. \A u \in Users, q \in Requests \ {r} :
          At(q, "purge") /\ u \in Purged(q) /\ Exists(u) => u \in Purged(q)' \/ u \in spared'
    BY <1>3, <2>1, PurgesSame
  <2> QED BY <1>3, <1>4, <2>1, <2>2, <2>3, <2>4, <2>5, UserWrite
<1>6. CASE Op(r) # "orgDeactivate"
  BY <1>3, <1>6, IdleType, IdleHolds, RequestStep
     DEF OrganizationStatus, Done, IInv, TypeOK, ghosts
<1> QED BY <1>5, <1>6

(***************************************************************************)
(* A row that is written again: its role stays.                            *)
(***************************************************************************)
LEMMA ActiveWritten ==
    ASSUME IInv, NEW u \in Users, NEW on \in BOOLEAN, SetActive(u, on), UNCHANGED moved
    PROVE  /\ users' \in [Users -> UserRow]
           /\ \A v \in Users : /\ users'[v].role = users[v].role /\ users'[v].org = users[v].org
                              /\ users'[v].admin = users[v].admin
                              /\ users'[v].email = users[v].email
           /\ UsersKeep /\ EmailsDiffer' /\ MembersWithAdministrator'
<1>1. TypeOK /\ users[u] \in UserRow
  BY DEF IInv, TypeOK
<1> DEFINE row == [role |-> users[u].role, org |-> users[u].org, admin |-> users[u].admin,
                   active |-> on, email |-> users[u].email]
<1>2. row \in UserRow /\ users' = [users EXCEPT ![u] = row]
  BY <1>1 DEF SetActive, UserRow
<1>3. users' \in [Users -> UserRow]
  BY <1>1, <1>2 DEF TypeOK
<1>4. \A v \in Users : users'[v] = IF v = u THEN row ELSE users[v]
  BY <1>1, <1>2 DEF TypeOK
<1>5. \A v \in Users : /\ users'[v].role = users[v].role /\ users'[v].org = users[v].org
                     /\ users'[v].admin = users[v].admin
                     /\ users'[v].email = users[v].email
  BY <1>4
<1>6. UsersKeep
  BY <1>5 DEF UsersKeep
<1>7. EmailsDiffer'
  BY <1>5 DEF IInv, EmailsDiffer, Exists
<1>8. \A v \in Users : users[v].admin \in Users \cup {None}
  BY <1>1 DEF TypeOK, UserRow
<1>9. MembersWithAdministrator'
  BY <1>5, <1>8 DEF IInv, MembersWithAdministrator
<1> QED BY <1>3, <1>5, <1>6, <1>7, <1>9

LEMMA ActivateStep ==
    ASSUME IInv, NEW r \in Requests, Activate(r)
    PROVE  IInv'
<1> DEFINE u == req[r].target
<1>1. RequestHolds(req[r]) /\ TypeOK
  BY DEF IInv
<1>2. u \in Users
  BY <1>1 DEF RequestHolds, TargetHolds, Activate, At, Op
<1>3. UNCHANGED <<active, sessions, revoked, spared, moved, begun>> /\ ~At(r, "purge")
  BY DEF Activate, At, ghosts
<1>4. /\ users' \in [Users -> UserRow]
      /\ \A v \in Users : /\ users'[v].role = users[v].role /\ users'[v].org = users[v].org
      /\ UsersKeep /\ EmailsDiffer' /\ MembersWithAdministrator'
  BY <1>2, <1>3, ActiveWritten DEF Activate
<1>5. req' \in [Requests -> Req] /\ req'[r] = Idle /\ \A q \in Requests \ {r} : req'[q] = req[q]
  BY <1>1, IdleType, OneRequestMoves DEF Activate, Done
<1>6. TypeOK'
  BY <1>1, <1>3, <1>4, <1>5 DEF TypeOK
<1>7. RequestHolds(req[r])'
  BY <1>5 DEF Idle, Request, RequestHolds, ActorHolds, Nobody, StepHolds, TargetHolds, RowHolds
<1>8. \A v \in Users, q \in Requests \ {r} :
        At(q, "purge") /\ v \in Purged(q) /\ Exists(v) => v \in Purged(q)' \/ v \in spared'
  BY <1>4, <1>5, PurgesSame
<1>9. \A v \in Users : revoked[v] <= revoked'[v]
  BY <1>1, <1>3 DEF TypeOK
<1> QED BY <1>3, <1>4, <1>5, <1>6, <1>7, <1>8, <1>9, UserWrite

LEMMA DeactivateStep ==
    ASSUME IInv, NEW r \in Requests, Deactivate(r)
    PROVE  IInv'
<1> DEFINE u == req[r].target
<1>1. RequestHolds(req[r]) /\ TypeOK
  BY DEF IInv
<1>2. u \in Users /\ Op(r) # "orgDeactivate"
  BY <1>1 DEF RequestHolds, TargetHolds, Deactivate, At, Op
<1>3. UNCHANGED <<active, sessions, spared, moved, begun>> /\ ~At(r, "purge")
  BY DEF Deactivate, At
<1>4. /\ users' \in [Users -> UserRow]
      /\ \A v \in Users : /\ users'[v].role = users[v].role /\ users'[v].org = users[v].org
      /\ UsersKeep /\ EmailsDiffer' /\ MembersWithAdministrator'
  BY <1>2, <1>3, ActiveWritten DEF Deactivate
<1>5. /\ req' \in [Requests -> Req] /\ \A q \in Requests \ {r} : req'[q] = req[q]
      /\ At(r, "purge")' /\ Op(r)' = Op(r) /\ req'[r].target = req[r].target
      /\ RequestHolds(req[r])'
  BY <1>2, <1>4, PurgeNext DEF Deactivate
<1>6. /\ revoked' \in [Users -> Nat] /\ \A v \in Users : revoked[v] <= revoked'[v]
      /\ \A v \in Users : revoked'[v] # revoked[v] => v = u
  BY <1>1, RevokedGrow DEF Deactivate
<1>7. TypeOK'
  BY <1>1, <1>3, <1>4, <1>5, <1>6 DEF TypeOK
<1>8. \A v \in Users : Exists(v) /\ revoked'[v] # revoked[v] => At(r, "purge")' /\ v \in Purged(r)'
  BY <1>2, <1>5, <1>6 DEF Purged
<1>9. \A v \in Users, q \in Requests \ {r} :
        At(q, "purge") /\ v \in Purged(q) /\ Exists(v) => v \in Purged(q)' \/ v \in spared'
  BY <1>4, <1>5, PurgesSame
<1> QED BY <1>3, <1>4, <1>5, <1>6, <1>7, <1>8, <1>9, UserWrite

LEMMA SaveEditStep ==
    ASSUME IInv, NEW r \in Requests, NEW password \in BOOLEAN, SaveEdit(r, password)
    PROVE  IInv'
<1> DEFINE u == req[r].target
           row == req[r].row
           email == IF row.email = None THEN users[u].email ELSE row.email
           leaves == users[u].org # row.org
           new == [role |-> users[u].role, org |-> row.org, admin |-> users[u].admin,
                   active |-> users[u].active, email |-> email]
<1>1. RequestHolds(req[r]) /\ TypeOK /\ req[r] \in Req
  BY DEF IInv, TypeOK
<1>2. /\ u \in Users /\ users[u].role \in {"ADMIN", "MEMBER"} /\ row.org \in Orgs
      /\ (users[u].role = "MEMBER" => row.org = users[u].org)
      /\ Op(r) # "orgDeactivate"
  BY <1>1 DEF RequestHolds, TargetHolds, SaveEdit, At, Op, Managed
<1>3. /\ UNCHANGED <<active, sessions, begun>> /\ ~At(r, "purge")
      /\ users' = [users EXCEPT ![u] = new]
      /\ moved' = IF leaves THEN moved \cup {u} ELSE moved
      /\ spared' = IF leaves /\ PurgedByOrganization(users[u].org) THEN spared \cup {u} ELSE spared
      /\ EmailFree(u, email)
  BY DEF SaveEdit, At, IndexAllows
<1>4. new \in UserRow /\ users' \in [Users -> UserRow]
  BY <1>1, <1>2, <1>3 DEF TypeOK, UserRow, Req
<1>5. \A v \in Users : users'[v] = IF v = u THEN new ELSE users[v]
  BY <1>1, <1>3 DEF TypeOK
<1>6. /\ moved \subseteq moved' /\ moved' \subseteq Users
      /\ spared \subseteq spared' /\ spared' \subseteq Users
  BY <1>1, <1>2, <1>3 DEF TypeOK
<1>7. UsersKeep
  <2> HIDE DEF u, row
  <2>1. CASE leaves
    BY <1>2, <1>3, <1>5, <1>6, <2>1 DEF UsersKeep
  <2>2. CASE ~leaves
    BY <1>2, <1>3, <1>5, <1>6, <2>2 DEF UsersKeep
  <2> QED BY <2>1, <2>2
<1>8. EmailsDiffer'
  BY <1>2, <1>3, <1>5 DEF IInv, EmailsDiffer, Exists, EmailFree
<1>10. MembersWithAdministrator'
  <2> SUFFICES ASSUME NEW v \in Users, users'[v].role = "MEMBER", users'[v].admin # None
               PROVE  /\ users'[users'[v].admin].role = "ADMIN"
                      /\ users'[users'[v].admin].org = users'[v].org \/ users'[v].admin \in moved'
    BY DEF MembersWithAdministrator
  <2>1. users[v].role = "MEMBER" /\ users'[v].admin = users[v].admin
    BY <1>5
  <2>2. users[v].admin \in Users /\ users[v].admin # None
    BY <1>1, <2>1 DEF TypeOK, UserRow
  <2> QED BY <1>7, <2>1, <2>2, MembersStay
<1>11. \A v \in Users : users'[v].role \in {"ADMIN", "MEMBER"} => users'[v].org \in Orgs
  BY <1>1, <1>2, <1>5 DEF TypeOK
<1>12. /\ req' \in [Requests -> Req] /\ \A q \in Requests \ {r} : req'[q] = req[q]
       /\ RequestHolds(req[r])' /\ revoked' \in [Users -> Nat]
       /\ \A v \in Users : revoked[v] <= revoked'[v]
       /\ \A v \in Users : revoked'[v] # revoked[v] => At(r, "purge")' /\ v \in Purged(r)'
  <2>1. CASE password
    <3>1. Revoke({u}) /\ ThenPurge(r, "purge")
      BY <2>1 DEF SaveEdit
    <3>2. /\ req' \in [Requests -> Req] /\ \A q \in Requests \ {r} : req'[q] = req[q]
          /\ At(r, "purge")' /\ Op(r)' = Op(r) /\ req'[r].target = u
          /\ RequestHolds(req[r])'
      BY <1>2, <1>7, <3>1, PurgeNext
    <3>3. /\ revoked' \in [Users -> Nat] /\ \A v \in Users : revoked[v] <= revoked'[v]
          /\ \A v \in Users : revoked'[v] # revoked[v] => v = u
      BY <1>1, <3>1, RevokedGrow
    <3>4. \A v \in Users : revoked'[v] # revoked[v] => v \in Purged(r)'
      BY <1>2, <3>2, <3>3 DEF Purged
    <3> QED BY <3>2, <3>3, <3>4
  <2>2. CASE ~password
    <3>1. Done(r) /\ UNCHANGED revoked
      BY <2>2 DEF SaveEdit
    <3>2. /\ req' \in [Requests -> Req] /\ req'[r] = Idle
          /\ \A q \in Requests \ {r} : req'[q] = req[q]
      BY <1>1, <3>1, IdleType, OneRequestMoves DEF Done
    <3>3. RequestHolds(req[r])'
      BY <3>2 DEF Idle, Request, RequestHolds, ActorHolds, Nobody, StepHolds, TargetHolds, RowHolds
    <3> QED BY <1>1, <3>1, <3>2, <3>3 DEF TypeOK
  <2> QED BY <2>1, <2>2
<1>13. TypeOK'
  BY <1>1, <1>3, <1>4, <1>6, <1>11, <1>12 DEF TypeOK
<1>14. \A v \in Users, q \in Requests \ {r} :
         At(q, "purge") /\ v \in Purged(q) /\ Exists(v) => v \in Purged(q)' \/ v \in spared'
  <2> SUFFICES ASSUME NEW v \in Users, NEW q \in Requests \ {r}, At(q, "purge"), v \in Purged(q)
               PROVE  v \in Purged(q)' \/ v \in spared'
    OBVIOUS
  <2>1. req'[q] = req[q]
    BY <1>12
  <2>2. CASE Op(q) # "orgDeactivate" \/ v # u \/ ~leaves
    BY <1>5, <2>1, <2>2 DEF Purged, Op
  <2>3. CASE Op(q) = "orgDeactivate" /\ v = u /\ leaves
    <3>1. PurgedByOrganization(users[u].org)
      BY <2>3 DEF PurgedByOrganization, Purged
    <3> QED BY <1>3, <2>3, <3>1
  <2> QED BY <2>2, <2>3
<1> HIDE DEF u, row, email, leaves, new
<1> QED BY <1>3, <1>6, <1>7, <1>8, <1>10, <1>12, <1>13, <1>14, UserWrite

LEMMA InsertUserStep ==
    ASSUME IInv, NEW r \in Requests, InsertUser(r)
    PROVE  IInv'
<1> DEFINE row == req[r].row
<1>1. RequestHolds(req[r]) /\ TypeOK /\ req[r] \in Req
  BY DEF IInv, TypeOK
<1>2. PICK u \in Users : ~Exists(u) /\ EmailFree(u, row.email) /\ users' = [users EXCEPT ![u] = row]
  BY DEF InsertUser, IndexAllows
<1>3. /\ row \in UserRow /\ row.role \in Roles
      /\ row.role \in {"ADMIN", "MEMBER"} => row.org \in Orgs
      /\ row.role = "MEMBER" => row.admin \in Users /\ users[row.admin].role = "ADMIN"
      /\ row.role = "MEMBER" => users[row.admin].org = row.org \/ row.admin \in moved
  BY <1>1 DEF RequestHolds, RowHolds, InsertUser, At, Req, Managed
<1>4. UNCHANGED <<active, sessions, revoked, spared, moved, begun>> /\ ~At(r, "purge")
  BY DEF InsertUser, At, ghosts
<1>5. \A v \in Users : users'[v] = IF v = u THEN row ELSE users[v]
  BY <1>1, <1>2 DEF TypeOK
<1>6. users' \in [Users -> UserRow]
  BY <1>1, <1>2, <1>3 DEF TypeOK
<1>7. req' \in [Requests -> Req] /\ req'[r] = Idle /\ \A q \in Requests \ {r} : req'[q] = req[q]
  BY <1>1, IdleType, OneRequestMoves DEF InsertUser, Done
<1> HIDE DEF row
<1>8. UsersKeep
  BY <1>2, <1>4, <1>5 DEF UsersKeep, Exists
<1>9. TypeOK'
  <2>1. \A v \in Users : users'[v].role \in {"ADMIN", "MEMBER"} => users'[v].org \in Orgs
    BY <1>1, <1>3, <1>5 DEF TypeOK
  <2> QED BY <1>1, <1>4, <1>6, <1>7, <2>1 DEF TypeOK
<1>10. EmailsDiffer'
  BY <1>2, <1>5 DEF IInv, EmailsDiffer, Exists, EmailFree
<1>12. MembersWithAdministrator'
  <2> SUFFICES ASSUME NEW v \in Users, users'[v].role = "MEMBER", users'[v].admin # None
               PROVE  /\ users'[users'[v].admin].role = "ADMIN"
                      /\ users'[users'[v].admin].org = users'[v].org \/ users'[v].admin \in moved'
    BY DEF MembersWithAdministrator
  <2>1. CASE v = u
    <3>1. users'[v] = row
      BY <1>5, <2>1
    <3>2. /\ row.admin \in Users /\ users[row.admin].role = "ADMIN"
          /\ users[row.admin].org = row.org \/ row.admin \in moved
      BY <1>3, <3>1
    <3>3. row.admin # u
      BY <1>2, <3>2 DEF Exists
    <3>4. users'[row.admin] = users[row.admin]
      BY <1>5, <3>2, <3>3
    <3> QED BY <1>4, <3>1, <3>2, <3>4
  <2>2. CASE v # u
    <3>1. users'[v] = users[v]
      BY <1>5, <2>2
    <3>2. users[v].admin \in Users /\ users[v].admin # None
      BY <1>1, <3>1 DEF TypeOK, UserRow
    <3> QED BY <1>8, <3>1, <3>2, MembersStay
  <2> QED BY <2>1, <2>2
<1>13. RequestHolds(req[r])'
  BY <1>7 DEF Idle, Request, RequestHolds, ActorHolds, Nobody, StepHolds, TargetHolds, RowHolds
<1>14. \A v \in Users, q \in Requests \ {r} :
         At(q, "purge") /\ v \in Purged(q) /\ Exists(v) => v \in Purged(q)' \/ v \in spared'
  <2>1. \A v \in Users : Exists(v) => users'[v].org = users[v].org
    BY <1>2, <1>5
  <2> QED BY <1>7, <2>1, PurgesSame
<1>15. \A v \in Users : revoked[v] <= revoked'[v]
  BY <1>1, <1>4 DEF TypeOK
<1> QED BY <1>4, <1>7, <1>8, <1>9, <1>10, <1>12, <1>13, <1>14, <1>15, UserWrite

-----------------------------------------------------------------------------
LEMMA Initially == Init => IInv
<1> SUFFICES ASSUME Init
             PROVE  IInv
  OBVIOUS
<1>1. users \in InitialDirectories /\ users \in [Users -> UserRow]
  BY AccountsAssumption DEF Init
<1>2. req \in [Requests -> Req] /\ \A r \in Requests : req[r] = Idle
  BY IdleType DEF Init
<1>3. \A u \in Users :
        /\ users[u].role \in {"ADMIN", "MEMBER"} => users[u].org \in Orgs
        /\ users[u].role = "MEMBER" /\ users[u].admin # None =>
              /\ users[users[u].admin].role = "ADMIN"
              /\ users[users[u].admin].org = users[u].org
  BY <1>1, AccountsAssumption
<1>4. TypeOK
  BY <1>1, <1>2, <1>3, AccountsAssumption DEF Init, TypeOK
<1>5. \A r \in Requests : RequestHolds(req[r])
  BY <1>2, IdleHolds
<1>6. EmailsDiffer
  BY <1>1, AccountsAssumption DEF EmailsDiffer, Exists
<1>7. MembersWithAdministrator
  BY <1>3 DEF MembersWithAdministrator
<1>8. SessionsOfUsers /\ RevokedSessionsEnd
  BY DEF Init, SessionsOfUsers, RevokedSessionsEnd
<1> QED BY <1>4, <1>5, <1>6, <1>7, <1>8 DEF IInv

LEMMA Stutter == IInv /\ UNCHANGED vars => IInv'
<1> SUFFICES ASSUME IInv, UNCHANGED vars
             PROVE  IInv'
  OBVIOUS
<1>1. TypeOK'
  BY DEF IInv, TypeOK, vars
<1>2. \A q \in Requests : req'[q] = req[q] \/ (req'[q] = Idle /\ ~At(q, "purge"))
  BY DEF vars
<1> QED BY <1>1, <1>2, FewerSessions DEF vars

LEMMA Inductive == IInv /\ [Next]_vars => IInv'
<1> SUFFICES ASSUME IInv, Next
             PROVE  IInv'
  BY Stutter
<1>1. CASE Expire
  BY <1>1, ExpireStep
<1>2. ASSUME NEW r \in Requests, Fail(r) PROVE IInv'
  BY <1>2, FailStep
<1>3. ASSUME NEW r \in Requests, Handle(r) PROVE IInv'
  <2>1. CASE FindByEmail(r) \/ AssertActiveOrganization(r) \/ OpenSession(r)
    BY <2>1, FindByEmailStep, AssertActiveOrganizationStep, SessionOpens
  <2>2. CASE ReadSession(r) \/ ReadUser(r) \/ ReadOrganization(r)
    BY <2>2, ReadSessionStep, ReadUserStep, ReadOrganizationStep
  <2>3. CASE Logout(r) \/ ChangePassword(r) \/ ChooseOrganization(r) \/ FindAccount(r)
             \/ CheckNewAccount(r)
    BY <2>3, LogoutStep, ChangePasswordStep, ChooseOrganizationStep, FindAccountStep,
       CheckNewAccountStep
  <2>4. CASE WritePassword(r) \/ Activate(r) \/ Deactivate(r)
    BY <2>4, WritePasswordStep, ActivateStep, DeactivateStep
  <2>5. CASE \E password \in BOOLEAN : SaveEdit(r, password)
    BY <2>5, SaveEditStep
  <2>6. CASE OrganizationStatus(r) \/ DeleteSessions(r) \/ InsertUser(r)
    BY <2>6, OrganizationStatusStep, DeleteSessionsStep, InsertUserStep
  <2>7. CASE CountSuperAdmins(r) \/ FindDuplicate(r)
    BY <2>7, CountSuperAdminsStep, FindDuplicateStep
  <2> QED BY <1>3, <2>1, <2>2, <2>3, <2>4, <2>5, <2>6, <2>7 DEF Handle
<1> QED BY <1>1, <1>2, <1>3 DEF Next

\* The invariant of the accounts holds for every directory of users.
THEOREM Invariance == Spec => []IInv
BY Initially, Inductive, PTL DEF Spec

\* Every variable keeps its type, and every account its organization.
THEOREM TypeCorrect == Spec => []TypeOK
<1>1. IInv => TypeOK
  BY DEF IInv
<1> QED BY Invariance, <1>1, PTL

\* A session that was there when its user was revoked lasts only until the
\* deletion that follows, whatever runs in between.
THEOREM RevocationEndsSessions == Spec => []RevokedSessionsEnd
<1>1. IInv => RevokedSessionsEnd
  BY DEF IInv
<1> QED BY Invariance, <1>1, PTL

\* Only a moved administrator has members in another organization.
THEOREM MembersStayWithAdministrator == Spec => []MembersWithAdministrator
<1>1. IInv => MembersWithAdministrator
  BY DEF IInv
<1> QED BY Invariance, <1>1, PTL

\* The list of members and the check on one member agree in every reachable
\* directory.
THEOREM ListsAgree == Spec => []MemberListAgrees
<1>1. IInv => MemberListAgrees
  <2> SUFFICES ASSUME IInv, NEW a \in Users, users[a].role \in {"ADMIN", "SUPER_ADMIN"},
                      NEW u \in Users, users[u].role = "MEMBER"
               PROVE  u \in ListedMembers(users, AsActor(users, a), None)
                        <=> OwnsMember(AsActor(users, a), users[u])
    BY DEF MemberListAgrees, ListedMembers
  <2>1. /\ users[a].role \in {"ADMIN", "MEMBER"} => users[a].org \in Orgs
        /\ users[u].org \in Orgs
    BY DEF IInv, TypeOK
  <2>2. None \notin Orgs
    BY AccessAssumption
  <2>3. CASE users[a].role = "ADMIN"
    BY <2>1, <2>2, <2>3 DEF ListedMembers, ScopedOrganizations, AsActor, OwnsMember
  <2>4. CASE users[a].role = "SUPER_ADMIN"
    BY <2>1, <2>4 DEF ListedMembers, ScopedOrganizations, AsActor, OwnsMember
  <2> QED BY <2>3, <2>4
<1> QED BY Invariance, <1>1, PTL

=============================================================================
