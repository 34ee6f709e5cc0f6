------------------------------ MODULE Accounts ------------------------------
(***************************************************************************)
(* Users, their sessions, and the requests that open, use and end them.    *)
(* Every statement of a request is an action of its own: authentication    *)
(* reads the session, the user and the organization one after the other,   *)
(* and a handler then works with the actor it found.  A change of password *)
(* and a deactivation write the user first and delete the sessions after.  *)
(*                                                                         *)
(* Passwords are not modelled: a login succeeds only with the password its *)
(* read of the user found, and revoked counts how often the sessions of a  *)
(* user were to end.  revoked, spared and moved, and the born field of a   *)
(* session, only record what happened.                                     *)
(***************************************************************************)
EXTENDS TenantAccess

CONSTANTS
    Tokens,              \* session tokens
    Requests,            \* requests that may be in progress together
    InitialDirectories,  \* what the table of users may hold at the start
    MaxRevoked,          \* bound on revocations of a user's sessions
    MaxBegun             \* bound on requests

\* The start: addresses differ, as the index wants it; a member may have no
\* administrator, and no administrator has yet been moved away from its members.
ASSUME AccountsAssumption ==
    /\ InitialDirectories \subseteq [Users -> UserRow]
    /\ MaxRevoked \in Nat /\ MaxBegun \in Nat
    /\ \A dir \in InitialDirectories, u, v \in Users :
          /\ dir[u].role # "NONE" /\ dir[v].role # "NONE" /\ dir[u].email = dir[v].email => u = v
          /\ dir[u].role \in {"ADMIN", "MEMBER"} => dir[u].org \in Orgs
          /\ dir[u].role = "MEMBER" /\ dir[u].admin # None =>
                /\ dir[dir[u].admin].role = "ADMIN"
                /\ dir[dir[u].admin].org = dir[u].org

VARIABLES
    users,     \* the row of each user
    active,    \* which organizations are active
    sessions,  \* the sessions that exist
    req,       \* the progress of each request
    begun,     \* how many requests there were
    revoked,   \* how often each user's sessions were to end
    spared,    \* users whose sessions were not deleted although they were to end
    moved      \* administrators that were moved to another organization

vars == <<users, active, sessions, req, begun, revoked, spared, moved>>
ghosts == <<revoked, spared, moved>>

-----------------------------------------------------------------------------
Session == [token: Tokens, user: Users, expired: BOOLEAN, born: Nat]

Steps == {"idle", "greet", "open", "user", "org", "handle", "write", "purge", "find", "insert"}

Ops == {"none", "login", "logout", "password", "reset", "activate", "deactivate", "edit",
        "create", "orgActivate", "orgDeactivate", "bootstrap"}

\* of: the role of the accounts an operation manages.
Req == [step: Steps, op: Ops, of: Roles \cup {"NONE"}, token: Tokens \cup {None}, actor: Actor,
        target: Users \cup Orgs \cup {None}, row: UserRow]

Nobody == [id |-> None, role |-> "NONE", org |-> None]

Request(step, op, of, token, actor, target, row) ==
    [step |-> step, op |-> op, of |-> of, token |-> token, actor |-> actor, target |-> target,
     row |-> row]

Idle == Request("idle", "none", "NONE", None, Nobody, None, NoUser)

At(r, step) == req[r].step = step
Op(r) == req[r].op
Exists(u) == users[u].role # "NONE"

Goto(r, step, actor, target, row) ==
    req' = [req EXCEPT ![r] = Request(step, @.op, @.of, @.token, actor, target, row)]
Done(r) == req' = [req EXCEPT ![r] = Idle]

Begin(r, step, op, of, token, actor, target) ==
    /\ begun < MaxBegun
    /\ begun' = begun + 1
    /\ req' = [req EXCEPT ![r] = Request(step, op, of, token, actor, target, NoUser)]

Fresh(t) ==
    /\ \A s \in sessions : s.token # t
    /\ \A r \in Requests : req[r].token # t

\* What a look for an account with the address finds.
EmailFree(u, email) == \A v \in Users \ {u} : Exists(v) => users[v].email # email

\* Slip: the column is not unique.
NoEmailIndex(u, email) == TRUE

\* The unique index on email.
IndexAllows(u, email) == EmailFree(u, email)

-----------------------------------------------------------------------------
(***************************************************************************)
(* Login.  The user is read once; its password and status are judged by    *)
(* that row.  What follows the session (the time of the login, the answer) *)
(* changes nothing here.                                                   *)
(***************************************************************************)
FindByEmail(r) ==
    /\ At(r, "idle")
    /\ \E u \in Users :
          /\ Exists(u) /\ users[u].active
          /\ Begin(r, IF users[u].org = None THEN "open" ELSE "greet", "login", "NONE", None,
                   AsActor(users, u), u)
    /\ UNCHANGED <<users, active, sessions, ghosts>>

AssertActiveOrganization(r) ==
    /\ At(r, "greet")
    /\ IF active[req[r].actor.org]
       THEN Goto(r, "open", req[r].actor, req[r].target, NoUser)
       ELSE Done(r)
    /\ UNCHANGED <<users, active, sessions, ghosts, begun>>

OpenSession(r) ==
    /\ At(r, "open")
    /\ \E t \in Tokens :
          /\ Fresh(t)
          /\ sessions' = sessions \cup {[token |-> t, user |-> req[r].target, expired |-> FALSE,
                                         born |-> revoked[req[r].target]]}
    /\ Done(r)
    /\ UNCHANGED <<users, active, ghosts, begun>>

Expire ==
    /\ \E s \in sessions :
          /\ ~s.expired
          /\ sessions' = (sessions \ {s}) \cup {[token |-> s.token, user |-> s.user,
                                                 expired |-> TRUE, born |-> s.born]}
    /\ UNCHANGED <<users, active, req, ghosts, begun>>

-----------------------------------------------------------------------------
(***************************************************************************)
(* Authentication of any other request, and its guards.  A logout that is  *)
(* not authenticated is answered all the same and deletes nothing.         *)
(***************************************************************************)
Started(op, of) ==
    CASE op \in {"reset", "activate", "deactivate", "edit", "create"} -> of \in {"ADMIN", "MEMBER"}
      [] op \in {"logout", "password", "orgActivate", "orgDeactivate"} -> of = "NONE"
      [] OTHER -> FALSE

ReadSession(r) ==
    /\ At(r, "idle")
    /\ \E s \in sessions :
          \/ /\ s.expired
             /\ sessions' = sessions \ {s}
             /\ UNCHANGED <<req, begun>>
          \/ /\ ~s.expired
             /\ \E op \in Ops, of \in Roles \cup {"NONE"} :
                   /\ Started(op, of)
                   /\ Begin(r, "user", op, of, s.token, Nobody, s.user)
             /\ UNCHANGED sessions
    /\ UNCHANGED <<users, active, ghosts>>

ReadUser(r) ==
    /\ At(r, "user")
    /\ LET u == req[r].target
       IN  IF Exists(u) /\ users[u].active
           THEN Goto(r, IF users[u].org = None THEN "handle" ELSE "org", AsActor(users, u), None,
                     NoUser)
           ELSE Done(r)
    /\ UNCHANGED <<users, active, sessions, ghosts, begun>>

ReadOrganization(r) ==
    /\ At(r, "org")
    /\ IF active[req[r].actor.org]
       THEN Goto(r, "handle", req[r].actor, None, NoUser)
       ELSE Done(r)
    /\ UNCHANGED <<users, active, sessions, ghosts, begun>>

\* The route's permission for accounts of a role.
RoutePermission(of, verb) == IF of = "ADMIN" THEN <<"ADMINS", verb>> ELSE <<"USERS", verb>>

\* What the routes and the services ask of the actor's role.
MayManage(actor, op, of) ==
    /\ of = "ADMIN" => actor.role = "SUPER_ADMIN"
    /\ of = "MEMBER" => actor.role \in {"ADMIN", "SUPER_ADMIN"}
    /\ of = "MEMBER" /\ op = "create" => actor.role = "ADMIN"
    /\ RoutePermission(of, IF op = "create" THEN "CREATE" ELSE "UPDATE")
          \in RolePermissions(actor.role)

-----------------------------------------------------------------------------
(***************************************************************************)
(* The handlers, up to their first write.                                  *)
(***************************************************************************)
Logout(r) ==
    /\ At(r, "handle") /\ Op(r) = "logout"
    /\ sessions' = {s \in sessions : s.token # req[r].token}
    /\ Done(r)
    /\ UNCHANGED <<users, active, ghosts, begun>>

ChangePassword(r) ==
    /\ At(r, "handle") /\ Op(r) = "password"
    /\ Goto(r, "write", req[r].actor, req[r].actor.id, users[req[r].actor.id])
    /\ UNCHANGED <<users, active, sessions, ghosts, begun>>

ChooseOrganization(r) ==
    /\ At(r, "handle") /\ Op(r) \in {"orgActivate", "orgDeactivate"}
    /\ req[r].actor.role = "SUPER_ADMIN"
    /\ \E o \in Orgs : Goto(r, "write", req[r].actor, o, NoUser)
    /\ UNCHANGED <<users, active, sessions, ghosts, begun>>

\* The account, and for an edit the values it is to have: an address if one is
\* given; a member keeps its organization, an administrator's may be another one.
FindAccount(r) ==
    /\ At(r, "handle") /\ Op(r) \in {"reset", "activate", "deactivate", "edit"}
    /\ MayManage(req[r].actor, Op(r), req[r].of)
    /\ \E u \in Users, email \in Emails \cup {None}, org \in Orgs :
          /\ users[u].role = req[r].of
          /\ req[r].of = "MEMBER" => OwnsMember(req[r].actor, users[u]) /\ org = users[u].org
          /\ Op(r) # "edit" => email = None /\ org = users[u].org
          /\ email # None => EmailFree(u, email)
          /\ Goto(r, "write", req[r].actor, u,
                  [role |-> users[u].role, org |-> org, admin |-> users[u].admin,
                   active |-> users[u].active, email |-> email])
    /\ UNCHANGED <<users, active, sessions, ghosts, begun>>

CheckNewAccount(r) ==
    /\ At(r, "handle") /\ Op(r) = "create"
    /\ MayManage(req[r].actor, "create", req[r].of)
    /\ \E email \in Emails, requested \in Orgs \cup {None}, on \in BOOLEAN :
       \E org \in ManagedOrganizations(req[r].actor, requested, active) :
          /\ EmailFree(None, email)
          /\ Goto(r, "insert", req[r].actor, None,
                  [role |-> req[r].of, org |-> org, active |-> on, email |-> email,
                   admin |-> IF req[r].of = "MEMBER" THEN req[r].actor.id ELSE None])
    /\ UNCHANGED <<users, active, sessions, ghosts, begun>>

-----------------------------------------------------------------------------
(***************************************************************************)
(* The writes.                                                             *)
(***************************************************************************)
Revoke(affected) ==
    /\ \A u \in affected : revoked[u] < MaxRevoked
    /\ revoked' = [u \in Users |-> IF u \in affected THEN revoked[u] + 1 ELSE revoked[u]]

\* Slip: a new password leaves the sessions alone.
PurgeOnlyInactive(r, step) ==
    IF Op(r) = "password" THEN Done(r)
    ELSE Goto(r, step, req[r].actor, req[r].target, NoUser)

ThenPurge(r, step) == Goto(r, step, req[r].actor, req[r].target, NoUser)

WritePassword(r) ==
    /\ At(r, "write") /\ Op(r) \in {"password", "reset"}
    /\ Revoke({req[r].target})
    /\ ThenPurge(r, "purge")
    /\ UNCHANGED <<users, active, sessions, spared, moved, begun>>

SetActive(u, on) ==
    users' = [users EXCEPT ![u] = [role |-> @.role, org |-> @.org, admin |-> @.admin,
                                   active |-> on, email |-> @.email]]

Activate(r) ==
    /\ At(r, "write") /\ Op(r) = "activate"
    /\ SetActive(req[r].target, TRUE)
    /\ Done(r)
    /\ UNCHANGED <<active, sessions, ghosts, begun>>

Deactivate(r) ==
    /\ At(r, "write") /\ Op(r) = "deactivate"
    /\ SetActive(req[r].target, FALSE)
    /\ Revoke({req[r].target})
    /\ ThenPurge(r, "purge")
    /\ UNCHANGED <<active, sessions, spared, moved, begun>>

\* Users of an organization whose sessions a request is about to delete.
PurgedByOrganization(o) ==
    \E q \in Requests : At(q, "purge") /\ Op(q) = "orgDeactivate" /\ req[q].target = o

\* An edit writes the address if it was given one, and the organization that it
\* read or was given; a member's may bring a password.
SaveEdit(r, password) ==
    LET u == req[r].target
        row == req[r].row
        email == IF row.email = None THEN users[u].email ELSE row.email
        leaves == users[u].org # row.org
    IN  /\ At(r, "write") /\ Op(r) = "edit"
        /\ IndexAllows(u, email)
        /\ password => req[r].of = "MEMBER"
        /\ users' = [users EXCEPT ![u] = [role |-> @.role, org |-> row.org, admin |-> @.admin,
                                          active |-> @.active, email |-> email]]
        /\ moved' = IF leaves THEN moved \cup {u} ELSE moved
        /\ spared' = IF leaves /\ PurgedByOrganization(users[u].org)
                     THEN spared \cup {u} ELSE spared
        /\ IF password
           THEN Revoke({u}) /\ ThenPurge(r, "purge")
           ELSE Done(r) /\ UNCHANGED revoked
        /\ UNCHANGED <<active, sessions, begun>>

OrganizationStatus(r) ==
    /\ At(r, "write") /\ Op(r) \in {"orgActivate", "orgDeactivate"}
    /\ active' = [active EXCEPT ![req[r].target] = (Op(r) = "orgActivate")]
    /\ IF Op(r) = "orgDeactivate"
       THEN /\ Revoke({u \in Users : users[u].org = req[r].target})
            /\ ThenPurge(r, "purge")
       ELSE Done(r) /\ UNCHANGED revoked
    /\ UNCHANGED <<users, sessions, spared, moved, begun>>

\* Whose sessions a request is about to delete.
Purged(r) ==
    IF Op(r) = "orgDeactivate" THEN {u \in Users : users[u].org = req[r].target}
    ELSE {req[r].target}

DeleteSessions(r) ==
    /\ At(r, "purge")
    /\ sessions' = {s \in sessions : s.user \notin Purged(r)}
    /\ spared' = spared \ Purged(r)
    /\ Done(r)
    /\ UNCHANGED <<users, active, revoked, moved, begun>>

InsertUser(r) ==
    /\ At(r, "insert")
    /\ \E u \in Users :
          /\ ~Exists(u)
          /\ IndexAllows(u, req[r].row.email)
          /\ users' = [users EXCEPT ![u] = req[r].row]
    /\ Done(r)
    /\ UNCHANGED <<active, sessions, ghosts, begun>>

-----------------------------------------------------------------------------
(***************************************************************************)
(* The job that makes the first super administrator: a count, a look for   *)
(* the address in the environment of the process, an insert.  Two that     *)
(* overlap with different addresses make two.                              *)
(***************************************************************************)
CountSuperAdmins(r) ==
    /\ At(r, "idle")
    /\ \A u \in Users : users[u].role # "SUPER_ADMIN"
    /\ Begin(r, "find", "bootstrap", "NONE", None, Nobody, None)
    /\ UNCHANGED <<users, active, sessions, ghosts>>

FindDuplicate(r) ==
    /\ At(r, "find")
    /\ \E email \in Emails :
          IF EmailFree(None, email)
          THEN Goto(r, "insert", Nobody, None,
                    [role |-> "SUPER_ADMIN", org |-> None, admin |-> None, active |-> TRUE,
                     email |-> email])
          ELSE Done(r)
    /\ UNCHANGED <<users, active, sessions, ghosts, begun>>

\* A refusal, an error of the database or the end of the process.  What was
\* written stays, and the sessions that were to be deleted stay too.
Fail(r) ==
    /\ ~At(r, "idle")
    /\ spared' = IF At(r, "purge") THEN spared \cup Purged(r) ELSE spared
    /\ Done(r)
    /\ UNCHANGED <<users, active, sessions, revoked, moved, begun>>

-----------------------------------------------------------------------------
Init ==
    /\ users \in InitialDirectories
    /\ active = [o \in Orgs |-> TRUE]
    /\ sessions = {}
    /\ req = [r \in Requests |-> Idle]
    /\ revoked = [u \in Users |-> 0]
    /\ spared = {}
    /\ moved = {}
    /\ begun = 0

Handle(r) ==
    \/ FindByEmail(r) \/ AssertActiveOrganization(r) \/ OpenSession(r)
    \/ ReadSession(r) \/ ReadUser(r) \/ ReadOrganization(r)
    \/ Logout(r) \/ ChangePassword(r) \/ ChooseOrganization(r) \/ FindAccount(r)
    \/ CheckNewAccount(r)
    \/ WritePassword(r) \/ Activate(r) \/ Deactivate(r)
    \/ (\E password \in BOOLEAN : SaveEdit(r, password))
    \/ OrganizationStatus(r) \/ DeleteSessions(r) \/ InsertUser(r)
    \/ CountSuperAdmins(r) \/ FindDuplicate(r)

Next == Expire \/ \E r \in Requests : Handle(r) \/ Fail(r)

Spec == Init /\ [][Next]_vars

-----------------------------------------------------------------------------
(***************************************************************************)
(* Properties.                                                             *)
(***************************************************************************)

\* Every variable has its type, and every account but a super administrator's
\* belongs to an organization.
TypeOK ==
    /\ users \in [Users -> UserRow]
    /\ \A u \in Users : users[u].role \in {"ADMIN", "MEMBER"} => users[u].org \in Orgs
    /\ active \in [Orgs -> BOOLEAN]
    /\ sessions \subseteq Session
    /\ req \in [Requests -> Req]
    /\ begun \in 0 .. MaxBegun
    /\ revoked \in [Users -> Nat]
    /\ spared \subseteq Users
    /\ moved \subseteq Users

\* Between the write that ends a user's sessions and their deletion.
PurgePending(u) == \E r \in Requests : At(r, "purge") /\ u \in Purged(r)

\* A session that was there when the user's password changed, or when the
\* user or its organization was deactivated, is deleted, whatever runs
\* meanwhile: it is left only until the deletion comes, or when that failed,
\* or when the user was moved out of the organization before it came.
RevokedSessionsEnd ==
    \A s \in sessions :
        s.born < revoked[s.user] => s.user \in spared \/ PurgePending(s.user)

\* A member that has an administrator belongs to its organization, unless the
\* administrator was moved: then its members stay, and it keeps creating members in the
\* organization its request was authenticated with.
MembersWithAdministrator ==
    \A u \in Users : users[u].role = "MEMBER" /\ users[u].admin # None =>
        LET admin == users[u].admin
        IN  /\ users[admin].role = "ADMIN"
            /\ users[admin].org = users[u].org \/ admin \in moved

\* An account manager's list shows exactly the members that the manager may
\* open, also after an administrator was moved.
MemberListAgrees ==
    \A a \in Users : users[a].role \in {"ADMIN", "SUPER_ADMIN"} =>
        ListedMembers(users, AsActor(users, a), None)
            = {u \in Users : users[u].role = "MEMBER" /\ OwnsMember(AsActor(users, a), users[u])}

=============================================================================
