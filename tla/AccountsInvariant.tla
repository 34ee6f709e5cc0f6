-------------------------- MODULE AccountsInvariant --------------------------
(***************************************************************************)
(* The inductive invariant of Accounts: what a request in progress may     *)
(* rely on, and what it may have overtaken.                                *)
(***************************************************************************)
EXTENDS Accounts

Managed == {"ADMIN", "MEMBER"}

\* The row an actor was read from still has its role, and its organization
\* unless it was moved.
ActorHolds(actor) ==
    actor.role \in {"ADMIN", "MEMBER"} =>
        /\ actor.id \in Users /\ actor.org \in Orgs
        /\ users[actor.id].role = actor.role
        /\ users[actor.id].org = actor.org \/ actor.id \in moved

\* The account a request writes is the one it looked up.
TargetHolds(q) ==
    q.step = "write" =>
        IF q.op \in {"orgActivate", "orgDeactivate"} THEN q.target \in Orgs
        ELSE /\ q.target \in Users
             /\ q.op \in {"reset", "activate", "deactivate", "edit"} =>
                   /\ q.of \in Managed
                   /\ users[q.target].role = q.of
                   /\ q.row.org \in Orgs
                   /\ q.of = "MEMBER" => q.row.org = users[q.target].org

\* What a request inserts.
RowHolds(q) ==
    q.step = "insert" =>
        /\ q.row.role \in Roles
        /\ q.row.role \in Managed => q.row.org \in Orgs
        /\ q.row.role = "MEMBER" =>
              /\ q.row.admin \in Users
              /\ users[q.row.admin].role = "ADMIN"
              /\ users[q.row.admin].org = q.row.org \/ q.row.admin \in moved

StepHolds(q) ==
    /\ q.step \in {"user", "open", "greet"} => q.target \in Users /\ Exists(q.target)
    /\ q.step \in {"org", "greet"} => q.actor.org \in Orgs
    /\ q.step \in {"handle", "org"} => q.actor.id \in Users
    /\ q.step \in {"handle", "org", "user"} => Started(q.op, q.of)
    /\ q.step = "purge" => q.target \in IF q.op = "orgDeactivate" THEN Orgs ELSE Users

RequestHolds(q) == ActorHolds(q.actor) /\ StepHolds(q) /\ TargetHolds(q) /\ RowHolds(q)

EmailsDiffer ==
    \A u, v \in Users :
        Exists(u) /\ Exists(v) /\ users[u].email = users[v].email => u = v

SessionsOfUsers ==
    \A s \in sessions : Exists(s.user) /\ s.born <= revoked[s.user]

\* The inductive invariant: the parts above, and the properties of Accounts
\* that a step preserves only together with them.
IInv ==
    /\ TypeOK
    /\ \A r \in Requests : RequestHolds(req[r])
    /\ EmailsDiffer
    /\ SessionsOfUsers
    /\ RevokedSessionsEnd
    /\ MembersWithAdministrator

=============================================================================
