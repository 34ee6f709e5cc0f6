---------------------------- MODULE TenantAccess ----------------------------
(***************************************************************************)
(* Who may do what: the permissions of the roles, and the rules that keep  *)
(* an actor inside its organization and inside the part of it that is its  *)
(* own.  All of them are functions of the directory of users, dir, and of  *)
(* the actor, a snapshot of the user's row taken when the request was      *)
(* authenticated.  A refusal is the empty set or None.                     *)
(***************************************************************************)
EXTENDS Naturals, FiniteSets

CONSTANTS
    Users,   \* ids of users
    Orgs,    \* organizations
    Emails,  \* addresses
    None     \* no user, no organization

ASSUME AccessAssumption == None \notin Users \cup Orgs

Roles == {"SUPER_ADMIN", "ADMIN", "MEMBER"}

\* A row that does not exist has the role NONE.
UserRow == [role: Roles \cup {"NONE"}, org: Orgs \cup {None}, admin: Users \cup {None},
            active: BOOLEAN, email: Emails \cup {None}]

NoUser == [role |-> "NONE", org |-> None, admin |-> None, active |-> FALSE, email |-> None]

Actor == [id: Users \cup {None}, role: Roles \cup {"NONE"}, org: Orgs \cup {None}]

AsActor(dir, u) == [id |-> u, role |-> dir[u].role, org |-> dir[u].org]

-----------------------------------------------------------------------------
Verbs == {"VIEW", "CREATE", "UPDATE", "DELETE"}

Permissions ==
    ({"USERS", "ADMINS", "TEAMS", "CUSTOMERS", "PRODUCTS", "INVOICES", "QUOTES", "EXPENSES"}
        \X Verbs)
    \cup ({"PAYMENTS"} \X {"VIEW", "CREATE", "UPDATE"})
    \cup ({"SETTINGS"} \X {"VIEW", "UPDATE"})
    \cup {<<"INVOICES", "SEND">>, <<"REPORTS", "VIEW">>, <<"AUDIT_LOG", "VIEW">>}

AdminAllowed ==
    ({"USERS"} \X Verbs) \cup ({"SETTINGS"} \X {"VIEW", "UPDATE"})
    \cup ({"INVOICES", "REPORTS"} \X {"VIEW"})

MemberAllowed ==
    ({"CUSTOMERS", "PRODUCTS", "INVOICES", "QUOTES", "EXPENSES"} \X {"VIEW", "CREATE", "UPDATE"})
    \cup ({"USERS", "PAYMENTS", "REPORTS", "SETTINGS"} \X {"VIEW"})
    \cup {<<"INVOICES", "SEND">>}

SuperAdminDenied == {<<"USERS", "CREATE">>}

RolePermissions(role) ==
    CASE role = "SUPER_ADMIN" -> Permissions \ SuperAdminDenied
      [] role = "ADMIN" -> Permissions \cap AdminAllowed
      [] role = "MEMBER" -> Permissions \cap MemberAllowed
      [] OTHER -> {}

-----------------------------------------------------------------------------
(***************************************************************************)
(* Organizations.                                                          *)
(***************************************************************************)

\* The only active organization, the only one, the oldest active one or the
\* oldest: how old they are is left open.
DefaultOrganizations(active) ==
    IF \E o \in Orgs : active[o] THEN {o \in Orgs : active[o]} ELSE Orgs

\* Slip: the requested organization is taken from everybody.
ManagedAsRequested(actor, requested, active) ==
    IF requested # None THEN {requested} ELSE DefaultOrganizations(active)

\* Where the actor may create, given what the request names.
ManagedOrganizations(actor, requested, active) ==
    IF actor.role = "SUPER_ADMIN"
    THEN IF requested # None THEN {requested} ELSE DefaultOrganizations(active)
    ELSE IF requested \in {None, actor.org} THEN {actor.org} \ {None} ELSE {}

\* Slip: an administrator's list is not limited to its organization.
ScopedToAny(actor, requested) == Orgs \cup {None}

\* What a list may cover.
ScopedOrganizations(actor, requested) ==
    CASE actor.role = "SUPER_ADMIN" /\ requested # None -> {requested}
      [] actor.role = "SUPER_ADMIN" /\ requested = None -> Orgs \cup {None}
      [] OTHER -> IF actor.org = None THEN Orgs \cup {None}
                  ELSE IF requested \in {None, actor.org} THEN {actor.org} ELSE {}

\* The same for catalogue and customers, where a super administrator always
\* looks at one organization.
ScopedTenants(actor, requested, active) ==
    IF actor.role = "SUPER_ADMIN"
    THEN IF requested # None THEN {requested} ELSE DefaultOrganizations(active)
    ELSE ScopedOrganizations(actor, requested)

OrganizationAccess(actor, org) ==
    actor.role = "SUPER_ADMIN" \/ (org # None /\ actor.org = org)

-----------------------------------------------------------------------------
(***************************************************************************)
(* Inside an organization: an administrator and its members.               *)
(***************************************************************************)
MembersOf(dir, admin) == {u \in Users : dir[u].role = "MEMBER" /\ dir[u].admin = admin}

\* Whose invoices the actor works with.
InvoiceUserScope(dir, actor) ==
    CASE actor.role = "SUPER_ADMIN" -> Users
      [] actor.role = "MEMBER" -> {actor.id}
      [] OTHER -> MembersOf(dir, actor.id)

\* The administrator whose customers the actor works with.
AdministratorOf(dir, actor) ==
    CASE actor.role = "ADMIN" -> actor.id
      [] actor.role = "MEMBER" -> dir[actor.id].admin
      [] OTHER -> None

OwnsMember(actor, member) ==
    \/ actor.role = "SUPER_ADMIN"
    \/ actor.role = "ADMIN" /\ member.org = actor.org /\ member.admin = actor.id

\* The members an actor's list shows.
ListedMembers(dir, actor, requested) ==
    {u \in Users :
        /\ dir[u].role = "MEMBER"
        /\ actor.role \in {"SUPER_ADMIN", "ADMIN"}
        /\ dir[u].org \in ScopedOrganizations(actor, requested)
        /\ actor.role = "ADMIN" => dir[u].admin = actor.id}

CustomerInScope(dir, actor, customer) ==
    \/ actor.role = "SUPER_ADMIN"
    \/ /\ actor.role = "MEMBER"
       /\ actor.org = customer.org
       /\ customer.admin = AdministratorOf(dir, actor)

InvoiceAccess(dir, actor, invoice) ==
    \/ actor.role = "SUPER_ADMIN"
    \/ /\ actor.org = invoice.org
       /\ {invoice.creator, invoice.assignee} \cap InvoiceUserScope(dir, actor) # {}

=============================================================================
