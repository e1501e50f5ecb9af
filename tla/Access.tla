-------------------------------- MODULE Access --------------------------------
(***************************************************************************)
(* Who may do what in a company (organizations/, accounts/,                *)
(* administration/, maintainers/): memberships, branches, roles and the    *)
(* assignments of roles, and the questions the rest of the program asks    *)
(* about them.                                                             *)
(*                                                                         *)
(* A request that updates a membership or a role looks at who asks, and at *)
(* the rows as they are, in no transaction (it is decided), and writes     *)
(* later, in one.  No transaction locks the membership first: the one that *)
(* gives access anew and the one that revokes it are steps of their own    *)
(* statement by statement, with those of others between them, held up only *)
(* by the rows that somebody has written and not committed.  A statement   *)
(* that waited for such rows sees what was committed (READ COMMITTED).     *)
(* Any of them may come to nothing (Fails).  The other requests are one    *)
(* step.                                                                   *)
(***************************************************************************)
EXTENDS Naturals, FiniteSets

CONSTANTS
  Users, Companies, Branches, Roles,
  Customers,    \* users with an active account of a customer (module Portal)
  CompanyOnly, TenantGlobal, BranchScoped,   \* permissions, by scope_behavior
  Admin,        \* administration.manage, one of CompanyOnly
  Calls,        \* requests that may be open at once
  Start,        \* the company there is at the start,
  Owner,        \*   its administrator,
  OwnerRole,    \*   the role he has,
  MainBranch,   \*   its branch,
  Worker,       \*   a member, at that branch or not,
  SecondRole,   \*   and a role with
  SecondPermissions, \* these permissions
  Whole,        \* the branch of an assignment to the whole company
  Keep,         \* the status of a request that does not name one
  Named,        \* bound: the statuses that requests name
  None,
  MaxWrites     \* bound: the writes of a behaviour; no request opens after them

VARIABLES
  company,      \* company[c]: Company.is_active, or that there is no such company
  member,       \* member[u][c]: CompanyMembership.status
  primary,      \* <<u, c>>: the membership of u in c is u's own (primary_for_user)
  branchOf,     \* branchOf[b]: the company of b; or None
  attached,     \* <<u, b>>: rows of MembershipBranch
  role,         \* role[r]: the CompanyRole and its permissions; or None
  grants,       \* rows of RoleAssignment
  call,         \* call[p]: what the open request p is about to write; or None
  revoked,      \* history: <<u, c>> revoked, and not let in by name since
  torn,         \* history: <<u, c>> given access between the two deletions of a
                \*   revocation, and not all anew since
  writes        \* writes so far

vars == <<company, member, primary, branchOf, attached, role, grants, call, revoked, torn, writes>>

Permissions == CompanyOnly \cup TenantGlobal \cup BranchScoped
Statuses == {"INVITED", "ACTIVE", "SUSPENDED", "LEFT"}
RoleRows == [company : Companies, active : BOOLEAN, permissions : SUBSET Permissions]
Grants == [user : Users, role : Roles, branch : Branches \cup {Whole}]
(* gone and lost are the rows its transaction has deleted, and rows the    *)
(* assignments it is about to insert; on says which transaction it is.     *)
MemberRequests ==
  [by : Users \cup {None}, on : {"user", "revoke", "state"}, user : Users, company : Companies,
   status : Statuses \cup {Keep}, read : Statuses \cup {"NONE"}, branches : SUBSET Branches,
   roles : SUBSET Roles, at : {"decided", "half", "ready"}, gone : SUBSET Branches,
   lost : SUBSET Grants, rows : SUBSET Grants, alone : BOOLEAN]
RoleRequests ==
  [by : Users \cup {None}, on : {"role"}, role : Roles, company : Companies,
   active : BOOLEAN, permissions : SUBSET Permissions, alone : BOOLEAN]
BranchRequests ==
  [by : Users, on : {"branch"}, company : Companies, branch : Branches,
   at : {"saved", "found"}, alone : BOOLEAN]
Requests == MemberRequests \cup RoleRequests \cup BranchRequests

ASSUME AccessAssumption ==
  /\ Admin \in CompanyOnly /\ Customers \subseteq Users
  /\ Start \in Companies /\ Owner \in Users /\ OwnerRole \in Roles /\ MainBranch \in Branches
  /\ Worker \in Users \ {Owner} /\ SecondRole \in Roles \ {OwnerRole}
  /\ SecondPermissions \subseteq BranchScoped /\ Named \subseteq Statuses
  /\ Whole \notin Branches /\ Keep \notin Statuses /\ MaxWrites \in Nat
  /\ None \notin Users \cup Companies \cup RoleRows \cup Requests

TypeOK ==
  /\ company \in [Companies -> {"NONE", "ACTIVE", "INACTIVE"}]
  /\ member \in [Users -> [Companies -> Statuses \cup {"NONE"}]]
  /\ primary \subseteq Users \X Companies
  /\ branchOf \in [Branches -> Companies \cup {None}]
  /\ attached \subseteq Users \X Branches
  /\ role \in [Roles -> RoleRows \cup {None}]
  /\ grants \subseteq Grants
  /\ call \in [Calls -> Requests \cup {None}]
  /\ revoked \subseteq Users \X Companies /\ torn \subseteq Users \X Companies
  /\ writes \in 0..MaxWrites

Init ==
  /\ company = [c \in Companies |-> IF c = Start THEN "ACTIVE" ELSE "NONE"]
  /\ member = [u \in Users |-> [c \in Companies |-> IF u \in {Owner, Worker} /\ c = Start THEN "ACTIVE" ELSE "NONE"]]
  /\ primary = {<<Owner, Start>>}
  /\ branchOf = [b \in Branches |-> IF b = MainBranch THEN Start ELSE None]
  /\ attached \in SUBSET {<<Worker, MainBranch>>}
  /\ role = [r \in Roles |->
       CASE r = OwnerRole -> [company |-> Start, active |-> TRUE, permissions |-> Permissions]
         [] r = SecondRole -> [company |-> Start, active |-> TRUE, permissions |-> SecondPermissions]
         [] OTHER -> None]
  /\ \E R \in SUBSET {SecondRole} :
       /\ R # {} => attached # {}
       /\ grants = {[user |-> Owner, role |-> OwnerRole, branch |-> Whole]}
                     \cup [user : {Worker}, role : R, branch : {MainBranch}]
  /\ call = [p \in Calls |-> None]
  /\ revoked = {} /\ torn = {}
  /\ writes = 0

RolesOf(c) == {r \in Roles : role[r] # None /\ role[r].company = c}
BranchesOf(c) == {b \in Branches : branchOf[b] = c}
GrantsOf(u, c) == {g \in grants : g.user = u /\ g.role \in RolesOf(c)}
AttachedTo(u, c) == {b \in BranchesOf(c) : <<u, b>> \in attached}

------------------------------------------------------------------------------
(* The questions.  Assignments count while the company, the membership and *)
(* the role are active.                                                    *)
Counting(u, c, p) ==
  {g \in GrantsOf(u, c) : /\ company[c] = "ACTIVE" /\ member[u][c] = "ACTIVE"
                          /\ role[g.role].active /\ p \in role[g.role].permissions}

(* has_company_admin_access: at a branch or for the whole company.         *)
Administers(u, c) == Counting(u, c, Admin) # {}

AllBranches(u, c, p) == Counting(u, c, p) # {} /\ \E g \in Counting(u, c, Admin) : g.branch = Whole

(* get_branch_scope: an assignment to the whole company inherits the       *)
(* branches of the membership, but an administrator of the whole company   *)
(* has them all.                                                           *)
BranchScope(u, c, p) ==
  IF AllBranches(u, c, p) THEN BranchesOf(c)
  ELSE {g.branch : g \in {h \in Counting(u, c, p) : h.branch # Whole}}
         \cup IF \E g \in Counting(u, c, p) : g.branch = Whole THEN AttachedTo(u, c) ELSE {}

(* has_permission; the branch is Whole when no branch is named.            *)
HasPermission(u, c, p, b) ==
  /\ b # Whole => branchOf[b] = c
  /\ IF p \in BranchScoped THEN AllBranches(u, c, p) \/ b \in BranchScope(u, c, p)
     ELSE \E g \in Counting(u, c, p) : p \in CompanyOnly => g.branch = Whole

(* get_managed_company                                                     *)
Manages(u, c) == company[c] = "ACTIVE" /\ Administers(u, c)

------------------------------------------------------------------------------
(* replace_membership_access: the assignments it makes of the roles.       *)
HasAny(r, permissions) == role[r].permissions \cap permissions # {}

Replacement(u, B, R) ==
  LET whole == {r \in R : HasAny(r, CompanyOnly) \/ ~HasAny(r, BranchScoped)}
  IN  [user : {u}, role : whole, branch : {Whole}] \cup [user : {u}, role : R \ whole, branch : B]

Open(p) == call[p] # None
Room == writes + Cardinality({p \in Calls : Open(p) /\ call[p].on # "branch"}) < MaxWrites
Free(p) == ~Open(p) /\ Room
Counted == writes < MaxWrites /\ writes' = writes + 1
Overlapped(p) == [q \in Calls |-> IF q = p \/ ~Open(q) THEN None
                                  ELSE [call[q] EXCEPT !.alone = FALSE]]
Becomes(p, request) == call' = [call EXCEPT ![p] = request] /\
  UNCHANGED <<company, member, primary, branchOf, attached, role, grants, revoked, torn, writes>>

(* The company's administrators.  by is who asks; None is a maintainer.    *)
MemberRequest(by, on, u, c, status, B, R) ==
  [by |-> by, on |-> on, user |-> u, company |-> c, status |-> status, read |-> member[u][c],
   branches |-> B, roles |-> R, at |-> "decided", gone |-> {}, lost |-> {}, rows |-> {},
   alone |-> TRUE]
RoleRequest(by, r, c, active, permissions) ==
  [by |-> by, on |-> "role", role |-> r, company |-> c, active |-> active,
   permissions |-> permissions, alone |-> TRUE]

(* user_detail_view: nobody gives up his own administration.               *)
UpdateUser(p, by, u, c, status, B, R) ==
  /\ Manages(by, c) /\ member[u][c] # "NONE"
  /\ by = u => /\ status = "ACTIVE" \/ (status = Keep /\ member[u][c] = "ACTIVE")
               /\ \E r \in R : role[r].active /\ Admin \in role[r].permissions
  /\ Becomes(p, MemberRequest(by, "user", u, c, status, B, R))

(* Mutant of RemovesAdmin: a role that is switched off is not thought of.  *)
RemovesAdminByName(active, permissions) == Admin \notin permissions
RemovesAdmin(active, permissions) == Admin \notin permissions \/ ~active

(* role_detail_view: no permission of the whole company for a role that    *)
(* some have at a branch, and nobody gives up his own last such role.      *)
UpdateRole(p, by, r, c, active, permissions) ==
  /\ Manages(by, c)
  /\ permissions \cap CompanyOnly # {} => \A g \in grants : g.role = r => g.branch = Whole
  /\ RemovesAdmin(active, permissions) => {g.role : g \in Counting(by, c, Admin)} # {r}
  /\ Becomes(p, RoleRequest(by, r, c, active, permissions))

(* The maintainers' views of the same rows ask for none of that.           *)
MaintainsUser(p, u, c, status, B, R) ==
  /\ member[u][c] # "NONE"
  /\ Becomes(p, MemberRequest(None, "user", u, c, status, B, R))

(* A membership made, or brought back, with its access.                    *)
AddUser(p, u, c, B, R) ==
  /\ company[c] # "NONE" /\ member[u][c] # "ACTIVE"
  /\ Becomes(p, MemberRequest(None, "user", u, c, "ACTIVE", B, R))

CreateUser(p, by, u, c, B, R) == Manages(by, c) /\ AddUser(p, u, c, B, R)

RevokeAccess(p, u, c) ==
  /\ member[u][c] \notin {"NONE", "LEFT"}
  /\ Becomes(p, MemberRequest(None, "revoke", u, c, "LEFT", {}, {}))

(* change_state, which does not bring back who has left.                   *)
ChangeMembershipState(p, u, c, active) ==
  /\ member[u][c] # "NONE" /\ (active => member[u][c] # "LEFT")
  /\ Becomes(p, MemberRequest(None, "state", u, c, IF active THEN "ACTIVE" ELSE "SUSPENDED", {}, {}))

MaintainsRole(p, r, c, active, permissions) ==
  /\ Becomes(p, RoleRequest(None, r, c, active, permissions))

------------------------------------------------------------------------------
(* The transactions on a membership, and the locks they hold until they    *)
(* end: on its row once a status was written there; on the rows of         *)
(* MembershipBranch and RoleAssignment that they deleted; and on those     *)
(* they inserted, which share a lock on the membership's row.              *)
OfMember(p, u, c) ==
  Open(p) /\ call[p].on \in {"user", "revoke", "state"} /\ call[p].user = u /\ call[p].company = c
Rivals(p, u, c) == {call[q] : q \in {x \in Calls \ {p} : OfMember(x, u, c)}}

Inserts(q) == IF q.on = "user" /\ q.at = "ready" THEN q.branches ELSE {}
LocksMember(q) == q.on = "user" /\ q.at # "decided" /\ q.status # Keep
MayWriteMember(q, others) == \A x \in others : ~LocksMember(x) /\ Inserts(x) = {}
MayInsert(others) == \A x \in others : ~LocksMember(x)
MayDeleteBranches(others) == \A x \in others : x.gone = {} /\ Inserts(x) = {}
MayDeleteRoles(others) == \A x \in others : x.lost = {}

(* The status is written if one was named, the roles are looked at as they *)
(* are now, and the branches go; a new membership is inserted.             *)
BeginsUser(p) ==
  LET q == call[p]  others == Rivals(p, q.user, q.company) IN
    /\ Open(p) /\ q.on = "user" /\ q.at = "decided"
    /\ q.read = "NONE" => member[q.user][q.company] = "NONE"
    /\ \A r \in q.roles : HasAny(r, BranchScoped) => q.branches # {}
    /\ q.status # Keep => MayWriteMember(q, others)
    /\ MayDeleteBranches(others)
    /\ Becomes(p, [q EXCEPT !.at = "half", !.gone = AttachedTo(q.user, q.company),
                            !.rows = Replacement(q.user, q.branches, q.roles)])

(* Mutant of Deleted: only the assignments of the roles named are deleted. *)
DeletedOfNamed(u, c, R) == {g \in GrantsOf(u, c) : g.role \in R}
Deleted(u, c, R) == GrantsOf(u, c)

(* The new branches are inserted, each once, and the assignments go.       *)
ReplacesUser(p) ==
  LET q == call[p]  others == Rivals(p, q.user, q.company) IN
    /\ Open(p) /\ q.on = "user" /\ q.at = "half"
    /\ q.branches \cap (AttachedTo(q.user, q.company) \ q.gone) = {}
    /\ q.branches # {} => MayInsert(others)
    /\ \A x \in others : q.branches \cap (x.gone \cup Inserts(x)) = {}
    /\ MayDeleteRoles(others)
    /\ Becomes(p, [q EXCEPT !.at = "ready", !.lost = Deleted(q.user, q.company, q.roles)])

(* RoleAssignment.clean, which sees what others have committed.            *)
RowFits(g, present) ==
  /\ g.branch # Whole => ~HasAny(g.role, CompanyOnly)
  /\ \A h \in present : h.role = g.role => Whole \notin {g.branch, h.branch} /\ h.branch # g.branch

(* Mutant of NewStatus: the membership is saved whole, as it was loaded.   *)
NewStatusAsRead(q) == IF q.status = Keep THEN q.read ELSE q.status
NewStatus(q) == IF q.status = Keep THEN member[q.user][q.company] ELSE q.status

LetsIn(u, c, status) == revoked' = IF status = "ACTIVE" THEN revoked \ {<<u, c>>} ELSE revoked

(* The revocations that have deleted the assignments and not the branches. *)
Tears(others) == \E x \in others : x.on = "revoke" /\ x.at = "half"
Mended(q) == IF GrantsOf(q.user, q.company) \subseteq q.lost THEN torn \ {<<q.user, q.company>>} ELSE torn

(* The new assignments are inserted, and all of it is committed.           *)
CommitsUser(p) ==
  LET q == call[p]  others == Rivals(p, q.user, q.company) IN
    /\ Open(p) /\ q.on = "user" /\ q.at = "ready" /\ Counted
    /\ q.rows # {} => MayInsert(others)
    /\ \A g \in q.rows : RowFits(g, GrantsOf(q.user, q.company) \ q.lost)
    /\ attached' = (attached \ ({q.user} \X q.gone)) \cup ({q.user} \X q.branches)
    /\ grants' = (grants \ q.lost) \cup q.rows
    /\ member' = [member EXCEPT ![q.user][q.company] = NewStatus(q)]
    /\ torn' = Mended(q) \cup IF Tears(others) THEN {<<q.user, q.company>>} ELSE {}
    /\ LetsIn(q.user, q.company, q.status)
    /\ call' = Overlapped(p)
    /\ UNCHANGED <<company, primary, branchOf, role>>

(* user_revoke_access_view: the assignments go, then the branches, then    *)
(* the membership is left.                                                 *)
BeginsRevoke(p) ==
  LET q == call[p] IN
    /\ Open(p) /\ q.on = "revoke" /\ q.at = "decided"
    /\ MayDeleteRoles(Rivals(p, q.user, q.company))
    /\ Becomes(p, [q EXCEPT !.at = "half", !.lost = GrantsOf(q.user, q.company)])

RevokesBranches(p) ==
  LET q == call[p] IN
    /\ Open(p) /\ q.on = "revoke" /\ q.at = "half"
    /\ MayDeleteBranches(Rivals(p, q.user, q.company))
    /\ Becomes(p, [q EXCEPT !.at = "ready", !.gone = AttachedTo(q.user, q.company)])

CommitsRevoke(p) ==
  LET q == call[p] IN
    /\ Open(p) /\ q.on = "revoke" /\ q.at = "ready" /\ Counted
    /\ MayWriteMember(q, Rivals(p, q.user, q.company))
    /\ grants' = grants \ q.lost
    /\ attached' = attached \ ({q.user} \X q.gone)
    /\ member' = [member EXCEPT ![q.user][q.company] = "LEFT"]
    /\ revoked' = revoked \cup {<<q.user, q.company>>}
    /\ torn' = Mended(q)
    /\ call' = Overlapped(p)
    /\ UNCHANGED <<company, primary, branchOf, role>>

CommitsState(p) ==
  LET q == call[p] IN
    /\ Open(p) /\ q.on = "state" /\ Counted
    /\ MayWriteMember(q, Rivals(p, q.user, q.company))
    /\ member' = [member EXCEPT ![q.user][q.company] = q.status]
    /\ LetsIn(q.user, q.company, q.status)
    /\ call' = Overlapped(p)
    /\ UNCHANGED <<company, primary, branchOf, attached, role, grants, torn>>

(* The role's status and all its permissions; its row is locked first.     *)
CommitsRole(p) ==
  LET q == call[p] IN
    /\ Open(p) /\ q.on = "role" /\ Counted
    /\ role' = [role EXCEPT ![q.role] =
         [company |-> @.company, active |-> q.active, permissions |-> q.permissions]]
    /\ call' = Overlapped(p)
    /\ UNCHANGED <<company, member, primary, branchOf, attached, grants, revoked, torn>>

Commits(p) == CommitsUser(p) \/ CommitsRevoke(p) \/ CommitsState(p) \/ CommitsRole(p)

Fails(p) ==
  /\ Open(p)
  /\ call' = [call EXCEPT ![p] = None]
  /\ UNCHANGED <<company, member, primary, branchOf, attached, role, grants, revoked, torn, writes>>

------------------------------------------------------------------------------
(* Roles and branches.                                                     *)
ChangeRoleState(r, active) ==
  /\ role[r] # None /\ Counted
  /\ role' = [role EXCEPT ![r].active = active]
  /\ call' = Overlapped(None)
  /\ UNCHANGED <<company, member, primary, branchOf, attached, grants, revoked, torn>>

CreateRole(c, r, active, permissions) ==
  /\ company[c] # "NONE" /\ role[r] = None /\ Counted
  /\ role' = [role EXCEPT ![r] = [company |-> c, active |-> active, permissions |-> permissions]]
  /\ call' = Overlapped(None)
  /\ UNCHANGED <<company, member, primary, branchOf, attached, grants, revoked, torn>>

(* branch_list_create_view saves the branch; then looks whether who made   *)
(* it has no assignment to the whole company; and then attaches him to it. *)
CreateBranch(p, by, c, b) ==
  /\ Manages(by, c) /\ branchOf[b] = None /\ Counted
  /\ branchOf' = [branchOf EXCEPT ![b] = c]
  /\ call' = [Overlapped(p) EXCEPT ![p] =
       [by |-> by, on |-> "branch", company |-> c, branch |-> b, at |-> "saved", alone |-> TRUE]]
  /\ UNCHANGED <<company, member, primary, attached, role, grants, revoked, torn>>

FindsCreator(p) ==
  LET q == call[p] IN
    /\ Open(p) /\ q.on = "branch" /\ q.at = "saved"
    /\ member[q.by][q.company] = "ACTIVE" /\ \A g \in GrantsOf(q.by, q.company) : g.branch # Whole
    /\ Becomes(p, [q EXCEPT !.at = "found"])

AttachesCreator(p) ==
  LET q == call[p]  others == Rivals(p, q.by, q.company) IN
    /\ Open(p) /\ q.on = "branch" /\ q.at = "found"
    /\ MayInsert(others) /\ \A x \in others : q.branch \notin Inserts(x) \cup x.gone
    /\ attached' = attached \cup {<<q.by, q.branch>>}
    /\ call' = [call EXCEPT ![p] = None]
    /\ UNCHANGED <<company, member, primary, branchOf, role, grants, revoked, torn, writes>>

MaintainsBranch(c, b) ==
  /\ company[c] # "NONE" /\ branchOf[b] = None /\ Counted
  /\ branchOf' = [branchOf EXCEPT ![b] = c]
  /\ call' = Overlapped(None)
  /\ UNCHANGED <<company, member, primary, attached, role, grants, revoked, torn>>

------------------------------------------------------------------------------
(* Companies.  create_company_for_user: one transaction makes the company, *)
(* its administrator and his role with every permission.                   *)
NewCompany(u, c, r) ==
  /\ company[c] = "NONE" /\ role[r] = None /\ Counted
  /\ company' = [company EXCEPT ![c] = "ACTIVE"]
  /\ member' = [member EXCEPT ![u][c] = "ACTIVE"]
  /\ role' = [role EXCEPT ![r] = [company |-> c, active |-> TRUE, permissions |-> Permissions]]
  /\ grants' = grants \cup {[user |-> u, role |-> r, branch |-> Whole]}
  /\ call' = Overlapped(None)
  /\ UNCHANGED <<attached, revoked, torn>>

CreateCompany(u, c, r) ==
  /\ \E d \in Companies : Manages(u, d)
  /\ NewCompany(u, c, r)
  /\ UNCHANGED <<primary, branchOf>>

(* A customer makes one company of his own, with its branch; the user's    *)
(* row is locked while the rest is looked at.                              *)
SelfServiceCompany(u, c, r, b) ==
  /\ u \in Customers /\ \A d \in Companies : <<u, d>> \notin primary
  /\ NewCompany(u, c, r)
  /\ primary' = primary \cup {<<u, c>>}
  /\ branchOf[b] = None /\ branchOf' = [branchOf EXCEPT ![b] = c]

MaintainsCompany(c, new) ==
  /\ (company[c] = "NONE" => new = "ACTIVE") /\ Counted
  /\ company' = [company EXCEPT ![c] = new]
  /\ call' = Overlapped(None)
  /\ UNCHANGED <<member, primary, branchOf, attached, role, grants, revoked, torn>>

UpdateCompany(by, c, new) == Manages(by, c) /\ MaintainsCompany(c, new)

(* Branches and roles that a request names are those of its company:       *)
(* replace_membership_access refuses the others.                           *)
AsksNext ==
  \E p \in Calls : Free(p) /\ \E c \in Companies :
    \/ \E u \in Users, B \in SUBSET BranchesOf(c), R \in SUBSET RolesOf(c) :
         \/ \E status \in Named \cup {Keep} :
              MaintainsUser(p, u, c, status, B, R) \/ \E by \in Users : UpdateUser(p, by, u, c, status, B, R)
         \/ AddUser(p, u, c, B, R) \/ \E by \in Users : CreateUser(p, by, u, c, B, R)
    \/ \E u \in Users : RevokeAccess(p, u, c) \/ \E a \in BOOLEAN : ChangeMembershipState(p, u, c, a)
    \/ \E r \in RolesOf(c), active \in BOOLEAN, permissions \in SUBSET Permissions :
         MaintainsRole(p, r, c, active, permissions) \/ \E by \in Users : UpdateRole(p, by, r, c, active, permissions)
    \/ \E b \in Branches, by \in Users : CreateBranch(p, by, c, b)

RequestsNext ==
  \E p \in Calls : \/ BeginsUser(p) \/ ReplacesUser(p) \/ BeginsRevoke(p) \/ RevokesBranches(p)
                   \/ Commits(p) \/ FindsCreator(p) \/ AttachesCreator(p) \/ Fails(p)

RowsNext ==
  Room /\
  \/ \E r \in Roles, a \in BOOLEAN : ChangeRoleState(r, a)
  \/ \E c \in Companies, r \in Roles, a \in BOOLEAN, permissions \in SUBSET Permissions :
       CreateRole(c, r, a, permissions)
  \/ \E c \in Companies, b \in Branches : MaintainsBranch(c, b)

CompaniesNext ==
  Room /\
  \/ \E u \in Users, c \in Companies, r \in Roles :
       CreateCompany(u, c, r) \/ \E b \in Branches : SelfServiceCompany(u, c, r, b)
  \/ \E c \in Companies, new \in {"ACTIVE", "INACTIVE"} :
       MaintainsCompany(c, new) \/ \E by \in Users : UpdateCompany(by, c, new)

Next == AsksNext \/ RequestsNext \/ RowsNext \/ CompaniesNext

Spec == Init /\ [][Next]_vars

------------------------------------------------------------------------------
(***************************************************************************)
(* Rows of different companies never meet, and an assignment at a branch   *)
(* is one of a member attached to that branch, whatever requests about the *)
(* membership overlapped; but for access given between the two deletions   *)
(* of a revocation (torn).  So a permission by branch reaches no branch    *)
(* outside the company, and of those only the branches of the membership,  *)
(* unless the user administers the whole company; nobody has two companies *)
(* of his own.  And every variable keeps its type.                         *)
(***************************************************************************)
ScopeIsAttached ==
  /\ TypeOK
  /\ \A g \in grants : g.branch # Whole => /\ branchOf[g.branch] = role[g.role].company
                                           /\ \/ <<g.user, g.branch>> \in attached
                                              \/ <<g.user, role[g.role].company>> \in torn
  /\ \A u \in Users, c \in Companies, p \in BranchScoped, b \in Branches :
       HasPermission(u, c, p, b) => \/ <<u, b>> \in attached \/ <<u, c>> \in torn
                                    \/ HasPermission(u, c, Admin, Whole)
  /\ \A u \in Users, c \in Companies, p \in BranchScoped : BranchScope(u, c, p) \subseteq BranchesOf(c)
  /\ \A x, y \in primary : x[1] = y[1] => x = y

(***************************************************************************)
(* Who was revoked stays out, until a request lets him in by name: one     *)
(* that was open at the time, and writes back the roles that it had read,  *)
(* opens nothing to him.                                                   *)
(***************************************************************************)
RevokedStayOut ==
  \A x \in revoked : \A p \in Permissions :
    Counting(x[1], x[2], p) = {} /\ BranchScope(x[1], x[2], p) = {}

(***************************************************************************)
(* "No puedes eliminar tu ultimo acceso de administracion": a request of   *)
(* an administrator about users or roles, that no other write overlaps,    *)
(* leaves him an administrator.                                            *)
(***************************************************************************)
NobodyLocksHimselfOut ==
  [][\A p \in Calls, u \in Users, c \in Companies :
       Open(p) /\ call[p].alone /\ call[p].by = u /\ call[p].company = c /\ Commits(p)
         => Manages(u, c)']_vars
==============================================================================
