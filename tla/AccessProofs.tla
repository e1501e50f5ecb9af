----------------------------- MODULE AccessProofs -----------------------------
(***************************************************************************)
(* Proofs about module Access, for every set of users, companies,          *)
(* branches, roles and permissions, and every number of requests at once.  *)
(***************************************************************************)
EXTENDS Access, TLAPS

(***************************************************************************)
(* The steps of the module, one formula for each way of writing.  Requests *)
(* about a user or a role, by whoever asks, decide alike.                  *)
(***************************************************************************)
MayUpdateUser(by, u, c, status, R) ==
  by # None => /\ Manages(by, c)
               /\ by = u => /\ status = "ACTIVE" \/ (status = Keep /\ member[u][c] = "ACTIVE")
                            /\ \E r \in R : role[r].active /\ Admin \in role[r].permissions
MayUpdateRole(by, r, c, active, permissions) ==
  by # None => /\ Manages(by, c)
               /\ RemovesAdmin(active, permissions) => {g.role : g \in Counting(by, c, Admin)} # {r}

AsksMember(p, by, on, u, c, status, B, R) ==
  /\ company[c] # "NONE" \/ member[u][c] # "NONE"
  /\ status = Keep => on = "user" /\ member[u][c] # "NONE"
  /\ IF on = "user" THEN MayUpdateUser(by, u, c, status, R) ELSE by = None
  /\ Becomes(p, MemberRequest(by, on, u, c, status, B, R))
AsksRole(p, by, r, c, active, permissions) ==
  /\ MayUpdateRole(by, r, c, active, permissions)
  /\ Becomes(p, RoleRequest(by, r, c, active, permissions))

Asking ==
  \E p \in Calls, c \in Companies, by \in Users \cup {None} :
    \/ \E on \in {"user", "revoke", "state"}, u \in Users, status \in Statuses \cup {Keep} :
         \E B \in SUBSET BranchesOf(c), R \in SUBSET RolesOf(c) :
           AsksMember(p, by, on, u, c, status, B, R)
    \/ \E r \in RolesOf(c), active \in BOOLEAN, permissions \in SUBSET Permissions :
         AsksRole(p, by, r, c, active, permissions)
Moving ==
  \E p \in Calls : \/ BeginsUser(p) \/ ReplacesUser(p) \/ BeginsRevoke(p) \/ RevokesBranches(p)
                   \/ FindsCreator(p)
Ending == \E p \in Calls : AttachesCreator(p) \/ Fails(p)
Writing == \E p \in Calls : Commits(p)
Branching == \E p \in Calls, c \in Companies, b \in Branches, by \in Users : CreateBranch(p, by, c, b)
Shaping ==
  \/ \E r \in Roles, a \in BOOLEAN : ChangeRoleState(r, a)
  \/ \E c \in Companies, r \in Roles, a \in BOOLEAN, permissions \in SUBSET Permissions :
       CreateRole(c, r, a, permissions)
  \/ \E c \in Companies, b \in Branches : MaintainsBranch(c, b)
Founding ==
  \/ \E u \in Users, c \in Companies, r \in Roles :
       CreateCompany(u, c, r) \/ \E b \in Branches : SelfServiceCompany(u, c, r, b)
  \/ \E c \in Companies, new \in {"ACTIVE", "INACTIVE"} : MaintainsCompany(c, new)

LEMMA AsksAlike ==
  ASSUME NEW p \in Calls, NEW c \in Companies, NEW u \in Users, NEW B, NEW R
  PROVE  /\ \A status : MaintainsUser(p, u, c, status, B, R) => AsksMember(p, None, "user", u, c, status, B, R)
         /\ \A status, by : UpdateUser(p, by, u, c, status, B, R) => AsksMember(p, by, "user", u, c, status, B, R)
         /\ AddUser(p, u, c, B, R) => AsksMember(p, None, "user", u, c, "ACTIVE", B, R)
         /\ RevokeAccess(p, u, c) => AsksMember(p, None, "revoke", u, c, "LEFT", {}, {})
         /\ \A a \in BOOLEAN : ChangeMembershipState(p, u, c, a) =>
              AsksMember(p, None, "state", u, c, IF a THEN "ACTIVE" ELSE "SUSPENDED", {}, {})
<1> USE AccessAssumption DEF AsksMember, MayUpdateUser, Statuses
<1>1. \A status : MaintainsUser(p, u, c, status, B, R) => AsksMember(p, None, "user", u, c, status, B, R)
  BY DEF MaintainsUser
<1>2. \A status, by : UpdateUser(p, by, u, c, status, B, R) => AsksMember(p, by, "user", u, c, status, B, R)
  BY DEF UpdateUser
<1>3. AddUser(p, u, c, B, R) => AsksMember(p, None, "user", u, c, "ACTIVE", B, R)
  BY DEF AddUser
<1>4. RevokeAccess(p, u, c) => AsksMember(p, None, "revoke", u, c, "LEFT", {}, {})
  BY DEF RevokeAccess
<1>5. \A a \in BOOLEAN : ChangeMembershipState(p, u, c, a) =>
        AsksMember(p, None, "state", u, c, IF a THEN "ACTIVE" ELSE "SUSPENDED", {}, {})
  BY DEF ChangeMembershipState
<1> QED
  BY <1>1, <1>2, <1>3, <1>4, <1>5

LEMMA AsksOfNext == AsksNext => Asking \/ Branching
<1> SUFFICES ASSUME AsksNext PROVE Asking \/ Branching
  OBVIOUS
<1>1. PICK p \in Calls, c \in Companies :
        \/ \E u \in Users, B \in SUBSET BranchesOf(c), R \in SUBSET RolesOf(c) :
             \/ \E status \in Named \cup {Keep} :
                  MaintainsUser(p, u, c, status, B, R) \/ \E by \in Users : UpdateUser(p, by, u, c, status, B, R)
             \/ AddUser(p, u, c, B, R) \/ \E by \in Users : CreateUser(p, by, u, c, B, R)
        \/ \E u \in Users : RevokeAccess(p, u, c) \/ \E a \in BOOLEAN : ChangeMembershipState(p, u, c, a)
        \/ \E r \in RolesOf(c), active \in BOOLEAN, permissions \in SUBSET Permissions :
             MaintainsRole(p, r, c, active, permissions) \/ \E by \in Users : UpdateRole(p, by, r, c, active, permissions)
        \/ \E b \in Branches, by \in Users : CreateBranch(p, by, c, b)
  BY DEF AsksNext
<1>2. ASSUME NEW by \in Users \cup {None}, NEW on \in {"user", "revoke", "state"}, NEW u \in Users,
             NEW status \in Statuses \cup {Keep}, NEW B \in SUBSET BranchesOf(c),
             NEW R \in SUBSET RolesOf(c), AsksMember(p, by, on, u, c, status, B, R)
      PROVE  Asking
  BY <1>2, Zenon DEF Asking
<1>3. ASSUME NEW u \in Users, NEW B \in SUBSET BranchesOf(c), NEW R \in SUBSET RolesOf(c),
             \/ \E status \in Named \cup {Keep} :
                  MaintainsUser(p, u, c, status, B, R) \/ \E by \in Users : UpdateUser(p, by, u, c, status, B, R)
             \/ AddUser(p, u, c, B, R) \/ \E by \in Users : CreateUser(p, by, u, c, B, R)
      PROVE  Asking
  <2>1. PICK by \in Users \cup {None}, status \in Statuses \cup {Keep} :
          AsksMember(p, by, "user", u, c, status, B, R)
    BY <1>3, AsksAlike, AccessAssumption DEF CreateUser, Statuses
  <2> QED
    BY <1>2, <2>1
<1>4. ASSUME NEW u \in Users,
             RevokeAccess(p, u, c) \/ \E a \in BOOLEAN : ChangeMembershipState(p, u, c, a)
      PROVE  Asking
  <2>1. PICK on \in {"user", "revoke", "state"}, status \in Statuses \cup {Keep} :
          AsksMember(p, None, on, u, c, status, {}, {})
    BY <1>4, AsksAlike DEF Statuses
  <2>2. /\ {} \in SUBSET BranchesOf(c) /\ {} \in SUBSET RolesOf(c)
        /\ None \in Users \cup {None}
    OBVIOUS
  <2> QED
    BY <1>2, <2>1, <2>2
<1>5. ASSUME NEW r \in RolesOf(c), NEW active \in BOOLEAN, NEW permissions \in SUBSET Permissions,
             MaintainsRole(p, r, c, active, permissions) \/ \E by \in Users : UpdateRole(p, by, r, c, active, permissions)
      PROVE  Asking
  <2>1. PICK by \in Users \cup {None} : AsksRole(p, by, r, c, active, permissions)
    BY <1>5 DEF MaintainsRole, UpdateRole, AsksRole, MayUpdateRole
  <2> QED
    BY <2>1, Zenon DEF Asking
<1> QED
  BY <1>1, <1>3, <1>4, <1>5 DEF Branching

LEMMA StepsOfNext == Next => Asking \/ Moving \/ Ending \/ Writing \/ Branching \/ Shaping \/ Founding
<1>1. RequestsNext => Moving \/ Ending \/ Writing
  BY DEF RequestsNext, Moving, Ending, Writing
<1>2. RowsNext => Shaping
  BY DEF RowsNext, Shaping
<1>3. CompaniesNext => Founding
  BY DEF CompaniesNext, Founding, UpdateCompany
<1> QED
  BY <1>1, <1>2, <1>3, AsksOfNext DEF Next

------------------------------------------------------------------------------
(* Nothing that there is goes away or changes hands.                       *)
Grows ==
  /\ \A r \in Roles : role[r] # None => role'[r] # None /\ role'[r].company = role[r].company
  /\ \A b \in Branches : branchOf[b] # None => branchOf'[b] = branchOf[b]
  /\ \A u \in Users, c \in Companies : member[u][c] # "NONE" => member'[u][c] # "NONE"
  /\ \A c \in Companies : company[c] # "NONE" => company'[c] # "NONE"

(* A request that is open is about rows of its company, and has deleted    *)
(* and made rows of its membership only.                                   *)
MemberFits(q) ==
  /\ q.branches \subseteq BranchesOf(q.company) /\ q.roles \subseteq RolesOf(q.company)
  /\ q.gone \subseteq BranchesOf(q.company)
  /\ \A g \in q.lost : g.user = q.user /\ g.role \in RolesOf(q.company)
  /\ \A g \in q.rows : /\ g.user = q.user /\ g.role \in q.roles
                       /\ g.branch # Whole => g.branch \in q.branches
  /\ company[q.company] # "NONE"
  /\ q.status = Keep => q.on = "user" /\ member[q.user][q.company] # "NONE"
RequestFits(q) ==
  /\ q \in MemberRequests => MemberFits(q)
  /\ q \in RoleRequests => q.role \in RolesOf(q.company)
  /\ q \in BranchRequests => q.branch \in BranchesOf(q.company)
CallsFit == \A p \in Calls : Open(p) => RequestFits(call[p])

(* Two transactions on a membership have no branch in common that either   *)
(* has deleted or inserted: the rows they wrote kept them apart.           *)
Apart(x, y) ==
  /\ x.gone \cap (y.gone \cup Inserts(y)) = {}
  /\ y.gone \cap Inserts(x) = {} /\ Inserts(x) \cap Inserts(y) = {}
MembersApart ==
  \A p, q \in Calls : \A u \in Users, c \in Companies :
    p # q /\ OfMember(p, u, c) /\ OfMember(q, u, c) => Apart(call[p], call[q])

(* What a transaction leaves of the assignments is at none of the branches *)
(* that it takes away.                                                     *)
Leaves(q) ==
  \/ <<q.user, q.company>> \in torn
  \/ /\ q.on = "revoke" /\ q.at = "half" => GrantsOf(q.user, q.company) \subseteq q.lost
     /\ q.at = "ready" => \A g \in GrantsOf(q.user, q.company) \ q.lost : g.branch \notin q.gone
MembersLeft == \A p \in Calls : \A u \in Users, c \in Companies : OfMember(p, u, c) => Leaves(call[p])

(* Assignments are of roles that exist; at a branch, of the role's company *)
(* and of the membership's.                                                *)
GrantStands(g) ==
  /\ role[g.role] # None
  /\ g.branch # Whole => /\ branchOf[g.branch] = role[g.role].company
                         /\ \/ <<g.user, g.branch>> \in attached
                            \/ <<g.user, role[g.role].company>> \in torn
GrantsStand == \A g \in grants : GrantStands(g)

MembersOfCompanies == \A u \in Users, c \in Companies : member[u][c] # "NONE" => company[c] # "NONE"
RevokedAreOut == \A x \in revoked : member[x[1]][x[2]] \notin {"NONE", "ACTIVE"}
OneOwn == \A x, y \in primary : x[1] = y[1] => x = y

AccessInv == /\ TypeOK /\ CallsFit /\ MembersApart /\ MembersLeft /\ GrantsStand
             /\ MembersOfCompanies /\ RevokedAreOut /\ OneOwn

LEMMA AccessInvInit == Init => AccessInv
<1> SUFFICES ASSUME Init PROVE AccessInv
  OBVIOUS
<1> USE AccessAssumption DEF Init
<1> DEFINE first == [company |-> Start, active |-> TRUE, permissions |-> Permissions]
           second == [company |-> Start, active |-> TRUE, permissions |-> SecondPermissions]
<1>1. first \in RoleRows /\ second \in RoleRows
  BY DEF RoleRows, Permissions
<1>2. role[OwnerRole] = first /\ role[SecondRole] = second
  OBVIOUS
<1>3. PICK R \in SUBSET {SecondRole} :
        /\ R # {} => attached # {}
        /\ grants = {[user |-> Owner, role |-> OwnerRole, branch |-> Whole]}
                      \cup [user : {Worker}, role : R, branch : {MainBranch}]
  OBVIOUS
<1>4. TypeOK
  <2>1. grants \subseteq Grants
    BY <1>3 DEF Grants
  <2>2. role \in [Roles -> RoleRows \cup {None}]
    BY <1>1
  <2>3. attached \subseteq Users \X Branches
    OBVIOUS
  <2>4. member \in [Users -> [Companies -> Statuses \cup {"NONE"}]]
    BY DEF Statuses
  <2>5. /\ company \in [Companies -> {"NONE", "ACTIVE", "INACTIVE"}]
        /\ branchOf \in [Branches -> Companies \cup {None}]
        /\ call \in [Calls -> Requests \cup {None}]
        /\ writes \in 0..MaxWrites
    OBVIOUS
  <2>6. primary \subseteq Users \X Companies /\ revoked = {} /\ torn = {}
    OBVIOUS
  <2> QED
    BY <2>1, <2>2, <2>3, <2>4, <2>5, <2>6 DEF TypeOK
<1>5. CallsFit /\ MembersApart /\ MembersLeft /\ RevokedAreOut /\ OneOwn
  BY DEF CallsFit, Open, RevokedAreOut, OneOwn, MembersApart, MembersLeft, OfMember
<1>6. GrantsStand
  <2> SUFFICES ASSUME NEW g \in grants PROVE GrantStands(g)
    BY DEF GrantsStand
  <2>1. CASE g = [user |-> Owner, role |-> OwnerRole, branch |-> Whole]
    BY <1>1, <1>2, <2>1 DEF GrantStands
  <2>2. CASE g \in [user : {Worker}, role : R, branch : {MainBranch}]
    <3>1. g.user = Worker /\ g.role = SecondRole /\ g.branch = MainBranch /\ R # {}
      BY <2>2
    <3>2. <<Worker, MainBranch>> \in attached
      BY <1>3, <3>1
    <3> QED
      BY <1>1, <1>2, <3>1, <3>2 DEF GrantStands
  <2> QED
    BY <1>3, <2>1, <2>2
<1>7. MembersOfCompanies
  BY DEF MembersOfCompanies
<1> QED
  BY <1>4, <1>5, <1>6, <1>7 DEF AccessInv

------------------------------------------------------------------------------
(* What an open request turns into while others write: the same, or told   *)
(* that it is not alone.                                                   *)
Alike(x, y) == y = x \/ y = [x EXCEPT !.alone = FALSE]

LEMMA AlikeMember ==
  ASSUME NEW x \in MemberRequests, NEW y, Alike(x, y)
  PROVE  /\ y \in MemberRequests /\ x.on \in {"user", "revoke", "state"}
         /\ y.by = x.by /\ y.on = x.on /\ y.user = x.user /\ y.company = x.company
         /\ y.status = x.status /\ y.branches = x.branches /\ y.roles = x.roles /\ y.at = x.at
         /\ y.gone = x.gone /\ y.lost = x.lost /\ y.rows = x.rows
  BY DEF Alike, MemberRequests

LEMMA AlikeRole ==
  ASSUME NEW x \in RoleRequests, NEW y, Alike(x, y)
  PROVE  /\ y \in RoleRequests /\ x.on = "role"
         /\ y.by = x.by /\ y.on = x.on /\ y.role = x.role /\ y.company = x.company
         /\ y.active = x.active /\ y.permissions = x.permissions
  BY DEF Alike, RoleRequests

LEMMA AlikeBranch ==
  ASSUME NEW x \in BranchRequests, NEW y, Alike(x, y)
  PROVE  /\ y \in BranchRequests /\ x.on = "branch"
         /\ y.by = x.by /\ y.on = x.on /\ y.branch = x.branch /\ y.company = x.company /\ y.at = x.at
  BY DEF Alike, BranchRequests

(* Which kind a request is.                                                *)
LEMMA Kinds ==
  ASSUME NEW x \in Requests
  PROVE  /\ x \in MemberRequests <=> x.on \in {"user", "revoke", "state"}
         /\ x \in RoleRequests <=> x.on = "role"
         /\ x \in BranchRequests <=> x.on = "branch"
  BY DEF Requests, MemberRequests, RoleRequests, BranchRequests

LEMMA AlikeKinds ==
  ASSUME NEW x \in Requests, NEW y, Alike(x, y)
  PROVE  /\ y \in Requests
         /\ x \in MemberRequests <=> y \in MemberRequests
         /\ x \in RoleRequests <=> y \in RoleRequests
         /\ x \in BranchRequests <=> y \in BranchRequests
<1>1. x \in MemberRequests \/ x \in RoleRequests \/ x \in BranchRequests
  BY DEF Requests
<1>2. CASE x \in MemberRequests
  BY <1>2, AlikeMember, Kinds DEF Requests
<1>3. CASE x \in RoleRequests
  BY <1>3, AlikeRole, Kinds DEF Requests
<1>4. CASE x \in BranchRequests
  BY <1>4, AlikeBranch, Kinds DEF Requests
<1> QED
  BY <1>1, <1>2, <1>3, <1>4

Carries(P) == \A q \in Calls \ P : call'[q] # None => Open(q) /\ Alike(call[q], call'[q])

LEMMA OverlappedCarries ==
  ASSUME TypeOK, NEW p
  PROVE  /\ Overlapped(p) \in [Calls -> Requests \cup {None}]
         /\ \A q \in Calls : Overlapped(p)[q] # None =>
              /\ q # p /\ Open(q) /\ Alike(call[q], Overlapped(p)[q])
              /\ Overlapped(p)[q].alone = FALSE
<1>1. ASSUME NEW q \in Calls, Open(q)
      PROVE  /\ [call[q] EXCEPT !.alone = FALSE] \in Requests
             /\ [call[q] EXCEPT !.alone = FALSE].alone = FALSE
  <2>1. call[q] \in Requests
    BY <1>1 DEF TypeOK, Open
  <2>2. [call[q] EXCEPT !.alone = FALSE] \in Requests
    BY <2>1, AlikeKinds DEF Alike
  <2>3. [call[q] EXCEPT !.alone = FALSE].alone = FALSE
    BY <2>1 DEF Requests, MemberRequests, RoleRequests, BranchRequests
  <2> QED
    BY <2>2, <2>3
<1> QED
  BY <1>1 DEF Overlapped, Alike

(* Open requests go on being about rows of their company.                  *)
LEMMA StillFits ==
  ASSUME AccessInv, Grows, NEW x \in Requests, RequestFits(x), NEW y, Alike(x, y)
  PROVE  RequestFits(y)'
<1>1. \A c \in Companies : BranchesOf(c) \subseteq BranchesOf(c)' /\ RolesOf(c) \subseteq RolesOf(c)'
  BY AccessAssumption DEF Grows, BranchesOf, RolesOf
<1>2. CASE x \in MemberRequests
  <2>1. MemberFits(x) /\ x.company \in Companies /\ x.user \in Users
    BY <1>2 DEF RequestFits, MemberRequests
  <2>2. MemberFits(x)'
    <3>1. /\ BranchesOf(x.company) \subseteq BranchesOf(x.company)'
          /\ RolesOf(x.company) \subseteq RolesOf(x.company)'
      BY <1>1, <2>1
    <3>2. /\ company'[x.company] # "NONE"
          /\ x.status = Keep => x.on = "user" /\ member'[x.user][x.company] # "NONE"
      BY <2>1 DEF MemberFits, Grows
    <3> QED
      BY <2>1, <3>1, <3>2 DEF MemberFits
  <2>3. MemberFits(y)'
    BY <1>2, <2>2, AlikeMember DEF MemberFits
  <2>4. y \in MemberRequests /\ y \notin RoleRequests /\ y \notin BranchRequests
    BY <1>2, AlikeKinds, Kinds
  <2> QED
    BY <2>3, <2>4 DEF RequestFits
<1>3. CASE x \in RoleRequests
  <2>1. y.role \in RolesOf(y.company)'
    BY <1>1, <1>3, AlikeRole DEF RequestFits, RoleRequests
  <2>2. y \notin MemberRequests /\ y \notin BranchRequests
    BY <1>3, AlikeKinds, Kinds
  <2> QED
    BY <2>1, <2>2 DEF RequestFits
<1>4. CASE x \in BranchRequests
  <2>1. y.branch \in BranchesOf(y.company)'
    BY <1>1, <1>4, AlikeBranch DEF RequestFits, BranchRequests
  <2>2. y \notin MemberRequests /\ y \notin RoleRequests
    BY <1>4, AlikeKinds, Kinds
  <2> QED
    BY <2>1, <2>2 DEF RequestFits
<1> QED
  BY <1>2, <1>3, <1>4 DEF Requests

(* The request p, and one that carries on, about the same membership.      *)
LEMMA OfMemberFacts ==
  ASSUME TypeOK, NEW p \in Calls, NEW u, NEW c, OfMember(p, u, c)
  PROVE  /\ call[p] \in MemberRequests /\ call[p].user = u /\ call[p].company = c
         /\ u \in Users /\ c \in Companies
<1>1. call[p] \in Requests /\ call[p].on \in {"user", "revoke", "state"}
  BY DEF TypeOK, OfMember, Open
<1>2. call[p] \in MemberRequests
  BY <1>1, Kinds
<1> QED
  BY <1>2 DEF OfMember, MemberRequests

LEMMA CarriedMember ==
  ASSUME TypeOK, NEW P, Carries(P), NEW q \in Calls \ P, NEW u, NEW c, OfMember(q, u, c)'
  PROVE  /\ OfMember(q, u, c) /\ Alike(call[q], call'[q]) /\ call[q] \in MemberRequests
         /\ call'[q].gone = call[q].gone /\ Inserts(call'[q]) = Inserts(call[q])
<1>1. /\ call'[q] # None /\ call'[q].on \in {"user", "revoke", "state"}
      /\ call'[q].user = u /\ call'[q].company = c
  BY DEF OfMember, Open
<1>2. Open(q) /\ Alike(call[q], call'[q])
  BY <1>1 DEF Carries
<1>3. call[q] \in Requests
  BY <1>2 DEF TypeOK, Open
<1>4. call'[q] \in MemberRequests
  BY <1>1, <1>2, <1>3, AlikeKinds, Kinds
<1>5. call[q] \in MemberRequests
  BY <1>2, <1>3, <1>4, AlikeKinds
<1> QED
  BY <1>1, <1>2, <1>5, AlikeMember DEF OfMember, Inserts

LEMMA CallsCarryOn ==
  ASSUME AccessInv, Grows, NEW P \in SUBSET Calls, Carries(P),
         \A p \in P : /\ Open(p)' => RequestFits(call[p])'
                      /\ \A q \in Calls \ {p} : \A u \in Users, c \in Companies :
                           OfMember(p, u, c)' /\ OfMember(q, u, c)' => Apart(call[p], call[q])'
  PROVE  CallsFit' /\ MembersApart'
<1>1. CallsFit'
  <2> SUFFICES ASSUME NEW q \in Calls, Open(q)' PROVE RequestFits(call[q])'
    BY DEF CallsFit
  <2>1. CASE q \in P
    BY <2>1
  <2>2. CASE q \notin P
    <3>1. Open(q) /\ Alike(call[q], call'[q])
      BY <2>2 DEF Carries, Open
    <3>2. call[q] \in Requests /\ RequestFits(call[q])
      BY <3>1 DEF AccessInv, TypeOK, CallsFit, Open
    <3>3. PICK x \in Requests : x = call[q]
      BY <3>2
    <3>4. PICK y : y = call'[q]
      OBVIOUS
    <3>5. RequestFits(x) /\ Alike(x, y)
      BY <3>1, <3>2, <3>3, <3>4
    <3>6. RequestFits(y)'
      BY <3>3, <3>5, StillFits
    <3> QED
      BY <3>4, <3>6 DEF RequestFits, MemberFits
  <2> QED
    BY <2>1, <2>2
<1>2. MembersApart'
  <2> SUFFICES ASSUME NEW p \in Calls, NEW q \in Calls, NEW u \in Users, NEW c \in Companies,
                      p # q, OfMember(p, u, c)', OfMember(q, u, c)'
               PROVE  Apart(call[p], call[q])'
    BY DEF MembersApart
  <2>1. CASE p \in P
    BY <2>1
  <2>2. CASE q \in P
    <3>1. Apart(call[q], call[p])'
      BY <2>2
    <3> QED
      BY <3>1 DEF Apart
  <2>3. CASE p \notin P /\ q \notin P
    <3>1. TypeOK
      BY DEF AccessInv
    <3>2. /\ OfMember(p, u, c) /\ call'[p].gone = call[p].gone /\ Inserts(call'[p]) = Inserts(call[p])
      BY <2>3, <3>1, CarriedMember
    <3>3. /\ OfMember(q, u, c) /\ call'[q].gone = call[q].gone /\ Inserts(call'[q]) = Inserts(call[q])
      BY <2>3, <3>1, CarriedMember
    <3>4. Apart(call[p], call[q])
      BY <3>2, <3>3 DEF AccessInv, MembersApart
    <3>5. Apart(call[p], call[q])' <=> Apart(call'[p], call'[q])
      BY DEF Apart, Inserts
    <3> QED
      BY <3>2, <3>3, <3>4, <3>5 DEF Apart
  <2> QED
    BY <2>1, <2>2, <2>3
<1> QED
  BY <1>1, <1>2

(* The assignments of a membership of a company that there is stay as they *)
(* are.                                                                    *)
GrantsKept ==
  \A u \in Users, c \in Companies : company[c] # "NONE" => GrantsOf(u, c)' = GrantsOf(u, c)

LEMMA SameGrantsKept ==
  ASSUME AccessInv, Grows, grants' = grants
  PROVE  GrantsKept
<1> SUFFICES ASSUME NEW c \in Companies, NEW g \in grants
             PROVE  g.role \in RolesOf(c)' <=> g.role \in RolesOf(c)
  BY DEF GrantsKept, GrantsOf
<1>1. g.role \in Roles /\ role[g.role] # None
  BY DEF AccessInv, TypeOK, Grants, GrantsStand, GrantStands
<1> QED
  BY <1>1 DEF Grows, RolesOf

LEMMA MembersStillLeft ==
  ASSUME AccessInv, NEW P \in SUBSET Calls, Carries(P), torn \subseteq torn', GrantsKept,
         \A p \in P : \A u \in Users, c \in Companies : OfMember(p, u, c)' => Leaves(call[p])'
  PROVE  MembersLeft'
<1> SUFFICES ASSUME NEW q \in Calls \ P, NEW u \in Users, NEW c \in Companies, OfMember(q, u, c)'
             PROVE  Leaves(call[q])'
  BY DEF MembersLeft
<1>1. TypeOK
  BY DEF AccessInv
<1>2. OfMember(q, u, c) /\ Alike(call[q], call'[q]) /\ call[q] \in MemberRequests
  BY <1>1, CarriedMember
<1>3. Leaves(call[q]) /\ call[q].user = u /\ call[q].company = c
  BY <1>2 DEF AccessInv, MembersLeft, OfMember
<1>4. company[c] # "NONE"
  BY <1>2, <1>3 DEF AccessInv, CallsFit, RequestFits, MemberFits, OfMember
<1>5. GrantsOf(u, c)' = GrantsOf(u, c)
  BY <1>4 DEF GrantsKept
<1>6. /\ call'[q].on = call[q].on /\ call'[q].at = call[q].at /\ call'[q].user = u
      /\ call'[q].company = c /\ call'[q].lost = call[q].lost /\ call'[q].gone = call[q].gone
  BY <1>2, <1>3, AlikeMember
<1>7. GrantsOf(call[q].user, call[q].company)' = GrantsOf(u, c)
  BY <1>5, <1>6 DEF GrantsOf, RolesOf
<1>8. Leaves(call[q])' <=>
        \/ <<u, c>> \in torn'
        \/ /\ call[q].on = "revoke" /\ call[q].at = "half" => GrantsOf(u, c) \subseteq call[q].lost
           /\ call[q].at = "ready" => \A g \in GrantsOf(u, c) \ call[q].lost : g.branch \notin call[q].gone
  BY <1>6, <1>7 DEF Leaves
<1> QED
  BY <1>3, <1>8 DEF Leaves

LEMMA AccessInvStep ==
  ASSUME CallsFit', MembersApart', MembersLeft', TypeOK', GrantsStand', MembersOfCompanies',
         RevokedAreOut', OneOwn'
  PROVE  AccessInv'
  BY DEF AccessInv

(* Assignments stand while there are no more of them and no fewer branches *)
(* of memberships.                                                         *)
LEMMA OldGrantsStand ==
  ASSUME AccessInv, Grows, grants' \subseteq grants, attached \subseteq attached', torn \subseteq torn'
  PROVE  GrantsStand'
<1> SUFFICES ASSUME NEW g \in grants PROVE GrantStands(g)'
  BY DEF GrantsStand
<1>1. GrantStands(g) /\ g.role \in Roles /\ (g.branch # Whole => g.branch \in Branches)
  BY DEF AccessInv, GrantsStand, TypeOK, Grants
<1>2. role[g.role] # None /\ role[g.role].company \in Companies
  BY <1>1 DEF GrantStands, AccessInv, TypeOK, RoleRows
<1>3. g.branch # Whole => branchOf[g.branch] # None
  BY <1>1, <1>2, AccessAssumption DEF GrantStands
<1> QED
  BY <1>1, <1>2, <1>3 DEF GrantStands, Grows

(* Steps that leave members alone.                                         *)
LEMMA QuietFacts ==
  ASSUME AccessInv, UNCHANGED <<company, member, revoked>>
  PROVE  MembersOfCompanies' /\ RevokedAreOut'
  BY DEF AccessInv, MembersOfCompanies, RevokedAreOut

(* A request is made, or goes on, and nothing else changes.                *)
LEMMA BecomesStep ==
  ASSUME AccessInv, NEW p \in Calls, NEW x \in Requests, Becomes(p, x), RequestFits(x),
         x \in MemberRequests =>
           Leaves(x) /\ \A y \in Rivals(p, x.user, x.company) : Apart(x, y)
  PROVE  AccessInv'
<1>1. /\ call' = [call EXCEPT ![p] = x]
      /\ UNCHANGED <<company, member, primary, branchOf, attached, role, grants, revoked, torn, writes>>
  BY DEF Becomes
<1>2. Grows /\ OneOwn' /\ TypeOK'
  BY <1>1 DEF Grows, AccessInv, OneOwn, TypeOK
<1>3. call'[p] = x /\ \A q \in Calls \ {p} : call'[q] = call[q]
  BY <1>1 DEF AccessInv, TypeOK
<1>4. Carries({p})
  BY <1>3 DEF Carries, Alike, Open
<1>5. RequestFits(call[p])'
  BY <1>1, <1>3 DEF RequestFits, MemberFits, BranchesOf, RolesOf
<1>6. ASSUME NEW u \in Users, NEW c \in Companies, OfMember(p, u, c)'
      PROVE  x \in MemberRequests /\ x.user = u /\ x.company = c
  <2>1. x.on \in {"user", "revoke", "state"} /\ x.user = u /\ x.company = c
    BY <1>3, <1>6 DEF OfMember
  <2> QED
    BY <2>1, Kinds
<1>7. ASSUME NEW u \in Users, NEW c \in Companies, OfMember(p, u, c)'
      PROVE  Leaves(call[p])'
  <2>1. Leaves(x)
    BY <1>6, <1>7
  <2>2. Leaves(x)'
    BY <1>1, <2>1 DEF Leaves, GrantsOf, RolesOf
  <2> QED
    BY <1>3, <2>2 DEF Leaves, GrantsOf, RolesOf
<1>8. ASSUME NEW q \in Calls \ {p}, NEW u \in Users, NEW c \in Companies,
             OfMember(p, u, c)', OfMember(q, u, c)'
      PROVE  Apart(call[p], call[q])'
  <2>1. x \in MemberRequests /\ x.user = u /\ x.company = c
    BY <1>6, <1>8
  <2>2. OfMember(q, u, c)
    BY <1>3, <1>8 DEF OfMember, Open
  <2>3. call[q] \in Rivals(p, u, c)
    BY <2>2 DEF Rivals
  <2>4. Apart(x, call[q])
    BY <2>1, <2>3
  <2>5. Apart(call[p], call[q])' <=> Apart(call'[p], call'[q])
    BY DEF Apart, Inserts
  <2> QED
    BY <1>3, <2>4, <2>5
<1>9. CallsFit' /\ MembersApart'
  BY <1>2, <1>4, <1>5, <1>8, CallsCarryOn
<1>10. MembersLeft'
  <2>1. GrantsKept
    BY <1>1, <1>2, SameGrantsKept
  <2> QED
    BY <1>1, <1>4, <1>7, <2>1, MembersStillLeft
<1>11. GrantsStand'
  BY <1>1, <1>2, OldGrantsStand
<1> QED
  BY <1>1, <1>2, <1>9, <1>10, <1>11, QuietFacts, AccessInvStep

LEMMA AccessInvAsking == AccessInv /\ Asking => AccessInv'
<1> SUFFICES ASSUME AccessInv, Asking PROVE AccessInv'
  OBVIOUS
<1>1. PICK p \in Calls, c \in Companies, by \in Users \cup {None} :
        \/ \E on \in {"user", "revoke", "state"}, u \in Users, status \in Statuses \cup {Keep} :
             \E B \in SUBSET BranchesOf(c), R \in SUBSET RolesOf(c) :
               AsksMember(p, by, on, u, c, status, B, R)
        \/ \E r \in RolesOf(c), active \in BOOLEAN, permissions \in SUBSET Permissions :
             AsksRole(p, by, r, c, active, permissions)
  BY DEF Asking
<1>2. ASSUME NEW on \in {"user", "revoke", "state"}, NEW u \in Users, NEW status \in Statuses \cup {Keep},
             NEW B \in SUBSET BranchesOf(c), NEW R \in SUBSET RolesOf(c),
             AsksMember(p, by, on, u, c, status, B, R)
      PROVE  AccessInv'
  <2> DEFINE q == MemberRequest(by, on, u, c, status, B, R)
  <2>1. member[u][c] \in Statuses \cup {"NONE"}
    BY DEF AccessInv, TypeOK
  <2>2. B \subseteq Branches /\ R \subseteq Roles
    BY DEF BranchesOf, RolesOf
  <2>3. q \in MemberRequests
    BY <2>1, <2>2 DEF MemberRequest, MemberRequests
  <2>4. /\ q.user = u /\ q.company = c /\ q.at = "decided" /\ q.gone = {} /\ q.lost = {} /\ q.rows = {}
        /\ q.on = on /\ q.status = status /\ q.branches = B /\ q.roles = R
    BY DEF MemberRequest
  <2>5. company[c] # "NONE"
    BY <1>2 DEF AsksMember, AccessInv, MembersOfCompanies
  <2>6. MemberFits(q)
    BY <1>2, <2>4, <2>5 DEF MemberFits, AsksMember
  <2>7. RequestFits(q)
    BY <2>3, <2>4, <2>6, Kinds DEF RequestFits, Requests
  <2>8. Leaves(q)
    BY <2>4 DEF Leaves
  <2>9. ASSUME NEW y \in Rivals(p, u, c) PROVE Apart(q, y)
    <3>1. Inserts(q) = {}
      BY <2>4 DEF Inserts
    <3> QED
      BY <2>4, <3>1 DEF Apart
  <2>10. Becomes(p, q)
    BY <1>2 DEF AsksMember
  <2> HIDE DEF q
  <2> QED
    BY <2>3, <2>4, <2>7, <2>8, <2>9, <2>10, BecomesStep DEF Requests
<1>3. ASSUME NEW r \in RolesOf(c), NEW active \in BOOLEAN, NEW permissions \in SUBSET Permissions,
             AsksRole(p, by, r, c, active, permissions)
      PROVE  AccessInv'
  <2> DEFINE q == RoleRequest(by, r, c, active, permissions)
  <2>1. q \in RoleRequests /\ q.on = "role" /\ q.role \in RolesOf(q.company)
    BY DEF RoleRequest, RoleRequests, RolesOf
  <2>2. Becomes(p, q)
    BY <1>3 DEF AsksRole
  <2> HIDE DEF q
  <2>3. q \in Requests /\ q \notin MemberRequests /\ RequestFits(q)
    BY <2>1, Kinds DEF RequestFits, Requests
  <2> QED
    BY <2>2, <2>3, BecomesStep
<1> QED
  BY <1>1, <1>2, <1>3

(* A transaction on a membership, and its rivals.                          *)
LEMMA MoverFacts ==
  ASSUME AccessInv, NEW p \in Calls, Open(p), call[p].on \in {"user", "revoke", "state"}
  PROVE  /\ call[p] \in MemberRequests /\ MemberFits(call[p]) /\ Leaves(call[p])
         /\ call[p].user \in Users /\ call[p].company \in Companies
         /\ \A y \in Rivals(p, call[p].user, call[p].company) : Apart(call[p], y)
<1>1. call[p] \in Requests
  BY DEF AccessInv, TypeOK, Open
<1>2. call[p] \in MemberRequests
  BY <1>1, Kinds
<1>3. call[p].user \in Users /\ call[p].company \in Companies
  BY <1>2 DEF MemberRequests
<1>4. OfMember(p, call[p].user, call[p].company)
  BY DEF OfMember
<1>5. MemberFits(call[p]) /\ Leaves(call[p])
  BY <1>2, <1>3, <1>4 DEF AccessInv, CallsFit, RequestFits, MembersLeft
<1>6. ASSUME NEW y \in Rivals(p, call[p].user, call[p].company) PROVE Apart(call[p], y)
  <2>1. PICK z \in Calls \ {p} : OfMember(z, call[p].user, call[p].company) /\ y = call[z]
    BY DEF Rivals
  <2> QED
    BY <1>3, <1>4, <2>1 DEF AccessInv, MembersApart
<1> QED
  BY <1>2, <1>3, <1>5, <1>6

(* The access that a request asks for is made of rows of its company.      *)
LEMMA ReplacementFacts ==
  ASSUME NEW u \in Users, NEW c \in Companies, NEW B \in SUBSET BranchesOf(c),
         NEW R \in SUBSET RolesOf(c)
  PROVE  /\ Replacement(u, B, R) \subseteq Grants
         /\ \A g \in Replacement(u, B, R) : /\ g.user = u /\ g.role \in R
                                            /\ g.branch # Whole => g.branch \in B
<1>1. B \subseteq Branches /\ R \subseteq Roles
  BY DEF BranchesOf, RolesOf
<1> QED
  BY <1>1 DEF Replacement, Grants

LEMMA AccessInvBeginsUser == \A p \in Calls : AccessInv /\ BeginsUser(p) => AccessInv'
<1> SUFFICES ASSUME NEW p \in Calls, AccessInv, BeginsUser(p) PROVE AccessInv'
  OBVIOUS
<1> DEFINE gone == AttachedTo(call[p].user, call[p].company)
           rows == Replacement(call[p].user, call[p].branches, call[p].roles)
           x == [call[p] EXCEPT !.at = "half", !.gone = gone, !.rows = rows]
<1>1. /\ Open(p) /\ call[p].on = "user" /\ call[p].at = "decided"
      /\ MayDeleteBranches(Rivals(p, call[p].user, call[p].company))
      /\ Becomes(p, x)
  BY DEF BeginsUser
<1>2. /\ call[p] \in MemberRequests /\ MemberFits(call[p])
      /\ call[p].user \in Users /\ call[p].company \in Companies
  BY <1>1, MoverFacts
<1>3. gone \subseteq BranchesOf(call[p].company) /\ gone \subseteq Branches
  BY DEF AttachedTo, BranchesOf
<1>4. /\ rows \subseteq Grants
      /\ \A g \in rows : /\ g.user = call[p].user /\ g.role \in call[p].roles
                         /\ g.branch # Whole => g.branch \in call[p].branches
  BY <1>2, ReplacementFacts DEF MemberFits
<1> HIDE DEF gone, rows
<1>5. /\ x \in MemberRequests /\ x.on = "user" /\ x.at = "half" /\ x.gone = gone /\ x.rows = rows
      /\ x.user = call[p].user /\ x.company = call[p].company /\ x.lost = call[p].lost
      /\ x.status = call[p].status /\ x.branches = call[p].branches /\ x.roles = call[p].roles
  BY <1>1, <1>2, <1>3, <1>4 DEF MemberRequests
<1> HIDE DEF x
<1>6. RequestFits(x)
  <2>1. MemberFits(x)
    BY <1>2, <1>3, <1>4, <1>5 DEF MemberFits
  <2> QED
    BY <1>5, <2>1, Kinds DEF RequestFits, Requests
<1>7. Leaves(x)
  BY <1>5 DEF Leaves
<1>8. ASSUME NEW y \in Rivals(p, x.user, x.company) PROVE Apart(x, y)
  BY <1>1, <1>5 DEF MayDeleteBranches, Apart, Inserts
<1> QED
  BY <1>1, <1>5, <1>6, <1>7, <1>8, BecomesStep DEF Requests

LEMMA AccessInvReplacesUser == \A p \in Calls : AccessInv /\ ReplacesUser(p) => AccessInv'
<1> SUFFICES ASSUME NEW p \in Calls, AccessInv, ReplacesUser(p) PROVE AccessInv'
  OBVIOUS
<1> DEFINE lost == GrantsOf(call[p].user, call[p].company)
           x == [call[p] EXCEPT !.at = "ready", !.lost = lost]
<1>1. /\ Open(p) /\ call[p].on = "user" /\ call[p].at = "half"
      /\ \A y \in Rivals(p, call[p].user, call[p].company) :
           call[p].branches \cap (y.gone \cup Inserts(y)) = {}
      /\ Becomes(p, x)
  BY DEF ReplacesUser, Deleted
<1>2. /\ call[p] \in MemberRequests /\ MemberFits(call[p])
      /\ call[p].user \in Users /\ call[p].company \in Companies
      /\ \A y \in Rivals(p, call[p].user, call[p].company) : Apart(call[p], y)
  BY <1>1, MoverFacts
<1>3. /\ lost \subseteq Grants
      /\ \A g \in lost : g.user = call[p].user /\ g.role \in RolesOf(call[p].company)
  BY DEF GrantsOf, AccessInv, TypeOK
<1>4. lost = GrantsOf(call[p].user, call[p].company)
  OBVIOUS
<1> HIDE DEF lost
<1>5. /\ x \in MemberRequests /\ x.on = "user" /\ x.at = "ready" /\ x.gone = call[p].gone
      /\ x.lost = lost /\ x.rows = call[p].rows
      /\ x.user = call[p].user /\ x.company = call[p].company
      /\ x.status = call[p].status /\ x.branches = call[p].branches /\ x.roles = call[p].roles
  BY <1>1, <1>2, <1>3 DEF MemberRequests
<1> HIDE DEF x
<1>6. RequestFits(x)
  <2>1. MemberFits(x)
    BY <1>2, <1>3, <1>5 DEF MemberFits
  <2> QED
    BY <1>5, <2>1, Kinds DEF RequestFits, Requests
<1>7. Leaves(x)
  BY <1>4, <1>5 DEF Leaves
<1>8. ASSUME NEW y \in Rivals(p, x.user, x.company) PROVE Apart(x, y)
  <2>1. /\ call[p].branches \cap (y.gone \cup Inserts(y)) = {}
        /\ call[p].gone \cap (y.gone \cup Inserts(y)) = {}
    BY <1>1, <1>2, <1>5 DEF Apart
  <2>2. Inserts(x) = call[p].branches
    BY <1>5 DEF Inserts
  <2> QED
    BY <1>5, <2>1, <2>2 DEF Apart
<1> QED
  BY <1>1, <1>5, <1>6, <1>7, <1>8, BecomesStep DEF Requests

LEMMA AccessInvBeginsRevoke == \A p \in Calls : AccessInv /\ BeginsRevoke(p) => AccessInv'
<1> SUFFICES ASSUME NEW p \in Calls, AccessInv, BeginsRevoke(p) PROVE AccessInv'
  OBVIOUS
<1> DEFINE lost == GrantsOf(call[p].user, call[p].company)
           x == [call[p] EXCEPT !.at = "half", !.lost = lost]
<1>1. /\ Open(p) /\ call[p].on = "revoke" /\ Becomes(p, x)
  BY DEF BeginsRevoke
<1>2. /\ call[p] \in MemberRequests /\ MemberFits(call[p])
      /\ call[p].user \in Users /\ call[p].company \in Companies
      /\ \A y \in Rivals(p, call[p].user, call[p].company) : Apart(call[p], y)
  BY <1>1, MoverFacts
<1>3. /\ lost \subseteq Grants
      /\ \A g \in lost : g.user = call[p].user /\ g.role \in RolesOf(call[p].company)
  BY DEF GrantsOf, AccessInv, TypeOK
<1>4. lost = GrantsOf(call[p].user, call[p].company)
  OBVIOUS
<1> HIDE DEF lost
<1>5. /\ x \in MemberRequests /\ x.on = "revoke" /\ x.at = "half" /\ x.gone = call[p].gone
      /\ x.lost = lost /\ x.rows = call[p].rows
      /\ x.user = call[p].user /\ x.company = call[p].company
      /\ x.status = call[p].status /\ x.branches = call[p].branches /\ x.roles = call[p].roles
  BY <1>1, <1>2, <1>3 DEF MemberRequests
<1> HIDE DEF x
<1>6. RequestFits(x)
  <2>1. MemberFits(x)
    BY <1>1, <1>2, <1>3, <1>5 DEF MemberFits
  <2> QED
    BY <1>5, <2>1, Kinds DEF RequestFits, Requests
<1>7. Leaves(x)
  BY <1>4, <1>5 DEF Leaves
<1>8. ASSUME NEW y \in Rivals(p, x.user, x.company) PROVE Apart(x, y)
  BY <1>1, <1>2, <1>5 DEF Apart, Inserts
<1> QED
  BY <1>1, <1>5, <1>6, <1>7, <1>8, BecomesStep DEF Requests

LEMMA AccessInvRevokesBranches == \A p \in Calls : AccessInv /\ RevokesBranches(p) => AccessInv'
<1> SUFFICES ASSUME NEW p \in Calls, AccessInv, RevokesBranches(p) PROVE AccessInv'
  OBVIOUS
<1> DEFINE gone == AttachedTo(call[p].user, call[p].company)
           x == [call[p] EXCEPT !.at = "ready", !.gone = gone]
<1>1. /\ Open(p) /\ call[p].on = "revoke" /\ call[p].at = "half"
      /\ MayDeleteBranches(Rivals(p, call[p].user, call[p].company))
      /\ Becomes(p, x)
  BY DEF RevokesBranches
<1>2. /\ call[p] \in MemberRequests /\ MemberFits(call[p]) /\ Leaves(call[p])
      /\ call[p].user \in Users /\ call[p].company \in Companies
  BY <1>1, MoverFacts
<1>3. gone \subseteq BranchesOf(call[p].company) /\ gone \subseteq Branches
  BY DEF AttachedTo, BranchesOf
<1> HIDE DEF gone
<1>4. /\ x \in MemberRequests /\ x.on = "revoke" /\ x.at = "ready" /\ x.gone = gone
      /\ x.lost = call[p].lost /\ x.rows = call[p].rows
      /\ x.user = call[p].user /\ x.company = call[p].company
      /\ x.status = call[p].status /\ x.branches = call[p].branches /\ x.roles = call[p].roles
  BY <1>1, <1>2, <1>3 DEF MemberRequests
<1> HIDE DEF x
<1>5. RequestFits(x)
  <2>1. MemberFits(x)
    BY <1>1, <1>2, <1>3, <1>4 DEF MemberFits
  <2> QED
    BY <1>4, <2>1, Kinds DEF RequestFits, Requests
<1>6. Leaves(x)
  BY <1>1, <1>2, <1>4 DEF Leaves
<1>7. ASSUME NEW y \in Rivals(p, x.user, x.company) PROVE Apart(x, y)
  BY <1>1, <1>4 DEF MayDeleteBranches, Apart, Inserts
<1> QED
  BY <1>1, <1>4, <1>5, <1>6, <1>7, BecomesStep DEF Requests

LEMMA AccessInvFindsCreator == \A p \in Calls : AccessInv /\ FindsCreator(p) => AccessInv'
<1> SUFFICES ASSUME NEW p \in Calls, AccessInv, FindsCreator(p) PROVE AccessInv'
  OBVIOUS
<1> DEFINE x == [call[p] EXCEPT !.at = "found"]
<1>1. Open(p) /\ call[p].on = "branch" /\ Becomes(p, x)
  BY DEF FindsCreator
<1>2. call[p] \in Requests /\ RequestFits(call[p])
  BY <1>1 DEF AccessInv, TypeOK, CallsFit, Open
<1>3. call[p] \in BranchRequests
  BY <1>1, <1>2, Kinds
<1>4. x \in BranchRequests /\ x.branch = call[p].branch /\ x.company = call[p].company /\ x.on = "branch"
  BY <1>1, <1>3 DEF BranchRequests
<1>5. x.branch \in BranchesOf(x.company)
  BY <1>2, <1>3, <1>4 DEF RequestFits
<1> HIDE DEF x
<1>6. x \in Requests /\ x \notin MemberRequests /\ RequestFits(x)
  BY <1>4, <1>5, Kinds DEF RequestFits, Requests
<1> QED
  BY <1>1, <1>6, BecomesStep

(* A request comes to nothing, or the creator is attached.                 *)
LEMMA AccessInvEnding == AccessInv /\ Ending => AccessInv'
<1> SUFFICES ASSUME AccessInv, NEW p \in Calls, AttachesCreator(p) \/ Fails(p) PROVE AccessInv'
  BY DEF Ending
<1>1. /\ call' = [call EXCEPT ![p] = None] /\ attached \subseteq attached'
      /\ UNCHANGED <<company, member, primary, branchOf, role, grants, revoked, torn, writes>>
  BY DEF AttachesCreator, Fails
<1>2. attached' \subseteq Users \X Branches
  <2>1. CASE Fails(p)
    BY <2>1 DEF Fails, AccessInv, TypeOK
  <2>2. CASE AttachesCreator(p)
    <3>1. call[p] \in Requests /\ call[p].on = "branch"
      BY <2>2 DEF AttachesCreator, AccessInv, TypeOK, Open
    <3>2. call[p].by \in Users /\ call[p].branch \in Branches
      BY <3>1, Kinds DEF BranchRequests
    <3> QED
      BY <2>2, <3>2 DEF AttachesCreator, AccessInv, TypeOK
  <2> QED
    BY <2>1, <2>2
<1>3. Grows /\ OneOwn' /\ TypeOK'
  BY <1>1, <1>2 DEF Grows, AccessInv, OneOwn, TypeOK
<1>4. Carries({})
  BY <1>1 DEF Carries, Alike, Open, AccessInv, TypeOK
<1>5. CallsFit' /\ MembersApart'
  BY <1>3, <1>4, CallsCarryOn
<1>6. MembersLeft'
  <2>1. GrantsKept
    BY <1>1, <1>3, SameGrantsKept
  <2> QED
    BY <1>1, <1>4, <2>1, MembersStillLeft
<1>7. GrantsStand'
  BY <1>1, <1>3, OldGrantsStand
<1> QED
  BY <1>1, <1>3, <1>5, <1>6, <1>7, QuietFacts, AccessInvStep

------------------------------------------------------------------------------
(* A step that counts stays within the bound and tells the open requests.  *)
LEMMA CountedFacts ==
  ASSUME TypeOK, Counted, NEW p, call' = Overlapped(p)
  PROVE  /\ writes' \in 0..MaxWrites
         /\ call' \in [Calls -> Requests \cup {None}]
         /\ Carries({})
<1>1. writes' \in 0..MaxWrites
  BY AccessAssumption DEF TypeOK, Counted
<1>2. /\ Overlapped(p) \in [Calls -> Requests \cup {None}]
      /\ \A q \in Calls : Overlapped(p)[q] # None => Open(q) /\ Alike(call[q], Overlapped(p)[q])
  BY OverlappedCarries
<1>3. Carries({})
  BY <1>2 DEF Carries
<1> QED
  BY <1>1, <1>2, <1>3

(* One membership gets a status, and is let in by name if that is ACTIVE.  *)
LEMMA MemberStep ==
  ASSUME AccessInv, NEW u \in Users, NEW c \in Companies, NEW new \in Statuses,
         company[c] # "NONE", member' = [member EXCEPT ![u][c] = new],
         UNCHANGED company,
         revoked' \in SUBSET (revoked \cup {<<u, c>>}),
         <<u, c>> \in revoked' => new # "ACTIVE"
  PROVE  /\ member' \in [Users -> [Companies -> Statuses \cup {"NONE"}]]
         /\ revoked' \subseteq Users \X Companies
         /\ MembersOfCompanies' /\ RevokedAreOut'
         /\ \A v \in Users, d \in Companies : member[v][d] # "NONE" => member'[v][d] # "NONE"
<1> USE DEF AccessInv
<1>1. /\ member'[u][c] = new
      /\ \A v \in Users, d \in Companies : v # u \/ d # c => member'[v][d] = member[v][d]
  BY DEF TypeOK
<1>2. member' \in [Users -> [Companies -> Statuses \cup {"NONE"}]]
  BY DEF TypeOK
<1>3. new # "NONE"
  BY DEF Statuses
<1>4. MembersOfCompanies'
  BY <1>1 DEF MembersOfCompanies
<1>5. RevokedAreOut'
  <2> SUFFICES ASSUME NEW x \in revoked' PROVE member'[x[1]][x[2]] \notin {"NONE", "ACTIVE"}
    BY DEF RevokedAreOut
  <2>1. PICK v \in Users, d \in Companies : x = <<v, d>>
    BY DEF TypeOK
  <2>2. CASE v = u /\ d = c
    BY <1>1, <1>3, <2>1, <2>2
  <2>3. CASE v # u \/ d # c
    BY <1>1, <2>1, <2>3 DEF RevokedAreOut
  <2> QED
    BY <2>2, <2>3
<1> QED
  BY <1>1, <1>2, <1>3, <1>4, <1>5 DEF TypeOK

(* The access of one membership is written anew.  What is left of the      *)
(* assignments is at branches that stay; what is added is at branches that *)
(* were inserted, and that no other transaction has deleted.               *)
Rewrites(p, R, B) ==
  LET q == call[p]  m == <<q.user, q.company>> IN
    /\ Open(p) /\ q.on \in {"user", "revoke"} /\ q.at = "ready"
    /\ B \subseteq BranchesOf(q.company) /\ B \subseteq Inserts(q)
    /\ \A g \in R : /\ g.user = q.user /\ g.role \in RolesOf(q.company)
                    /\ g.branch # Whole => g.branch \in B
    /\ grants' = (grants \ q.lost) \cup R
    /\ attached' = (attached \ ({q.user} \X q.gone)) \cup ({q.user} \X B)
    /\ torn \subseteq torn' \cup {m} /\ Mended(q) \subseteq torn'
    /\ R # {} /\ Tears(Rivals(p, q.user, q.company)) => m \in torn'
    /\ UNCHANGED <<role, branchOf>> /\ call' = Overlapped(p)

LEMMA RewritesFacts ==
  ASSUME AccessInv, NEW p \in Calls, NEW R, NEW B, Rewrites(p, R, B)
  PROVE  /\ OfMember(p, call[p].user, call[p].company)
         /\ call[p].user \in Users /\ call[p].company \in Companies
         /\ Leaves(call[p]) /\ MemberFits(call[p])
         /\ \A y \in Rivals(p, call[p].user, call[p].company) : Apart(call[p], y)
<1>1. Open(p) /\ call[p].on \in {"user", "revoke", "state"}
  BY DEF Rewrites
<1>2. OfMember(p, call[p].user, call[p].company)
  BY <1>1 DEF OfMember
<1> QED
  BY <1>1, <1>2, MoverFacts

LEMMA RewrittenGrants ==
  ASSUME AccessInv, NEW p \in Calls, NEW R, NEW B, Rewrites(p, R, B)
  PROVE  GrantsStand'
<1>0. PICK q, u, c : q = call[p] /\ u = q.user /\ c = q.company
  OBVIOUS
<1>f. /\ Leaves(q) /\ MemberFits(q) /\ q.at = "ready" /\ B \subseteq BranchesOf(c)
      /\ \A g \in R : /\ g.user = u /\ g.role \in RolesOf(c)
                      /\ g.branch # Whole => g.branch \in B
      /\ torn \subseteq torn' \cup {<<u, c>>} /\ Mended(q) \subseteq torn'
  BY <1>0, RewritesFacts DEF Rewrites
<1>g. /\ grants' = (grants \ q.lost) \cup R
      /\ attached' = (attached \ ({u} \X q.gone)) \cup ({u} \X B)
      /\ UNCHANGED <<role, branchOf>>
  BY <1>0 DEF Rewrites
<1> USE <1>0, <1>f, <1>g
<1>1. ASSUME NEW g \in R PROVE GrantStands(g)'
  <2>1. role[g.role] # None /\ role[g.role].company = c /\ g.user = u
    BY DEF RolesOf
  <2>2. g.branch # Whole => g.branch \in B /\ branchOf[g.branch] = c
    BY DEF BranchesOf
  <2>3. g.branch # Whole => <<u, g.branch>> \in attached'
    BY <2>2
  <2> QED
    BY <2>1, <2>2, <2>3 DEF GrantStands
<1>2. ASSUME NEW g \in grants, g \notin q.lost PROVE GrantStands(g)'
  <2>1. /\ GrantStands(g) /\ g.role \in Roles /\ g.user \in Users
        /\ g.branch # Whole => g.branch \in Branches
    BY DEF AccessInv, GrantsStand, TypeOK, Grants
  <2>2. role[g.role] # None
    BY <2>1 DEF GrantStands
  <2> SUFFICES ASSUME g.branch # Whole
               PROVE  \/ <<g.user, g.branch>> \in attached'
                      \/ <<g.user, role[g.role].company>> \in torn'
    BY <2>1, <2>2 DEF GrantStands
  <2>3. /\ branchOf[g.branch] = role[g.role].company
        /\ <<g.user, g.branch>> \in attached \/ <<g.user, role[g.role].company>> \in torn
    BY <2>1 DEF GrantStands
  <2>4. CASE g \in GrantsOf(u, c)
    <3>1. g.user = u /\ role[g.role].company = c
      BY <2>4 DEF GrantsOf, RolesOf
    <3>2. torn \subseteq torn'
      BY <1>2, <2>4 DEF Mended
    <3>3. <<u, c>> \in torn \/ g.branch \notin q.gone
      BY <1>2, <2>4 DEF Leaves
    <3> QED
      BY <2>3, <3>1, <3>2, <3>3
  <2>5. CASE g \notin GrantsOf(u, c)
    <3>1. g.user # u \/ role[g.role].company # c
      BY <2>1, <2>2, <2>5 DEF GrantsOf, RolesOf
    <3>2. g.user = u => g.branch \notin q.gone
      BY <2>3, <3>1 DEF MemberFits, BranchesOf
    <3> QED
      BY <2>3, <3>1, <3>2
  <2> QED
    BY <2>4, <2>5
<1> QED
  BY <1>1, <1>2 DEF GrantsStand

LEMMA RewrittenLeft ==
  ASSUME AccessInv, NEW p \in Calls, NEW R, NEW B, Rewrites(p, R, B)
  PROVE  MembersLeft'
<1>a. PICK q, u, c : q = call[p] /\ u = q.user /\ c = q.company
  OBVIOUS
<1>f. /\ OfMember(p, u, c) /\ u \in Users /\ c \in Companies
      /\ MemberFits(q) /\ \A y \in Rivals(p, u, c) : Apart(q, y)
      /\ B \subseteq BranchesOf(c) /\ B \subseteq Inserts(q)
      /\ \A g \in R : /\ g.user = u /\ g.role \in RolesOf(c)
                      /\ g.branch # Whole => g.branch \in B
      /\ grants' = (grants \ q.lost) \cup R
      /\ torn \subseteq torn' \cup {<<u, c>>} /\ Mended(q) \subseteq torn'
      /\ R # {} /\ Tears(Rivals(p, u, c)) => <<u, c>> \in torn'
      /\ UNCHANGED role /\ call' = Overlapped(p)
  BY <1>a, RewritesFacts DEF Rewrites
<1> USE <1>a, <1>f
<1>0. TypeOK
  BY DEF AccessInv
<1>1. \A v \in Users, d \in Companies : GrantsOf(v, d)' =
        IF v = u /\ d = c THEN (GrantsOf(u, c) \ q.lost) \cup R ELSE GrantsOf(v, d)
  <2> SUFFICES ASSUME NEW v \in Users, NEW d \in Companies, NEW g
               PROVE  g \in GrantsOf(v, d)' <=>
                        g \in IF v = u /\ d = c THEN (GrantsOf(u, c) \ q.lost) \cup R ELSE GrantsOf(v, d)
    OBVIOUS
  <2>1. g \in GrantsOf(v, d)' <=> /\ g \in grants \ q.lost \/ g \in R
                                  /\ g.user = v /\ g.role \in RolesOf(d)
    BY DEF GrantsOf, RolesOf
  <2>2. g \in GrantsOf(v, d) <=> g \in grants /\ g.user = v /\ g.role \in RolesOf(d)
    BY DEF GrantsOf
  <2>3. CASE v = u /\ d = c
    BY <2>1, <2>2, <2>3
  <2>4. CASE v # u \/ d # c
    <3>1. \A h \in q.lost \cup R : ~(h.user = v /\ h.role \in RolesOf(d))
      BY <1>0, <2>4 DEF MemberFits, RolesOf
    <3> QED
      BY <2>1, <2>2, <2>4, <3>1
  <2> QED
    BY <2>3, <2>4
<1> SUFFICES ASSUME NEW z \in Calls, NEW v \in Users, NEW d \in Companies, OfMember(z, v, d)'
             PROVE  Leaves(call[z])'
  BY DEF MembersLeft
<1>2. Carries({}) /\ z # p
  BY <1>0, OverlappedCarries DEF Carries, OfMember, Open
<1>3. /\ OfMember(z, v, d) /\ Alike(call[z], call'[z]) /\ call[z] \in MemberRequests
  BY <1>0, <1>2, CarriedMember
<1>4. Leaves(call[z]) /\ call[z].user = v /\ call[z].company = d
  BY <1>3 DEF AccessInv, MembersLeft, OfMember
<1>5. PICK y : y = call[z]
  OBVIOUS
<1>6. PICK G : G = GrantsOf(v, d)'
  OBVIOUS
<1>7. /\ call'[z].on = y.on /\ call'[z].at = y.at /\ call'[z].user = v
      /\ call'[z].company = d /\ call'[z].lost = y.lost /\ call'[z].gone = y.gone
  BY <1>3, <1>4, <1>5, AlikeMember
<1>8. Leaves(call[z])' <=>
        \/ <<v, d>> \in torn'
        \/ /\ y.on = "revoke" /\ y.at = "half" => G \subseteq y.lost
           /\ y.at = "ready" => \A g \in G \ y.lost : g.branch \notin y.gone
  <2>1. GrantsOf(call[z].user, call[z].company)' = G
    BY <1>6, <1>7 DEF GrantsOf, RolesOf
  <2> QED
    BY <1>7, <2>1 DEF Leaves
<1>9. \/ <<v, d>> \in torn
      \/ /\ y.on = "revoke" /\ y.at = "half" => GrantsOf(v, d) \subseteq y.lost
         /\ y.at = "ready" => \A g \in GrantsOf(v, d) \ y.lost : g.branch \notin y.gone
  BY <1>4, <1>5 DEF Leaves
<1>10. CASE v # u \/ d # c
  <2>1. G = GrantsOf(v, d)
    BY <1>1, <1>6, <1>10
  <2> QED
    BY <1>8, <1>9, <1>10, <2>1
<1>11. CASE v = u /\ d = c
  <2> SUFFICES ASSUME <<u, c>> \notin torn' PROVE Leaves(call[z])'
    BY <1>8, <1>11
  <2>1. G = (GrantsOf(u, c) \ q.lost) \cup R
    BY <1>1, <1>6, <1>11
  <2>2. y \in Rivals(p, u, c)
    BY <1>2, <1>3, <1>5, <1>11 DEF Rivals
  <2>3. y.gone \cap B = {} /\ Whole \notin y.gone
    <3>1. y.gone \subseteq Branches
      BY <1>3, <1>5 DEF MemberRequests
    <3> QED
      BY <1>0, <2>2, <3>1, AccessAssumption DEF Apart
  <2>4. \A g \in R : g.branch \notin y.gone
    BY <2>3
  <2>5. y.on = "revoke" /\ y.at = "half" => R = {}
    BY <2>2 DEF Tears
  <2>6. CASE <<u, c>> \in torn
    <3>1. GrantsOf(u, c) \subseteq q.lost
      BY <1>0, <2>6 DEF Mended
    <3>2. G = R
      BY <2>1, <3>1
    <3> QED
      BY <1>8, <2>4, <2>5, <3>2
  <2>7. CASE <<u, c>> \notin torn
    BY <1>8, <1>9, <1>11, <2>1, <2>4, <2>5, <2>7
  <2> QED
    BY <2>6, <2>7
<1> QED
  BY <1>10, <1>11

LEMMA AccessInvCommitsUser == \A p \in Calls : AccessInv /\ CommitsUser(p) => AccessInv'
<1> SUFFICES ASSUME NEW p \in Calls, AccessInv, CommitsUser(p) PROVE AccessInv'
  OBVIOUS
<1> USE DEF AccessInv
<1>1. PICK q : q = call[p]
  OBVIOUS
<1>2. PICK u, c : u = q.user /\ c = q.company
  OBVIOUS
<1>3. Open(p) /\ q.on = "user" /\ q.at = "ready" /\ OfMember(p, u, c)
  BY <1>1, <1>2 DEF CommitsUser, OfMember
<1>4. /\ q \in MemberRequests /\ MemberFits(q) /\ Leaves(q) /\ u \in Users /\ c \in Companies
  <2> HIDE DEF AccessInv
  <2> QED
    BY <1>1, <1>2, <1>3, MoverFacts
<1>5. /\ attached' = (attached \ ({u} \X q.gone)) \cup ({u} \X q.branches)
      /\ grants' = (grants \ q.lost) \cup q.rows
      /\ member' = [member EXCEPT ![u][c] = NewStatus(q)]
      /\ torn' = Mended(q) \cup IF Tears(Rivals(p, u, c)) THEN {<<u, c>>} ELSE {}
      /\ LetsIn(u, c, q.status)
      /\ Counted /\ call' = Overlapped(p)
      /\ UNCHANGED <<company, primary, branchOf, role>>
  BY <1>1, <1>2 DEF CommitsUser
<1>6. /\ q.branches \subseteq BranchesOf(c) /\ q.branches \subseteq Branches /\ q.branches \subseteq Inserts(q)
      /\ \A g \in q.rows : /\ g.user = u /\ g.role \in RolesOf(c)
                           /\ g.branch # Whole => g.branch \in q.branches
      /\ company[c] # "NONE" /\ q.rows \subseteq Grants /\ q.status \in Statuses \cup {Keep}
      /\ q.status = Keep => member[u][c] # "NONE"
  BY <1>2, <1>3, <1>4 DEF MemberFits, BranchesOf, Inserts, MemberRequests
<1>7. NewStatus(q) \in Statuses
  BY <1>2, <1>4, <1>6 DEF NewStatus, TypeOK
<1>8. /\ revoked' \in SUBSET (revoked \cup {<<u, c>>})
      /\ <<u, c>> \in revoked' => NewStatus(q) # "ACTIVE"
  <2>1. <<u, c>> \in revoked => member[u][c] # "ACTIVE"
    BY DEF RevokedAreOut
  <2> QED
    BY <1>2, <1>5, <2>1 DEF LetsIn, NewStatus
<1>9. /\ torn \subseteq torn' \cup {<<u, c>>} /\ Mended(q) \subseteq torn'
      /\ Tears(Rivals(p, u, c)) => <<u, c>> \in torn'
      /\ torn' \subseteq Users \X Companies
  BY <1>2, <1>4, <1>5 DEF Mended, TypeOK
<1>10. /\ member' \in [Users -> [Companies -> Statuses \cup {"NONE"}]]
       /\ revoked' \subseteq Users \X Companies
       /\ MembersOfCompanies' /\ RevokedAreOut'
       /\ \A v \in Users, d \in Companies : member[v][d] # "NONE" => member'[v][d] # "NONE"
  BY <1>4, <1>5, <1>6, <1>7, <1>8, MemberStep
<1>11. writes' \in 0..MaxWrites /\ call' \in [Calls -> Requests \cup {None}] /\ Carries({})
  BY <1>5, CountedFacts
<1>12. TypeOK'
  <2>1. grants' \subseteq Grants /\ attached' \subseteq Users \X Branches
    BY <1>4, <1>5, <1>6 DEF TypeOK
  <2> QED
    BY <1>5, <1>9, <1>10, <1>11, <2>1 DEF TypeOK
<1>13. Grows /\ OneOwn'
  BY <1>5, <1>10 DEF Grows, OneOwn
<1> HIDE DEF AccessInv
<1>14. Rewrites(p, q.rows, q.branches)
  BY <1>1, <1>2, <1>3, <1>5, <1>6, <1>9 DEF Rewrites
<1>15. CallsFit' /\ MembersApart'
  BY <1>11, <1>13, CallsCarryOn
<1> QED
  BY <1>10, <1>12, <1>13, <1>14, <1>15, RewrittenGrants, RewrittenLeft, AccessInvStep

LEMMA AccessInvCommitsRevoke == \A p \in Calls : AccessInv /\ CommitsRevoke(p) => AccessInv'
<1> SUFFICES ASSUME NEW p \in Calls, AccessInv, CommitsRevoke(p) PROVE AccessInv'
  OBVIOUS
<1> USE DEF AccessInv
<1>1. PICK q : q = call[p]
  OBVIOUS
<1>2. PICK u, c : u = q.user /\ c = q.company
  OBVIOUS
<1>3. Open(p) /\ q.on = "revoke" /\ q.at = "ready" /\ OfMember(p, u, c)
  BY <1>1, <1>2 DEF CommitsRevoke, OfMember
<1>4. /\ q \in MemberRequests /\ MemberFits(q) /\ Leaves(q) /\ u \in Users /\ c \in Companies
  <2> HIDE DEF AccessInv
  <2> QED
    BY <1>1, <1>2, <1>3, MoverFacts
<1>5. /\ attached' = (attached \ ({u} \X q.gone)) \cup ({u} \X {})
      /\ grants' = (grants \ q.lost) \cup {}
      /\ member' = [member EXCEPT ![u][c] = "LEFT"]
      /\ torn' = Mended(q)
      /\ revoked' = revoked \cup {<<u, c>>}
      /\ Counted /\ call' = Overlapped(p)
      /\ UNCHANGED <<company, primary, branchOf, role>>
  BY <1>1, <1>2 DEF CommitsRevoke
<1>6. company[c] # "NONE"
  BY <1>2, <1>4 DEF MemberFits
<1>7. torn \subseteq torn' \cup {<<u, c>>} /\ Mended(q) \subseteq torn' /\ torn' \subseteq Users \X Companies
  BY <1>2, <1>4, <1>5 DEF Mended, TypeOK
<1>8. /\ member' \in [Users -> [Companies -> Statuses \cup {"NONE"}]]
      /\ revoked' \subseteq Users \X Companies
      /\ MembersOfCompanies' /\ RevokedAreOut'
      /\ \A v \in Users, d \in Companies : member[v][d] # "NONE" => member'[v][d] # "NONE"
  BY <1>4, <1>5, <1>6, MemberStep DEF Statuses
<1>9. writes' \in 0..MaxWrites /\ call' \in [Calls -> Requests \cup {None}] /\ Carries({})
  BY <1>5, CountedFacts
<1>10. TypeOK'
  <2>1. grants' \subseteq Grants /\ attached' \subseteq Users \X Branches
    BY <1>5 DEF TypeOK
  <2> QED
    BY <1>5, <1>7, <1>8, <1>9, <2>1 DEF TypeOK
<1>11. Grows /\ OneOwn'
  BY <1>5, <1>8 DEF Grows, OneOwn
<1> HIDE DEF AccessInv
<1>12. Rewrites(p, {}, {})
  BY <1>1, <1>2, <1>3, <1>5, <1>7 DEF Rewrites
<1>13. CallsFit' /\ MembersApart'
  BY <1>9, <1>11, CallsCarryOn
<1> QED
  BY <1>8, <1>10, <1>11, <1>12, <1>13, RewrittenGrants, RewrittenLeft, AccessInvStep

LEMMA AccessInvCommitsState == \A p \in Calls : AccessInv /\ CommitsState(p) => AccessInv'
<1> SUFFICES ASSUME NEW p \in Calls, AccessInv, CommitsState(p) PROVE AccessInv'
  OBVIOUS
<1> USE DEF AccessInv
<1>1. PICK q : q = call[p]
  OBVIOUS
<1>2. PICK u, c : u = q.user /\ c = q.company
  OBVIOUS
<1>3. Open(p) /\ q.on = "state"
  BY <1>1 DEF CommitsState
<1>4. /\ q \in MemberRequests /\ MemberFits(q) /\ u \in Users /\ c \in Companies
  <2> HIDE DEF AccessInv
  <2> QED
    BY <1>1, <1>2, <1>3, MoverFacts
<1>5. /\ member' = [member EXCEPT ![u][c] = q.status]
      /\ LetsIn(u, c, q.status)
      /\ Counted /\ call' = Overlapped(p)
      /\ UNCHANGED <<company, primary, branchOf, attached, role, grants, torn>>
  BY <1>1, <1>2 DEF CommitsState
<1>6. company[c] # "NONE" /\ q.status \in Statuses
  BY <1>2, <1>3, <1>4 DEF MemberFits, MemberRequests
<1>7. /\ revoked' \in SUBSET (revoked \cup {<<u, c>>})
      /\ <<u, c>> \in revoked' => q.status # "ACTIVE"
  BY <1>5 DEF LetsIn
<1>8. /\ member' \in [Users -> [Companies -> Statuses \cup {"NONE"}]]
      /\ revoked' \subseteq Users \X Companies
      /\ MembersOfCompanies' /\ RevokedAreOut'
      /\ \A v \in Users, d \in Companies : member[v][d] # "NONE" => member'[v][d] # "NONE"
  BY <1>4, <1>5, <1>6, <1>7, MemberStep
<1>9. writes' \in 0..MaxWrites /\ call' \in [Calls -> Requests \cup {None}] /\ Carries({})
  BY <1>5, CountedFacts
<1>10. TypeOK'
  BY <1>5, <1>8, <1>9 DEF TypeOK
<1>11. Grows /\ OneOwn'
  BY <1>5, <1>8 DEF Grows, OneOwn
<1> HIDE DEF AccessInv
<1>12. GrantsStand'
  BY <1>5, <1>11, OldGrantsStand
<1>13. MembersLeft'
  <2>1. GrantsKept
    BY <1>5, <1>11, SameGrantsKept
  <2> QED
    BY <1>5, <1>9, <2>1, MembersStillLeft
<1>14. CallsFit' /\ MembersApart'
  BY <1>9, <1>11, CallsCarryOn
<1> QED
  BY <1>8, <1>10, <1>11, <1>12, <1>13, <1>14, AccessInvStep

(* Steps that write a role, a branch or a company, and no membership.      *)
LEMMA QuietStep ==
  ASSUME AccessInv, Grows, OneOwn', TypeOK', NEW P \in SUBSET Calls, Carries(P),
         attached' = attached, grants' = grants, torn' = torn, revoked' = revoked, member' = member,
         \A p \in P : Open(p)' => RequestFits(call[p])' /\ call'[p] \notin MemberRequests
                                  /\ call'[p] \in Requests
  PROVE  AccessInv'
<1>1. CallsFit' /\ MembersApart'
  <2>1. \A p \in P : \A u, c : ~OfMember(p, u, c)'
    BY Kinds DEF OfMember
  <2> QED
    BY <2>1, CallsCarryOn
<1>2. MembersLeft'
  <2>1. GrantsKept
    BY SameGrantsKept
  <2>2. \A p \in P : \A u, c : ~OfMember(p, u, c)'
    BY Kinds DEF OfMember
  <2> QED
    BY <2>1, <2>2, MembersStillLeft
<1>3. GrantsStand'
  BY OldGrantsStand
<1>4. MembersOfCompanies' /\ RevokedAreOut'
  BY DEF AccessInv, MembersOfCompanies, RevokedAreOut, Grows
<1> QED
  BY <1>1, <1>2, <1>3, <1>4, AccessInvStep

LEMMA RoleStep ==
  ASSUME AccessInv, NEW r \in Roles, NEW x \in RoleRows,
         role[r] # None => role[r].company = x.company,
         role' = [role EXCEPT ![r] = x], Counted, NEW p, call' = Overlapped(p),
         UNCHANGED <<company, member, primary, branchOf, attached, grants, revoked, torn>>
  PROVE  AccessInv'
<1>1. role'[r] = x /\ \A t \in Roles : t # r => role'[t] = role[t]
  BY DEF AccessInv, TypeOK
<1>2. Grows
  BY <1>1, AccessAssumption DEF Grows
<1>3. writes' \in 0..MaxWrites /\ Carries({}) /\ call' \in [Calls -> Requests \cup {None}]
  BY CountedFacts DEF AccessInv
<1>4. TypeOK'
  BY <1>3 DEF AccessInv, TypeOK
<1>5. OneOwn'
  BY DEF AccessInv, OneOwn
<1> QED
  BY <1>2, <1>3, <1>4, <1>5, QuietStep

LEMMA AccessInvCommitsRole == \A p \in Calls : AccessInv /\ CommitsRole(p) => AccessInv'
<1> SUFFICES ASSUME NEW p \in Calls, AccessInv, CommitsRole(p) PROVE AccessInv'
  OBVIOUS
<1>1. PICK q : q = call[p]
  OBVIOUS
<1>2. q \in Requests /\ RequestFits(q) /\ q.on = "role"
  BY <1>1 DEF CommitsRole, Open, AccessInv, TypeOK, CallsFit
<1>3. q \in RoleRequests /\ q.role \in RolesOf(q.company)
  BY <1>2, Kinds DEF RequestFits
<1> DEFINE x == [company |-> role[q.role].company, active |-> q.active, permissions |-> q.permissions]
<1>4. role[q.role] \in RoleRows
  BY <1>3 DEF RolesOf, AccessInv, TypeOK
<1>5. x \in RoleRows
  BY <1>3, <1>4 DEF RoleRows, RoleRequests
<1>6. q.role \in Roles
  BY <1>3 DEF RolesOf
<1>7. /\ role' = [role EXCEPT ![q.role] = x] /\ Counted /\ call' = Overlapped(p)
      /\ UNCHANGED <<company, member, primary, branchOf, attached, grants, revoked, torn>>
  BY <1>1 DEF CommitsRole
<1> QED
  BY <1>5, <1>6, <1>7, RoleStep

(* A branch is saved, by a maintainer or by an administrator whose request *)
(* goes on.                                                                *)
LEMMA AccessInvMaintainsBranch ==
  \A c \in Companies, b \in Branches : AccessInv /\ MaintainsBranch(c, b) => AccessInv'
<1> SUFFICES ASSUME NEW c \in Companies, NEW b \in Branches, AccessInv, MaintainsBranch(c, b)
             PROVE  AccessInv'
  OBVIOUS
<1>1. /\ branchOf[b] = None /\ branchOf' = [branchOf EXCEPT ![b] = c]
      /\ Counted /\ call' = Overlapped(None)
      /\ UNCHANGED <<company, member, primary, attached, role, grants, revoked, torn>>
  BY DEF MaintainsBranch
<1>2. Grows /\ OneOwn'
  BY <1>1 DEF Grows, AccessInv, TypeOK, OneOwn
<1>3. writes' \in 0..MaxWrites /\ Carries({}) /\ call' \in [Calls -> Requests \cup {None}]
  BY <1>1, CountedFacts DEF AccessInv
<1>4. TypeOK'
  BY <1>1, <1>3 DEF AccessInv, TypeOK
<1> QED
  BY <1>1, <1>2, <1>3, <1>4, QuietStep

LEMMA AccessInvBranching == AccessInv /\ Branching => AccessInv'
<1> SUFFICES ASSUME AccessInv, NEW p \in Calls, NEW c \in Companies, NEW b \in Branches,
                    NEW by \in Users, CreateBranch(p, by, c, b)
             PROVE  AccessInv'
  BY DEF Branching
<1> DEFINE x == [by |-> by, on |-> "branch", company |-> c, branch |-> b, at |-> "saved", alone |-> TRUE]
<1>1. /\ branchOf[b] = None /\ branchOf' = [branchOf EXCEPT ![b] = c]
      /\ Counted /\ call' = [Overlapped(p) EXCEPT ![p] = x]
      /\ UNCHANGED <<company, member, primary, attached, role, grants, revoked, torn>>
  BY DEF CreateBranch
<1>2. x \in BranchRequests /\ x.branch = b /\ x.company = c /\ x.on = "branch"
  BY DEF BranchRequests
<1> HIDE DEF x
<1>3. Grows /\ OneOwn'
  BY <1>1 DEF Grows, AccessInv, TypeOK, OneOwn
<1>4. /\ Overlapped(p) \in [Calls -> Requests \cup {None}]
      /\ \A q \in Calls : Overlapped(p)[q] # None => Open(q) /\ Alike(call[q], Overlapped(p)[q])
  BY OverlappedCarries DEF AccessInv
<1>5. x \in Requests /\ x \notin MemberRequests /\ x \notin RoleRequests
  BY <1>2, Kinds DEF Requests
<1>6. call' \in [Calls -> Requests \cup {None}] /\ call'[p] = x /\ Carries({p})
  BY <1>1, <1>4, <1>5 DEF Carries
<1>7. TypeOK'
  <2>1. writes' \in 0..MaxWrites
    BY <1>1, AccessAssumption DEF AccessInv, TypeOK, Counted
  <2> QED
    BY <1>1, <1>6, <2>1 DEF AccessInv, TypeOK
<1>8. RequestFits(call[p])'
  <2>1. b \in BranchesOf(c)'
    BY <1>1 DEF BranchesOf, AccessInv, TypeOK
  <2> QED
    BY <1>2, <1>5, <1>6, <2>1 DEF RequestFits
<1> QED
  BY <1>1, <1>3, <1>5, <1>6, <1>7, <1>8, QuietStep

LEMMA AccessInvShaping == AccessInv /\ Shaping => AccessInv'
<1> SUFFICES ASSUME AccessInv, Shaping PROVE AccessInv'
  OBVIOUS
<1>1. ASSUME NEW r \in Roles, NEW a \in BOOLEAN, ChangeRoleState(r, a) PROVE AccessInv'
  <2> DEFINE x == [role[r] EXCEPT !.active = a]
  <2>1. role[r] \in RoleRows
    BY <1>1 DEF ChangeRoleState, AccessInv, TypeOK
  <2>2. x \in RoleRows /\ x.company = role[r].company
    BY <2>1 DEF RoleRows
  <2>3. /\ role' = [role EXCEPT ![r] = x] /\ Counted /\ call' = Overlapped(None)
        /\ UNCHANGED <<company, member, primary, branchOf, attached, grants, revoked, torn>>
    BY <1>1 DEF ChangeRoleState
  <2> HIDE DEF x
  <2> QED
    BY <2>2, <2>3, RoleStep
<1>2. ASSUME NEW c \in Companies, NEW r \in Roles, NEW a \in BOOLEAN,
             NEW permissions \in SUBSET Permissions, CreateRole(c, r, a, permissions)
      PROVE  AccessInv'
  <2> DEFINE x == [company |-> c, active |-> a, permissions |-> permissions]
  <2>1. x \in RoleRows
    BY DEF RoleRows
  <2>2. /\ role' = [role EXCEPT ![r] = x] /\ Counted /\ call' = Overlapped(None)
        /\ role[r] = None
        /\ UNCHANGED <<company, member, primary, branchOf, attached, grants, revoked, torn>>
    BY <1>2 DEF CreateRole
  <2> HIDE DEF x
  <2> QED
    BY <2>1, <2>2, RoleStep
<1> QED
  BY <1>1, <1>2, AccessInvMaintainsBranch DEF Shaping

LEMMA AccessInvNewCompany ==
  ASSUME AccessInv, NEW u \in Users, NEW c \in Companies, NEW r \in Roles, NewCompany(u, c, r),
         Grows, OneOwn',
         branchOf' \in [Branches -> Companies \cup {None}], primary' \subseteq Users \X Companies
  PROVE  AccessInv'
<1> DEFINE x == [company |-> c, active |-> TRUE, permissions |-> Permissions]
           g == [user |-> u, role |-> r, branch |-> Whole]
<1>1. /\ company[c] = "NONE" /\ role[r] = None /\ Counted
      /\ company' = [company EXCEPT ![c] = "ACTIVE"]
      /\ member' = [member EXCEPT ![u][c] = "ACTIVE"]
      /\ role' = [role EXCEPT ![r] = x]
      /\ grants' = grants \cup {g}
      /\ call' = Overlapped(None)
      /\ UNCHANGED <<attached, revoked, torn>>
  BY DEF NewCompany
<1>2. x \in RoleRows /\ g \in Grants /\ x.company = c /\ g.user = u /\ g.role = r /\ g.branch = Whole
  BY DEF RoleRows, Grants
<1> HIDE DEF x, g
<1>3. writes' \in 0..MaxWrites /\ Carries({}) /\ call' \in [Calls -> Requests \cup {None}]
  BY <1>1, CountedFacts DEF AccessInv
<1>4. role' \in [Roles -> RoleRows \cup {None}]
  BY <1>1, <1>2 DEF AccessInv, TypeOK
<1>5. member' \in [Users -> [Companies -> Statuses \cup {"NONE"}]]
  BY <1>1 DEF AccessInv, TypeOK, Statuses
<1>6. TypeOK'
  <2>1. company' \in [Companies -> {"NONE", "ACTIVE", "INACTIVE"}]
    BY <1>1 DEF AccessInv, TypeOK
  <2>2. grants' \subseteq Grants
    BY <1>1, <1>2 DEF AccessInv, TypeOK
  <2> QED
    BY <1>1, <1>3, <1>4, <1>5, <2>1, <2>2 DEF AccessInv, TypeOK
<1>7. role'[r] = x /\ \A s \in Roles : s # r => role'[s] = role[s]
  BY <1>1 DEF AccessInv, TypeOK
<1>8. ASSUME NEW h \in grants
      PROVE  /\ h.role # r /\ h.role \in Roles /\ GrantStands(h)
             /\ h.branch # Whole => h.branch \in Branches
    BY <1>1 DEF AccessInv, GrantsStand, GrantStands, TypeOK, Grants
<1>9. GrantsStand'
  <2>1. GrantStands(g)'
    BY <1>2, <1>7, AccessAssumption DEF GrantStands
  <2>2. ASSUME NEW h \in grants PROVE GrantStands(h)'
    <3>1. role[h.role] # None /\ role[h.role].company \in Companies
      BY <1>8 DEF GrantStands, AccessInv, TypeOK, RoleRows
    <3>2. h.branch # Whole => branchOf[h.branch] # None
      BY <1>8, <3>1, AccessAssumption DEF GrantStands
    <3> QED
      BY <1>1, <1>8, <3>1, <3>2 DEF GrantStands, Grows
  <2> QED
    BY <1>1, <2>1, <2>2 DEF GrantsStand
<1>10. MembersOfCompanies'
  BY <1>1 DEF AccessInv, TypeOK, MembersOfCompanies
<1>11. RevokedAreOut'
  <2> SUFFICES ASSUME NEW y \in revoked PROVE member'[y[1]][y[2]] \notin {"NONE", "ACTIVE"}
    BY <1>1 DEF RevokedAreOut
  <2>1. PICK v \in Users, d \in Companies : y = <<v, d>>
    BY DEF AccessInv, TypeOK
  <2>2. member[v][d] \notin {"NONE", "ACTIVE"} /\ company[d] # "NONE"
    BY <2>1 DEF AccessInv, RevokedAreOut, MembersOfCompanies
  <2>3. member'[v][d] = member[v][d]
    BY <1>1, <2>2 DEF AccessInv, TypeOK
  <2> QED
    BY <2>1, <2>2, <2>3
<1>12. GrantsKept
  <2> SUFFICES ASSUME NEW v \in Users, NEW d \in Companies, company[d] # "NONE", NEW h
               PROVE  h \in GrantsOf(v, d)' <=> h \in GrantsOf(v, d)
    BY DEF GrantsKept
  <2>1. d # c
    BY <1>1
  <2>2. g.role \notin RolesOf(d)'
    BY <1>2, <1>7, <2>1 DEF RolesOf
  <2>3. h \in grants => (h.role \in RolesOf(d)' <=> h.role \in RolesOf(d))
    BY <1>7, <1>8 DEF RolesOf
  <2> QED
    BY <1>1, <2>2, <2>3 DEF GrantsOf
<1>13. MembersLeft'
  BY <1>1, <1>3, <1>12, MembersStillLeft
<1>14. CallsFit' /\ MembersApart'
  BY <1>3, CallsCarryOn
<1> QED
  BY <1>6, <1>9, <1>10, <1>11, <1>13, <1>14, AccessInvStep

LEMMA AccessInvFounding == AccessInv /\ Founding => AccessInv'
<1> SUFFICES ASSUME AccessInv, Founding PROVE AccessInv'
  OBVIOUS
<1>1. ASSUME NEW u \in Users, NEW c \in Companies, NEW r \in Roles, NewCompany(u, c, r),
             \A b \in Branches : branchOf[b] # None => branchOf'[b] = branchOf[b]
      PROVE  Grows
  <2>1. /\ company[c] = "NONE" /\ role[r] = None
        /\ company' = [company EXCEPT ![c] = "ACTIVE"]
        /\ member' = [member EXCEPT ![u][c] = "ACTIVE"]
        /\ \A t \in Roles : t # r => role'[t] = role[t]
    BY <1>1 DEF NewCompany, AccessInv, TypeOK
  <2>2. \A v \in Users, d \in Companies : member[v][d] # "NONE" => member'[v][d] # "NONE"
    BY <2>1 DEF AccessInv, TypeOK
  <2>3. \A d \in Companies : company[d] # "NONE" => company'[d] # "NONE"
    BY <2>1 DEF AccessInv, TypeOK
  <2> QED
    BY <1>1, <2>1, <2>2, <2>3 DEF Grows
<1>2. ASSUME NEW u \in Users, NEW c \in Companies, NEW r \in Roles, CreateCompany(u, c, r)
      PROVE  AccessInv'
  <2>1. NewCompany(u, c, r) /\ UNCHANGED <<primary, branchOf>>
    BY <1>2 DEF CreateCompany
  <2>2. Grows
    BY <1>1, <2>1
  <2> QED
    BY <2>1, <2>2, AccessInvNewCompany DEF AccessInv, TypeOK, OneOwn
<1>3. ASSUME NEW u \in Users, NEW c \in Companies, NEW r \in Roles, NEW b \in Branches,
             SelfServiceCompany(u, c, r, b)
      PROVE  AccessInv'
  <2>1. /\ \A d \in Companies : <<u, d>> \notin primary
        /\ NewCompany(u, c, r) /\ primary' = primary \cup {<<u, c>>}
        /\ branchOf[b] = None /\ branchOf' = [branchOf EXCEPT ![b] = c]
    BY <1>3 DEF SelfServiceCompany
  <2>2. branchOf' \in [Branches -> Companies \cup {None}] /\ primary' \subseteq Users \X Companies
    BY <2>1 DEF AccessInv, TypeOK
  <2>3. OneOwn'
    BY <2>1 DEF AccessInv, TypeOK, OneOwn
  <2>4. \A e \in Branches : branchOf[e] # None => branchOf'[e] = branchOf[e]
    BY <2>1 DEF AccessInv, TypeOK
  <2>5. Grows
    BY <1>1, <2>1, <2>4
  <2> QED
    BY <2>1, <2>2, <2>3, <2>5, AccessInvNewCompany
<1>4. ASSUME NEW c \in Companies, NEW new \in {"ACTIVE", "INACTIVE"}, MaintainsCompany(c, new)
      PROVE  AccessInv'
  <2>1. /\ company' = [company EXCEPT ![c] = new] /\ Counted /\ call' = Overlapped(None)
        /\ UNCHANGED <<member, primary, branchOf, attached, role, grants, revoked, torn>>
    BY <1>4 DEF MaintainsCompany
  <2>2. Grows /\ OneOwn'
    BY <2>1 DEF Grows, AccessInv, TypeOK, OneOwn
  <2>3. writes' \in 0..MaxWrites /\ Carries({}) /\ call' \in [Calls -> Requests \cup {None}]
    BY <2>1, CountedFacts DEF AccessInv
  <2>4. TypeOK'
    BY <2>1, <2>3 DEF AccessInv, TypeOK
  <2> QED
    BY <2>1, <2>2, <2>3, <2>4, QuietStep
<1> QED
  BY <1>2, <1>3, <1>4 DEF Founding

LEMMA AccessInvNext == AccessInv /\ [Next]_vars => AccessInv'
<1> SUFFICES ASSUME AccessInv, [Next]_vars PROVE AccessInv'
  OBVIOUS
<1>1. CASE Moving
  BY <1>1, AccessInvBeginsUser, AccessInvReplacesUser, AccessInvBeginsRevoke,
     AccessInvRevokesBranches, AccessInvFindsCreator DEF Moving
<1>2. CASE Writing
  BY <1>2, AccessInvCommitsUser, AccessInvCommitsRevoke, AccessInvCommitsState,
     AccessInvCommitsRole DEF Writing, Commits
<1>3. CASE UNCHANGED vars
  <2>1. Grows /\ OneOwn' /\ TypeOK'
    BY <1>3 DEF vars, Grows, AccessInv, OneOwn, TypeOK
  <2>2. Carries({})
    BY <1>3 DEF vars, Carries, Alike, Open
  <2> QED
    BY <1>3, <2>1, <2>2, QuietStep DEF vars
<1> QED
  BY <1>1, <1>2, <1>3, StepsOfNext, AccessInvAsking, AccessInvEnding, AccessInvBranching,
     AccessInvShaping, AccessInvFounding

LEMMA AccessInvHolds == Spec => []AccessInv
  BY AccessInvInit, AccessInvNext, PTL DEF Spec

------------------------------------------------------------------------------
(* An assignment at a branch is of a branch of its company, and of its     *)
(* membership but for access given between the two deletions of a          *)
(* revocation; so a permission by branch reaches no branch outside the     *)
(* company and, but for those, only the branches of the membership or all  *)
(* for who administers the whole company; nobody has two companies of his  *)
(* own (ScopeIsAttached).                                                  *)
THEOREM ScopeHolds == Spec => []ScopeIsAttached
<1>1. ASSUME AccessInv PROVE ScopeIsAttached
  <2> USE <1>1
  <2>1. \A g \in grants : g.branch # Whole => /\ branchOf[g.branch] = role[g.role].company
                                              /\ \/ <<g.user, g.branch>> \in attached
                                                 \/ <<g.user, role[g.role].company>> \in torn
    BY DEF AccessInv, GrantsStand, GrantStands
  <2>2. ASSUME NEW u \in Users, NEW c \in Companies, NEW p
        PROVE  /\ BranchScope(u, c, p) \subseteq BranchesOf(c)
               /\ ~AllBranches(u, c, p) =>
                    \A b \in BranchScope(u, c, p) : <<u, b>> \in attached \/ <<u, c>> \in torn
    <3>1. ASSUME NEW h \in Counting(u, c, p), h.branch # Whole
          PROVE  /\ h.branch \in BranchesOf(c)
                 /\ <<u, h.branch>> \in attached \/ <<u, c>> \in torn
      <4>1. h \in grants /\ h.user = u /\ role[h.role].company = c /\ h.branch \in Branches
        BY <3>1 DEF Counting, GrantsOf, RolesOf, AccessInv, TypeOK, Grants
      <4> QED
        BY <2>1, <3>1, <4>1 DEF BranchesOf
    <3>2. CASE AllBranches(u, c, p)
      BY <3>2 DEF BranchScope
    <3>3. CASE ~AllBranches(u, c, p)
      BY <3>1, <3>3 DEF BranchScope, AttachedTo
    <3> QED
      BY <3>2, <3>3
  <2>3. ASSUME NEW u \in Users, NEW c \in Companies, NEW p, AllBranches(u, c, p)
        PROVE  HasPermission(u, c, Admin, Whole)
    <3>1. Counting(u, c, Admin) # {} /\ \E g \in Counting(u, c, Admin) : g.branch = Whole
      BY <2>3 DEF AllBranches
    <3>2. AllBranches(u, c, Admin)
      BY <3>1 DEF AllBranches
    <3> QED
      BY <3>1, <3>2 DEF HasPermission
  <2>4. ASSUME NEW u \in Users, NEW c \in Companies, NEW p \in BranchScoped, NEW b \in Branches,
               HasPermission(u, c, p, b)
        PROVE  \/ <<u, b>> \in attached \/ <<u, c>> \in torn
               \/ HasPermission(u, c, Admin, Whole)
    <3>1. AllBranches(u, c, p) \/ b \in BranchScope(u, c, p)
      BY <2>4 DEF HasPermission
    <3> QED
      BY <2>2, <2>3, <3>1
  <2>5. TypeOK /\ \A x, y \in primary : x[1] = y[1] => x = y
    BY DEF AccessInv, OneOwn
  <2> QED
    BY <2>1, <2>2, <2>4, <2>5 DEF ScopeIsAttached
<1> QED
  BY <1>1, AccessInvHolds, PTL

(* Who was revoked stays out until he is let in by name, whatever an open  *)
(* request writes back (RevokedStayOut).                                   *)
THEOREM RevokedHaveNothing == Spec => []RevokedStayOut
<1>1. ASSUME AccessInv PROVE RevokedStayOut
  <2> SUFFICES ASSUME NEW x \in revoked, NEW p \in Permissions
               PROVE  Counting(x[1], x[2], p) = {} /\ BranchScope(x[1], x[2], p) = {}
    BY DEF RevokedStayOut
  <2>1. member[x[1]][x[2]] # "ACTIVE"
    BY <1>1 DEF AccessInv, RevokedAreOut
  <2>2. Counting(x[1], x[2], p) = {} /\ Counting(x[1], x[2], Admin) = {}
    BY <2>1 DEF Counting
  <2> QED
    BY <2>2 DEF BranchScope, AllBranches
<1> QED
  BY <1>1, AccessInvHolds, PTL

------------------------------------------------------------------------------
(***************************************************************************)
(* What an administrator's request was granted on is still so while no     *)
(* other write overlaps it, and what it inserts is made of the roles as    *)
(* they are.                                                               *)
(***************************************************************************)
Granted(q) ==
  /\ q.on = "user" => /\ MayUpdateUser(q.by, q.user, q.company, q.status, q.roles)
                      /\ q.at # "decided" => q.rows = Replacement(q.user, q.branches, q.roles)
  /\ q.on = "role" => MayUpdateRole(q.by, q.role, q.company, q.active, q.permissions)
  /\ q.on \in {"revoke", "state"} => q.by = None
AloneGranted == \A p \in Calls : Open(p) /\ call[p].alone => Granted(call[p])

LEMMA GrantedAsBefore ==
  ASSUME UNCHANGED <<company, member, role, grants>>, NEW q
  PROVE  Granted(q)' <=> Granted(q)
BY DEF Granted, MayUpdateUser, MayUpdateRole, Manages, Administers, Counting, GrantsOf, RolesOf,
       Replacement, HasAny

LEMMA AloneOfNext ==
  ASSUME TypeOK, AloneGranted, UNCHANGED <<company, member, role, grants>>, NEW p \in Calls, NEW q,
         call' = [call EXCEPT ![p] = q], q # None /\ q.alone => Granted(q)
  PROVE  AloneGranted'
<1> SUFFICES ASSUME NEW t \in Calls, Open(t)', call'[t].alone PROVE Granted(call[t])'
  BY DEF AloneGranted
<1>1. PICK x : x = call'[t]
  OBVIOUS
<1>2. Granted(x)
  <2>1. CASE t = p
    BY <1>1, <2>1 DEF TypeOK, Open
  <2>2. CASE t # p
    BY <1>1, <2>2 DEF TypeOK, Open, AloneGranted
  <2> QED
    BY <2>1, <2>2
<1>3. Granted(x)'
  BY <1>2, GrantedAsBefore
<1> QED
  BY <1>1, <1>3 DEF Granted

(* No other request is alone after a write.                                *)
LEMMA OverlappedAreNotAlone ==
  ASSUME TypeOK, NEW p, \A q \in Calls : call'[q] = Overlapped(p)[q] \/ Granted(call[q])'
  PROVE  AloneGranted'
<1> SUFFICES ASSUME NEW q \in Calls, Open(q)', call'[q].alone PROVE Granted(call[q])'
  BY DEF AloneGranted
<1> QED
  BY OverlappedCarries DEF Open

LEMMA AloneAsking ==
  ASSUME AccessInv, AloneGranted, Asking
  PROVE  AloneGranted'
<1>0. TypeOK
  BY DEF AccessInv
<1>1. PICK p \in Calls, c \in Companies, by \in Users \cup {None} :
        \/ \E on \in {"user", "revoke", "state"}, u \in Users, status \in Statuses \cup {Keep} :
             \E B \in SUBSET BranchesOf(c), R \in SUBSET RolesOf(c) :
               AsksMember(p, by, on, u, c, status, B, R)
        \/ \E r \in RolesOf(c), active \in BOOLEAN, permissions \in SUBSET Permissions :
             AsksRole(p, by, r, c, active, permissions)
  BY DEF Asking
<1>2. ASSUME NEW on \in {"user", "revoke", "state"}, NEW u, NEW status, NEW B, NEW R,
             AsksMember(p, by, on, u, c, status, B, R)
      PROVE  AloneGranted'
  <2> DEFINE q == MemberRequest(by, on, u, c, status, B, R)
  <2>1. call' = [call EXCEPT ![p] = q] /\ UNCHANGED <<company, member, role, grants>>
    BY <1>2 DEF AsksMember, Becomes
  <2>2. /\ q.by = by /\ q.on = on /\ q.user = u /\ q.company = c /\ q.status = status
        /\ q.roles = R /\ q.at = "decided"
    BY DEF MemberRequest
  <2>3. Granted(q)
    <3> HIDE DEF q
    <3> QED
      BY <1>2, <2>2 DEF AsksMember, Granted
  <2> HIDE DEF q
  <2> QED
    BY <1>0, <2>1, <2>3, AloneOfNext
<1>3. ASSUME NEW r, NEW active, NEW permissions, AsksRole(p, by, r, c, active, permissions)
      PROVE  AloneGranted'
  <2> DEFINE q == RoleRequest(by, r, c, active, permissions)
  <2>1. call' = [call EXCEPT ![p] = q] /\ UNCHANGED <<company, member, role, grants>>
    BY <1>3 DEF AsksRole, Becomes
  <2>2. /\ q.by = by /\ q.on = "role" /\ q.role = r /\ q.company = c /\ q.active = active
        /\ q.permissions = permissions
    BY DEF RoleRequest
  <2>3. Granted(q)
    <3> HIDE DEF q
    <3> QED
      BY <1>3, <2>2 DEF AsksRole, Granted
  <2> HIDE DEF q
  <2> QED
    BY <1>0, <2>1, <2>3, AloneOfNext
<1> QED
  BY <1>1, <1>2, <1>3

LEMMA AloneMoving ==
  ASSUME AccessInv, AloneGranted, Moving
  PROVE  AloneGranted'
<1>0. TypeOK
  BY DEF AccessInv
<1>1. PICK p \in Calls : \/ BeginsUser(p) \/ ReplacesUser(p) \/ BeginsRevoke(p) \/ RevokesBranches(p)
                         \/ FindsCreator(p)
  BY DEF Moving
<1>2. PICK x : x = call[p]
  OBVIOUS
<1>3. x \in Requests /\ (x.alone => Granted(x))
  BY <1>0, <1>1, <1>2 DEF BeginsUser, ReplacesUser, BeginsRevoke, RevokesBranches, FindsCreator,
                          TypeOK, AloneGranted, Open
<1>4. CASE BeginsUser(p)
  <2> DEFINE rows == Replacement(x.user, x.branches, x.roles)
             gone == AttachedTo(x.user, x.company)
             y == [x EXCEPT !.at = "half", !.gone = gone, !.rows = rows]
  <2>1. x.on = "user" /\ Becomes(p, y)
    BY <1>2, <1>4 DEF BeginsUser
  <2>2. x \in MemberRequests
    BY <1>3, <2>1, Kinds
  <2>3. /\ y.on = x.on /\ y.by = x.by /\ y.user = x.user /\ y.company = x.company
        /\ y.status = x.status /\ y.roles = x.roles /\ y.branches = x.branches
        /\ y.rows = rows /\ y.alone = x.alone
    <3> HIDE DEF rows, gone
    <3> QED
      BY <2>2 DEF MemberRequests
  <2>4. y.alone => Granted(y)
    <3> HIDE DEF y
    <3> QED
      BY <1>3, <2>1, <2>3 DEF Granted
  <2> HIDE DEF y
  <2> QED
    BY <1>0, <2>1, <2>4, AloneOfNext DEF Becomes
<1>5. ASSUME NEW y, Becomes(p, y), y.on = x.on, y.alone = x.alone,
             x.on \in {"user", "revoke"} =>
               /\ y.by = x.by /\ y.user = x.user /\ y.company = x.company /\ y.status = x.status
               /\ y.roles = x.roles /\ y.branches = x.branches /\ y.rows = x.rows,
             x.on = "user" => x.at # "decided", x.on # "role", x.on # "state"
      PROVE  AloneGranted'
  <2>1. y.alone => Granted(y)
    BY <1>3, <1>5 DEF Granted
  <2> QED
    BY <1>0, <1>5, <2>1, AloneOfNext DEF Becomes
<1>6. CASE ReplacesUser(p)
  <2> DEFINE lost == Deleted(x.user, x.company, x.roles)
             y == [x EXCEPT !.at = "ready", !.lost = lost]
  <2>1. x.on = "user" /\ x.at = "half" /\ Becomes(p, y)
    BY <1>2, <1>6 DEF ReplacesUser
  <2>2. x \in MemberRequests
    BY <1>3, <2>1, Kinds
  <2>3. /\ y.on = x.on /\ y.by = x.by /\ y.user = x.user /\ y.company = x.company
        /\ y.status = x.status /\ y.roles = x.roles /\ y.branches = x.branches
        /\ y.rows = x.rows /\ y.alone = x.alone
    <3> HIDE DEF lost
    <3> QED
      BY <2>2 DEF MemberRequests
  <2> HIDE DEF y
  <2> QED
    BY <1>5, <2>1, <2>3
<1>7. CASE BeginsRevoke(p)
  <2> DEFINE lost == GrantsOf(x.user, x.company)
             y == [x EXCEPT !.at = "half", !.lost = lost]
  <2>1. x.on = "revoke" /\ Becomes(p, y)
    BY <1>2, <1>7 DEF BeginsRevoke
  <2>2. x \in MemberRequests
    BY <1>3, <2>1, Kinds
  <2>3. /\ y.on = x.on /\ y.by = x.by /\ y.user = x.user /\ y.company = x.company
        /\ y.status = x.status /\ y.roles = x.roles /\ y.branches = x.branches
        /\ y.rows = x.rows /\ y.alone = x.alone
    <3> HIDE DEF lost
    <3> QED
      BY <2>2 DEF MemberRequests
  <2> HIDE DEF y
  <2> QED
    BY <1>5, <2>1, <2>3
<1>8. CASE RevokesBranches(p)
  <2> DEFINE gone == AttachedTo(x.user, x.company)
             y == [x EXCEPT !.at = "ready", !.gone = gone]
  <2>1. x.on = "revoke" /\ Becomes(p, y)
    BY <1>2, <1>8 DEF RevokesBranches
  <2>2. x \in MemberRequests
    BY <1>3, <2>1, Kinds
  <2>3. /\ y.on = x.on /\ y.by = x.by /\ y.user = x.user /\ y.company = x.company
        /\ y.status = x.status /\ y.roles = x.roles /\ y.branches = x.branches
        /\ y.rows = x.rows /\ y.alone = x.alone
    <3> HIDE DEF gone
    <3> QED
      BY <2>2 DEF MemberRequests
  <2> HIDE DEF y
  <2> QED
    BY <1>5, <2>1, <2>3
<1>9. CASE FindsCreator(p)
  <2> DEFINE y == [x EXCEPT !.at = "found"]
  <2>1. x.on = "branch" /\ Becomes(p, y)
    BY <1>2, <1>9 DEF FindsCreator
  <2>2. x \in BranchRequests
    BY <1>3, <2>1, Kinds
  <2>3. y.on = x.on /\ y.alone = x.alone
    BY <2>2 DEF BranchRequests
  <2> HIDE DEF y
  <2> QED
    BY <1>5, <2>1, <2>3
<1> QED
  BY <1>1, <1>4, <1>6, <1>7, <1>8, <1>9

LEMMA AloneStep ==
  ASSUME AccessInv, AloneGranted, [Next]_vars
  PROVE  AloneGranted'
<1>0. TypeOK
  BY DEF AccessInv
<1>1. ASSUME NEW p, call' = Overlapped(p) PROVE AloneGranted'
  BY <1>0, <1>1, OverlappedAreNotAlone
<1>2. CASE Ending
  <2>1. PICK p \in Calls : AttachesCreator(p) \/ Fails(p)
    BY <1>2 DEF Ending
  <2>2. call' = [call EXCEPT ![p] = None] /\ UNCHANGED <<company, member, role, grants>>
    BY <2>1 DEF AttachesCreator, Fails
  <2> QED
    BY <1>0, <2>2, AloneOfNext
<1>3. CASE Writing
  BY <1>1, <1>3 DEF Writing, Commits, CommitsUser, CommitsRevoke, CommitsState, CommitsRole
<1>4. CASE Branching
  <2>1. PICK p \in Calls, c \in Companies, b \in Branches, by \in Users : CreateBranch(p, by, c, b)
    BY <1>4 DEF Branching
  <2> DEFINE x == [by |-> by, on |-> "branch", company |-> c, branch |-> b, at |-> "saved",
                   alone |-> TRUE]
  <2>2. x.on = "branch"
    OBVIOUS
  <2> HIDE DEF x
  <2>3. call' = [Overlapped(p) EXCEPT ![p] = x]
    BY <2>1 DEF CreateBranch, x
  <2>4. call'[p] = x /\ \A q \in Calls \ {p} : call'[q] = Overlapped(p)[q]
    BY <1>0, <2>3, OverlappedCarries
  <2>5. Granted(call[p])'
    BY <2>2, <2>4 DEF Granted
  <2> QED
    BY <1>0, <2>4, <2>5, OverlappedAreNotAlone
<1>5. CASE Shaping \/ Founding
  <2>1. call' = Overlapped(None)
    BY <1>5 DEF Shaping, Founding, ChangeRoleState, CreateRole, MaintainsBranch, CreateCompany,
                SelfServiceCompany, NewCompany, MaintainsCompany
  <2> QED
    BY <1>1, <2>1
<1>6. CASE UNCHANGED vars
  <2>1. UNCHANGED <<company, member, role, grants, call>>
    BY <1>6 DEF vars
  <2> SUFFICES ASSUME NEW t \in Calls, Open(t)', call'[t].alone PROVE Granted(call[t])'
    BY DEF AloneGranted
  <2>2. PICK x : x = call[t]
    OBVIOUS
  <2>3. Granted(x)
    BY <2>1, <2>2 DEF AloneGranted, Open
  <2>4. Granted(x)'
    BY <2>1, <2>3, GrantedAsBefore
  <2> QED
    BY <2>1, <2>2, <2>4 DEF Granted
<1> QED
  BY <1>2, <1>3, <1>4, <1>5, <1>6, AloneAsking, AloneMoving, StepsOfNext

(* An administrator's request about a user keeps him an administrator.     *)
LEMMA UserRequestKeepsAdmin ==
  ASSUME AccessInv, NEW p \in Calls, CommitsUser(p), Granted(call[p]),
         NEW u \in Users, NEW c \in Companies, call[p].by = u, call[p].company = c
  PROVE  Manages(u, c)'
<1>1. PICK q : q = call[p] /\ u = q.by /\ c = q.company
  OBVIOUS
<1>2. q \in Requests /\ q.on = "user" /\ q.at = "ready"
  BY <1>1 DEF CommitsUser, Open, AccessInv, TypeOK
<1>3. q \in MemberRequests /\ MemberFits(q) /\ q.user \in Users
  BY <1>1, <1>2, Kinds DEF CommitsUser, AccessInv, CallsFit, RequestFits, MemberRequests
<1>4. MayUpdateUser(u, q.user, c, q.status, q.roles) /\ q.rows = Replacement(q.user, q.branches, q.roles)
  BY <1>1, <1>2 DEF Granted
<1>5. Manages(u, c)
  BY <1>4, AccessAssumption DEF MayUpdateUser
<1>6. /\ grants' = (grants \ q.lost) \cup q.rows
      /\ member' = [member EXCEPT ![q.user][c] = NewStatus(q)]
      /\ UNCHANGED <<company, role>>
  BY <1>1 DEF CommitsUser
<1>7. \E g \in grants' : /\ g.user = u /\ g.role \in RolesOf(c)
                         /\ role[g.role].active /\ Admin \in role[g.role].permissions
  <2>1. CASE q.user = u
    <3>1. PICK r \in q.roles : role[r].active /\ Admin \in role[r].permissions
      BY <1>4, <2>1, AccessAssumption DEF MayUpdateUser
    <3>2. r \in RolesOf(c)
      BY <1>1, <1>3 DEF MemberFits
    <3>3. HasAny(r, CompanyOnly)
      BY <3>1, AccessAssumption DEF HasAny
    <3>4. [user |-> u, role |-> r, branch |-> Whole] \in q.rows
      BY <1>4, <2>1, <3>3 DEF Replacement
    <3> QED
      BY <1>6, <3>1, <3>2, <3>4
  <2>2. CASE q.user # u
    <3>1. PICK g \in Counting(u, c, Admin) : TRUE
      BY <1>5 DEF Manages, Administers
    <3>2. g \in grants' /\ g.user = u
      BY <1>3, <1>6, <2>2, <3>1 DEF Counting, GrantsOf, MemberFits
    <3> QED
      BY <3>1, <3>2 DEF Counting, GrantsOf
  <2> QED
    BY <2>1, <2>2
<1>8. member'[u][c] = "ACTIVE"
  <2>1. CASE q.user = u
    <3>1. NewStatus(q) = "ACTIVE"
      BY <1>1, <1>4, <2>1, AccessAssumption DEF MayUpdateUser, NewStatus, Statuses
    <3> QED
      BY <1>3, <1>6, <2>1, <3>1 DEF AccessInv, TypeOK
  <2>2. CASE q.user # u
    <3>1. member[u][c] = "ACTIVE"
      BY <1>5 DEF Manages, Administers, Counting
    <3> QED
      BY <1>3, <1>6, <2>2, <3>1 DEF AccessInv, TypeOK
  <2> QED
    BY <2>1, <2>2
<1> QED
  BY <1>5, <1>6, <1>7, <1>8 DEF Manages, Administers, Counting, GrantsOf, RolesOf

(* So does his request about a role.                                       *)
LEMMA RoleRequestKeepsAdmin ==
  ASSUME AccessInv, NEW p \in Calls, CommitsRole(p), Granted(call[p]),
         NEW u \in Users, NEW c \in Companies, call[p].by = u, call[p].company = c
  PROVE  Manages(u, c)'
<1>1. PICK q : q = call[p] /\ u = q.by /\ c = q.company
  OBVIOUS
<1>2. q \in RoleRequests /\ q.role \in RolesOf(c) /\ q.on = "role"
  BY <1>1, Kinds DEF CommitsRole, Open, AccessInv, TypeOK, CallsFit, RequestFits
<1>3. MayUpdateRole(u, q.role, c, q.active, q.permissions)
  BY <1>1, <1>2 DEF Granted
<1>4. Manages(u, c)
  BY <1>3, AccessAssumption DEF MayUpdateRole
<1>5. /\ role' = [role EXCEPT ![q.role] = [company |-> role[q.role].company, active |-> q.active,
                                           permissions |-> q.permissions]]
      /\ UNCHANGED <<company, member, grants>>
  BY <1>1 DEF CommitsRole
<1>6. /\ role'[q.role].active = q.active /\ role'[q.role].permissions = q.permissions
      /\ role'[q.role].company = c /\ role'[q.role] # None
      /\ \A r \in Roles : r # q.role => role'[r] = role[r]
  <2>1. role[q.role].company = c /\ role[q.role] \in RoleRows
    BY <1>2 DEF RolesOf, AccessInv, TypeOK
  <2>2. [company |-> c, active |-> q.active, permissions |-> q.permissions] \in RoleRows
    BY <1>2 DEF RoleRequests, RoleRows
  <2> QED
    BY <1>2, <1>5, <2>1, <2>2, AccessAssumption DEF RolesOf, AccessInv, TypeOK
<1>7. PICK g \in Counting(u, c, Admin) : RemovesAdmin(q.active, q.permissions) => g.role # q.role
  BY <1>3, <1>4, AccessAssumption DEF Manages, Administers, MayUpdateRole
<1>8. g \in grants /\ g.user = u /\ g.role \in RolesOf(c) /\ g.role \in Roles
  BY <1>7 DEF Counting, GrantsOf, RolesOf
<1>9. role'[g.role] # None /\ role'[g.role].company = c
      /\ role'[g.role].active /\ Admin \in role'[g.role].permissions
  <2>1. CASE g.role = q.role
    BY <1>6, <1>7, <2>1 DEF RemovesAdmin
  <2>2. CASE g.role # q.role
    BY <1>6, <1>7, <1>8, <2>2 DEF Counting, RolesOf
  <2> QED
    BY <2>1, <2>2
<1>10. g \in Counting(u, c, Admin)'
  BY <1>4, <1>5, <1>7, <1>8, <1>9 DEF Counting, GrantsOf, RolesOf
<1> QED
  BY <1>4, <1>5, <1>10 DEF Manages, Administers

(* An administrator whose request nobody else's write overlaps is still an *)
(* administrator when it is done (NobodyLocksHimselfOut).                  *)
THEOREM AdministratorsStay == Spec => NobodyLocksHimselfOut
<1>1. Init => AloneGranted
  BY DEF Init, AloneGranted, Open
<1>2. AccessInv /\ AloneGranted /\ [Next]_vars => AloneGranted'
  BY AloneStep
<1>3. ASSUME AccessInv, AloneGranted, NEW p \in Calls, NEW u \in Users, NEW c \in Companies,
             Open(p), call[p].alone, call[p].by = u, call[p].company = c, Commits(p)
      PROVE  Manages(u, c)'
  <2>1. Granted(call[p])
    BY <1>3 DEF AloneGranted
  <2>2. CASE CommitsUser(p)
    BY <1>3, <2>1, <2>2, UserRequestKeepsAdmin
  <2>3. CASE CommitsRole(p)
    BY <1>3, <2>1, <2>3, RoleRequestKeepsAdmin
  <2>4. ~CommitsRevoke(p) /\ ~CommitsState(p)
    BY <1>3, <2>1, AccessAssumption DEF Granted, CommitsRevoke, CommitsState
  <2> QED
    BY <1>3, <2>2, <2>3, <2>4 DEF Commits
<1>4. AccessInv /\ AloneGranted /\ [Next]_vars =>
        [\A p \in Calls, u \in Users, c \in Companies :
           Open(p) /\ call[p].alone /\ call[p].by = u /\ call[p].company = c /\ Commits(p)
             => Manages(u, c)']_vars
  BY <1>3
<1> QED
  BY <1>1, <1>2, <1>4, AccessInvHolds, PTL DEF Spec, NobodyLocksHimselfOut
===============================================================================
