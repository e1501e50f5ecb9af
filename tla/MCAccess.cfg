\* An administrator, a member, and two requests about them or their branches and roles.
CONSTANTS
  Users = {u1, u2}
  Customers = {u1, u2}
  Companies = {c1, c2}
  Branches = {b1, b2}
  Roles = {r1, r2, r3}
  CompanyOnly = {"administration.manage"}
  TenantGlobal = {}
  BranchScoped = {"sales.manage"}
  Admin = "administration.manage"
  Calls = {p1, p2}
  Start = c1
  Owner = u1
  OwnerRole = r1
  MainBranch = b1
  Worker = u2
  SecondRole = r2
  SecondPermissions = {"sales.manage"}
  Named = {"ACTIVE", "SUSPENDED"}
  Whole = Whole
  Keep = Keep
  None = None
  MaxWrites = 2
SPECIFICATION Spec
SYMMETRY Symmetry
INVARIANTS ScopeIsAttached RevokedStayOut
PROPERTY NobodyLocksHimselfOut
\* Every behaviour stops at the bound of the writes.
CHECK_DEADLOCK FALSE
