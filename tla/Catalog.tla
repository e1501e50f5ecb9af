-------------------------------- MODULE Catalog -------------------------------
(***************************************************************************)
(* The rows of a company's catalog and directories (catalog/, customers/,  *)
(* organizations/, maintainers/): categories, brands, suppliers, products, *)
(* variants, customers and warehouses, and their permanent deletion        *)
(* (maintainers/lifecycle.py).                                             *)
(*                                                                         *)
(* A request that creates or updates a row runs in no transaction of its   *)
(* own and takes no lock: it loads the row, validates, and later writes    *)
(* the WHOLE row back, with whatever the other columns held when it was    *)
(* loaded.  So a request is two steps, Opens and Saves (or Refused), with  *)
(* the steps of others between them.  Only the constraints of the database *)
(* are tested at the write.                                                *)
(*                                                                         *)
(* The calls modelled are those of users who may make them; who may is the *)
(* matter of module Access.                                                *)
(***************************************************************************)
EXTENDS Naturals, FiniteSets, Functions, Sequences

CONSTANTS
  Ids,          \* primary keys
  KindOf,       \* KindOf[i]: the table of i
  Seed,         \* the rows at the start
  Codes,        \* SKUs and codes of customers and warehouses
  NoCode,       \* what the other tables have there
  Calls,        \* requests that may be open at once
  Challenges,   \* rows of DestructiveActionChallenge
  Tracked,      \* bound: the kinds whose rows have a status in the model
  MaxWrites,    \* bound: the writes of a behaviour; no request opens after them
  None          \* no row, no open request, no challenge

VARIABLES
  row,          \* row[i]: the row of i; or None
  spent,        \* primary keys given out: none is given out twice
  inUse,        \* rows that orders, sales or stock refer to
  edit,         \* edit[q]: what the open request q is about to write; or None
  challenge,    \* challenge[h]: the row to delete and the state; or None
  events,       \* the RESOURCE_HARD_DELETED events of the audit
  writes        \* writes so far, of those that MaxWrites bounds

vars == <<row, spent, inUse, edit, challenge, events, writes>>

Kinds == {"category", "brand", "supplier", "product", "variant", "customer", "warehouse"}
Records == [refs : SUBSET Ids, code : Codes \cup {NoCode}, active : BOOLEAN]

ChallengeRecords == [row : Ids, state : {"OPEN", "USED", "EXPIRED"}]

ASSUME CatalogAssumption ==
  /\ KindOf \in [Ids -> Kinds]
  /\ Seed \in [Ids -> Records \cup {None}]
  /\ None \notin Records /\ None \notin ChallengeRecords
  /\ Tracked \subseteq Kinds /\ MaxWrites \in Nat

Exists(i) == row[i] # None
Open(q) == edit[q] # None
Rows(kind) == {i \in Ids : KindOf[i] = kind /\ Exists(i)}

Statuses(kind) == IF kind \in Tracked THEN BOOLEAN ELSE {TRUE}
Draft(kind) == kind \notin Tracked   \* products and variants start as drafts
Row(refs, code, active) == [refs |-> refs, code |-> code, active |-> active]

TypeOK ==
  /\ row \in [Ids -> Records \cup {None}]
  /\ spent \subseteq Ids /\ inUse \subseteq Ids
  /\ \A q \in Calls : Open(q) => /\ DOMAIN edit[q].writes \subseteq Ids
                                 /\ Range(edit[q].writes) \subseteq Records
                                 /\ edit[q].alone \in BOOLEAN
  /\ challenge \in [Challenges -> ChallengeRecords \cup {None}]
  /\ events \in Seq([row : Ids, challenge : Challenges])
  /\ writes \in 0..MaxWrites

Init ==
  /\ row = Seed
  /\ spent = {i \in Ids : Seed[i] # None}
  /\ inUse = {}
  /\ edit = [q \in Calls |-> None]
  /\ challenge = [h \in Challenges |-> None]
  /\ events = <<>>
  /\ writes = 0

------------------------------------------------------------------------------
(* What the models validate by reading other rows.                         *)
(*                                                                         *)
(* Category.clean walks from the parent up: it meets the categories that   *)
(* are in every set with the parent that no parent of the set leaves.  The *)
(* walk must not meet the category itself, nor one that is above itself.   *)
Upward(refs, S) == refs \subseteq S /\ \A i \in S : row[i].refs \subseteq S
Ancestors(refs) ==
  {j \in Rows("category") : \A S \in SUBSET Rows("category") : Upward(refs, S) => j \in S}

(* Mutant of CategoryClean: only the parent is looked at.                  *)
CategoryCleanNear(i, r) == i \notin r.refs
CategoryClean(i, r) ==
  /\ i \notin Ancestors(r.refs)
  /\ \A j \in Ancestors(r.refs) : j \notin Ancestors(row[j].refs)

(* ProductVariant.clean asks for a variant with the SKU; the serializers   *)
(* of customers and warehouses for a row with the code.                    *)
VariantClean(i, r) == \A j \in Rows("variant") \ {i} : row[j].code # r.code
CodeIsNew(i, r) == \A j \in Rows(KindOf[i]) \ {i} : row[j].code # r.code

Clean(i, r) ==
  CASE KindOf[i] = "category" -> CategoryClean(i, r)
    [] KindOf[i] = "variant"  -> VariantClean(i, r)
    [] KindOf[i] \in {"customer", "warehouse"} -> CodeIsNew(i, r)
    [] OTHER -> TRUE

(* What the database enforces: foreign keys, and the unique codes of       *)
(* customers and of warehouses.                                            *)
ReferencesStand(rows) ==
  \A i \in Ids : rows[i] # None => \A j \in rows[i].refs : rows[j] # None
CodesAreUnique(rows) ==
  \A i, j \in Ids : /\ KindOf[i] = KindOf[j] /\ KindOf[i] \in {"customer", "warehouse"}
                    /\ rows[i] # None /\ rows[j] # None /\ i # j
                    => rows[i].code # rows[j].code

(* What the foreign keys of a category may name.                           *)
ParentsAreCategories(rows) ==
  \A i \in Ids : rows[i] # None /\ KindOf[i] = "category" =>
    \A j \in rows[i].refs : KindOf[j] = "category"

ASSUME SeedAssumption ==
  ReferencesStand(Seed) /\ CodesAreUnique(Seed) /\ ParentsAreCategories(Seed)

------------------------------------------------------------------------------
(* Requests.                                                               *)
Counted == writes < MaxWrites /\ writes' = writes + 1
Overlapped(q) == [p \in Calls |-> IF p = q \/ ~Open(p) THEN None
                                  ELSE [edit[p] EXCEPT !.alone = FALSE]]

Claimed(i) == \E q \in Calls : Open(q) /\ i \in DOMAIN edit[q].writes
Free(kind) == {i \in Ids : KindOf[i] = kind /\ i \notin spent /\ ~Claimed(i)}

Opens(q, new) ==
  /\ ~Open(q) /\ writes < MaxWrites
  /\ edit' = [edit EXCEPT ![q] = [writes |-> new, alone |-> TRUE]]
  /\ UNCHANGED <<row, spent, inUse, challenge, events, writes>>

OpensNew(q, kind, records) ==
  \E i \in Free(kind), r \in records : Clean(i, r) /\ Opens(q, [x \in {i} |-> r])
OpensUpdate(q, i, records) ==
  \E r \in records : Clean(i, r) /\ Opens(q, [x \in {i} |-> r])

(* A row that was deleted since it was loaded is inserted again by save(). *)
Written(new) == [i \in Ids |-> IF i \in DOMAIN new THEN new[i] ELSE row[i]]
Saves(q) ==
  LET rows == Written(edit[q].writes) IN
    /\ Open(q)
    /\ Counted
    /\ ReferencesStand(rows) /\ CodesAreUnique(rows)
    /\ row' = rows
    /\ spent' = spent \cup DOMAIN edit[q].writes
    /\ edit' = Overlapped(q)
    /\ UNCHANGED <<inUse, challenge, events>>

Refused(q) ==
  /\ Open(q)
  /\ edit' = [edit EXCEPT ![q] = None]
  /\ UNCHANGED <<row, spent, inUse, challenge, events, writes>>

(* save(update_fields=["status"]): one column, in one statement after      *)
(* clean; nothing is inserted.                                             *)
SavesStatus(i) ==
  /\ Exists(i)
  /\ Clean(i, row[i])
  /\ Counted
  /\ \E new \in Statuses(KindOf[i]) : row' = [row EXCEPT ![i].active = new]
  /\ edit' = Overlapped(None)
  /\ UNCHANGED <<spent, inUse, challenge, events>>

------------------------------------------------------------------------------
(* What each serializer lets in.  An update keeps the columns that the     *)
(* request does not name.                                                  *)
Optional(S) == {{}} \cup {{x} : x \in S}
Offered == {i \in Rows("category") : row[i].active}
RefsOf(i, kind) == {j \in row[i].refs : KindOf[j] = kind}

CategoryCreate == {Row(p, NoCode, TRUE) : p \in Optional(Rows("category"))}
CategoryUpdate(i) == {Row(p, NoCode, a) : p \in Optional(Rows("category")), a \in Statuses("category")}
BrandCreate == {Row({}, NoCode, TRUE)}
SupplierCreate == {Row({}, NoCode, a) : a \in Statuses("supplier")}
SupplierUpdate(i) == {Row({}, NoCode, a) : a \in Statuses("supplier")}
VariantCreate(p) == {Row({p}, c, Draft("variant")) : c \in Codes}
VariantUpdate(i) == {Row(row[i].refs, c, a) : c \in Codes, a \in Statuses("variant")}
ProductCreate == {Row({c} \cup b, NoCode, Draft("product")) : c \in Offered, b \in Optional(Rows("brand"))}
ProductUpdate(i) ==
  {Row({c} \cup b, NoCode, a) : c \in Offered \cup RefsOf(i, "category"),
                                b \in Optional(Rows("brand")), a \in Statuses("product")}
CustomerCreate == {Row({}, c, a) : c \in Codes, a \in Statuses("customer")}
CustomerUpdate(i) == {Row({}, c, a) : c \in Codes, a \in Statuses("customer")}

WarehouseCreate == {Row({}, c, a) : c \in Codes, a \in Statuses("warehouse")}
WarehouseUpdate(i) == {Row({}, c, a) : c \in Codes, a \in Statuses("warehouse")}

CategoryWrite == {Row(p, NoCode, a) : p \in Optional(Rows("category")), a \in Statuses("category")}
BrandWrite == {Row({}, NoCode, a) : a \in Statuses("brand")}
SupplierWrite == {Row({}, NoCode, a) : a \in Statuses("supplier")}
VariantWrite(p) == {Row({p}, c, a) : c \in Codes, a \in Statuses("variant")}
ProductWrite ==
  {Row({c} \cup b, NoCode, a) : c \in Rows("category"), b \in Optional(Rows("brand")), a \in Statuses("product")}
WarehouseWrite == {Row({}, c, a) : c \in Codes, a \in Statuses("warehouse")}

(* A product comes with its first variant, in one transaction.             *)
OpensProduct(q, products, statuses) ==
  \E i \in Free("product"), j \in Free("variant"), r \in products, c \in Codes, a \in statuses :
    /\ Clean(j, Row({i}, c, a))
    /\ Opens(q, [x \in {i, j} |-> IF x = i THEN r ELSE Row({i}, c, a)])

------------------------------------------------------------------------------
(* The staff of a company.                                                 *)
CreateCategory(q) == OpensNew(q, "category", CategoryCreate)
CategoryManagement(q) == \E i \in Rows("category") : OpensUpdate(q, i, CategoryUpdate(i))
CreateBrand(q) == OpensNew(q, "brand", BrandCreate)
CreateSupplier(q) == OpensNew(q, "supplier", SupplierCreate)
UpdateSupplier(q) == \E i \in Rows("supplier") : OpensUpdate(q, i, SupplierUpdate(i))
CreateProduct(q) == OpensProduct(q, ProductCreate, {Draft("variant")})
UpdateProduct(q) == \E i \in Rows("product") : OpensUpdate(q, i, ProductUpdate(i))
CreateVariant(q) == \E p \in Rows("product") : OpensNew(q, "variant", VariantCreate(p))
UpdateVariant(q) == \E i \in Rows("variant") : OpensUpdate(q, i, VariantUpdate(i))
CreateCustomer(q) == OpensNew(q, "customer", CustomerCreate)
UpdateCustomer(q) == \E i \in Rows("customer") : OpensUpdate(q, i, CustomerUpdate(i))
CreateWarehouse(q) == OpensNew(q, "warehouse", WarehouseCreate)
(* The company is no field of this serializer, so nobody asks for a        *)
(* warehouse with the code: the database refuses the write.                *)
UpdateWarehouse(q) == \E i \in Rows("warehouse") : \E r \in WarehouseUpdate(i) : Opens(q, [x \in {i} |-> r])

StaffNext(q) ==
  \/ CreateCategory(q) \/ CategoryManagement(q) \/ CreateBrand(q)
  \/ CreateSupplier(q) \/ UpdateSupplier(q)
  \/ CreateProduct(q) \/ UpdateProduct(q) \/ CreateVariant(q) \/ UpdateVariant(q)
  \/ CreateCustomer(q) \/ UpdateCustomer(q) \/ CreateWarehouse(q) \/ UpdateWarehouse(q)

(* The maintainers of the platform, in any company: they may set the       *)
(* status of what they create, use categories that are inactive, and make  *)
(* a product without variants.                                             *)
MaintainsCategories(q) ==
  OpensNew(q, "category", CategoryWrite) \/ \E i \in Rows("category") : OpensUpdate(q, i, CategoryWrite)
MaintainsBrands(q) ==
  OpensNew(q, "brand", BrandWrite) \/ \E i \in Rows("brand") : OpensUpdate(q, i, BrandWrite)
MaintainsProducts(q) ==
  \/ OpensProduct(q, ProductWrite, Statuses("variant")) \/ OpensNew(q, "product", ProductWrite)
  \/ \E i \in Rows("product") : OpensUpdate(q, i, ProductWrite)
MaintainsVariants(q) ==
  \E p \in Rows("product") :
    \/ OpensNew(q, "variant", VariantWrite(p))
    \/ \E i \in Rows("variant") : p \in row[i].refs /\ OpensUpdate(q, i, VariantWrite(p))
MaintainsSuppliers(q) ==
  OpensNew(q, "supplier", SupplierWrite) \/ \E i \in Rows("supplier") : OpensUpdate(q, i, SupplierWrite)
MaintainsWarehouses(q) ==
  OpensNew(q, "warehouse", WarehouseWrite) \/ \E i \in Rows("warehouse") : OpensUpdate(q, i, WarehouseWrite)

MaintainersNext(q) ==
  \/ MaintainsCategories(q) \/ MaintainsBrands(q) \/ MaintainsProducts(q)
  \/ MaintainsVariants(q) \/ MaintainsSuppliers(q) \/ MaintainsWarehouses(q)

(* Statuses are switched without the rest of the row: category, product,   *)
(* variant and supplier by a view each, every kind by change_state.        *)
ToggleCategory == \E i \in Rows("category") : SavesStatus(i)
ToggleProduct == \E i \in Rows("product") : SavesStatus(i)
ToggleVariant == \E i \in Rows("variant") : SavesStatus(i)
ToggleSupplier == \E i \in Rows("supplier") : SavesStatus(i)
ChangeState == \E i \in Ids : SavesStatus(i)

TogglesNext == ToggleCategory \/ ToggleProduct \/ ToggleVariant \/ ToggleSupplier \/ ChangeState

------------------------------------------------------------------------------
(* Permanent deletion, in two calls.  Stock, orders and sales refer to     *)
(* variants, warehouses and customers; their rows stay.                    *)
OtherRowsRefer(i) ==
  /\ Exists(i) /\ KindOf[i] \in {"variant", "warehouse", "customer"}
  /\ inUse' = inUse \cup {i}
  /\ UNCHANGED <<row, spent, edit, challenge, events, writes>>

ProtectedFromHardDelete == {"customer"}

(* Mutant of Referred: only the relations of the catalog are counted.      *)
ReferredInCatalog(i) == \E j \in Ids : Exists(j) /\ i \in row[j].refs
Referred(i) == i \in inUse \/ \E j \in Ids : Exists(j) /\ i \in row[j].refs

(* preview: related_impact counts every relation of the row.               *)
CanHardDelete(i) ==
  Exists(i) /\ KindOf[i] \notin ProtectedFromHardDelete /\ ~Referred(i)

CreateChallenge(h, i) ==
  /\ challenge[h] = None
  /\ CanHardDelete(i)
  /\ challenge' = [challenge EXCEPT ![h] = [row |-> i, state |-> "OPEN"]]
  /\ UNCHANGED <<row, spent, inUse, edit, events, writes>>

Expires(h) ==
  /\ challenge[h] # None /\ challenge[h].state = "OPEN"
  /\ challenge' = [challenge EXCEPT ![h].state = "EXPIRED"]
  /\ UNCHANGED <<row, spent, inUse, edit, events, writes>>

(* execute_challenge: one transaction with the challenge locked.  What was *)
(* previewed is looked at again.                                           *)
ExecuteChallenge(h) ==
  /\ challenge[h] # None /\ challenge[h].state = "OPEN"
  /\ CanHardDelete(challenge[h].row)
  /\ Counted
  /\ row' = [row EXCEPT ![challenge[h].row] = None]
  /\ challenge' = [challenge EXCEPT ![h].state = "USED"]
  /\ events' = Append(events, [row |-> challenge[h].row, challenge |-> h])
  /\ edit' = Overlapped(None)
  /\ UNCHANGED <<spent, inUse>>

DeletionNext ==
  \/ \E i \in Ids : OtherRowsRefer(i)
  \/ \E h \in Challenges, i \in Ids : CreateChallenge(h, i)
  \/ \E h \in Challenges : Expires(h) \/ ExecuteChallenge(h)

Next ==
  \/ \E q \in Calls : \/ ~Open(q) /\ writes < MaxWrites /\ (StaffNext(q) \/ MaintainersNext(q))
                     \/ Saves(q) \/ Refused(q)
  \/ TogglesNext
  \/ DeletionNext

Spec == Init /\ [][Next]_vars

------------------------------------------------------------------------------
(* "La jerarquia de categorias no puede contener ciclos" (Category.clean): *)
(* the parents of no category lead back to it.                             *)
NoCategoryCycles == \A i \in Rows("category") : i \notin Ancestors(row[i].refs)
(* "El SKU debe ser unico dentro de la empresa" (ProductVariant.clean).    *)
SkusAreUnique == \A i, j \in Rows("variant") : row[i].code = row[j].code => i = j

(***************************************************************************)
(* A request that no other write overlaps keeps the category tree a tree,  *)
(* whatever move it makes, and SKUs unique: what Category.clean and        *)
(* ProductVariant.clean look at is enough.                                 *)
(***************************************************************************)
LoneEditsKeepOrder ==
  [][\A q \in Calls :
       Open(q) /\ edit[q].alone /\ Saves(q) /\ NoCategoryCycles /\ SkusAreUnique
         => NoCategoryCycles' /\ SkusAreUnique']_vars

(***************************************************************************)
(* What is gone was deleted on purpose: a row that was there and is not    *)
(* has an event of the audit, each event used up a challenge of its own    *)
(* for that row, and nothing that is left refers to a row that is gone:    *)
(* no order, stock row or sale loses its variant, warehouse or customer,   *)
(* and no customer vanishes at all.  And every variable keeps its type.    *)
(***************************************************************************)
DeletionsAreExplained ==
  /\ TypeOK
  /\ \A i \in spent : ~Exists(i) => \E n \in DOMAIN events : events[n].row = i
  /\ \A n \in DOMAIN events : challenge[events[n].challenge] = [row |-> events[n].row, state |-> "USED"]
  /\ \A m, n \in DOMAIN events : events[m].challenge = events[n].challenge => m = n
  /\ ReferencesStand(row) /\ CodesAreUnique(row)
  /\ \A i \in inUse : Exists(i)
  /\ \A i \in spent : KindOf[i] \in ProtectedFromHardDelete => Exists(i)

==============================================================================
