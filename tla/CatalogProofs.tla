----------------------------- MODULE CatalogProofs -----------------------------
(***************************************************************************)
(* Proofs about module Catalog, for every set of rows, requests and        *)
(* challenges, and for any number of writes.                               *)
(***************************************************************************)
EXTENDS Catalog, SequenceTheorems, TLAPS

(***************************************************************************)
(* What an open request is about to write: rows, at most one of each       *)
(* table, and parents of categories that are categories.                   *)
(***************************************************************************)
WritesFit(new) ==
  /\ DOMAIN new \subseteq Ids
  /\ \A i \in DOMAIN new : /\ new[i] \in Records
                           /\ KindOf[i] = "category" => \A j \in new[i].refs : KindOf[j] = "category"
  /\ \A i, j \in DOMAIN new : KindOf[i] = KindOf[j] => i = j

(* What the request found when it opened is still so: the parent is there, *)
(* and clean would pass again.                                             *)
Checked(new) ==
  \A i \in DOMAIN new :
    /\ KindOf[i] = "category" => new[i].refs \subseteq Rows("category")
    /\ KindOf[i] \in {"category", "variant"} => Clean(i, new[i])

(* Every write takes `alone' from the requests that it overlaps, so a      *)
(* request that is alone finds what it read.                               *)
EditFits(q) ==
  Open(q) => /\ DOMAIN edit[q] = {"writes", "alone"}
             /\ WritesFit(edit[q].writes)
             /\ edit[q].alone \in BOOLEAN
             /\ edit[q].alone => Checked(edit[q].writes)

(***************************************************************************)
(* The inductive invariant: the rows that DeletionsAreExplained tells of,  *)
(* the tables that parents are in, and the open requests.                  *)
(***************************************************************************)
CatalogInv ==
  /\ DeletionsAreExplained
  /\ ParentsAreCategories(row)
  /\ edit = [q \in Calls |-> edit[q]]
  /\ \A q \in Calls : EditFits(q)

LEMMA CleanFacts ==
  ASSUME NEW i, NEW r
  PROVE  /\ KindOf[i] = "category" => (Clean(i, r) <=> CategoryClean(i, r))
         /\ KindOf[i] = "variant" => (Clean(i, r) <=> VariantClean(i, r))
  BY DEF Clean

LEMMA RecordFacts ==
  ASSUME NEW r \in Records
  PROVE  r # None /\ r.refs \subseteq Ids /\ r.code \in Codes \cup {NoCode} /\ r.active \in BOOLEAN
  BY CatalogAssumption DEF Records

LEMMA RowIsRecord ==
  ASSUME NEW refs \in SUBSET Ids, NEW code \in Codes \cup {NoCode}, NEW active \in BOOLEAN
  PROVE  /\ Row(refs, code, active) \in Records
         /\ Row(refs, code, active).refs = refs /\ Row(refs, code, active).code = code
  BY DEF Row, Records

------------------------------------------------------------------------------
(* What clean looks at is in the rows.                                     *)
LEMMA CheckedKept ==
  ASSUME row' = row, NEW new
  PROVE  Checked(new)' <=> Checked(new)
  BY DEF Checked, Clean, CategoryClean, VariantClean, CodeIsNew, Ancestors, Upward, Rows, Exists

(* Opening a request changes nothing else.                                 *)
LEMMA OpensInv ==
  ASSUME CatalogInv, NEW q \in Calls, NEW new, Opens(q, new), WritesFit(new), Checked(new)
  PROVE  CatalogInv'
<1>1. /\ edit' = [edit EXCEPT ![q] = [writes |-> new, alone |-> TRUE]]
      /\ row' = row /\ spent' = spent /\ inUse' = inUse /\ challenge' = challenge
      /\ events' = events /\ writes' = writes
  BY DEF Opens
<1>2. /\ edit' = [p \in Calls |-> edit'[p]]
      /\ edit'[q] = [writes |-> new, alone |-> TRUE]
      /\ \A p \in Calls : p # q => edit'[p] = edit[p]
  <2>1. edit = [p \in Calls |-> edit[p]]
    BY DEF CatalogInv
  <2> QED
    BY <1>1, <2>1
<1>3. Checked(new)' <=> Checked(new)
  BY <1>1, CheckedKept
<1>4. ASSUME NEW p \in Calls PROVE EditFits(p)'
  <2>1. CASE p = q
    <3>1. /\ DOMAIN edit'[q] = {"writes", "alone"}
          /\ edit'[q].writes = new /\ edit'[q].alone = TRUE
      BY <1>2
    <3> QED
      BY <1>3, <2>1, <3>1 DEF EditFits, WritesFit
  <2>2. CASE p # q
    <3>1. EditFits(p) /\ edit'[p] = edit[p]
      BY <1>2, <2>2 DEF CatalogInv
    <3>2. PICK e : e = edit[p]
      OBVIOUS
    <3>3. Checked(e.writes)' <=> Checked(e.writes)
      BY <1>1, CheckedKept
    <3> QED
      BY <3>1, <3>2, <3>3 DEF EditFits, Open, WritesFit
  <2> QED
    BY <2>1, <2>2
<1>5. TypeOK'
  <2>1. ASSUME NEW p \in Calls, Open(p)'
        PROVE  /\ DOMAIN edit'[p].writes \subseteq Ids
               /\ Range(edit'[p].writes) \subseteq Records
               /\ edit'[p].alone \in BOOLEAN
    BY <1>4, <2>1 DEF EditFits, WritesFit, Range
  <2> QED
    BY <1>1, <2>1 DEF CatalogInv, DeletionsAreExplained, TypeOK
<1>6. DeletionsAreExplained'
  BY <1>1, <1>5 DEF CatalogInv, DeletionsAreExplained, Exists, ReferencesStand, CodesAreUnique
<1>7. ParentsAreCategories(row)'
  BY <1>1 DEF CatalogInv, ParentsAreCategories
<1> QED
  BY <1>2, <1>4, <1>6, <1>7 DEF CatalogInv

(* One row, new or loaded.                                                 *)
LEMMA OneWriteFits ==
  ASSUME NEW i \in Ids, NEW r \in Records, Clean(i, r),
         KindOf[i] = "category" => r.refs \subseteq Rows("category")
  PROVE  WritesFit([x \in {i} |-> r]) /\ Checked([x \in {i} |-> r])
  BY DEF WritesFit, Checked, Rows

LEMMA OpensNewInv ==
  ASSUME CatalogInv, NEW q \in Calls, NEW kind, NEW records, OpensNew(q, kind, records),
         \A r \in records : r \in Records,
         kind = "category" => \A r \in records : r.refs \subseteq Rows("category")
  PROVE  CatalogInv'
<1>1. PICK i \in Free(kind), r \in records : Clean(i, r) /\ Opens(q, [x \in {i} |-> r])
  BY DEF OpensNew
<1>2. i \in Ids /\ KindOf[i] = kind /\ r \in Records
  BY <1>1 DEF Free
<1>3. WritesFit([x \in {i} |-> r]) /\ Checked([x \in {i} |-> r])
  BY <1>1, <1>2, OneWriteFits
<1> QED
  BY <1>1, <1>3, OpensInv

LEMMA OpensUpdateInv ==
  ASSUME CatalogInv, NEW q \in Calls, NEW i \in Ids, NEW records, OpensUpdate(q, i, records),
         \A r \in records : r \in Records,
         KindOf[i] = "category" => \A r \in records : r.refs \subseteq Rows("category")
  PROVE  CatalogInv'
<1>1. PICK r \in records : Clean(i, r) /\ Opens(q, [x \in {i} |-> r])
  BY DEF OpensUpdate
<1>2. WritesFit([x \in {i} |-> r]) /\ Checked([x \in {i} |-> r])
  BY <1>1, OneWriteFits
<1> QED
  BY <1>1, <1>2, OpensInv

LEMMA OpensProductInv ==
  ASSUME CatalogInv, NEW q \in Calls, NEW products, NEW statuses \in SUBSET BOOLEAN,
         OpensProduct(q, products, statuses), \A r \in products : r \in Records
  PROVE  CatalogInv'
<1>1. PICK i \in Free("product"), j \in Free("variant"), r \in products, c \in Codes, a \in statuses :
        /\ Clean(j, Row({i}, c, a))
        /\ Opens(q, [x \in {i, j} |-> IF x = i THEN r ELSE Row({i}, c, a)])
  BY DEF OpensProduct
<1>2. i \in Ids /\ KindOf[i] = "product" /\ j \in Ids /\ KindOf[j] = "variant" /\ r \in Records
  BY <1>1 DEF Free
<1>3. PICK v \in Records : v = Row({i}, c, a)
  BY <1>1, <1>2, RowIsRecord
<1>4. PICK new : new = [x \in {i, j} |-> IF x = i THEN r ELSE v]
  OBVIOUS
<1>5. DOMAIN new = {i, j} /\ i # j /\ new[i] = r /\ new[j] = v
  BY <1>2, <1>4
<1>6. WritesFit(new)
  BY <1>2, <1>5 DEF WritesFit
<1>7. Checked(new)
  BY <1>1, <1>2, <1>3, <1>5 DEF Checked
<1> QED
  BY <1>1, <1>3, <1>4, <1>6, <1>7, OpensInv

------------------------------------------------------------------------------
(* What the serializers let in are records, and the parents they let in    *)
(* are categories.                                                         *)
LEMMA StatusFacts ==
  ASSUME NEW kind
  PROVE  Statuses(kind) \in SUBSET BOOLEAN /\ Draft(kind) \in BOOLEAN /\ {Draft(kind)} \in SUBSET BOOLEAN
  BY DEF Statuses, Draft

LEMMA RowFacts ==
  ASSUME TypeOK, NEW i \in Ids, Exists(i)
  PROVE  row[i] \in Records /\ row[i].refs \subseteq Ids
<1>1. row[i] \in Records
  BY DEF TypeOK, Exists
<1> QED
  BY <1>1, RecordFacts

LEMMA OptionalFacts ==
  ASSUME NEW kind, NEW p \in Optional(Rows(kind))
  PROVE  p \in SUBSET Ids /\ p \subseteq Rows(kind)
  BY DEF Optional, Rows

LEMMA CategoryWritesFit ==
  ASSUME NEW r, \/ r \in CategoryCreate \/ r \in CategoryWrite
                \/ \E i \in Ids : r \in CategoryUpdate(i)
  PROVE  r \in Records /\ r.refs \subseteq Rows("category")
<1>1. \E p \in Optional(Rows("category")), a \in BOOLEAN : r = Row(p, NoCode, a)
  <2>1. CASE r \in CategoryCreate
    BY <2>1 DEF CategoryCreate
  <2>2. CASE r \in CategoryWrite
    BY <2>2, StatusFacts DEF CategoryWrite
  <2>3. CASE \E i \in Ids : r \in CategoryUpdate(i)
    BY <2>3, StatusFacts DEF CategoryUpdate
  <2> QED
    BY <2>1, <2>2, <2>3
<1> QED
  BY <1>1, OptionalFacts, RowIsRecord

LEMMA PlainWritesFit ==
  ASSUME NEW r, \/ r \in BrandCreate \/ r \in BrandWrite
                \/ r \in SupplierCreate \/ r \in SupplierWrite \/ \E i \in Ids : r \in SupplierUpdate(i)
                \/ r \in CustomerCreate \/ \E i \in Ids : r \in CustomerUpdate(i)
                \/ r \in WarehouseCreate \/ r \in WarehouseWrite \/ \E i \in Ids : r \in WarehouseUpdate(i)
  PROVE  r \in Records
<1>1. \E c \in Codes \cup {NoCode}, a \in BOOLEAN : r = Row({}, c, a)
  <2>1. CASE r \in BrandCreate
    BY <2>1 DEF BrandCreate
  <2>2. CASE r \in BrandWrite \/ r \in SupplierCreate \/ r \in SupplierWrite
    BY <2>2, StatusFacts DEF BrandWrite, SupplierCreate, SupplierWrite
  <2>3. CASE \E i \in Ids : r \in SupplierUpdate(i)
    BY <2>3, StatusFacts DEF SupplierUpdate
  <2>4. CASE r \in CustomerCreate \/ r \in WarehouseCreate \/ r \in WarehouseWrite
    BY <2>4, StatusFacts DEF CustomerCreate, WarehouseCreate, WarehouseWrite
  <2>5. CASE \E i \in Ids : r \in CustomerUpdate(i) \/ r \in WarehouseUpdate(i)
    BY <2>5, StatusFacts DEF CustomerUpdate, WarehouseUpdate
  <2> QED
    BY <2>1, <2>2, <2>3, <2>4, <2>5
<1> QED
  BY <1>1, RowIsRecord

LEMMA ProductWritesFit ==
  ASSUME TypeOK, NEW r, \/ r \in ProductCreate \/ r \in ProductWrite
                        \/ \E i \in Ids : Exists(i) /\ r \in ProductUpdate(i)
  PROVE  r \in Records
<1>1. \E c \in Ids, b \in Optional(Rows("brand")), a \in BOOLEAN : r = Row({c} \cup b, NoCode, a)
  <2>0. Rows("category") \subseteq Ids /\ Offered \subseteq Ids
    BY DEF Rows, Offered
  <2>1. CASE r \in ProductCreate
    BY <2>0, <2>1, StatusFacts DEF ProductCreate
  <2>2. CASE r \in ProductWrite
    BY <2>0, <2>2, StatusFacts DEF ProductWrite
  <2>3. CASE \E i \in Ids : Exists(i) /\ r \in ProductUpdate(i)
    <3>1. PICK i \in Ids : Exists(i) /\ r \in ProductUpdate(i)
      BY <2>3
    <3>2. RefsOf(i, "category") \subseteq Ids
      BY <3>1, RowFacts DEF RefsOf
    <3> QED
      <4>1. PICK c \in Offered \cup RefsOf(i, "category"), b \in Optional(Rows("brand")),
                 a \in Statuses("product") : r = Row({c} \cup b, NoCode, a)
        BY <3>1 DEF ProductUpdate
      <4>2. c \in Ids /\ a \in BOOLEAN
        BY <2>0, <3>2, <4>1, StatusFacts
      <4> QED
        BY <4>1, <4>2
  <2> QED
    BY <2>1, <2>2, <2>3
<1> QED
  BY <1>1, OptionalFacts, RowIsRecord

LEMMA VariantWritesFit ==
  ASSUME TypeOK,
         NEW r, \/ \E p \in Ids : r \in VariantCreate(p) \/ r \in VariantWrite(p)
                \/ \E i \in Ids : Exists(i) /\ r \in VariantUpdate(i)
  PROVE  r \in Records
<1>1. \E refs \in SUBSET Ids, c \in Codes, a \in BOOLEAN : r = Row(refs, c, a)
  <2>1. CASE \E p \in Ids : r \in VariantCreate(p)
    BY <2>1, StatusFacts DEF VariantCreate
  <2>2. CASE \E p \in Ids : r \in VariantWrite(p)
    BY <2>2, StatusFacts DEF VariantWrite
  <2>3. CASE \E i \in Ids : Exists(i) /\ r \in VariantUpdate(i)
    <3>1. PICK i \in Ids : Exists(i) /\ r \in VariantUpdate(i)
      BY <2>3
    <3>2. row[i].refs \in SUBSET Ids
      BY <3>1, RowFacts
    <3> QED
      BY <3>1, <3>2, StatusFacts DEF VariantUpdate
  <2> QED
    BY <2>1, <2>2, <2>3
<1> QED
  BY <1>1, RowIsRecord

LEMMA StaffInv ==
  ASSUME CatalogInv, NEW q \in Calls, StaffNext(q)
  PROVE  CatalogInv'
<1>0. TypeOK /\ \A kind : \A i \in Rows(kind) : i \in Ids /\ Exists(i) /\ KindOf[i] = kind
  BY DEF CatalogInv, DeletionsAreExplained, Rows
<1>1. CASE CreateCategory(q)
  <2>1. OpensNew(q, "category", CategoryCreate)
    BY <1>1 DEF CreateCategory
  <2> QED
    BY <2>1, CategoryWritesFit, OpensNewInv
<1>2. CASE CategoryManagement(q)
  <2>1. PICK i \in Rows("category") : OpensUpdate(q, i, CategoryUpdate(i))
    BY <1>2 DEF CategoryManagement
  <2>2. \A r \in CategoryUpdate(i) : r \in Records /\ r.refs \subseteq Rows("category")
    BY <1>0, <2>1, CategoryWritesFit
  <2> QED
    BY <1>0, <2>1, <2>2, OpensUpdateInv
<1>3. CASE CreateBrand(q) \/ CreateSupplier(q) \/ CreateCustomer(q) \/ CreateWarehouse(q)
  <2>1. \/ OpensNew(q, "brand", BrandCreate) \/ OpensNew(q, "supplier", SupplierCreate)
        \/ OpensNew(q, "customer", CustomerCreate) \/ OpensNew(q, "warehouse", WarehouseCreate)
    BY <1>3 DEF CreateBrand, CreateSupplier, CreateCustomer, CreateWarehouse
  <2> QED
    BY <2>1, PlainWritesFit, OpensNewInv
<1>4. CASE UpdateSupplier(q) \/ UpdateCustomer(q)
  <2>1. PICK i \in Ids :
          \/ OpensUpdate(q, i, SupplierUpdate(i)) /\ KindOf[i] # "category"
          \/ OpensUpdate(q, i, CustomerUpdate(i)) /\ KindOf[i] # "category"
    BY <1>0, <1>4 DEF UpdateSupplier, UpdateCustomer
  <2>2. \A r : r \in SupplierUpdate(i) \/ r \in CustomerUpdate(i) => r \in Records
    BY PlainWritesFit
  <2> QED
    BY <2>1, <2>2, OpensUpdateInv
<1>5. CASE UpdateWarehouse(q)
  <2>0. PICK i \in Rows("warehouse") : \E r \in WarehouseUpdate(i) : Opens(q, [x \in {i} |-> r])
    BY <1>5 DEF UpdateWarehouse
  <2>1. PICK r \in WarehouseUpdate(i) : Opens(q, [x \in {i} |-> r])
    BY <2>0
  <2>2. r \in Records /\ i \in Ids /\ KindOf[i] = "warehouse"
    BY <1>0, <2>0, <2>1, PlainWritesFit
  <2>3. WritesFit([x \in {i} |-> r]) /\ Checked([x \in {i} |-> r])
    BY <2>2 DEF WritesFit, Checked
  <2> QED
    BY <2>1, <2>3, OpensInv
<1>6. CASE CreateProduct(q)
  <2>1. OpensProduct(q, ProductCreate, {Draft("variant")})
    BY <1>6 DEF CreateProduct
  <2> QED
    BY <1>0, <2>1, StatusFacts, ProductWritesFit, OpensProductInv
<1>7. CASE UpdateProduct(q) \/ UpdateVariant(q)
  <2>1. PICK i \in Ids : /\ Exists(i) /\ KindOf[i] # "category"
                         /\ OpensUpdate(q, i, ProductUpdate(i)) \/ OpensUpdate(q, i, VariantUpdate(i))
    BY <1>0, <1>7 DEF UpdateProduct, UpdateVariant
  <2>2. \A r : r \in ProductUpdate(i) \/ r \in VariantUpdate(i) => r \in Records
    BY <1>0, <2>1, ProductWritesFit, VariantWritesFit
  <2> QED
    BY <2>1, <2>2, OpensUpdateInv
<1>8. CASE CreateVariant(q)
  <2>1. PICK p \in Rows("product") : OpensNew(q, "variant", VariantCreate(p))
    BY <1>8 DEF CreateVariant
  <2> QED
    BY <1>0, <2>1, VariantWritesFit, OpensNewInv
<1> QED
  BY <1>1, <1>2, <1>3, <1>4, <1>5, <1>6, <1>7, <1>8 DEF StaffNext

LEMMA MaintainersInv ==
  ASSUME CatalogInv, NEW q \in Calls, MaintainersNext(q)
  PROVE  CatalogInv'
<1>0. TypeOK /\ \A kind : \A i \in Rows(kind) : i \in Ids /\ Exists(i) /\ KindOf[i] = kind
  BY DEF CatalogInv, DeletionsAreExplained, Rows
<1>1. CASE MaintainsCategories(q)
  <2>1. \A r \in CategoryWrite : r \in Records /\ r.refs \subseteq Rows("category")
    BY CategoryWritesFit
  <2> QED
    BY <1>0, <1>1, <2>1, OpensNewInv, OpensUpdateInv DEF MaintainsCategories
<1>2. CASE MaintainsBrands(q) \/ MaintainsSuppliers(q) \/ MaintainsWarehouses(q)
  <2>1. \A r : r \in BrandWrite \/ r \in SupplierWrite \/ r \in WarehouseWrite => r \in Records
    BY PlainWritesFit
  <2>2. \/ OpensNew(q, "brand", BrandWrite) \/ OpensNew(q, "supplier", SupplierWrite)
        \/ OpensNew(q, "warehouse", WarehouseWrite)
        \/ \E i \in Ids : /\ KindOf[i] # "category"
                          /\ \/ OpensUpdate(q, i, BrandWrite) \/ OpensUpdate(q, i, SupplierWrite)
                             \/ OpensUpdate(q, i, WarehouseWrite)
    BY <1>0, <1>2 DEF MaintainsBrands, MaintainsSuppliers, MaintainsWarehouses
  <2> QED
    BY <2>1, <2>2, OpensNewInv, OpensUpdateInv
<1>3. CASE MaintainsProducts(q)
  <2>1. \A r \in ProductWrite : r \in Records
    BY <1>0, ProductWritesFit
  <2>2. \/ OpensProduct(q, ProductWrite, Statuses("variant")) \/ OpensNew(q, "product", ProductWrite)
        \/ \E i \in Ids : KindOf[i] # "category" /\ OpensUpdate(q, i, ProductWrite)
    BY <1>0, <1>3 DEF MaintainsProducts
  <2> QED
    BY <2>1, <2>2, StatusFacts, OpensProductInv, OpensNewInv, OpensUpdateInv
<1>4. CASE MaintainsVariants(q)
  <2>1. PICK p \in Ids : \/ OpensNew(q, "variant", VariantWrite(p))
                         \/ \E i \in Ids : KindOf[i] # "category" /\ OpensUpdate(q, i, VariantWrite(p))
    BY <1>0, <1>4 DEF MaintainsVariants
  <2>2. \A r \in VariantWrite(p) : r \in Records
    BY <1>0, VariantWritesFit
  <2> QED
    BY <2>1, <2>2, OpensNewInv, OpensUpdateInv
<1> QED
  BY <1>1, <1>2, <1>3, <1>4 DEF MaintainersNext

------------------------------------------------------------------------------
(* A write leaves the other requests open, and none of them alone.         *)
LEMMA OverlappedFits ==
  ASSUME CatalogInv, NEW e, edit' = Overlapped(e)
  PROVE  /\ edit' = [p \in Calls |-> edit'[p]]
         /\ \A p \in Calls : EditFits(p)'
         /\ \A p \in Calls : Open(p)' => /\ DOMAIN edit'[p].writes \subseteq Ids
                                         /\ Range(edit'[p].writes) \subseteq Records
                                         /\ edit'[p].alone \in BOOLEAN
<1>1. edit' = [p \in Calls |-> edit'[p]]
  BY DEF Overlapped
<1>2. ASSUME NEW p \in Calls, Open(p)'
      PROVE  /\ EditFits(p)'
             /\ DOMAIN edit'[p].writes \subseteq Ids
             /\ Range(edit'[p].writes) \subseteq Records
             /\ edit'[p].alone \in BOOLEAN
  <2>1. Open(p) /\ edit'[p] = [edit[p] EXCEPT !.alone = FALSE]
    BY <1>2 DEF Overlapped, Open
  <2>2. /\ DOMAIN edit[p] = {"writes", "alone"} /\ WritesFit(edit[p].writes)
    BY <2>1 DEF CatalogInv, EditFits
  <2>3. /\ DOMAIN edit'[p] = {"writes", "alone"}
        /\ edit'[p].writes = edit[p].writes /\ edit'[p].alone = FALSE
    BY <2>1, <2>2
  <2>4. WritesFit(edit[p].writes) => WritesFit(edit[p].writes)'
    BY <2>3 DEF WritesFit
  <2> QED
    <3>1. EditFits(p)'
      BY <2>2, <2>3, <2>4 DEF EditFits
    <3>2. DOMAIN edit[p].writes \subseteq Ids /\ Range(edit[p].writes) \subseteq Records
      BY <2>2 DEF WritesFit, Range
    <3> QED
      BY <2>3, <3>1, <3>2
<1>3. ASSUME NEW p \in Calls, ~Open(p)' PROVE EditFits(p)'
  BY <1>3 DEF EditFits
<1> QED
  BY <1>1, <1>2, <1>3

(* A write that deletes nothing.                                           *)
LEMMA WriteInv ==
  ASSUME CatalogInv, NEW e, edit' = Overlapped(e), Counted,
         row' \in [Ids -> Records \cup {None}], spent' \subseteq Ids,
         UNCHANGED <<inUse, challenge, events>>,
         ReferencesStand(row'), CodesAreUnique(row'), ParentsAreCategories(row'),
         \A i \in Ids : Exists(i) => Exists(i)',
         spent \subseteq spent', \A i \in spent' : i \in spent \/ Exists(i)'
  PROVE  CatalogInv'
<1>1. TypeOK'
  <2>1. writes' \in 0..MaxWrites
    BY CatalogAssumption DEF Counted, CatalogInv, DeletionsAreExplained, TypeOK
  <2> QED
    BY <2>1, OverlappedFits DEF CatalogInv, DeletionsAreExplained, TypeOK
<1>2. DeletionsAreExplained'
  <2>1. \A i \in spent' : ~Exists(i)' => \E n \in DOMAIN events' : events'[n].row = i
    BY DEF CatalogInv, DeletionsAreExplained, TypeOK
  <2>2. ReferencesStand(row)' /\ CodesAreUnique(row)'
    BY DEF ReferencesStand, CodesAreUnique
  <2>3. \A i \in inUse' : Exists(i)'
    BY DEF CatalogInv, DeletionsAreExplained, TypeOK
  <2>4. \A i \in spent' : KindOf[i] \in ProtectedFromHardDelete => Exists(i)'
    BY DEF CatalogInv, DeletionsAreExplained, TypeOK
  <2>5. /\ \A n \in DOMAIN events' : challenge'[events'[n].challenge] = [row |-> events'[n].row, state |-> "USED"]
        /\ \A m, n \in DOMAIN events' : events'[m].challenge = events'[n].challenge => m = n
    BY DEF CatalogInv, DeletionsAreExplained
  <2> QED
    BY <1>1, <2>1, <2>2, <2>3, <2>4, <2>5 DEF DeletionsAreExplained
<1>3. ParentsAreCategories(row)'
  BY DEF ParentsAreCategories
<1> QED
  BY <1>2, <1>3, OverlappedFits DEF CatalogInv

LEMMA SavesFacts ==
  ASSUME CatalogInv, NEW q \in Calls, Saves(q)
  PROVE  /\ Open(q) /\ WritesFit(edit[q].writes)
         /\ row' = Written(edit[q].writes) /\ spent' = spent \cup DOMAIN edit[q].writes
         /\ Counted /\ edit' = Overlapped(q) /\ UNCHANGED <<inUse, challenge, events>>
         /\ ReferencesStand(row') /\ CodesAreUnique(row')
  BY DEF Saves, CatalogInv, EditFits

LEMMA SavesInv ==
  ASSUME CatalogInv, NEW q \in Calls, Saves(q)
  PROVE  CatalogInv'
<1>1. PICK new : new = edit[q].writes
  OBVIOUS
<1>2. /\ WritesFit(new) /\ row' = Written(new) /\ spent' = spent \cup DOMAIN new
      /\ Counted /\ edit' = Overlapped(q) /\ UNCHANGED <<inUse, challenge, events>>
      /\ ReferencesStand(row') /\ CodesAreUnique(row')
  BY <1>1, SavesFacts
<1>3. \A i \in Ids : row'[i] = IF i \in DOMAIN new THEN new[i] ELSE row[i]
  BY <1>2 DEF Written
<1>4. \A i \in DOMAIN new : i \in Ids /\ new[i] \in Records /\ new[i] # None
  BY <1>2, RecordFacts DEF WritesFit
<1>5. row' \in [Ids -> Records \cup {None}] /\ spent' \subseteq Ids
  BY <1>2, <1>4 DEF Written, CatalogInv, DeletionsAreExplained, TypeOK
<1>6. ParentsAreCategories(row')
  BY <1>2, <1>3 DEF CatalogInv, ParentsAreCategories, WritesFit
<1>7. /\ \A i \in Ids : Exists(i) => Exists(i)'
      /\ \A i \in spent' : i \in spent \/ Exists(i)'
  BY <1>2, <1>3, <1>4 DEF Exists
<1> QED
  BY <1>2, <1>5, <1>6, <1>7, WriteInv

LEMMA SavesStatusInv ==
  ASSUME CatalogInv, NEW i \in Ids, SavesStatus(i)
  PROVE  CatalogInv'
<1>0. TypeOK /\ row[i] \in Records /\ Exists(i)
  BY RowFacts DEF SavesStatus, CatalogInv, DeletionsAreExplained
<1>1. PICK new \in BOOLEAN : row' = [row EXCEPT ![i].active = new]
  BY StatusFacts DEF SavesStatus
<1>2. PICK r : r = [row[i] EXCEPT !.active = new]
  OBVIOUS
<1>3. r \in Records /\ r.refs = row[i].refs /\ r.code = row[i].code /\ r # None
  BY <1>0, <1>2, CatalogAssumption DEF Records
<1>4. row' \in [Ids -> Records \cup {None}] /\ row'[i] = r /\ \A j \in Ids : j # i => row'[j] = row[j]
  BY <1>0, <1>1, <1>2, <1>3 DEF TypeOK
<1>5. \A j \in Ids : /\ row'[j] = None <=> row[j] = None
                     /\ row[j] # None => row'[j].refs = row[j].refs /\ row'[j].code = row[j].code
  BY <1>0, <1>3, <1>4 DEF Exists
<1>6. \A j \in Ids : row[j] # None => row[j].refs \subseteq Ids
  BY <1>0, RowFacts DEF Exists
<1>7. ReferencesStand(row') /\ CodesAreUnique(row') /\ ParentsAreCategories(row')
  BY <1>5, <1>6 DEF CatalogInv, DeletionsAreExplained, ReferencesStand, CodesAreUnique, ParentsAreCategories
<1>8. \A j \in Ids : Exists(j) => Exists(j)'
  BY <1>5 DEF Exists
<1>9. /\ edit' = Overlapped(None) /\ Counted /\ spent' = spent
      /\ UNCHANGED <<inUse, challenge, events>>
  BY DEF SavesStatus
<1>10. spent' \subseteq Ids
  BY <1>0, <1>9 DEF TypeOK
<1> QED
  BY <1>4, <1>7, <1>8, <1>9, <1>10, WriteInv

------------------------------------------------------------------------------
(* Steps that write no row and open no request.                            *)
LEMMA EditsKept ==
  ASSUME CatalogInv, UNCHANGED <<row, writes>>, spent' = spent,
         edit' = [p \in Calls |-> edit'[p]],
         \A p \in Calls : Open(p)' => Open(p) /\ edit'[p] = edit[p]
  PROVE  /\ \A p \in Calls : EditFits(p)'
         /\ \A p \in Calls : Open(p)' => /\ DOMAIN edit'[p].writes \subseteq Ids
                                         /\ Range(edit'[p].writes) \subseteq Records
                                         /\ edit'[p].alone \in BOOLEAN
         /\ ReferencesStand(row)' /\ CodesAreUnique(row)' /\ ParentsAreCategories(row)'
         /\ \A i \in Ids : Exists(i)' <=> Exists(i)
         /\ row' \in [Ids -> Records \cup {None}] /\ writes' \in 0..MaxWrites
<1>1. ASSUME NEW p \in Calls, Open(p)'
      PROVE  /\ EditFits(p)'
             /\ DOMAIN edit'[p].writes \subseteq Ids
             /\ Range(edit'[p].writes) \subseteq Records
             /\ edit'[p].alone \in BOOLEAN
  <2>1. PICK e : e = edit[p]
    OBVIOUS
  <2>2. Open(p) /\ edit'[p] = e /\ EditFits(p)
    BY <1>1, <2>1 DEF CatalogInv
  <2>3. Checked(e.writes)' <=> Checked(e.writes)
    BY CheckedKept
  <2>4. EditFits(p)'
    BY <2>1, <2>2, <2>3 DEF EditFits, WritesFit
  <2>5. DOMAIN e.writes \subseteq Ids /\ Range(e.writes) \subseteq Records /\ e.alone \in BOOLEAN
    BY <2>1, <2>2 DEF EditFits, WritesFit, Range
  <2> QED
    BY <2>2, <2>4, <2>5
<1>2. ASSUME NEW p \in Calls, ~Open(p)' PROVE EditFits(p)'
  BY <1>2 DEF EditFits
<1> QED
  BY <1>1, <1>2 DEF CatalogInv, DeletionsAreExplained, TypeOK, ReferencesStand, CodesAreUnique,
                    ParentsAreCategories, Exists

LEMMA RefusedInv ==
  ASSUME CatalogInv, NEW q \in Calls, Refused(q)
  PROVE  CatalogInv'
<1>1. edit' = [edit EXCEPT ![q] = None] /\ UNCHANGED <<row, spent, inUse, challenge, events, writes>>
  BY DEF Refused
<1>2. edit = [p \in Calls |-> edit[p]]
  BY DEF CatalogInv
<1>3. /\ edit' = [p \in Calls |-> edit'[p]]
      /\ \A p \in Calls : Open(p)' => Open(p) /\ edit'[p] = edit[p]
  BY <1>1, <1>2 DEF Open
<1>4. TypeOK'
  BY <1>1, <1>3, EditsKept DEF CatalogInv, DeletionsAreExplained, TypeOK
<1>5. DeletionsAreExplained'
  BY <1>1, <1>4 DEF CatalogInv, DeletionsAreExplained, Exists, ReferencesStand, CodesAreUnique
<1> QED
  BY <1>1, <1>3, <1>5, EditsKept DEF CatalogInv

LEMMA StutterInv ==
  ASSUME CatalogInv, UNCHANGED vars
  PROVE  CatalogInv'
<1>1. /\ edit' = edit /\ UNCHANGED <<row, writes>> /\ spent' = spent /\ inUse' = inUse
      /\ challenge' = challenge /\ events' = events
  BY DEF vars
<1>2. /\ edit' = [p \in Calls |-> edit'[p]]
      /\ \A p \in Calls : Open(p)' => Open(p) /\ edit'[p] = edit[p]
  BY <1>1 DEF CatalogInv, Open
<1>4. TypeOK'
  BY <1>1, <1>2, EditsKept DEF CatalogInv, DeletionsAreExplained, TypeOK
<1>5. DeletionsAreExplained'
  BY <1>1, <1>4 DEF CatalogInv, DeletionsAreExplained, Exists, ReferencesStand, CodesAreUnique
<1> QED
  BY <1>1, <1>2, <1>5, EditsKept DEF CatalogInv

LEMMA EventFacts ==
  ASSUME TypeOK, NEW n \in DOMAIN events
  PROVE  events[n].row \in Ids /\ events[n].challenge \in Challenges
<1>1. events \in Seq([row : Ids, challenge : Challenges])
  BY DEF TypeOK
<1>2. n \in 1..Len(events)
  BY <1>1
<1>3. events[n] \in [row : Ids, challenge : Challenges]
  BY <1>1, <1>2, ElementOfSeq
<1> QED
  BY <1>3

(* References from stock, orders and sales, and challenges.                *)
LEMMA ReferInv ==
  ASSUME CatalogInv, NEW i \in Ids, OtherRowsRefer(i)
  PROVE  CatalogInv'
<1>1. /\ edit' = edit /\ UNCHANGED <<row, writes>> /\ spent' = spent
      /\ Exists(i) /\ inUse' = inUse \cup {i}
      /\ challenge' = challenge /\ events' = events
  BY DEF OtherRowsRefer
<1>2. /\ edit' = [p \in Calls |-> edit'[p]]
      /\ \A p \in Calls : Open(p)' => Open(p) /\ edit'[p] = edit[p]
  BY <1>1 DEF CatalogInv, Open
<1>3. TypeOK'
  BY <1>1, <1>2, EditsKept DEF CatalogInv, DeletionsAreExplained, TypeOK
<1>4. DeletionsAreExplained'
  BY <1>1, <1>3 DEF CatalogInv, DeletionsAreExplained, Exists, ReferencesStand, CodesAreUnique
<1> QED
  BY <1>1, <1>2, <1>4, EditsKept DEF CatalogInv

LEMMA ChallengesInv ==
  ASSUME CatalogInv, NEW h \in Challenges,
         (\E i \in Ids : CreateChallenge(h, i)) \/ Expires(h)
  PROVE  CatalogInv'
<1>1. /\ edit' = edit /\ UNCHANGED <<row, writes>> /\ spent' = spent /\ inUse' = inUse
      /\ events' = events
  BY DEF CreateChallenge, Expires
<1>2. /\ edit' = [p \in Calls |-> edit'[p]]
      /\ \A p \in Calls : Open(p)' => Open(p) /\ edit'[p] = edit[p]
  BY <1>1 DEF CatalogInv, Open
<1>3. /\ challenge' \in [Challenges -> ChallengeRecords \cup {None}]
      /\ \A g \in Challenges : challenge'[g] # challenge[g] =>
           challenge[g] = None \/ challenge[g].state = "OPEN"
  <2>1. challenge \in [Challenges -> ChallengeRecords \cup {None}]
    BY DEF CatalogInv, DeletionsAreExplained, TypeOK
  <2>2. CASE \E i \in Ids : CreateChallenge(h, i)
    <3>1. PICK i \in Ids : CreateChallenge(h, i)
      BY <2>2
    <3>2. [row |-> i, state |-> "OPEN"] \in ChallengeRecords
      BY DEF ChallengeRecords
    <3> QED
      BY <2>1, <3>1, <3>2 DEF CreateChallenge
  <2>3. CASE Expires(h)
    <3>1. challenge[h] \in ChallengeRecords /\ challenge[h].state = "OPEN"
      BY <2>1, <2>3 DEF Expires
    <3>2. challenge' = [challenge EXCEPT ![h].state = "EXPIRED"]
      BY <2>3 DEF Expires
    <3>3. [challenge[h] EXCEPT !.state = "EXPIRED"] \in ChallengeRecords
      BY <3>1 DEF ChallengeRecords
    <3> QED
      BY <2>1, <3>1, <3>2, <3>3
  <2> QED
    BY <2>2, <2>3
<1>4. TypeOK'
  BY <1>1, <1>2, <1>3, EditsKept DEF CatalogInv, DeletionsAreExplained, TypeOK
<1>5. \A n \in DOMAIN events : challenge'[events[n].challenge] = challenge[events[n].challenge]
  <2> SUFFICES ASSUME NEW n \in DOMAIN events
               PROVE  challenge'[events[n].challenge] = challenge[events[n].challenge]
    OBVIOUS
  <2>1. challenge[events[n].challenge] = [row |-> events[n].row, state |-> "USED"]
        /\ events[n].challenge \in Challenges /\ events[n].row \in Ids
    BY EventFacts DEF CatalogInv, DeletionsAreExplained
  <2>2. challenge[events[n].challenge] \in ChallengeRecords
        /\ challenge[events[n].challenge].state = "USED"
    BY <2>1 DEF ChallengeRecords
  <2> QED
    BY <1>3, <2>1, <2>2, CatalogAssumption
<1>6. DeletionsAreExplained'
  BY <1>1, <1>4, <1>5 DEF CatalogInv, DeletionsAreExplained, Exists, ReferencesStand, CodesAreUnique
<1> QED
  BY <1>1, <1>2, <1>6, EditsKept DEF CatalogInv

(***************************************************************************)
(* execute_challenge deletes a row that nothing refers to, and says so.    *)
(***************************************************************************)
LEMMA ExecuteInv ==
  ASSUME CatalogInv, NEW h \in Challenges, ExecuteChallenge(h)
  PROVE  CatalogInv'
<1>0. TypeOK /\ DeletionsAreExplained
  BY DEF CatalogInv, DeletionsAreExplained
<1>1. PICK i \in Ids : challenge[h].row = i /\ challenge[h].state = "OPEN" /\ challenge[h] \in ChallengeRecords
  <2>1. challenge[h] \in ChallengeRecords /\ challenge[h].state = "OPEN"
    BY <1>0 DEF ExecuteChallenge, TypeOK
  <2> QED
    BY <2>1 DEF ChallengeRecords
<1>2. /\ Exists(i) /\ KindOf[i] \notin ProtectedFromHardDelete
      /\ i \notin inUse /\ \A j \in Ids : Exists(j) => i \notin row[j].refs
      /\ Counted
      /\ row' = [row EXCEPT ![i] = None]
      /\ challenge' = [challenge EXCEPT ![h].state = "USED"]
      /\ events' = Append(events, [row |-> i, challenge |-> h])
      /\ edit' = Overlapped(None) /\ spent' = spent /\ inUse' = inUse
  BY <1>1 DEF ExecuteChallenge, CanHardDelete, Referred
<1>3. /\ row' \in [Ids -> Records \cup {None}]
      /\ row'[i] = None /\ \A j \in Ids : j # i => row'[j] = row[j]
  BY <1>0, <1>2 DEF TypeOK
<1>4. /\ challenge' \in [Challenges -> ChallengeRecords \cup {None}]
      /\ challenge'[h] = [row |-> i, state |-> "USED"]
      /\ \A g \in Challenges : g # h => challenge'[g] = challenge[g]
  <2>1. [challenge[h] EXCEPT !.state = "USED"] = [row |-> i, state |-> "USED"]
    BY <1>1 DEF ChallengeRecords
  <2>2. [row |-> i, state |-> "USED"] \in ChallengeRecords
    BY DEF ChallengeRecords
  <2> QED
    BY <1>0, <1>2, <2>1, <2>2 DEF TypeOK
<1>5. /\ events \in Seq([row : Ids, challenge : Challenges])
      /\ events' \in Seq([row : Ids, challenge : Challenges])
      /\ DOMAIN events' = DOMAIN events \cup {Len(events) + 1}
      /\ events'[Len(events) + 1] = [row |-> i, challenge |-> h]
      /\ \A n \in DOMAIN events : events'[n] = events[n]
  BY <1>0, <1>2 DEF TypeOK
<1>6. \A n \in DOMAIN events : events[n].challenge # h
  <2> SUFFICES ASSUME NEW n \in DOMAIN events, events[n].challenge = h PROVE FALSE
    OBVIOUS
  <2>1. challenge[h] = [row |-> events[n].row, state |-> "USED"]
    BY <1>0 DEF DeletionsAreExplained
  <2>2. challenge[h].state = "USED"
    BY <2>1
  <2> QED
    BY <1>1, <2>2
<1>7. TypeOK'
  <2>1. writes' \in 0..MaxWrites
    BY <1>0, <1>2, CatalogAssumption DEF Counted, TypeOK
  <2> QED
    BY <1>0, <1>2, <1>3, <1>4, <1>5, <2>1, OverlappedFits DEF TypeOK
<1>8. \A j \in spent' : ~Exists(j)' => \E n \in DOMAIN events' : events'[n].row = j
  <2> SUFFICES ASSUME NEW j \in spent, row'[j] = None
               PROVE  \E n \in DOMAIN events' : events'[n].row = j
    BY <1>2 DEF Exists
  <2>1. CASE j = i
    BY <1>5, <2>1
  <2>2. CASE j # i
    <3>1. PICK n \in DOMAIN events : events[n].row = j
      BY <1>0, <1>3, <2>2 DEF DeletionsAreExplained, Exists, TypeOK
    <3> QED
      BY <1>5, <3>1
  <2> QED
    BY <2>1, <2>2
<1>9. \A n \in DOMAIN events' :
        challenge'[events'[n].challenge] = [row |-> events'[n].row, state |-> "USED"]
  <2> SUFFICES ASSUME NEW n \in DOMAIN events'
               PROVE  challenge'[events'[n].challenge] = [row |-> events'[n].row, state |-> "USED"]
    OBVIOUS
  <2>1. CASE n = Len(events) + 1
    BY <1>4, <1>5, <2>1
  <2>2. CASE n \in DOMAIN events
    <3>1. events[n].challenge \in Challenges /\ events[n].challenge # h
      BY <1>0, <1>6, <2>2, EventFacts
    <3> QED
      BY <1>0, <1>4, <1>5, <2>2, <3>1 DEF DeletionsAreExplained
  <2> QED
    BY <1>5, <2>1, <2>2
<1>10. \A m, n \in DOMAIN events' : events'[m].challenge = events'[n].challenge => m = n
  <2> SUFFICES ASSUME NEW m \in DOMAIN events', NEW n \in DOMAIN events',
                      events'[m].challenge = events'[n].challenge
               PROVE  m = n
    OBVIOUS
  <2>1. events'[Len(events) + 1].challenge = h
    BY <1>5
  <2>2. m \in DOMAIN events /\ n \in DOMAIN events => m = n
    BY <1>0, <1>5 DEF DeletionsAreExplained
  <2> QED
    BY <1>5, <1>6, <2>1, <2>2
<1>11. ReferencesStand(row)' /\ CodesAreUnique(row)' /\ ParentsAreCategories(row)'
  BY <1>0, <1>2, <1>3 DEF CatalogInv, DeletionsAreExplained, ReferencesStand, CodesAreUnique,
                          ParentsAreCategories, Exists
<1>12. /\ \A j \in inUse' : Exists(j)'
       /\ \A j \in spent' : KindOf[j] \in ProtectedFromHardDelete => Exists(j)'
  BY <1>0, <1>2, <1>3 DEF DeletionsAreExplained, Exists, TypeOK
<1>13. DeletionsAreExplained'
  BY <1>7, <1>8, <1>9, <1>10, <1>11, <1>12 DEF DeletionsAreExplained
<1> QED
  BY <1>2, <1>11, <1>13, OverlappedFits DEF CatalogInv

------------------------------------------------------------------------------
LEMMA CatalogInvInit == Init => CatalogInv
<1> SUFFICES ASSUME Init PROVE CatalogInv
  OBVIOUS
<1>1. row = Seed /\ spent = {i \in Ids : Seed[i] # None} /\ inUse = {} /\ events = <<>> /\ writes = 0
      /\ edit = [q \in Calls |-> None] /\ challenge = [h \in Challenges |-> None]
  BY DEF Init
<1>2. TypeOK
  BY <1>1, CatalogAssumption DEF TypeOK, Open
<1>3. DeletionsAreExplained
  BY <1>1, <1>2, SeedAssumption DEF DeletionsAreExplained, Exists
<1>4. ParentsAreCategories(row) /\ edit = [q \in Calls |-> edit[q]]
  BY <1>1, SeedAssumption
<1>5. \A q \in Calls : EditFits(q)
  BY <1>1 DEF EditFits, Open
<1> QED
  BY <1>3, <1>4, <1>5 DEF CatalogInv

LEMMA CatalogInvNext == CatalogInv /\ [Next]_vars => CatalogInv'
<1> SUFFICES ASSUME CatalogInv, [Next]_vars PROVE CatalogInv'
  OBVIOUS
<1>1. ASSUME NEW q \in Calls, StaffNext(q) \/ MaintainersNext(q) \/ Saves(q) \/ Refused(q)
      PROVE  CatalogInv'
  BY <1>1, StaffInv, MaintainersInv, SavesInv, RefusedInv
<1>2. CASE TogglesNext
  <2>1. \E i \in Ids : SavesStatus(i)
    BY <1>2 DEF TogglesNext, ToggleCategory, ToggleProduct, ToggleVariant, ToggleSupplier, ChangeState, Rows
  <2> QED
    BY <2>1, SavesStatusInv
<1>3. CASE DeletionNext
  BY <1>3, ReferInv, ChallengesInv, ExecuteInv DEF DeletionNext
<1>4. CASE UNCHANGED vars
  BY <1>4, StutterInv
<1> QED
  BY <1>1, <1>2, <1>3, <1>4 DEF Next

(* maintainers/lifecycle.py: whatever requests, references and other       *)
(* deletions come between a preview and its execution, what is gone was    *)
(* deleted on purpose, once, and nothing refers to it.                     *)
THEOREM DeletionsStayExplained == Spec => []DeletionsAreExplained
<1>1. CatalogInv => DeletionsAreExplained
  BY DEF CatalogInv
<1> QED
  BY <1>1, CatalogInvInit, CatalogInvNext, PTL DEF Spec

------------------------------------------------------------------------------
(***************************************************************************)
(* The category tree.  Parents are rows, so the ancestors of a parent are  *)
(* the least set with it that no parent leaves.                            *)
(***************************************************************************)
LEMMA ParentsStand ==
  ASSUME CatalogInv, NEW i \in Rows("category")
  PROVE  row[i].refs \subseteq Rows("category")
<1>1. i \in Ids /\ row[i] # None /\ KindOf[i] = "category"
  BY DEF Rows, Exists
<1>2. row[i].refs \subseteq Ids
  BY <1>1, RowFacts DEF CatalogInv, DeletionsAreExplained, Exists
<1> QED
  BY <1>1, <1>2 DEF CatalogInv, DeletionsAreExplained, ReferencesStand, ParentsAreCategories, Rows, Exists

LEMMA AncestorsFacts ==
  ASSUME CatalogInv, NEW refs \in SUBSET Rows("category")
  PROVE  /\ Ancestors(refs) \subseteq Rows("category")
         /\ refs \subseteq Ancestors(refs)
         /\ \A k \in Ancestors(refs) : row[k].refs \subseteq Ancestors(refs)
         /\ \A S \in SUBSET Rows("category") :
              refs \subseteq S /\ (\A k \in S : row[k].refs \subseteq S) => Ancestors(refs) \subseteq S
<1>1. Ancestors(refs) \subseteq Rows("category")
  BY DEF Ancestors
<1>2. refs \subseteq Ancestors(refs)
  BY DEF Ancestors, Upward
<1>3. ASSUME NEW k \in Ancestors(refs), NEW j \in row[k].refs PROVE j \in Ancestors(refs)
  <2>1. j \in Rows("category")
    BY <1>1, <1>3, ParentsStand
  <2>2. ASSUME NEW S \in SUBSET Rows("category"), Upward(refs, S) PROVE j \in S
    BY <1>3, <2>2 DEF Ancestors, Upward
  <2> QED
    BY <2>1, <2>2 DEF Ancestors
<1> QED
  BY <1>1, <1>2, <1>3 DEF Ancestors, Upward

(* A set that no parent leaves, and that has the parent of j but not j.    *)
LEMMA NotAbove ==
  ASSUME NEW j, NEW S, S \subseteq Rows("category")', j \notin S,
         row'[j].refs \subseteq S, \A k \in S : row'[k].refs \subseteq S
  PROVE  j \notin Ancestors(row[j].refs)'
  BY DEF Ancestors, Upward

LEMMA TreeStays ==
  ASSUME NoCategoryCycles, \A j \in Ids : KindOf[j] = "category" => row'[j] = row[j]
  PROVE  NoCategoryCycles'
<1>1. Rows("category")' = Rows("category") /\ \A j \in Rows("category") : row'[j] = row[j]
  BY DEF Rows, Exists
<1>2. ASSUME NEW j \in Rows("category") PROVE Ancestors(row[j].refs)' = Ancestors(row[j].refs)
  <2>1. \A S \in SUBSET Rows("category") :
          Upward(row[j].refs, S)' <=> Upward(row[j].refs, S)
    BY <1>1 DEF Upward
  <2> QED
    BY <1>1, <2>1 DEF Ancestors
<1> QED
  BY <1>1, <1>2 DEF NoCategoryCycles

(* A category that is written under one that is not below it.              *)
LEMMA TreeMoves ==
  ASSUME CatalogInv, NoCategoryCycles, NEW i \in Ids, KindOf[i] = "category",
         NEW r \in Records, r.refs \subseteq Rows("category"), CategoryClean(i, r),
         row'[i] = r, \A j \in Ids : KindOf[j] = "category" /\ j # i => row'[j] = row[j]
  PROVE  NoCategoryCycles'
<1> DEFINE up == Ancestors(r.refs)
<1>1. /\ up \subseteq Rows("category") /\ r.refs \subseteq up /\ i \notin up
      /\ \A k \in up : row[k].refs \subseteq up
      /\ \A S \in SUBSET Rows("category") :
           r.refs \subseteq S /\ (\A k \in S : row[k].refs \subseteq S) => up \subseteq S
  BY AncestorsFacts DEF CategoryClean
<1>2. PICK U : U = up
  OBVIOUS
<1>3. /\ U \subseteq Rows("category") /\ r.refs \subseteq U /\ i \notin U
      /\ \A k \in U : row[k].refs \subseteq U
  BY <1>1, <1>2
<1>4. Rows("category")' = Rows("category") \cup {i}
  BY RecordFacts DEF Rows, Exists
<1>5. \A j \in Rows("category") : j # i => row'[j] = row[j]
  BY DEF Rows
<1>6. i \notin Ancestors(row[i].refs)'
  <2>1. \A k \in U : row'[k].refs \subseteq U
    BY <1>3, <1>5
  <2> QED
    BY <1>3, <1>4, <2>1, NotAbove
<1>7. ASSUME NEW j \in Rows("category"), j # i PROVE j \notin Ancestors(row[j].refs)'
  <2>1. row[j].refs \in SUBSET Rows("category")
    BY ParentsStand
  <2>2. PICK V : V = Ancestors(row[j].refs)
    OBVIOUS
  <2>3. /\ V \subseteq Rows("category") /\ row[j].refs \subseteq V
        /\ \A k \in V : row[k].refs \subseteq V
        /\ \A S \in SUBSET Rows("category") :
             row[j].refs \subseteq S /\ (\A k \in S : row[k].refs \subseteq S) => V \subseteq S
    BY <2>1, <2>2, AncestorsFacts
  <2>4. j \notin V
    BY <2>2 DEF NoCategoryCycles
  <2>5. row'[j].refs = row[j].refs
    BY <1>5, <1>7
  <2>6. CASE i \notin V
    <3>1. \A k \in V : row'[k].refs \subseteq V
      BY <1>5, <2>3, <2>6
    <3> QED
      BY <1>4, <2>3, <2>4, <2>5, <3>1, NotAbove
  <2>7. CASE i \in V
    <3>1. j \notin U
      <4> SUFFICES ASSUME j \in U PROVE FALSE
        OBVIOUS
      <4>1. row[j].refs \subseteq U
        BY <1>3
      <4>2. V \subseteq U
        BY <1>3, <2>3, <4>1
      <4> QED
        BY <1>3, <2>7, <4>2
    <3>2. PICK S : S = U \cup V
      OBVIOUS
    <3>3. \A k \in S : row'[k].refs \subseteq S
      <4> SUFFICES ASSUME NEW k \in S PROVE row'[k].refs \subseteq S
        OBVIOUS
      <4>1. CASE k = i
        BY <1>3, <3>2, <4>1
      <4>2. CASE k # i
        <5>1. row'[k] = row[k]
          BY <1>3, <1>5, <2>3, <3>2, <4>2
        <5> QED
          BY <1>3, <2>3, <3>2, <5>1
      <4> QED
        BY <4>1, <4>2
    <3>4. S \subseteq Rows("category")' /\ j \notin S /\ row'[j].refs \subseteq S
      BY <1>3, <1>4, <2>3, <2>4, <2>5, <3>1, <3>2
    <3> QED
      BY <3>3, <3>4, NotAbove
  <2> QED
    BY <2>6, <2>7
<1> QED
  BY <1>4, <1>6, <1>7 DEF NoCategoryCycles

LEMMA LoneSave ==
  ASSUME CatalogInv, NEW q \in Calls, Saves(q), edit[q].alone, NoCategoryCycles, SkusAreUnique
  PROVE  NoCategoryCycles' /\ SkusAreUnique'
<1>1. PICK new : new = edit[q].writes
  OBVIOUS
<1>2. WritesFit(new) /\ Checked(new) /\ row' = Written(new)
  BY <1>1, SavesFacts DEF CatalogInv, EditFits
<1>3. \A i \in Ids : row'[i] = IF i \in DOMAIN new THEN new[i] ELSE row[i]
  BY <1>2 DEF Written
<1>4. /\ DOMAIN new \subseteq Ids
      /\ \A i \in DOMAIN new : new[i] \in Records
      /\ \A i, j \in DOMAIN new : KindOf[i] = KindOf[j] => i = j
  BY <1>2 DEF WritesFit
<1>5. NoCategoryCycles'
  <2>1. CASE \E i \in DOMAIN new : KindOf[i] = "category"
    <3>1. PICK i \in DOMAIN new : KindOf[i] = "category"
      BY <2>1
    <3>2. new[i].refs \subseteq Rows("category") /\ CategoryClean(i, new[i])
      BY <1>2, <3>1, CleanFacts DEF Checked
    <3>3. row'[i] = new[i] /\ \A j \in Ids : KindOf[j] = "category" /\ j # i => row'[j] = row[j]
      BY <1>3, <1>4, <3>1
    <3> QED
      BY <1>4, <3>1, <3>2, <3>3, TreeMoves
  <2>2. CASE \A i \in DOMAIN new : KindOf[i] # "category"
    BY <1>3, <2>2, TreeStays
  <2> QED
    BY <2>1, <2>2
<1>6. SkusAreUnique'
  <2> SUFFICES ASSUME NEW i \in Ids, NEW j \in Ids, KindOf[i] = "variant", KindOf[j] = "variant",
                      row'[i] # None, row'[j] # None, row'[i].code = row'[j].code
               PROVE  i = j
    BY DEF SkusAreUnique, Rows, Exists
  <2>1. \A k \in DOMAIN new : KindOf[k] = "variant" =>
          \A m \in Rows("variant") : m # k => row[m].code # new[k].code
    BY <1>2, CleanFacts DEF Checked, VariantClean
  <2>2. \A k \in Ids : KindOf[k] = "variant" /\ row'[k] # None /\ k \notin DOMAIN new => k \in Rows("variant")
    BY <1>3 DEF Rows, Exists
  <2>3. CASE i \in DOMAIN new /\ j \in DOMAIN new
    BY <1>4, <2>3
  <2>4. CASE i \in DOMAIN new /\ j \notin DOMAIN new
    BY <1>3, <2>1, <2>2, <2>4
  <2>5. CASE i \notin DOMAIN new /\ j \in DOMAIN new
    BY <1>3, <2>1, <2>2, <2>5
  <2>6. CASE i \notin DOMAIN new /\ j \notin DOMAIN new
    BY <1>3, <2>2, <2>6 DEF SkusAreUnique
  <2> QED
    BY <2>3, <2>4, <2>5, <2>6
<1> QED
  BY <1>5, <1>6

(* Category.clean and ProductVariant.clean look at enough: a request that  *)
(* no other write overlaps never closes a cycle of categories, whatever    *)
(* the tree and the move, and never repeats an SKU.                        *)
THEOREM LoneEditsAreSafe == Spec => LoneEditsKeepOrder
<1>1. CatalogInv /\ [Next]_vars
        => [\A q \in Calls :
              Open(q) /\ edit[q].alone /\ Saves(q) /\ NoCategoryCycles /\ SkusAreUnique
                => NoCategoryCycles' /\ SkusAreUnique']_vars
  BY LoneSave
<1> QED
  BY <1>1, CatalogInvInit, CatalogInvNext, PTL DEF Spec, LoneEditsKeepOrder
===============================================================================
