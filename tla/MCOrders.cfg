\* Two orders that compete for one variant in two warehouses.
CONSTANTS
  OrderIds = {o1, o2}
  o1 = o1
  m1 = m1
  m2 = m2
  NoAddress = NoAddress
  Addresses <- MCAddresses
  Warehouses = {w1, w2}
  Variants = {v1}
  Quantities = {1, 2}
  MaxStock = 2
  NoWarehouse = NoWarehouse
SPECIFICATION Spec
SYMMETRY Symmetry
INVARIANTS TypeOK Conservation Traceability NoticesFollowStatus
PROPERTY LifecycleSpec
