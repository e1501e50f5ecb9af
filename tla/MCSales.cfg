\* One order and two sales, of the order or direct, of one variant.
CONSTANTS
  OrderIds = {o1}
  Addresses <- MCAddresses
  NoAddress = NoAddress
  Warehouses = {w1}
  Variants = {v1}
  Quantities = {1}
  MaxStock = 1
  NoWarehouse = NoWarehouse
  SaleIds = {s1, s2}
  Keys = {k1, k2}
  References = {r1, r2}
  Totals = {0, 2}
  Branches = {b1, b2}
  NoBranch = NoBranch
  NoSale = NoSale
  NoOrder = NoOrder
  NoReference = NoReference
SPECIFICATION SalesSpec
SYMMETRY Symmetry
INVARIANTS StockIsExplained SalesStayValid EventsTellTheSale KeysNameOneCall
PROPERTY BookSpec
