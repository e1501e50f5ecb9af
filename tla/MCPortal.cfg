\* Two users with two calls and two keys; one unit of one variant in one warehouse.
CONSTANTS
  OrderIds = {o1, o2}
  Addresses <- MCAddresses
  NoAddress = NoAddress
  Warehouses = {w1}
  Variants = {v1}
  Quantities = {1}
  MaxStock = 1
  NoWarehouse = NoWarehouse
  Users = {u1, u2}
  Customers = {c1, c2}
  RequestKeys = {k1, k2}
  Calls = {p1, p2}
  NoUser = NoUser
  NoCustomer = NoCustomer
  NoCall = NoCall
SPECIFICATION PortalSpec
SYMMETRY Symmetry
INVARIANTS PortalStockIsSound OneOrderPerKey OrdersStayPrivate
