CONSTANTS
  same = same
  spelledOtherwise = spelledOtherwise
  other = other
  item = item
  otherItem = otherItem
  hasty = hasty
  k1 = k1
  Parent = {shopper, hasty}
  Shopper = shopper
  ApiCalls <- HastyCalls
  Key = {k1, k2}
  Body = {same, spelledOtherwise, other}
  Item = {item, otherItem}
  ItemOf <- ItemOfBody
  Id = {n1, n2}
  Proc = {p1, p2}
  Null = Null
SPECIFICATION CheckoutSpec
SYMMETRY Symmetry
INVARIANTS
  CheckoutTypeOK
  AnswersAreTrue
  PersistUncontended
  
  CarefulShopperBuysOnce
PROPERTY ImplementsOrders
