SPECIFICATION Spec
CONSTANTS
  o = o
  p = p
  q = q
  None = None
  Order = {o}
  Capture = {p, q}
  Version = {1, 2}
  Price <- TwoLists
  MaxQuantity = 2
  Discount = {0, 2}
  Payment <- Provider
  Token = {1, 2, 3}
  TokenOrder <- OneOrder
  Client = {1, 2}
  CallMixes <- Editing
PROPERTY FrozenAtPayment
CHECK_DEADLOCK FALSE
