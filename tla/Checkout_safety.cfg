SPECIFICATION Spec
CONSTANTS
  Handlers = {h1, h2}
  Keys = {k1}
  NoKey = NoKey
  Products = {p1, p3}
  ProductIds = {p1, p2, p3}
  Users = {u1}
  BuyerIds = {u1, u2}
  Quantities <- MCQuantities
  OrderIds = {o1, o2}
  None = None
  Price <- MCPrice
  InitStock <- MCStock
  InitBalance <- MCBalance
SYMMETRY Symmetry
INVARIANTS Conservation AllOrNothing NoPhantomEvent OneOrderPerKey AnswersAgree NoDeadlock
PROPERTY ImplementsLedger
