SPECIFICATION FairSpec
CONSTANTS
  Handlers = {h1, h2, h3}
  Keys = {k1}
  NoKey = NoKey
  Products = {p1}
  ProductIds = {p1}
  Users = {u1}
  BuyerIds = {u1}
  Quantities = {1}
  OrderIds = {o1}
  None = None
  Price <- MCPrice
  InitStock <- MCLastItem
  InitBalance <- MCBalance
PROPERTY EveryRequestEnds
