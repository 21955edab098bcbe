SPECIFICATION Spec
CONSTANTS
  p1 = p1
  p2 = p2
  r1 = r1
  r2 = r2
  k1 = k1
  k2 = k2
  None = None
  Product <- TwoProducts
  Offers <- Suppliers
  FirstOffer <- OneSupplier
  MaxQuantity = 2
  MaxVersion = 2
  Key <- TwoKeys
  Request <- TwoCalls
  MaxFaults = 1
SYMMETRY Interchangeable
INVARIANTS
  TypeOK
  OrderHoldsVersion
  AnswersAgree
  OrderAnswersItsKey
PROPERTIES
  KeySettles
  OwnerKeepsClaim
