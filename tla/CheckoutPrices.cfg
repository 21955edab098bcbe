SPECIFICATION Spec
CONSTANTS
  p1 = p1
  p2 = p2
  r1 = r1
  r2 = r2
  k1 = k1
  k2 = k2
  None = None
  Product <- OneProduct
  Offers <- TwoPrices
  FirstOffer <- OneSupplier
  MaxQuantity = 1
  MaxVersion = 2
  Key <- OneKey
  Request <- TwoCalls
  MaxFaults = 0
INVARIANT
  ConfirmedPrice
