SPECIFICATION Spec
CONSTANTS
  c1 = c1
  c2 = c2
  c3 = c3
  tea = tea
  nuts = nuts
  None = None
  Calls = {c1, c2, c3}
  Products = {tea, nuts}
  Prices = {0, 3}
  Carts <- SomeCarts
  StandardFee = 3
  RemoteFee = 5
  Threshold = 6
  MaxChanges = 1
INVARIANT TypeOK
INVARIANT PricesInForce
INVARIANT QuoteHonoured
INVARIANT DetailAddsUp
SYMMETRY Interchangeable
CHECK_DEADLOCK FALSE
