SPECIFICATION RecordSpec
CONSTANTS
  MinTick = 1
  MaxTick = 1
  MaxOrderQty = 2
  Capacity = 3
  GenerationLimit = 1
  Accounts = {alice, bob}
  InputPrices = {1}
  InputQtys = {1, 2}
  InputTypes = {"Gtc", "Ioc", "PostOnly", "Market"}
  None = None
  NIL = NIL
  WordBits = 2
  target_live = 1
  FirstBid = 1
  FirstAsk = 1
  MaxDepth = 0
  MaxOver = 0
  SmallQty = 1
  LargeQty = 2
SYMMETRY AccountSymmetry
INVARIANTS IndexLeadsToOrders TracksTheBook
