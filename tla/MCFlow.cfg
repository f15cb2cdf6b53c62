SPECIFICATION RecordSpec
CONSTANTS
  MinTick = 1
  MaxTick = 3
  MaxOrderQty = 2
  Capacity = 2
  GenerationLimit = 3
  Accounts = {alice, bob}
  InputPrices = {1, 2, 3}
  InputQtys = {1, 2}
  InputTypes = {"Gtc", "Ioc", "PostOnly", "Market"}
  None = None
  NIL = NIL
  WordBits = 2
  target_live = 1
  FirstBid = 1
  FirstAsk = 3
  MaxDepth = 1
  MaxOver = 1
  SmallQty = 1
  LargeQty = 2
SYMMETRY AccountSymmetry
INVARIANTS FlowTypeOK NeverPanics OnlyLiveOrdersAddressed LabelsFit
