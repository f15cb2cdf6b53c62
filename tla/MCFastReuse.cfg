SPECIFICATION HistorySpec
CONSTANTS
  MinTick = 1
  MaxTick = 1
  MaxOrderQty = 2
  Capacity = 2
  GenerationLimit = 3
  Accounts = {alice, bob}
  InputPrices = {1}
  InputQtys = {0, 1, 2, 3}
  InputTypes = {"Gtc", "Market"}
  None = None
  NIL = NIL
  WordBits = 2
SYMMETRY AccountSymmetry
INVARIANTS TypeOK SlotAccounting
PROPERTIES ImplementsReference
