SPECIFICATION BothSpec
CONSTANTS
  MinTick = 1
  MaxTick = 3
  MaxOrderQty = 3
  Capacity = 6
  GenerationLimit = 10
  Accounts = {0, 1, 2, 3, 4}
  InputPrices = {1, 2, 3}
  InputQtys = {1, 2}
  InputTypes = {"Gtc"}
  None = None
INVARIANTS SameFills SameBook
CHECK_DEADLOCK FALSE
