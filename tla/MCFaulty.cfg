SPECIFICATION FaultySpec
CONSTANTS
  MinTick = 1
  MaxTick = 2
  MaxOrderQty = 2
  Capacity = 2
  GenerationLimit = 1
  Accounts = {alice, bob}
  InputPrices = {1, 2, 3}
  InputQtys = {1, 2}
  InputTypes = {"Gtc", "Ioc", "PostOnly"}
  None = None
SYMMETRY AccountSymmetry
INVARIANTS FaultsNoticed
CHECK_DEADLOCK FALSE
