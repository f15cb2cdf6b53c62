SPECIFICATION Spec
CONSTANTS
  MinTick = 1
  MaxTick = 2
  MaxOrderQty = 2
  Capacity = 2
  GenerationLimit = 3
  Accounts = {alice, bob}
  InputPrices = {0, 1, 2, 3}
  InputQtys = {0, 1, 2, 3}
  InputTypes = {"Gtc", "Ioc", "PostOnly", "Market"}
  None = None
SYMMETRY AccountSymmetry
INVARIANTS TypeOK SlotAccounting OrdersValid BookNotCrossed RejectIsAlone
PROPERTIES EventsTellTheBook RestingOrdersKeepTheirPlace IdsNeverReused
