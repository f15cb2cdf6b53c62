SPECIFICATION Spec
CONSTANTS
  MinTick = 1
  MaxTick = 2
  MaxOrderQty = 3
  Capacity = 2
  GenerationLimit = 1
  Accounts = {alice, bob}
  InputPrices = {0, 1, 2, 3}
  InputQtys = {1, 2, 3}
  InputTypes = {"Gtc", "Market"}
  None = None
SYMMETRY AccountSymmetry
INVARIANTS TradesInOrder CapacityExhaustedIsRare
PROPERTIES TakerConserved
