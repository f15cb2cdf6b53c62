SPECIFICATION AuditedSpec
CONSTANTS
  MinTick = 1
  MaxTick = 1
  MaxOrderQty = 2
  Capacity = 2
  GenerationLimit = 3
  Accounts = {alice, bob}
  InputPrices = {1}
  InputQtys = {1, 2}
  InputTypes = {"Gtc"}
  None = None
SYMMETRY AccountSymmetry
INVARIANTS NoFalseAlarm EverIsIssued
