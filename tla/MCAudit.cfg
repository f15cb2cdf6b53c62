SPECIFICATION AuditedSpec
CONSTANTS
  MinTick = 1
  MaxTick = 2
  MaxOrderQty = 2
  Capacity = 2
  GenerationLimit = 1
  Accounts = {alice, bob}
  InputPrices = {1, 2, 3}
  InputQtys = {1, 2, 3}
  InputTypes = {"Gtc", "Ioc", "PostOnly", "Market"}
  None = None
SYMMETRY AccountSymmetry
INVARIANTS AuditTypeOK NoFalseAlarm MirrorIsTheBook
