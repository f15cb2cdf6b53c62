SPECIFICATION HistorySpec
CONSTANTS
  MinTick = 1
  MaxTick = 3
  MaxOrderQty = 1
  Capacity = 2
  GenerationLimit = 3
  Accounts = {alice, bob}
  InputPrices = {1, 2, 3, 4}
  InputQtys = {1}
  InputTypes = {"Gtc", "Ioc", "PostOnly"}
  None = None
  NIL = NIL
  WordBits = 2
SYMMETRY AccountSymmetry
INVARIANTS LevelsAgree MakerIsLive
PROPERTIES ImplementsReference
