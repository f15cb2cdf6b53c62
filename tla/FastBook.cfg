SPECIFICATION FairSpec
CONSTANTS
  MinTick = 1
  MaxTick = 1
  MaxOrderQty = 2
  Capacity = 2
  GenerationLimit = 1
  Accounts = {alice, bob}
  InputPrices = {1}
  InputQtys = {1, 2}
  InputTypes = {"Gtc", "Market"}
  None = None
  NIL = NIL
  WordBits = 1
PROPERTIES CommandsFinish
