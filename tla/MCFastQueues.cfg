SPECIFICATION HistorySpec
CONSTANTS
  MinTick = 1
  MaxTick = 1
  MaxOrderQty = 2
  Capacity = 3
  GenerationLimit = 1
  Accounts = {alice, bob}
  InputPrices = {1}
  InputQtys = {1, 2}
  InputTypes = {"Gtc"}
  None = None
  NIL = NIL
  WordBits = 1
SYMMETRY AccountSymmetry
INVARIANTS QueuesWellLinked QueueOrderIsArrivalOrder
PROPERTIES ImplementsReference
