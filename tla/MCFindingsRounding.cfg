SPECIFICATION Spec
CONSTANTS
  alice = alice
  bob = bob
  gold = gold
  Accounts = {alice, bob}
  Tokens = {gold}
  CreateRequests <- FrontLoadedRequests
  FactoryAnswers = {}
  TopUpAmounts = {}
  GrantOps = {}
  Expiries = {}
  Delegates = {}
  HaltOperators = {}
  MAX_BATCH_SIZE = 1
  Fees = {0}
  Rebases = {}
  I128Max = 2000
  U64Max = 100
  MaxStreams = 1
  MaxTime = 33
  MaxDrift = 0
INVARIANTS
  FrontLoadedRoundsDown
CHECK_DEADLOCK FALSE
