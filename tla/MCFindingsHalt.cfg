SPECIFICATION Spec
CONSTANTS
  alice = alice
  bob = bob
  gold = gold
  Accounts = {alice, bob}
  Tokens = {gold}
  CreateRequests <- LinearRequests
  FactoryAnswers = {}
  TopUpAmounts = {}
  GrantOps = {}
  Expiries = {}
  Delegates = {}
  HaltOperators = {bob}
  MAX_BATCH_SIZE = 1
  Fees = {0}
  Rebases = {}
  I128Max = 64
  U64Max = 100
  MaxStreams = 1
  MaxTime = 2
  MaxDrift = 0
PROPERTIES
  HaltRefusesEveryChange
CHECK_DEADLOCK FALSE
