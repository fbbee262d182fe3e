SPECIFICATION Spec
CONSTANTS
  alice = alice
  bob = bob
  gold = gold
  Accounts = {alice, bob}
  Tokens = {gold}
  CreateRequests <- StepRequests
  FactoryAnswers = {}
  TopUpAmounts = {3}
  GrantOps <- TopUpGrants
  Expiries <- Never
  Delegates = {bob}
  HaltOperators = {}
  MAX_BATCH_SIZE = 1
  Fees = {0}
  Rebases = {}
  I128Max = 64
  U64Max = 100
  MaxStreams = 1
  MaxTime = 3
  MaxDrift = 0
PROPERTIES
  VestedNeverDecreases
CHECK_DEADLOCK FALSE
