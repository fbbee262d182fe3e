SPECIFICATION FairSpec
CONSTANTS
  alice = alice
  bob = bob
  gold = gold
  Accounts = {alice, bob}
  Tokens = {gold}
  CreateRequests <- Requests
  FactoryAnswers = {}
  TopUpAmounts = {1}
  GrantOps = {}
  Expiries = {}
  Delegates = {}
  HaltOperators = {alice}
  MAX_BATCH_SIZE = 1
  Fees = {0}
  Rebases = {}
  I128Max = 9
  U64Max = 100
  MaxStreams = 2
  MaxTime = 3
  MaxDrift = 0
PROPERTIES
  UnpausableStreamsArePaidOut
CHECK_DEADLOCK FALSE
