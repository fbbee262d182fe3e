SPECIFICATION Spec
CONSTANTS
  alice = alice
  bob = bob
  carol = carol
  gold = gold
  silver = silver
  Accounts = {alice, bob, carol}
  Tokens = {gold, silver}
  CreateRequests <- Requests
  FactoryAnswers = {}
  TopUpAmounts = {1}
  GrantOps = {}
  Expiries = {}
  Delegates = {}
  HaltOperators = {carol}
  MAX_BATCH_SIZE = 2
  Fees = {0, 1}
  Rebases <- TokenChanges
  I128Max = 6
  U64Max = 100
  MaxStreams = 2
  MaxTime = 2
  MaxDrift = 1
INVARIANTS
  PoolMatchesClaims
PROPERTIES
  ShortfallNeverOpened
  ShortfallBlocksPayouts
  HaltAllowsOnlyCancellation
CHECK_DEADLOCK FALSE
