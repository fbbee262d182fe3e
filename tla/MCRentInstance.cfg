SPECIFICATION RentSpec
CONSTANTS
  alice = alice
  bob = bob
  carol = carol
  gold = gold
  Accounts = {alice, bob, carol}
  Tokens = {gold}
  CreateRequests <- Requests
  FactoryAnswers <- LenientFactory
  TopUpAmounts = {4}
  GrantOps <- OperationSets
  Expiries = {5}
  Delegates = {carol}
  HaltOperators = {carol}
  MAX_BATCH_SIZE = 1
  Fees = {0}
  Rebases = {}
  I128Max = 300
  U64Max = 1000000
  MaxStreams = 1
  MaxTime = 7
  MaxDrift = 0
  SECONDS_PER_LEDGER = 3
  TTL_SAFETY_MARGIN_PERCENT = 50
  TTL_BUFFER_SECONDS = 4
  MaxTtl = 7
  U32Max = 1000
  MinPersistentTtl = 1
  CloseTimes = {2, 3}
INVARIANTS
  InstanceOutlivesStreams
CHECK_DEADLOCK FALSE
