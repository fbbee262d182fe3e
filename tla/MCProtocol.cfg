SPECIFICATION ProtocolSpec
CONSTANTS
  alice = alice
  bob = bob
  gold = gold
  contract = contract
  Accounts = {alice, bob}
  Tokens = {gold}
  CreateRequests <- Requests
  FactoryAnswers = {}
  TopUpAmounts = {3}
  GrantOps <- TopUpOnly
  Expiries <- NoExpiry
  Delegates = {bob}
  HaltOperators = {}
  MAX_BATCH_SIZE = 1
  Fees = {0}
  Rebases = {}
  I128Max = 66
  U64Max = 100
  MaxStreams = 1
  MaxTime = 1
  MaxDrift = 0
  Contracts = {contract}
  Caps = {0, 4, 6}
  MinDurations = {2, 5}
  Rates <- RateArguments
  MAX_MIN_DURATION_SECONDS = 4
INVARIANTS
  RoutedStreamsKeepTheFloor
  
PROPERTIES
  FactoryAdminOnly
CHECK_DEADLOCK FALSE
