SPECIFICATION ProtocolSpec
CONSTANTS
  alice = alice
  bob = bob
  gold = gold
  contract = contract
  Accounts = {alice, bob}
  Tokens = {gold}
  CreateRequests <- Requests
  FactoryAnswers = {}
  TopUpAmounts = {}
  GrantOps = {}
  Expiries = {}
  Delegates = {}
  HaltOperators = {}
  MAX_BATCH_SIZE = 1
  Fees = {0}
  Rebases = {}
  I128Max = 66
  U64Max = 100
  MaxStreams = 1
  MaxTime = 1
  MaxDrift = 0
  Contracts = {contract}
  Caps = {6}
  MinDurations = {2}
  Rates <- RateArguments
  MAX_MIN_DURATION_SECONDS = 4
PROPERTIES
  RoutedRecipientsAllowlisted
CHECK_DEADLOCK FALSE
