SPECIFICATION EventsSpec
CONSTANTS
  alice = alice
  bob = bob
  carol = carol
  gold = gold
  Accounts = {alice, bob, carol}
  Tokens = {gold}
  CreateRequests <- Requests
  FactoryAnswers = {}
  TopUpAmounts = {3}
  GrantOps <- OperationSets
  Expiries <- ExpirySet
  Delegates = {carol}
  HaltOperators = {carol}
  MAX_BATCH_SIZE = 1
  Fees = {0}
  Rebases = {}
  I128Max = 28
  U64Max = 100
  MaxStreams = 1
  MaxTime = 2
  MaxDrift = 0
  MaxJournal = 2
INVARIANTS
  IndexerCatchesUp
  SenderIsNeverRecipient
PROPERTIES
  EventsTellAll
  EventsBalance
  EventsNameBothParties
  OnlyDelegatedTopUpsReduce
  LinearStreamsKeepPromise
  EveryChangeIsAuthorized
CHECK_DEADLOCK FALSE
