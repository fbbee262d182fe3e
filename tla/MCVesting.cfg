SPECIFICATION Spec
CONSTANTS
  alice = alice
  bob = bob
  gold = gold
  Accounts = {alice, bob}
  Tokens = {gold}
  CreateRequests <- Requests
  FactoryAnswers <- FactoryAnswerSet
  TopUpAmounts = {0, 3, 8}
  GrantOps <- SenderSide
  Expiries <- UpToThree
  Delegates = {bob}
  HaltOperators = {}
  MAX_BATCH_SIZE = 1
  Fees = {0}
  Rebases = {}
  I128Max = 85
  U64Max = 100
  MaxStreams = 1
  MaxTime = 8
  MaxDrift = 0
INVARIANTS
  TypeOK
  WithdrawnVestedDeposited
  PauseCoherence
  SettledStreamsFullyVested
  LiveStreamsOwe
  AccrualNeverOverflows
  UnstoppableStreamsMature
  EitherOrderSettlesAlike
PROPERTIES
  VestedNeverDecreases
  PauseFreezesAccrual
  TopUpNeverAccelerates
  GuaranteesHold
  KeepsPromise
CHECK_DEADLOCK FALSE
