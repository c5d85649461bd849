\* One scenario: adapters, partial and repeated receipts, checkpoints, both
\* diagnostics, and the vault with two holders.
SPECIFICATION Spec
CONSTANTS
  home = home
  twin = twin
  far = far
  alice = alice
  bob = bob
  None = None
  Family <- MCFamily
  NetworkOf <- MCNetworkOf
  UintLimit = 256
  DestinationAttempts = 3
  Bps = 4
  StepOffset = 1
  Holder = {alice, bob}
  ScheduleOwner = alice
  VaultAccount = VaultAccount
  Funds <- MCFunds
  Opening <- MCOpening
  Home = home
  Twin = twin
  Far = far
  Scenario = Scenario
  Policy <- MCPolicy
  Intents <- MCIntents
  Reserves <- MCReserves
  GasWei = 1
  Conversion <- MCConversion
  FeeBps = {0, 1}
  Reader = alice
  Quotes <- MCQuotes
  Validity = 3
  IndexScale = 4
  ImpactScale = 10
  Script <- MCScript
  Direct <- MCDirect
  Stakes = {2, 3}
  Units = {1, 2, 3}
  Workloads = {"AAVE", "VAULT", "SWAP", "DIRECT", "MARKET", "STRESS", "REPLAY"}
  MaxSteps <- MCMaxSteps
  MaxTime <- MCMaxTime
INVARIANTS
  PortfolioSound
  BuiltReceiptsFit
  CheckpointsExplained
PROPERTY
  SharePriceNeverFalls
CHECK_DEADLOCK FALSE
