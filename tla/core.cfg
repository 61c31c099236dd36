SPECIFICATION Spec
CONSTANTS
  Lenders = {l1, l2}
  Agents = {a1, a2}
  FeeRecipients = {r1}
  HookPrograms = {h1}
  NoAccount = NoAccount
  RAY = 10
  SECONDS_PER_YEAR = 1
  BIP_DENOMINATOR = 10
  PROTOCOL_FEE_BIPS = 2
  U16Max = 255
  U64Max = 1000000
  U128Max = 400
  I64Max = 1000000
  TopUps = {}
  Amounts = {3, 5}
  InterestBips = {10}
  TermSeconds = {2}
  ReserveRatioBips = {2}
  DepositWindowEnds = {0}
  Rates = {10}
  HookTakes = {0, 2}
  LenderTokens = 5
  AgentTokens = 3
  RecipientTokens = 0
  MaxClock = 3
  Endowment <- MCEndowment
  HookReplies <- MCHookReplies
INVARIANTS
  TypeOK
  DepositsMatchPositions
  BorrowsMatchPositions
  Repayable
  PoolKeepsRunning
  ClaimsWithinBook
  PayoutsWithinBook
  FeesWithinShare
PROPERTIES
  
  FeesSenior
  ReserveCoversDeposits
  ImplementsBook
SYMMETRY UserSymmetry
CHECK_DEADLOCK FALSE
