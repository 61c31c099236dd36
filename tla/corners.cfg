SPECIFICATION FixedTermSpec
CONSTANTS
  Lenders = {l1, l2}
  Agents = {a1}
  FeeRecipients = {r1}
  HookPrograms = {h1, h2}
  FixedTermHook = h1
  NoAccount = NoAccount
  MalformedProof = MalformedProof
  RAY = 16
  SECONDS_PER_YEAR = 1
  BIP_DENOMINATOR = 10
  PROTOCOL_FEE_BIPS = 2
  U16Max = 255
  U64Max = 15
  U128Max = 255
  I64Max = 4
  TopUps = {2}
  Amounts = {0, 5}
  InterestBips = {6, 20}
  TermSeconds <- EdgeTerms
  ReserveRatioBips = {5, 18}
  DepositWindowEnds = {2}
  BorrowCaps = {4, 5}
  Pnls <- MCPnls
  LenderTokens = 5
  AgentTokens = 4
  MaxClock = 3
  Endowment <- MCEndowment
  HookReplies <- MCHookReplies
INVARIANTS
  TypeOK
  DepositsMatchPositions
  ClaimsWithinBook
  LoansOnHookTerms
PROPERTIES
  ReserveAndFeesInVault
SYMMETRY UserSymmetry
CHECK_DEADLOCK FALSE
