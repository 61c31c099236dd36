SPECIFICATION LedgerSpec
CONSTANTS
  Lenders = {l1, l2}
  Agents = {a1, a2}
  FeeRecipients = {r1}
  HookPrograms = {h1}
  NoAccount = NoAccount
  RAY = 10
  SECONDS_PER_YEAR = 1
  BIP_DENOMINATOR = 10
  PROTOCOL_FEE_BIPS = 2
  U16Max = 255
  U64Max = 1000000
  U128Max = 1000000000
  I64Max = 1000000
  TopUps = {}
  Amounts = {5}
  InterestBips = {7}
  TermSeconds = {2}
  ReserveRatioBips = {0}
  DepositWindowEnds = {0}
  Rates = {7, 12}
  HookTakes = {0, 1}
  LenderTokens = 5
  AgentTokens = 4
  RecipientTokens = 0
  MaxClock = 5
  Endowment <- MCEndowment
  HookReplies <- MCHookReplies
INVARIANTS
  BookedAsLent
  DriftExplained
  ShortfallExplained
  FeesCovered
  LendersCovered
SYMMETRY UserSymmetry
CHECK_DEADLOCK FALSE
