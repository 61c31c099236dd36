SPECIFICATION Spec
CONSTANTS
  Lenders = {l1, l2}
  Agents = {a1, a2}
  FeeRecipients = {r1}
  HookPrograms = {h1}
  NoAccount = NoAccount
  RAY = 10
  SECONDS_PER_YEAR = 1
  BIP_DENOMINATOR = 10
  PROTOCOL_FEE_BIPS = 1
  U16Max = 255
  U64Max = 1000000
  U128Max = 1000000000
  I64Max = 1000000
  TopUps = {}
  Amounts = {5}
  InterestBips = {10}
  TermSeconds = {2}
  ReserveRatioBips = {0}
  DepositWindowEnds = {0}
  Rates = {10}
  HookTakes = {0}
  LenderTokens = 5
  AgentTokens = 10
  RecipientTokens = 0
  MaxClock = 4
  Endowment <- MCEndowment
  HookReplies <- MCHookReplies
INVARIANTS
  YieldWithinInterest
CHECK_DEADLOCK FALSE
