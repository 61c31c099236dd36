SPECIFICATION SatiPoolSpec
CONSTANTS
  a1 = a1
  a2 = a2
  p1 = p1
  p2 = p2
  cred = cred
  cred2 = cred2
  schema1 = schema1
  zero = zero
  Keys <- MCKeys
  DefaultKey = zero
  Lenders = {l1}
  Agents = {a1, a2}
  FeeRecipients = {r1}
  HookPrograms = {h1, h2}
  SatiHook = h1
  NoAccount = NoAccount
  RAY = 10
  SECONDS_PER_YEAR = 1
  BIP_DENOMINATOR = 10
  PROTOCOL_FEE_BIPS = 2
  U16Max = 255
  U64Max = 1000000
  U128Max = 1000000000
  I64Max = 1000000
  TopUps = {}
  Amounts = {2, 3}
  InterestBips = {10}
  TermSeconds = {2}
  ReserveRatioBips = {0}
  DepositWindowEnds = {0}
  LenderTokens = 5
  AgentTokens = 1
  MaxClock = 3
  MaxAccounts = 2
  Endowment <- MCEndowment
  HookReplies <- MCHookReplies
  ConfigArgs <- MCConfigArgs
  Publishable <- MCPublishable
  Foreign <- MCForeign
PROPERTIES
  ScoreBehindEveryLoan
CHECK_DEADLOCK FALSE
