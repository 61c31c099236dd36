SPECIFICATION FairLedgerSpec
CONSTANTS
  Lenders = {l1, l2}
  Agents = {a1, a2}
  FeeRecipients = {r1}
  HookPrograms = {h1}
  NoAccount = NoAccount
  RAY = 10
  SECONDS_PER_YEAR = 1
  BIP_DENOMINATOR = 10
  PROTOCOL_FEE_BIPS = 5
  U16Max = 255
  U64Max = 1000000
  U128Max = 1000000000
  I64Max = 1000000
  TopUps = {}
  Amounts = {5}
  InterestBips = {20}
  TermSeconds = {2}
  ReserveRatioBips = {0}
  DepositWindowEnds = {0}
  Rates = {20}
  HookTakes = {0, 15}
  LenderTokens = 5
  AgentTokens = 0
  RecipientTokens = 60
  MaxClock = 3
  Endowment <- MCEndowment
  HookReplies <- MCHookReplies
PROPERTIES
  LoansSettle
  FeesReachProtocol
  LendersGetOut
CHECK_DEADLOCK FALSE
