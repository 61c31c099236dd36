SPECIFICATION Spec
CONSTANTS
  agent1 = agent1
  agent2 = agent2
  provider1 = provider1
  provider2 = provider2
  stranger = stranger
  cred = cred
  schema1 = schema1
  zero = zero
  Keys <- MCKeys
  DefaultKey = zero
  ConfigArgs <- MCConfigArgs
  Agents = {agent1}
  Amounts = {1, 2}
  Times = {5, 6}
  Accounts <- MCAccounts
  MaxAccounts = 2
INVARIANTS
  TypeOK
  ApprovedIffEndorsed
  ReadsWithinBounds
