SPECIFICATION Spec
CONSTANTS
  u1 = u1
  u2 = u2
  d1 = d1
  a1 = a1
  a2 = a2
  w1 = w1
  NullAddr = NullAddr
  NoKey = NoKey
  Accounts <- MCAccounts
  Deployer = u1
  Devices <- MCDevices
  Agents <- MCAgents
  Wallets <- MCWallets
  Fees <- MCFees
  Amounts <- MCAmounts
  MaxBlock = 1
  MaxDevices = 3
  MaxBalance = 2
INVARIANTS
  TypeOK
  HostingConsistent
  TokenIdsDense
  KeysConfined
  KeysTellHolders
  AgentCountsHonest
  ClaimsCovered
PROPERTY AgentsPermanent
SYMMETRY Symmetry
