SPECIFICATION VaultFairSpec
CONSTANTS
  BPS_DENOMINATOR = 2
  I128_MAX = 4
  Provider = a1
  Accounts = {a1, a2}
  Vault = Vault
  NoConfig = NoConfig
  Configs <- MCConfigs
  ProviderFunds = 2
  Funds <- MCFunds
  Amounts <- MCAmounts
  MaxSeasons = 1
  p1 = p1
  p2 = p2
  PolicyIds = {p1, p2}
  Windows = {w1, w2}
  EntryLists <- MCLists
  MAX_BATCH = 2
INVARIANTS
  VaultTypeOK
  ClaimsBacked
  PaidOnFinalized
  BooksAgree
PROPERTIES
  ImplementsLedger
  ClaimsArrive
