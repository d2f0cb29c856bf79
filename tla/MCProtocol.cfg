SPECIFICATION ProtocolSpec
CONSTANTS
  BPS_DENOMINATOR = 1
  I128_MAX = 8
  COVERAGE_UNIT = 4
  MAX_BATCH_MINTED = 2
  MAX_BATCH = 2
  Accounts = {provider, farmer}
  Vault = Vault
  NoConfig = NoConfig
  NoPointer = NoPointer
  NoList = NoList
  Configs <- MCConfigs
  Provider = provider
  Funds <- MCFunds
  Amounts <- MCAmounts
  MaxSeasons = 1
  Terms <- MCTerms
  MaxPremiums <- MCMaxPremiums
  MintLists <- MCMintLists
  Pointers <- MCPointers
  MaxPolicies = 2
  MaxTime = 1
  PolicyIds <- MCPolicyIds
  Windows <- MCWindows
  EntryLists <- MCEntryLists
INVARIANTS
  RefundOrPayout
  EveryTokenBooked
