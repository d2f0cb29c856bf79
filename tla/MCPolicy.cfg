SPECIFICATION PolicySpec
CONSTANTS
  BPS_DENOMINATOR = 2
  I128_MAX = 60
  COVERAGE_UNIT = 4
  MAX_BATCH_MINTED = 2
  Accounts = {a1, a2}
  Vault = Vault
  NoConfig = NoConfig
  NoPointer = NoPointer
  Pointer = Pointer
  Configs <- MCConfigs
  FundsEach = 4
  Funds <- MCFunds
  Amounts <- MCAmounts
  MaxSeasons = 1
  Terms <- MCTerms
  MaxPremiums <- MCMaxPremiums
  MintLists <- MCMintLists
  Pointers <- MCPointers
  MaxPolicies = 2
  MaxTime = 2
SYMMETRY MCSymmetry
INVARIANTS
  PolicyTypeOK
  FeeCaps
  PremiumBeforePolicy
  RefundsFunded
  PremiumIsLeast
PROPERTIES
  CertificateFrozen
