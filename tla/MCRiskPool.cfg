SPECIFICATION Spec
CONSTANTS
  BPS_DENOMINATOR = 4
  I128_MAX = 9
  Accounts = {a1, a2}
  Vault = Vault
  NoConfig = NoConfig
  Configs <- MCConfigs
  FundsEach = 2
  Funds <- MCFunds
  Amounts <- MCAmounts
  MaxSeasons = 2
SYMMETRY MCSymmetry
INVARIANTS
  TypeOK
  Custody
  FeeCaps
  Backing
  ReceiptsMatchSupply
  NoOrphanSeniorCapital
PROPERTIES
  JuniorFirst
  ResidualOnlyFromOverlap
  WipedSeniorStays
  NoDilution
CHECK_DEADLOCK FALSE
