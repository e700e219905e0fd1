SPECIFICATION Spec
CONSTANTS
  Networks <- AllNetworks
  Configs <- AllConfigs
  Names <- AllNames
  Second = 2
  MaxNow = 4
  MaxBoot = 2
INVARIANTS
  OnlyIdentifiedNetworks
  JudgesAgree
PROPERTIES
  ReuseIsEarned
