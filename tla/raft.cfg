SPECIFICATION Spec
CONSTANTS
  Peers <- Peers3
  Services = {"custodian", "db"}
  MaxTerm = 2
  MaxCampaigns = 1
  MaxLog = 2
  MaxCrashes = 1
  MaxPurges = 1
INVARIANTS
  TypeOK
  LossesExplained
  LogsContiguous
PROPERTY
  DbVotesNeverRecede
CHECK_DEADLOCK FALSE
