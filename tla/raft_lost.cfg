SPECIFICATION Spec
CONSTANTS
  Peers <- Peers3
  Services = {"db"}
  MaxTerm = 2
  MaxCampaigns = 1
  MaxLog = 3
  MaxCrashes = 0
  MaxPurges = 0
INVARIANT
  LeadersComplete
CHECK_DEADLOCK FALSE
