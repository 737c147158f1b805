SPECIFICATION FairOperationsSpec
CONSTANTS
  Injectors = {i1, i2}
  Types = {"network_latency", "unknown"}
  KnownTypes = {"network_latency"}
  Tokens = {"secret", "other"}
  ExpectedToken = "secret"
  NoAuth = NoAuth
  MaxScenarios = 2
  Visits = {1, 2}
  Addresses = {ip1}
  Traps = {"wallet", "backups"}
  MaxSeconds = 1
  MaxOutages = 1
INVARIANTS OperationsTypeOK ScenariosOwnTheirTasks StoredAccessesRemain
PROPERTIES ScenariosEnd
CHECK_DEADLOCK FALSE
