SPECIFICATION AccountsSpec
CONSTANTS
  Uuids = {u1, u2}
  Names = {ann, bob}
  tech = tech
  manager = manager
  Roles <- MCRoles
  Requests <- MCRequests
  NoChange = NoChange
  Calls = {c1, c2}
  Logins = {a1}
  MaxWrites = 4
INVARIANTS AccountsTypeOK CredentialsMatchProfiles LoginsResolve EditsLostOnlyByOverlap AccountsComplete
SYMMETRY Symmetry
CHECK_DEADLOCK FALSE
