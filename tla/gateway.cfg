SPECIFICATION FairSpec
CONSTANTS
  Unset = Unset
  Blank = ""
  Unreadable = Unreadable
  Malformed = {"", "auth 3"}
  NoFile = NoFile
  Torn = Torn
  Empty = Empty
  EnvSecrets = {"s", NoSecret}
  NoSecret = NoSecret
  MaxKeys = 3
  MaxStops = 1
  Keys = {1, 2, 3}
  Undecrypted = Undecrypted
  Registries <- SomeRegistries
  FirstFiles <- SomeFirstFiles
  Environments <- SomeEnvironments
  GatewaySecrets = {"s"}
  HostOf <- Hosts
  MaxEdits = 2
  MaxRequests = 3
INVARIANTS TypeOK RoutesAreCurrent AccountsReadable TokensStayValid
PROPERTIES RoutesConverge KeyFileKept
CHECK_DEADLOCK FALSE
