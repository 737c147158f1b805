SPECIFICATION Spec
CONSTANTS
  TicketTrees <- MCTicketTrees
  UserTrees <- MCUserTrees
  Value <- MCValue
  NoValue = NoValue
  TicketIndex <- MCTicketIndex
  UserIndex <- MCUserIndex
  Uuids = {ann}
  Nodes = {n1}
  Filters <- MCFilters
  MaxTicket = 2
  MaxLog = 3
  MaxCrashes = 1
  MaxQueries = 1
INVARIANTS TypeOK NodesFollowLog HaltsExplained QueriesComplete
PROPERTY TicketsStayDeleted
CHECK_DEADLOCK FALSE
