SPECIFICATION Spec
CONSTANTS
  Keys = {k1, k2}
  Undecrypted = Undecrypted
  Calls = {c1, c2}
  Titles = {"", "a"}
  Blank = ""
  Ats <- MCAts
  NotANumber = NotANumber
  Schedules = {"hours_72"}
  Statuses = {0}
  Changes <- MCChanges
  MaxSeconds = 8
  MaxTickets = 2
  MaxCalls = 4
  MaxTyped = 1
  MaxOthers = 1
INVARIANTS TypeOK MisfiledOnlyInHaste SavesStoreWhatWasShown
PROPERTIES RefusalsExplained UntouchedSavesKeepTicket TicketsKeepTheirKey
SYMMETRY Symmetry
CHECK_DEADLOCK FALSE
