SPECIFICATION RemindSpec
CONSTANTS
  NoSession = NoSession
  None = None
  r1 = r1
  Session = {s1}
  Resource = {r1}
  BookingRequest <- MCRequests
  WeekRequest = {}
  ExceptionRequest = {}
  Mandatory = {}
  DayLength = 4
  Step = 1
  Grace = 0
  MaxBookings = 2
  MaxTime = 2
  Window = 2
  MaxCrashes = 1
  MaxUnflagged = 1
INVARIANTS RemindedOnce
PROPERTIES UpcomingIsHandled
CHECK_DEADLOCK FALSE
