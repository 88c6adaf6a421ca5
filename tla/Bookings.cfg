SPECIFICATION Spec
CONSTANTS
  NoSession = NoSession
  None = None
  r1 = r1
  r2 = r2
  Session = {s1, s2}
  Resource = {r1, r2}
  BookingRequest <- MCRequests
  WeekRequest <- MCWeek
  ExceptionRequest <- MCExceptions
  Mandatory = {r1}
  DayLength = 4
  Step = 1
  Grace = 0
  MaxBookings = 2
  MaxTime = 2
SYMMETRY MCSymmetry
INVARIANTS BookedOnce SlotsAreBookable
PROPERTIES StatusMovesOn
