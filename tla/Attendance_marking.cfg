SPECIFICATION Spec
CONSTANTS
  None = None
  Participant = {p1, p2}
  Student = {p1, p2}
  Statuses = {"UNMARKED", "PRESENT", "EXCUSED"}
  FromSchool = {"ABSENT"}
  Calls = {c1, c2}
  MaxInFlight = 2
  MayCrash = TRUE
SYMMETRY StudentSymmetry
INVARIANTS
  MarksAccounted
  ExcusingNeverLowers
  HistoryConnected
PROPERTIES
  BulkFillsGaps
