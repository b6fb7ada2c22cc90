SPECIFICATION Spec
CONSTANTS
  o1 = o1  o2 = o2  o3 = o3  o4 = o4
  i1 = i1  i2 = i2  r1 = r1  s1 = s1  p1 = p1  p2 = p2
  None = None
  Occ = {o1, o2, o3}
  Calls = {c1, c2, c3}
  MaxInFlight = 1
  Ops = {"reschedule", "edit", "cancel", "restore", "complete", "mark_missed",
         "approve", "reject", "correct_actuals", "sweep"}
  Titles = {old, new}
  FirstTitle = old
  Instructor <- MCInstructor
  Room <- NoRoom
  Students <- SameStudents
  Series <- MCSeries
  StartSlot <- MCStartSlot
  StartStatus <- SequentialStatus
  Wanted <- MCWanted
  Day = 2
  ShortOfCredit = {o1}
  MayCrash = FALSE
SYMMETRY CallSymmetry
INVARIANTS
  CopyFollowsMoves
  RemindersFollow
PROPERTIES
  OnlyTheAnchorIsExempt
  StudentClashOnlyByReopening
