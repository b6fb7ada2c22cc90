SPECIFICATION Spec
CONSTANTS
  None = None  pod = pod  student = student  tutor = tutor
  Occ = {o1}
  Pod = {pod}
  PodOf <- MCPodOf
  Person = {student}
  People <- MCPupil
  Cast = {student}
  LinkedFirst = {}
  Publishers = {c1, c2}
  MaxInFlight = 2
  Syncs = {y1, y2}
  MaxMarks = 1
  MaxStops = 1
SYMMETRY RacingSymmetry
INVARIANTS
  OneCopy
  NothingSkipped
PROPERTY
  SchoolMarkKept
