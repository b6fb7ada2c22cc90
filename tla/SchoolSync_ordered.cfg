SPECIFICATION FairSpec
CONSTANTS
  None = None  pod = pod  student = student  tutor = tutor
  Occ = {o1}
  Pod = {pod}
  PodOf <- MCPodOf
  Person = {student}
  People <- MCPupil
  Cast = {student}
  LinkedFirst = {student}
  Publishers = {c1, c2}
  MaxInFlight = 1
  Syncs = {y1}
  MaxMarks = 2
  MaxStops = 1
INVARIANTS
  SchoolAgrees
  MarksAgree
PROPERTIES
  SchoolNeverGoesBack
  ImplementsCourier
  EverythingArrives
