SPECIFICATION Spec
CONSTANTS
  r1 = r1
  r2 = r2
  r3 = r3
  r4 = r4
  june = june
  july = july
  None = None
  Runs = {r1, r2, r3, r4}
  Exports = {june, july}
  Uploads <- MCUploads
  PeopleRows <- MCPeople
  SessionRows <- MCSessions
  SeriesRows <- MCSeries
  Residents <- MCResidents
  Invited <- MCInvited
  Booked <- MCBooked
  MaxInFlight = 2
  MaxDisturbed = 1
INVARIANTS WholeUnlessStopped CountedOnce ConstraintOnlyForOthers
  SecondWritesNothing
SYMMETRY Interchangeable
