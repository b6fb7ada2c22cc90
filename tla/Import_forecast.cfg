SPECIFICATION Spec
CONSTANTS
  r1 = r1
  r2 = r2
  r3 = r3
  r4 = r4
  june = june
  july = july
  None = None
  Runs = {r1, r2}
  Exports = {june, july}
  Uploads <- OneUpload
  PeopleRows <- OnePeople
  SessionRows <- OneSessions
  SeriesRows <- NoSeries
  Residents <- MCResidents
  Invited = {}
  Booked = {}
  MaxInFlight = 1
  MaxDisturbed = 0
INVARIANTS PreviewForecasts
