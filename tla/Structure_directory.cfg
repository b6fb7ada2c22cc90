SPECIFICATION Spec
CONSTANTS
  ada = ada
  head = head
  tom = tom
  pam = pam
  sue = sue
  sam = sam
  sid = sid
  nia = nia
  rex = rex
  None = None
  Person = {ada, head, tom, pam, sue, sam, sid, nia, rex}
  School = {"s1", "s2", "s3"}
  District = {"d1", "d2"}
  Region = {"g1", "g2"}
  DistrictOf <- MCDistrictOf
  RegionOf <- MCRegionOf
  Staff <- MCStaff
  Form <- MCForm
  Mixes <- MCMixes
  MaxRequests = 3
  MaxInFlight = 2
  MaxStops = 1
  Standing <- MCStanding
  Members <- MCMembers
INVARIANTS PlacementsCohere RegionalBounded EnrolledWhole
  OvershootBounded SameNameOnlyByMeeting
