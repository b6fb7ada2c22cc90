SPECIFICATION Spec
CONSTANTS
  pair = pair
  same = same
  other = other
  request = request
  wrong = wrong
  ann = ann
  ben = ben
  i1 = i1
  i2 = i2
  hall = hall
  None = None
  Bookings <- MCBookings
  Slots <- MCSlots
  Instructor <- MCInstructor
  Room <- MCRoom
  Chosen <- MCChosen
  ByGroup = {other}
  Asked = {request, wrong}
  Meeting = {pair, same}
  Override = {other}
  Outside <- MCOutside
  Student = {ann, ben}
  Capacity = 1
  Withdrawn <- MCWithdrawn
  Joining = {ben}
  MaxMade = 2
  MaxInFlight = 2
  MayCrash = FALSE
  MayOrphan = TRUE
INVARIANT AllOrNone
