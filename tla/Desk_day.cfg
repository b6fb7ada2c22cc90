SPECIFICATION Spec
CONSTANTS
  DayLen = 4
  Zones <- TheZones
  ZoneTable <- TheZoneTable
  MaxCandidateDays = 12
  NoLimit = NoLimit
  None = None
  OrgZone = "here"
  OffDays = {7}
  OrgBounds <- TheOrgBounds
  Exceptions = {}
  TimeOff <- TheTimeOff
  ByName <- TheByName
  Members <- TheMembers
  Capacity <- TheCapacity
  Enrolled <- TheEnrolled
  Rooms <- TheRooms
  Students <- TheStudents
  Placements <- ThePlacements
  Viewer <- TheViewer
  Config <- TheConfig
  Grid <- TheGrid
  Patches <- ThePatches
  Counts = {1, 2}
  Times = {0, 1}
  Others <- TheOthers
  MaxClicks = 2
  MaxElsewhere = 1
  People <- ThePeople
  RoleSettings <- TheRoleSettings
  MonthStarts <- TheMonths
  MaxPage = 9
  Billing = FALSE
  Titled <- TheTitled
  Named <- TheNamed
  Directory <- TheDirectory
  PAGE_SIZE = 2
  PAGE_LIMIT = 2
  EXPORT_LIMIT = 9
  SignedIn = {"boss", "head", "i1", "mum"}
  Booker = "boss"
  Regions = {}
  Districts = {}
  MONTH_CELL_LIMIT = 1
  Links <- TheLinks
  Remembered <- TheRemembered
  TabWrites <- TheTabWrites
  DrawerPicks <- TheDrawerPicks
  Texts <- TheTexts
  Ticks <- TheTicks
  PressedDays = {1}
  Rows0 <- TheRows
  HalfFilled <- TheHalfFilled
CHECK_DEADLOCK FALSE
INVARIANTS
  QuietFormIsAnswered
  RowsAlwaysAccepted
PROPERTIES
  CountEditSurvives
  GridNeverOverpromises
  PlanAsWritten
  MovingKeepsTheFilter
