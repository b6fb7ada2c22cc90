------------------------------- MODULE MCDesk -------------------------------
(***************************************************************************)
(* A small instance of Desk.  A day is four units of the clock; day 0 is a *)
(* Monday, and it is shortly after its midnight.  Clocks change twice: the *)
(* office's on day 3 and another zone's on day 0.  Two instructors, two    *)
(* students, one school; an administrator who books, a school's own        *)
(* administrator, a parent and an instructor look at the lists.            *)
(***************************************************************************)
EXTENDS Desk

TheZones == {"here", "away"}
TheZoneTable ==
  [z \in TheZones |-> IF z = "here" THEN [before |-> 0, after |-> 1, at |-> 13]
                      ELSE [before |-> 2, after |-> 2, at |-> 0]]
TheMonths == {-150, -120, -89, -59, -28, 3, 31, 62, 93, 124, 154}
TheOrgBounds == [w \in 1 .. 7 |-> IF w = 5 THEN <<<<1, 3>>>> ELSE <<>>]
TheTimeOff == {[who |-> "i1", start |-> 8, end |-> 10]}

TheByName == <<"i1", "i2">>
TheMembers == [g \in {"g1"} |-> {"s2"}]
TheCapacity == [g \in {"g1"} |-> None]
TheEnrolled == [s \in {"sc"} |-> {"s1"}]
TheRooms == [r \in {"r1"} |-> "sc"]
TheStudents == {"s1", "s2"}

Person(roles, schools, guards) ==
  [roles |-> roles, status |-> "ACTIVE", archived |-> FALSE, schools |-> schools,
   regions |-> {}, districts |-> {}, guards |-> guards, zone |-> None]
ThePeople ==
  [boss |-> Person({"ADMIN"}, {}, {}), head |-> Person({"SCHOOL_ADMIN"}, {"sc"}, {}),
   i1 |-> Person({"INSTRUCTOR"}, {}, {}), i2 |-> Person({"INSTRUCTOR"}, {}, {}),
   mum |-> Person({"PARENT"}, {}, {"s1"}), s1 |-> Person({"STUDENT"}, {"sc"}, {}),
   s2 |-> Person({"STUDENT"}, {}, {})]
TheDirectory == <<"boss", "head", "i1", "i2", "mum", "s1", "s2">>
ThePlacements == [who \in {"i1", "i2", "s1", "s2"} |-> ThePeople[who].schools]
TheRoleSettings ==
  [setting \in {"who_can_book", "who_can_create_historical", "who_can_delete",
                "conflict_override_roles", "who_can_edit", "who_can_cancel"} |->
     CASE setting = "who_can_book" -> {"ADMIN"}
       [] setting = "who_can_create_historical" -> {"INSTRUCTOR"}
       [] OTHER -> None]

TheViewer == [zone |-> "here", scope |-> None, overrides |-> TRUE, past |-> FALSE,
              lead |-> 0, approval |-> FALSE]
TheConfig ==
  [mode |-> "assigned_only", assignedOnly |-> None, durations |-> {1, 2},
   maxOccurrences |-> 3, maxHorizonDays |-> 15, maxFutureDays |-> 10,
   enabledTypes |-> {"external_link", "in_person"}, features |-> {}, notice |-> 1,
   requireApproval |-> FALSE, lead |-> 0, studentLead |-> 4]
TheGrid ==
  [pageDays |-> 7, maxDays |-> 14, shown |-> 1, columns |-> 3, step |-> 1,
   suggestColumns |-> 3, suggestStep |-> 1, weekStart |-> 0, weekColumns |-> 4,
   weekStep |-> 1, firstTime |-> 2, openTime |-> 1]

Weekly(who, weekday, from, until, zone) ==
  [who |-> who, weekday |-> weekday, startTime |-> from, endTime |-> until,
   timezone |-> zone, from |-> None, until |-> None]
TheRules ==
  <<Weekly("i1", 1, 0, 3, "here"), Weekly("i1", 2, 0, 3, "here"), Weekly("i1", 3, 1, 3, None),
    Weekly("i1", 4, 0, 3, "here"), Weekly("i2", 1, 1, 3, "away"), Weekly("i2", 4, 0, 3, "away")>>

Row(title, who, attending, room, from, until, status) ==
  [title |-> title, who |-> who, students |-> attending, room |-> room, program |-> None,
   start |-> from, end |-> until, status |-> status, series |-> None, position |-> None]
TheRows ==
  [sessions |-> Inserted({}, <<Row("algebra", "i1", {"s2"}, "r1", 5, 6, "SCHEDULED"),
                               Row("biology", "i2", {"s1"}, None, 6, 8, "REQUESTED"),
                               Row("algebra", "i2", {"s1", "s2"}, None, 20, 21, "SCHEDULED"),
                               Row("biology", "i1", {"s1"}, None, -3, -2, "CANCELLED")>>),
   rules |-> TheRules, links |-> {<<"i1", "s1">>, <<"i1", "s2">>, <<"i2", "s1">>},
   now |-> 1, active |-> {"i1", "i2"}]

ThePatches ==
  {[date |-> 3, instructor |-> "i1", title |-> "essay"], [date |-> 1, time |-> 1],
   [date |-> None], [school |-> "sc"], [group |-> "g1", delivery |-> "in_person", room |-> "r1"],
   [duration |-> 2]}
Nothing == [sessions |-> <<>>, links |-> {}, active |-> {}, hours |-> 0]
TheOthers ==
  {[Nothing EXCEPT !.sessions = <<Row("essay", "i1", {"s1"}, None, 12, 13, "SCHEDULED")>>],
   [Nothing EXCEPT !.links = {<<"i1", "s1">>}], [Nothing EXCEPT !.active = {"i2"}],
   [Nothing EXCEPT !.hours = 4]}

(* A run of three from Thursday, day 3, on two of its days, previewed.     *)
TheHalfFilled ==
  [FirstValues EXCEPT !.step = "preview", !.date = 3, !.count = 3, !.instructor = "i1",
                      !.students = {"s1"}, !.title = "essay",
                      !.rows = <<[weekday |-> 4, length |-> 1, time |-> 2],
                                [weekday |-> 2, length |-> 1, time |-> 1]>>]

Held(screen, query) == [screen |-> screen, query |-> query]
TheRemembered ==
  {Held("calendar", NothingSet),
   Held("calendar", [view |-> "week", date |-> 4, school |-> "sc", instructor |-> "i2"]),
   Held("sessions", [student |-> "s2", school |-> "sc"]),
   Held("sessions", [from |-> 1, page |-> 2]),
   Held("people", [role |-> {"STUDENT", "INSTRUCTOR"}, page |-> 2])}
TheTabWrites ==
  {Held("calendar", [view |-> "week", date |-> 4, school |-> "sc", instructor |-> "i2"]),
   Held("sessions", [from |-> 1, page |-> 2])}
TheLinks ==
  {Held("calendar", [view |-> "day", date |-> 1, student |-> "s1", tab |-> "x"]),
   Held("sessions", [status |-> {"SCHEDULED"}, instructor |-> "i2", student |-> "s1"])}
TheDrawerPicks ==
  {[instructor |-> "i1", student |-> "s2"], [school |-> "sc"], [from |-> 1, to |-> 5],
   [status |-> {"REQUESTED"}], [columns |-> {"title", "payment"}],
   [q |-> "algebra", region |-> None]}
TheTexts == {None, "algebra"}
TheTitled == [text \in {"algebra"} |-> {"algebra"}]
TheNamed == [text \in {"algebra"} |-> {}]
TheTicks == {STATUS_FILTER_ORDER, CALENDAR_INITIAL_STATUSES, {"SCHEDULED"}, {}, {"PARENT"}}

(* The office's clocks change in the small hours.                          *)
ASSUME OfficeChangesAtNight ==
  /\ ChangesWithinADay(Viewer.zone)
  /\ \A who \in SignedIn : ChangesWithinADay(LoadPrincipal(who).zone)
=============================================================================
