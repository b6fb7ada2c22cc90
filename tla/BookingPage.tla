---------------------------- MODULE BookingPage ----------------------------
(***************************************************************************)
(* The booking screen's one action (app/actions/booking.ts): what the      *)
(* server answers to a submitted form.  Three steps share it: a refresh    *)
(* asks who is free and writes nothing, a preview plans, a confirm plans   *)
(* again and writes that plan.  Who may teach the roster                   *)
(* (instructorEligibility.ts), the availability block and the choices of   *)
(* the form (web/booking.ts) and the plan itself (services/booking.ts) are *)
(* the operators it is built from; each reads the rows as they are when    *)
(* the request is served.                                                  *)
(*                                                                         *)
(* The write is one step here; Booking models it statement by statement.   *)
(* Abstracted: the link and its validity, the program, the description,    *)
(* the lengths of texts, and billing.  The form never sends an end date.   *)
(***************************************************************************)
EXTENDS Availability

CONSTANTS
  ByName,      \* the instructors, in the order of their names
  Members,     \* group -> the students it holds
  Capacity,    \* group -> a number, or None
  Enrolled,    \* school -> its students
  Rooms,       \* room -> its school, or None
  Students,    \* students who are not archived
  Placements,  \* person -> keys of the places they are placed at
  Viewer,      \* zone, scope, overrides, past, lead, approval : who is booking
  Config,      \* the tenant's settings the handler branches on
  Grid         \* the sizes of the three grids

Groups == DOMAIN Members
Schools == DOMAIN Enrolled
EligibilityModes == {"assigned_only", "shared_structure", "any_instructor"}

-----------------------------------------------------------------------------
(* Settings, each with the default the code ships.                         *)

Setting(stored, shipped) == IF stored = None THEN shipped ELSE stored

SelectableDurations ==
  LET stored == {d \in Setting(Config.durations, {}) : d > 0}
  IN  IF stored = {} THEN {60} ELSE stored

(* Enabled, and its feature on: an enum member nothing implements is not   *)
(* offered, and is refused when it is sent all the same.                   *)
DeliveryAvailable(type) ==
  /\ Config.enabledTypes # {} => type \in Config.enabledTypes
  /\ type = "advanced_classroom" => type \in Config.features

(* A value picked in the grid, just filled in or asked for outranks the    *)
(* field.                                                                  *)
Over(picked, fields) ==
  [field \in DOMAIN picked \cup DOMAIN fields |->
     IF field \in DOMAIN picked THEN picked[field] ELSE fields[field]]

-----------------------------------------------------------------------------
(* Who may teach the roster.                                               *)

(* A mode this build does not know is the strictest one.                   *)
EligibilityMode ==
  IF Config.mode # None
  THEN IF Config.mode \in EligibilityModes THEN Config.mode ELSE "assigned_only"
  ELSE IF Setting(Config.assignedOnly, TRUE) THEN "assigned_only" ELSE "any_instructor"

ResolveRoster(students, group) ==
  students \cup (IF group \in Groups THEN Members[group] ELSE {})

EligibleInstructors(world, roster) ==
  LET Covers(who) == \A s \in roster : <<who, s>> \in world.links
      Shares(who) == \A s \in roster : Placements[who] \cap Placements[s] # {}
      unnarrowed == \/ roster = {}
                    \/ EligibilityMode = "any_instructor"
                    \/ /\ EligibilityMode = "shared_structure"
                       /\ world.active # {} /\ Schools = {}
  IN  [narrowed |-> ~unnarrowed,
       instructors |-> {who \in world.active :
                          \/ unnarrowed
                          \/ EligibilityMode = "assigned_only" /\ Covers(who)
                          \/ EligibilityMode = "shared_structure" /\ Shares(who)}]

MayTeach(world, who, roster) == who \in EligibleInstructors(world, roster).instructors

-----------------------------------------------------------------------------
(* The availability block: which day, then who, then when.                 *)

Today(world) == CivilDate(world.now, Viewer.zone)

(* Mutant: the last day asked about is left out.                           *)
BookedOverExclusive(world, people, from, days) ==
  BusyIntervals(world.sessions, people, At(from, 0, Viewer.zone),
                At(from + days - 1, 0, Viewer.zone))

BookedOver(world, people, from, days) ==
  BusyIntervals(world.sessions, people, At(from, 0, Viewer.zone),
                At(from + days, 0, Viewer.zone))

FirstOf(people, n) ==
  LET listed == SelectSeq(ByName, LAMBDA who : who \in people)
  IN  ToSet(SubSeq(listed, 1, IF Len(listed) < n THEN Len(listed) ELSE n))

WantedDays(repeatDays) ==
  [w \in {repeatDays[i].weekday : i \in DOMAIN repeatDays} |->
     LET row == CHOOSE i \in DOMAIN repeatDays : repeatDays[i].weekday = w
     IN  [durationMinutes |-> repeatDays[row].length]]

Selected(asked, eligible) ==
  IF asked.instructor \in eligible.instructors THEN asked.instructor ELSE None

Block(world, asked, eligible, selected) ==
  LET shortlist == IF selected # None THEN {selected} ELSE eligible.instructors
      shown == FirstOf(eligible.instructors, Grid.shown)
      DayOf(people, columns, step) ==
        DayGrid(world.rules, people, asked.date, asked.time, asked.duration, Viewer.zone,
                columns, step, BookedOver(world, people, asked.date, 1))
  IN  [instructors |-> eligible.instructors,
       narrowed |-> eligible.narrowed,
       chosenInstructor |-> selected,
       instructorCleared |-> asked.instructor # None /\ selected = None /\ eligible.narrowed,
       chosenDuration |-> asked.duration,
       chosenTime |-> asked.time,
       matrixDays |-> asked.matrixDays,
       openings |->
         IF asked.date # None THEN <<>>
         ELSE Openings(world.rules, shortlist, Today(world), asked.matrixDays, asked.duration,
                       BookedOver(world, shortlist, Today(world), asked.matrixDays)),
       weekPlan |->
         IF asked.date = None \/ selected = None \/ asked.repeatDays = <<>> THEN None
         ELSE WeekdayGrid(world.rules, selected, WantedDays(asked.repeatDays), asked.date,
                          Grid.weekStart, Viewer.zone, Grid.weekColumns, Grid.weekStep,
                          BookedOver(world, {selected}, asked.date, 7)),
       suggestions |->
         IF asked.date = None \/ selected = None \/ asked.repeatDays # <<>> THEN None
         ELSE DayOf({selected}, Grid.suggestColumns, Grid.suggestStep),
       grid |-> IF asked.date = None \/ selected # None THEN None
                ELSE DayOf(shown, Grid.columns, Grid.step)]

AvailabilityContext(world, asked) ==
  LET Of(eligible) == Block(world, asked, eligible, Selected(asked, eligible))
  IN  Of(EligibleInstructors(world, ResolveRoster(asked.students, asked.group)))

(* A school of the viewer's own; one that is not theirs offers nobody.     *)
MySchools == IF Viewer.scope = None THEN Schools ELSE Viewer.scope

OfferedStudents(asked, school) ==
  IF school # None THEN Enrolled[school]
  ELSE IF asked.school # None THEN {}
  ELSE IF Viewer.scope = None THEN Students
  ELSE UNION {Enrolled[s] : s \in Viewer.scope}

OfferedRooms(asked, school) ==
  {room \in DOMAIN Rooms :
     \/ school # None /\ Rooms[room] \in {school, None}
     \/ school = None /\ asked.school = None
        /\ (Viewer.scope = None \/ Rooms[room] \in Viewer.scope \cup {None})}

BookingContext(world, asked) ==
  LET school == IF asked.school # None
                THEN IF asked.school \in MySchools THEN asked.school ELSE None
                ELSE IF Viewer.scope # None /\ Cardinality(Viewer.scope) = 1
                     THEN CHOOSE s \in Viewer.scope : TRUE
                     ELSE None
  IN  Over([chosenSchool |-> school,
            students |-> OfferedStudents(asked, school) \cap Students,
            rooms |-> OfferedRooms(asked, school)],
           AvailabilityContext(world, asked))

-----------------------------------------------------------------------------
(* The plan.                                                               *)

MaxRepeatDays(count) == IF count < 1 THEN 1 ELSE IF count < 7 THEN count ELSE 7

(* The time the first session runs at: that of the row for the date's own  *)
(* weekday, and of the first row when there is none.                       *)
PatternStart(form) ==
  LET own == {i \in DOMAIN form.rows : form.rows[i].weekday = IsoWeekday(form.date)}
      row == form.rows[IF own = {} THEN 1 ELSE CHOOSE i \in own : TRUE]
  IN  [startTime |-> row.time, durationMinutes |-> row.length]

BookingFromForm(form) ==
  LET repeat == form.count > 1 /\ form.rows # <<>>
      pattern == IF repeat THEN PatternStart(form)
                 ELSE [startTime |-> form.time, durationMinutes |-> form.duration]
  IN  [title |-> form.title, delivery |-> form.delivery,
       room |-> IF form.delivery = "in_person" THEN form.room ELSE None,
       startDate |-> form.date, startTime |-> pattern.startTime,
       durationMinutes |-> pattern.durationMinutes, timezone |-> Viewer.zone,
       instructor |-> form.instructor, students |-> form.students, group |-> form.group,
       repeat |-> form.count > 1,
       weekdays |-> IF repeat THEN {form.rows[i].weekday : i \in DOMAIN form.rows} ELSE {},
       perWeekday |->
         [w \in IF repeat THEN {form.rows[i].weekday : i \in DOMAIN form.rows} ELSE {} |->
            LET row == form.rows[CHOOSE i \in DOMAIN form.rows : form.rows[i].weekday = w]
            IN  [startTime |-> row.time, durationMinutes |-> row.length]],
       occurrenceCount |-> form.count, override |-> form.override]

RowsRepeat(rows) == \E i, j \in DOMAIN rows : i # j /\ rows[i].weekday = rows[j].weekday

FormError(form) ==
  IF form.date = None THEN "no_date"
  ELSE IF form.count < 1 THEN "no_sessions"
  ELSE IF form.count > 1 /\ RowsRepeat(form.rows) THEN "weekday_twice"
  ELSE IF form.count > 1 /\ Len(form.rows) > MaxRepeatDays(form.count) THEN "too_many_days"
  ELSE None

RuleInput(request) ==
  [frequency |-> "weekly", intervalN |-> 1, weekdays |-> request.weekdays,
   startDate |-> request.startDate, startTime |-> request.startTime,
   durationMinutes |-> request.durationMinutes, timezone |-> request.timezone,
   endMode |-> "count", untilDate |-> NoLimit,
   occurrenceCount |-> IF request.repeat THEN request.occurrenceCount ELSE 1,
   perWeekday |-> request.perWeekday]

(* Lead time and horizon; a session that has begun needs no lead.          *)
TimingError(world, request) ==
  LET start == At(request.startDate, request.startTime, request.timezone)
      ahead == CivilDate(start, request.timezone) - CivilDate(world.now, request.timezone)
  IN  IF start < world.now
      THEN IF Viewer.past THEN None ELSE "in_the_past"
      ELSE IF Viewer.lead # 0 /\ start - world.now < Viewer.lead
      THEN "too_soon"
      ELSE IF ahead > Config.maxFutureDays THEN "too_far_ahead"
      ELSE None

ValidateRequest(world, request) ==
  IF request.title = None THEN "no_title"
  ELSE IF \/ request.durationMinutes \notin SelectableDurations
          \/ \E w \in DOMAIN request.perWeekday :
               request.perWeekday[w].durationMinutes \notin SelectableDurations
       THEN "length_not_offered"
  ELSE IF ~DeliveryAvailable(request.delivery) THEN "type_not_enabled"
  ELSE IF request.instructor = None THEN "no_instructor"
  ELSE IF request.students = {} /\ request.group = None THEN "no_student"
  ELSE IF request.repeat /\ request.occurrenceCount > Config.maxOccurrences
       THEN "too_many_sessions"
  ELSE IF request.repeat /\ ~RuleAccepted(RuleInput(request)) THEN "rule_not_valid"
  ELSE TimingError(world, request)

ResolveStudentsError(request) ==
  IF request.group # None /\ Capacity[request.group] # None
     /\ Cardinality(Members[request.group]) > Capacity[request.group]
  THEN "group_over_capacity"
  ELSE IF ResolveRoster(request.students, request.group) \subseteq Students THEN None
  ELSE "student_not_available"

EligibleError(world, request) ==
  IF MayTeach(world, request.instructor, ResolveRoster(request.students, request.group))
  THEN None
  ELSE IF request.instructor \notin world.active THEN "instructor_not_bookable"
  ELSE "instructor_not_eligible"

ExpandOptions(request) ==
  [maxOccurrences |-> IF request.repeat THEN Config.maxOccurrences ELSE 1,
   maxHorizonDays |-> Config.maxHorizonDays,
   skipDates |-> OrganizationOffDays(request.startDate,
                                     request.startDate + Config.maxHorizonDays)]

(* Every occurrence is checked by itself, so a clash is shown by its date. *)
Expansion(request) == Expand(BuildRule(RuleInput(request)), ExpandOptions(request))

Planned(world, request, expansion) ==
  LET roster == ResolveRoster(request.students, request.group)
      Report(o) == Check(world.rules, world.sessions,
                         [start |-> o.start, end |-> o.end, who |-> request.instructor,
                          students |-> roster, room |-> request.room,
                          zone |-> request.timezone])
      Judged(reports) ==
        [request |-> request, rule |-> BuildRule(RuleInput(request)), expansion |-> expansion,
         roster |-> roster, reports |-> reports,
         selfOverlaps |-> SelfOverlaps(expansion.occurrences) # {},
         blocked |-> \E i \in DOMAIN reports : reports[i] \cap ABSOLUTE_KINDS # {},
         conflicted |-> \E i \in DOMAIN reports : reports[i] # {}]
  IN  Judged([i \in DOMAIN expansion.occurrences |-> Report(expansion.occurrences[i])])

PlanBooking(world, request) == Planned(world, request, Expansion(request))

NeedsOverride(plan) == plan.conflicted /\ ~plan.blocked

SchoolError(form, offered) ==
  IF form.school # None /\ form.school \notin MySchools THEN "no_such_school"
  ELSE IF /\ form.school # None
          /\ ~(ResolveRoster(offered, form.group) \subseteq Enrolled[form.school])
  THEN "student_not_at_school"
  ELSE None

ExpansionError(request) ==
  IF Expansion(request).occurrences = <<>> THEN "rule_is_empty" ELSE None

OrElse(error, next) == IF error # None THEN error ELSE next

(* The first refusal, in the order the handler looks.                      *)
PlanError(world, form, offered) ==
  LET RequestError(request) ==
        OrElse(ValidateRequest(world, request),
          OrElse(ResolveStudentsError(request),
            OrElse(EligibleError(world, request), ExpansionError(request))))
  IN  OrElse(FormError(form),
        OrElse(SchoolError(form, offered), RequestError(BookingFromForm(form))))

CreateError(plan) ==
  IF plan.selfOverlaps THEN "rule_overlaps_itself"
  ELSE IF plan.blocked THEN "instructor_or_room_taken"
  ELSE IF NeedsOverride(plan) /\ ~plan.request.override
  THEN "conflicts"
  ELSE IF plan.request.override /\ ~Viewer.overrides THEN "may_not_override"
  ELSE None

(* A run of more than one is a series, named here after its first row.     *)
WrittenBy(world, plan) ==
  LET first == Cardinality(world.sessions)
      occurrences == plan.expansion.occurrences
      series == plan.request.repeat /\ Len(occurrences) > 1
  IN  {[id |-> first + i, title |-> plan.request.title, who |-> plan.request.instructor,
        students |-> plan.roster, room |-> plan.request.room, program |-> None,
        start |-> occurrences[i].start, end |-> occurrences[i].end,
        status |-> IF Viewer.approval THEN "REQUESTED" ELSE "SCHEDULED",
        series |-> IF series THEN first + 1 ELSE None,
        position |-> IF series THEN occurrences[i].index ELSE None] :
         i \in DOMAIN occurrences}

-----------------------------------------------------------------------------
(* The action.                                                             *)

Clamped(days) ==
  IF days < Grid.pageDays THEN Grid.pageDays
  ELSE IF days > Grid.maxDays THEN Grid.maxDays ELSE days

(* What the context is asked: the rows count only above one session.       *)
Asked(form) ==
  [date |-> form.date, time |-> form.time, duration |-> form.duration,
   instructor |-> form.instructor, group |-> form.group, school |-> form.school,
   students |-> form.students, matrixDays |-> Clamped(form.matrixDays),
   repeatDays |-> IF form.count > 1 THEN form.rows ELSE <<>>]

Confirmed(world, base, plan) ==
  IF CreateError(plan) # None
  THEN [base EXCEPT !.plan = plan, !.error = CreateError(plan)]
  ELSE [base EXCEPT !.plan = plan, !.written = WrittenBy(world, plan)]

PlanStep(world, base, error) ==
  LET plan == PlanBooking(world, BookingFromForm(base.values))
  IN  IF error # None THEN [base EXCEPT !.error = error]
      ELSE IF base.values.step = "confirm" THEN Confirmed(world, base, plan)
      ELSE [base EXCEPT !.plan = plan]

Answer(world, base) ==
  LET form == base.values
      kept == IF form.school = None THEN form.students
              ELSE form.students \cap base.context.students
  IN  IF form.step = "refresh" THEN base
      ELSE PlanStep(world, base, PlanError(world, form, kept))

BookingStep(world, form) ==
  Answer(world, [context |-> BookingContext(world, Asked(form)), values |-> form,
                 plan |-> None, error |-> None, written |-> {}])
=============================================================================
