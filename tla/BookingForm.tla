---------------------------- MODULE BookingForm ----------------------------
(***************************************************************************)
(* The booking form in the browser (components/booking/BookingForm.tsx,    *)
(* AvailabilityBlock.tsx) and the round trips it makes to BookingPage.     *)
(* Fields the page does not hold in state (`dom`) are restored after every *)
(* answer to what the answer echoes; the roster, the number of sessions    *)
(* and the repeat days are state and survive it.  A change asks for the    *)
(* availability block again, a moment later and once for a burst: `timer`. *)
(*                                                                         *)
(* What the library does is modelled as it is used: submissions are served *)
(* one after another, each with the fields as they were when it was sent,  *)
(* and an answer is painted only when none is left under way.              *)
(*                                                                         *)
(* While the form is open, other people book and administer: Elsewhere.    *)
(* Bounded by MaxClicks things the person does, MaxElsewhere changes of    *)
(* others, and the values of Patches, Counts, Times.                       *)
(***************************************************************************)
EXTENDS BookingPage

CONSTANTS
  Patches,       \* fields the person may fill in at one go
  Counts,        \* numbers of sessions the person may type
  Times,         \* start times the selects offer
  Others,        \* what others may do: rows added, links and instructors lost, hours gone by
  MaxClicks, MaxElsewhere

VARIABLES
  world,       \* sessions, rules, links, active: rows; now: the clock
  dom,         \* the uncontrolled fields, as they stand in the page
  students, counted, sentCount, rows, matrixDays,   \* React state
  timer,       \* a refresh is waiting for the burst to settle
  queue,       \* submissions under way, oldest first
  state,       \* the answer that is painted
  clicks, elsewhere

form == <<dom, students, counted, sentCount, rows, matrixDays, timer, queue, state>>
formVars == <<form, world, clicks, elsewhere>>

Fields == {"date", "time", "duration", "instructor", "school", "group", "delivery",
           "room", "title"}
ASSUME PatchesAssumption == \A patch \in Patches : DOMAIN patch \subseteq Fields

(* What the action says of repeat rows it does not accept, and of a form   *)
(* that does not say when, how often, what or how long.                    *)
RowRefusals == {"weekday_twice", "too_many_days"}
FormRefusals == {"no_date", "no_sessions", "no_title", "length_not_offered"}

(* A select offers its options and nothing else, the number of sessions is *)
(* a number, and the page of days grows.  None is no value.                *)
ASSUME ControlsAssumption ==
  /\ \A patch \in Patches :
       "school" \in DOMAIN patch => patch.school \in MySchools \cup {None}
  /\ Counts \subseteq Int
  /\ {Grid.pageDays, Grid.maxDays} \subseteq Int /\ Grid.pageDays <= Grid.maxDays
  /\ None \notin Nat \cup Groups \cup RowRefusals \cup FormRefusals

(* A row of a session says from when to when.                              *)
Lasts(s) == {"start", "end"} \subseteq DOMAIN s /\ s.start \in Int /\ s.end \in Int

(* What the parsers let through: dates, real times of day, numbers; and    *)
(* the viewer is somewhere.                                                *)
ASSUME InputsAssumption ==
  /\ \A patch \in Patches : /\ "date" \in DOMAIN patch => patch.date \in Int \cup {None}
                            /\ "time" \in DOMAIN patch => RealCivilTime(patch.time)
                            /\ "duration" \in DOMAIN patch => patch.duration \in Int
  /\ \A time \in Times \cup {Grid.firstTime} : RealCivilTime(time)
  /\ \A other \in Others : /\ other.hours \in Int
                          /\ \A i \in DOMAIN other.sessions : Lasts(other.sessions[i])
  /\ Setting(Config.durations, {}) \subseteq Int
  /\ {Grid.step, Grid.columns, Grid.suggestStep, Grid.suggestColumns} \subseteq Nat
  /\ {Config.maxOccurrences, Config.maxHorizonDays} \subseteq Nat
  /\ Viewer.zone \in Zones /\ NoLimit \notin Nat

Refreshing == {"date", "time", "duration", "instructor", "school", "group"}
Waiting == queue # <<>>      \* `pending`

-----------------------------------------------------------------------------
(* The repeat panel follows the date, the length and the time above it.    *)

Anchor(answer, count) ==
  [date |-> answer.values.date, length |-> answer.context.chosenDuration,
   time |-> answer.values.time, count |-> count]

(* With no date chosen the weekday is Monday.                              *)
Seeded(anchor) ==
  [weekday |-> IF anchor.date = None THEN 1 ELSE IsoWeekday(anchor.date),
   length |-> anchor.length, time |-> anchor.time]

HeadRow(was, previous, next) ==
  IF was = <<>> THEN Seeded(next)
  ELSE [weekday |-> IF next.date # previous.date THEN Seeded(next).weekday ELSE was[1].weekday,
        length |-> IF next.length # previous.length THEN next.length ELSE was[1].length,
        time |-> IF next.time # previous.time THEN next.time ELSE was[1].time]

(* Mutant: the other rows are kept whatever day the head moves to.         *)
ReconcileHeadOnly(was, previous, next) ==
  LET settled == <<HeadRow(was, previous, next)>> \o SubSeq(was, 2, Len(was))
      most == MaxRepeatDays(next.count)
  IN  IF next = previous THEN was
      ELSE IF next.count <= 1 THEN <<>>
      ELSE SubSeq(settled, 1, IF Len(settled) < most THEN Len(settled) ELSE most)

(* The rows after the first that name another day than the head's, in      *)
(* their order.                                                            *)
OtherDays(was, head) ==
  LET kept == {i \in 2 .. Len(was) : was[i].weekday # head.weekday}
  IN  [n \in 1 .. Cardinality(kept) |->
         was[CHOOSE i \in kept : Cardinality({j \in kept : j < i}) = n - 1]]

Reconcile(was, previous, next) ==
  LET head == HeadRow(was, previous, next)
      settled == <<head>> \o OtherDays(was, head)
      most == MaxRepeatDays(next.count)
  IN  IF next = previous THEN was
      ELSE IF next.count <= 1 THEN <<>>
      ELSE SubSeq(settled, 1, IF Len(settled) < most THEN Len(settled) ELSE most)

Taken(i) == {rows[j].weekday : j \in DOMAIN rows \ {i}}
FreeWeekday ==
  LET free == (1 .. 7) \ Taken(0)
  IN  IF free = {} THEN 1 ELSE CHOOSE w \in free : \A v \in free : w <= v

-----------------------------------------------------------------------------
(* The first paint: no date, four in the afternoon, one session.           *)

FirstValues ==
  [step |-> "refresh", date |-> None, time |-> Grid.firstTime,
   duration |-> CHOOSE d \in SelectableDurations : \A e \in SelectableDurations : d <= e,
   instructor |-> None, school |-> None, group |-> None, delivery |-> "external_link",
   room |-> None, title |-> None, override |-> FALSE, students |-> {}, count |-> 1,
   rows |-> <<>>, matrixDays |-> Grid.pageDays]

FirstPaint(rowsNow) ==
  [context |-> BookingContext(rowsNow, [Asked(FirstValues) EXCEPT !.time = Grid.openTime]),
   values |-> FirstValues, plan |-> None, error |-> None, written |-> {}]

(* A select shows what it was asked to only if that is an option of its.   *)
Shown(value, options) == IF value \in options THEN value ELSE None

(* The fields as an answer leaves them.                                    *)
Restored(answer) ==
  [date |-> answer.values.date, time |-> answer.values.time,
   duration |-> answer.context.chosenDuration,
   instructor |-> answer.context.chosenInstructor,
   school |-> Shown(Setting(answer.values.school, answer.context.chosenSchool), MySchools),
   group |-> Shown(answer.values.group, Groups),
   delivery |-> answer.values.delivery,
   room |-> Shown(answer.values.room, answer.context.rooms),
   title |-> answer.values.title]

(* A school narrows the roster: chips of people not offered go.            *)
Kept(chips, answer) ==
  IF answer.context.chosenSchool = None THEN chips ELSE chips \cap answer.context.students

(* The form an answer to `values` leaves at rest.                          *)
AtRest(answer) ==
  [state |-> answer, dom |-> Restored(answer), students |-> answer.values.students,
   counted |-> answer.values.count, sentCount |-> None, rows |-> answer.values.rows,
   matrixDays |-> answer.context.matrixDays, timer |-> FALSE, queue |-> <<>>]

InitForm(resting) ==
  /\ state = resting.state /\ dom = resting.dom /\ students = resting.students
  /\ counted = resting.counted /\ sentCount = resting.sentCount /\ rows = resting.rows
  /\ matrixDays = resting.matrixDays /\ timer = resting.timer /\ queue = resting.queue

(* Opening the page paints it afresh; nothing of an earlier form is kept.  *)
Opened(fresh) ==
  /\ state' = fresh.state /\ dom' = fresh.dom /\ students' = fresh.students
  /\ counted' = fresh.counted /\ sentCount' = fresh.sentCount /\ rows' = fresh.rows
  /\ matrixDays' = fresh.matrixDays /\ timer' = fresh.timer /\ queue' = fresh.queue

OpenForm == Opened(AtRest(FirstPaint(world')))

-----------------------------------------------------------------------------
(* What is sent: the fields as they stand, the chips and the rows.  The    *)
(* number of sessions is not sent while its field is disabled.             *)
Snapshot(step, override) ==
  Over(dom, [step |-> step, students |-> students, rows |-> rows, matrixDays |-> matrixDays,
             count |-> IF state.values.date = None THEN 1 ELSE counted,
             override |-> override])

Submit(step, picked, override) ==
  queue' = Append(queue, Over(picked, Snapshot(step, override)))

Click == clicks < MaxClicks /\ clicks' = clicks + 1 /\ UNCHANGED <<world, elsewhere>>

Picks(picked) ==
  /\ Click
  /\ Submit("preview", picked, FALSE)
  /\ UNCHANGED <<dom, students, counted, sentCount, rows, matrixDays, timer, state>>

-----------------------------------------------------------------------------
(* What the person does.                                                   *)

(* Fields filled in; those that matter to who is free ask again.           *)
Fill(patch) ==
  /\ Click
  /\ "instructor" \in DOMAIN patch =>
       patch.instructor \in state.context.instructors \cup {None}
  /\ "room" \in DOMAIN patch => patch.room \in state.context.rooms \cup {None}
  /\ dom' = Over(patch, dom)
  /\ timer' = (timer \/ DOMAIN patch \cap Refreshing # {})
  /\ UNCHANGED <<students, counted, sentCount, rows, matrixDays, queue, state>>

(* Mutant: the roster's change is not one of those that ask again.         *)
ChangeRosterUnasked(chips) ==
  /\ Click
  /\ students' = chips
  /\ UNCHANGED <<dom, counted, sentCount, rows, matrixDays, timer, queue, state>>

(* The refresh is asked for once the new chips are in the page.            *)
ChangeRoster(chips) ==
  /\ Click
  /\ students' = chips /\ timer' = TRUE
  /\ UNCHANGED <<dom, counted, sentCount, rows, matrixDays, queue, state>>

ChooseStudent(s) ==
  s \in state.context.students \ students /\ ChangeRoster(students \cup {s})
RemoveStudent(s) == s \in students /\ ChangeRoster(students \ {s})

EditCount(n) ==
  /\ Click
  /\ state.values.date # None /\ n # counted
  /\ counted' = n
  /\ rows' = Reconcile(rows, Anchor(state, counted), Anchor(state, n))
  /\ timer' = TRUE
  /\ UNCHANGED <<dom, students, sentCount, matrixDays, queue, state>>

ChangeRows(changed) ==
  /\ Click
  /\ rows' = changed /\ timer' = TRUE
  /\ UNCHANGED <<dom, students, counted, sentCount, matrixDays, queue, state>>

(* Only the days still free are offered, and the row's own.                *)
EditWeekday(i, w) == /\ w \notin Taken(i) /\ rows[i].weekday # w
                     /\ ChangeRows([rows EXCEPT ![i].weekday = w])
EditRowTime(i, t) == rows[i].time # t /\ ChangeRows([rows EXCEPT ![i].time = t])
EditRowLength(i, d) == rows[i].length # d /\ ChangeRows([rows EXCEPT ![i].length = d])
RemoveDay(i) == Len(rows) > 1 /\ ChangeRows(RemoveAt(rows, i))
AddDay ==
  /\ counted > 1 /\ Len(rows) < MaxRepeatDays(counted)
  /\ ChangeRows(Append(rows, [weekday |-> FreeWeekday, time |-> state.values.time,
                              length |-> state.context.chosenDuration]))

(* The plan of the week is that of the answer painted; its rows may be     *)
(* days the panel no longer has.                                           *)
PickRepeatTime(w, t) ==
  /\ state.context.weekPlan # None
  /\ w \in DOMAIN state.context.weekPlan.days /\ t \in state.context.weekPlan.columns
  /\ ChangeRows([i \in DOMAIN rows |->
                   IF rows[i].weekday = w THEN [rows[i] EXCEPT !.time = t] ELSE rows[i]])

LoadMoreDays ==
  /\ Click
  /\ state.context.openings # <<>> /\ state.context.matrixDays < Grid.maxDays
  /\ matrixDays' = Clamped(state.context.matrixDays + Grid.pageDays)
  /\ timer' = TRUE
  /\ UNCHANGED <<dom, students, counted, sentCount, rows, queue, state>>

(* Buttons of the grids submit at once, and with no step of their own.     *)
PickDate(day) ==
  /\ state.context.openings # <<>> /\ day \in DOMAIN state.context.openings
  /\ state.context.openings[day] # {}
  /\ Picks([date |-> day])
PickInstructor(who) ==
  /\ state.context.grid # None /\ who \in DOMAIN state.context.grid.free
  /\ Picks([instructor |-> who])
PickTime(i) ==
  /\ state.context.suggestions # None
  /\ \E who \in DOMAIN state.context.suggestions.free :
       i \in state.context.suggestions.free[who]
  /\ Picks([time |-> state.context.suggestions.columns[i]])
ClearInstructor ==
  state.context.chosenInstructor # None /\ Picks([instructor |-> None])

Preview == ~Waiting /\ Picks(<<>>)

(* Not offered while an answer is awaited, nor for a plan that cannot be   *)
(* booked; the box to override is drawn for whoever may.                   *)
Book(override) ==
  /\ Click
  /\ ~Waiting /\ state.plan # None
  /\ ~state.plan.blocked /\ ~state.plan.selfOverlaps
  /\ override => NeedsOverride(state.plan) /\ Viewer.overrides
  /\ Submit("confirm", <<>>, override)
  /\ UNCHANGED <<dom, students, counted, sentCount, rows, matrixDays, timer, state>>

-----------------------------------------------------------------------------
(* What happens of itself.                                                 *)

(* The burst has settled: the refresh goes, and what it says of the number *)
(* of sessions is remembered.                                              *)
TimerFires ==
  /\ timer
  /\ timer' = FALSE
  /\ sentCount' = counted
  /\ Submit("refresh", <<>>, FALSE)
  /\ UNCHANGED <<dom, students, counted, rows, matrixDays, state, world, clicks, elsewhere>>

(* Mutant: the count is restored like every other field.                   *)
CountAfterEcho(answer) == answer.values.count

(* The count comes back from the echo unless the echo only repeats what    *)
(* the refresh sent.                                                       *)
CountAfter(answer) ==
  IF answer.values.count = sentCount THEN counted ELSE answer.values.count

Commit(answer) ==
  LET count == CountAfter(answer)
  IN  /\ state' = answer
      /\ dom' = Restored(answer)
      /\ students' = Kept(students, answer)
      /\ timer' = (timer \/ students' # students)
      /\ counted' = count /\ sentCount' = None
      /\ matrixDays' = answer.context.matrixDays
      /\ rows' = Reconcile(rows, Anchor(state, counted), Anchor(answer, count))

(* An earlier answer is held back while a later one is awaited.            *)
Answered(answer) ==
  /\ answer.written = {}
  /\ queue' = Tail(queue)
  /\ IF Len(queue) = 1 THEN Commit(answer)
     ELSE UNCHANGED <<dom, students, counted, sentCount, rows, matrixDays, timer, state>>
  /\ UNCHANGED <<world, clicks, elsewhere>>

ServerAnswer == BookingStep(world, Head(queue))

Serve == Waiting /\ Answered(ServerAnswer)

Inserted(sessions, new) ==
  sessions \cup {Over(new[i], [id |-> Cardinality(sessions) + i]) : i \in DOMAIN new}

Elsewhere(other) ==
  /\ elsewhere < MaxElsewhere /\ elsewhere' = elsewhere + 1
  /\ world' = [world EXCEPT !.sessions = Inserted(@, other.sessions),
                            !.links = @ \ other.links, !.active = @ \ other.active,
                            !.now = @ + other.hours]
  /\ world' # world
  /\ UNCHANGED <<form, clicks>>

PersonActs ==
  \/ \E patch \in Patches : Fill(patch)
  \/ \E s \in Students : ChooseStudent(s) \/ RemoveStudent(s)
  \/ \E n \in Counts : EditCount(n)
  \/ \E i \in DOMAIN rows :
       \/ RemoveDay(i)
       \/ \E w \in 1 .. 7 : EditWeekday(i, w)
       \/ \E t \in Times : EditRowTime(i, t)
       \/ \E d \in SelectableDurations : EditRowLength(i, d)
  \/ AddDay
  \/ \E w \in 1 .. 7, t \in Times : PickRepeatTime(w, t)
  \/ LoadMoreDays
  \/ \E day \in DOMAIN state.context.openings : PickDate(day)
  \/ \E who \in world.active : PickInstructor(who)
  \/ \E i \in 1 .. Grid.suggestColumns : PickTime(i)
  \/ ClearInstructor \/ Preview
  \/ \E override \in BOOLEAN : Book(override)

-----------------------------------------------------------------------------
(* Properties.                                                             *)

(* What the form draws of an answer, the plan of the week excepted: the    *)
(* panel's head row can follow a date without asking again.                *)
Drawn(context) ==
  [instructors |-> context.instructors, chosen |-> context.chosenInstructor,
   students |-> context.students, rooms |-> context.rooms, grid |-> context.grid,
   openings |-> context.openings, suggestions |-> context.suggestions]

(* A form at rest shows the answer to itself: once nothing waits and       *)
(* nothing is under way, and if nobody else changed a row, asking again    *)
(* with the fields, the chips and the count as they now stand would draw   *)
(* the same candidates, days and times that are on the screen.             *)
QuietFormIsAnswered ==
  (~timer /\ ~Waiting /\ elsewhere = 0) =>
    Drawn(state.context)
      = Drawn(BookingContext(world, Asked(Snapshot("refresh", FALSE))))

(* The number of sessions is the one field an answer in flight never puts  *)
(* back: painting the answer to a refresh that carried it leaves the       *)
(* number as the person last typed it.                                     *)
CountEditSurvives ==
  [][ (Waiting /\ Head(queue).step = "refresh" /\ state' # state
       /\ state.values.date # None /\ Head(queue).date # None)
        => counted' = counted ]_formVars

(* The repeat panel never builds what the action refuses: no answer ever   *)
(* says that two rows name one weekday, or that the run has too few        *)
(* sessions for its rows, whatever was edited while an answer was awaited. *)
RowsAlwaysAccepted == state.error \notin RowRefusals

(* A cell drawn as free is one Preview has nothing against, as far as the  *)
(* instructor goes: for a session that ends before the viewer's midnight   *)
(* the grid's reading of hours, closures, time off and bookings is the one *)
(* the conflict check makes.                                               *)
FreeCellsAreFree(context) ==
  \A drawn \in {context.grid, context.suggestions} \ {None} :
    \A who \in DOMAIN drawn.free : \A i \in drawn.free[who] :
      LET start == drawn.starts[i]
          end == start + context.chosenDuration
      IN  end <= At(drawn.day + 1, 0, Viewer.zone) =>
            Check(world.rules, world.sessions,
                  [start |-> start, end |-> end, who |-> who, students |-> {},
                   room |-> None, zone |-> Viewer.zone]) = {}

GridNeverOverpromises == [][state' # state => FreeCellsAreFree(state'.context)]_formVars

(* A plan is the rule that was asked for: its dates are the first so many  *)
(* of the weekdays named, closures left out, each at the instant that      *)
(* shows its own day's clock time where the viewer is, and it says when it *)
(* was cut short.                                                          *)
PlanIsTheRule(plan) ==
  /\ ExpandsAsWritten(plan.rule, ExpandOptions(plan.request))
  /\ \A i \in DOMAIN plan.expansion.occurrences :
       LET o == plan.expansion.occurrences[i]
       IN  /\ o.startTime = ScheduleOn(plan.rule, o.localDate).startTime
           /\ IsoWeekday(o.localDate) \in plan.rule.weekdays

PlanAsWritten == [][(state' # state /\ state'.plan # None) => PlanIsTheRule(state'.plan)]_formVars
=============================================================================
