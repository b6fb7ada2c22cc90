---------------------------- MODULE Availability ----------------------------
(***************************************************************************)
(* When an instructor can teach (lib/availability.ts), and what is already *)
(* in the way (lib/conflicts.ts).  The layers are rows: closures, opening  *)
(* hours, exceptions, weekly rules, time off; one rule makes windows of    *)
(* them, and the grids of the booking screen, its list of days and the     *)
(* check behind the preview all ask that rule.                             *)
(*                                                                         *)
(* Abstracted: names, initials, labels and the earliest opening; the       *)
(* tenant (there is one).                                                  *)
(***************************************************************************)
EXTENDS Recurrence, TLC, SessionPolicy

CONSTANTS
  OrgZone,     \* organization.timezone
  OffDays,     \* closures of the organization: civil dates
  OrgBounds,   \* ISO weekday -> the organization's open spans on it
  Exceptions,  \* availability_exception: who, day, available, spans, zone
  TimeOff,     \* time_off: who, start, end as instants
  None         \* a column that is null

-----------------------------------------------------------------------------
(* The layers of a range, and the windows of one day.                      *)

OrganizationOffDays(from, to) == {day \in OffDays : from <= day /\ day <= to}

(* An instructor's weekly rules for a weekday, in the order of the rows.   *)
WeeklyRules(rules, who, weekday) ==
  SelectSeq(rules, LAMBDA r : r.who = who /\ r.weekday = weekday)

(* The rows a range can need, the rules by instructor and weekday: a day   *)
(* more at either end for the time off, whose instants are read in no zone.*)
FetchLayers(rules, ids, from, to) ==
  [offDays    |-> OrganizationOffDays(from, to),
   exceptions |-> {x \in Exceptions : x.who \in ids /\ x.day \in from .. to},
   rules      |-> [who \in ids |-> [weekday \in 1 .. 7 |-> WeeklyRules(rules, who, weekday)]],
   blocks     |-> {b \in TimeOff : /\ b.who \in ids
                                   /\ b.start < WallMs(to + 2, 0)
                                   /\ b.end > WallMs(from - 1, 0)}]

IntersectSpans(spans, bounds) ==
  LET Clip(s, b) == <<IF s[1] > b[1] THEN s[1] ELSE b[1],
                      IF s[2] < b[2] THEN s[2] ELSE b[2]>>
      all == FlattenSeq([i \in DOMAIN spans |->
               [j \in DOMAIN bounds |-> Clip(spans[i], bounds[j])]])
  IN  SelectSeq(all, LAMBDA s : s[1] < s[2])

When(condition, set) == IF condition THEN set ELSE {}

(* A window less a block, which may bisect it.                             *)
Minus(w, b) ==
  IF ~Overlaps(w.start, w.end, b.start, b.end) THEN {w}
  ELSE When(b.start > w.start, {[start |-> w.start, end |-> b.start]})
       \cup When(b.end < w.end, {[start |-> b.end, end |-> w.end]})

SubtractBlocks(windows, blocks) ==
  FoldSet(LAMBDA b, ws : UNION {Minus(w, b) : w \in ws}, windows, blocks)

Applicable(layers, who, day) ==
  SelectSeq(layers.rules[who][IsoWeekday(day)], LAMBDA r :
    /\ r.from = None \/ r.from <= day
    /\ r.until = None \/ day <= r.until)

(* The zone of all of a day's rules is that of the first that has one.     *)
ZoneOf(rules) ==
  LET zoned == SelectSeq(rules, LAMBDA r : r.timezone # None)
  IN  IF zoned = <<>> THEN OrgZone ELSE zoned[1].timezone

(* An exception replaces the weekly pattern.                               *)
Declared(layers, who, day) ==
  LET exceptions == {x \in layers.exceptions : x.who = who /\ x.day = day}
      rules == Applicable(layers, who, day)
  IN  IF exceptions = {}
      THEN [spans |-> [i \in DOMAIN rules |-> <<rules[i].startTime, rules[i].endTime>>],
            zone |-> ZoneOf(rules), refused |-> FALSE]
      ELSE LET x == CHOOSE x \in exceptions : TRUE
           IN  [spans |-> x.spans, refused |-> ~x.isAvailable,
                zone |-> IF x.spans = <<>> \/ x.timezone = None
                         THEN OrgZone ELSE x.timezone]

Closed(reason) == [windows |-> {}, reason |-> reason]

(* The windows in the order of their start; time off is looked for between *)
(* the start of the first and the end of the last of them.                 *)
BlocksBetween(layers, who, windows) ==
  {b \in layers.blocks : /\ b.who = who
                         /\ b.start < windows[Len(windows)].end
                         /\ b.end > windows[1].start}

InstantsOf(spans, day, zone) ==
  LET sorted == SortSeq(spans, LAMBDA s, t : s[1] < t[1])
  IN  [i \in DOMAIN sorted |-> [start |-> At(day, sorted[i][1], zone),
                                end   |-> At(day, sorted[i][2], zone)]]

Left(windows) == IF windows = {} THEN Closed("time off")
                 ELSE [windows |-> windows, reason |-> None]

Overlay(layers, who, windows) ==
  Left(SubtractBlocks(ToSet(windows), BlocksBetween(layers, who, windows)))

(* Narrowest layer last.                                                   *)
Narrowed(layers, who, day, declared) ==
  LET bounds == OrgBounds[IsoWeekday(day)]
      spans == IF bounds = <<>> THEN declared.spans
               ELSE IntersectSpans(declared.spans, bounds)
  IN  IF day \in layers.offDays THEN Closed("closure")
      ELSE IF declared.refused THEN Closed("unavailable on this date")
      ELSE IF declared.spans = <<>> THEN Closed("no availability declared")
      ELSE IF spans = <<>> THEN Closed("opening hours")
      ELSE Overlay(layers, who, InstantsOf(spans, day, declared.zone))

ResolveFrom(layers, who, day) == Narrowed(layers, who, day, Declared(layers, who, day))

ResolveDay(rules, who, day) == ResolveFrom(FetchLayers(rules, {who}, day, day), who, day)

ResolveRange(rules, ids, start, days) ==
  LET layers == FetchLayers(rules, ids, start, start + days - 1)
  IN  [who \in ids |->
         [day \in start .. start + days - 1 |-> ResolveFrom(layers, who, day)]]

WindowContains(w, start, end) == w.start <= start /\ end <= w.end

Within(of, start, end) ==
  LET days == DOMAIN of
  IN  IF \E day \in days : \E w \in of[day].windows : WindowContains(w, start, end)
      THEN [available |-> TRUE, reason |-> None]
      ELSE [available |-> FALSE,
            reason |-> IF Cardinality(days) = 1 /\ \A day \in days : of[day].windows = {}
                       THEN of[CHOOSE day \in days : TRUE].reason
                       ELSE "outside declared availability"]

(* The days the session touches.                                           *)
IsAvailable(rules, who, start, end, zone) ==
  Within([day \in {CivilDate(start, zone), CivilDate(end - 1, zone)} |->
            ResolveDay(rules, who, day)], start, end)

(* The instructor's own page: a run of days.                               *)
Matrix(rules, who, start, days) ==
  LET resolved == ResolveRange(rules, {who}, start, days)
  IN  [i \in 1 .. days |-> resolved[who][start + i - 1]]

-----------------------------------------------------------------------------
(* What is booked.  A session is who, students, room, start, end, status.  *)

Live(sessions, from, to) ==
  {s \in sessions : s.status \in BLOCKING_STATUSES /\ Overlaps(s.start, s.end, from, to)}

BusyIntervals(sessions, ids, from, to) ==
  [who \in ids |-> {[start |-> s.start, end |-> s.end] :
                      s \in {t \in Live(sessions, from, to) : t.who = who}}]

OverlapsBusy(busy, start, end) ==
  \E taken \in busy : Overlaps(taken.start, taken.end, start, end)

Unavailable(answer) ==
  When(~answer.available, {IF answer.reason = "opening hours" THEN "organization_closed"
                           ELSE "outside_availability"})

Check(rules, sessions, input) ==
  LET live == Live(sessions, input.start, input.end)
  IN  {"instructor_busy" : s \in {t \in live : t.who = input.who}}
      \cup {"student_busy" : s \in {t \in live : t.students \cap input.students # {}}}
      \cup {"location_busy" : s \in {t \in live : t.room = input.room /\ input.room # None}}
      \cup Unavailable(IsAvailable(rules, input.who, input.start, input.end, input.zone))

ABSOLUTE_KINDS == {"instructor_busy", "location_busy"}

WithoutBusy(windows, busy) == SubtractBlocks(windows, busy)

-----------------------------------------------------------------------------
(* The three grids.                                                        *)

(* Which of the candidates have room for the session, day by day.          *)
Roomy(resolved, candidates, start, days, duration, busy) ==
  [day \in start .. start + days - 1 |->
     {who \in candidates :
        \E w \in WithoutBusy(resolved[who][day].windows, busy[who]) :
          w.end - w.start >= duration}]

Openings(rules, candidates, start, days, duration, busy) ==
  Roomy(ResolveRange(rules, candidates, start, days), candidates, start, days, duration, busy)

(* The columns are instants a step apart, until the viewer's day ends.     *)
GridColumns(day, from, zone, columns, step) ==
  LET first == At(day, from, zone)
      last == At(day + 1, 0, zone)
      count == Cardinality({i \in 0 .. columns - 1 : first + i * step < last})
  IN  [i \in 1 .. count |-> first + (i - 1) * step]

Cells(slots, resolved, candidates, day, duration, zone, busy) ==
  LET DeclaredAt(who, i) == \E w \in resolved[who][day].windows :
                              WindowContains(w, slots[i], slots[i] + duration)
      Taken(who, i) == /\ DeclaredAt(who, i)
                       /\ OverlapsBusy(busy[who], slots[i], slots[i] + duration)
  IN  [day |-> day,
       columns |-> [i \in DOMAIN slots |-> CivilTimeOf(slots[i], zone)],
       starts |-> slots,
       free |-> [who \in candidates |->
                   {i \in DOMAIN slots : DeclaredAt(who, i) /\ ~Taken(who, i)}],
       taken |-> [who \in candidates |-> {i \in DOMAIN slots : Taken(who, i)}]]

DayGrid(rules, candidates, day, from, duration, zone, columns, step, busy) ==
  Cells(GridColumns(day, from, zone, columns, step), ResolveRange(rules, candidates, day, 1),
        candidates, day, duration, zone, busy)

OnOrAfter(from, weekday) ==
  CHOOSE day \in from .. from + 6 : IsoWeekday(day) = weekday

(* A row per weekday of the run, asked about the same clock times on the   *)
(* date the weekday falls on; what is taken there is marked and not        *)
(* withdrawn.                                                              *)
WeekdayGrid(rules, who, wanted, from, fromTime, zone, columns, step, busy) ==
  LET days == [w \in DOMAIN wanted |-> OnOrAfter(from, w)]
      clock == {fromTime + i * step : i \in 0 .. columns - 1} \cap 0 .. DayLen - 1
      layers == FetchLayers(rules, {who}, from, from + 6)
      Start(w, time) == At(days[w], time, zone)
      End(w, time) == Start(w, time) + wanted[w].durationMinutes
  IN  [columns |-> clock,
       days |-> days,
       free |-> [w \in DOMAIN wanted |-> {time \in clock :
                   \E win \in ResolveFrom(layers, who, days[w]).windows :
                     WindowContains(win, Start(w, time), End(w, time))}],
       taken |-> [w \in DOMAIN wanted |-> {time \in clock :
                   OverlapsBusy(busy[who], Start(w, time), End(w, time))}]]
=============================================================================
