----------------------------- MODULE Recurrence -----------------------------
(***************************************************************************)
(* Recurrence expansion (lib/recurrence.ts): a rule walked over civil      *)
(* dates, one day at a time, into a list of occurrences.  The preview and  *)
(* the booking both call it, so there is one definition of it here too.    *)
(***************************************************************************)
EXTENDS CivilTime, FiniteSets, Sequences, SequencesExt

CONSTANTS MaxCandidateDays,  \* the ceiling on the walk, whatever the tenant says
          NoLimit            \* an occurrence count or an end date not given

(* Validation: each failure rejects the request before a row is written.   *)
EndIsOne(input) ==
  IF input.endMode = "count"
  THEN /\ input.occurrenceCount # NoLimit /\ input.occurrenceCount >= 1
       /\ input.untilDate = NoLimit
  ELSE /\ input.untilDate # NoLimit /\ input.occurrenceCount = NoLimit
       /\ input.untilDate >= input.startDate

(* No weekday chosen means the weekday the series starts on; an override   *)
(* for a weekday the rule does not run on is dropped, not refused.         *)
RunsOn(input) ==
  IF input.frequency # "weekly" THEN {}
  ELSE IF input.weekdays = {} THEN {IsoWeekday(input.startDate)}
  ELSE input.weekdays

KeptOverrides(input) ==
  [w \in RunsOn(input) \intersect DOMAIN input.perWeekday |-> input.perWeekday[w]]

RuleAccepted(input) ==
  /\ input.intervalN >= 1
  /\ input.durationMinutes >= 1
  /\ EndIsOne(input)
  /\ \A w \in DOMAIN KeptOverrides(input) : input.perWeekday[w].durationMinutes >= 1

BuildRule(input) ==
  [input EXCEPT !.weekdays = RunsOn(input), !.perWeekday = KeptOverrides(input)]

(* The interval counts calendar weeks, from each date's own Monday.        *)
Matches(rule, day) ==
  /\ day >= rule.startDate
  /\ IF rule.frequency = "daily"
     THEN (day - rule.startDate) % rule.intervalN = 0
     ELSE LET startWeek == rule.startDate - (IsoWeekday(rule.startDate) - 1)
              dayWeek == day - (IsoWeekday(day) - 1)
          IN  /\ IsoWeekday(day) \in rule.weekdays
              /\ ((dayWeek - startWeek) \div 7) % rule.intervalN = 0

ScheduleOn(rule, day) ==
  IF IsoWeekday(day) \in DOMAIN rule.perWeekday
  THEN rule.perWeekday[IsoWeekday(day)]
  ELSE [startTime |-> rule.startTime, durationMinutes |-> rule.durationMinutes]

PlannedOccurrence(rule, day, index) ==
  LET schedule == ScheduleOn(rule, day)
      resolved == ResolveCivil(day, schedule.startTime, rule.timezone)
  IN  [index |-> index, localDate |-> day,
       start |-> resolved.instant,
       end |-> resolved.instant + schedule.durationMinutes,
       dstEdge |-> resolved.edge,
       startTime |-> schedule.startTime]

Stopped(walk, reason) == [walk EXCEPT !.over = TRUE, !.truncated = reason]

ReachedCount(rule, occurrences) ==
  rule.endMode = "count" /\ Len(occurrences) >= rule.occurrenceCount

(* One turn of the loop.  A closure does not consume a position.           *)
Examine(rule, options, walk, day) ==
  IF walk.over THEN walk
  ELSE IF day - rule.startDate >= MaxCandidateDays THEN Stopped(walk, "ten years")
  ELSE IF rule.endMode = "until" /\ day > rule.untilDate THEN Stopped(walk, "no")
  ELSE IF day > rule.startDate + options.maxHorizonDays THEN Stopped(walk, "horizon")
  ELSE IF ~Matches(rule, day) THEN walk
  ELSE IF day \in options.skipDates
       THEN [walk EXCEPT !.skippedDates = Append(@, day)]
  ELSE IF Len(walk.occurrences) >= options.maxOccurrences THEN Stopped(walk, "limit")
  ELSE LET more == Append(walk.occurrences,
                          PlannedOccurrence(rule, day, Len(walk.occurrences) + 1))
       IN  [walk EXCEPT !.occurrences = more, !.over = ReachedCount(rule, more)]

NewWalk == [occurrences |-> <<>>, skippedDates |-> <<>>, truncated |-> "no", over |-> FALSE]

(* The walk after each candidate day: the day past the horizon ends it.    *)
Expand(rule, options) ==
  LET days == options.maxHorizonDays + 2
      walk[n \in 0 .. days] ==
        IF n = 0 THEN NewWalk
        ELSE Examine(rule, options, walk[n - 1], rule.startDate + n - 1)
  IN  walk[days]

DstAdjusted(expansion) ==
  SelectSeq(expansion.occurrences, LAMBDA o : o.dstEdge # "none")

(* Occurrences of one plan that clash with each other (conflicts.ts).      *)
SelfOverlaps(occurrences) ==
  {pair \in (DOMAIN occurrences) \X (DOMAIN occurrences) :
     /\ pair[1] < pair[2]
     /\ Overlaps(occurrences[pair[1]].start, occurrences[pair[1]].end,
                 occurrences[pair[2]].start, occurrences[pair[2]].end)}

(***************************************************************************)
(* The rule said without a walk: the dates are those of the rule's weeks   *)
(* (or of its step, for a daily rule), up to the end date and the horizon, *)
(* less the closures; the run takes the first so many of them, and says it *)
(* was cut short exactly when the rule asked for more.                     *)
(***************************************************************************)
DatesOfRule(rule, options) ==
  {day \in rule.startDate .. rule.startDate + options.maxHorizonDays :
     /\ rule.endMode = "until" => day <= rule.untilDate
     /\ IF rule.frequency = "daily"
        THEN \E n \in 0 .. options.maxHorizonDays : day = rule.startDate + n * rule.intervalN
        ELSE /\ IsoWeekday(day) \in rule.weekdays
             /\ \E n \in 0 .. options.maxHorizonDays :
                  day \div 7 = rule.startDate \div 7 + n * rule.intervalN}

ExpandsAsWritten(rule, options) ==
  LET e == Expand(rule, options)
      open == DatesOfRule(rule, options) \ options.skipDates
      got == {e.occurrences[i].localDate : i \in DOMAIN e.occurrences}
      asked == IF rule.endMode = "count" THEN rule.occurrenceCount ELSE NoLimit
  IN  /\ got \subseteq open
      /\ \A d \in open \ got : \A g \in got : g < d
      /\ \A i \in DOMAIN e.occurrences :
           /\ e.occurrences[i].index = i
           /\ i > 1 => /\ e.occurrences[i-1].localDate < e.occurrences[i].localDate
                       /\ e.occurrences[i-1].start < e.occurrences[i].start
           /\ ResolvesAsPromised(e.occurrences[i].localDate,
                                 e.occurrences[i].startTime, rule.timezone)
      /\ Cardinality(got) <= options.maxOccurrences
      /\ asked # NoLimit => /\ Cardinality(got) <= asked
                            /\ Cardinality(got) < asked => e.truncated # "no"
      /\ asked = NoLimit => (e.truncated = "no" => got = open)
=============================================================================
