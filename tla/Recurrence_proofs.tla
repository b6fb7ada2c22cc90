-------------------------- MODULE Recurrence_proofs --------------------------
(***************************************************************************)
(* Clocks and rules, for every zone with one change of offset, every rule  *)
(* that buildRule accepts, every tenant's bounds and every set of          *)
(* closures.                                                               *)
(*                                                                         *)
(* First what the head of lib/time.ts promises of a wall clock.  Then the  *)
(* walk of lib/recurrence.ts over the days: what it has done after each of *)
(* them (Walked), from which the list it ends with is the rule said        *)
(* without a walk.                                                         *)
(***************************************************************************)
EXTENDS Recurrence, FiniteSetTheorems, WellFoundedInduction, TLAPS

-----------------------------------------------------------------------------
(* Wall clocks.                                                            *)

(* A change of offset is less than a day, so the two probes of the code    *)
(* lie on either side of it whenever it matters.                           *)
LEMMA ZoneFacts ==
  ASSUME NEW z \in Zones
  PROVE  /\ ZoneTable[z].before \in Int /\ ZoneTable[z].after \in Int
         /\ ZoneTable[z].at \in Int
         /\ -DayLen < ZoneTable[z].before /\ ZoneTable[z].before < DayLen
         /\ -DayLen < ZoneTable[z].after /\ ZoneTable[z].after < DayLen
         /\ DayLen \in Int /\ DayLen > 0
BY ZoneAssumption, DayLenAssumption

(* An instant shows a wall clock only under the offset of a probe: what    *)
(* resolveCivil tries is all there is to try.                              *)
LEMMA OnlyTheProbes ==
  ASSUME NEW z \in Zones, NEW target \in Int, NEW i \in Int, WallOf(z, i) = target
  PROVE  \/ i = target - Offset(z, target - DayLen)
         \/ i = target - Offset(z, target + DayLen)
BY ZoneFacts DEF WallOf, Offset

(* Where neither probe shows the wall clock, the clocks went forward over  *)
(* it, and the larger of the two is the one read before they did.          *)
LEMMA GapIsForward ==
  ASSUME NEW z \in Zones, NEW target \in Int,
         WallOf(z, target - Offset(z, target - DayLen)) # target,
         WallOf(z, target - Offset(z, target + DayLen)) # target
  PROVE  /\ Offset(z, target - DayLen) = ZoneTable[z].before
         /\ Offset(z, target + DayLen) = ZoneTable[z].after
         /\ ZoneTable[z].before < ZoneTable[z].after
         /\ target - ZoneTable[z].before >= ZoneTable[z].at
BY ZoneFacts DEF WallOf, Offset

(* resolveCivil gives the first instant that shows a wall clock, says so   *)
(* when there is another, and moves what no instant shows on by the size   *)
(* of the gap: the policy at the head of time.ts, whatever the zone.       *)
THEOREM ClocksResolve ==
  ASSUME NEW z \in Zones, NEW day \in Int, NEW time \in Int
  PROVE  ResolvesAsPromised(day, time, z)
<1> DEFINE target == WallMs(day, time)
           a == target - Offset(z, target - DayLen)
           b == target - Offset(z, target + DayLen)
           got == ResolveCivil(day, time, z)
           near == (target - 2 * DayLen) .. (target + 2 * DayLen)
           shows == {i \in near : WallOf(z, i) = target}
<1>1. target \in Int
  BY ZoneFacts DEF WallMs
<1>2. a \in Int /\ b \in Int /\ a \in near /\ b \in near
  BY <1>1, ZoneFacts DEF Offset
<1>3. got = Resolved(z, target, a, b)
  BY DEF ResolveCivil
<1>4. \A i \in shows : i \in Int /\ WallOf(z, i) = target /\ (i = a \/ i = b)
  BY <1>1, OnlyTheProbes, ZoneFacts
<1> HIDE DEF a, b, got
<1>5. CASE shows # {}
  <2>1. WallOf(z, a) = target \/ WallOf(z, b) = target
    BY <1>4, <1>5
  <2>2. /\ got.instant \in shows
        /\ \A i \in shows : got.instant <= i
        /\ (got.edge = "ambiguous_first") <=> (\E i \in shows : i # got.instant)
        /\ got.edge # "gap_shifted"
    <3>1. CASE WallOf(z, a) = target /\ WallOf(z, b) = target /\ a # b
      BY <1>2, <1>3, <1>4, <3>1 DEF Resolved
    <3>2. CASE ~(WallOf(z, a) = target /\ WallOf(z, b) = target /\ a # b)
      BY <1>2, <1>3, <1>4, <2>1, <3>2 DEF Resolved
    <3> QED BY <3>1, <3>2
  <2> QED BY <1>5, <2>2 DEF ResolvesAsPromised, got
<1>6. CASE shows = {}
  <2>1. WallOf(z, a) # target /\ WallOf(z, b) # target
    BY <1>2, <1>6
  <2>2. /\ a = target - ZoneTable[z].before
        /\ b = target - ZoneTable[z].after
        /\ b < a
        /\ a >= ZoneTable[z].at
    BY <1>1, <2>1, GapIsForward, ZoneFacts DEF a, b
  <2>3. got.edge = "gap_shifted" /\ got.instant = a
    BY <1>2, <1>3, <2>1, <2>2 DEF Resolved
  <2>4. WallOf(z, got.instant) = target + (ZoneTable[z].after - ZoneTable[z].before)
    BY <1>1, <2>2, <2>3, ZoneFacts DEF WallOf, Offset
  <2> QED BY <1>6, <2>3, <2>4 DEF ResolvesAsPromised, got
<1> QED BY <1>5, <1>6

(* A civil date and time that a zone's clock shows come back from the      *)
(* instant they were resolved to: what a calendar draws is what was typed, *)
(* unless the clock skipped it.                                            *)
THEOREM ClocksRoundTrip ==
  ASSUME NEW z \in Zones, NEW day \in Int, NEW time \in 0 .. DayLen - 1,
         ResolveCivil(day, time, z).edge # "gap_shifted"
  PROVE  /\ CivilDate(At(day, time, z), z) = day
         /\ CivilTimeOf(At(day, time, z), z) = time
<1> DEFINE target == WallMs(day, time)
<1>1. target \in Int /\ time \in Int
  BY ZoneFacts DEF WallMs
<1>2. WallOf(z, At(day, time, z)) = target
  BY <1>1, ClocksResolve DEF ResolvesAsPromised, At
<1>3. target \div DayLen = day /\ target % DayLen = time
  BY <1>1, DayLenAssumption DEF WallMs
<1> QED BY <1>2, <1>3 DEF CivilDate, CivilTimeOf

(* The instant of a wall clock: by the offset before the change if that is *)
(* before it, by the one after if that is after, and else it was skipped.  *)
LEMMA ResolvedAt ==
  ASSUME NEW z \in Zones, NEW day \in Int, NEW time \in Int
  PROVE  LET zone == ZoneTable[z]
             target == WallMs(day, time)
         IN  /\ At(day, time, z) \in Int
             /\ At(day, time, z) = IF target - zone.before < zone.at THEN target - zone.before
                                   ELSE IF target - zone.after >= zone.at THEN target - zone.after
                                   ELSE target - zone.before
<1> DEFINE target == WallMs(day, time)
           a == target - Offset(z, target - DayLen)
           b == target - Offset(z, target + DayLen)
<1>1. target \in Int
  BY ZoneFacts DEF WallMs
<1>2. At(day, time, z) = Resolved(z, target, a, b).instant
  BY DEF At, ResolveCivil
<1> HIDE DEF target
<1>3. /\ a \in Int /\ b \in Int
      /\ Resolved(z, target, a, b).instant \in {a, b}
  BY <1>1, ZoneFacts DEF Offset, Resolved
<1>4. Resolved(z, target, a, b).instant =
        IF target - ZoneTable[z].before < ZoneTable[z].at THEN target - ZoneTable[z].before
        ELSE IF target - ZoneTable[z].after >= ZoneTable[z].at THEN target - ZoneTable[z].after
        ELSE target - ZoneTable[z].before
  BY <1>1, ZoneFacts DEF Offset, Resolved, WallOf
<1> QED BY <1>2, <1>3, <1>4 DEF target

(* A later day is a later instant, whatever the two clock times and        *)
(* wherever the clocks change: only a skip that moves a time into the next *)
(* day could put it after that day's own.                                  *)
LEMMA ClocksKeepDays ==
  ASSUME NEW z \in Zones, SkipsWithinADay(z), NEW d \in Int, NEW e \in Int,
         NEW s \in 0 .. DayLen - 1, NEW t \in 0 .. DayLen - 1, d < e
  PROVE  At(d, s, z) < At(e, t, z)
<1> DEFINE u == WallMs(d, s)
           v == WallMs(e, t)
           before == ZoneTable[z].before
           after == ZoneTable[z].after
           at == ZoneTable[z].at
<1>1. /\ before \in Int /\ after \in Int /\ at \in Int /\ DayLen \in Int /\ DayLen > 0
  BY ZoneFacts
<1>2. u \in Int /\ v \in Int /\ s \in Int /\ t \in Int
  BY <1>1 DEF WallMs
<1>3. u \div DayLen = d /\ v \div DayLen = e
  BY <1>1, <1>2 DEF WallMs
<1>4. u < v
  BY <1>1, <1>2, <1>3 DEF WallMs
<1>5. (after > before /\ at + before <= u /\ u < at + after) => v > u + (after - before)
  <2> SUFFICES ASSUME after > before, at + before <= u, u < at + after
               PROVE  v > u + (after - before)
    OBVIOUS
  <2> DEFINE last == at + before + 2 * (after - before) - 1
  <2>1. last \div DayLen = (at + before) \div DayLen
    BY <1>1 DEF SkipsWithinADay
  <2>2. last \in Int /\ at + before <= u /\ u <= last /\ u + (after - before) <= last
    BY <1>1, <1>2
  <2> HIDE DEF last, u, v
  <2>3. (at + before) \div DayLen <= d /\ d <= last \div DayLen
    BY <1>1, <1>2, <1>3, <2>2
  <2>4. d = last \div DayLen
    BY <1>1, <2>1, <2>2, <2>3
  <2>5. last < v
    BY <1>1, <1>2, <1>3, <2>2, <2>4
  <2> QED BY <1>1, <1>2, <2>2, <2>5
<1>6. /\ At(d, s, z) = IF u - before < at THEN u - before
                       ELSE IF u - after >= at THEN u - after ELSE u - before
      /\ At(e, t, z) = IF v - before < at THEN v - before
                       ELSE IF v - after >= at THEN v - after ELSE v - before
  BY <1>2, ResolvedAt
<1> HIDE DEF u, v, before, after, at
<1> QED BY <1>1, <1>2, <1>4, <1>5, <1>6

(* A midnight is not among what the clocks skip, unless they skip from it. *)
LEMMA MidnightIsNotSkipped ==
  ASSUME NEW z \in Zones, ChangesWithinADay(z), NEW d \in Int
  PROVE  LET from == ZoneTable[z].at + ZoneTable[z].before
             to == ZoneTable[z].at + ZoneTable[z].after
         IN  /\ ~(from < WallMs(d, 0) /\ WallMs(d, 0) < to)
             /\ ~(to < WallMs(d, 0) /\ WallMs(d, 0) < from)
<1> DEFINE from == ZoneTable[z].at + ZoneTable[z].before
           to == ZoneTable[z].at + ZoneTable[z].after
           midnight == WallMs(d, 0)
<1>1. /\ from \in Int /\ to \in Int /\ midnight \in Int /\ DayLen \in Int /\ DayLen > 0
  BY ZoneFacts DEF WallMs
<1>2. midnight \div DayLen = d /\ (midnight - 1) \div DayLen = d - 1
  <2> DEFINE e == d - 1
             start == e * DayLen
  <2>1. midnight = d * DayLen /\ start + DayLen = d * DayLen /\ start \in Int /\ e \in Int
    BY <1>1 DEF WallMs
  <2>2. (start + DayLen - 1) \div DayLen = e
    BY <1>1
  <2>3. (d * DayLen) \div DayLen = d
    BY <1>1
  <2>4. midnight - 1 = start + DayLen - 1
    BY <1>1, <2>1
  <2> HIDE DEF start, midnight
  <2> QED BY <2>1, <2>2, <2>3, <2>4
<1>3. to > from => (from + 2 * (to - from) - 1) \div DayLen = from \div DayLen
  BY ZoneFacts DEF ChangesWithinADay, SkipsWithinADay
<1>4. from > to => (from - 1) \div DayLen = to \div DayLen
  BY ZoneFacts DEF ChangesWithinADay, RepeatsWithinADay
<1>5. ASSUME NEW i \in Int, NEW k \in Int, i < midnight, midnight <= k
      PROVE  i \div DayLen # k \div DayLen
  <2> HIDE DEF midnight
  <2>1. i \div DayLen <= (midnight - 1) \div DayLen /\ midnight \div DayLen <= k \div DayLen
    BY <1>1, <1>5
  <2>2. i \div DayLen \in Int /\ k \div DayLen \in Int
    BY <1>1
  <2> QED BY <1>2, <2>1, <2>2
<1> HIDE DEF from, to, midnight
<1>6. ASSUME from < midnight, midnight < to PROVE FALSE
  <2> DEFINE last == from + 2 * (to - from) - 1
  <2>1. last \in Int /\ midnight <= last
    BY <1>1, <1>6
  <2>2. last \div DayLen = from \div DayLen
    BY <1>1, <1>3, <1>6
  <2> HIDE DEF last
  <2> QED BY <1>1, <1>5, <1>6, <2>1, <2>2
<1>7. ASSUME to < midnight, midnight < from PROVE FALSE
  <2> DEFINE last == from - 1
  <2>1. last \in Int /\ midnight <= last
    BY <1>1, <1>7
  <2>2. last \div DayLen = to \div DayLen
    BY <1>1, <1>4, <1>7
  <2> HIDE DEF last
  <2> QED BY <1>1, <1>5, <1>7, <2>1, <2>2
<1> QED BY <1>6, <1>7 DEF from, to, midnight

(* A day begins at its midnight: no time of the day is an earlier instant. *)
LEMMA MidnightIsFirst ==
  ASSUME NEW z \in Zones, ChangesWithinADay(z), NEW d \in Int, NEW t \in 0 .. DayLen - 1
  PROVE  At(d, 0, z) <= At(d, t, z)
<1> DEFINE u == WallMs(d, 0)
           v == WallMs(d, t)
           before == ZoneTable[z].before
           after == ZoneTable[z].after
           at == ZoneTable[z].at
<1>1. /\ before \in Int /\ after \in Int /\ at \in Int /\ DayLen \in Int /\ DayLen > 0
      /\ u \in Int /\ v \in Int /\ t \in Int /\ u <= v
  BY ZoneFacts DEF WallMs
<1>2. /\ At(d, 0, z) = IF u - before < at THEN u - before
                       ELSE IF u - after >= at THEN u - after ELSE u - before
      /\ At(d, t, z) = IF v - before < at THEN v - before
                       ELSE IF v - after >= at THEN v - after ELSE v - before
  BY <1>1, ResolvedAt
<1>3. ~(at + before < u /\ u < at + after)
  BY <1>1, MidnightIsNotSkipped
<1> HIDE DEF u, v, before, after, at
<1> QED BY <1>1, <1>2, <1>3

(* What happens from one midnight to the next shows the date between them. *)
LEMMA DateBetweenMidnights ==
  ASSUME NEW z \in Zones, ChangesWithinADay(z), NEW d \in Int, NEW i \in Int,
         At(d, 0, z) <= i, i < At(d + 1, 0, z)
  PROVE  CivilDate(i, z) = d
<1> DEFINE u == WallMs(d, 0)
           v == WallMs(d + 1, 0)
           before == ZoneTable[z].before
           after == ZoneTable[z].after
           at == ZoneTable[z].at
<1>1. /\ before \in Int /\ after \in Int /\ at \in Int /\ DayLen \in Int /\ DayLen > 0
      /\ u = d * DayLen /\ v = u + DayLen /\ u \in Int /\ v \in Int
  BY ZoneFacts DEF WallMs
<1>2. /\ At(d, 0, z) = IF u - before < at THEN u - before
                       ELSE IF u - after >= at THEN u - after ELSE u - before
      /\ At(d + 1, 0, z) = IF v - before < at THEN v - before
                           ELSE IF v - after >= at THEN v - after ELSE v - before
  <2>1. d + 1 \in Int /\ 0 \in Int
    OBVIOUS
  <2> QED BY <2>1, ResolvedAt
<1>3. /\ ~(at + before < u /\ u < at + after) /\ ~(at + after < u /\ u < at + before)
      /\ ~(at + before < v /\ v < at + after) /\ ~(at + after < v /\ v < at + before)
  BY <1>1, MidnightIsNotSkipped
<1>4. WallOf(z, i) = i + (IF i < at THEN before ELSE after)
  BY DEF WallOf, Offset
<1> HIDE DEF u, v, before, after, at
<1>5. u <= WallOf(z, i) /\ WallOf(z, i) < v /\ WallOf(z, i) \in Int
  BY <1>1, <1>2, <1>3, <1>4
<1> DEFINE wall == WallOf(z, i)
<1>6. wall \in d * DayLen .. d * DayLen + DayLen - 1
  BY <1>1, <1>5
<1> HIDE DEF wall
<1>7. wall \div DayLen = d
  BY <1>1, <1>6
<1> QED BY <1>7 DEF CivilDate, wall

-----------------------------------------------------------------------------
(* Induction on the numbers, and on a function defined by it.              *)

(* A set of numbers has a least one.                                       *)
LEMMA LeastOne ==
  ASSUME NEW T \in SUBSET Nat, T # {}
  PROVE  \E x \in T : \A y \in T : x <= y
<1> DEFINE R == OpToRel(<, Nat)
<1>1. IsWellFoundedOn(R, Nat)
  BY NatLessThanWellFounded
<1>2. \A x \in Nat, y \in Nat : <<y, x>> \in R <=> y < x
  BY DEF OpToRel
<1> HIDE DEF R
<1>3. PICK x \in T : \A y \in T : ~ (<<y, x>> \in R)
  BY <1>1, WFMin
<1>4. x \in Nat /\ \A y \in T : y \in Nat /\ ~ (y < x)
  BY <1>2, <1>3
<1>5. \A y \in T : x <= y
  BY <1>4
<1> QED BY <1>5

(* A set that has 0, and the next of each of its numbers, has them all.    *)
LEMMA SetInduction ==
  ASSUME NEW T, 0 \in T, \A n \in Nat : n \in T => n + 1 \in T
  PROVE  Nat \subseteq T
<1> SUFFICES ASSUME Nat \ T # {} PROVE FALSE
  OBVIOUS
<1>1. PICK x \in Nat \ T : \A y \in Nat \ T : x <= y
  BY LeastOne
<1>2. x # 0 /\ x - 1 \in Nat /\ x - 1 \in T
  BY <1>1
<1> QED BY <1>1, <1>2

(* The walk of a rule, as its definition chooses it.                       *)
WalkOf(rule, options, days) ==
  CHOOSE walk : walk = [n \in 0 .. days |->
     IF n = 0 THEN NewWalk ELSE Examine(rule, options, walk[n - 1], rule.startDate + n - 1)]

(* A rule's expansion is the walk after its last day.                      *)
LEMMA ExpandIs ==
  ASSUME NEW rule, NEW options
  PROVE  Expand(rule, options)
           = WalkOf(rule, options, options.maxHorizonDays + 2)[options.maxHorizonDays + 2]
BY DEF Expand, WalkOf

(* There is such a walk, for any number of days.                           *)
LEMMA WalkExists ==
  ASSUME NEW rule, NEW options, NEW days \in Nat
  PROVE  WalkOf(rule, options, days) =
           [n \in 0 .. days |-> IF n = 0 THEN NewWalk
              ELSE Examine(rule, options, WalkOf(rule, options, days)[n - 1],
                           rule.startDate + n - 1)]
<1> DEFINE Walks(d, w) == w = [n \in 0 .. d |->
              IF n = 0 THEN NewWalk ELSE Examine(rule, options, w[n - 1], rule.startDate + n - 1)]
           T == {d \in Nat : \E w : Walks(d, w)}
<1>1. 0 \in T
  <2>1. Walks(0, [n \in 0 .. 0 |-> NewWalk])
    OBVIOUS
  <2> QED BY <2>1
<1>2. ASSUME NEW d \in Nat, d \in T PROVE d + 1 \in T
  <2>1. PICK w : Walks(d, w)
    BY <1>2
  <2> DEFINE v == [n \in 0 .. d + 1 |->
                     IF n <= d THEN w[n] ELSE Examine(rule, options, w[d], rule.startDate + d)]
  <2>2. ASSUME NEW n \in 0 .. d + 1
        PROVE  v[n] = IF n = 0 THEN NewWalk
                      ELSE Examine(rule, options, v[n - 1], rule.startDate + n - 1)
    <3>1. CASE n = 0
      BY <2>1, <3>1
    <3>2. CASE n \in 1 .. d
      BY <2>1, <3>2
    <3>3. CASE n = d + 1
      BY <3>3
    <3> QED BY <3>1, <3>2, <3>3
  <2>3. Walks(d + 1, v)
    BY <2>2
  <2> HIDE DEF v, Walks
  <2>4. \E u : Walks(d + 1, u)
    BY <2>3
  <2> QED BY <2>4
<1> HIDE DEF T
<1>3. days \in T
  BY <1>1, <1>2, SetInduction
<1>4. \E w : Walks(days, w)
  BY <1>3 DEF T
<1>5. Walks(days, CHOOSE w : Walks(days, w))
  BY <1>4
<1> QED BY <1>5 DEF WalkOf

-----------------------------------------------------------------------------
(* The days of a rule.                                                     *)

(* A remainder of zero is a multiple.                                      *)
LEMMA Divides ==
  ASSUME NEW m \in Nat, NEW n \in Nat \ {0}
  PROVE  m % n = 0 <=> \E k \in 0 .. m : m = k * n
<1>1. m = n * (m \div n) + (m % n) /\ (m % n) \in 0 .. n - 1 /\ m \div n \in Int
  OBVIOUS
<1>2. ASSUME m % n = 0 PROVE \E k \in 0 .. m : m = k * n
  <2>1. m = (m \div n) * n
    BY <1>1, <1>2
  <2>2. m \div n >= 0 /\ m \div n <= m
    BY <2>1, <1>1
  <2> QED BY <2>1, <2>2, <1>1
<1>3. ASSUME NEW k \in 0 .. m, m = k * n PROVE m % n = 0
  BY <1>3, <1>1
<1> QED BY <1>2, <1>3

(* The weeks between two days' own Mondays.                                *)
LEMMA WeekOf ==
  ASSUME NEW day \in Int, NEW start \in Int, day >= start
  PROVE  /\ ((day - (IsoWeekday(day) - 1)) - (start - (IsoWeekday(start) - 1))) \div 7
              = day \div 7 - start \div 7
         /\ day \div 7 - start \div 7 \in 0 .. day - start
BY DEF IsoWeekday

(* A rule buildRule accepts, with times a clock can show; and its bounds.  *)
SoundRule(rule) ==
  /\ rule.startDate \in Int /\ rule.timezone \in Zones
  /\ rule.intervalN \in Nat \ {0}
  /\ rule.startTime \in 0 .. DayLen - 1 /\ rule.durationMinutes \in Nat \ {0}
  /\ \A w \in DOMAIN rule.perWeekday :
       /\ rule.perWeekday[w].startTime \in 0 .. DayLen - 1
       /\ rule.perWeekday[w].durationMinutes \in Nat \ {0}
  /\ \/ rule.endMode = "count" /\ rule.occurrenceCount \in Nat \ {0}
     \/ rule.endMode = "until" /\ rule.untilDate \in Int

SoundOptions(options) == options.maxOccurrences \in Nat /\ options.maxHorizonDays \in Nat

(* Up to the end date and the horizon, the days that match are the dates   *)
(* of the rule: the interval counts calendar weeks.                        *)
LEMMA MatchesIs ==
  ASSUME NEW rule, SoundRule(rule), NEW options, SoundOptions(options),
         NEW day \in rule.startDate .. rule.startDate + options.maxHorizonDays,
         rule.endMode = "until" => day <= rule.untilDate
  PROVE  Matches(rule, day) <=> day \in DatesOfRule(rule, options)
<1> DEFINE start == rule.startDate
           most == options.maxHorizonDays
           step == rule.intervalN
           gap == day - start
           weeks == day \div 7 - start \div 7
<1>1. /\ start \in Int /\ most \in Nat /\ step \in Nat \ {0} /\ day \in Int
      /\ gap \in 0 .. most /\ gap \in Nat
  BY DEF SoundRule, SoundOptions
<1> HIDE DEF start, most, step
<1>2. /\ ((day - (IsoWeekday(day) - 1)) - (start - (IsoWeekday(start) - 1))) \div 7 = weeks
      /\ weeks \in 0 .. gap
  <2>1. day >= start
    BY <1>1
  <2> QED BY <1>1, <2>1, WeekOf
<1>3. CASE rule.frequency = "daily"
  <2>1. gap % step = 0 <=> \E k \in 0 .. gap : gap = k * step
    <3> HIDE DEF gap
    <3> QED BY <1>1, Divides
  <2>2. (\E k \in 0 .. day - start : day - start = k * step)
          <=> \E k \in 0 .. most : day = start + k * step
    <3>1. ASSUME NEW k \in 0 .. day - start, day - start = k * step
          PROVE  \E j \in 0 .. most : day = start + j * step
      BY <1>1, <3>1
    <3>2. ASSUME NEW k \in 0 .. most, day = start + k * step
          PROVE  \E j \in 0 .. day - start : day - start = j * step
      <4>1. k <= day - start
        BY <1>1, <3>2
      <4> QED BY <1>1, <3>2, <4>1
    <3> QED BY <3>1, <3>2
  <2> QED BY <1>1, <1>3, <2>1, <2>2 DEF Matches, DatesOfRule, start, step, most
<1>4. CASE rule.frequency # "daily"
  <2>2. weeks % step = 0 <=> \E k \in 0 .. weeks : weeks = k * step
    <3>1. weeks \in Nat
      BY <1>1, <1>2
    <3> HIDE DEF weeks
    <3> QED BY <1>1, <3>1, Divides
  <2>3. (\E k \in 0 .. weeks : weeks = k * step)
          <=> \E k \in 0 .. most : day \div 7 = start \div 7 + k * step
    <3>0. day \div 7 \in Int /\ start \div 7 \in Int
      BY <1>1
    <3>1. ASSUME NEW k \in 0 .. weeks, weeks = k * step
          PROVE  \E j \in 0 .. most : day \div 7 = start \div 7 + j * step
      <4>1. k \in 0 .. most
        BY <1>1, <1>2
      <4>2. day \div 7 = start \div 7 + k * step
        BY <3>0, <3>1
      <4> QED BY <4>1, <4>2
    <3>2. ASSUME NEW k \in 0 .. most, day \div 7 = start \div 7 + k * step
          PROVE  \E j \in 0 .. weeks : weeks = j * step
      <4>1. weeks = k * step
        BY <1>1, <3>0, <3>2
      <4>2. k <= weeks
        BY <1>1, <1>2, <4>1
      <4> QED BY <1>1, <1>2, <4>1, <4>2
    <3> QED BY <3>1, <3>2
  <2>4. Matches(rule, day) <=> IsoWeekday(day) \in rule.weekdays /\ weeks % step = 0
    BY <1>1, <1>2, <1>4 DEF Matches, start, step
  <2> HIDE DEF weeks
  <2> QED BY <1>1, <1>4, <2>2, <2>3, <2>4 DEF DatesOfRule, start, step, most
<1> QED BY <1>3, <1>4

(* An occurrence is its date at its own weekday's time, and ends later.    *)
LEMMA OccurrenceOf ==
  ASSUME NEW rule, SoundRule(rule), NEW day \in Int, NEW i
  PROVE  LET o == PlannedOccurrence(rule, day, i)
         IN  /\ o.index = i /\ o.localDate = day
             /\ o.startTime = ScheduleOn(rule, day).startTime
             /\ o.startTime \in 0 .. DayLen - 1
             /\ o.start = At(day, o.startTime, rule.timezone)
             /\ o.start \in Int /\ o.end \in Int /\ o.start < o.end
<1> DEFINE t == ScheduleOn(rule, day).startTime
<1>1. t \in 0 .. DayLen - 1 /\ ScheduleOn(rule, day).durationMinutes \in Nat \ {0}
  BY DEF ScheduleOn, SoundRule
<1>2. rule.timezone \in Zones
  BY DEF SoundRule
<1>3. t \in Int
  BY <1>1, DayLenAssumption
<1> HIDE DEF t
<1>4. At(day, t, rule.timezone) \in Int
  BY <1>2, <1>3, ResolvedAt
<1>5. PlannedOccurrence(rule, day, i) =
        [index |-> i, localDate |-> day, start |-> At(day, t, rule.timezone),
         end |-> At(day, t, rule.timezone) + ScheduleOn(rule, day).durationMinutes,
         dstEdge |-> ResolveCivil(day, t, rule.timezone).edge, startTime |-> t]
  BY DEF PlannedOccurrence, At, t
<1> QED BY <1>1, <1>4, <1>5 DEF t

-----------------------------------------------------------------------------
(* The walk.                                                               *)

OccurrencesOf(rule) == {PlannedOccurrence(rule, day, i) : day \in Int, i \in Nat}
OpenDates(rule, options) == DatesOfRule(rule, options) \ options.skipDates
DatesGot(walk) == {walk.occurrences[i].localDate : i \in DOMAIN walk.occurrences}

Reasons == {"no", "ten years", "horizon", "limit"}

WalkType(rule) ==
  [occurrences : Seq(OccurrencesOf(rule)), skippedDates : Seq(Int), truncated : Reasons,
   over : BOOLEAN]

(* What the walk has done after n days: its occurrences are open dates in  *)
(* their order, every open date so far is one of them, or is later than    *)
(* all of them if the walk is over; and it is over without a reason only   *)
(* when the rule asks for no more.                                         *)
Walked(rule, options, n, walk) ==
  LET got == walk.occurrences
  IN  /\ walk \in WalkType(rule)
      /\ Len(got) <= options.maxOccurrences
      /\ rule.endMode = "count" => Len(got) <= rule.occurrenceCount
      /\ \A i \in 1 .. Len(got) :
           /\ got[i] = PlannedOccurrence(rule, got[i].localDate, i)
           /\ got[i].localDate \in OpenDates(rule, options)
           /\ got[i].localDate < rule.startDate + n
      /\ \A i, j \in 1 .. Len(got) : i < j => got[i].localDate < got[j].localDate
      /\ \A day \in OpenDates(rule, options) \ DatesGot(walk) :
           IF walk.over THEN \A i \in 1 .. Len(got) : got[i].localDate < day
           ELSE day >= rule.startDate + n
      /\ (walk.over /\ walk.truncated = "no") =>
           \/ rule.endMode = "count" /\ Len(got) = rule.occurrenceCount
           \/ rule.endMode = "until" /\ OpenDates(rule, options) \subseteq DatesGot(walk)
      /\ ~walk.over => n <= options.maxHorizonDays + 1
      /\ (~walk.over /\ rule.endMode = "count") => Len(got) < rule.occurrenceCount

(* Before the first day, nothing.                                          *)
LEMMA WalkBegins ==
  ASSUME NEW rule, SoundRule(rule), NEW options, SoundOptions(options)
  PROVE  Walked(rule, options, 0, NewWalk)
<1>1. NewWalk \in WalkType(rule)
  <2>1. <<>> \in Seq(OccurrencesOf(rule)) /\ <<>> \in Seq(Int)
    OBVIOUS
  <2> QED BY <2>1 DEF NewWalk, WalkType, Reasons
<1>2. NewWalk.occurrences = <<>> /\ ~NewWalk.over /\ Len(NewWalk.occurrences) = 0
  BY DEF NewWalk
<1>3. \A day \in OpenDates(rule, options) : day >= rule.startDate + 0
  BY DEF OpenDates, DatesOfRule, SoundRule, SoundOptions
<1> QED BY <1>1, <1>2, <1>3 DEF Walked, SoundRule, SoundOptions

(* A day at which the walk stops: without a reason, past the end date.     *)
LEMMA WalkStops ==
  ASSUME NEW rule, SoundRule(rule), NEW options, SoundOptions(options),
         NEW n \in 1 .. options.maxHorizonDays + 2, NEW walk, Walked(rule, options, n - 1, walk),
         ~walk.over, NEW reason \in Reasons,
         reason = "no" => rule.endMode = "until" /\ rule.startDate + n - 1 > rule.untilDate
  PROVE  Walked(rule, options, n, Stopped(walk, reason))
<1> DEFINE next == Stopped(walk, reason)
<1>1. walk \in WalkType(rule) /\ n \in Int /\ rule.startDate \in Int
  BY DEF Walked, SoundOptions, SoundRule
<1>2. /\ next \in WalkType(rule) /\ next.occurrences = walk.occurrences
      /\ next.over /\ next.truncated = reason
  BY <1>1 DEF Stopped, WalkType
<1>3. DatesGot(next) = DatesGot(walk)
  BY <1>2 DEF DatesGot
<1>4. OpenDates(rule, options) \subseteq Int
  BY DEF OpenDates, DatesOfRule, SoundRule, SoundOptions
<1>5. \A i \in 1 .. Len(walk.occurrences) :
        /\ walk.occurrences[i].localDate \in Int
        /\ walk.occurrences[i].localDate < rule.startDate + n - 1
  BY <1>1, <1>4 DEF Walked
<1>6. \A day \in OpenDates(rule, options) \ DatesGot(walk) :
         day \in Int /\ day >= rule.startDate + n - 1
  BY <1>1, <1>4 DEF Walked
<1>7. \A day \in OpenDates(rule, options) \ DatesGot(walk) :
         \A i \in 1 .. Len(walk.occurrences) : walk.occurrences[i].localDate < day
  BY <1>1, <1>5, <1>6
<1>8. reason = "no" => OpenDates(rule, options) \subseteq DatesGot(walk)
  <2> SUFFICES ASSUME reason = "no", NEW day \in OpenDates(rule, options),
                      day \notin DatesGot(walk)
               PROVE  FALSE
    OBVIOUS
  <2>1. day <= rule.untilDate /\ rule.untilDate \in Int
    BY DEF OpenDates, DatesOfRule, SoundRule
  <2> QED BY <1>1, <1>6, <2>1
<1> HIDE DEF next
<1>9. \A i \in 1 .. Len(walk.occurrences) :
           walk.occurrences[i].localDate < rule.startDate + n
  BY <1>1, <1>5
<1> QED BY <1>2, <1>3, <1>7, <1>8, <1>9 DEF Walked, next

(* A day that is not open.                                                 *)
LEMMA WalkPasses ==
  ASSUME NEW rule, SoundRule(rule), NEW options, SoundOptions(options),
         NEW n \in 1 .. options.maxHorizonDays + 1, NEW walk, Walked(rule, options, n - 1, walk),
         ~walk.over, rule.startDate + n - 1 \notin OpenDates(rule, options),
         NEW next \in WalkType(rule), next.occurrences = walk.occurrences, ~next.over
  PROVE  Walked(rule, options, n, next)
<1>1. walk \in WalkType(rule) /\ n \in Int /\ rule.startDate \in Int
  BY DEF Walked, SoundOptions, SoundRule
<1>2. DatesGot(next) = DatesGot(walk)
  BY DEF DatesGot
<1>3. OpenDates(rule, options) \subseteq Int
  BY DEF OpenDates, DatesOfRule, SoundRule, SoundOptions
<1>4. \A i \in 1 .. Len(walk.occurrences) :
        /\ walk.occurrences[i].localDate \in Int
        /\ walk.occurrences[i].localDate < rule.startDate + n
  BY <1>1, <1>3 DEF Walked
<1>5. \A day \in OpenDates(rule, options) \ DatesGot(walk) : day >= rule.startDate + n
  <2> SUFFICES ASSUME NEW day \in OpenDates(rule, options) \ DatesGot(walk)
               PROVE  day >= rule.startDate + n
    OBVIOUS
  <2>1. day \in Int /\ day >= rule.startDate + (n - 1) /\ day # rule.startDate + n - 1
    BY <1>1, <1>3 DEF Walked
  <2> QED BY <1>1, <2>1
<1>6. n <= options.maxHorizonDays + 1
  BY DEF SoundOptions
<1> QED BY <1>2, <1>4, <1>5, <1>6 DEF Walked

(* A day that is.                                                          *)
LEMMA WalkTakes ==
  ASSUME NEW rule, SoundRule(rule), NEW options, SoundOptions(options),
         NEW n \in 1 .. options.maxHorizonDays + 1, NEW walk, Walked(rule, options, n - 1, walk),
         ~walk.over, rule.startDate + n - 1 \in OpenDates(rule, options),
         Len(walk.occurrences) < options.maxOccurrences
  PROVE  LET more == Append(walk.occurrences,
                            PlannedOccurrence(rule, rule.startDate + n - 1,
                                              Len(walk.occurrences) + 1))
         IN  Walked(rule, options, n,
                    [walk EXCEPT !.occurrences = more, !.over = ReachedCount(rule, more)])
<1> DEFINE was == walk.occurrences
           today == rule.startDate + n - 1
           new == PlannedOccurrence(rule, today, Len(was) + 1)
           more == Append(was, new)
           next == [walk EXCEPT !.occurrences = more, !.over = ReachedCount(rule, more)]
           open == OpenDates(rule, options)
<1>1. /\ walk \in WalkType(rule) /\ n \in Int /\ rule.startDate \in Int /\ today \in Int
      /\ was \in Seq(OccurrencesOf(rule)) /\ Len(was) \in Nat
  BY DEF Walked, SoundOptions, SoundRule, WalkType
<1>2. new \in OccurrencesOf(rule) /\ new.localDate = today
  BY <1>1, OccurrenceOf DEF OccurrencesOf
<1> HIDE DEF new
<1>3. /\ more \in Seq(OccurrencesOf(rule)) /\ Len(more) = Len(was) + 1
      /\ \A i \in 1 .. Len(was) : more[i] = was[i]
      /\ more[Len(was) + 1] = new
  BY <1>1, <1>2
<1> HIDE DEF more, was
<1>4. /\ next \in WalkType(rule) /\ next.occurrences = more
      /\ next.over = ReachedCount(rule, more) /\ next.truncated = walk.truncated
  BY <1>1, <1>3 DEF WalkType, ReachedCount
<1> HIDE DEF next
<1>5. open \subseteq Int
  BY DEF OpenDates, DatesOfRule, SoundRule, SoundOptions
<1>6. \A i \in 1 .. Len(was) :
        /\ was[i] = PlannedOccurrence(rule, was[i].localDate, i)
        /\ was[i].localDate \in open /\ was[i].localDate \in Int
        /\ was[i].localDate < today
  BY <1>1, <1>5 DEF Walked, was
<1>7. \A i \in 1 .. Len(more) :
        /\ more[i] = PlannedOccurrence(rule, more[i].localDate, i)
        /\ more[i].localDate \in open /\ more[i].localDate < rule.startDate + n
  <2> SUFFICES ASSUME NEW i \in 1 .. Len(more)
               PROVE  /\ more[i] = PlannedOccurrence(rule, more[i].localDate, i)
                      /\ more[i].localDate \in open /\ more[i].localDate < rule.startDate + n
    OBVIOUS
  <2>1. CASE i \in 1 .. Len(was)
    BY <1>1, <1>3, <1>6, <2>1
  <2>2. CASE i = Len(was) + 1
    BY <1>1, <1>2, <1>3, <2>2 DEF new
  <2> QED BY <1>1, <1>3, <2>1, <2>2
<1>8. \A i, j \in 1 .. Len(more) : i < j => more[i].localDate < more[j].localDate
  <2> SUFFICES ASSUME NEW i \in 1 .. Len(more), NEW j \in 1 .. Len(more), i < j
               PROVE  more[i].localDate < more[j].localDate
    OBVIOUS
  <2>1. i \in 1 .. Len(was) /\ (j \in 1 .. Len(was) \/ j = Len(was) + 1)
    BY <1>1, <1>3
  <2>2. CASE j \in 1 .. Len(was)
    BY <1>3, <2>1, <2>2 DEF Walked, was
  <2>3. CASE j = Len(was) + 1
    BY <1>2, <1>3, <1>6, <2>1, <2>3
  <2> QED BY <2>1, <2>2, <2>3
<1>9. DatesGot(next) = DatesGot(walk) \cup {today}
  <2>1. DatesGot(next) = {more[i].localDate : i \in 1 .. Len(more)}
    BY <1>3, <1>4 DEF DatesGot
  <2>2. DatesGot(walk) = {was[i].localDate : i \in 1 .. Len(was)}
    BY <1>1 DEF DatesGot, was
  <2>3. 1 .. Len(more) = 1 .. Len(was) \cup {Len(was) + 1}
    BY <1>1, <1>3
  <2> QED BY <1>2, <1>3, <2>1, <2>2, <2>3
<1>10. \A day \in open \ DatesGot(next) : day >= rule.startDate + n
  <2> SUFFICES ASSUME NEW day \in open \ DatesGot(next) PROVE day >= rule.startDate + n
    OBVIOUS
  <2>1. day \in Int /\ day >= rule.startDate + (n - 1) /\ day # today
    BY <1>1, <1>5, <1>9 DEF Walked
  <2> QED BY <1>1, <2>1
<1>11. \A day \in open \ DatesGot(next) : \A i \in 1 .. Len(more) : more[i].localDate < day
  <2> SUFFICES ASSUME NEW day \in open \ DatesGot(next), NEW i \in 1 .. Len(more)
               PROVE  more[i].localDate < day
    OBVIOUS
  <2>1. day \in Int /\ day >= rule.startDate + n
    BY <1>5, <1>10
  <2>2. more[i].localDate \in Int /\ more[i].localDate < rule.startDate + n
    BY <1>5, <1>7
  <2> QED BY <1>1, <2>1, <2>2
<1>12. /\ Len(more) <= options.maxOccurrences
       /\ rule.endMode = "count" => Len(more) <= rule.occurrenceCount
       /\ (rule.endMode = "count" /\ ~next.over) => Len(more) < rule.occurrenceCount
       /\ next.over => rule.endMode = "count" /\ Len(more) = rule.occurrenceCount
  <2>1. rule.endMode = "count" => Len(was) < rule.occurrenceCount
    BY DEF Walked, was
  <2>2. rule.endMode = "count" => rule.occurrenceCount \in Nat
    BY DEF SoundRule
  <2>3. Len(was) < options.maxOccurrences /\ options.maxOccurrences \in Nat
    BY DEF was, SoundOptions
  <2>4. next.over <=> rule.endMode = "count" /\ Len(was) + 1 >= rule.occurrenceCount
    BY <1>3, <1>4 DEF ReachedCount
  <2> QED BY <1>1, <1>3, <2>1, <2>2, <2>3, <2>4
<1>13. n <= options.maxHorizonDays + 1
  BY DEF SoundOptions
<1>14. Walked(rule, options, n, next)
  BY <1>4, <1>7, <1>8, <1>10, <1>11, <1>12, <1>13 DEF Walked
<1> QED BY <1>14 DEF next, more, new, was

(* One turn of the loop.                                                   *)
LEMMA WalkSteps ==
  ASSUME NEW rule, SoundRule(rule), NEW options, SoundOptions(options),
         NEW n \in 1 .. options.maxHorizonDays + 2, NEW walk, Walked(rule, options, n - 1, walk)
  PROVE  Walked(rule, options, n, Examine(rule, options, walk, rule.startDate + n - 1))
<1> DEFINE today == rule.startDate + n - 1
           last == rule.startDate + options.maxHorizonDays
           next == Examine(rule, options, walk, today)
<1>1. /\ rule.startDate \in Int /\ n \in Int /\ today \in Int /\ last \in Int
      /\ walk \in WalkType(rule) /\ options.maxHorizonDays \in Nat
      /\ rule.startDate <= today
  BY DEF SoundRule, SoundOptions, Walked
<1>2. CASE walk.over
  <2>1. next = walk
    BY <1>2 DEF Examine
  <2>2. \A i \in 1 .. Len(walk.occurrences) : walk.occurrences[i].localDate < rule.startDate + n
    <3>1. \A i \in 1 .. Len(walk.occurrences) :
            walk.occurrences[i].localDate \in Int
            /\ walk.occurrences[i].localDate < rule.startDate + (n - 1)
      BY DEF Walked, OpenDates, DatesOfRule, SoundRule, SoundOptions
    <3> QED BY <1>1, <3>1
  <2>3. Walked(rule, options, n, walk)
    BY <1>2, <2>2 DEF Walked
  <2> QED BY <2>1, <2>3
<1> DEFINE ends == rule.endMode = "until" /\ today > rule.untilDate
<1>3. CASE ~walk.over /\ today - rule.startDate >= MaxCandidateDays
  <2>1. next = Stopped(walk, "ten years")
    BY <1>3 DEF Examine
  <2>2. "ten years" \in Reasons /\ "ten years" # "no"
    BY DEF Reasons
  <2> HIDE DEF next
  <2>3. Walked(rule, options, n, next)
    BY <1>3, <2>1, <2>2, WalkStops
  <2> QED BY <2>3 DEF next
<1>4. CASE ~walk.over /\ ~(today - rule.startDate >= MaxCandidateDays) /\ ends
  <2>1. next = Stopped(walk, "no")
    BY <1>4 DEF Examine
  <2>2. "no" \in Reasons
    BY DEF Reasons
  <2> HIDE DEF next
  <2>3. Walked(rule, options, n, next)
    BY <1>4, <2>1, <2>2, WalkStops
  <2> QED BY <2>3 DEF next
<1>5. CASE ~walk.over /\ ~(today - rule.startDate >= MaxCandidateDays) /\ ~ends /\ today > last
  <2>1. next = Stopped(walk, "horizon")
    BY <1>5 DEF Examine
  <2>2. "horizon" \in Reasons /\ "horizon" # "no"
    BY DEF Reasons
  <2> HIDE DEF next
  <2>3. Walked(rule, options, n, next)
    BY <1>5, <2>1, <2>2, WalkStops
  <2> QED BY <2>3 DEF next
<1>6. CASE ~walk.over /\ ~(today - rule.startDate >= MaxCandidateDays) /\ ~ends /\ ~(today > last)
  <2>1. today \in rule.startDate .. last /\ n \in 1 .. options.maxHorizonDays + 1
    BY <1>1, <1>6
  <2>2. rule.endMode = "until" => today <= rule.untilDate
    BY <1>1, <1>6 DEF SoundRule
  <2>3. Matches(rule, today) <=> today \in DatesOfRule(rule, options)
    BY <2>1, <2>2, MatchesIs
  <2>4. CASE ~Matches(rule, today)
    <3>1. next = walk /\ today \notin OpenDates(rule, options)
      BY <1>6, <2>3, <2>4 DEF Examine, OpenDates
    <3> QED BY <1>1, <1>6, <2>1, <3>1, WalkPasses
  <2>5. CASE Matches(rule, today) /\ today \in options.skipDates
    <3>1. next = [walk EXCEPT !.skippedDates = Append(@, today)]
      BY <1>6, <2>5 DEF Examine
    <3>2. next \in WalkType(rule) /\ next.occurrences = walk.occurrences /\ ~next.over
      <4>1. Append(walk.skippedDates, today) \in Seq(Int)
        BY <1>1 DEF WalkType
      <4> HIDE DEF next
      <4> QED BY <1>1, <1>6, <3>1, <4>1 DEF WalkType
    <3>3. today \notin OpenDates(rule, options)
      BY <2>5 DEF OpenDates
    <3> HIDE DEF next
    <3>4. Walked(rule, options, n, next)
      BY <1>6, <2>1, <3>2, <3>3, WalkPasses
    <3> QED BY <3>4 DEF next
  <2>6. CASE /\ Matches(rule, today) /\ today \notin options.skipDates
             /\ Len(walk.occurrences) >= options.maxOccurrences
    <3>1. next = Stopped(walk, "limit")
      BY <1>6, <2>6 DEF Examine
    <3>2. "limit" \in Reasons /\ "limit" # "no"
      BY DEF Reasons
    <3> HIDE DEF next
    <3>3. Walked(rule, options, n, next)
      BY <1>6, <3>1, <3>2, WalkStops
    <3> QED BY <3>3 DEF next
  <2>7. CASE /\ Matches(rule, today) /\ today \notin options.skipDates
             /\ ~(Len(walk.occurrences) >= options.maxOccurrences)
    <3> DEFINE more == Append(walk.occurrences,
                              PlannedOccurrence(rule, today, Len(walk.occurrences) + 1))
    <3>1. next = [walk EXCEPT !.occurrences = more, !.over = ReachedCount(rule, more)]
      BY <1>6, <2>7 DEF Examine
    <3>2. today \in OpenDates(rule, options)
      BY <2>3, <2>7 DEF OpenDates
    <3>3. Len(walk.occurrences) < options.maxOccurrences
      BY <1>1, <2>7 DEF SoundOptions, WalkType
    <3> HIDE DEF next
    <3>4. Walked(rule, options, n, next)
      BY <1>6, <2>1, <3>1, <3>2, <3>3, WalkTakes
    <3> QED BY <3>4 DEF next
  <2> QED BY <2>4, <2>5, <2>6, <2>7
<1> QED BY <1>2, <1>3, <1>4, <1>5, <1>6

(* The walk is over by the day past the horizon.                           *)
LEMMA WalkEnds ==
  ASSUME NEW rule, SoundRule(rule), NEW options, SoundOptions(options)
  PROVE  /\ Walked(rule, options, options.maxHorizonDays + 2, Expand(rule, options))
         /\ Expand(rule, options).over
<1> DEFINE days == options.maxHorizonDays + 2
           walk == WalkOf(rule, options, days)
           T == {n \in Nat : n <= days => Walked(rule, options, n, walk[n])}
<1>1. days \in Nat
  BY DEF SoundOptions
<1>2. walk = [n \in 0 .. days |-> IF n = 0 THEN NewWalk
                ELSE Examine(rule, options, walk[n - 1], rule.startDate + n - 1)]
  BY <1>1, WalkExists
<1>3. 0 \in T
  <2>1. walk[0] = NewWalk
    BY <1>1, <1>2
  <2> QED BY <2>1, WalkBegins
<1>4. ASSUME NEW n \in Nat, n \in T PROVE n + 1 \in T
  <2> SUFFICES ASSUME n + 1 <= days PROVE Walked(rule, options, n + 1, walk[n + 1])
    OBVIOUS
  <2> DEFINE k == n + 1
  <2>1. k \in 1 .. options.maxHorizonDays + 2 /\ k - 1 = n
    BY <1>1
  <2>2. Walked(rule, options, k - 1, walk[k - 1])
    BY <1>1, <1>4, <2>1
  <2>3. walk[k] = Examine(rule, options, walk[k - 1], rule.startDate + k - 1)
    BY <1>1, <1>2, <2>1
  <2> HIDE DEF k, walk
  <2>4. Walked(rule, options, k, walk[k])
    BY <2>1, <2>2, <2>3, WalkSteps
  <2> QED BY <2>4 DEF k
<1> HIDE DEF T
<1>5. days \in T
  BY <1>1, <1>3, <1>4, SetInduction
<1>6. Walked(rule, options, days, walk[days])
  BY <1>1, <1>5 DEF T
<1>7. Walked(rule, options, days, Expand(rule, options))
  BY <1>6, ExpandIs
<1>8. Expand(rule, options).over
  <2>1. ~(days <= options.maxHorizonDays + 1)
    BY DEF SoundOptions
  <2> HIDE DEF days
  <2> QED BY <1>7, <2>1 DEF Walked, WalkType
<1> QED BY <1>7, <1>8

(* A list without repetition has as many members as places.                *)
LEMMA SizeOfImage ==
  ASSUME NEW n \in Nat, NEW Image, NEW f \in [1 .. n -> Image],
         \A i, j \in 1 .. n : i < j => f[i] # f[j],
         Image = {f[i] : i \in 1 .. n}
  PROVE  IsFiniteSet(Image) /\ Cardinality(Image) = n
<1>1. f \in Bijection(1 .. n, Image)
  <2>1. \A i, j \in 1 .. n : f[i] = f[j] => i = j
    OBVIOUS
  <2> QED BY <2>1 DEF Bijection, Injection, Surjection, IsInjective
<1>2. IsFiniteSet(1 .. n) /\ Cardinality(1 .. n) = n
  <2>1. 1 \in Int /\ n \in Int
    OBVIOUS
  <2>2. IsFiniteSet(1 .. n) /\ Cardinality(1 .. n) = IF 1 > n THEN 0 ELSE n - 1 + 1
    BY <2>1, FS_Interval
  <2> QED BY <2>2
<1>3. ExistsBijection(1 .. n, Image)
  BY <1>1 DEF ExistsBijection
<1> QED BY <1>2, <1>3, FS_Bijection

(* A rule expands to what it says, for any interval, weekdays, times of    *)
(* its own per weekday, bounds and closures: its dates are the first so    *)
(* many of its weeks, closures left out; they run in order, as instants    *)
(* too; and it says it was cut short exactly when it asked for more.       *)
THEOREM RulesExpandAsWritten ==
  ASSUME NEW rule, SoundRule(rule), NEW options, SoundOptions(options), NoLimit \notin Nat,
         SkipsWithinADay(rule.timezone)
  PROVE  ExpandsAsWritten(rule, options)
<1> DEFINE e == Expand(rule, options)
           got == {e.occurrences[i].localDate : i \in DOMAIN e.occurrences}
           open == DatesOfRule(rule, options) \ options.skipDates
           asked == IF rule.endMode = "count" THEN rule.occurrenceCount ELSE NoLimit
           n == Len(e.occurrences)
<1>1. Walked(rule, options, options.maxHorizonDays + 2, e) /\ e.over
  BY WalkEnds
<1> HIDE DEF e
<1>2. /\ e \in WalkType(rule) /\ DatesGot(e) = got /\ OpenDates(rule, options) = open
      /\ n \in Nat /\ DOMAIN e.occurrences = 1 .. n
      /\ rule.timezone \in Zones
  BY <1>1 DEF Walked, WalkType, DatesGot, OpenDates, SoundRule
<1>3. open \subseteq Int
  BY DEF DatesOfRule, SoundRule, SoundOptions
<1> HIDE DEF got, open
<1>4. \A i \in 1 .. n : /\ e.occurrences[i] = PlannedOccurrence(rule, e.occurrences[i].localDate, i)
                        /\ e.occurrences[i].localDate \in open
                        /\ e.occurrences[i].localDate \in Int
  BY <1>1, <1>2, <1>3 DEF Walked
<1>5. \A i, j \in 1 .. n : i < j => e.occurrences[i].localDate < e.occurrences[j].localDate
  BY <1>1 DEF Walked
<1>6. got \subseteq open
  BY <1>2, <1>4 DEF got
<1>7. \A d \in open \ got : \A g \in got : g < d
  BY <1>1, <1>2 DEF Walked, got
<1>8. ASSUME NEW i \in DOMAIN e.occurrences
      PROVE  /\ e.occurrences[i].index = i
             /\ e.occurrences[i].startTime \in 0 .. DayLen - 1
             /\ e.occurrences[i].start =
                  At(e.occurrences[i].localDate, e.occurrences[i].startTime, rule.timezone)
  <2> DEFINE day == e.occurrences[i].localDate
  <2>1. day \in Int /\ e.occurrences[i] = PlannedOccurrence(rule, day, i)
    BY <1>2, <1>4
  <2> HIDE DEF day
  <2>2. /\ PlannedOccurrence(rule, day, i).index = i
        /\ PlannedOccurrence(rule, day, i).startTime \in 0 .. DayLen - 1
        /\ PlannedOccurrence(rule, day, i).start =
             At(day, PlannedOccurrence(rule, day, i).startTime, rule.timezone)
    BY <2>1, OccurrenceOf
  <2>3. day = e.occurrences[i].localDate
    BY DEF day
  <2> QED BY <2>1, <2>2, <2>3
<1>9. ASSUME NEW i \in DOMAIN e.occurrences, i > 1
      PROVE  /\ e.occurrences[i-1].localDate < e.occurrences[i].localDate
             /\ e.occurrences[i-1].start < e.occurrences[i].start
  <2> DEFINE h == i - 1
  <2>1. h \in DOMAIN e.occurrences /\ h \in 1 .. n /\ i \in 1 .. n /\ h < i
    BY <1>2, <1>9
  <2> HIDE DEF h
  <2>2. e.occurrences[h].localDate < e.occurrences[i].localDate
    BY <1>5, <2>1
  <2>3. e.occurrences[h].start < e.occurrences[i].start
    BY <1>2, <1>4, <1>8, <2>1, <2>2, ClocksKeepDays
  <2> QED BY <2>2, <2>3 DEF h
<1>10. ASSUME NEW i \in DOMAIN e.occurrences
       PROVE  ResolvesAsPromised(e.occurrences[i].localDate, e.occurrences[i].startTime,
                                 rule.timezone)
  <2>1. e.occurrences[i].startTime \in Int
    BY <1>8, DayLenAssumption
  <2> QED BY <1>2, <1>4, <2>1, ClocksResolve
<1>11. Cardinality(got) = n
  <2> DEFINE f == [i \in 1 .. n |-> e.occurrences[i].localDate]
  <2>1. got = {f[i] : i \in 1 .. n} /\ f \in [1 .. n -> got]
    BY <1>2 DEF got
  <2>2. \A i, j \in 1 .. n : i < j => f[i] # f[j]
    BY <1>4, <1>5
  <2> HIDE DEF f, n
  <2> QED BY <1>2, <2>1, <2>2, SizeOfImage
<1>12. Cardinality(got) <= options.maxOccurrences
  BY <1>1, <1>11 DEF Walked
<1>13. ASSUME asked # NoLimit
       PROVE  /\ Cardinality(got) <= asked
              /\ Cardinality(got) < asked => e.truncated # "no"
  <2>1. rule.endMode = "count" /\ asked = rule.occurrenceCount /\ asked \in Nat
    BY <1>13 DEF SoundRule
  <2> QED BY <1>1, <1>2, <1>11, <2>1 DEF Walked
<1>14. ASSUME asked = NoLimit, e.truncated = "no" PROVE got = open
  <2>1. rule.endMode # "count"
    BY <1>14 DEF SoundRule
  <2> QED BY <1>1, <1>2, <1>6, <1>14, <2>1 DEF Walked
<1> HIDE DEF n, asked
<1> QED BY <1>6, <1>7, <1>8, <1>9, <1>10, <1>12, <1>13, <1>14
        DEF ExpandsAsWritten, e, got, open, asked

(* Each occurrence is on a date of the rule, at the time the rule gives    *)
(* that date.                                                              *)
LEMMA OccurrencesAreTheRules ==
  ASSUME NEW rule, SoundRule(rule), NEW options, SoundOptions(options),
         NEW i \in DOMAIN Expand(rule, options).occurrences
  PROVE  LET o == Expand(rule, options).occurrences[i]
         IN  /\ o.localDate \in DatesOfRule(rule, options)
             /\ o.startTime = ScheduleOn(rule, o.localDate).startTime
<1> DEFINE e == Expand(rule, options)
           o == e.occurrences[i]
<1>1. Walked(rule, options, options.maxHorizonDays + 2, e) /\ e \in WalkType(rule)
  BY WalkEnds DEF Walked
<1> HIDE DEF e
<1>2. i \in 1 .. Len(e.occurrences)
  BY <1>1 DEF WalkType, e
<1>3. o = PlannedOccurrence(rule, o.localDate, i) /\ o.localDate \in DatesOfRule(rule, options)
  BY <1>1, <1>2 DEF Walked, OpenDates
<1>4. o.localDate \in Int
  BY <1>3 DEF DatesOfRule, SoundRule, SoundOptions
<1> HIDE DEF o
<1>5. o.startTime = ScheduleOn(rule, o.localDate).startTime
  BY <1>3, <1>4, OccurrenceOf
<1> QED BY <1>3, <1>5 DEF o, e

(* The occurrences are listed from the first on.                           *)
LEMMA OccurrencesAreListed ==
  ASSUME NEW rule, SoundRule(rule), NEW options, SoundOptions(options)
  PROVE  \E n \in Nat : DOMAIN Expand(rule, options).occurrences = 1 .. n
<1> DEFINE e == Expand(rule, options)
<1>1. e \in WalkType(rule)
  BY WalkEnds DEF Walked
<1> HIDE DEF e
<1>2. Len(e.occurrences) \in Nat /\ DOMAIN e.occurrences = 1 .. Len(e.occurrences)
  BY <1>1 DEF WalkType
<1> QED BY <1>2 DEF e

(* Each occurrence is from one instant to another.                         *)
LEMMA OccurrencesLast ==
  ASSUME NEW rule, SoundRule(rule), NEW options, SoundOptions(options),
         NEW i \in DOMAIN Expand(rule, options).occurrences
  PROVE  LET o == Expand(rule, options).occurrences[i]
         IN  o.start \in Int /\ o.end \in Int
<1> DEFINE e == Expand(rule, options)
           o == e.occurrences[i]
<1>1. Walked(rule, options, options.maxHorizonDays + 2, e) /\ e \in WalkType(rule)
  BY WalkEnds DEF Walked
<1> HIDE DEF e
<1>2. i \in 1 .. Len(e.occurrences)
  BY <1>1 DEF WalkType, e
<1>3. o = PlannedOccurrence(rule, o.localDate, i) /\ o.localDate \in DatesOfRule(rule, options)
  BY <1>1, <1>2 DEF Walked, OpenDates
<1>4. o.localDate \in Int
  BY <1>3 DEF DatesOfRule, SoundRule, SoundOptions
<1> HIDE DEF o
<1>5. o.start \in Int /\ o.end \in Int
  BY <1>3, <1>4, OccurrenceOf
<1> QED BY <1>5 DEF o, e
=============================================================================
