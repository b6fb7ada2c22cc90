----------------------------- MODULE CivilTime -----------------------------
(***************************************************************************)
(* Wall clocks and instants (lib/time.ts).  A civil date is a day number,  *)
(* a civil time a number of clock units since midnight, an instant a       *)
(* number of the same units since the epoch: the arithmetic of the code,   *)
(* with a day of DayLen units in place of 1440 minutes.  Day 0 is a        *)
(* Monday.                                                                 *)
(*                                                                         *)
(* A zone is what the code asks the library of it, the offset in force at  *)
(* an instant, here with at most one transition: the code's own probe      *)
(* looks a day either side of the wall clock and relies on never meeting   *)
(* two.                                                                    *)
(***************************************************************************)
EXTENDS Integers

CONSTANTS DayLen,     \* clock units in a civil day
          Zones,      \* zone names
          ZoneTable   \* name -> [before, after : offset, at : instant]

ASSUME DayLenAssumption == DayLen \in Nat \ {0}

(* An offset changes by less than a day.                                   *)
ASSUME ZoneAssumption ==
  \A z \in Zones :
    /\ ZoneTable[z].before \in Int
    /\ ZoneTable[z].after \in Int
    /\ ZoneTable[z].at \in Int
    /\ ZoneTable[z].before - ZoneTable[z].after < DayLen
    /\ ZoneTable[z].after - ZoneTable[z].before < DayLen
    /\ -DayLen < ZoneTable[z].before /\ ZoneTable[z].before < DayLen
    /\ -DayLen < ZoneTable[z].after /\ ZoneTable[z].after < DayLen

DstEdge == {"none", "gap_shifted", "ambiguous_first"}

Offset(z, instant) ==
  IF instant < ZoneTable[z].at THEN ZoneTable[z].before ELSE ZoneTable[z].after

(* The wall clock read as though it were UTC, and the one an instant shows *)
WallMs(day, time) == day * DayLen + time
WallOf(z, instant) == instant + Offset(z, instant)

(* A civil time the parser accepts: 25:00 is refused, not rolled over.     *)
RealCivilTime(time) == time \in 0 .. DayLen - 1

(* Mutant: a time that is skipped is moved back.                           *)
ResolvedBackwards(z, target, a, b) ==
  LET real == {i \in {a, b} : WallOf(z, i) = target}
      earlier == IF a < b THEN a ELSE b
  IN  [instant |-> IF real = {a} THEN a ELSE IF real = {b} THEN b ELSE earlier,
       edge |-> IF real = {} THEN "gap_shifted"
                ELSE IF a # b /\ real = {a, b} THEN "ambiguous_first" ELSE "none"]

(* The instants a wall clock would be under either of two offsets; what no *)
(* instant shows is moved on by the larger of them.                        *)
Resolved(z, target, a, b) ==
  LET aReal == WallOf(z, a) = target
      bReal == WallOf(z, b) = target
  IN  IF aReal /\ bReal /\ a # b
      THEN [instant |-> IF a < b THEN a ELSE b, edge |-> "ambiguous_first"]
      ELSE IF aReal \/ bReal
      THEN [instant |-> IF aReal THEN a ELSE b, edge |-> "none"]
      ELSE [instant |-> IF a < b THEN b ELSE a, edge |-> "gap_shifted"]

(* The offsets tried are those in force a day before and a day after.      *)
ResolveCivil(day, time, z) ==
  LET target == WallMs(day, time)
  IN  Resolved(z, target, target - Offset(z, target - DayLen),
               target - Offset(z, target + DayLen))

At(day, time, z) == ResolveCivil(day, time, z).instant

(* The calendar date and the clock time an instant shows in a zone.        *)
CivilDate(instant, z) == WallOf(z, instant) \div DayLen
CivilTimeOf(instant, z) == WallOf(z, instant) % DayLen

IsoWeekday(day) == (day % 7) + 1

Overlaps(aStart, aEnd, bStart, bEnd) == aStart < bEnd /\ bStart < aEnd

(* What the policy at the head of the file promises of a civil time: the   *)
(* first instant that shows it; and where no instant shows it, the one     *)
(* that shows it moved on by the size of the gap.                          *)
ResolvesAsPromised(day, time, z) ==
  LET target == WallMs(day, time)
      got == ResolveCivil(day, time, z)
      zone == ZoneTable[z]
      near == (target - 2 * DayLen) .. (target + 2 * DayLen)
      shows == {i \in near : WallOf(z, i) = target}
  IN  IF shows # {}
      THEN /\ got.instant \in shows
           /\ \A i \in shows : got.instant <= i
           /\ (got.edge = "ambiguous_first") <=> (\E i \in shows : i # got.instant)
           /\ got.edge # "gap_shifted"
      ELSE /\ got.edge = "gap_shifted"
           /\ WallOf(z, got.instant) = target + (zone.after - zone.before)

(* What the clocks skip, and what that is moved on to, are of one day: so  *)
(* it is with a change in the small hours, and with one at midnight.       *)
SkipsWithinADay(z) ==
  LET zone == ZoneTable[z]
      from == zone.at + zone.before
      skip == zone.after - zone.before
  IN  skip > 0 => (from + 2 * skip - 1) \div DayLen = from \div DayLen

(* And what they show twice is of one day.                                 *)
RepeatsWithinADay(z) ==
  LET zone == ZoneTable[z]
      from == zone.at + zone.after
      repeat == zone.before - zone.after
  IN  repeat > 0 => (from + repeat - 1) \div DayLen = from \div DayLen

ChangesWithinADay(z) == SkipsWithinADay(z) /\ RepeatsWithinADay(z)
=============================================================================
