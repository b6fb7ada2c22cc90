-------------------------- MODULE Booking_proofs ---------------------------
(***************************************************************************)
(* What Booking guarantees for every tenant: any bookings of any length,   *)
(* any number of them at once, throws and stops included.                  *)
(***************************************************************************)
EXTENDS Booking, TLAPS

-----------------------------------------------------------------------------
(* What a booking's stage relies on: the position at hand is one of the    *)
(* plan, the meetings made are those before it, and the rows are there     *)
(* once the stage that writes them is passed.                              *)
Written(b, r) == \A j \in Planned(b) : r[<<b, j>>] # None
Placed(b, k, r) ==
  /\ k.at \in Running => k.i \in Planned(b)
  /\ k.made <= Len(Slots[b])
  /\ k.at \in Planning => k.made = 0
  /\ k.at = "meet" => k.made = k.i - 1
  /\ k.at = "discard" => k.i <= k.made
  /\ k.at = "write" => \A j \in Planned(b) : j < k.i => r[<<b, j>>] # None
  /\ k.at \in Writing \ {"series", "write"} => Written(b, r)

PlacedInv == TypeOK /\ \A b \in Bookings : Placed(b, call[b], row)

(* A plan has sessions, and its positions are 1 .. its length.             *)
LEMMA Positions ==
  ASSUME NEW b \in Bookings
  PROVE  /\ Len(Slots[b]) \in Nat /\ Len(Slots[b]) >= 1
         /\ Planned(b) = 1 .. Len(Slots[b])
         /\ \A i \in Planned(b) : Slots[b][i] \in Slot
         /\ 1 \in Planned(b)
<1>1. Slots[b] \in Seq(Slot) /\ Slots[b] # <<>>
  BY BookingAssumption
<1>2. Len(Slots[b]) \in Nat /\ DOMAIN Slots[b] = 1 .. Len(Slots[b])
  BY <1>1
<1>3. Len(Slots[b]) # 0
  BY <1>1
<1>4. Len(Slots[b]) >= 1
  BY <1>2, <1>3
<1> QED
  BY <1>1, <1>2, <1>4 DEF Planned

(* An occurrence is a position of a booking.                               *)
LEMMA Occurrences ==
  /\ \A b \in Bookings : \A i \in Planned(b) : <<b, i>> \in Occ
  /\ \A o \in Occ : /\ o[1] \in Bookings /\ o[2] \in Planned(o[1])
                    /\ o = <<o[1], o[2]>>
BY DEF Occ

(* One of the bookings goes on; what the others rely on stays.             *)
LEMMA Move ==
  ASSUME PlacedInv, NEW b \in Bookings, NEW k \in CallState, Turn(b, k),
         Placed(b, k, row'),
         \A o \in Occ : row[o] # None => row'[o] # None
  PROVE  /\ call' \in [Bookings -> CallState]
         /\ \A d \in Bookings : Placed(d, call'[d], row')
<1>1. call \in [Bookings -> CallState]
  BY DEF PlacedInv, TypeOK
<1>2. call' \in [Bookings -> CallState] /\ call'[b] = k
  BY <1>1 DEF Turn
<1>3. ASSUME NEW d \in Bookings, d # b PROVE Placed(d, call'[d], row')
  <2>1. call'[d] = call[d]
    BY <1>1, <1>3 DEF Turn
  <2>2. Placed(d, call[d], row)
    BY DEF PlacedInv
  <2> QED
    BY <2>1, <2>2, Occurrences DEF Placed, Written
<1> QED
  BY <1>2, <1>3

(* Where a booking stands is a state of one.                               *)
LEMMA Standing ==
  ASSUME PlacedInv, NEW b \in Bookings
  PROVE  /\ call[b] \in CallState /\ Placed(b, call[b], row)
         /\ call[b].at \in {"idle"} \cup Running \cup Ended
         /\ call[b].i \in Nat /\ call[b].made \in Nat
         /\ call[b].students \in SUBSET Student
         /\ call[b].earlier \in SUBSET Bookings
         /\ call[b].soft \in SUBSET Nat /\ call[b].blocked \in BOOLEAN
BY DEF PlacedInv, TypeOK, CallState

(* An ended booking relies on nothing.                                     *)
LEMMA StopMoves ==
  ASSUME PlacedInv, NEW b \in Bookings, NEW at \in Ended, Stop(b, at),
         \A o \in Occ : row[o] # None => row'[o] # None
  PROVE  /\ call' \in [Bookings -> CallState]
         /\ \A d \in Bookings : Placed(d, call'[d], row')
<1> DEFINE k == [Blank EXCEPT !.at = at, !.students = call[b].students,
                              !.earlier = call[b].earlier]
<1>1. k \in CallState
  BY Standing DEF CallState, Blank, Ended
<1>2. Placed(b, k, row')
  BY Positions DEF Placed, Blank, Ended, Running, Planning, Writing
<1>3. Turn(b, k)
  BY DEF Stop
<1> HIDE DEF k
<1> QED
  BY <1>1, <1>2, <1>3, Move

(* A failed one either takes its meetings back, from the first, or ends.   *)
LEMMA FailMoves ==
  ASSUME PlacedInv, NEW b \in Bookings, Fail(b), UNCHANGED row
  PROVE  /\ call' \in [Bookings -> CallState]
         /\ \A d \in Bookings : Placed(d, call'[d], row')
<1>1. CASE call[b].made > 0
  <2> DEFINE k == [call[b] EXCEPT !.at = "discard", !.i = 1]
  <2>0. call[b] \in CallState
    BY Standing
  <2>1. k \in CallState
    BY <2>0 DEF CallState, Running
  <2>2. Placed(b, k, row')
    BY <1>1, Standing, Positions DEF Placed, Ended, Running, Planning, Writing
  <2>3. Turn(b, k)
    BY <1>1 DEF Fail, Stand
  <2> HIDE DEF k
  <2> QED
    BY <2>1, <2>2, <2>3, Move
<1>2. CASE ~(call[b].made > 0)
  BY <1>2, StopMoves DEF Fail, Ended
<1> QED
  BY <1>1, <1>2

(* A booking that stands anew at the first position of a stage.            *)
LEMMA StandMoves ==
  ASSUME PlacedInv, NEW b \in Bookings,
         NEW at \in Running \ {"discard"}, Stand(b, at),
         at \in Planning \cup {"meet"} => call[b].made = 0,
         at \in Writing \ {"series", "write"} => Written(b, row'),
         \A o \in Occ : row[o] # None => row'[o] # None
  PROVE  /\ call' \in [Bookings -> CallState]
         /\ \A d \in Bookings : Placed(d, call'[d], row')
<1> DEFINE k == [call[b] EXCEPT !.at = at, !.i = 1]
<1>0. call[b] \in CallState
  BY Standing
<1>1. k \in CallState
  BY <1>0 DEF CallState
<1>2. Placed(b, k, row')
  <2>1. k.at = at /\ k.i = 1 /\ k.made = call[b].made
    BY <1>0 DEF CallState
  <2>2. 1 \in Planned(b) /\ call[b].made <= Len(Slots[b])
    BY Positions, Standing DEF Placed
  <2>3. \A j \in Planned(b) : ~(j < 1)
    BY Positions
  <2> HIDE DEF k
  <2> QED
    BY <2>1, <2>2, <2>3 DEF Placed
<1>3. Turn(b, k)
  BY DEF Stand
<1> HIDE DEF k
<1> QED
  BY <1>1, <1>2, <1>3, Move

(* A booking that goes on to the next position, or to the next stage.      *)
LEMMA EachMoves ==
  ASSUME PlacedInv, NEW b \in Bookings, NEW k \in CallState, NEW next,
         call[b].at \in Running \ {"discard"},
         k.at = call[b].at, k.i = call[b].i,
         k.made = IF k.at = "meet" THEN call[b].made + 1 ELSE call[b].made,
         next \in Running \ {"discard", "meet"},
         next \in Planning => k.made = 0,
         k.at # "write" /\ next \in Writing \ {"series", "write"}
           => Written(b, row),
         k.at = "write" => row'[Here(b)] # None,
         Turn(b, Each(b, k, next)),
         \A o \in Occ : row[o] # None => row'[o] # None
  PROVE  /\ call' \in [Bookings -> CallState]
         /\ \A d \in Bookings : Placed(d, call'[d], row')
<1>1. /\ k.i \in Planned(b) /\ k.i \in Nat /\ k.made \in Nat
      /\ Placed(b, call[b], row)
  BY Standing DEF Placed, CallState
<1>2. k.made <= Len(Slots[b])
  BY <1>1, Standing, Positions DEF Placed
<1>3. Written(b, row) => Written(b, row')
  BY Occurrences DEF Written
<1>4. CASE k.i < Len(Slots[b])
  <2> DEFINE j == [k EXCEPT !.i = @ + 1]
  <2>1. j \in CallState /\ j.at = k.at /\ j.i = k.i + 1 /\ j.made = k.made
    BY <1>1 DEF CallState
  <2>2. j.i \in Planned(b)
    BY <1>1, <1>4, <2>1, Positions
  <2>3. k.at = "write" =>
          \A n \in Planned(b) : n < j.i => row'[<<b, n>>] # None
    <3> SUFFICES ASSUME k.at = "write", NEW n \in Planned(b), n < j.i
                 PROVE  row'[<<b, n>>] # None
      OBVIOUS
    <3>1. CASE n = k.i
      BY <3>1 DEF Here
    <3>2. CASE n < k.i
      BY <1>1, <3>2, Occurrences DEF Placed
    <3> QED
      BY <1>1, <2>1, <3>1, <3>2, Positions
  <2>4. Placed(b, j, row')
    <3> HIDE DEF j
    <3>1. k.at = "meet" => j.made = j.i - 1
      BY <1>1, <2>1, Standing DEF Placed
    <3>2. k.at \in Planning => j.made = 0
      BY <1>1, <2>1 DEF Placed, Planning
    <3>3. k.at \in Writing \ {"series", "write"} => Written(b, row')
      BY <1>1, <1>3 DEF Placed
    <3> QED
      BY <1>2, <2>1, <2>2, <2>3, <3>1, <3>2, <3>3 DEF Placed
  <2>5. Turn(b, j)
    BY <1>4 DEF Each
  <2> HIDE DEF j
  <2> QED
    BY <2>1, <2>4, <2>5, Move
<1>5. CASE ~(k.i < Len(Slots[b]))
  <2> DEFINE j == [k EXCEPT !.at = next, !.i = 1]
  <2>1. j \in CallState /\ j.at = next /\ j.i = 1 /\ j.made = k.made
    BY DEF CallState
  <2>2. 1 \in Planned(b) /\ \A n \in Planned(b) : ~(n < 1)
    BY Positions
  <2>3. k.at = "write" => Written(b, row')
    <3> SUFFICES ASSUME k.at = "write", NEW n \in Planned(b)
                 PROVE  row'[<<b, n>>] # None
      BY DEF Written
    <3>1. CASE n = k.i
      BY <3>1 DEF Here
    <3>2. CASE n < k.i
      BY <1>1, <3>2, Occurrences DEF Placed
    <3> QED
      BY <1>1, <1>5, <3>1, <3>2, Positions
  <2>4. Placed(b, j, row')
    <3> HIDE DEF j
    <3> QED
      BY <1>2, <1>3, <2>1, <2>2, <2>3 DEF Placed, Writing
  <2>5. Turn(b, j)
    BY <1>5 DEF Each
  <2> HIDE DEF j
  <2> QED
    BY <2>1, <2>4, <2>5, Move
<1> QED
  BY <1>4, <1>5

-----------------------------------------------------------------------------
(* Every step keeps the types and the places.                              *)

(* Before the first booking nothing is written and nobody stands anywhere. *)
LEMMA InitPlaced == Init => PlacedInv
<1> SUFFICES ASSUME Init PROVE PlacedInv
  OBVIOUS
<1>1. TypeOK
  <2>1. Blank \in CallState
    BY DEF Blank, CallState
  <2>2. group \subseteq Student /\ zoom \subseteq Occ
    BY DEF Init
  <2> QED
    BY <2>1, <2>2 DEF Init, TypeOK
<1>2. ASSUME NEW b \in Bookings PROVE Placed(b, call[b], row)
  <2>1. call[b] = Blank
    BY DEF Init
  <2> QED
    BY <2>1, Positions
       DEF Blank, Placed, Running, Planning, Writing
<1> QED
  BY <1>1, <1>2 DEF PlacedInv

(* The stages after the check, none of which wants a row to be there.      *)
LEMMA NextStage ==
  ASSUME NEW b
  PROVE  AfterMeetings(b) \in {"series", "write"}
BY DEF AfterMeetings

(* The plan writes nothing.                                                *)
PlanStep(b) ==
  \/ ResolveStudents(b) \/ RefusePlan(b) \/ AssertEligible(b) \/ Check(b)
  \/ Confirm(b) \/ RefuseConfirm(b)

(* Planning keeps types and places: it moves the booking and no row.       *)
LEMMA PlanPlaced ==
  ASSUME PlacedInv, NEW b \in Bookings, PlanStep(b)
  PROVE  PlacedInv'
<1>1. UNCHANGED <<people, written>>
  BY DEF PlanStep, ResolveStudents, RefusePlan, AssertEligible, Check, Confirm,
         RefuseConfirm
<1>2. UNCHANGED row
  BY <1>1 DEF written
<1>3. /\ call' \in [Bookings -> CallState]
      /\ \A d \in Bookings : Placed(d, call'[d], row')
  <2>1. CASE ResolveStudents(b)
    <3> DEFINE k == [Blank EXCEPT
          !.at = "eligible",
          !.students = Chosen[b] \cup (IF b \in ByGroup THEN group ELSE {}),
          !.earlier = {d \in Bookings : call[d].at \in Ended}]
    <3>1. k \in CallState
      <4>1. Chosen[b] \in SUBSET Student /\ group \in SUBSET Student
        BY BookingAssumption DEF PlacedInv, TypeOK
      <4> QED
        BY <4>1 DEF Blank, CallState, Running, Planning
    <3>2. Placed(b, k, row')
      BY Positions DEF Placed, Blank, Running, Planning, Writing
    <3>3. Turn(b, k)
      BY <2>1 DEF ResolveStudents
    <3> HIDE DEF k
    <3> QED
      BY <1>2, <3>1, <3>2, <3>3, Move
  <2>2. CASE RefusePlan(b)
    BY <1>2, <2>2, StopMoves DEF RefusePlan, Ended
  <2>3. CASE AssertEligible(b)
    <3>1. call[b].made = 0 /\ Stand(b, "check")
      BY <2>3, Standing DEF AssertEligible, Placed, Planning
    <3> QED
      BY <1>2, <3>1, StandMoves DEF Running, Planning, Writing
  <2>4. CASE Check(b)
    <3> DEFINE k == [call[b] EXCEPT
          !.blocked = @ \/ AbsoluteClash(b, Slots[b][call[b].i]),
          !.soft = @ \cup {i \in {call[b].i} :
                            \/ StudentClash(call[b].students, Slots[b][call[b].i])
                            \/ i \in Outside[b]}]
    <3>0. call[b] \in CallState /\ call[b].i \in Nat
      BY Standing
    <3>1. k \in CallState /\ k.at = call[b].at /\ k.i = call[b].i
          /\ k.made = call[b].made
      BY <3>0 DEF CallState
    <3>2. call[b].at = "check" /\ call[b].made = 0
      BY <2>4, Standing DEF Check, Placed, Planning
    <3>3. Turn(b, Each(b, k, "confirm"))
      BY <2>4 DEF Check
    <3> HIDE DEF k
    <3> QED
      BY <1>2, <3>1, <3>2, <3>3, EachMoves DEF Running, Planning, Writing
  <2>5. CASE Confirm(b)
    <3>1. call[b].made = 0
      BY <2>5, Standing DEF Confirm, Placed, Planning
    <3>2. CASE b \in Meeting
      <4>1. Stand(b, "meet")
        BY <2>5, <3>2 DEF Confirm
      <4> QED
        BY <1>2, <3>1, <4>1, StandMoves DEF Running, Planning, Writing
    <3>3. CASE b \notin Meeting
      <4>1. Stand(b, AfterMeetings(b))
        BY <2>5, <3>3 DEF Confirm
      <4> QED
        BY <1>2, <3>1, <4>1, NextStage, StandMoves
           DEF Running, Planning, Writing
    <3> QED
      BY <3>2, <3>3
  <2>6. CASE RefuseConfirm(b)
    BY <1>2, <2>6, StopMoves DEF RefuseConfirm, Ended
  <2> QED
    BY <2>1, <2>2, <2>3, <2>4, <2>5, <2>6 DEF PlanStep
<1> QED
  BY <1>1, <1>3 DEF PlacedInv, TypeOK, people, written

(* Meetings come and go without a row.                                     *)
LEMMA MeetingPlaced ==
  ASSUME PlacedInv, NEW b \in Bookings,
         CreateMeeting(b) \/ MeetingFails(b) \/ Discard(b)
  PROVE  PlacedInv'
<1>1. UNCHANGED <<people, series, row, follow, shared>>
  BY DEF CreateMeeting, MeetingFails, Discard, written
<1>2. zoom' \subseteq Occ
  <2>1. zoom \subseteq Occ
    BY DEF PlacedInv, TypeOK
  <2>2. CASE CreateMeeting(b)
    <3>1. Here(b) \in Occ
      BY <2>2, Standing, Occurrences DEF CreateMeeting, Placed, Running, Here
    <3> QED
      BY <2>1, <2>2, <3>1 DEF CreateMeeting
  <2>3. CASE MeetingFails(b) \/ Discard(b)
    BY <2>1, <2>3 DEF MeetingFails, Discard, written
  <2> QED
    BY <2>2, <2>3
<1>3. /\ call' \in [Bookings -> CallState]
      /\ \A d \in Bookings : Placed(d, call'[d], row')
  <2>1. CASE CreateMeeting(b)
    <3> DEFINE k == [call[b] EXCEPT !.made = @ + 1]
    <3>0. call[b] \in CallState /\ call[b].made \in Nat
      BY Standing
    <3>1. k \in CallState /\ k.at = call[b].at /\ k.i = call[b].i
          /\ k.made = call[b].made + 1
      BY <3>0 DEF CallState
    <3>2. call[b].at = "meet" /\ Turn(b, Each(b, k, AfterMeetings(b)))
      BY <2>1 DEF CreateMeeting
    <3> HIDE DEF k
    <3> QED
      BY <1>1, <3>1, <3>2, NextStage, EachMoves DEF Running, Planning, Writing
  <2>2. CASE MeetingFails(b)
    BY <1>1, <2>2, FailMoves DEF MeetingFails
  <2>3. CASE Discard(b) /\ call[b].i < call[b].made
    <3> DEFINE k == [call[b] EXCEPT !.i = @ + 1]
    <3>0. call[b] \in CallState /\ call[b].made \in Nat /\ call[b].i \in Nat
      BY Standing
    <3>1. k \in CallState /\ k.at = "discard" /\ k.i = call[b].i + 1
          /\ k.made = call[b].made
      BY <2>3, <3>0 DEF CallState, Discard
    <3>2. Turn(b, k)
      BY <2>3 DEF Discard
    <3>3. k.i \in Planned(b) /\ k.i <= k.made /\ k.made <= Len(Slots[b])
      BY <2>3, <3>0, <3>1, Standing, Positions DEF Placed
    <3>4. Placed(b, k, row')
      <4> HIDE DEF k
      <4> QED
        BY <3>1, <3>3 DEF Placed, Planning, Writing
    <3> HIDE DEF k
    <3> QED
      BY <1>1, <3>1, <3>2, <3>4, Move
  <2>4. CASE Discard(b) /\ ~(call[b].i < call[b].made)
    BY <1>1, <2>4, StopMoves DEF Discard, Ended
  <2> QED
    BY <2>1, <2>2, <2>3, <2>4
<1> QED
  BY <1>1, <1>2, <1>3 DEF PlacedInv, TypeOK, people

(* The row an insert writes.                                               *)
LEMMA NewRowType ==
  ASSUME PlacedInv, NEW b \in Bookings, call[b].at = "write"
  PROVE  NewRow(b) \in Row /\ Here(b) \in Occ
<1>1. call[b].i \in Planned(b)
  BY Standing DEF Placed, Running, Writing
<1>2. Here(b) \in Occ
  BY <1>1, Occurrences DEF Here
<1>3. Slots[b][call[b].i] \in Slot
  BY <1>1, Positions
<1> QED
  BY <1>2, <1>3 DEF NewRow, Row

(* The statements that write rows.                                         *)
LEMMA RowPlaced ==
  ASSUME PlacedInv, NEW b \in Bookings,
         WriteOccurrence(b) \/ AttachInstructor(b) \/ AttachStudent(b)
  PROVE  PlacedInv'
<1>1. UNCHANGED <<people, zoom, series, follow, shared>>
  BY DEF WriteOccurrence, AttachInstructor, AttachStudent
<1>0. /\ row \in [Occ -> Row \cup {None}]
      /\ call[b] \in CallState /\ Placed(b, call[b], row)
      /\ call[b].students \in SUBSET Student
  BY Standing DEF PlacedInv, TypeOK
<1>2. CASE WriteOccurrence(b)
  <2>1. NewRow(b) \in Row /\ Here(b) \in Occ
    BY <1>2, NewRowType DEF WriteOccurrence
  <2>2. /\ row' \in [Occ -> Row \cup {None}]
        /\ row'[Here(b)] # None
        /\ \A o \in Occ : row[o] # None => row'[o] # None
    BY <1>0, <1>2, <2>1, RowAssumption DEF WriteOccurrence
  <2>3. call[b].at = "write" /\ Turn(b, Each(b, call[b], "attach"))
    BY <1>2 DEF WriteOccurrence
  <2>4. /\ call' \in [Bookings -> CallState]
        /\ \A d \in Bookings : Placed(d, call'[d], row')
    BY <1>0, <2>2, <2>3, EachMoves DEF Running, Planning, Writing
  <2> QED
    BY <1>1, <2>2, <2>4 DEF PlacedInv, TypeOK, people
<1>3. CASE AttachInstructor(b) \/ AttachStudent(b)
  <2>1. call[b].at = "attach" /\ Written(b, row)
    BY <1>0, <1>3 DEF AttachInstructor, AttachStudent, Placed, Writing
  <2>2. Here(b) \in Occ /\ row[Here(b)] # None
    BY <1>0, <2>1, Occurrences DEF Placed, Running, Writing, Here, Written
  <2>3. row[Here(b)] \in Row
    BY <1>0, <2>2
  <2>4. \/ row' = [row EXCEPT ![Here(b)].taught = TRUE]
        \/ \E s \in Student :
             row' = [row EXCEPT ![Here(b)].roster = @ \cup {s}]
    BY <1>0, <1>3 DEF AttachInstructor, AttachStudent
  <2>5. row'[Here(b)] \in Row
    <3>1. CASE row' = [row EXCEPT ![Here(b)].taught = TRUE]
      BY <1>0, <2>2, <2>3, <3>1 DEF Row
    <3>2. ASSUME NEW s \in Student,
                 row' = [row EXCEPT ![Here(b)].roster = @ \cup {s}]
          PROVE  row'[Here(b)] \in Row
      <4>1. row'[Here(b)] = [row[Here(b)] EXCEPT !.roster = @ \cup {s}]
        BY <1>0, <2>2, <3>2
      <4>2. row[Here(b)].roster \cup {s} \in SUBSET Student
        BY <2>3 DEF Row
      <4> QED
        BY <2>3, <4>1, <4>2 DEF Row
    <3> QED
      BY <2>4, <3>1, <3>2
  <2>6. /\ row' \in [Occ -> Row \cup {None}]
        /\ \A o \in Occ : row[o] # None => row'[o] # None
    <3>1. row' = [row EXCEPT ![Here(b)] = row'[Here(b)]]
      BY <1>0, <2>2, <2>4
    <3> QED
      BY <1>0, <2>2, <2>5, <3>1, RowAssumption
  <2>7. Turn(b, Each(b, call[b], "record")) \/ Turn(b, call[b])
    BY <1>3 DEF AttachInstructor, AttachStudent
  <2>8. Placed(b, call[b], row')
    BY <1>0, <2>6, Occurrences DEF Placed, Written
  <2>9. /\ call' \in [Bookings -> CallState]
        /\ \A d \in Bookings : Placed(d, call'[d], row')
    <3>1. CASE Turn(b, call[b])
      BY <1>0, <2>6, <2>8, <3>1, Move
    <3>2. CASE Turn(b, Each(b, call[b], "record"))
      BY <1>0, <2>1, <2>6, <3>2, EachMoves DEF Running, Planning, Writing
    <3> QED
      BY <2>7, <3>1, <3>2
  <2> QED
    BY <1>1, <2>6, <2>9 DEF PlacedInv, TypeOK, people
<1> QED
  BY <1>2, <1>3

(* What follows once the rows are there.                                   *)
LEMMA FollowPlaced ==
  ASSUME PlacedInv, NEW b \in Bookings,
         \/ WriteSeries(b) \/ RecordSeries(b) \/ RecordOccurrence(b)
         \/ Publish(b) \/ CaptureBooking(b)
  PROVE  PlacedInv'
<1>0. /\ TypeOK /\ call[b] \in CallState /\ Placed(b, call[b], row)
  BY Standing DEF PlacedInv
<1>1. UNCHANGED <<people, zoom, row>>
  BY DEF WriteSeries, RecordSeries, RecordOccurrence, Publish, CaptureBooking
<1>2. series' \in [Bookings -> {"none", "written", "recorded"}]
  BY <1>0 DEF TypeOK, WriteSeries, RecordSeries, RecordOccurrence, Publish,
              CaptureBooking
<1>3. follow' \in [Occ -> SUBSET {"event", "confirmation", "reminder"}]
  <2>1. CASE follow' = follow
    BY <1>0, <2>1 DEF TypeOK
  <2>2. ASSUME NEW S \in SUBSET {"event", "confirmation", "reminder"},
               follow' = [follow EXCEPT ![Here(b)] = @ \cup S]
        PROVE  follow' \in [Occ -> SUBSET {"event", "confirmation", "reminder"}]
    BY <1>0, <2>2 DEF TypeOK
  <2>3. {"event"} \in SUBSET {"event", "confirmation", "reminder"}
        /\ {"confirmation", "reminder"}
              \in SUBSET {"event", "confirmation", "reminder"}
    OBVIOUS
  <2> QED
    BY <2>1, <2>2, <2>3 DEF WriteSeries, RecordSeries, RecordOccurrence, Publish,
                            CaptureBooking
<1>4. shared' \in [Occ -> (SUBSET Student) \cup {None}]
  <2>1. CASE Publish(b)
    <3>1. Here(b) \in Occ /\ row[Here(b)] # None
      BY <1>0, <2>1, Occurrences
         DEF Publish, Placed, Running, Writing, Here, Written
    <3>2. row[Here(b)].roster \in SUBSET Student
      BY <1>0, <3>1 DEF TypeOK, Row
    <3> QED
      BY <1>0, <2>1, <3>2 DEF TypeOK, Publish
  <2>2. CASE ~Publish(b)
    BY <1>0, <2>2 DEF TypeOK, WriteSeries, RecordSeries, RecordOccurrence,
                      CaptureBooking
  <2> QED
    BY <2>1, <2>2
<1>5. /\ call' \in [Bookings -> CallState]
      /\ \A d \in Bookings : Placed(d, call'[d], row')
  <2>1. CASE WriteSeries(b)
    BY <1>1, <2>1, StandMoves DEF WriteSeries, Running, Planning, Writing
  <2>2. CASE RecordSeries(b)
    BY <1>1, <2>2 DEF RecordSeries, PlacedInv, TypeOK
  <2>3. ASSUME NEW at \in {"record", "publish", "notice"},
               NEW next \in {"publish", "notice", "sweep"},
               call[b].at = at, Turn(b, Each(b, call[b], next))
        PROVE  /\ call' \in [Bookings -> CallState]
               /\ \A d \in Bookings : Placed(d, call'[d], row')
    <3>1. Written(b, row)
      BY <1>0, <2>3 DEF Placed, Writing
    <3> QED
      BY <1>0, <1>1, <2>3, <3>1, EachMoves DEF Running, Planning, Writing
  <2> QED
    BY <2>1, <2>2, <2>3 DEF RecordOccurrence, Publish, CaptureBooking
<1> QED
  BY <1>1, <1>2, <1>3, <1>4, <1>5 DEF PlacedInv, TypeOK, people

(* The ways a booking ends.                                                *)
LEMMA EndPlaced ==
  ASSUME PlacedInv, NEW b \in Bookings,
         SweepCredits(b) \/ WriteClashes(b) \/ Throw(b) \/ Crash(b)
  PROVE  PlacedInv'
<1>1. CASE SweepCredits(b)
  <2>1. PICK short \in SUBSET Sweepable :
          row' = [o \in Occ |-> IF o \in short
                                THEN [row[o] EXCEPT !.status = "CANCELLED"]
                                ELSE row[o]]
    BY <1>1 DEF SweepCredits
  <2>2. row \in [Occ -> Row \cup {None}]
    BY DEF PlacedInv, TypeOK
  <2>3. ASSUME NEW o \in Occ
        PROVE  /\ row'[o] \in Row \cup {None}
               /\ row[o] # None => row'[o] # None
    <3>1. CASE o \in short
      <4>1. row[o] \in Row
        BY <2>2, <3>1 DEF Sweepable
      <4>2. [row[o] EXCEPT !.status = "CANCELLED"] \in Row
        BY <4>1 DEF Row
      <4> QED
        BY <2>1, <3>1, <4>2, RowAssumption
    <3>2. CASE o \notin short
      BY <2>1, <2>2, <3>2
    <3> QED
      BY <3>1, <3>2
  <2>4. row' \in [Occ -> Row \cup {None}]
    BY <2>1, <2>3
  <2>5. /\ call' \in [Bookings -> CallState]
        /\ \A d \in Bookings : Placed(d, call'[d], row')
    BY <1>1, <2>3, StopMoves DEF SweepCredits, Ended
  <2> QED
    BY <1>1, <2>4, <2>5 DEF SweepCredits, PlacedInv, TypeOK, people
<1>2. CASE WriteClashes(b) \/ Throw(b) \/ Crash(b)
  <2>1. UNCHANGED <<people, written>> /\ UNCHANGED row
    BY <1>2 DEF WriteClashes, Throw, Crash, written
  <2>2. /\ call' \in [Bookings -> CallState]
        /\ \A d \in Bookings : Placed(d, call'[d], row')
    BY <1>2, <2>1, FailMoves, StopMoves DEF WriteClashes, Throw, Crash, Ended
  <2> QED
    BY <2>1, <2>2 DEF PlacedInv, TypeOK, people, written
<1> QED
  BY <1>1, <1>2

(* Whatever happens, types and places stay in order.                       *)
LEMMA NextPlaced == PlacedInv /\ [Next]_vars => PlacedInv'
<1> SUFFICES ASSUME PlacedInv, [Next]_vars PROVE PlacedInv'
  OBVIOUS
<1>1. CASE UNCHANGED vars \/ Rest
  BY <1>1 DEF Rest, vars, PlacedInv, TypeOK
<1>2. ASSUME NEW b \in Bookings, Step(b) PROVE PlacedInv'
  BY <1>2, PlanPlaced, MeetingPlaced, RowPlaced, FollowPlaced, EndPlaced
     DEF Step, PlanStep
<1>3. ASSUME NEW s \in Joining, Join(s) PROVE PlacedInv'
  BY <1>3, BookingAssumption DEF Join, PlacedInv, TypeOK, written
<1>4. ASSUME NEW pair \in Withdrawn, Withdraw(pair) PROVE PlacedInv'
  BY <1>4 DEF Withdraw, PlacedInv, TypeOK, written
<1> QED
  BY <1>1, <1>2, <1>3, <1>4 DEF Next

(* Every reachable state is well typed.                                    *)
THEOREM BookingTypeCorrect == Spec => []TypeOK
<1>1. PlacedInv => TypeOK
  BY DEF PlacedInv
<1> QED
  BY <1>1, InitPlaced, NextPlaced, PTL DEF Spec

-----------------------------------------------------------------------------
(* The calendar.  A session holds its slot from the insert that made it on,*)
(* and only the insert has a constraint to pass.                           *)

(* What an occurrence holds is a slot or nothing.                          *)
LEMMA HeldType ==
  ASSUME PlacedInv
  PROVE  Held \in [Occ -> Book!Slot \cup {None}]
<1>1. ASSUME NEW o \in Occ, Live(o) PROVE row[o].slot \in Book!Slot
  BY <1>1 DEF PlacedInv, TypeOK, Live, Row, Slot, Book!Slot
<1> QED
  BY <1>1 DEF Held

(* What an occurrence holds, in the terms of the rows.                     *)
LEMMA HeldOf ==
  ASSUME NEW o \in Occ, PlacedInv
  PROVE  /\ Held[o] # None <=> Live(o)
         /\ Live(o) => Held[o] = row[o].slot
<1>1. Live(o) => row[o].slot \in Slot
  BY DEF PlacedInv, TypeOK, Live, Row
<1> QED
  BY <1>1, BookingAssumption DEF Held

(* Two occurrences contend when their bookings share instructor or room.   *)
LEMMA ContendingRivals ==
  ASSUME NEW o \in Occ, NEW p \in Occ, {o, p} \in Contending
  PROVE  Rivals(o[1], p[1])
<1>1. PICK x \in Occ \X Occ : {o, p} = {x[1], x[2]} /\ Rivals(x[1][1], x[2][1])
  BY DEF Contending
<1>2. (x[1] = o /\ x[2] = p) \/ (x[1] = p /\ x[2] = o)
  BY <1>1
<1> QED
  BY <1>1, <1>2 DEF Rivals

(* No occurrence holds a slot at first.                                    *)
LEMMA InitBook == Init => Book!Init
<1> SUFFICES ASSUME Init PROVE Book!Init
  OBVIOUS
<1>1. PlacedInv
  BY InitPlaced
<1>2. \A o \in Occ : Held[o] = None
  BY DEF Held, Live, Init
<1> QED
  BY <1>1, <1>2, HeldType DEF Book!Init, Book!Exclusive

(* A step that makes or unmakes no live row changes nothing of it.         *)
LEMMA SameHeld ==
  ASSUME \A o \in Occ : /\ Live(o)' <=> Live(o)
                        /\ Live(o) => row'[o].slot = row[o].slot
  PROVE  Held' = Held
BY DEF Held

(* What attaching a person leaves of a row.                                *)
LEMMA AttachHeld ==
  ASSUME PlacedInv, NEW b \in Bookings, AttachInstructor(b) \/ AttachStudent(b)
  PROVE  Held' = Held
<1>0. /\ row \in [Occ -> Row \cup {None}] /\ Placed(b, call[b], row)
  BY DEF PlacedInv, TypeOK
<1>1. call[b].at = "attach"
  BY DEF AttachInstructor, AttachStudent
<1>2. Here(b) \in Occ /\ row[Here(b)] \in Row
  <2>1. Here(b) \in Occ /\ row[Here(b)] # None
    BY <1>0, <1>1, Occurrences DEF Placed, Running, Writing, Here, Written
  <2> QED
    BY <1>0, <2>1
<1>3. PICK r \in Row : /\ row' = [row EXCEPT ![Here(b)] = r]
                       /\ r.status = row[Here(b)].status
                       /\ r.slot = row[Here(b)].slot
  <2>1. CASE AttachInstructor(b)
    <3> DEFINE r == [row[Here(b)] EXCEPT !.taught = TRUE]
    <3>1. r \in Row
      BY <1>2 DEF Row
    <3>2. row' = [row EXCEPT ![Here(b)] = r] /\ r.slot = row[Here(b)].slot
          /\ r.status = row[Here(b)].status
      BY <1>0, <1>2, <2>1 DEF AttachInstructor, Row
    <3> QED
      BY <3>1, <3>2
  <2>2. CASE AttachStudent(b)
    <3>1. PICK s \in call[b].students :
            row' = [row EXCEPT ![Here(b)].roster = @ \cup {s}]
      BY <2>2 DEF AttachStudent
    <3> DEFINE r == [row[Here(b)] EXCEPT !.roster = @ \cup {s}]
    <3>2. s \in Student
      BY Standing
    <3>3. row[Here(b)].roster \cup {s} \in SUBSET Student
      BY <1>2, <3>2 DEF Row
    <3>4. r \in Row /\ r.slot = row[Here(b)].slot
          /\ r.status = row[Here(b)].status
      BY <1>2, <3>3 DEF Row
    <3>5. row' = [row EXCEPT ![Here(b)] = r]
      BY <1>0, <1>2, <3>1
    <3> HIDE DEF r
    <3> QED
      BY <3>4, <3>5
  <2> QED
    BY <2>1, <2>2
<1>4. ASSUME NEW o \in Occ
      PROVE  /\ Live(o)' <=> Live(o)
             /\ Live(o) => row'[o].slot = row[o].slot
  BY <1>0, <1>2, <1>3, RowAssumption DEF Live
<1> QED
  BY <1>4, SameHeld

(* The sweep cancels requests, which hold nothing.                         *)
LEMMA SweepHeld ==
  ASSUME PlacedInv, NEW b \in Bookings, SweepCredits(b)
  PROVE  Held' = Held
<1>1. PICK short \in SUBSET Sweepable :
        row' = [o \in Occ |-> IF o \in short
                              THEN [row[o] EXCEPT !.status = "CANCELLED"]
                              ELSE row[o]]
  BY DEF SweepCredits
<1>2. row \in [Occ -> Row \cup {None}]
  BY DEF PlacedInv, TypeOK
<1>3. ASSUME NEW o \in Occ
      PROVE  /\ Live(o)' <=> Live(o)
             /\ Live(o) => row'[o].slot = row[o].slot
  <2>1. CASE o \in short
    <3>1. row[o] \in Row /\ row[o].status = "REQUESTED"
      BY <1>2, <2>1 DEF Sweepable
    <3>2. row'[o].status = "CANCELLED"
      BY <1>1, <2>1, <3>1 DEF Row
    <3> QED
      BY <3>1, <3>2 DEF Live, BLOCKING_STATUSES
  <2>2. CASE o \notin short
    BY <1>1, <2>2 DEF Live
  <2> QED
    BY <2>1, <2>2
<1> QED
  BY <1>3, SameHeld

(* An insert takes a slot no rival holds, or none when it is a request.    *)
LEMMA WriteBook ==
  ASSUME PlacedInv, NEW b \in Bookings, WriteOccurrence(b)
  PROVE  Book!Next
<1> PICK o \in Occ : o = Here(b)
  BY NewRowType DEF WriteOccurrence
<1>0. row \in [Occ -> Row \cup {None}] /\ NewRow(b) \in Row /\ o[1] = b
  BY NewRowType DEF PlacedInv, TypeOK, WriteOccurrence, Here
<1>1. row' = [row EXCEPT ![o] = NewRow(b)] /\ Fits(b)
  BY DEF WriteOccurrence
<1>2. row'[o] = NewRow(b) /\ \A p \in Occ \ {o} : row'[p] = row[p]
  BY <1>0, <1>1
<1>3. Held' = [Held EXCEPT ![o] = Held'[o]]
  BY <1>0, <1>2 DEF Held, Live
<1>4. CASE b \in Asked
  <2>1. ~Live(o)'
    BY <1>2, <1>4 DEF Live, NewRow, BLOCKING_STATUSES
  <2>2. Held'[o] = None
    BY <1>0, <2>1 DEF Held
  <2>3. Book!Release(o)
    BY <1>3, <2>2 DEF Book!Release
  <2> QED
    BY <1>0, <2>3 DEF Book!Next
<1>5. CASE b \notin Asked
  <2>1. NewRow(b).slot = Slots[b][call[b].i]
    BY DEF NewRow
  <2>2. Live(o)'
    <3>1. NewRow(b).status = "SCHEDULED" /\ NewRow(b) # None
      BY <1>0, <1>5, RowAssumption DEF NewRow
    <3> QED
      BY <1>2, <3>1 DEF Live, BLOCKING_STATUSES
  <2>3. Held'[o] = NewRow(b).slot
    BY <1>0, <1>2, <2>2 DEF Held
  <2>4. Held'[o] \in Book!Slot
    BY <1>0, <2>3 DEF Row, Slot, Book!Slot
  <2>5. ASSUME NEW p \in Occ \ {o}, {o, p} \in Contending, Held[p] # None
        PROVE  ~Book!Overlap(Held'[o], Held[p])
    <3>1. Rivals(b, p[1])
      BY <1>0, <2>5, ContendingRivals
    <3>2. Live(p) /\ Held[p] = row[p].slot
      BY <2>5, HeldOf
    <3>3. ~Overlap(row[p].slot, Slots[b][call[b].i])
      BY <1>1, <1>5, <3>1, <3>2 DEF Fits, AbsoluteClash, BusyWith
    <3> QED
      BY <2>1, <2>3, <3>2, <3>3 DEF Overlap, Book!Overlap
  <2>6. Book!Hold(o)
    BY <1>3, <2>4, <2>5 DEF Book!Hold, Book!Fits
  <2> QED
    BY <1>0, <2>6 DEF Book!Next
<1> QED
  BY <1>4, <1>5

(* Every step holds or releases one slot, or leaves the calendar alone.    *)
LEMMA NextBook ==
  ASSUME PlacedInv, [Next]_vars
  PROVE  [Book!Next]_Held
<1>1. CASE UNCHANGED row
  <2>1. Held' = Held
    BY <1>1 DEF Held, Live
  <2> QED
    BY <2>1
<1>2. ASSUME NEW b \in Bookings, Step(b), ~UNCHANGED row
      PROVE  [Book!Next]_Held
  <2>1. \/ WriteOccurrence(b) \/ AttachInstructor(b) \/ AttachStudent(b)
        \/ SweepCredits(b)
    BY <1>2 DEF Step, ResolveStudents, RefusePlan, AssertEligible, Check, Confirm,
                RefuseConfirm, CreateMeeting, MeetingFails, Discard, WriteSeries,
                WriteClashes, RecordSeries, RecordOccurrence, Publish,
                CaptureBooking, Throw, Crash, written
  <2> QED
    BY <2>1, WriteBook, AttachHeld, SweepHeld
<1>3. CASE Rest \/ UNCHANGED vars
  BY <1>1, <1>3 DEF Rest, vars
<1>4. ASSUME NEW s, Join(s) PROVE [Book!Next]_Held
  BY <1>1, <1>4 DEF Join, written
<1>5. ASSUME NEW pair, Withdraw(pair) PROVE [Book!Next]_Held
  BY <1>1, <1>5 DEF Withdraw, written
<1> QED
  BY <1>1, <1>2, <1>3, <1>4, <1>5 DEF Next

(* Bookings implement the calendar's contract: whatever is booked at once, *)
(* and wherever a booking breaks off, the slots held change one occurrence *)
(* at a time and never onto a rival's.                                     *)
THEOREM BookingImplementsBook == Spec => ImplementsSlotBook
BY InitPlaced, NextPlaced, InitBook, NextBook, PTL
   DEF Spec, ImplementsSlotBook, Book!Spec

-----------------------------------------------------------------------------
(* Meetings.  What the provider holds for a booking is what it has made    *)
(* and not yet taken back.                                                 *)

Kept(b, k, z) ==
  \A i \in Planned(b) : <<b, i>> \in z =>
    /\ k.at \notin {"idle", "failed"} \cup Planning
    /\ k.at \in Writing \cup {"meet", "discard"} => i <= k.made
    /\ k.at = "discard" => k.i <= i
MeetingsInv == \A b \in Bookings : Kept(b, call[b], zoom)

(* No meeting exists at first.                                             *)
LEMMA InitMeetings == Init => MeetingsInv
BY DEF Init, MeetingsInv, Kept

(* One booking goes on, and leaves the meetings of the others alone.       *)
LEMMA KeptMove ==
  ASSUME PlacedInv, MeetingsInv, NEW b \in Bookings, NEW k, Turn(b, k),
         \A d \in Bookings \ {b} : \A i \in Planned(d) :
            <<d, i>> \in zoom' => <<d, i>> \in zoom,
         Kept(b, k, zoom')
  PROVE  MeetingsInv'
<1>1. call \in [Bookings -> CallState]
  BY DEF PlacedInv, TypeOK
<1>2. ASSUME NEW d \in Bookings PROVE Kept(d, call'[d], zoom')
  BY <1>1, <1>2 DEF Turn, MeetingsInv, Kept
<1> QED
  BY <1>2 DEF MeetingsInv

(* A booking that fails goes back for what it made, or made nothing.       *)
LEMMA KeptFail ==
  ASSUME PlacedInv, MeetingsInv, NEW b \in Bookings, Fail(b), UNCHANGED zoom,
         call[b].at \in Writing \cup {"meet"}
  PROVE  MeetingsInv'
<1>0. /\ call[b] \in CallState /\ call[b].made \in Nat
      /\ Kept(b, call[b], zoom)
  BY Standing DEF MeetingsInv
<1>1. CASE call[b].made > 0
  <2> DEFINE k == [call[b] EXCEPT !.at = "discard", !.i = 1]
  <2>1. k.at = "discard" /\ k.i = 1 /\ k.made = call[b].made
    BY <1>0 DEF CallState
  <2>2. Turn(b, k)
    BY <1>1 DEF Fail, Stand
  <2>3. \A i \in Planned(b) : 1 <= i
    BY Positions
  <2> HIDE DEF k
  <2>4. Kept(b, k, zoom')
    BY <1>0, <2>1, <2>3 DEF Kept, Planning, Writing
  <2> QED
    BY <2>2, <2>4, KeptMove
<1>2. CASE ~(call[b].made > 0)
  <2> DEFINE k == [Blank EXCEPT !.at = "failed", !.students = call[b].students,
                                !.earlier = call[b].earlier]
  <2>1. Turn(b, k)
    BY <1>2 DEF Fail, Stop
  <2>2. \A i \in Planned(b) : i > 0
    BY Positions
  <2>3. \A i \in Planned(b) : i \in Nat /\ <<b, i>> \notin zoom
    BY <1>0, <1>2, <2>2, Positions DEF Kept
  <2>4. Kept(b, k, zoom')
    BY <2>3 DEF Kept
  <2> HIDE DEF k
  <2> QED
    BY <2>1, <2>4, KeptMove
<1> QED
  BY <1>1, <1>2

(* While a booking is planned it has no meeting, wherever it goes next.    *)
LEMMA KeptPlan ==
  ASSUME PlacedInv, MeetingsInv, NEW b \in Bookings, NEW k, Turn(b, k),
         UNCHANGED zoom, call[b].at \in {"idle"} \cup Planning
  PROVE  MeetingsInv'
<1>1. Kept(b, call[b], zoom)
  BY DEF MeetingsInv
<1>2. Kept(b, k, zoom')
  BY <1>1 DEF Kept
<1> QED
  BY <1>2, KeptMove

(* While it is written it keeps those it made.                             *)
LEMMA KeptWrite ==
  ASSUME PlacedInv, MeetingsInv, NEW b \in Bookings, NEW k, Turn(b, k),
         UNCHANGED zoom, call[b].at \in Writing,
         (k.at \in Writing /\ k.made = call[b].made) \/ k.at = "done"
  PROVE  MeetingsInv'
<1>1. Kept(b, call[b], zoom)
  BY DEF MeetingsInv
<1>2. Kept(b, k, zoom')
  BY <1>1 DEF Kept, Planning, Writing
<1> QED
  BY <1>2, KeptMove

(* Where Each leaves a booking.                                            *)
LEMMA EachFields ==
  ASSUME NEW b, NEW k \in CallState, NEW next
  PROVE  /\ Each(b, k, next).at \in {k.at, next}
         /\ Each(b, k, next).made = k.made
BY DEF Each, CallState

(* A meeting is made for the position at hand, the next after the others.  *)
LEMMA CreateKept ==
  ASSUME PlacedInv, MeetingsInv, NEW b \in Bookings, CreateMeeting(b)
  PROVE  MeetingsInv'
<1> DEFINE j == [call[b] EXCEPT !.made = @ + 1]
           k == Each(b, j, AfterMeetings(b))
<1>0. /\ call[b] \in CallState /\ call[b].made \in Nat /\ call[b].i \in Nat
      /\ Kept(b, call[b], zoom) /\ Placed(b, call[b], row)
  BY Standing DEF MeetingsInv
<1>1. /\ call[b].at = "meet" /\ call[b].made = call[b].i - 1
      /\ zoom' = zoom \cup {<<b, call[b].i>>} /\ Turn(b, k)
  BY <1>0 DEF CreateMeeting, Placed, Here
<1>2. j \in CallState /\ j.at = "meet" /\ j.made = call[b].i
  BY <1>0, <1>1 DEF CallState
<1> HIDE DEF j
<1>3. k.at \in {"meet", "series", "write"} /\ k.made = call[b].i
  <2>1. k.at \in {j.at, AfterMeetings(b)} /\ k.made = j.made
    BY <1>2, EachFields
  <2> HIDE DEF k
  <2> QED
    BY <1>2, <2>1, NextStage
<1> HIDE DEF k
<1>4. ASSUME NEW i \in Planned(b), <<b, i>> \in zoom' PROVE i <= call[b].i
  <2>1. i \in Nat
    BY Positions
  <2>2. CASE <<b, i>> \in zoom
    BY <1>0, <1>1, <2>1, <2>2 DEF Kept
  <2>3. CASE i = call[b].i
    BY <1>0, <2>3
  <2> QED
    BY <1>1, <1>4, <2>2, <2>3
<1>5. Kept(b, k, zoom')
  BY <1>3, <1>4 DEF Kept, Planning, Writing
<1> QED
  BY <1>1, <1>5, KeptMove

(* Taking back proceeds from the first meeting made to the last.           *)
LEMMA DiscardKept ==
  ASSUME PlacedInv, MeetingsInv, NEW b \in Bookings, Discard(b), ~MayOrphan
  PROVE  MeetingsInv'
<1>0. /\ call[b] \in CallState /\ call[b].made \in Nat /\ call[b].i \in Nat
      /\ Kept(b, call[b], zoom) /\ Placed(b, call[b], row)
  BY Standing DEF MeetingsInv
<1>1. /\ call[b].at = "discard" /\ call[b].i <= call[b].made
      /\ zoom' = zoom \ {<<b, call[b].i>>}
  BY <1>0 DEF Discard, Placed, Here
<1>2. ASSUME NEW i \in Planned(b), <<b, i>> \in zoom'
      PROVE  i \in Nat /\ call[b].i < i /\ i <= call[b].made
  <2>1. i \in Nat /\ i # call[b].i
    BY <1>1, <1>2, Positions
  <2>2. call[b].i <= i /\ i <= call[b].made
    BY <1>0, <1>1, <1>2 DEF Kept
  <2> QED
    BY <1>0, <2>1, <2>2
<1>3. CASE call[b].i < call[b].made
  <2> DEFINE k == [call[b] EXCEPT !.i = @ + 1]
  <2>1. k.at = "discard" /\ k.i = call[b].i + 1 /\ k.made = call[b].made
    BY <1>0, <1>1 DEF CallState
  <2>2. Turn(b, k)
    BY <1>3 DEF Discard
  <2> HIDE DEF k
  <2>3. ASSUME NEW i \in Planned(b), <<b, i>> \in zoom'
        PROVE  k.i <= i /\ i <= k.made
    BY <1>0, <1>2, <2>1, <2>3
  <2>4. Kept(b, k, zoom')
    BY <2>1, <2>3 DEF Kept, Planning
  <2> QED
    BY <1>1, <2>2, <2>4, KeptMove
<1>4. CASE ~(call[b].i < call[b].made)
  <2> DEFINE k == [Blank EXCEPT !.at = "failed", !.students = call[b].students,
                                !.earlier = call[b].earlier]
  <2>1. Turn(b, k)
    BY <1>4 DEF Discard, Stop
  <2>2. \A i \in Planned(b) : <<b, i>> \notin zoom'
    BY <1>0, <1>2, <1>4
  <2>3. Kept(b, k, zoom')
    BY <2>2 DEF Kept
  <2> HIDE DEF k
  <2> QED
    BY <1>1, <2>1, <2>3, KeptMove
<1> QED
  BY <1>3, <1>4

(* The statements of writePlan, from the series to the sweep.              *)
WriteStep(b) ==
  \/ WriteSeries(b) \/ WriteOccurrence(b)
  \/ AttachInstructor(b) \/ AttachStudent(b)
  \/ RecordSeries(b) \/ RecordOccurrence(b)
  \/ Publish(b) \/ CaptureBooking(b) \/ SweepCredits(b)

(* Writing a plan keeps to the meetings made for it.                       *)
LEMMA WriteKept ==
  ASSUME PlacedInv, MeetingsInv, NEW b \in Bookings, WriteStep(b)
  PROVE  MeetingsInv'
<1>0. call[b] \in CallState /\ call \in [Bookings -> CallState]
  BY DEF PlacedInv, TypeOK
<1>1. UNCHANGED zoom /\ call[b].at \in Writing
  BY DEF WriteStep, WriteSeries, WriteOccurrence, AttachInstructor,
         AttachStudent, RecordSeries, RecordOccurrence, Publish, CaptureBooking,
         SweepCredits, Writing
<1>2. ASSUME NEW next \in Writing, Turn(b, Each(b, call[b], next))
      PROVE  MeetingsInv'
  BY <1>0, <1>1, <1>2, EachFields, KeptWrite
<1>3. CASE Turn(b, call[b]) \/ UNCHANGED call
  BY <1>0, <1>1, <1>3, KeptWrite DEF Turn
<1>4. CASE WriteSeries(b)
  <2> DEFINE k == [call[b] EXCEPT !.at = "write", !.i = 1]
  <2>1. k.at = "write" /\ k.made = call[b].made
    BY <1>0 DEF CallState
  <2>2. Turn(b, k)
    BY <1>4 DEF WriteSeries, Stand
  <2> HIDE DEF k
  <2> QED
    BY <1>1, <2>1, <2>2, KeptWrite DEF Writing
<1>5. CASE SweepCredits(b)
  <2> DEFINE k == [Blank EXCEPT !.at = "done", !.students = call[b].students,
                                !.earlier = call[b].earlier]
  <2>1. Turn(b, k)
    BY <1>5 DEF SweepCredits, Stop
  <2>2. k.at = "done"
    BY DEF Blank
  <2> HIDE DEF k
  <2> QED
    BY <1>1, <2>1, <2>2, KeptWrite
<1>6. "attach" \in Writing /\ "record" \in Writing /\ "publish" \in Writing
      /\ "notice" \in Writing /\ "sweep" \in Writing
  BY DEF Writing
<1> QED
  BY <1>2, <1>3, <1>4, <1>5, <1>6
     DEF WriteStep, WriteOccurrence, AttachInstructor, AttachStudent,
         RecordSeries, RecordOccurrence, Publish, CaptureBooking

(* A stopped booking is owed nothing.                                      *)
LEMMA CrashKept ==
  ASSUME PlacedInv, MeetingsInv, NEW b \in Bookings, Crash(b)
  PROVE  MeetingsInv'
<1> DEFINE k == [Blank EXCEPT !.at = "dead", !.students = call[b].students,
                              !.earlier = call[b].earlier]
<1>1. Turn(b, k) /\ UNCHANGED zoom
  BY DEF Crash, Stop, written
<1>2. Kept(b, k, zoom')
  BY DEF Kept, Blank, Planning, Writing
<1> HIDE DEF k
<1> QED
  BY <1>1, <1>2, KeptMove

(* No step leaves a booking with a meeting it is not owed.                 *)
LEMMA NextMeetings ==
  ASSUME PlacedInv, MeetingsInv, [Next]_vars, ~MayOrphan
  PROVE  MeetingsInv'
<1>1. CASE UNCHANGED <<zoom, call>>
  BY <1>1 DEF MeetingsInv, Kept
<1>2. ASSUME NEW b \in Bookings, PlanStep(b) PROVE MeetingsInv'
  <2>1. UNCHANGED zoom /\ call[b].at \in {"idle"} \cup Planning
    BY <1>2 DEF PlanStep, ResolveStudents, RefusePlan, AssertEligible, Check,
                Confirm, RefuseConfirm, Planning, written
  <2>2. PICK k : Turn(b, k)
    BY <1>2 DEF PlanStep, ResolveStudents, RefusePlan, AssertEligible, Check,
                Confirm, RefuseConfirm, Stand, Stop
  <2> QED
    BY <2>1, <2>2, KeptPlan
<1>3. ASSUME NEW b \in Bookings, MeetingFails(b) \/ WriteClashes(b) \/ Throw(b)
      PROVE  MeetingsInv'
  BY <1>3, KeptFail DEF MeetingFails, WriteClashes, Throw, written, Writing
<1>4. ASSUME NEW b \in Bookings, Step(b) PROVE MeetingsInv'
  BY <1>2, <1>3, <1>4, CreateKept, DiscardKept, WriteKept, CrashKept
     DEF Step, PlanStep, WriteStep
<1> QED
  BY <1>1, <1>4 DEF Next, Rest, Join, Withdraw, vars, written

(* With a provider that deletes what it is asked to delete, a booking that *)
(* was refused, before, between or after its inserts, has no meeting left. *)
THEOREM RefusedTakesMeetingsBack ==
  ASSUME ~MayOrphan
  PROVE  Spec => []RefusedKeepsNoMeeting
<1>1. MeetingsInv => RefusedKeepsNoMeeting
  BY DEF MeetingsInv, Kept, RefusedKeepsNoMeeting
<1>2. PlacedInv /\ MeetingsInv /\ [Next]_vars => MeetingsInv'
  BY NextMeetings
<1> QED
  BY <1>1, <1>2, InitPlaced, NextPlaced, InitMeetings, PTL DEF Spec

-----------------------------------------------------------------------------
(* What a booking has got done.  Each stage goes through the positions of  *)
(* the plan in turn: those of a stage a booking is in, up to the one at    *)
(* hand, are done, and all of those of a stage it has passed.              *)

Through(b, k, at, later) ==
  {j \in Planned(b) : (k.at = at /\ j < k.i) \/ k.at \in later}

Checked(b, k) == Through(b, k, "check", {"confirm", "meet"} \cup Writing)
Met(b, k) == Through(b, k, "meet", Writing \cup {"done"})
Attached(b, k) ==
  Through(b, k, "attach", {"record", "publish", "notice", "sweep", "done"})
Recorded(b, k) == Through(b, k, "record", {"publish", "notice", "sweep", "done"})
Published(b, k) == Through(b, k, "publish", {"notice", "sweep", "done"})
Noticed(b, k) == Through(b, k, "notice", {"sweep", "done"})

(* What a stage that is done has left behind.                              *)
SeriesKept(b, k, s) == Len(Slots[b]) > 1 =>
  /\ k.at \in Writing \ {"series"} => s # "none"
  /\ k.at = "record" /\ k.i > 1 => s = "recorded"
  /\ k.at \in {"publish", "notice", "sweep", "done"} => s = "recorded"
MeetingsKept(b, k, z) == b \in Meeting => \A j \in Met(b, k) : <<b, j>> \in z
RostersKept(b, k, r) ==
  \A j \in Attached(b, k) :
    r[<<b, j>>] # None /\ r[<<b, j>>].taught /\ r[<<b, j>>].roster = k.students
CopiesKept(b, k, c) == \A j \in Published(b, k) : c[<<b, j>>] = k.students
FollowKept(b, k, f) ==
  /\ \A j \in Recorded(b, k) : "event" \in f[<<b, j>>]
  /\ \A j \in Noticed(b, k) : {"confirmation", "reminder"} \subseteq f[<<b, j>>]

(* A row is what its plan says, and seats nobody that was not checked.     *)
Faithful(b, j, k, r) ==
  r # None => /\ r.slot = Slots[b][j]
              /\ b \in Meeting => r.link = <<b, j>>
              /\ r.roster \subseteq k.students
RowsFaithful(b, k, r) ==
  \A j \in Planned(b) :
    /\ k.at \in {"idle", "meet", "series"} \cup Planning => r[<<b, j>>] = None
    /\ Faithful(b, j, k, r[<<b, j>>])

Whole(b, k, z, s, r, f, c) ==
  /\ SeriesKept(b, k, s) /\ MeetingsKept(b, k, z) /\ RostersKept(b, k, r)
  /\ CopiesKept(b, k, c) /\ FollowKept(b, k, f) /\ RowsFaithful(b, k, r)
WholeInv ==
  \A b \in Bookings : Whole(b, call[b], zoom, series[b], row, follow, shared)

(* The slot of a position meets, in a booking that had ended before, one   *)
(* of the students of the plan.                                            *)
Crossed(b, j, k, r) ==
  \E o \in Occ : /\ o[1] \in k.earlier
                 /\ r[o] # None /\ r[o].status \in BLOCKING_STATUSES
                 /\ Overlap(r[o].slot, Slots[b][j])
                 /\ r[o].roster \cap k.students # {}

Warned(b, k, r) ==
  /\ \A j \in Checked(b, k) : Crossed(b, j, k, r) => j \in k.soft
  /\ k.at \in {"meet"} \cup Writing =>
       ~SelfOverlaps(b) /\ (k.soft # {} => b \in Override)
  /\ \A j \in Planned(b) : r[<<b, j>>] # None =>
       /\ ~SelfOverlaps(b)
       /\ Crossed(b, j, k, r) => r[<<b, j>>].overridden
WarnedInv ==
  \A b \in Bookings : /\ \A d \in call[b].earlier : call[d].at \in Ended
                      /\ Warned(b, call[b], row)

-----------------------------------------------------------------------------
(* What one booking's step leaves of the others.                           *)

(* Two states of a row that only a cancelled request tells apart.          *)
Alike(r, q) ==
  /\ r = None <=> q = None
  /\ r # None => /\ q.slot = r.slot /\ q.link = r.link /\ q.taught = r.taught
                 /\ q.roster = r.roster /\ q.overridden = r.overridden
                 /\ q.status \in BLOCKING_STATUSES <=>
                      r.status \in BLOCKING_STATUSES
AllAlike == \A o \in Occ : Alike(row[o], row'[o])
Aside(b) ==
  /\ \A d \in Bookings \ {b} : call'[d] = call[d] /\ series'[d] = series[d]
  /\ \A o \in Occ : o[1] # b =>
       /\ o \in zoom => o \in zoom'
       /\ Alike(row[o], row'[o])
       /\ follow'[o] = follow[o] /\ shared'[o] = shared[o]

(* A row that is left alone is alike.                                      *)
LEMMA SameAlike == ASSUME NEW o, row'[o] = row[o] PROVE Alike(row[o], row'[o])
BY DEF Alike

(* The sweep leaves every row alike: a request holds no slot, nor does a   *)
(* cancelled session.                                                      *)
LEMMA SweepAlike ==
  ASSUME PlacedInv, NEW b \in Bookings, SweepCredits(b)
  PROVE  AllAlike
<1>1. PICK short \in SUBSET Sweepable :
        row' = [o \in Occ |-> IF o \in short
                              THEN [row[o] EXCEPT !.status = "CANCELLED"]
                              ELSE row[o]]
  BY DEF SweepCredits
<1>2. row \in [Occ -> Row \cup {None}]
  BY DEF PlacedInv, TypeOK
<1>3. ASSUME NEW o \in Occ PROVE Alike(row[o], row'[o])
  <2>1. CASE o \in short
    <3>1. row[o] \in Row /\ row[o] # None /\ row[o].status = "REQUESTED"
      BY <1>2, <2>1 DEF Sweepable
    <3>2. row'[o] = [row[o] EXCEPT !.status = "CANCELLED"]
      BY <1>1, <2>1
    <3>3. row'[o] \in Row /\ row'[o].status = "CANCELLED"
          /\ row'[o].slot = row[o].slot /\ row'[o].link = row[o].link
          /\ row'[o].taught = row[o].taught /\ row'[o].roster = row[o].roster
          /\ row'[o].overridden = row[o].overridden
      BY <3>1, <3>2 DEF Row
    <3>4. row'[o] # None
      BY <3>3, RowAssumption
    <3> QED
      BY <3>1, <3>3, <3>4 DEF Alike, BLOCKING_STATUSES
  <2>2. CASE o \notin short
    BY <1>1, <2>2, SameAlike
  <2> QED
    BY <2>1, <2>2
<1> QED
  BY <1>3 DEF AllAlike

(* Every step of a booking turns that booking alone.                       *)
LEMMA Turns ==
  ASSUME PlacedInv, NEW b \in Bookings, Step(b)
  PROVE  \/ RecordSeries(b) /\ UNCHANGED call
         \/ \E n : Turn(b, n)
BY DEF Step, ResolveStudents, RefusePlan, AssertEligible, Check, Confirm,
       RefuseConfirm, CreateMeeting, MeetingFails, Discard, WriteSeries,
       WriteOccurrence, WriteClashes, AttachInstructor, AttachStudent,
       RecordSeries, RecordOccurrence, Publish, CaptureBooking, SweepCredits,
       Throw, Crash, Stand, Stop, Fail

(* A booking's step leaves the others' rows, meetings and events alone,    *)
(* but for the requests its sweep cancels.                                 *)
LEMMA StepAside ==
  ASSUME PlacedInv, NEW b \in Bookings, Step(b)
  PROVE  Aside(b)
<1>0. /\ call \in [Bookings -> CallState] /\ row \in [Occ -> Row \cup {None}]
      /\ series \in [Bookings -> {"none", "written", "recorded"}]
      /\ follow \in [Occ -> SUBSET {"event", "confirmation", "reminder"}]
      /\ shared \in [Occ -> (SUBSET Student) \cup {None}]
      /\ Here(b)[1] = b
  BY DEF PlacedInv, TypeOK, Here
<1>1. \A d \in Bookings \ {b} : call'[d] = call[d]
  BY <1>0, Turns DEF Turn
<1>2. \A d \in Bookings \ {b} : series'[d] = series[d]
  <2>1. UNCHANGED series \/ \E x : series' = [series EXCEPT ![b] = x]
    BY DEF Step, ResolveStudents, RefusePlan, AssertEligible, Check, Confirm,
       RefuseConfirm, CreateMeeting, MeetingFails, Discard, WriteSeries,
       WriteOccurrence, WriteClashes, AttachInstructor, AttachStudent,
       RecordSeries, RecordOccurrence, Publish, CaptureBooking, SweepCredits,
       Throw, Crash, written
  <2> QED
    BY <1>0, <2>1
<1>3. \A o \in Occ : o[1] # b => follow'[o] = follow[o]
  <2>1. UNCHANGED follow \/ \E x : follow' = [follow EXCEPT ![Here(b)] = x]
    BY DEF Step, ResolveStudents, RefusePlan, AssertEligible, Check, Confirm,
       RefuseConfirm, CreateMeeting, MeetingFails, Discard, WriteSeries,
       WriteOccurrence, WriteClashes, AttachInstructor, AttachStudent,
       RecordSeries, RecordOccurrence, Publish, CaptureBooking, SweepCredits,
       Throw, Crash, written
  <2> QED
    BY <1>0, <2>1
<1>4. \A o \in Occ : o[1] # b => shared'[o] = shared[o]
  <2>1. UNCHANGED shared \/ \E x : shared' = [shared EXCEPT ![Here(b)] = x]
    BY DEF Step, ResolveStudents, RefusePlan, AssertEligible, Check, Confirm,
       RefuseConfirm, CreateMeeting, MeetingFails, Discard, WriteSeries,
       WriteOccurrence, WriteClashes, AttachInstructor, AttachStudent,
       RecordSeries, RecordOccurrence, Publish, CaptureBooking, SweepCredits,
       Throw, Crash, written
  <2> QED
    BY <1>0, <2>1
<1>5. \A o \in Occ : o[1] # b /\ o \in zoom => o \in zoom'
  <2>1. UNCHANGED zoom \/ zoom' = zoom \cup {Here(b)}
        \/ zoom' = zoom \ {Here(b)}
    BY DEF Step, ResolveStudents, RefusePlan, AssertEligible, Check, Confirm,
       RefuseConfirm, CreateMeeting, MeetingFails, Discard, WriteSeries,
       WriteOccurrence, WriteClashes, AttachInstructor, AttachStudent,
       RecordSeries, RecordOccurrence, Publish, CaptureBooking, SweepCredits,
       Throw, Crash, written
  <2> QED
    BY <1>0, <2>1
<1>6. \A o \in Occ : o[1] # b => Alike(row[o], row'[o])
  <2>1. CASE SweepCredits(b)
    BY <2>1, SweepAlike DEF AllAlike
  <2>2. CASE ~SweepCredits(b)
    <3>1. UNCHANGED row \/ \E x : row' = [row EXCEPT ![Here(b)] = x]
      BY <2>2 DEF Step, ResolveStudents, RefusePlan, AssertEligible, Check,
         Confirm, RefuseConfirm, CreateMeeting, MeetingFails, Discard,
         WriteSeries, WriteOccurrence, WriteClashes, AttachInstructor,
         AttachStudent, RecordSeries, RecordOccurrence, Publish,
         CaptureBooking, Throw, Crash, written
    <3>2. \A o \in Occ : o[1] # b => row'[o] = row[o]
      BY <1>0, <3>1
    <3> QED
      BY <3>2, SameAlike
  <2> QED
    BY <2>1, <2>2
<1> QED
  BY <1>1, <1>2, <1>3, <1>4, <1>5, <1>6 DEF Aside

(* What is whole of a booking stays whole while another one goes on.       *)
LEMMA WholeAside ==
  ASSUME PlacedInv, NEW b \in Bookings, NEW d \in Bookings \ {b}, Aside(b),
         Whole(d, call[d], zoom, series[d], row, follow, shared)
  PROVE  Whole(d, call'[d], zoom', series'[d], row', follow', shared')
<1> DEFINE k == call[d]
<1>1. call'[d] = k /\ series'[d] = series[d]
  BY DEF Aside
<1>2. ASSUME NEW j \in Planned(d)
      PROVE  /\ <<d, j>> \in zoom => <<d, j>> \in zoom'
             /\ Alike(row[<<d, j>>], row'[<<d, j>>])
             /\ follow'[<<d, j>>] = follow[<<d, j>>]
             /\ shared'[<<d, j>>] = shared[<<d, j>>]
  <2>1. <<d, j>> \in Occ /\ <<d, j>>[1] # b
    BY Occurrences
  <2> QED
    BY <2>1 DEF Aside
<1> HIDE DEF k
<1>3. MeetingsKept(d, k, zoom')
  BY <1>2 DEF k, Whole, MeetingsKept, Met, Through
<1>4. CopiesKept(d, k, shared')
  BY <1>2 DEF k, Whole, CopiesKept, Published, Through
<1>5. FollowKept(d, k, follow')
  BY <1>2 DEF k, Whole, FollowKept, Recorded, Noticed, Through
<1>6. RostersKept(d, k, row')
  <2>1. \A j \in Attached(d, k) : j \in Planned(d)
    BY DEF Attached, Through
  <2> QED
    BY <1>2, <2>1 DEF k, Whole, RostersKept, Alike
<1>7. RowsFaithful(d, k, row')
  BY <1>2 DEF k, Whole, RowsFaithful, Faithful, Alike
<1> QED
  BY <1>1, <1>3, <1>4, <1>5, <1>6, <1>7 DEF k, Whole

(* So it is enough that the booking that goes on stays whole.              *)
LEMMA WholeMove ==
  ASSUME PlacedInv, WholeInv, NEW b \in Bookings, Step(b),
         Whole(b, call'[b], zoom', series'[b], row', follow', shared')
  PROVE  WholeInv'
<1>1. ASSUME NEW d \in Bookings
      PROVE  Whole(d, call'[d], zoom', series'[d], row', follow', shared')
  <2>1. Whole(d, call[d], zoom, series[d], row, follow, shared)
    BY DEF WholeInv
  <2> QED
    BY <2>1, StepAside, WholeAside
<1> QED
  BY <1>1 DEF WholeInv

-----------------------------------------------------------------------------
(* The booking that goes on.                                               *)

(* A booking that fails or stops has nothing to show for any stage, and    *)
(* leaves the rows it wrote as they are.                                   *)
Falls(b) ==
  \/ RefusePlan(b) \/ RefuseConfirm(b) \/ MeetingFails(b) \/ Discard(b)
  \/ WriteClashes(b) \/ Throw(b) \/ Crash(b)
Fallen == {"discard", "failed", "dead"}

LEMMA FallsTo ==
  ASSUME PlacedInv, NEW b \in Bookings, Falls(b)
  PROVE  /\ call'[b].at \in Fallen
         /\ call'[b].students = call[b].students
         /\ call'[b].earlier = call[b].earlier
         /\ UNCHANGED <<people, series, row, follow, shared>>
<1>1. UNCHANGED <<people, series, row, follow, shared>>
  BY DEF Falls, RefusePlan, RefuseConfirm, MeetingFails, Discard, WriteClashes,
         Throw, Crash, written
<1>2. call \in [Bookings -> CallState] /\ call[b] \in CallState
  BY DEF PlacedInv, TypeOK
<1>3. ASSUME NEW at \in {"failed", "dead"}, Stop(b, at)
      PROVE  /\ call'[b].at \in Fallen
             /\ call'[b].students = call[b].students
             /\ call'[b].earlier = call[b].earlier
  BY <1>2, <1>3 DEF Stop, Turn, Blank, Fallen
<1>4. ASSUME Stand(b, "discard")
      PROVE  /\ call'[b].at \in Fallen
             /\ call'[b].students = call[b].students
             /\ call'[b].earlier = call[b].earlier
  BY <1>2, <1>4 DEF Stand, Turn, CallState, Fallen
<1>5. ASSUME Discard(b), Turn(b, [call[b] EXCEPT !.i = @ + 1])
      PROVE  /\ call'[b].at \in Fallen
             /\ call'[b].students = call[b].students
             /\ call'[b].earlier = call[b].earlier
  BY <1>2, <1>5 DEF Discard, Turn, CallState, Fallen
<1>6. \/ Stop(b, "failed") \/ Stop(b, "dead") \/ Stand(b, "discard")
      \/ Discard(b) /\ Turn(b, [call[b] EXCEPT !.i = @ + 1])
  BY DEF Falls, RefusePlan, RefuseConfirm, MeetingFails, Discard, WriteClashes,
         Throw, Crash, Fail
<1> QED
  BY <1>1, <1>3, <1>4, <1>5, <1>6

LEMMA FallsWhole ==
  ASSUME PlacedInv, WholeInv, NEW b \in Bookings, Falls(b)
  PROVE  Whole(b, call'[b], zoom', series'[b], row', follow', shared')
<1>1. /\ call'[b].at \in Fallen /\ call'[b].students = call[b].students
      /\ UNCHANGED <<series, row, follow, shared>>
  BY FallsTo
<1>2. Whole(b, call[b], zoom, series[b], row, follow, shared)
  BY DEF WholeInv
<1>3. /\ Met(b, call'[b]) = {} /\ Attached(b, call'[b]) = {}
      /\ Recorded(b, call'[b]) = {} /\ Published(b, call'[b]) = {}
      /\ Noticed(b, call'[b]) = {}
  BY <1>1 DEF Fallen, Met, Attached, Recorded, Published, Noticed, Through,
              Writing
<1>4. SeriesKept(b, call'[b], series'[b])
  BY <1>1 DEF SeriesKept, Fallen, Writing
<1>5. RowsFaithful(b, call'[b], row')
  BY <1>1, <1>2 DEF Whole, RowsFaithful, Faithful, Fallen, Planning
<1> QED
  BY <1>3, <1>4, <1>5 DEF Whole, MeetingsKept, RostersKept, CopiesKept,
                          FollowKept

(* Where Each leaves a booking: at the next position of the stage, or at   *)
(* the first of the next stage once the last position is done.             *)
Onward(b, k, n, next) ==
  /\ n.students = k.students /\ n.earlier = k.earlier /\ n.soft = k.soft
  /\ \/ n.at = k.at /\ n.i = k.i + 1
     \/ n.at = next /\ n.i = 1 /\ k.i = Len(Slots[b])

LEMMA EachOnward ==
  ASSUME PlacedInv, NEW b \in Bookings, NEW k \in CallState, NEW next,
         k.i \in Planned(b)
  PROVE  /\ Onward(b, k, Each(b, k, next), next)
         /\ Turn(b, Each(b, k, next)) => call'[b] = Each(b, k, next)
<1>1. Turn(b, Each(b, k, next)) => call'[b] = Each(b, k, next)
  BY DEF PlacedInv, TypeOK, Turn
<1>2. k.i \in 1 .. Len(Slots[b]) /\ Len(Slots[b]) \in Nat
  BY Positions
<1>3. ~(k.i < Len(Slots[b])) => k.i = Len(Slots[b])
  BY <1>2
<1>4. Onward(b, k, Each(b, k, next), next)
  BY <1>3 DEF Onward, Each, CallState
<1> QED
  BY <1>1, <1>4

(* Going on from a stage adds at most the position at hand to what is done.*)
LEMMA OnwardThrough ==
  ASSUME NEW b \in Bookings, NEW k, NEW n, NEW next, Onward(b, k, n, next),
         k.i \in Planned(b), NEW at, NEW later,
         next \in later => k.at \in later \cup {at}
  PROVE  \A j \in Through(b, n, at, later) :
            j \in Through(b, k, at, later) \/ (k.at = at /\ j = k.i)
<1> SUFFICES ASSUME NEW j \in Planned(b),
                    (n.at = at /\ j < n.i) \/ n.at \in later
             PROVE  j \in Through(b, k, at, later) \/ (k.at = at /\ j = k.i)
  BY DEF Through
<1>0. j \in Nat /\ k.i \in Nat /\ j >= 1 /\ j <= Len(Slots[b])
  BY Positions
<1>1. CASE n.at = k.at /\ n.i = k.i + 1
  BY <1>0, <1>1 DEF Through
<1>2. CASE n.at = next /\ n.i = 1 /\ k.i = Len(Slots[b])
  <2>1. n.at \in later
    BY <1>0, <1>2
  <2>2. k.at \in later \cup {at}
    BY <1>2, <2>1
  <2>3. k.at = at => j < k.i \/ j = k.i
    BY <1>0, <1>2
  <2> QED
    BY <2>2, <2>3 DEF Through
<1> QED
  BY <1>1, <1>2 DEF Onward

(* What a stage that is passed has done is every position.                 *)
LEMMA PassedAll ==
  ASSUME NEW b, NEW k
  PROVE  /\ k.at \in Writing \cup {"done"} => Met(b, k) = Planned(b)
         /\ k.at \in {"confirm", "meet"} \cup Writing =>
              Checked(b, k) = Planned(b)
         /\ k.at \in {"record", "publish", "notice", "sweep", "done"} =>
              Attached(b, k) = Planned(b)
         /\ k.at \in {"publish", "notice", "sweep", "done"} =>
              Recorded(b, k) = Planned(b)
         /\ k.at \in {"notice", "sweep", "done"} => Published(b, k) = Planned(b)
         /\ k.at \in {"sweep", "done"} => Noticed(b, k) = Planned(b)
BY DEF Met, Checked, Attached, Recorded, Published, Noticed, Through

(* At the first position of a stage none of it is done.                    *)
LEMMA NothingYet ==
  ASSUME NEW b \in Bookings, NEW k, NEW at, NEW later,
         k.at = at => k.i = 1, k.at \notin later
  PROVE  Through(b, k, at, later) = {}
<1>1. \A j \in Planned(b) : ~(j < 1)
  BY Positions
<1> QED
  BY <1>1 DEF Through

(* A plan that is being made has written nothing to be whole.              *)
LEMMA PlanWhole ==
  ASSUME PlacedInv, WholeInv, NEW b \in Bookings,
         ResolveStudents(b) \/ AssertEligible(b) \/ Check(b) \/ Confirm(b)
  PROVE  Whole(b, call'[b], zoom', series'[b], row', follow', shared')
<1> DEFINE k == call[b]
           n == call'[b]
<1>0. /\ call \in [Bookings -> CallState] /\ k \in CallState
      /\ Whole(b, k, zoom, series[b], row, follow, shared)
  BY DEF PlacedInv, TypeOK, WholeInv
<1>1. UNCHANGED written
  BY DEF ResolveStudents, AssertEligible, Check, Confirm
<1>2. \A j \in Planned(b) : row'[<<b, j>>] = None
  <2>1. k.at \in {"idle"} \cup Planning
    BY DEF ResolveStudents, AssertEligible, Check, Confirm, Planning
  <2> QED
    BY <1>0, <1>1, <2>1 DEF Whole, RowsFaithful, written
<1>3. /\ n.at \in Planning \cup {"meet", "series", "write"}
      /\ n.at \in {"series", "write"} => b \notin Meeting
      /\ n.at = "write" => ~(Len(Slots[b]) > 1)
      /\ n.at = "meet" => n.i = 1
  <2>1. CASE ResolveStudents(b)
    <3>1. n.at = "eligible"
      BY <1>0, <2>1 DEF ResolveStudents, Turn, Blank
    <3> QED
      BY <3>1 DEF Planning
  <2>2. CASE AssertEligible(b)
    <3>1. n.at = "check"
      BY <1>0, <2>2 DEF AssertEligible, Stand, Turn, CallState
    <3> QED
      BY <3>1 DEF Planning
  <2>3. CASE Check(b)
    <3>1. PICK j \in CallState :
            j.at = "check" /\ Turn(b, Each(b, j, "confirm"))
      <4> DEFINE j == [k EXCEPT
            !.blocked = @ \/ AbsoluteClash(b, Slots[b][k.i]),
            !.soft = @ \cup {i \in {k.i} :
                               \/ StudentClash(k.students, Slots[b][k.i])
                               \/ i \in Outside[b]}]
      <4>1. k.i \in Nat
        BY Standing
      <4>2. j \in CallState /\ j.at = "check"
        BY <1>0, <2>3, <4>1 DEF CallState, Check
      <4>3. Turn(b, Each(b, j, "confirm"))
        BY <2>3 DEF Check
      <4> HIDE DEF j
      <4> QED
        BY <4>2, <4>3
    <3>2. n = Each(b, j, "confirm")
      BY <1>0, <3>1 DEF Turn
    <3>3. n.at \in {"check", "confirm"}
      BY <3>1, <3>2, EachFields
    <3> QED
      BY <3>3 DEF Planning
  <2>4. CASE Confirm(b)
    <3>1. /\ n.at = IF b \in Meeting THEN "meet" ELSE AfterMeetings(b)
          /\ n.i = 1
      BY <1>0, <2>4 DEF Confirm, Stand, Turn, CallState
    <3> QED
      BY <3>1 DEF AfterMeetings
  <2> QED
    BY <2>1, <2>2, <2>3, <2>4
<1> HIDE DEF k, n
<1>4. /\ b \in Meeting => Met(b, n) = {}
      /\ Attached(b, n) = {}
      /\ Recorded(b, n) = {} /\ Published(b, n) = {} /\ Noticed(b, n) = {}
  <2>1. \A j \in Planned(b) : ~(j < 1)
    BY Positions
  <2> QED
    BY <1>3, <2>1 DEF Met, Attached, Recorded, Published, Noticed, Through,
                      Planning, Writing
<1>5. SeriesKept(b, n, series'[b])
  BY <1>3 DEF SeriesKept, Planning, Writing
<1>6. RowsFaithful(b, n, row')
  BY <1>2 DEF RowsFaithful, Faithful
<1> QED
  BY <1>4, <1>5, <1>6 DEF n, Whole, MeetingsKept, RostersKept, CopiesKept,
                          FollowKept

(* What a booking's own step may rely on.                                  *)
LEMMA Own ==
  ASSUME PlacedInv, WholeInv, NEW b \in Bookings
  PROVE  /\ call \in [Bookings -> CallState] /\ call[b] \in CallState
         /\ Whole(b, call[b], zoom, series[b], row, follow, shared)
         /\ Placed(b, call[b], row)
         /\ call[b].at \in Running => Here(b) \in Occ /\ call[b].i \in Planned(b)
         /\ call[b].at \in Writing \ {"series", "write"} => row[Here(b)] \in Row
         /\ row \in [Occ -> Row \cup {None}]
<1>1. /\ call \in [Bookings -> CallState] /\ call[b] \in CallState
      /\ Whole(b, call[b], zoom, series[b], row, follow, shared)
      /\ Placed(b, call[b], row) /\ row \in [Occ -> Row \cup {None}]
  BY DEF PlacedInv, TypeOK, WholeInv
<1>2. call[b].at \in Running => Here(b) \in Occ /\ call[b].i \in Planned(b)
  BY <1>1, Occurrences DEF Placed, Here
<1>3. call[b].at \in Writing \ {"series", "write"} => row[Here(b)] \in Row
  BY <1>1, <1>2 DEF Placed, Running, Here, Written
<1> QED
  BY <1>1, <1>2, <1>3

(* A meeting is made before there is anything else.                        *)
LEMMA CreateWhole ==
  ASSUME PlacedInv, WholeInv, NEW b \in Bookings, CreateMeeting(b)
  PROVE  Whole(b, call'[b], zoom', series'[b], row', follow', shared')
<1> DEFINE k == call[b]
           j == [call[b] EXCEPT !.made = @ + 1]
           n == call'[b]
<1>0. /\ k \in CallState /\ k.at = "meet" /\ k.i \in Planned(b)
      /\ Whole(b, k, zoom, series[b], row, follow, shared)
  BY Own DEF CreateMeeting, Running
<1>1. /\ UNCHANGED <<series, row, follow, shared>>
      /\ zoom' = zoom \cup {<<b, k.i>>}
  BY DEF CreateMeeting, Here
<1>2. j \in CallState /\ j.at = "meet" /\ j.i = k.i /\ j.students = k.students
  BY <1>0, Standing DEF CallState
<1>3. Onward(b, j, n, AfterMeetings(b))
  <2>1. Turn(b, Each(b, j, AfterMeetings(b)))
    BY DEF CreateMeeting
  <2> HIDE DEF j
  <2> QED
    BY <1>0, <1>2, <2>1, EachOnward
<1> HIDE DEF k, j, n
<1>4. \A p \in Met(b, n) : p \in Met(b, k) \/ p = k.i
  <2>1. \A p \in Met(b, n) : p \in Met(b, j) \/ p = j.i
    <3>1. AfterMeetings(b) \in Writing \cup {"done"}
             => j.at \in (Writing \cup {"done"}) \cup {"meet"}
      BY <1>2
    <3> QED
      BY <1>0, <1>2, <1>3, <3>1, OnwardThrough DEF Met
  <2> QED
    BY <1>0, <1>2, <2>1 DEF Met, Through
<1>5. MeetingsKept(b, n, zoom')
  BY <1>0, <1>1, <1>4 DEF Whole, MeetingsKept
<1>6. n.at \in {"meet", AfterMeetings(b)}
  BY <1>2, <1>3 DEF Onward
<1>7. /\ Attached(b, n) = {} /\ Recorded(b, n) = {} /\ Published(b, n) = {}
      /\ Noticed(b, n) = {}
  BY <1>6 DEF AfterMeetings, Attached, Recorded, Published, Noticed, Through
<1>8. SeriesKept(b, n, series'[b])
  BY <1>6 DEF SeriesKept, AfterMeetings, Writing
<1>9. RowsFaithful(b, n, row')
  <2>1. \A p \in Planned(b) : row'[<<b, p>>] = None
    BY <1>0, <1>1 DEF Whole, RowsFaithful
  <2> QED
    BY <2>1 DEF RowsFaithful, Faithful
<1> QED
  BY <1>5, <1>7, <1>8, <1>9 DEF n, Whole, RostersKept, CopiesKept, FollowKept

(* The series comes before the occurrences.                                *)
LEMMA SeriesWhole ==
  ASSUME PlacedInv, WholeInv, NEW b \in Bookings, WriteSeries(b)
  PROVE  Whole(b, call'[b], zoom', series'[b], row', follow', shared')
<1> DEFINE k == call[b]
           n == call'[b]
<1>0. /\ k \in CallState /\ k.at = "series"
      /\ Whole(b, k, zoom, series[b], row, follow, shared)
  BY Own DEF WriteSeries
<1>1. /\ UNCHANGED <<zoom, row, follow, shared>> /\ series'[b] = "written"
  BY DEF WriteSeries, PlacedInv, TypeOK
<1>2. n.at = "write" /\ n.students = k.students
  BY <1>0, Own DEF WriteSeries, Stand, Turn, CallState
<1> HIDE DEF k, n
<1>3. /\ Attached(b, n) = {} /\ Recorded(b, n) = {} /\ Published(b, n) = {}
      /\ Noticed(b, n) = {}
  BY <1>2 DEF Attached, Recorded, Published, Noticed, Through
<1>4. MeetingsKept(b, n, zoom')
  BY <1>0, <1>1, <1>2 DEF Whole, MeetingsKept, Met, Through, Writing
<1>5. SeriesKept(b, n, series'[b])
  BY <1>1, <1>2 DEF SeriesKept
<1>6. RowsFaithful(b, n, row')
  BY <1>0, <1>1 DEF Whole, RowsFaithful, Faithful
<1> QED
  BY <1>3, <1>4, <1>5, <1>6
     DEF n, Whole, RostersKept, CopiesKept, FollowKept

(* A row is written as the plan says, with nobody in it yet.               *)
LEMMA WriteWhole ==
  ASSUME PlacedInv, WholeInv, NEW b \in Bookings, WriteOccurrence(b)
  PROVE  Whole(b, call'[b], zoom', series'[b], row', follow', shared')
<1> DEFINE k == call[b]
           n == call'[b]
<1>0. /\ k \in CallState /\ k.at = "write" /\ k.i \in Planned(b)
      /\ Whole(b, k, zoom, series[b], row, follow, shared)
      /\ row \in [Occ -> Row \cup {None}] /\ <<b, k.i>> \in Occ
  BY Own DEF WriteOccurrence, Running, Writing, Here
<1>1. /\ UNCHANGED <<zoom, series, follow, shared>>
      /\ row' = [row EXCEPT ![<<b, k.i>>] = NewRow(b)]
  BY DEF WriteOccurrence, Here
<1>2. Onward(b, k, n, "attach")
  <2>1. Turn(b, Each(b, k, "attach"))
    BY DEF WriteOccurrence
  <2> QED
    BY <1>0, <2>1, EachOnward
<1>3. /\ NewRow(b).slot = Slots[b][k.i] /\ NewRow(b).roster = {}
      /\ b \in Meeting => NewRow(b).link = <<b, k.i>>
  BY DEF NewRow, Here
<1> HIDE DEF k, n
<1>4. /\ n.at \in {"write", "attach"} /\ n.students = k.students
      /\ n.at = "attach" => n.i = 1
  BY <1>0, <1>2 DEF Onward
<1>5. /\ Attached(b, n) = {} /\ Recorded(b, n) = {} /\ Published(b, n) = {}
      /\ Noticed(b, n) = {}
  <2>1. \A j \in Planned(b) : ~(j < 1)
    BY Positions
  <2> QED
    BY <1>4, <2>1 DEF Attached, Recorded, Published, Noticed, Through
<1>6. MeetingsKept(b, n, zoom')
  BY <1>0, <1>1, <1>4 DEF Whole, MeetingsKept, Met, Through, Writing
<1>7. SeriesKept(b, n, series'[b])
  BY <1>0, <1>1, <1>4 DEF Whole, SeriesKept, Writing
<1>8. RowsFaithful(b, n, row')
  <2>1. ASSUME NEW j \in Planned(b) PROVE Faithful(b, j, n, row'[<<b, j>>])
    <3>0. <<b, j>> \in Occ
      BY Occurrences
    <3>1. CASE j = k.i
      <4>1. row'[<<b, j>>] = NewRow(b)
        BY <1>0, <1>1, <3>1
      <4> QED
        BY <1>3, <3>1, <4>1 DEF Faithful
    <3>2. CASE j # k.i
      <4>1. row'[<<b, j>>] = row[<<b, j>>]
        BY <1>0, <1>1, <3>0, <3>2
      <4> QED
        BY <1>0, <1>4, <4>1 DEF Whole, RowsFaithful, Faithful
    <3> QED
      BY <3>1, <3>2
  <2> QED
    BY <1>4, <2>1 DEF RowsFaithful, Planning
<1> QED
  BY <1>5, <1>6, <1>7, <1>8
     DEF n, Whole, RostersKept, CopiesKept, FollowKept

(* A seat is taken in the row at hand, by somebody of the plan; when the   *)
(* booking goes on, the row is taught and everybody of the plan is in it.  *)
LEMMA AttachSeats ==
  ASSUME PlacedInv, WholeInv, NEW b \in Bookings,
         AttachInstructor(b) \/ AttachStudent(b)
  PROVE  \E r \in Row :
           /\ row' = [row EXCEPT ![Here(b)] = r]
           /\ r.slot = row[Here(b)].slot /\ r.link = row[Here(b)].link
           /\ r.roster \subseteq call[b].students
           /\ r.overridden = row[Here(b)].overridden
           /\ r.status = row[Here(b)].status
           /\ \/ Turn(b, call[b])
              \/ /\ Turn(b, Each(b, call[b], "record"))
                 /\ r.taught /\ r.roster = call[b].students
<1>0. /\ call[b].at = "attach" /\ call[b].i \in Planned(b)
      /\ row[Here(b)] \in Row /\ row \in [Occ -> Row \cup {None}]
      /\ Here(b) \in Occ /\ row[Here(b)] # None
  BY Own, RowAssumption DEF AttachInstructor, AttachStudent, Running, Writing
<1>1. row[Here(b)].roster \subseteq call[b].students
  <2>1. Whole(b, call[b], zoom, series[b], row, follow, shared)
    BY Own
  <2> QED
    BY <1>0, <2>1 DEF Whole, RowsFaithful, Faithful, Here
<1>2. CASE AttachInstructor(b)
  <2> DEFINE r == [row[Here(b)] EXCEPT !.taught = TRUE]
  <2>1. /\ r \in Row /\ r.slot = row[Here(b)].slot /\ r.taught
        /\ r.link = row[Here(b)].link /\ r.roster = row[Here(b)].roster
        /\ r.overridden = row[Here(b)].overridden
        /\ r.status = row[Here(b)].status
    BY <1>0 DEF Row
  <2>2. row' = [row EXCEPT ![Here(b)] = r]
    BY <1>2 DEF AttachInstructor
  <2>3. \/ Turn(b, call[b])
        \/ Turn(b, Each(b, call[b], "record")) /\ call[b].students = {}
    BY <1>2 DEF AttachInstructor
  <2> HIDE DEF r
  <2>4. call[b].students = {} => r.roster = call[b].students
    BY <1>1, <2>1
  <2>5. r.roster \subseteq call[b].students
    BY <1>1, <2>1
  <2> QED
    BY <2>1, <2>2, <2>3, <2>4, <2>5
<1>3. CASE AttachStudent(b)
  <2>1. PICK s \in call[b].students \ row[Here(b)].roster :
          /\ row' = [row EXCEPT ![Here(b)].roster = @ \cup {s}]
          /\ Turn(b, IF call[b].students \ row[Here(b)].roster = {s}
                     THEN Each(b, call[b], "record") ELSE call[b])
    BY <1>3 DEF AttachStudent
  <2> DEFINE r == [row[Here(b)] EXCEPT !.roster = @ \cup {s}]
  <2>2. s \in Student
    BY Standing
  <2>3. row[Here(b)].roster \cup {s} \in SUBSET Student
    BY <1>0, <2>2 DEF Row
  <2>4. /\ r \in Row /\ r.slot = row[Here(b)].slot
        /\ r.link = row[Here(b)].link /\ r.taught = row[Here(b)].taught
        /\ r.overridden = row[Here(b)].overridden
        /\ r.status = row[Here(b)].status
        /\ r.roster = row[Here(b)].roster \cup {s}
    BY <1>0, <2>3 DEF Row
  <2>5. row' = [row EXCEPT ![Here(b)] = r]
    BY <1>0, <2>1
  <2>6. r.taught
    BY <1>3, <2>4 DEF AttachStudent
  <2> HIDE DEF r
  <2>7. r.roster \subseteq call[b].students
    BY <1>1, <2>1, <2>4
  <2>8. call[b].students \ row[Here(b)].roster = {s}
           => r.roster = call[b].students
    BY <1>1, <2>1, <2>4
  <2> QED
    BY <2>1, <2>4, <2>5, <2>6, <2>7, <2>8
<1> QED
  BY <1>2, <1>3

(* People are seated row by row.                                           *)
LEMMA AttachWhole ==
  ASSUME PlacedInv, WholeInv, NEW b \in Bookings,
         AttachInstructor(b) \/ AttachStudent(b)
  PROVE  Whole(b, call'[b], zoom', series'[b], row', follow', shared')
<1> DEFINE k == call[b]
           n == call'[b]
<1>0. /\ k \in CallState /\ k.at = "attach" /\ k.i \in Planned(b)
      /\ Whole(b, k, zoom, series[b], row, follow, shared)
      /\ row \in [Occ -> Row \cup {None}] /\ <<b, k.i>> \in Occ
      /\ row[<<b, k.i>>] # None
  BY Own, RowAssumption
     DEF AttachInstructor, AttachStudent, Running, Writing, Here
<1>1. UNCHANGED <<zoom, series, follow, shared>>
  BY DEF AttachInstructor, AttachStudent
<1>2. PICK r \in Row :
        /\ row' = [row EXCEPT ![<<b, k.i>>] = r]
        /\ r.slot = row[<<b, k.i>>].slot /\ r.link = row[<<b, k.i>>].link
        /\ r.roster \subseteq k.students
        /\ \/ Turn(b, k)
           \/ Turn(b, Each(b, k, "record")) /\ r.taught /\ r.roster = k.students
  BY AttachSeats DEF Here
<1>3. \/ n = k
      \/ Onward(b, k, n, "record") /\ r.taught /\ r.roster = k.students
  BY <1>0, <1>2, Own, EachOnward DEF Turn
<1> HIDE DEF k, n
<1>4. /\ n.at \in {"attach", "record"} /\ n.students = k.students
      /\ n.at = "record" => n.i = 1
  BY <1>0, <1>3 DEF Onward
<1>5. /\ Recorded(b, n) = {} /\ Published(b, n) = {} /\ Noticed(b, n) = {}
  <2>1. \A j \in Planned(b) : ~(j < 1)
    BY Positions
  <2> QED
    BY <1>4, <2>1 DEF Recorded, Published, Noticed, Through
<1>6. MeetingsKept(b, n, zoom')
  BY <1>0, <1>1, <1>4 DEF Whole, MeetingsKept, Met, Through, Writing
<1>7. SeriesKept(b, n, series'[b])
  BY <1>0, <1>1, <1>4 DEF Whole, SeriesKept, Writing
<1>8. ASSUME NEW j \in Planned(b)
      PROVE  row'[<<b, j>>] = IF j = k.i THEN r ELSE row[<<b, j>>]
  <2>1. <<b, j>> \in Occ
    BY Occurrences
  <2> QED
    BY <1>0, <1>2, <2>1
<1>9. RowsFaithful(b, n, row')
  <2>1. ASSUME NEW j \in Planned(b) PROVE Faithful(b, j, n, row'[<<b, j>>])
    <3>1. Faithful(b, j, k, row[<<b, j>>])
      BY <1>0 DEF Whole, RowsFaithful
    <3> QED
      BY <1>0, <1>2, <1>4, <1>8, <3>1 DEF Faithful
  <2> QED
    BY <1>4, <2>1 DEF RowsFaithful, Planning
<1>10. RostersKept(b, n, row')
  <2>1. CASE n = k
    <3>1. \A j \in Attached(b, k) : j \in Planned(b) /\ j # k.i
      <4>1. k.i \in Nat
        BY <1>0, Positions
      <4> QED
        BY <1>0, <4>1 DEF Attached, Through
    <3> QED
      BY <1>0, <1>8, <2>1, <3>1 DEF Whole, RostersKept
  <2>2. CASE Onward(b, k, n, "record") /\ r.taught /\ r.roster = k.students
    <3>1. \A j \in Attached(b, n) : j \in Attached(b, k) \/ j = k.i
      BY <1>0, <2>2, OnwardThrough DEF Attached
    <3>2. \A j \in Attached(b, n) : j \in Planned(b)
      BY DEF Attached, Through
    <3> QED
      BY <1>0, <1>4, <1>8, <2>2, <3>1, <3>2, RowAssumption
         DEF Whole, RostersKept
  <2> QED
    BY <1>3, <2>1, <2>2
<1> QED
  BY <1>5, <1>6, <1>7, <1>9, <1>10 DEF n, Whole, CopiesKept, FollowKept

(* Once everybody sits, the rows and meetings stay.                        *)
LEMMA Settled ==
  ASSUME PlacedInv, WholeInv, NEW b \in Bookings, NEW n,
         call[b].at \in {"record", "publish", "notice", "sweep"},
         n.at \in {"record", "publish", "notice", "sweep", "done"},
         n.students = call[b].students, zoom' = zoom, AllAlike
  PROVE  /\ MeetingsKept(b, n, zoom')
         /\ RostersKept(b, n, row') /\ RowsFaithful(b, n, row')
<1> DEFINE k == call[b]
<1>0. /\ Whole(b, k, zoom, series[b], row, follow, shared)
      /\ \A j \in Planned(b) : row[<<b, j>>] # None
      /\ \A j \in Planned(b) : Alike(row[<<b, j>>], row'[<<b, j>>])
  BY Own, Occurrences DEF Placed, Written, Writing, AllAlike
<1>1. Met(b, k) = Planned(b) /\ Attached(b, k) = Planned(b)
  BY PassedAll DEF Writing
<1> HIDE DEF k
<1>2. MeetingsKept(b, n, zoom')
  BY <1>0, <1>1 DEF Whole, MeetingsKept, Met, Through
<1>3. RostersKept(b, n, row')
  <2>1. \A j \in Attached(b, n) : j \in Planned(b)
    BY DEF Attached, Through
  <2> QED
    BY <1>0, <1>1, <2>1 DEF k, Whole, RostersKept, Alike
<1>4. RowsFaithful(b, n, row')
  BY <1>0 DEF k, Whole, RowsFaithful, Faithful, Alike, Planning
<1> QED
  BY <1>2, <1>3, <1>4

(* The events: the series' before the occurrences'.                        *)
LEMMA RecordWhole ==
  ASSUME PlacedInv, WholeInv, NEW b \in Bookings,
         RecordSeries(b) \/ RecordOccurrence(b)
  PROVE  Whole(b, call'[b], zoom', series'[b], row', follow', shared')
<1> DEFINE k == call[b]
           n == call'[b]
<1>0. /\ k \in CallState /\ k.at = "record" /\ k.i \in Planned(b)
      /\ Whole(b, k, zoom, series[b], row, follow, shared)
      /\ <<b, k.i>> \in Occ
      /\ follow \in [Occ -> SUBSET {"event", "confirmation", "reminder"}]
  BY Own DEF RecordSeries, RecordOccurrence, Running, Writing, Here, PlacedInv,
             TypeOK
<1>1. UNCHANGED <<zoom, row, shared>> /\ AllAlike
  BY SameAlike DEF RecordSeries, RecordOccurrence, AllAlike
<1>2. CASE RecordSeries(b)
  <2>1. n = k /\ UNCHANGED follow /\ series'[b] = "recorded"
    BY <1>2 DEF RecordSeries, PlacedInv, TypeOK
  <2>2. MeetingsKept(b, n, zoom') /\ RostersKept(b, n, row')
        /\ RowsFaithful(b, n, row')
    BY <1>0, <1>1, <2>1, Settled
  <2> HIDE DEF k, n
  <2>3. SeriesKept(b, n, series'[b])
    BY <2>1 DEF SeriesKept
  <2>4. CopiesKept(b, n, shared') /\ FollowKept(b, n, follow')
    BY <1>0, <1>1, <2>1 DEF Whole, CopiesKept, FollowKept
  <2> QED
    BY <2>2, <2>3, <2>4 DEF n, Whole
<1>3. CASE RecordOccurrence(b)
  <2>1. /\ follow' = [follow EXCEPT ![<<b, k.i>>] = @ \cup {"event"}]
        /\ UNCHANGED series /\ series[b] # "written"
    BY <1>3 DEF RecordOccurrence, Here
  <2>2. Onward(b, k, n, "publish")
    <3>1. Turn(b, Each(b, k, "publish"))
      BY <1>3 DEF RecordOccurrence
    <3> QED
      BY <1>0, <3>1, EachOnward
  <2>3. /\ n.at \in {"record", "publish"} /\ n.students = k.students
        /\ n.at = "publish" => n.i = 1
    BY <1>0, <2>2 DEF Onward
  <2>4. MeetingsKept(b, n, zoom') /\ RostersKept(b, n, row')
        /\ RowsFaithful(b, n, row')
    BY <1>0, <1>1, <2>3, Settled
  <2> HIDE DEF k, n
  <2>5. SeriesKept(b, n, series'[b])
    <3>1. Len(Slots[b]) > 1 => series[b] = "recorded"
      <4>1. series[b] \in {"none", "written", "recorded"}
        BY DEF PlacedInv, TypeOK
      <4> QED
        BY <1>0, <2>1, <4>1 DEF Whole, SeriesKept, Writing
    <3> QED
      BY <2>1, <3>1 DEF SeriesKept
  <2>6. Published(b, n) = {} /\ Noticed(b, n) = {}
    <3>1. \A j \in Planned(b) : ~(j < 1)
      BY Positions
    <3> QED
      BY <2>3, <3>1 DEF Published, Noticed, Through
  <2>7. \A j \in Recorded(b, n) : "event" \in follow'[<<b, j>>]
    <3>1. \A j \in Recorded(b, n) : j \in Recorded(b, k) \/ j = k.i
      BY <1>0, <2>2, OnwardThrough DEF Recorded
    <3>2. ASSUME NEW j \in Recorded(b, n) PROVE "event" \in follow'[<<b, j>>]
      <4>1. <<b, j>> \in Occ
        BY Occurrences DEF Recorded, Through
      <4>2. CASE j = k.i
        BY <1>0, <2>1, <4>2
      <4>3. CASE j # k.i
        <5>1. "event" \in follow[<<b, j>>]
          BY <1>0, <3>1, <4>3 DEF Whole, FollowKept
        <5> QED
          BY <1>0, <2>1, <4>1, <4>3, <5>1
      <4> QED
        BY <4>2, <4>3
    <3> QED
      BY <3>2
  <2> QED
    BY <2>4, <2>5, <2>6, <2>7 DEF n, Whole, CopiesKept, FollowKept
<1> QED
  BY <1>2, <1>3

(* The copies show the roster that was seated.                             *)
LEMMA PublishWhole ==
  ASSUME PlacedInv, WholeInv, NEW b \in Bookings, Publish(b)
  PROVE  Whole(b, call'[b], zoom', series'[b], row', follow', shared')
<1> DEFINE k == call[b]
           n == call'[b]
<1>0. /\ k \in CallState /\ k.at = "publish" /\ k.i \in Planned(b)
      /\ Whole(b, k, zoom, series[b], row, follow, shared)
      /\ <<b, k.i>> \in Occ
      /\ shared \in [Occ -> (SUBSET Student) \cup {None}]
  BY Own DEF Publish, Running, Writing, Here, PlacedInv, TypeOK
<1>1. /\ UNCHANGED <<zoom, series, row, follow>> /\ AllAlike
      /\ shared' = [shared EXCEPT ![<<b, k.i>>] = row[<<b, k.i>>].roster]
  BY SameAlike DEF Publish, AllAlike, Here
<1>2. Onward(b, k, n, "notice")
  <2>1. Turn(b, Each(b, k, "notice"))
    BY DEF Publish
  <2> QED
    BY <1>0, <2>1, EachOnward
<1>3. /\ n.at \in {"publish", "notice"} /\ n.students = k.students
      /\ n.at = "notice" => n.i = 1
  BY <1>0, <1>2 DEF Onward
<1>4. MeetingsKept(b, n, zoom') /\ RostersKept(b, n, row')
      /\ RowsFaithful(b, n, row')
  BY <1>0, <1>1, <1>3, Settled
<1> HIDE DEF k, n
<1>5. SeriesKept(b, n, series'[b])
  BY <1>0, <1>1 DEF Whole, SeriesKept
<1>6. FollowKept(b, n, follow')
  <2>1. Noticed(b, n) = {}
    <3>1. \A j \in Planned(b) : ~(j < 1)
      BY Positions
    <3> QED
      BY <1>3, <3>1 DEF Noticed, Through
  <2>2. Recorded(b, k) = Planned(b) /\ \A j \in Recorded(b, n) : j \in Planned(b)
    BY <1>0 DEF Recorded, Through
  <2> QED
    BY <1>0, <1>1, <2>1, <2>2 DEF Whole, FollowKept
<1>7. CopiesKept(b, n, shared')
  <2>1. \A j \in Published(b, n) : j \in Published(b, k) \/ j = k.i
    BY <1>0, <1>2, OnwardThrough DEF Published
  <2>2. row[<<b, k.i>>].roster = k.students
    BY <1>0 DEF Whole, RostersKept, Attached, Through
  <2>3. ASSUME NEW j \in Published(b, n) PROVE shared'[<<b, j>>] = n.students
    <3>1. <<b, j>> \in Occ
      BY Occurrences DEF Published, Through
    <3>2. CASE j = k.i
      BY <1>0, <1>1, <1>3, <2>2, <3>2
    <3>3. CASE j # k.i
      <4>1. shared[<<b, j>>] = k.students
        BY <1>0, <2>1, <3>3 DEF Whole, CopiesKept
      <4> QED
        BY <1>0, <1>1, <1>3, <3>1, <3>3, <4>1
    <3> QED
      BY <3>2, <3>3
  <2> QED
    BY <2>3 DEF CopiesKept
<1> QED
  BY <1>4, <1>5, <1>6, <1>7 DEF n, Whole

(* The notices come last.                                                  *)
LEMMA NoticeWhole ==
  ASSUME PlacedInv, WholeInv, NEW b \in Bookings, CaptureBooking(b)
  PROVE  Whole(b, call'[b], zoom', series'[b], row', follow', shared')
<1> DEFINE k == call[b]
           n == call'[b]
<1>0. /\ k \in CallState /\ k.at = "notice" /\ k.i \in Planned(b)
      /\ Whole(b, k, zoom, series[b], row, follow, shared)
      /\ <<b, k.i>> \in Occ
      /\ follow \in [Occ -> SUBSET {"event", "confirmation", "reminder"}]
  BY Own DEF CaptureBooking, Running, Writing, Here, PlacedInv, TypeOK
<1>1. /\ UNCHANGED <<zoom, series, row, shared>> /\ AllAlike
      /\ follow' = [follow EXCEPT
           ![<<b, k.i>>] = @ \cup {"confirmation", "reminder"}]
  BY SameAlike DEF CaptureBooking, AllAlike, Here
<1>2. Onward(b, k, n, "sweep")
  <2>1. Turn(b, Each(b, k, "sweep"))
    BY DEF CaptureBooking
  <2> QED
    BY <1>0, <2>1, EachOnward
<1>3. n.at \in {"notice", "sweep"} /\ n.students = k.students
  BY <1>0, <1>2 DEF Onward
<1>4. MeetingsKept(b, n, zoom') /\ RostersKept(b, n, row')
      /\ RowsFaithful(b, n, row')
  BY <1>0, <1>1, <1>3, Settled
<1> HIDE DEF k, n
<1>5. SeriesKept(b, n, series'[b])
  BY <1>0, <1>1 DEF Whole, SeriesKept
<1>6. CopiesKept(b, n, shared')
  BY <1>0, <1>1, <1>3 DEF Whole, CopiesKept, Published, Through
<1>7. FollowKept(b, n, follow')
  <2>1. \A j \in Noticed(b, n) : j \in Noticed(b, k) \/ j = k.i
    BY <1>0, <1>2, OnwardThrough DEF Noticed
  <2>2. \A j \in Planned(b) : "event" \in follow[<<b, j>>]
    BY <1>0 DEF Whole, FollowKept, Recorded, Through
  <2>3. ASSUME NEW j \in Planned(b)
        PROVE  /\ "event" \in follow'[<<b, j>>]
               /\ j \in Noticed(b, n) =>
                    {"confirmation", "reminder"} \subseteq follow'[<<b, j>>]
    <3>1. <<b, j>> \in Occ
      BY Occurrences
    <3>2. CASE j = k.i
      <4>1. follow'[<<b, j>>] = follow[<<b, j>>] \cup {"confirmation", "reminder"}
        BY <1>0, <1>1, <3>2
      <4> QED
        BY <2>2, <4>1
    <3>3. CASE j # k.i
      <4>1. follow'[<<b, j>>] = follow[<<b, j>>]
        BY <1>0, <1>1, <3>1, <3>3
      <4> QED
        BY <1>0, <2>1, <2>2, <3>3, <4>1 DEF Whole, FollowKept
    <3> QED
      BY <3>2, <3>3
  <2>4. /\ \A j \in Noticed(b, n) : j \in Planned(b)
        /\ \A j \in Recorded(b, n) : j \in Planned(b)
    BY DEF Noticed, Recorded, Through
  <2> QED
    BY <2>3, <2>4 DEF FollowKept
<1> QED
  BY <1>4, <1>5, <1>6, <1>7 DEF n, Whole

(* The sweep ends the booking and touches nothing but statuses.            *)
LEMMA SweepWhole ==
  ASSUME PlacedInv, WholeInv, NEW b \in Bookings, SweepCredits(b)
  PROVE  Whole(b, call'[b], zoom', series'[b], row', follow', shared')
<1> DEFINE k == call[b]
           n == call'[b]
<1>0. /\ k \in CallState /\ k.at = "sweep"
      /\ Whole(b, k, zoom, series[b], row, follow, shared)
  BY Own DEF SweepCredits
<1>1. UNCHANGED <<zoom, series, follow, shared>> /\ AllAlike
  BY SweepAlike DEF SweepCredits
<1>2. n.at = "done" /\ n.students = k.students
  BY Own DEF SweepCredits, Stop, Turn, Blank
<1>3. MeetingsKept(b, n, zoom') /\ RostersKept(b, n, row')
      /\ RowsFaithful(b, n, row')
  BY <1>0, <1>1, <1>2, Settled
<1> HIDE DEF k, n
<1>4. SeriesKept(b, n, series'[b])
  BY <1>0, <1>1, <1>2 DEF Whole, SeriesKept, Writing
<1>5. CopiesKept(b, n, shared')
  BY <1>0, <1>1, <1>2 DEF Whole, CopiesKept, Published, Through
<1>6. FollowKept(b, n, follow')
  BY <1>0, <1>1, <1>2 DEF Whole, FollowKept, Recorded, Noticed, Through
<1> QED
  BY <1>3, <1>4, <1>5, <1>6 DEF n, Whole

(* At first nothing is written, and nothing is done.                       *)
LEMMA InitWhole == Init => WholeInv
<1> SUFFICES ASSUME Init, NEW b \in Bookings
             PROVE  Whole(b, call[b], zoom, series[b], row, follow, shared)
  BY DEF WholeInv
<1>1. call[b].at = "idle" /\ \A j \in Planned(b) : row[<<b, j>>] = None
  BY Occurrences DEF Init, Blank
<1>2. /\ Met(b, call[b]) = {} /\ Attached(b, call[b]) = {}
      /\ Recorded(b, call[b]) = {} /\ Published(b, call[b]) = {}
      /\ Noticed(b, call[b]) = {}
  BY <1>1 DEF Met, Attached, Recorded, Published, Noticed, Through, Writing
<1>3. SeriesKept(b, call[b], series[b])
  BY <1>1 DEF SeriesKept, Writing
<1>4. RowsFaithful(b, call[b], row)
  BY <1>1 DEF RowsFaithful, Faithful
<1> QED
  BY <1>2, <1>3, <1>4 DEF Whole, MeetingsKept, RostersKept, CopiesKept,
                          FollowKept

(* Every booking stays as whole as its stage says.                         *)
LEMMA NextWhole == PlacedInv /\ WholeInv /\ [Next]_vars => WholeInv'
<1> SUFFICES ASSUME PlacedInv, WholeInv, [Next]_vars PROVE WholeInv'
  OBVIOUS
<1>1. CASE UNCHANGED <<zoom, series, row, follow, shared, call>>
  BY <1>1 DEF WholeInv
<1>2. ASSUME NEW b \in Bookings, Step(b) PROVE WholeInv'
  <2>1. Whole(b, call'[b], zoom', series'[b], row', follow', shared')
    BY <1>2, FallsWhole, PlanWhole, CreateWhole, SeriesWhole, WriteWhole,
       AttachWhole, RecordWhole, PublishWhole, NoticeWhole, SweepWhole
       DEF Step, Falls
  <2> QED
    BY <1>2, <2>1, WholeMove
<1> QED
  BY <1>1, <1>2 DEF Next, Rest, Join, Withdraw, vars, written

(* A booking that was answered with success is there to the last           *)
(* statement, whatever was booked, refused or stopped beside it.           *)
THEOREM DoneIsAlwaysWhole == Spec => []DoneIsWhole
<1>1. PlacedInv /\ WholeInv => DoneIsWhole
  <2> SUFFICES ASSUME PlacedInv, WholeInv, NEW b \in Bookings,
                      call[b].at = "done"
               PROVE  /\ Len(Slots[b]) > 1 => series[b] = "recorded"
                      /\ \A i \in Planned(b) :
                           LET o == <<b, i>> IN
                           /\ row[o] # None /\ row[o].slot = Slots[b][i]
                           /\ row[o].taught /\ row[o].roster = call[b].students
                           /\ shared[o] = row[o].roster
                           /\ follow[o] = {"event", "confirmation", "reminder"}
                           /\ b \in Meeting => row[o].link = o /\ o \in zoom
    BY DEF DoneIsWhole
  <2>1. Whole(b, call[b], zoom, series[b], row, follow, shared)
    BY DEF WholeInv
  <2>2. Len(Slots[b]) > 1 => series[b] = "recorded"
    BY <2>1 DEF Whole, SeriesKept
  <2>3. ASSUME NEW i \in Planned(b)
        PROVE  LET o == <<b, i>> IN
               /\ row[o] # None /\ row[o].slot = Slots[b][i]
               /\ row[o].taught /\ row[o].roster = call[b].students
               /\ shared[o] = row[o].roster
               /\ follow[o] = {"event", "confirmation", "reminder"}
               /\ b \in Meeting => row[o].link = o /\ o \in zoom
    <3> DEFINE o == <<b, i>>
    <3>1. i \in Met(b, call[b]) /\ i \in Attached(b, call[b])
          /\ i \in Recorded(b, call[b]) /\ i \in Published(b, call[b])
          /\ i \in Noticed(b, call[b])
      BY PassedAll
    <3>2. Faithful(b, i, call[b], row[o])
      BY <2>1 DEF Whole, RowsFaithful
    <3>3. row[o] # None /\ row[o].taught /\ row[o].roster = call[b].students
          /\ shared[o] = call[b].students
      BY <2>1, <3>1 DEF Whole, RostersKept, CopiesKept
    <3>4. b \in Meeting => o \in zoom
      BY <2>1, <3>1 DEF Whole, MeetingsKept
    <3>5. follow[o] \subseteq {"event", "confirmation", "reminder"}
      BY Occurrences DEF PlacedInv, TypeOK
    <3>6. follow[o] = {"event", "confirmation", "reminder"}
      BY <2>1, <3>1, <3>5 DEF Whole, FollowKept
    <3> QED
      BY <3>2, <3>3, <3>4, <3>6 DEF Faithful
  <2> QED
    BY <2>2, <2>3
<1> QED
  BY <1>1, InitPlaced, NextPlaced, InitWhole, NextWhole, PTL DEF Spec

-----------------------------------------------------------------------------
(* Students.  What a plan was checked against was final: the bookings that *)
(* had ended before, whose rosters and slots no step touches any more.     *)

(* A booking that has ended goes nowhere, and every other stays ended.     *)
LEMMA EndedStays ==
  ASSUME PlacedInv, NEW b \in Bookings, Step(b), NEW d \in Bookings,
         call[d].at \in Ended
  PROVE  d # b /\ call'[d] = call[d]
<1>1. call[b].at \in {"idle"} \cup Running
  BY DEF Step, ResolveStudents, RefusePlan, AssertEligible, Check, Confirm,
         RefuseConfirm, CreateMeeting, MeetingFails, Discard, WriteSeries,
         WriteOccurrence, WriteClashes, AttachInstructor, AttachStudent,
         RecordSeries, RecordOccurrence, Publish, CaptureBooking, SweepCredits,
         Throw, Crash, Active, Running, Planning, Writing
<1>2. d # b
  BY <1>1 DEF Ended, Running, Planning, Writing
<1> QED
  BY <1>2, StepAside DEF Aside

(* So whoever crosses a plan after a step has crossed it before.           *)
LEMMA CrossedBefore ==
  ASSUME PlacedInv, WarnedInv, NEW b \in Bookings, Step(b),
         NEW d \in Bookings, NEW j \in Planned(d), NEW n,
         n.students = call[d].students, n.earlier = call[d].earlier,
         Crossed(d, j, n, row')
  PROVE  Crossed(d, j, call[d], row)
<1>1. PICK o \in Occ : /\ o[1] \in call[d].earlier /\ row'[o] # None
                       /\ row'[o].status \in BLOCKING_STATUSES
                       /\ Overlap(row'[o].slot, Slots[d][j])
                       /\ row'[o].roster \cap call[d].students # {}
  BY DEF Crossed
<1>2. o[1] # b
  BY <1>1, Occurrences, EndedStays DEF WarnedInv
<1>3. Alike(row[o], row'[o])
  BY <1>2, StepAside DEF Aside
<1> QED
  BY <1>1, <1>3 DEF Alike, Crossed

(* The bookings that go their way leave the warnings of the others alone.  *)
LEMMA WarnedAside ==
  ASSUME PlacedInv, WarnedInv, NEW b \in Bookings, Step(b),
         NEW d \in Bookings \ {b}
  PROVE  Warned(d, call'[d], row')
<1> DEFINE k == call[d]
<1>1. call'[d] = k /\ Warned(d, k, row)
  BY StepAside DEF Aside, WarnedInv
<1>2. \A j \in Planned(d) : Crossed(d, j, k, row') => Crossed(d, j, k, row)
  BY CrossedBefore
<1>3. \A j \in Planned(d) : Alike(row[<<d, j>>], row'[<<d, j>>])
  <2>1. \A j \in Planned(d) : <<d, j>> \in Occ /\ <<d, j>>[1] # b
    BY Occurrences
  <2> QED
    BY <2>1, StepAside DEF Aside
<1>4. \A j \in Checked(d, k) : j \in Planned(d)
  BY DEF Checked, Through
<1> HIDE DEF k
<1>5. \A j \in Checked(d, k) : Crossed(d, j, k, row') => j \in k.soft
  BY <1>1, <1>2, <1>4 DEF Warned
<1>6. \A j \in Planned(d) : row'[<<d, j>>] # None =>
        /\ ~SelfOverlaps(d)
        /\ Crossed(d, j, k, row') => row'[<<d, j>>].overridden
  BY <1>1, <1>2, <1>3 DEF Warned, Alike
<1>7. k.at \in {"meet"} \cup Writing =>
        ~SelfOverlaps(d) /\ (k.soft # {} => d \in Override)
  BY <1>1 DEF Warned
<1> QED
  BY <1>1, <1>5, <1>6, <1>7 DEF Warned

(* And those that had ended when a plan was made have ended still.         *)
LEMMA EarlierEnded ==
  ASSUME PlacedInv, WarnedInv, NEW b \in Bookings, Step(b), NEW d \in Bookings,
         NEW e \in call'[d].earlier, call'[d].earlier = call[d].earlier
  PROVE  call'[e].at \in Ended
<1>1. e \in Bookings /\ call[e].at \in Ended
  BY Standing DEF WarnedInv
<1> QED
  BY <1>1, EndedStays

(* It is enough that the booking that goes on is warned.                   *)
LEMMA WarnedMove ==
  ASSUME PlacedInv, WarnedInv, NEW b \in Bookings, Step(b),
         call'[b].earlier = call[b].earlier, Warned(b, call'[b], row')
  PROVE  WarnedInv'
<1>1. ASSUME NEW d \in Bookings
      PROVE  /\ \A e \in call'[d].earlier : call'[e].at \in Ended
             /\ Warned(d, call'[d], row')
  <2>1. call'[d].earlier = call[d].earlier
    BY StepAside DEF Aside
  <2>2. Warned(d, call'[d], row')
    BY WarnedAside
  <2> QED
    BY <2>1, <2>2, EarlierEnded
<1> QED
  BY <1>1 DEF WarnedInv

(* A booking that fails or stops keeps the warnings of the rows it wrote.  *)
LEMMA FallsWarned ==
  ASSUME PlacedInv, WarnedInv, NEW b \in Bookings, Falls(b), Step(b)
  PROVE  WarnedInv'
<1> DEFINE n == call'[b]
<1>1. /\ n.at \in Fallen /\ n.students = call[b].students
      /\ n.earlier = call[b].earlier /\ row' = row
  BY FallsTo
<1>2. \A j \in Planned(b) : Crossed(b, j, n, row') => Crossed(b, j, call[b], row)
  BY <1>1, CrossedBefore
<1>3. Warned(b, call[b], row)
  BY DEF WarnedInv
<1> HIDE DEF n
<1>4. Checked(b, n) = {} /\ n.at \notin {"meet"} \cup Writing
  BY <1>1 DEF Checked, Through, Fallen, Writing
<1>5. Warned(b, n, row')
  BY <1>1, <1>2, <1>3, <1>4 DEF Warned
<1> QED
  BY <1>1, <1>5, WarnedMove DEF n

(* A plan that has just come has been checked for nothing.                 *)
LEMMA ResolveWarned ==
  ASSUME PlacedInv, WholeInv, WarnedInv, NEW b \in Bookings,
         ResolveStudents(b), Step(b)
  PROVE  WarnedInv'
<1> DEFINE n == call'[b]
<1>1. /\ n.at = "eligible" /\ call[b].at = "idle" /\ row' = row
      /\ n.earlier = {d \in Bookings : call[d].at \in Ended}
  BY Own DEF ResolveStudents, Turn, Blank, written
<1> HIDE DEF n
<1>2. \A j \in Planned(b) : row'[<<b, j>>] = None
  BY <1>1, Own DEF Whole, RowsFaithful
<1>3. Checked(b, n) = {} /\ n.at \notin {"meet"} \cup Writing
  BY <1>1 DEF Checked, Through, Writing
<1>4. Warned(b, n, row')
  BY <1>2, <1>3 DEF Warned
<1>5. ASSUME NEW d \in Bookings
      PROVE  /\ \A e \in call'[d].earlier : call'[e].at \in Ended
             /\ Warned(d, call'[d], row')
  <2>1. CASE d = b
    <3>1. ASSUME NEW e \in n.earlier PROVE call'[e].at \in Ended
      <4>1. e \in Bookings /\ call[e].at \in Ended
        BY <1>1, <3>1
      <4> QED
        BY <4>1, EndedStays
    <3> QED
      BY <1>4, <2>1, <3>1 DEF n
  <2>2. CASE d # b
    <3>1. call'[d] = call[d]
      BY <2>2, StepAside DEF Aside
    <3> QED
      BY <2>2, <3>1, EarlierEnded, WarnedAside
  <2> QED
    BY <2>1, <2>2
<1> QED
  BY <1>5 DEF WarnedInv

(* The check warns of whoever is in a live session at the same time.       *)
LEMMA CheckWarned ==
  ASSUME PlacedInv, WholeInv, WarnedInv, NEW b \in Bookings, Check(b), Step(b)
  PROVE  WarnedInv'
<1> DEFINE k == call[b]
           n == call'[b]
           j == [call[b] EXCEPT
                   !.blocked = @ \/ AbsoluteClash(b, Slots[b][call[b].i]),
                   !.soft = @ \cup {i \in {call[b].i} :
                       \/ StudentClash(call[b].students, Slots[b][call[b].i])
                       \/ i \in Outside[b]}]
<1>0. /\ k \in CallState /\ k.at = "check" /\ k.i \in Planned(b)
      /\ Warned(b, k, row) /\ k.i \in Nat
      /\ Whole(b, k, zoom, series[b], row, follow, shared)
  BY Own, Standing DEF Check, Running, Planning, WarnedInv
<1>1. row' = row
  BY DEF Check, written
<1>2. /\ j \in CallState /\ j.at = "check" /\ j.i = k.i
      /\ j.students = k.students /\ j.earlier = k.earlier
      /\ \A i \in k.soft : i \in j.soft
      /\ StudentClash(k.students, Slots[b][k.i]) => k.i \in j.soft
  BY <1>0 DEF CallState
<1>3. Onward(b, j, n, "confirm")
  <2>1. Turn(b, Each(b, j, "confirm"))
    BY DEF Check
  <2> HIDE DEF j
  <2> QED
    BY <1>0, <1>2, <2>1, EachOnward
<1> HIDE DEF j
<1>4. /\ n.at \in {"check", "confirm"} /\ n.students = k.students
      /\ n.earlier = k.earlier /\ n.soft = j.soft
  BY <1>2, <1>3 DEF Onward
<1>5. \A i \in Planned(b) : Crossed(b, i, n, row') => Crossed(b, i, k, row)
  BY <1>4, CrossedBefore
<1> HIDE DEF k, n
<1>6. \A i \in Checked(b, n) : i \in Checked(b, k) \/ i = k.i
  <2>1. \A i \in Checked(b, n) : i \in Checked(b, j) \/ i = j.i
    <3>1. "confirm" \in {"confirm", "meet"} \cup Writing
            => j.at \in ({"confirm", "meet"} \cup Writing) \cup {"check"}
      BY <1>2
    <3> QED
      BY <1>0, <1>2, <1>3, <3>1, OnwardThrough DEF Checked
  <2> QED
    BY <1>0, <1>2, <2>1 DEF Checked, Through
<1>7. Crossed(b, k.i, k, row) => StudentClash(k.students, Slots[b][k.i])
  BY DEF Crossed, StudentClash, BusyWith, Live
<1>8. \A i \in Checked(b, n) : Crossed(b, i, n, row') => i \in n.soft
  <2>1. \A i \in Checked(b, n) : i \in Planned(b)
    BY DEF Checked, Through
  <2> QED
    BY <1>0, <1>2, <1>4, <1>5, <1>6, <1>7, <2>1 DEF Warned
<1>9. Warned(b, n, row')
  <2>1. \A i \in Planned(b) : row'[<<b, i>>] = None
    BY <1>0, <1>1 DEF Whole, RowsFaithful, Planning
  <2> QED
    BY <1>4, <1>8, <2>1 DEF Warned, Writing
<1> QED
  BY <1>4, <1>9, WarnedMove DEF k, n

(* A plan is confirmed once it has been checked, by somebody who books     *)
(* over what it was warned of.                                             *)
LEMMA ConfirmWarned ==
  ASSUME PlacedInv, WholeInv, WarnedInv, NEW b \in Bookings, Step(b),
         AssertEligible(b) \/ Confirm(b)
  PROVE  WarnedInv'
<1> DEFINE k == call[b]
           n == call'[b]
<1>0. /\ k \in CallState /\ k.at \in {"eligible", "confirm"}
      /\ Warned(b, k, row)
      /\ Whole(b, k, zoom, series[b], row, follow, shared)
  BY Own DEF AssertEligible, Confirm, WarnedInv
<1>1. row' = row
  BY DEF AssertEligible, Confirm, written
<1>2. /\ n.students = k.students /\ n.earlier = k.earlier /\ n.soft = k.soft
      /\ n.i = 1
      /\ \/ n.at = "check"
         \/ k.at = "confirm" /\ n.at \in {"meet", "series", "write"}
            /\ Acceptable(b)
  <2>1. ASSUME NEW at, Stand(b, at)
        PROVE  /\ n.students = k.students /\ n.earlier = k.earlier
               /\ n.soft = k.soft /\ n.i = 1 /\ n.at = at
    BY <1>0, <2>1, Own DEF Stand, Turn, CallState
  <2>2. CASE AssertEligible(b)
    <3>1. Stand(b, "check")
      BY <2>2 DEF AssertEligible
    <3> QED
      BY <2>1, <3>1
  <2>3. CASE Confirm(b)
    <3>1. PICK at \in {"meet", "series", "write"} : Stand(b, at)
      BY <2>3 DEF Confirm, AfterMeetings
    <3>2. k.at = "confirm" /\ Acceptable(b)
      BY <2>3 DEF Confirm
    <3> HIDE DEF k, n
    <3> QED
      BY <2>1, <3>1, <3>2
  <2> QED
    BY <2>2, <2>3
<1>3. \A i \in Planned(b) : Crossed(b, i, n, row') => Crossed(b, i, k, row)
  BY <1>2, CrossedBefore
<1>4. k.at = "confirm" => Checked(b, k) = Planned(b)
  BY PassedAll
<1>5. n.at # "check" => ~SelfOverlaps(b) /\ (n.soft # {} => b \in Override)
  BY <1>2 DEF Acceptable
<1> HIDE DEF k, n
<1>6. \A i \in Checked(b, n) : Crossed(b, i, n, row') => i \in n.soft
  <2>1. \A i \in Checked(b, n) : i \in Planned(b)
    BY DEF Checked, Through
  <2>2. n.at = "check" => Checked(b, n) = {}
    <3>1. \A i \in Planned(b) : ~(i < 1)
      BY Positions
    <3> QED
      BY <1>2, <3>1 DEF Checked, Through, Writing
  <2> QED
    BY <1>0, <1>2, <1>3, <1>4, <2>1, <2>2 DEF Warned
<1>7. \A i \in Planned(b) : row'[<<b, i>>] = None
  BY <1>0, <1>1 DEF Whole, RowsFaithful, Planning
<1>8. Warned(b, n, row')
  BY <1>2, <1>5, <1>6, <1>7 DEF Warned, Writing
<1> QED
  BY <1>2, <1>8, WarnedMove DEF k, n

(* The rows a booking has already, with the warnings they carry.           *)
FlagsStay(b) ==
  \A i \in Planned(b) : row'[<<b, i>>] # None =>
    /\ row[<<b, i>>] # None
    /\ row'[<<b, i>>].overridden = row[<<b, i>>].overridden

(* Once confirmed, a booking goes on with the warnings it has, and a       *)
(* statement that makes no row takes none of them back.                    *)
LEMMA GoesOnWarned ==
  ASSUME PlacedInv, WarnedInv, NEW b \in Bookings, Step(b),
         call[b].at \in {"meet"} \cup Writing,
         call'[b].at \in {"meet", "done"} \cup Writing,
         call'[b].students = call[b].students,
         call'[b].earlier = call[b].earlier,
         call'[b].at # "done" => call'[b].soft = call[b].soft,
         FlagsStay(b)
  PROVE  WarnedInv'
<1> DEFINE k == call[b]
           n == call'[b]
<1>0. Warned(b, k, row)
  BY DEF WarnedInv
<1>1. \A i \in Planned(b) : Crossed(b, i, n, row') => Crossed(b, i, k, row)
  BY CrossedBefore
<1>2. Checked(b, k) = Planned(b)
  BY PassedAll
<1> HIDE DEF k, n
<1>3. n.at = "done" => Checked(b, n) = {}
  BY DEF Checked, Through, Writing
<1>4. \A i \in Checked(b, n) : i \in Planned(b)
  BY DEF Checked, Through
<1>5. \A i \in Checked(b, n) : Crossed(b, i, n, row') => i \in n.soft
  BY <1>0, <1>1, <1>2, <1>3, <1>4 DEF Warned, k, n
<1>6. \A i \in Planned(b) : row'[<<b, i>>] # None =>
        /\ ~SelfOverlaps(b)
        /\ Crossed(b, i, n, row') => row'[<<b, i>>].overridden
  BY <1>0, <1>1 DEF Warned, FlagsStay
<1>7. n.at \in {"meet"} \cup Writing =>
        ~SelfOverlaps(b) /\ (n.soft # {} => b \in Override)
  <2>1. n.at \in {"meet"} \cup Writing => n.at # "done"
    BY DEF Writing
  <2> QED
    BY <1>0, <2>1 DEF Warned, k, n
<1>8. Warned(b, n, row')
  BY <1>5, <1>6, <1>7 DEF Warned
<1> QED
  BY <1>8, WarnedMove DEF n

(* A row that is written says whether it was booked over a warning.        *)
LEMMA WriteWarned ==
  ASSUME PlacedInv, WholeInv, WarnedInv, NEW b \in Bookings,
         WriteOccurrence(b), Step(b)
  PROVE  WarnedInv'
<1> DEFINE k == call[b]
           n == call'[b]
<1>0. /\ k \in CallState /\ k.at = "write" /\ k.i \in Planned(b)
      /\ Warned(b, k, row)
      /\ row \in [Occ -> Row \cup {None}] /\ <<b, k.i>> \in Occ
  BY Own DEF WriteOccurrence, Running, Writing, Here, WarnedInv
<1>1. /\ row' = [row EXCEPT ![<<b, k.i>>] = NewRow(b)]
      /\ NewRow(b).overridden = (k.i \in k.soft /\ b \in Override)
  BY DEF WriteOccurrence, Here, NewRow
<1>2. Onward(b, k, n, "attach")
  <2>1. Turn(b, Each(b, k, "attach"))
    BY DEF WriteOccurrence
  <2> QED
    BY <1>0, <2>1, EachOnward
<1>3. /\ n.students = k.students /\ n.earlier = k.earlier /\ n.soft = k.soft
      /\ n.at \in {"write", "attach"}
  BY <1>0, <1>2 DEF Onward
<1>4. \A i \in Planned(b) : Crossed(b, i, n, row') => Crossed(b, i, k, row)
  BY <1>3, CrossedBefore
<1>5. Checked(b, k) = Planned(b) /\ k.at \in Writing
  BY <1>0, PassedAll DEF Writing
<1> HIDE DEF k, n
<1>6. ~SelfOverlaps(b) /\ (k.soft # {} => b \in Override)
  BY <1>0, <1>5 DEF Warned
<1>7. \A i \in Planned(b) : Crossed(b, i, k, row) => i \in k.soft
  BY <1>0, <1>5 DEF Warned
<1>8. ASSUME NEW i \in Planned(b), row'[<<b, i>>] # None, Crossed(b, i, n, row')
      PROVE  row'[<<b, i>>].overridden
  <2>0. <<b, i>> \in Occ /\ Crossed(b, i, k, row)
    BY <1>4, <1>8, Occurrences
  <2>1. CASE i = k.i
    <3>1. i \in k.soft /\ b \in Override
      BY <1>6, <1>7, <2>0
    <3>2. row'[<<b, i>>] = NewRow(b)
      BY <1>0, <1>1, <2>1
    <3> QED
      BY <1>1, <2>1, <3>1, <3>2
  <2>2. CASE i # k.i
    <3>1. row'[<<b, i>>] = row[<<b, i>>]
      BY <1>0, <1>1, <2>0, <2>2
    <3> QED
      BY <1>0, <1>8, <2>0, <3>1 DEF Warned
  <2> QED
    BY <2>1, <2>2
<1>9. \A i \in Checked(b, n) : Crossed(b, i, n, row') => i \in n.soft
  <2>1. \A i \in Checked(b, n) : i \in Planned(b)
    BY DEF Checked, Through
  <2> QED
    BY <1>3, <1>4, <1>7, <2>1
<1>10. Warned(b, n, row')
  BY <1>3, <1>6, <1>8, <1>9 DEF Warned
<1> QED
  BY <1>3, <1>10, WarnedMove DEF k, n

(* What is left of a booking's steps, once it is confirmed.                *)
GoesOn(b) ==
  \/ CreateMeeting(b) \/ WriteSeries(b)
  \/ AttachInstructor(b) \/ AttachStudent(b)
  \/ RecordSeries(b) \/ RecordOccurrence(b)
  \/ Publish(b) \/ CaptureBooking(b) \/ SweepCredits(b)

(* They leave the plan as it is, and what the rows were warned of.         *)
LEMMA GoesOnTo ==
  ASSUME PlacedInv, WholeInv, NEW b \in Bookings, GoesOn(b)
  PROVE  /\ call[b].at \in {"meet"} \cup Writing
         /\ call'[b].at \in {"meet", "done"} \cup Writing
         /\ call'[b].students = call[b].students
         /\ call'[b].earlier = call[b].earlier
         /\ call'[b].at # "done" => call'[b].soft = call[b].soft
         /\ FlagsStay(b)
<1> DEFINE k == call[b]
           n == call'[b]
           Kin(m) == /\ m.at \in {"meet", "done"} \cup Writing
                     /\ m.students = k.students /\ m.earlier = k.earlier
                     /\ m.at # "done" => m.soft = k.soft
<1>0. /\ k \in CallState /\ call \in [Bookings -> CallState]
      /\ k.at \in Running => k.i \in Planned(b)
  BY Own
<1>1. k.at \in {"meet"} \cup Writing /\ k.i \in Planned(b)
  <2>1. k.at \in {"meet"} \cup Writing
    BY DEF GoesOn, CreateMeeting, WriteSeries, AttachInstructor, AttachStudent,
           RecordSeries, RecordOccurrence, Publish, CaptureBooking,
           SweepCredits, Writing
  <2> QED
    BY <1>0, <2>1 DEF Running
<1>2. FlagsStay(b)
  <2>1. CASE SweepCredits(b)
    BY <2>1, SweepAlike, Occurrences DEF AllAlike, Alike, FlagsStay
  <2>2. CASE AttachInstructor(b) \/ AttachStudent(b)
    <3>1. /\ row[Here(b)] # None /\ row \in [Occ -> Row \cup {None}]
          /\ Here(b) \in Occ
      BY <1>1, <2>2, Own, RowAssumption
         DEF AttachInstructor, AttachStudent, Writing, Running
    <3>2. PICK r \in Row : /\ row' = [row EXCEPT ![Here(b)] = r]
                           /\ r.overridden = row[Here(b)].overridden
      BY <2>2, AttachSeats
    <3> QED
      BY <3>1, <3>2, Occurrences DEF FlagsStay
  <2>3. CASE UNCHANGED row
    BY <2>3 DEF FlagsStay
  <2> QED
    BY <2>1, <2>2, <2>3
       DEF GoesOn, CreateMeeting, WriteSeries, RecordSeries, RecordOccurrence,
           Publish, CaptureBooking
<1>3. Kin(n)
  <2>1. ASSUME NEW next \in Writing, Turn(b, Each(b, k, next)) PROVE Kin(n)
    <3>1. Onward(b, k, n, next)
      BY <1>0, <1>1, <2>1, EachOnward
    <3> HIDE DEF k, n
    <3> QED
      BY <1>1, <3>1 DEF Onward
  <2>2. CASE CreateMeeting(b)
    <3> DEFINE j == [call[b] EXCEPT !.made = @ + 1]
    <3>1. /\ j \in CallState /\ j.at = k.at /\ j.i = k.i
          /\ j.students = k.students /\ j.earlier = k.earlier
          /\ j.soft = k.soft
      BY <1>0, Standing DEF CallState
    <3>2. Turn(b, Each(b, j, AfterMeetings(b)))
      BY <2>2 DEF CreateMeeting
    <3> HIDE DEF j
    <3>3. Onward(b, j, n, AfterMeetings(b))
      BY <1>1, <3>1, <3>2, EachOnward
    <3> HIDE DEF k, n
    <3> QED
      BY <1>1, <3>1, <3>3 DEF Onward, AfterMeetings, Writing
  <2>3. CASE WriteSeries(b)
    <3>1. n = [k EXCEPT !.at = "write", !.i = 1]
      BY <1>0, <2>3 DEF WriteSeries, Stand, Turn
    <3> HIDE DEF n
    <3> QED
      BY <1>0, <3>1 DEF CallState, Writing
  <2>4. CASE SweepCredits(b)
    BY <1>0, <2>4 DEF SweepCredits, Stop, Turn, Blank
  <2>5. CASE Turn(b, k) \/ UNCHANGED call
    BY <1>0, <1>1, <2>5 DEF Turn
  <2>6. /\ "record" \in Writing /\ "publish" \in Writing
        /\ "notice" \in Writing /\ "sweep" \in Writing
    BY DEF Writing
  <2> HIDE DEF Kin, n
  <2> QED
    BY <2>1, <2>2, <2>3, <2>4, <2>5, <2>6
       DEF GoesOn, AttachInstructor, AttachStudent, RecordSeries,
           RecordOccurrence, Publish, CaptureBooking
<1> QED
  BY <1>1, <1>2, <1>3

(* At first there are no rows, and nothing has been checked.               *)
LEMMA InitWarned == Init => WarnedInv
<1> SUFFICES ASSUME Init, NEW b \in Bookings
             PROVE  /\ \A d \in call[b].earlier : call[d].at \in Ended
                    /\ Warned(b, call[b], row)
  BY DEF WarnedInv
<1>1. /\ call[b].at = "idle" /\ call[b].earlier = {}
      /\ \A j \in Planned(b) : row[<<b, j>>] = None
  BY Occurrences DEF Init, Blank
<1>2. Checked(b, call[b]) = {}
  BY <1>1 DEF Checked, Through, Writing
<1> QED
  BY <1>1, <1>2 DEF Warned, Writing

(* No step loses a warning.                                                *)
LEMMA NextWarned ==
  PlacedInv /\ WholeInv /\ WarnedInv /\ [Next]_vars => WarnedInv'
<1> SUFFICES ASSUME PlacedInv, WholeInv, WarnedInv, [Next]_vars
             PROVE  WarnedInv'
  OBVIOUS
<1>1. CASE UNCHANGED <<row, call>>
  BY <1>1 DEF WarnedInv, Warned, Crossed
<1>2. ASSUME NEW b \in Bookings, Step(b) PROVE WarnedInv'
  <2>1. CASE Falls(b)
    BY <1>2, <2>1, FallsWarned
  <2>2. CASE GoesOn(b)
    BY <1>2, <2>2, GoesOnTo, GoesOnWarned
  <2>3. CASE ~Falls(b) /\ ~GoesOn(b)
    BY <1>2, <2>3, ResolveWarned, CheckWarned, ConfirmWarned, WriteWarned
       DEF Step, Falls, GoesOn
  <2> QED
    BY <2>1, <2>2, <2>3
<1> QED
  BY <1>1, <1>2 DEF Next, Rest, Join, Withdraw, vars, written

(* Whoever is in two live sessions at once was booked over a warning, or   *)
(* into both by bookings made at the same time; and nobody is in two       *)
(* sessions of one booking at once.                                        *)
THEOREM ClashesAlwaysFlagged == Spec => []StudentClashFlagged
<1>1. PlacedInv /\ WholeInv /\ WarnedInv => StudentClashFlagged
  <2> SUFFICES ASSUME PlacedInv, WholeInv, WarnedInv,
                      NEW o \in Occ, NEW p \in Occ, Together(o, p)
               PROVE  /\ o[1] # p[1]
                      /\ Live(o) /\ Live(p) /\ o[1] \in call[p[1]].earlier
                           => row[p].overridden
    BY DEF StudentClashFlagged
  <2>0. /\ o[1] \in Bookings /\ o[2] \in Planned(o[1]) /\ o = <<o[1], o[2]>>
        /\ p[1] \in Bookings /\ p[2] \in Planned(p[1]) /\ p = <<p[1], p[2]>>
        /\ row[o] # None /\ row[p] # None
    BY Occurrences DEF Together
  <2>1. Faithful(o[1], o[2], call[o[1]], row[o])
        /\ Faithful(p[1], p[2], call[p[1]], row[p])
    BY <2>0 DEF WholeInv, Whole, RowsFaithful
  <2>2. /\ row[o].slot = Slots[o[1]][o[2]]
        /\ row[p].slot = Slots[p[1]][p[2]]
        /\ row[p].roster \subseteq call[p[1]].students
    BY <2>0, <2>1 DEF Faithful
  <2>3. Warned(p[1], call[p[1]], row)
    BY <2>0 DEF WarnedInv
  <2>4. o[1] # p[1]
    <3> SUFFICES ASSUME o[1] = p[1] PROVE FALSE
      OBVIOUS
    <3>1. o[2] # p[2]
      BY <2>0 DEF Together
    <3>2. SelfOverlaps(p[1])
      BY <2>0, <2>2, <3>1 DEF SelfOverlaps, Together
    <3> QED
      BY <2>0, <2>3, <3>2 DEF Warned
  <2>5. ASSUME Live(o), o[1] \in call[p[1]].earlier PROVE row[p].overridden
    <3>1. row[o].roster \cap call[p[1]].students # {}
      BY <2>2 DEF Together
    <3>2. Crossed(p[1], p[2], call[p[1]], row)
      BY <2>2, <2>5, <3>1 DEF Crossed, Live, Together
    <3> QED
      BY <2>0, <2>3, <3>2 DEF Warned
  <2> QED
    BY <2>4, <2>5
<1> QED
  BY <1>1, InitPlaced, NextPlaced, InitWhole, NextWhole, InitWarned, NextWarned,
     PTL DEF Spec
=============================================================================
