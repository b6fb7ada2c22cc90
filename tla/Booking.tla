------------------------------ MODULE Booking ------------------------------
(***************************************************************************)
(* lib/services/booking.ts: how sessions come to be.  The action of the    *)
(* booking form (bookingStep of app/actions/booking.ts) makes a plan and,  *)
(* when the form is confirmed, writes it: meetings at the provider first,  *)
(* then the series, the occurrences one by one, the participants, the      *)
(* audit events, the shared copies, the notices, and the credit sweep.     *)
(* The client it is handed opens no transaction, so each statement commits *)
(* by itself, other bookings run in between, and a statement that throws   *)
(* leaves what was written before it.                                      *)
(*                                                                         *)
(* Abstracted: the expansion of the rule (a plan is its slots), settings   *)
(* and form checks (a refused plan writes nothing), what publication and   *)
(* the sweep do statement by statement (SchoolSync, SessionOps).  A        *)
(* preview is a booking that ends before it is confirmed.                  *)
(***************************************************************************)
EXTENDS SessionPolicy, Integers, Sequences, FiniteSets

CONSTANTS
  Bookings,    \* confirmed forms, each sent once
  Slots,       \* the slots of each, in the order of its plan
  Instructor,  \* who teaches it
  Room,        \* its location when it is in person, or None
  Chosen,      \* the students picked one by one
  ByGroup,     \* the bookings that name the group as well
  Asked,       \* those a student makes: requests, to be approved
  Meeting,     \* those that ask for a meeting of every session
  Override,    \* those sent with "book over conflicts"
  Outside,     \* for each, the positions outside the declared hours
  Student, Capacity,
  Withdrawn,   \* the pairs of mayTeach somebody may come to withdraw
  Joining,     \* the students who may come to join the group
  MaxMade,     \* how many of the bookings are made
  MaxInFlight, \* how many the server works on at a time
  MayCrash,    \* whether the process may stop, or a statement throw
  MayOrphan,   \* whether the provider may fail to delete
  None

Slot == {s \in [from : Int, to : Int] : s.from < s.to}
Planned(b) == DOMAIN Slots[b]
Occ == UNION {{b} \X Planned(b) : b \in Bookings}

ASSUME BookingAssumption ==
  /\ \A b \in Bookings : Slots[b] \in Seq(Slot) /\ Slots[b] # <<>>
  /\ Chosen \in [Bookings -> SUBSET Student]
  /\ \A b \in Bookings : b \in ByGroup \/ Chosen[b] # {}
  /\ \A b \in Bookings : Instructor[b] # None
  /\ Outside \in [Bookings -> SUBSET Nat]
  /\ None \notin Slot
  /\ Capacity \in Nat /\ MaxMade \in Nat /\ MaxInFlight \in Nat
  /\ Joining \subseteq Student
  /\ MayCrash \in BOOLEAN /\ MayOrphan \in BOOLEAN

VARIABLES
  group,    \* group_member: the students of the group
  mayTeach, \* the pairs <<instructor, student>> that eligibility admits
  zoom,     \* meetings the provider holds, by the session they are for
  series,   \* session_series: how far each booking's series has got
  row,      \* session_occurrence with its participants, or None
  follow,   \* what was written after each: event, notices
  shared,   \* the roster of its published copy, or None
  call      \* each booking's plan, and where it stands

vars == <<group, mayTeach, zoom, series, row, follow, shared, call>>
people == <<group, mayTeach>>
written == <<zoom, series, row, follow, shared>>

Planning == {"eligible", "check", "confirm"}
Writing == {"series", "write", "attach", "record", "publish", "notice", "sweep"}
Running == Planning \cup Writing \cup {"meet", "discard"}
Ended == {"done", "failed", "dead"}

Row == [status : {"REQUESTED", "SCHEDULED", "CANCELLED"}, slot : Slot,
        overridden : BOOLEAN, link : Occ \cup {None},
        taught : BOOLEAN, roster : SUBSET Student]

ASSUME RowAssumption == None \notin Row

(* i: the position at hand; students: the roster as resolved; soft: the    *)
(* positions with a conflict one may override; blocked: one nobody may;    *)
(* made: how many meetings exist; earlier: the bookings that had ended     *)
(* when this one came.                                                     *)
CallState ==
  [at : {"idle"} \cup Running \cup Ended, i : Nat, students : SUBSET Student,
   soft : SUBSET Nat, blocked : BOOLEAN, made : Nat,
   earlier : SUBSET Bookings]

Blank == [at |-> "idle", i |-> 1, students |-> {}, soft |-> {},
          blocked |-> FALSE, made |-> 0, earlier |-> {}]

Init ==
  /\ group = Student \ Joining
  /\ mayTeach = {Instructor[b] : b \in Bookings} \X Student
  /\ zoom = {}
  /\ series = [b \in Bookings |-> "none"]
  /\ row = [o \in Occ |-> None]
  /\ follow = [o \in Occ |-> {}]
  /\ shared = [o \in Occ |-> None]
  /\ call = [b \in Bookings |-> Blank]

-----------------------------------------------------------------------------
(* The calendar.                                                           *)

Overlap(s, t) == s.from < t.to /\ t.from < s.to
Live(o) == row[o] # None /\ row[o].status \in BLOCKING_STATUSES
Rivals(b, d) == \/ Instructor[b] = Instructor[d]
                \/ Room[b] # None /\ Room[b] = Room[d]

BusyWith(s) == {p \in Occ : Live(p) /\ Overlap(row[p].slot, s)}
AbsoluteClash(b, s) == \E p \in BusyWith(s) : Rivals(b, p[1])
StudentClash(students, s) ==
  \E p \in BusyWith(s) : row[p].roster \cap students # {}

(* Sessions of one plan that would overlap each other.                     *)
SelfOverlaps(b) ==
  \E i, j \in Planned(b) : i # j /\ Overlap(Slots[b][i], Slots[b][j])

(* assertEligible: the instructor may teach everybody who will sit there.  *)
Eligible(b) == \A s \in call[b].students : <<Instructor[b], s>> \in mayTeach

Active(b) == call[b].at \in Running
Admitted == /\ Cardinality({b \in Bookings : Active(b)}) < MaxInFlight
            /\ Cardinality({b \in Bookings : call[b].at # "idle"}) < MaxMade
Turn(b, k) == call' = [call EXCEPT ![b] = k]
Stand(b, at) == Turn(b, [call[b] EXCEPT !.at = at, !.i = 1])
Stop(b, at) == Turn(b, [Blank EXCEPT !.at = at, !.students = call[b].students,
                                     !.earlier = call[b].earlier])
Here(b) == <<b, call[b].i>>

(* On to the next position, or after the last one to the next stage.       *)
Each(b, k, next) ==
  IF k.i < Len(Slots[b]) THEN [k EXCEPT !.i = @ + 1]
                         ELSE [k EXCEPT !.at = next, !.i = 1]

AfterMeetings(b) == IF Len(Slots[b]) > 1 THEN "series" ELSE "write"
Fail(b) == IF call[b].made > 0 THEN Stand(b, "discard") ELSE Stop(b, "failed")

-----------------------------------------------------------------------------
(* The plan.                                                               *)

(* resolveStudents: a group is expanded once.                              *)
ResolveStudents(b) ==
  /\ call[b].at = "idle" /\ Admitted
  /\ b \in ByGroup => Cardinality(group) <= Capacity
  /\ Turn(b, [Blank EXCEPT
       !.at = "eligible",
       !.students = Chosen[b] \cup (IF b \in ByGroup THEN group ELSE {}),
       !.earlier = {d \in Bookings : call[d].at \in Ended}])
  /\ UNCHANGED <<people, written>>

(* A plan is refused for the group's size, for eligibility, for a student's*)
(* credits: nothing has been written.                                      *)
RefusePlan(b) ==
  /\ \/ /\ call[b].at = "idle" /\ Admitted
        /\ b \in ByGroup /\ Cardinality(group) > Capacity
     \/ call[b].at = "eligible" /\ (b \in Asked \/ ~Eligible(b))
  /\ Stop(b, "failed")
  /\ UNCHANGED <<people, written>>

AssertEligible(b) ==
  /\ call[b].at = "eligible" /\ Eligible(b)
  /\ Stand(b, "check")
  /\ UNCHANGED <<people, written>>

(* check, for each position of the plan.                                   *)
CheckIgnoringStudents(b) ==
  /\ call[b].at = "check"
  /\ LET k == call[b]
         s == Slots[b][k.i]
     IN Turn(b, Each(b, [k EXCEPT
          !.blocked = @ \/ AbsoluteClash(b, s),
          !.soft = @ \cup {i \in {k.i} : i \in Outside[b]}],
          "confirm"))
  /\ UNCHANGED <<people, written>>

Check(b) ==
  /\ call[b].at = "check"
  /\ LET k == call[b]
         s == Slots[b][k.i]
     IN Turn(b, Each(b, [k EXCEPT
          !.blocked = @ \/ AbsoluteClash(b, s),
          !.soft = @ \cup {i \in {k.i} : \/ StudentClash(k.students, s)
                                        \/ i \in Outside[b]}],
          "confirm"))
  /\ UNCHANGED <<people, written>>

(* createFromPlan judges the plan, and asks for eligibility again.         *)
Acceptable(b) ==
  /\ ~SelfOverlaps(b)
  /\ ~call[b].blocked
  /\ call[b].soft # {} => b \in Override
  /\ Eligible(b)

Confirm(b) ==
  /\ call[b].at = "confirm" /\ Acceptable(b)
  /\ Stand(b, IF b \in Meeting THEN "meet" ELSE AfterMeetings(b))
  /\ UNCHANGED <<people, written>>

RefuseConfirm(b) ==
  /\ call[b].at = "confirm" /\ ~Acceptable(b)
  /\ Stop(b, "failed")
  /\ UNCHANGED <<people, written>>

-----------------------------------------------------------------------------
(* Meetings, before anything is written.                                   *)

CreateMeeting(b) ==
  /\ call[b].at = "meet"
  /\ zoom' = zoom \cup {Here(b)}
  /\ Turn(b, Each(b, [call[b] EXCEPT !.made = @ + 1], AfterMeetings(b)))
  /\ UNCHANGED <<people, series, row, follow, shared>>

(* The provider refuses one: those made before it are taken back.          *)
MeetingFails(b) ==
  /\ call[b].at = "meet"
  /\ Fail(b)
  /\ UNCHANGED <<people, written>>

(* discardMeetings, one after another; a deletion that fails is swallowed. *)
DiscardButLast(b) ==
  /\ call[b].at = "discard"
  /\ LET k == call[b]
     IN /\ \E gone \in {TRUE} \cup {~MayOrphan} :
             zoom' = IF gone /\ k.i < k.made THEN zoom \ {Here(b)} ELSE zoom
        /\ IF k.i < k.made THEN Turn(b, [k EXCEPT !.i = @ + 1])
                           ELSE Stop(b, "failed")
  /\ UNCHANGED <<people, series, row, follow, shared>>

Discard(b) ==
  /\ call[b].at = "discard"
  /\ LET k == call[b]
     IN /\ \E gone \in {TRUE} \cup {~MayOrphan} :
             zoom' = IF gone THEN zoom \ {Here(b)} ELSE zoom
        /\ IF k.i < k.made THEN Turn(b, [k EXCEPT !.i = @ + 1])
                           ELSE Stop(b, "failed")
  /\ UNCHANGED <<people, series, row, follow, shared>>

-----------------------------------------------------------------------------
(* writePlan.                                                              *)

WriteSeries(b) ==
  /\ call[b].at = "series"
  /\ series' = [series EXCEPT ![b] = "written"]
  /\ Stand(b, "write")
  /\ UNCHANGED <<people, zoom, row, follow, shared>>

NewRow(b) ==
  LET i == call[b].i
  IN [status |-> IF b \in Asked THEN "REQUESTED" ELSE "SCHEDULED",
      slot |-> Slots[b][i],
      overridden |-> i \in call[b].soft /\ b \in Override,
      link |-> IF b \in Meeting THEN Here(b) ELSE None,
      taught |-> FALSE, roster |-> {}]

(* The exclusion constraints judge the insert; a request holds no slot.    *)
Fits(b) == b \in Asked \/ ~AbsoluteClash(b, Slots[b][call[b].i])

WriteUnconstrained(b) ==
  /\ call[b].at = "write"
  /\ row' = [row EXCEPT ![Here(b)] = NewRow(b)]
  /\ Turn(b, Each(b, call[b], "attach"))
  /\ UNCHANGED <<people, zoom, series, follow, shared>>

WriteOccurrence(b) ==
  /\ call[b].at = "write" /\ Fits(b)
  /\ row' = [row EXCEPT ![Here(b)] = NewRow(b)]
  /\ Turn(b, Each(b, call[b], "attach"))
  /\ UNCHANGED <<people, zoom, series, follow, shared>>

(* The insert violates a constraint and throws.                            *)
WriteClashes(b) ==
  /\ call[b].at = "write" /\ ~Fits(b)
  /\ Fail(b)
  /\ UNCHANGED <<people, written>>

(* attachParticipants: the instructor, then the students of the plan.      *)
AttachInstructor(b) ==
  /\ call[b].at = "attach" /\ ~row[Here(b)].taught
  /\ row' = [row EXCEPT ![Here(b)].taught = TRUE]
  /\ Turn(b, IF call[b].students = {} THEN Each(b, call[b], "record")
                                      ELSE call[b])
  /\ UNCHANGED <<people, zoom, series, follow, shared>>

AttachMember(b) ==
  LET r == row[Here(b)]
      now == IF b \in ByGroup THEN Chosen[b] \cup group ELSE call[b].students
  IN
  /\ call[b].at = "attach" /\ r.taught
  /\ row' = [row EXCEPT ![Here(b)].roster = now]
  /\ Turn(b, Each(b, call[b], "record"))
  /\ UNCHANGED <<people, zoom, series, follow, shared>>

AttachStudent(b) ==
  LET r == row[Here(b)]
      left == call[b].students \ r.roster
  IN
  /\ call[b].at = "attach" /\ r.taught
  /\ \E s \in left :
       /\ row' = [row EXCEPT ![Here(b)].roster = @ \cup {s}]
       /\ Turn(b, IF left = {s} THEN Each(b, call[b], "record") ELSE call[b])
  /\ UNCHANGED <<people, zoom, series, follow, shared>>

RecordSeries(b) ==
  /\ call[b].at = "record" /\ series[b] = "written"
  /\ series' = [series EXCEPT ![b] = "recorded"]
  /\ UNCHANGED <<people, zoom, row, follow, shared, call>>

RecordOccurrence(b) ==
  /\ call[b].at = "record" /\ series[b] # "written"
  /\ follow' = [follow EXCEPT ![Here(b)] = @ \cup {"event"}]
  /\ Turn(b, Each(b, call[b], "publish"))
  /\ UNCHANGED <<people, zoom, series, row, shared>>

Publish(b) ==
  /\ call[b].at = "publish"
  /\ shared' = [shared EXCEPT ![Here(b)] = row[Here(b)].roster]
  /\ Turn(b, Each(b, call[b], "notice"))
  /\ UNCHANGED <<people, zoom, series, row, follow>>

CaptureBooking(b) ==
  /\ call[b].at = "notice"
  /\ follow' = [follow EXCEPT ![Here(b)] = @ \cup {"confirmation", "reminder"}]
  /\ Turn(b, Each(b, call[b], "sweep"))
  /\ UNCHANGED <<people, zoom, series, row, shared>>

(* Requests of students short of a credit are cancelled, anybody's.        *)
Sweepable == {o \in Occ : /\ row[o] # None /\ o[1] \in Asked
                          /\ row[o].status = "REQUESTED" /\ row[o].roster # {}}
SweepCredits(b) ==
  /\ call[b].at = "sweep"
  /\ \E short \in SUBSET Sweepable :
       row' = [o \in Occ |-> IF o \in short
                             THEN [row[o] EXCEPT !.status = "CANCELLED"]
                             ELSE row[o]]
  /\ Stop(b, "done")
  /\ UNCHANGED <<people, zoom, series, follow, shared>>

(* A statement of writePlan throws; the process stops.                     *)
Throw(b) ==
  /\ MayCrash /\ call[b].at \in Writing
  /\ Fail(b)
  /\ UNCHANGED <<people, written>>

Crash(b) ==
  /\ MayCrash /\ Active(b)
  /\ Stop(b, "dead")
  /\ UNCHANGED <<people, written>>

-----------------------------------------------------------------------------
(* What other people do meanwhile.                                         *)

Join(s) == /\ s \in Joining \ group
           /\ group' = group \cup {s}
           /\ UNCHANGED <<mayTeach, written, call>>

Withdraw(pair) == /\ pair \in mayTeach
                  /\ mayTeach' = mayTeach \ {pair}
                  /\ UNCHANGED <<group, written, call>>

(* No booking is being made, and none has to come.                         *)
Rest == (\A b \in Bookings : ~Active(b)) /\ UNCHANGED vars

Step(b) ==
  \/ ResolveStudents(b) \/ RefusePlan(b) \/ AssertEligible(b) \/ Check(b)
  \/ Confirm(b) \/ RefuseConfirm(b)
  \/ CreateMeeting(b) \/ MeetingFails(b) \/ Discard(b)
  \/ WriteSeries(b) \/ WriteOccurrence(b) \/ WriteClashes(b)
  \/ AttachInstructor(b) \/ AttachStudent(b)
  \/ RecordSeries(b) \/ RecordOccurrence(b)
  \/ Publish(b) \/ CaptureBooking(b) \/ SweepCredits(b)
  \/ Throw(b) \/ Crash(b)

Next ==
  \/ Rest
  \/ \E b \in Bookings : Step(b)
  \/ \E s \in Joining : Join(s)
  \/ \E pair \in Withdrawn : Withdraw(pair)

Spec == Init /\ [][Next]_vars

-----------------------------------------------------------------------------
(* Properties.                                                             *)

TypeOK ==
  /\ group \subseteq Student
  /\ mayTeach \subseteq {Instructor[b] : b \in Bookings} \X Student
  /\ zoom \subseteq Occ
  /\ series \in [Bookings -> {"none", "written", "recorded"}]
  /\ row \in [Occ -> Row \cup {None}]
  /\ follow \in [Occ -> SUBSET {"event", "confirmation", "reminder"}]
  /\ shared \in [Occ -> (SUBSET Student) \cup {None}]
  /\ call \in [Bookings -> CallState]

(* A booking answered with success is there to the last statement: every   *)
(* session of the plan in its slot, with the roster that was checked (not  *)
(* what the group has become), its event, its copy and notices, and the    *)
(* link of a meeting of its own that exists.                               *)
DoneIsWhole ==
  \A b \in Bookings : call[b].at = "done" =>
    /\ Len(Slots[b]) > 1 => series[b] = "recorded"
    /\ \A i \in Planned(b) :
         LET o == <<b, i>> IN
         /\ row[o] # None /\ row[o].slot = Slots[b][i]
         /\ row[o].taught /\ row[o].roster = call[b].students
         /\ shared[o] = row[o].roster
         /\ follow[o] = {"event", "confirmation", "reminder"}
         /\ b \in Meeting => row[o].link = o /\ o \in zoom

(* A student is in two live sessions at once only where one was booked     *)
(* over the conflict and says so, or where the two were booked at the same *)
(* time; and never in two of one booking, requested ones included.         *)
Together(o, p) == /\ o # p /\ row[o] # None /\ row[p] # None
                  /\ row[o].roster \cap row[p].roster # {}
                  /\ Overlap(row[o].slot, row[p].slot)
StudentClashFlagged ==
  \A o, p \in Occ : Together(o, p) =>
    /\ o[1] # p[1]
    /\ Live(o) /\ Live(p) /\ o[1] \in call[p[1]].earlier => row[p].overridden

(* A booking that was refused, at whatever statement, has taken its        *)
(* meetings back (if the provider could); only a stopped process cannot.   *)
RefusedKeepsNoMeeting ==
  \A b \in Bookings : call[b].at = "failed" =>
    \A i \in Planned(b) : <<b, i>> \notin zoom

(* What the documentation says: all occurrences, or none.                  *)
AllOrNone ==
  \A b \in Bookings : call[b].at = "failed" =>
    \A i \in Planned(b) : row[<<b, i>>] = None

(* The sessions that bookings leave are a SlotBook too.                    *)
Contending == {{x[1], x[2]} : x \in {y \in Occ \X Occ :
                                       Rivals(y[1][1], y[2][1])}}
Held == [o \in Occ |-> IF Live(o) THEN row[o].slot ELSE None]
Book == INSTANCE SlotBook WITH Contend <- Contending, Free <- None, held <- Held
ImplementsSlotBook == Book!Spec
=============================================================================
