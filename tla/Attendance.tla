----------------------------- MODULE Attendance -----------------------------
(***************************************************************************)
(* The attendance of one session: the form that names every participant    *)
(* with a mark to choose, the two buttons under it (recordAttendance of    *)
(* app/actions/sessions.ts, markAttendance and markAllPresent of           *)
(* lib/services/sessionOps.ts), and the marks the school hands over        *)
(* (applyInboundAttendance) in between.  Every statement commits by        *)
(* itself; the rows are read once, when the form arrives.                  *)
(*                                                                         *)
(* Abstracted: who marked and when; the times of joining and leaving are   *)
(* known or not.                                                           *)
(***************************************************************************)
EXTENDS Integers, Sequences, FiniteSets, SequencesExt

CONSTANTS
  Participant,  \* rows of session_participant
  Student,      \* those in the role of a student
  Statuses,     \* the statuses people choose from
  FromSchool,   \* and those the school hands over
  Calls,        \* requests, each sent once
  MaxInFlight,  \* how many forms are worked on at a time
  MayCrash,     \* whether a request may stop half-way
  None

AttendanceStatus == {"UNMARKED", "PRESENT", "LATE", "LEFT_EARLY",
                     "INCOMPLETE", "ABSENT", "EXCUSED"}
PRESENT_STATES == {"PRESENT", "LATE", "LEFT_EARLY", "INCOMPLETE"}

ASSUME AttendanceAssumption ==
  /\ Student \subseteq Participant
  /\ {"UNMARKED", "PRESENT"} \subseteq Statuses
  /\ Statuses \subseteq AttendanceStatus
  /\ FromSchool \subseteq {"UNMARKED", "PRESENT", "LATE", "ABSENT"}
  /\ IsFiniteSet(Participant)
  /\ MaxInFlight \in Nat /\ MayCrash \in BOOLEAN
  /\ None \notin [who : Participant,
                 left : [status : AttendanceStatus, times : BOOLEAN]]

VARIABLES
  mark,  \* session_participant
  trail, \* audit_event: what was recorded of a participant, in order
  call,  \* what each request was sent with, and where it stands
  apart  \* whose row has been in one hand at a time: nobody wrote it while
         \* another had to, the school did not, no writer stopped at it

vars == <<mark, trail, call, apart>>

Source == {"nobody", "MANUAL", "BULK", "SYSTEM"}
Mark == [status : AttendanceStatus, times : BOOLEAN, source : Source]
Fields(m) == [status |-> m.status, times |-> m.times]
Snapshot == [status : AttendanceStatus, times : BOOLEAN]
Event == [before : Snapshot, after : Snapshot]

Unmarked == [status |-> "UNMARKED", times |-> FALSE, source |-> "nobody"]
Sheet == [Participant -> AttendanceStatus \cup {None}]

(* form: what was sent; read: the rows as the request read them; todo: whom*)
(* it has still to mark; cur: whom it marked last, and how.                *)
CallState ==
  [at : {"idle", "mark", "record", "done", "dead"},
   button : {"none", "save", "bulk"}, form : Sheet,
   read : [Participant -> Mark],
   todo : SUBSET Participant,
   cur : [who : Participant, left : Snapshot] \cup {None}]

Blank == [at |-> "idle", button |-> "none",
          form |-> [p \in Participant |-> "UNMARKED"],
          read |-> [p \in Participant |-> Unmarked], todo |-> {}, cur |-> None]

Init ==
  /\ mark = [p \in Participant |-> Unmarked]
  /\ trail = [p \in Participant |-> <<>>]
  /\ call = [c \in Calls |-> Blank]
  /\ apart = Participant

-----------------------------------------------------------------------------
Active(c) == call[c].at \in {"mark", "record"}
Admitted == Cardinality({c \in Calls : Active(c)}) < MaxInFlight
Turn(c, k) == call' = [call EXCEPT ![c] = k]
Recording(c, p) == call[c].at = "record" /\ call[c].cur.who = p
InHand(c, p) == (Active(c) /\ p \in call[c].todo) \/ Recording(c, p)
Reaching(c, p) ==
  apart' = {q \in apart : q = p => \A d \in Calls \ {c} : ~InHand(d, p)}
Onward(k) == IF k.todo = {} THEN [Blank EXCEPT !.at = "done"]
             ELSE [k EXCEPT !.at = "mark"]

(* A form is sent whole: a value for everybody, chosen now or as it was    *)
(* drawn some time ago.  Whoever has the mark sent is passed over, and so  *)
(* is whoever is sent a value that is none (None here).                    *)
Save(c) ==
  /\ call[c].at = "idle" /\ Admitted
  /\ \E form \in [Participant -> Statuses \cup {None}] :
       Turn(c, Onward([call[c] EXCEPT
         !.button = "save", !.form = form, !.read = mark,
         !.todo = {p \in Participant : /\ form[p] # None
                                      /\ form[p] # mark[p].status}]))
  /\ UNCHANGED <<mark, trail, apart>>

(* The other button: whom nobody has judged yet.                           *)
MarkEverybodyPresent(c) ==
  /\ call[c].at = "idle" /\ Admitted
  /\ Turn(c, Onward([call[c] EXCEPT
       !.button = "bulk", !.read = mark,
       !.todo = {p \in Student : mark[p].status # "PRESENT"}]))
  /\ UNCHANGED <<mark, trail, apart>>

MarkAllPresent(c) ==
  /\ call[c].at = "idle" /\ Admitted
  /\ Turn(c, Onward([call[c] EXCEPT
       !.button = "bulk", !.read = mark,
       !.todo = {p \in Student : mark[p].status = "UNMARKED"}]))
  /\ UNCHANGED <<mark, trail, apart>>

(* markAttendance writes by id, and the times the form does not send are   *)
(* written as unknown.                                                     *)
Asked(k, p) == IF k.button = "bulk" THEN "PRESENT" ELSE k.form[p]
MarkWithoutEvent(c) ==
  /\ call[c].at = "mark"
  /\ \E p \in call[c].todo :
       LET left == [status |-> Asked(call[c], p), times |-> FALSE]
       IN /\ mark' = [mark EXCEPT ![p] =
                        [status |-> left.status, times |-> left.times,
                         source |-> IF call[c].button = "bulk" THEN "BULK"
                                    ELSE "MANUAL"]]
          /\ Turn(c, [call[c] EXCEPT
                        !.at = IF call[c].todo = {p} THEN "record" ELSE "mark",
                        !.todo = @ \ {p}, !.cur = [who |-> p, left |-> left]])
          /\ Reaching(c, p)
  /\ UNCHANGED trail

MarkOne(c) ==
  /\ call[c].at = "mark"
  /\ \E p \in call[c].todo :
       LET left == [status |-> Asked(call[c], p), times |-> FALSE]
       IN /\ mark' = [mark EXCEPT ![p] =
                        [status |-> left.status, times |-> left.times,
                         source |-> IF call[c].button = "bulk" THEN "BULK"
                                    ELSE "MANUAL"]]
          /\ Turn(c, [call[c] EXCEPT !.at = "record", !.todo = @ \ {p},
                                     !.cur = [who |-> p, left |-> left]])
          /\ Reaching(c, p)
  /\ UNCHANGED trail

RecordUnread(c) ==
  /\ call[c].at = "record"
  /\ LET w == call[c].cur
     IN trail' = [trail EXCEPT ![w.who] =
                    Append(@, [before |-> Fields(Unmarked), after |-> w.left])]
  /\ Turn(c, Onward(call[c]))
  /\ UNCHANGED <<mark, apart>>

(* What the event says was there before is what the request had read.      *)
Record(c) ==
  /\ call[c].at = "record"
  /\ LET w == call[c].cur
     IN trail' = [trail EXCEPT ![w.who] =
                    Append(@, [before |-> Fields(call[c].read[w.who]),
                               after |-> w.left])]
  /\ Turn(c, Onward(call[c]))
  /\ UNCHANGED <<mark, apart>>

(* A mark from the school goes to the student's row, with no event.        *)
Inbound(p, s) ==
  /\ p \in Student
  /\ \E known \in BOOLEAN :
       mark' = [mark EXCEPT ![p] =
                  [status |-> s, times |-> known, source |-> "SYSTEM"]]
  /\ apart' = apart \ {p}
  /\ UNCHANGED <<trail, call>>

Crash(c) ==
  /\ MayCrash /\ Active(c)
  /\ Turn(c, [Blank EXCEPT !.at = "dead", !.cur = call[c].cur])
  /\ apart' = {p \in apart : ~Recording(c, p)}
  /\ UNCHANGED <<mark, trail>>

(* Every request has been made and answered.                               *)
Rest == /\ \A c \in Calls : call[c].at \in {"done", "dead"}
        /\ UNCHANGED vars

Next ==
  \/ \E c \in Calls : \/ Save(c) \/ MarkAllPresent(c)
                      \/ MarkOne(c) \/ Record(c) \/ Crash(c)
  \/ \E p \in Participant, s \in FromSchool : Inbound(p, s)
  \/ Rest

Spec == Init /\ [][Next]_vars

-----------------------------------------------------------------------------
(* attendanceRate, and the grid's own rateOf over the marks it gathered:   *)
(* how many of those counted attended.                                     *)
CountingExcused(m) == {p \in Student : m[p].status # "UNMARKED"}
Counted(m) == {p \in Student : m[p].status \notin {"EXCUSED", "UNMARKED"}}
Attended(m) == {p \in Counted(m) : m[p].status \in PRESENT_STATES}

(* One share is at most another; nobody counted is no rate at all.         *)
RateAtMost(m, n) ==
  Counted(m) = {} \/ Counted(n) = {} \/
    Cardinality(Attended(m)) * Cardinality(Counted(n))
      <= Cardinality(Attended(n)) * Cardinality(Counted(m))

-----------------------------------------------------------------------------
(* Properties.                                                             *)

TypeOK ==
  /\ mark \in [Participant -> Mark]
  /\ trail \in [Participant -> Seq(Event)]
  /\ call \in [Calls -> CallState]
  /\ apart \subseteq Participant

(* Every mark made here is one an event tells of, or its writer has not    *)
(* come to the event yet, or stopped before it; whatever the requests and  *)
(* the school do between each other's statements.                          *)
AtHand(p) ==
  \E c \in Calls : call[c].cur = [who |-> p, left |-> Fields(mark[p])]
MarksAccounted ==
  \A p \in Participant :
    mark[p].source \in {"MANUAL", "BULK"} =>
      \/ \E i \in DOMAIN trail[p] : trail[p][i].after = Fields(mark[p])
      \/ AtHand(p)

(* An excused absence never depresses the rate of those who were expected. *)
ExcusingNeverLowers ==
  \A p \in Student : mark[p].status = "ABSENT" \/ mark[p].status = "UNMARKED" =>
    RateAtMost(mark, [mark EXCEPT ![p].status = "EXCUSED"])

(* Requests work side by side and stop anywhere; where no two of them had  *)
(* the same row in hand when one wrote it, and the school has not marked   *)
(* it, bulk marking fills only a place nobody has judged ...               *)
BulkFillsGaps ==
  [][\A p \in apart' :
       mark'[p] # mark[p] /\ mark'[p].source = "BULK"
         => mark[p].status = "UNMARKED"]_vars

(* ... and once whoever marked it has written its event, the events of the *)
(* row follow from one another, from nothing to the mark that stands: a    *)
(* form sent late, other forms on the rest of the list and a request that  *)
(* stopped between two rows do not break its history.                      *)
HistoryConnected ==
  \A p \in apart : (\A c \in Calls : ~Recording(c, p)) =>
    LET seen == <<[before |-> Fields(Unmarked), after |-> Fields(Unmarked)]>>
                  \o trail[p]
    IN /\ \A i \in 2..Len(seen) : seen[i].before = seen[i - 1].after
       /\ Last(seen).after = Fields(mark[p])
=============================================================================
