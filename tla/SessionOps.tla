----------------------------- MODULE SessionOps -----------------------------
(***************************************************************************)
(* lib/services/sessionOps.ts: every change made to a session that already *)
(* exists, as the server actions of app/actions/sessions.ts call it, with  *)
(* the credit sweep of lib/services/localNotices.ts that changes the same  *)
(* rows, and what each of them writes besides the row: the audit trail,    *)
(* the copy shared with the school application, the captured notices and   *)
(* the series' defaults.                                                   *)
(*                                                                         *)
(* The handlers run on a database client with no enclosing transaction, so *)
(* every statement commits by itself and two requests interleave between   *)
(* any two of them.  A call is one request: it loads the row, is judged on *)
(* what it loaded, and goes through its statements in the code's order.    *)
(*                                                                         *)
(* Abstracted: permissions and the notice window (a refused request writes *)
(* nothing), free text, time zones (a slot is a pair of instants on days   *)
(* of length Day), and the lookups that only feed a row's wording.         *)
(***************************************************************************)
EXTENDS SessionPolicy, Integers, FiniteSets

CONSTANTS
  Occ,            \* occurrences
  Calls,          \* requests, each made once
  MaxInFlight,    \* how many requests the server works on at a time
  Ops,            \* the operations requests may ask for
  None,           \* no slot, no series, no room, no copy, no argument
  Titles, FirstTitle,
  Instructor,     \* who teaches an occurrence, or None
  Room,           \* its location when it is in person, or None
  Students,       \* who is on it
  Series,         \* its series, or None
  StartSlot, StartStatus,
  Wanted,         \* slots a person may ask for
  Day,
  ShortOfCredit,  \* requests a student made without the credit for them
  MayCrash        \* whether the process may stop

Slot == {s \in [from : Int, to : Int] : s.from < s.to}

(* "sweep" is the credit sweep; every other name is the one the policy     *)
(* table uses.                                                             *)
AllOps == {"reschedule", "edit", "cancel", "restore", "complete",
           "mark_missed", "approve", "reject", "correct_actuals", "sweep"}

(* What booking, an earlier cancellation or an import left behind.  Only   *)
(* an import creates an occurrence in progress, and in no series.          *)
ASSUME ConstantsAssumption ==
  /\ FirstTitle \in Titles
  /\ None \notin Slot \cup Titles
  /\ StartSlot \in [Occ -> Slot]
  /\ StartStatus \in [Occ -> SUBSET {"REQUESTED", "SCHEDULED", "IN_PROGRESS",
                                     "CANCELLED"}]
  /\ \A o \in Occ : "IN_PROGRESS" \in StartStatus[o] => Series[o] = None
  /\ Wanted \subseteq Slot
  /\ Day \in Nat \ {0}
  /\ Ops \subseteq AllOps
  /\ ShortOfCredit \subseteq Occ
  /\ MayCrash \in BOOLEAN

VARIABLES
  row,         \* session_occurrence
  seriesTitle, \* session_series: the title later occurrences inherit
  trail,       \* audit_event: the after-images whose fields the events recorded
  shared,      \* shared_session: the published copy, or None
  notices,     \* captured_message: the slot each open notice names, or None
  call         \* what each request has read, and where it stands

vars == <<row, seriesTitle, trail, shared, notices, call>>
aside == <<seriesTitle, trail, shared, notices>>  \* all but row and call

Scope == {"THIS", "THIS_AND_FUTURE", "ALL"}
Kinds == {"reminder", "reschedule", "credit_warning", "credit_cancel"}
Ended == {"done", "failed", "dead"}
Stage == {"idle", "list", "target", "update", "publish", "push", "retire",
          "record", "notify", "capture", "defaults"} \cup Ended

Row == [status : Status, slot : Slot, detached : BOOLEAN, title : Titles,
        actual : Slot \cup {None}]
Image == [id : Occ, row : Row]          \* a row as a request read it
Copy == [status : SharedStatus, slot : Slot, title : Titles]
SeriesIds == {Series[o] : o \in Occ} \ {None}

(* anchor: the occurrence as loaded; todo: the targets still to be dealt   *)
(* with; lead: the anchor is not of the scope and goes first; cur: the     *)
(* target at hand, its updated row once it is written; changed: the rows   *)
(* moved, for the notices that follow.                                     *)
CallState ==
  [at : Stage, op : AllOps \cup {"none"}, anchor : Image \cup {None},
   scope : Scope, arg : Slot \cup Titles \cup {None}, lead : BOOLEAN,
   todo : SUBSET Image, cur : Image \cup {None}, copy : Copy \cup {None},
   changed : SUBSET Image]

Blank == [at |-> "idle", op |-> "none", anchor |-> None, scope |-> "THIS",
          arg |-> None, lead |-> FALSE, todo |-> {}, cur |-> None,
          copy |-> None, changed |-> {}]

-----------------------------------------------------------------------------
(* The calendar: who contends with whom, and what the database refuses.    *)

Overlap(s, t) == s.from < t.to /\ t.from < s.to
Blocking(r) == r.status \in BLOCKING_STATUSES

SameInstructor(o, p) == Instructor[o] # None /\ Instructor[o] = Instructor[p]
SameRoom(o, p) == Room[o] # None /\ Room[o] = Room[p]
SameStudent(o, p) == Students[o] \cap Students[p] # {}

(* The live sessions a slot for o would run into.                          *)
Busy(o, s) == {p \in Occ \ {o} : Blocking(row[p]) /\ Overlap(row[p].slot, s)}

(* ABSOLUTE_KINDS: the clashes nobody may override.                        *)
AbsoluteClash(o, s) ==
  \E p \in Busy(o, s) : SameInstructor(o, p) \/ SameRoom(o, p)
NoStudentClash(o, s) == FALSE
StudentClash(o, s) == \E p \in Busy(o, s) : SameStudent(o, p)

(* The exclusion constraint on rooms, without its partner on instructors.  *)
FitsRoomOnly(o, r) ==
  Blocking(r) => ~\E p \in Busy(o, r.slot) : SameRoom(o, p)

(* Both exclusion constraints, on the row an update would leave.           *)
Fits(o, r) == Blocking(r) => ~AbsoluteClash(o, r.slot)

Init ==
  /\ row \in [Occ -> {[status |-> x, slot |-> s, detached |-> FALSE,
                       title |-> FirstTitle, actual |-> None] :
                         x \in Status, s \in {StartSlot[o] : o \in Occ}}]
  /\ \A o \in Occ : /\ row[o].status \in StartStatus[o]
                    /\ row[o].slot = StartSlot[o]
                    /\ Fits(o, row[o])
  /\ seriesTitle = [s \in SeriesIds |-> FirstTitle]
  /\ trail = [o \in Occ |-> {row[o]}]
  /\ shared = [o \in Occ |->
                 IF row[o].status = "IN_PROGRESS" THEN None
                 ELSE [status |-> ToSharedStatus(row[o].status),
                       slot |-> row[o].slot, title |-> row[o].title]]
  /\ notices = [o \in Occ |-> [k \in Kinds |->
                  IF /\ k = "reminder"
                     /\ row[o].status \notin {"IN_PROGRESS", "CANCELLED"}
                  THEN row[o].slot ELSE None]]
  /\ call = [c \in Calls |-> Blank]

-----------------------------------------------------------------------------
(* A request and its targets.                                              *)

ImageOf(o) == [id |-> o, row |-> row[o]]

(* The status rule of the policy each handler asks.  Correcting recorded   *)
(* times asks about no status.                                             *)
PermittedByEdit(op, r) ==
  op = "correct_actuals"
    \/ StatusAllows(r.status, IF op = "reschedule" THEN "edit" ELSE op)
Permitted(op, r) == op = "correct_actuals" \/ StatusAllows(r.status, op)

ScopesOf(op, o) ==
  IF op \in {"reschedule", "edit", "cancel"} /\ Series[o] # None
  THEN Scope ELSE {"THIS"}

ArgsOf(op) == CASE op = "reschedule" -> Wanted
                [] op = "edit" -> Titles
                [] op = "correct_actuals" -> Wanted \cup {None}
                [] OTHER -> {None}

(* The same wall-clock time on the target's own day, the days between      *)
(* targets kept.                                                           *)
NewSlot(k, t) ==
  LET dayShift == (k.arg.from \div Day) - (k.anchor.row.slot.from \div Day)
      start == (t.row.slot.from \div Day + dayShift) * Day + (k.arg.from % Day)
  IN [from |-> start, to |-> start + (k.arg.to - k.arg.from)]

Skipped(k, t) == CASE k.op = "reschedule" -> NewSlot(k, t) = t.row.slot
                   [] k.op = "edit" -> k.arg = t.row.title
                   [] k.op = "cancel" -> t.row.status \notin CANCELLABLE_STATUSES
                   [] OTHER -> FALSE

InScopeEvenDetached(a, scope, p) ==
  /\ Series[p] = Series[a.id]
  /\ row[p].status \notin SETTLED_STATUSES
  /\ scope = "THIS_AND_FUTURE" => row[p].slot.from >= a.row.slot.from

InScope(a, scope, p) ==
  /\ Series[p] = Series[a.id]
  /\ ~row[p].detached
  /\ row[p].status \notin SETTLED_STATUSES
  /\ scope = "THIS_AND_FUTURE" => row[p].slot.from >= a.row.slot.from

(* The handler's loop goes by start time, an anchor from outside first.    *)
Fronts(k, S) ==
  LET first == {t \in S : k.lead /\ t.id = k.anchor.id}
  IN IF first # {} THEN first
     ELSE {t \in S : \A u \in S : t.row.slot.from <= u.row.slot.from}

Done == [Blank EXCEPT !.at = "done"]

(* What a request turns to when it has finished with a target.             *)
Advance(k) ==
  CASE k.todo # {} -> [k EXCEPT !.at = "target", !.cur = None, !.copy = None]
    [] k.todo = {} /\ k.op = "reschedule" /\ k.changed # {} ->
         [k EXCEPT !.at = "notify", !.cur = None, !.copy = None]
    [] k.todo = {} /\ k.op = "edit" /\ k.scope # "THIS" ->
         [k EXCEPT !.at = "defaults", !.cur = None, !.copy = None]
    [] OTHER -> Done

Reach(k, S) == Advance([k EXCEPT !.todo = {t \in S : ~Skipped(k, t)}])

Fail(k) == [Blank EXCEPT !.at = "failed", !.op = k.op, !.changed = k.changed]

Active(c) == call[c].at \notin {"idle"} \cup Ended
Admitted == Cardinality({c \in Calls : Active(c)}) < MaxInFlight

(* loadSession and the policy decision on what it read.                    *)
Load(c) ==
  /\ call[c].at = "idle" /\ Admitted
  /\ \E op \in Ops \ {"sweep"}, o \in Occ :
       /\ Permitted(op, row[o])
       /\ \E scope \in ScopesOf(op, o), arg \in ArgsOf(op) :
            LET k == [Blank EXCEPT !.op = op, !.anchor = ImageOf(o),
                                   !.scope = scope, !.arg = arg]
            IN call' = [call EXCEPT ![c] =
                          IF scope = "THIS" THEN Reach(k, {ImageOf(o)})
                          ELSE [k EXCEPT !.at = "list"]]
  /\ UNCHANGED <<row, aside>>

(* The sweep reads the requests that are near enough, whichever those are, *)
(* and keeps the ones short of a credit.                                   *)
SweepLoad(c) ==
  /\ call[c].at = "idle" /\ Admitted
  /\ "sweep" \in Ops
  /\ \E S \in SUBSET {o \in ShortOfCredit : row[o].status = "REQUESTED"} :
       /\ S # {}
       /\ call' = [call EXCEPT ![c] =
                     Reach([Blank EXCEPT !.op = "sweep"], {ImageOf(o) : o \in S})]
  /\ UNCHANGED <<row, aside>>

(* occurrencesInScope, a query of its own: the rows are read again, but    *)
(* the anchor is used as it was loaded when the query leaves it out.       *)
List(c) ==
  /\ call[c].at = "list"
  /\ LET k == call[c]
         found == {ImageOf(p) : p \in {q \in Occ : InScope(k.anchor, k.scope, q)}}
         lead == \A t \in found : t.id # k.anchor.id
     IN call' = [call EXCEPT ![c] =
                   Reach([k EXCEPT !.lead = lead],
                         IF lead THEN found \cup {k.anchor} ELSE found)]
  /\ UNCHANGED <<row, aside>>

-----------------------------------------------------------------------------
(* The conflict check, its queries taken as one step.                      *)

NeedsCheck(op) == op \in {"reschedule", "approve"}

(* Availability is another module's matter: it may refuse any slot of an   *)
(* occurrence that has an instructor.  Approval minds only what is         *)
(* absolute.                                                               *)
CheckRefuses(c) ==
  /\ call[c].at = "target" /\ NeedsCheck(call[c].op)
  /\ \E t \in Fronts(call[c], call[c].todo) :
       IF call[c].op = "reschedule"
       THEN LET s == NewSlot(call[c], t)
            IN AbsoluteClash(t.id, s) \/ StudentClash(t.id, s)
                 \/ Instructor[t.id] # None
       ELSE AbsoluteClash(t.id, t.row.slot)
  /\ call' = [call EXCEPT ![c] = Fail(@)]
  /\ UNCHANGED <<row, aside>>

CheckPasses(c) ==
  /\ call[c].at = "target" /\ NeedsCheck(call[c].op)
  /\ \E t \in Fronts(call[c], call[c].todo) :
       /\ IF call[c].op = "reschedule"
          THEN LET s == NewSlot(call[c], t)
               IN ~AbsoluteClash(t.id, s) /\ ~StudentClash(t.id, s)
          ELSE ~AbsoluteClash(t.id, t.row.slot)
       /\ call' = [call EXCEPT ![c] = [@ EXCEPT !.at = "update", !.cur = t]]
  /\ UNCHANGED <<row, aside>>

-----------------------------------------------------------------------------
Wrote(k, t, new, next) ==
  LET image == [id |-> t.id, row |-> new]
  IN [k EXCEPT !.at = next, !.todo = @ \ {t}, !.cur = image,
               !.changed = @ \cup {image}]

(* One update statement by id, unconditional.  It writes the columns it    *)
(* names and returns the row; an exclusion constraint it would break makes *)
(* it throw, and the request ends there.                                   *)
Commit(c, t, new, next) ==
  /\ IF Fits(t.id, new)
     THEN /\ row' = [row EXCEPT ![t.id] = new]
          /\ call' = [call EXCEPT ![c] = Wrote(@, t, new, next)]
     ELSE /\ call' = [call EXCEPT ![c] = Fail(@)]
          /\ UNCHANGED row
  /\ UNCHANGED aside

(* It is target t's turn in request c, checked first where the handler does. *)
Turn(c, op, t) ==
  /\ call[c].op = op
  /\ IF NeedsCheck(op)
     THEN call[c].at = "update" /\ t = call[c].cur
     ELSE call[c].at = "target" /\ t \in Fronts(call[c], call[c].todo)

Detaches(k, t) == k.scope = "THIS" /\ Series[t.id] # None

(* Only a plain scheduled session takes the label.                         *)
RescheduleLabelsAll(c) == \E t \in call[c].todo :
  /\ Turn(c, "reschedule", t)
  /\ Commit(c, t, [row[t.id] EXCEPT !.slot = NewSlot(call[c], t),
                                    !.status = "RESCHEDULED"], "publish")

RescheduleUnpublished(c) == \E t \in call[c].todo :
  /\ Turn(c, "reschedule", t)
  /\ Commit(c, t, [row[t.id] EXCEPT !.slot = NewSlot(call[c], t)], "record")

Reschedule(c) == \E t \in call[c].todo :
  /\ Turn(c, "reschedule", t)
  /\ Commit(c, t,
       [row[t.id] EXCEPT
          !.slot = NewSlot(call[c], t),
          !.status = IF t.row.status = "SCHEDULED" THEN "RESCHEDULED" ELSE @,
          !.detached = @ \/ Detaches(call[c], t)],
       "publish")

EditDetails(c) == \E t \in call[c].todo :
  /\ Turn(c, "edit", t)
  /\ Commit(c, t, [row[t.id] EXCEPT !.title = call[c].arg,
                                    !.detached = @ \/ Detaches(call[c], t)],
            "publish")

Cancel(c) == \E t \in call[c].todo :
  /\ Turn(c, "cancel", t)
  /\ Commit(c, t, [row[t.id] EXCEPT !.status = "CANCELLED"], "publish")

(* The remaining operations change one row and record it.  Restoring runs  *)
(* no conflict check: the constraints are all that stands in its way.      *)
Restore(c) == \E t \in call[c].todo :
  /\ Turn(c, "restore", t)
  /\ Commit(c, t, [row[t.id] EXCEPT !.status = "SCHEDULED"], "record")

(* Actual times default to what was read, not to what is there by now.     *)
Complete(c) == \E t \in call[c].todo :
  /\ Turn(c, "complete", t)
  /\ Commit(c, t,
       [row[t.id] EXCEPT
          !.status = "COMPLETED",
          !.actual = IF t.row.actual = None THEN t.row.slot ELSE t.row.actual],
       "record")

MarkMissed(c) == \E t \in call[c].todo :
  /\ Turn(c, "mark_missed", t)
  /\ Commit(c, t, [row[t.id] EXCEPT !.status = "MISSED"], "record")

Approve(c) == \E t \in call[c].todo :
  /\ Turn(c, "approve", t)
  /\ Commit(c, t, [row[t.id] EXCEPT !.status = "SCHEDULED"], "record")

Reject(c) == \E t \in call[c].todo :
  /\ Turn(c, "reject", t)
  /\ Commit(c, t, [row[t.id] EXCEPT !.status = "REJECTED"], "record")

CorrectActualTimes(c) == \E t \in call[c].todo :
  /\ Turn(c, "correct_actuals", t)
  /\ Commit(c, t, [row[t.id] EXCEPT !.actual = call[c].arg], "record")

(* A day or less before the start the sweep cancels.                       *)
SweepCancel(c) == \E t \in call[c].todo :
  /\ Turn(c, "sweep", t)
  /\ Commit(c, t, [row[t.id] EXCEPT !.status = "CANCELLED"], "retire")

-----------------------------------------------------------------------------
(* What follows the update.                                                *)

(* An open notice of the same kind suppresses the new one.                 *)
Captured(open, kinds, s) ==
  [k \in Kinds |-> IF k \in kinds /\ open[k] = None THEN s ELSE open[k]]

Without(k, t) == [k EXCEPT !.todo = @ \ {t}]

(* Before that it only warns.                                              *)
SweepWarn(c) == \E t \in call[c].todo :
  /\ Turn(c, "sweep", t)
  /\ notices' = [notices EXCEPT ![t.id] =
                   Captured(@, {"credit_warning"}, t.row.slot)]
  /\ call' = [call EXCEPT ![c] = Advance(Without(@, t))]
  /\ UNCHANGED <<row, seriesTitle, trail, shared>>

(* publishOccurrence reads the row again and writes the copy several       *)
(* statements later.                                                       *)
PublishRead(c) ==
  /\ call[c].at = "publish"
  /\ LET r == row[call[c].cur.id]
         copy == [status |-> ToSharedStatus(r.status), slot |-> r.slot,
                  title |-> r.title]
     IN call' = [call EXCEPT ![c] = [@ EXCEPT !.at = "push", !.copy = copy]]
  /\ UNCHANGED <<row, aside>>

PublishWrite(c) ==
  /\ call[c].at = "push"
  /\ shared' = [shared EXCEPT ![call[c].cur.id] = call[c].copy]
  /\ LET next == IF call[c].op = "cancel" THEN "retire" ELSE "record"
     IN call' = [call EXCEPT ![c] = [@ EXCEPT !.at = next]]
  /\ UNCHANGED <<row, seriesTitle, trail, notices>>

RetireReminders(c) ==
  /\ call[c].at = "retire"
  /\ notices' = [notices EXCEPT ![call[c].cur.id]["reminder"] = None]
  /\ LET next == IF call[c].op = "cancel" THEN "record" ELSE "capture"
     IN call' = [call EXCEPT ![c] = [@ EXCEPT !.at = next]]
  /\ UNCHANGED <<row, seriesTitle, trail, shared>>

(* The image recorded is the one the update returned.                      *)
RecordBefore(c) ==
  /\ call[c].at = "record"
  /\ trail' = [trail EXCEPT ![call[c].cur.id] =
                 @ \cup IF call[c].anchor.id = call[c].cur.id
                        THEN {call[c].anchor.row} ELSE {call[c].cur.row}]
  /\ call' = [call EXCEPT ![c] = Advance(@)]
  /\ UNCHANGED <<row, seriesTitle, shared, notices>>

Record(c) ==
  /\ call[c].at = "record"
  /\ trail' = [trail EXCEPT ![call[c].cur.id] = @ \cup {call[c].cur.row}]
  /\ call' = [call EXCEPT ![c] = Advance(@)]
  /\ UNCHANGED <<row, seriesTitle, shared, notices>>

Noticing(k, t, next) ==
  [k EXCEPT !.at = next, !.cur = t, !.changed = @ \ {t}]

(* captureReschedule, once every target has moved.                         *)
NotifyUnretired(c) ==
  /\ call[c].at = "notify"
  /\ \E t \in Fronts(call[c], call[c].changed) :
       call' = [call EXCEPT ![c] = Noticing(@, t, "capture")]
  /\ UNCHANGED <<row, aside>>

Notify(c) ==
  /\ call[c].at = "notify"
  /\ \E t \in Fronts(call[c], call[c].changed) :
       call' = [call EXCEPT ![c] = Noticing(@, t, "retire")]
  /\ UNCHANGED <<row, aside>>

NoticeKinds(k) ==
  CASE k.op = "sweep" -> {"credit_cancel"}
    [] k.op # "sweep" /\ k.cur.row.status = "CANCELLED" -> {}
    [] OTHER -> {"reschedule", "reminder"}

Capture(c) ==
  /\ call[c].at = "capture"
  /\ LET t == call[c].cur
     IN notices' = [notices EXCEPT ![t.id] =
                      Captured(@, NoticeKinds(call[c]), t.row.slot)]
  /\ call' = [call EXCEPT ![c] = Advance(@)]
  /\ UNCHANGED <<row, seriesTitle, trail, shared>>

(* The series' own defaults, so that later occurrences inherit the title.  *)
SeriesDefaults(c) ==
  /\ call[c].at = "defaults"
  /\ seriesTitle' = [seriesTitle EXCEPT
                       ![Series[call[c].anchor.id]] = call[c].arg]
  /\ call' = [call EXCEPT ![c] = Done]
  /\ UNCHANGED <<row, trail, shared, notices>>

(* The process stops, or a statement throws, between two statements: what  *)
(* was written stays written.                                              *)
Crash(c) ==
  /\ MayCrash /\ Active(c)
  /\ call' = [call EXCEPT ![c] = [Blank EXCEPT !.at = "dead", !.cur = call[c].cur]]
  /\ UNCHANGED <<row, aside>>

Step(c) ==
  \/ Load(c) \/ SweepLoad(c) \/ List(c)
  \/ CheckRefuses(c) \/ CheckPasses(c)
  \/ Reschedule(c) \/ EditDetails(c) \/ Cancel(c)
  \/ Restore(c) \/ Complete(c) \/ MarkMissed(c)
  \/ Approve(c) \/ Reject(c) \/ CorrectActualTimes(c)
  \/ SweepCancel(c) \/ SweepWarn(c)
  \/ PublishRead(c) \/ PublishWrite(c) \/ RetireReminders(c) \/ Record(c)
  \/ Notify(c) \/ Capture(c) \/ SeriesDefaults(c)
  \/ Crash(c)

(* No request is running, and none has to come.                            *)
Rest == /\ \A c \in Calls : ~Active(c)
        /\ UNCHANGED vars

Next == Rest \/ \E c \in Calls : Step(c)

Spec == Init /\ [][Next]_vars

-----------------------------------------------------------------------------
(* Properties.                                                             *)

(* Types, with what every stage of a request may count on: the arguments   *)
(* its operation takes, an anchor while it runs (the sweep has none), a    *)
(* target at hand from its update to its last write, a copy to push.       *)
RunShape(k) ==
  /\ k.op # "none"
  /\ k.op # "sweep" => k.anchor \in Image
  /\ k.arg \in ArgsOf(k.op)
  /\ k.scope # "THIS" => k.op # "sweep" /\ Series[k.anchor.id] # None

NeedsTarget == {"update", "publish", "push", "retire", "record", "capture"}
CallShape(k) ==
  /\ k.at \notin {"idle"} \cup Ended => RunShape(k)
  /\ k.at = "list" => k.scope # "THIS"
  /\ k.at \in NeedsTarget => k.cur \in Image
  /\ k.at = "push" => k.copy \in Copy
  /\ k.at = "defaults" => k.op = "edit" /\ k.scope # "THIS"

TypeOK ==
  /\ row \in [Occ -> Row]
  /\ seriesTitle \in [SeriesIds -> Titles]
  /\ trail \in [Occ -> SUBSET Row]
  /\ shared \in [Occ -> Copy \cup {None}]
  /\ notices \in [Occ -> [Kinds -> Slot \cup {None}]]
  /\ call \in [Calls -> CallState]
  /\ \A c \in Calls : CallShape(call[c])

(* No instructor is in two live sessions at once, however requests         *)
(* interleave: restore and a request judged on a stale row reach the       *)
(* update with no check of their own, and only the constraint stands.      *)
NoInstructorOverlap ==
  \A o, p \in Occ :
    o # p /\ SameInstructor(o, p) /\ Blocking(row[o]) /\ Blocking(row[p])
      => ~Overlap(row[o].slot, row[p].slot)

(* Nor does a room hold two.                                               *)
NoRoomOverlap ==
  \A o, p \in Occ :
    o # p /\ SameRoom(o, p) /\ Blocking(row[o]) /\ Blocking(row[p])
      => ~Overlap(row[o].slot, row[p].slot)

(* Every row is as some audit event says, or its writer has not recorded   *)
(* it yet (or never will, having stopped); only a cancellation by the      *)
(* sweep, announced by its notice, has no event at all.                    *)
AuditWitness ==
  \A o \in Occ :
    \/ row[o] \in trail[o]
    \/ \E c \in Calls : call[c].cur = ImageOf(o)
    \/ row[o].status = "CANCELLED" /\ notices[o]["credit_cancel"] # None

(* The life of a session as the policy table and its comments tell it.     *)
Lifecycle(s, t) ==
  \/ s = "REQUESTED" /\ t \in {"SCHEDULED", "REJECTED", "CANCELLED"}
  \/ s = "REJECTED" /\ t = "SCHEDULED"
  \/ s \in {"SCHEDULED", "RESCHEDULED"}
       /\ t \in {"RESCHEDULED", "COMPLETED", "MISSED", "CANCELLED"}
  \/ s = "IN_PROGRESS" /\ t = "COMPLETED"
  \/ s \in {"CANCELLED", "MISSED"} /\ t = "SCHEDULED"

Stale(c, o) ==
  \E t \in call[c].todo : t.id = o /\ t.row.status # row[o].status

(* A status leaves its life's path only through a request that was judged  *)
(* on a row another request has changed since.                             *)
OffPathOnlyWhenStale ==
  [][\A o \in Occ :
       row'[o].status # row[o].status
         => Lifecycle(row[o].status, row'[o].status)
              \/ \E c \in Calls : Stale(c, o)]_vars

(* A lesson that has started is never moved while it is happening: the     *)
(* comment in reschedule says checking canEdit once let it be.             *)
InProgressNeverMoves ==
  [][\A o \in Occ : row[o].status = "IN_PROGRESS"
                      => row'[o].slot = row[o].slot]_vars

(* A change to a whole series leaves alone what is detached and what is    *)
(* settled, except the occurrence somebody was looking at.                 *)
OnlyTheAnchorIsExempt ==
  [][\A c \in Calls, o \in Occ :
       /\ call[c].scope # "THIS" /\ call'[c] # call[c]
       /\ row'[o] # row[o] /\ o # call[c].anchor.id
       => ~row[o].detached /\ row[o].status \notin SETTLED_STATUSES]_vars

Quiet == \A c \in Calls : call[c].at \in {"idle", "done", "failed"}

(* Whenever no request is running, the school application's copy shows     *)
(* where and under which title the session is: a move or an edit that      *)
(* stops half-way through a series has still published what it did.        *)
CopyFollowsMoves ==
  Quiet => \A o \in Occ :
    shared[o] # None => /\ shared[o].slot = row[o].slot
                        /\ shared[o].title = row[o].title

(* A student ends up in two live sessions at once only by an approval,     *)
(* which minds no student clash, or a restoration, which checks nothing.   *)
StudentsBooked(o, p) ==
  /\ o # p /\ SameStudent(o, p)
  /\ Blocking(row[o]) /\ Blocking(row[p]) /\ Overlap(row[o].slot, row[p].slot)
StudentClashOnlyByReopening ==
  [][\A o, p \in Occ :
       ~StudentsBooked(o, p) /\ StudentsBooked(o, p)'
         => \E c \in Calls : /\ call[c].op \in {"approve", "restore"}
                             /\ call'[c] # call[c]]_vars

(* Whenever no request is running, an open reminder of a live session      *)
(* names the time the session has, unless the series it was moved with was *)
(* not moved to the end.                                                   *)
RemindersFollow ==
  Quiet => \A o \in Occ :
    /\ Blocking(row[o]) /\ notices[o]["reminder"] # None
    /\ \A c \in Calls : \A t \in call[c].changed : t.id # o
    => notices[o]["reminder"] = row[o].slot

(* The calendar the rows make is a SlotBook.                               *)
Contending == {{x[1], x[2]} : x \in {y \in Occ \X Occ :
                  SameInstructor(y[1], y[2]) \/ SameRoom(y[1], y[2])}}
Held == [o \in Occ |-> IF Blocking(row[o]) THEN row[o].slot ELSE None]
Book == INSTANCE SlotBook WITH Contend <- Contending, Free <- None, held <- Held
ImplementsSlotBook == Book!Spec
=============================================================================
