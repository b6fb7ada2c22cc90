------------------------- MODULE SessionOps_proofs -------------------------
(***************************************************************************)
(* What SessionOps guarantees for every tenant: any occurrences, any       *)
(* number of requests running at once, any slots.                          *)
(***************************************************************************)
EXTENDS SessionOps, FiniteSetTheorems, TLAPS

-----------------------------------------------------------------------------
(* A request keeps its shape through the helpers that move it on.          *)

(* A fresh or ended request has the shape of one.                          *)
LEMMA BlankShape ==
  /\ Blank \in CallState /\ CallShape(Blank)
  /\ Done \in CallState /\ CallShape(Done)
BY DEF Blank, Done, CallState, CallShape, Stage, Scope, Ended, NeedsTarget, AllOps

(* Finishing with a target leaves a request that runs or is done.          *)
LEMMA AdvanceShape ==
  ASSUME NEW k \in CallState, RunShape(k)
  PROVE  Advance(k) \in CallState /\ CallShape(Advance(k))
<1>1. CASE k.todo # {}
  BY <1>1 DEF Advance, CallState, CallShape, RunShape, Stage, Ended, NeedsTarget
<1>2. CASE k.todo = {} /\ k.op = "reschedule" /\ k.changed # {}
  BY <1>2 DEF Advance, CallState, CallShape, RunShape, Stage, Ended, NeedsTarget
<1>3. CASE k.todo = {} /\ k.op = "edit" /\ k.scope # "THIS"
  BY <1>3 DEF Advance, CallState, CallShape, RunShape, Stage, Ended, NeedsTarget
<1>4. CASE /\ ~(k.todo # {})
           /\ ~(k.todo = {} /\ k.op = "reschedule" /\ k.changed # {})
           /\ ~(k.todo = {} /\ k.op = "edit" /\ k.scope # "THIS")
  <2>1. Advance(k) = Done
    BY <1>4 DEF Advance
  <2> QED
    BY <2>1, BlankShape
<1> QED
  BY <1>1, <1>2, <1>3, <1>4

(* So does taking on a set of targets.                                     *)
LEMMA ReachShape ==
  ASSUME NEW k \in CallState, RunShape(k), NEW S \in SUBSET Image
  PROVE  Reach(k, S) \in CallState /\ CallShape(Reach(k, S))
<1> DEFINE j == [k EXCEPT !.todo = {t \in S : ~Skipped(k, t)}]
<1>1. j \in CallState /\ RunShape(j)
  BY DEF CallState, RunShape
<1>2. Reach(k, S) = Advance(j)
  BY DEF Reach
<1> QED
  BY <1>1, <1>2, AdvanceShape

(* And failing.                                                            *)
LEMMA FailShape ==
  ASSUME NEW k \in CallState
  PROVE  Fail(k) \in CallState /\ CallShape(Fail(k))
BY DEF Fail, Blank, CallState, CallShape, Stage, Scope, Ended, NeedsTarget

(* The slot a target moves to is a slot.                                   *)
LEMMA NewSlotType ==
  ASSUME NEW k, k.arg \in Slot, k.anchor \in Image, NEW t \in Image
  PROVE  NewSlot(k, t) \in Slot
BY ConstantsAssumption DEF NewSlot, Slot, Image, Row

(* A request put in the place of another.                                  *)
LEMMA CallUpdate ==
  ASSUME NEW c \in Calls, TypeOK, NEW k \in CallState, CallShape(k),
         call' = [call EXCEPT ![c] = k]
  PROVE  /\ call' \in [Calls -> CallState]
         /\ \A d \in Calls : CallShape(call'[d])
BY DEF TypeOK

(* What a running request can count on.                                    *)
LEMMA Running ==
  ASSUME NEW c \in Calls, TypeOK, call[c].at \notin {"idle"} \cup Ended
  PROVE  /\ call[c] \in CallState
         /\ RunShape(call[c])
         /\ call[c].op # "sweep" => call[c].anchor \in Image
         /\ call[c].at \in NeedsTarget => call[c].cur \in Image
         /\ call[c].at = "push" => call[c].copy \in Copy
<1>1. call[c] \in CallState /\ CallShape(call[c])
  BY DEF TypeOK
<1> QED
  BY <1>1 DEF CallState, CallShape, RunShape

(* One update leaves the types alone when the row it would write has them. *)
LEMMA CommitType ==
  ASSUME NEW c \in Calls, TypeOK, RunShape(call[c]),
         NEW t \in Image, NEW new \in Row,
         NEW next \in {"publish", "record", "retire"},
         Commit(c, t, new, next)
  PROVE  TypeOK'
<1>1. call[c] \in CallState /\ t.id \in Occ
  BY DEF TypeOK, Image
<1>2. CASE Fits(t.id, new)
  <2> DEFINE k == Wrote(call[c], t, new, next)
  <2>1. [id |-> t.id, row |-> new] \in Image
    BY <1>1 DEF Image
  <2>2. k \in CallState
    BY <1>1, <2>1 DEF Wrote, CallState, Stage
  <2>3. CallShape(k)
    <3>1. k.op = call[c].op /\ k.scope = call[c].scope /\ k.arg = call[c].arg
            /\ k.anchor = call[c].anchor
      BY <1>1 DEF Wrote, CallState
    <3>2. RunShape(k)
      BY <3>1 DEF RunShape
    <3>3. k.at = next /\ k.cur = [id |-> t.id, row |-> new]
      BY <1>1 DEF Wrote, CallState
    <3>4. k.cur \in Image
      BY <3>3, <2>1
    <3> QED
      BY <3>2, <3>3, <3>4 DEF CallShape
  <2>4. call' = [call EXCEPT ![c] = k]
    BY <1>2 DEF Commit
  <2>5. row' \in [Occ -> Row]
    BY <1>1, <1>2 DEF Commit, TypeOK
  <2> QED
    BY <2>2, <2>3, <2>4, <2>5, CallUpdate DEF Commit, aside, TypeOK
<1>3. CASE ~Fits(t.id, new)
  <2>1. Fail(call[c]) \in CallState /\ CallShape(Fail(call[c]))
    BY <1>1, FailShape
  <2> QED
    BY <1>3, <2>1, CallUpdate DEF Commit, aside, TypeOK
<1> QED
  BY <1>2, <1>3

-----------------------------------------------------------------------------
(* Type correctness.                                                       *)

(* The initial states are well typed.                                      *)
LEMMA InitTypeOK == Init => TypeOK
<1> SUFFICES ASSUME Init PROVE TypeOK
  OBVIOUS
<1>1. row \in [Occ -> Row]
  <2> SUFFICES ASSUME NEW o \in Occ PROVE row[o] \in Row
    BY DEF Init
  <2>1. PICK x \in Status, p \in Occ :
          row[o] = [status |-> x, slot |-> StartSlot[p], detached |-> FALSE,
                    title |-> FirstTitle, actual |-> None]
    BY DEF Init
  <2> QED
    BY <2>1, ConstantsAssumption DEF Row
<1>2. seriesTitle \in [SeriesIds -> Titles]
  BY ConstantsAssumption DEF Init
<1>3. trail \in [Occ -> SUBSET Row]
  BY <1>1 DEF Init
<1>4. shared \in [Occ -> Copy \cup {None}]
  <2> SUFFICES ASSUME NEW o \in Occ, row[o].status # "IN_PROGRESS"
               PROVE  [status |-> ToSharedStatus(row[o].status),
                       slot |-> row[o].slot, title |-> row[o].title] \in Copy
    BY DEF Init
  <2>1. ToSharedStatus(row[o].status) \in SharedStatus
    BY DEF ToSharedStatus, SharedStatus
  <2> QED
    BY <1>1, <2>1 DEF Copy, Row
<1>5. notices \in [Occ -> [Kinds -> Slot \cup {None}]]
  BY <1>1 DEF Init, Row
<1>6. /\ call \in [Calls -> CallState]
      /\ \A c \in Calls : CallShape(call[c])
  BY BlankShape DEF Init
<1> QED
  BY <1>1, <1>2, <1>3, <1>4, <1>5, <1>6 DEF TypeOK

(* What a request loads is an image, and its argument suits its operation. *)
LEMMA LoadType ==
  ASSUME NEW c \in Calls, TypeOK, Load(c) PROVE TypeOK'
<1>1. PICK op \in Ops \ {"sweep"}, o \in Occ :
        \E scope \in ScopesOf(op, o), arg \in ArgsOf(op) :
          LET k == [Blank EXCEPT !.op = op, !.anchor = ImageOf(o),
                                 !.scope = scope, !.arg = arg]
          IN call' = [call EXCEPT ![c] =
                        IF scope = "THIS" THEN Reach(k, {ImageOf(o)})
                        ELSE [k EXCEPT !.at = "list"]]
  BY DEF Load
<1>2. PICK scope \in ScopesOf(op, o), arg \in ArgsOf(op) :
          LET k == [Blank EXCEPT !.op = op, !.anchor = ImageOf(o),
                                 !.scope = scope, !.arg = arg]
          IN call' = [call EXCEPT ![c] =
                        IF scope = "THIS" THEN Reach(k, {ImageOf(o)})
                        ELSE [k EXCEPT !.at = "list"]]
  BY <1>1
<1> DEFINE k == [Blank EXCEPT !.op = op, !.anchor = ImageOf(o),
                              !.scope = scope, !.arg = arg]
<1>3. ImageOf(o) \in Image
  BY DEF ImageOf, Image, TypeOK
<1>4. op \in AllOps /\ op # "sweep" /\ op # "none"
  BY ConstantsAssumption DEF AllOps
<1>5. scope \in Scope /\ (scope # "THIS" => Series[o] # None)
  BY DEF ScopesOf, Scope
<1>6. arg \in Slot \cup Titles \cup {None}
  BY <1>4, ConstantsAssumption DEF ArgsOf, AllOps
<1>7. k \in CallState
  BY <1>3, <1>4, <1>5, <1>6, BlankShape DEF CallState
<1>8. k.op = op /\ k.anchor = ImageOf(o) /\ k.scope = scope /\ k.arg = arg
  BY DEF Blank
<1>9. RunShape(k)
  BY <1>3, <1>4, <1>5, <1>8 DEF RunShape, ImageOf
<1>10. CASE scope = "THIS"
  <2>1. Reach(k, {ImageOf(o)}) \in CallState /\ CallShape(Reach(k, {ImageOf(o)}))
    BY <1>3, <1>7, <1>9, ReachShape
  <2> QED
    BY <1>2, <1>10, <2>1, CallUpdate DEF Load, aside, TypeOK
<1>11. CASE scope # "THIS"
  <2> DEFINE j == [k EXCEPT !.at = "list"]
  <2>1. j \in CallState
    BY <1>7 DEF CallState, Stage
  <2>2. /\ j.at = "list" /\ j.op = k.op /\ j.anchor = k.anchor
        /\ j.scope = k.scope /\ j.arg = k.arg
    BY <1>7 DEF CallState
  <2>3. CallShape(j)
    BY <1>8, <1>9, <1>11, <2>2 DEF CallShape, RunShape, NeedsTarget
  <2> QED
    BY <1>2, <1>11, <2>1, <2>3, CallUpdate DEF Load, aside, TypeOK
<1> QED
  BY <1>10, <1>11

(* The sweep's listing of unpaid requests keeps types.                     *)
LEMMA SweepLoadType ==
  ASSUME NEW c \in Calls, TypeOK, SweepLoad(c) PROVE TypeOK'
<1> DEFINE k == [Blank EXCEPT !.op = "sweep"]
<1>1. PICK S \in SUBSET Occ :
        call' = [call EXCEPT ![c] = Reach(k, {ImageOf(o) : o \in S})]
  <2>1. PICK S \in SUBSET {o \in ShortOfCredit : row[o].status = "REQUESTED"} :
          call' = [call EXCEPT ![c] = Reach(k, {ImageOf(o) : o \in S})]
    BY DEF SweepLoad
  <2> QED
    BY <2>1, ConstantsAssumption
<1>2. {ImageOf(o) : o \in S} \in SUBSET Image
  BY DEF ImageOf, Image, TypeOK
<1>3. k \in CallState
  BY BlankShape DEF CallState, AllOps
<1>4. RunShape(k)
  BY DEF Blank, RunShape, ArgsOf
<1>5. /\ Reach(k, {ImageOf(o) : o \in S}) \in CallState
      /\ CallShape(Reach(k, {ImageOf(o) : o \in S}))
  BY <1>2, <1>3, <1>4, ReachShape
<1> QED
  BY <1>1, <1>5, CallUpdate DEF SweepLoad, aside, TypeOK

(* So does the listing of a series edit's targets.                         *)
LEMMA ListType ==
  ASSUME NEW c \in Calls, TypeOK, List(c) PROVE TypeOK'
<1>1. call[c] \in CallState /\ RunShape(call[c]) /\ call[c].anchor \in Image
  <2>1. /\ call[c] \in CallState /\ RunShape(call[c])
        /\ call[c].op # "sweep" => call[c].anchor \in Image
    BY Running DEF List, Ended
  <2>2. call[c].scope # "THIS"
    BY DEF List, TypeOK, CallShape
  <2> QED
    BY <2>1, <2>2 DEF RunShape
<1> DEFINE found == {ImageOf(p) : p \in {q \in Occ :
                       InScope(call[c].anchor, call[c].scope, q)}}
           lead == \A t \in found : t.id # call[c].anchor.id
           k == [call[c] EXCEPT !.lead = lead]
           S == IF lead THEN found \cup {call[c].anchor} ELSE found
<1>2. call' = [call EXCEPT ![c] = Reach(k, S)]
  BY DEF List
<1>3. lead \in BOOLEAN
  OBVIOUS
<1>4. k \in CallState /\ RunShape(k)
  BY <1>1, <1>3 DEF CallState, RunShape
<1>5. found \in SUBSET Image
  BY DEF ImageOf, Image, TypeOK
<1>6. S \in SUBSET Image
  BY <1>1, <1>5
<1>7. Reach(k, S) \in CallState /\ CallShape(Reach(k, S))
  BY <1>4, <1>6, ReachShape
<1> QED
  BY <1>2, <1>7, CallUpdate DEF List, aside, TypeOK

(* So does the conflict check, passed or refused.                          *)
LEMMA CheckType ==
  ASSUME NEW c \in Calls, TypeOK, CheckRefuses(c) \/ CheckPasses(c)
  PROVE  TypeOK'
<1>1. call[c] \in CallState /\ RunShape(call[c])
  BY Running DEF CheckRefuses, CheckPasses, Ended
<1>2. CASE CheckRefuses(c)
  <2>1. call' = [call EXCEPT ![c] = Fail(call[c])]
    BY <1>2 DEF CheckRefuses
  <2> QED
    BY <1>1, <1>2, <2>1, FailShape, CallUpdate DEF CheckRefuses, aside, TypeOK
<1>3. CASE CheckPasses(c)
  <2>1. PICK t \in Fronts(call[c], call[c].todo) :
          call' = [call EXCEPT ![c] = [call[c] EXCEPT !.at = "update", !.cur = t]]
    BY <1>3 DEF CheckPasses
  <2>2. t \in Image
    BY <1>1, <2>1 DEF Fronts, CallState
  <2> DEFINE k == [call[c] EXCEPT !.at = "update", !.cur = t]
  <2>3. k \in CallState
    BY <1>1, <2>2 DEF CallState, Stage
  <2>4. /\ k.at = "update" /\ k.cur = t /\ k.op = call[c].op /\ k.arg = call[c].arg
        /\ k.anchor = call[c].anchor /\ k.scope = call[c].scope
    BY <1>1 DEF CallState
  <2>5. CallShape(k)
    BY <1>1, <2>2, <2>4 DEF CallShape, RunShape, NeedsTarget
  <2> QED
    BY <1>3, <2>1, <2>3, <2>5, CallUpdate DEF CheckPasses, aside, TypeOK
<1> QED
  BY <1>2, <1>3

(* The target of an update is an image, and its request runs.              *)
LEMMA TurnType ==
  ASSUME NEW c \in Calls, TypeOK, NEW op \in AllOps,
         NEW t \in call[c].todo, Turn(c, op, t)
  PROVE  /\ RunShape(call[c])
         /\ call[c].op = op
         /\ t \in Image
         /\ row[t.id] \in Row
         /\ op # "sweep" => call[c].anchor \in Image
<1>1. call[c] \in CallState
  BY DEF TypeOK
<1>2. call[c].at \notin {"idle"} \cup Ended
  BY DEF Turn, Ended
<1>3. t \in Image
  BY <1>1 DEF CallState
<1> QED
  BY <1>1, <1>2, <1>3, Running DEF Turn, Image, TypeOK

(* So does moving a session.                                               *)
LEMMA RescheduleType ==
  ASSUME NEW c \in Calls, TypeOK, Reschedule(c) PROVE TypeOK'
<1> DEFINE new(t) == [row[t.id] EXCEPT
               !.slot = NewSlot(call[c], t),
               !.status = IF t.row.status = "SCHEDULED" THEN "RESCHEDULED" ELSE @,
               !.detached = @ \/ Detaches(call[c], t)]
<1>1. PICK t \in call[c].todo :
        Turn(c, "reschedule", t) /\ Commit(c, t, new(t), "publish")
  BY DEF Reschedule
<1>2. /\ RunShape(call[c]) /\ call[c].op = "reschedule" /\ t \in Image
      /\ row[t.id] \in Row /\ call[c].anchor \in Image
  BY <1>1, TurnType DEF AllOps
<1>3. call[c].arg \in Slot
  BY <1>2, ConstantsAssumption DEF RunShape, ArgsOf
<1>4. NewSlot(call[c], t) \in Slot
  BY <1>2, <1>3, NewSlotType
<1>5. Detaches(call[c], t) \in BOOLEAN
  BY DEF Detaches
<1>6. new(t) \in Row
  BY <1>2, <1>4, <1>5 DEF Row, Status
<1> QED
  BY <1>1, <1>2, <1>6, CommitType

(* So does an edit of its details.                                         *)
LEMMA EditType ==
  ASSUME NEW c \in Calls, TypeOK, EditDetails(c) PROVE TypeOK'
<1> DEFINE new(t) == [row[t.id] EXCEPT !.title = call[c].arg,
                                       !.detached = @ \/ Detaches(call[c], t)]
<1>1. PICK t \in call[c].todo :
        Turn(c, "edit", t) /\ Commit(c, t, new(t), "publish")
  BY DEF EditDetails
<1>2. /\ RunShape(call[c]) /\ call[c].op = "edit" /\ t \in Image
      /\ row[t.id] \in Row
  BY <1>1, TurnType DEF AllOps
<1>3. call[c].arg \in Titles
  BY <1>2 DEF RunShape, ArgsOf
<1>4. Detaches(call[c], t) \in BOOLEAN
  BY DEF Detaches
<1>5. new(t) \in Row
  BY <1>2, <1>3, <1>4 DEF Row
<1> QED
  BY <1>1, <1>2, <1>5, CommitType

(* The operations that write a status, and actual times where they do.     *)
LEMMA StatusType ==
  ASSUME NEW c \in Calls, TypeOK,
         \/ Cancel(c) \/ Restore(c) \/ MarkMissed(c) \/ Approve(c)
         \/ Reject(c) \/ SweepCancel(c)
  PROVE  TypeOK'
<1>1. PICK op \in AllOps, t \in call[c].todo, status \in Status,
           next \in {"publish", "record", "retire"} :
        Turn(c, op, t) /\ Commit(c, t, [row[t.id] EXCEPT !.status = status], next)
  <2>1. CASE Cancel(c)
    BY <2>1 DEF Cancel, AllOps, Status
  <2>2. CASE Restore(c)
    BY <2>2 DEF Restore, AllOps, Status
  <2>3. CASE MarkMissed(c)
    BY <2>3 DEF MarkMissed, AllOps, Status
  <2>4. CASE Approve(c)
    BY <2>4 DEF Approve, AllOps, Status
  <2>5. CASE Reject(c)
    BY <2>5 DEF Reject, AllOps, Status
  <2>6. CASE SweepCancel(c)
    BY <2>6 DEF SweepCancel, AllOps, Status
  <2> QED
    BY <2>1, <2>2, <2>3, <2>4, <2>5, <2>6
<1>2. RunShape(call[c]) /\ t \in Image /\ row[t.id] \in Row
  BY <1>1, TurnType
<1>3. [row[t.id] EXCEPT !.status = status] \in Row
  BY <1>2 DEF Row
<1> QED
  BY <1>1, <1>2, <1>3, CommitType

(* So does completing it.                                                  *)
LEMMA CompleteType ==
  ASSUME NEW c \in Calls, TypeOK, Complete(c) PROVE TypeOK'
<1> DEFINE new(t) == [row[t.id] EXCEPT !.status = "COMPLETED",
               !.actual = IF t.row.actual = None THEN t.row.slot ELSE t.row.actual]
<1>1. PICK t \in call[c].todo :
        Turn(c, "complete", t) /\ Commit(c, t, new(t), "record")
  BY DEF Complete
<1>2. RunShape(call[c]) /\ t \in Image /\ row[t.id] \in Row
  BY <1>1, TurnType DEF AllOps
<1>3. new(t) \in Row
  BY <1>2 DEF Row, Image, Status
<1> QED
  BY <1>1, <1>2, <1>3, CommitType

(* So does correcting its recorded times.                                  *)
LEMMA CorrectType ==
  ASSUME NEW c \in Calls, TypeOK, CorrectActualTimes(c) PROVE TypeOK'
<1> DEFINE new(t) == [row[t.id] EXCEPT !.actual = call[c].arg]
<1>1. PICK t \in call[c].todo :
        Turn(c, "correct_actuals", t) /\ Commit(c, t, new(t), "record")
  BY DEF CorrectActualTimes
<1>2. /\ RunShape(call[c]) /\ call[c].op = "correct_actuals" /\ t \in Image
      /\ row[t.id] \in Row
  BY <1>1, TurnType DEF AllOps
<1>3. call[c].arg \in Slot \cup {None}
  BY <1>2, ConstantsAssumption DEF RunShape, ArgsOf
<1>4. new(t) \in Row
  BY <1>2, <1>3 DEF Row
<1> QED
  BY <1>1, <1>2, <1>4, CommitType

(* Notices stay slots of open notices.                                     *)
LEMMA CapturedType ==
  ASSUME NEW open \in [Kinds -> Slot \cup {None}], NEW kinds, NEW s \in Slot
  PROVE  Captured(open, kinds, s) \in [Kinds -> Slot \cup {None}]
BY DEF Captured

(* So does a warning of the sweep.                                         *)
LEMMA SweepWarnType ==
  ASSUME NEW c \in Calls, TypeOK, SweepWarn(c) PROVE TypeOK'
<1>1. PICK t \in call[c].todo :
        /\ Turn(c, "sweep", t)
        /\ notices' = [notices EXCEPT ![t.id] =
             Captured(notices[t.id], {"credit_warning"}, t.row.slot)]
        /\ call' = [call EXCEPT ![c] = Advance(Without(call[c], t))]
        /\ UNCHANGED <<row, seriesTitle, trail, shared>>
  BY DEF SweepWarn
<1>2. RunShape(call[c]) /\ t \in Image /\ call[c] \in CallState
  BY <1>1, TurnType DEF AllOps, TypeOK
<1>3. Without(call[c], t) \in CallState /\ RunShape(Without(call[c], t))
  BY <1>2 DEF Without, CallState, RunShape
<1>4. /\ Advance(Without(call[c], t)) \in CallState
      /\ CallShape(Advance(Without(call[c], t)))
  BY <1>3, AdvanceShape
<1>5. Captured(notices[t.id], {"credit_warning"}, t.row.slot)
        \in [Kinds -> Slot \cup {None}]
  BY <1>2, CapturedType DEF Image, Row, TypeOK
<1> QED
  BY <1>1, <1>4, <1>5, CallUpdate DEF TypeOK

(* Moving on to another stage that has its target already.                 *)
LEMMA MoveShape ==
  ASSUME NEW k \in CallState, RunShape(k), k.cur \in Image,
         NEW next \in {"retire", "record", "capture"}
  PROVE  LET j == [k EXCEPT !.at = next] IN j \in CallState /\ CallShape(j)
<1> DEFINE j == [k EXCEPT !.at = next]
<1>1. j \in CallState
  BY DEF CallState, Stage
<1>2. /\ j.at = next /\ j.cur = k.cur /\ j.op = k.op /\ j.arg = k.arg
      /\ j.anchor = k.anchor /\ j.scope = k.scope
  BY DEF CallState
<1>3. CallShape(j)
  BY <1>2 DEF CallShape, RunShape, NeedsTarget
<1> QED
  BY <1>1, <1>3

(* So do the two halves of a publication.                                  *)
LEMMA PublishType ==
  ASSUME NEW c \in Calls, TypeOK, PublishRead(c) \/ PublishWrite(c)
  PROVE  TypeOK'
<1>1. call[c] \in CallState /\ RunShape(call[c]) /\ call[c].cur \in Image
  BY Running DEF PublishRead, PublishWrite, Ended, NeedsTarget
<1>2. CASE PublishRead(c)
  <2> DEFINE r == row[call[c].cur.id]
             copy == [status |-> ToSharedStatus(r.status), slot |-> r.slot,
                      title |-> r.title]
             k == [call[c] EXCEPT !.at = "push", !.copy = copy]
  <2>1. call' = [call EXCEPT ![c] = k]
    BY <1>2 DEF PublishRead
  <2>2. r \in Row
    BY <1>1 DEF Image, TypeOK
  <2>3. ToSharedStatus(r.status) \in SharedStatus
    BY DEF ToSharedStatus, SharedStatus
  <2>4. copy \in Copy
    BY <2>2, <2>3 DEF Row, Copy
  <2>5. k \in CallState
    BY <1>1, <2>4 DEF CallState, Stage
  <2>6. /\ k.at = "push" /\ k.copy = copy /\ k.cur = call[c].cur
        /\ k.op = call[c].op /\ k.arg = call[c].arg
        /\ k.anchor = call[c].anchor /\ k.scope = call[c].scope
    BY <1>1 DEF CallState
  <2>7. CallShape(k)
    BY <1>1, <2>4, <2>6 DEF CallShape, RunShape, NeedsTarget
  <2> QED
    BY <1>2, <2>1, <2>5, <2>7, CallUpdate DEF PublishRead, aside, TypeOK
<1>3. CASE PublishWrite(c)
  <2> DEFINE next == IF call[c].op = "cancel" THEN "retire" ELSE "record"
             k == [call[c] EXCEPT !.at = next]
  <2>1. call' = [call EXCEPT ![c] = k]
    BY <1>3 DEF PublishWrite
  <2>2. k \in CallState /\ CallShape(k)
    BY <1>1, MoveShape
  <2>3. call[c].copy \in Copy
    BY <1>3, Running DEF PublishWrite, Ended
  <2>4. shared' \in [Occ -> Copy \cup {None}]
    BY <1>1, <1>3, <2>3 DEF PublishWrite, Image, TypeOK
  <2> QED
    BY <1>3, <2>1, <2>2, <2>4, CallUpdate DEF PublishWrite, TypeOK
<1> QED
  BY <1>2, <1>3

(* So does retiring the reminders.                                         *)
LEMMA RetireType ==
  ASSUME NEW c \in Calls, TypeOK, RetireReminders(c) PROVE TypeOK'
<1>1. call[c] \in CallState /\ RunShape(call[c]) /\ call[c].cur \in Image
  BY Running DEF RetireReminders, Ended, NeedsTarget
<1> DEFINE next == IF call[c].op = "cancel" THEN "record" ELSE "capture"
           k == [call[c] EXCEPT !.at = next]
<1>2. call' = [call EXCEPT ![c] = k]
  BY DEF RetireReminders
<1>3. k \in CallState /\ CallShape(k)
  BY <1>1, MoveShape
<1>4. notices' \in [Occ -> [Kinds -> Slot \cup {None}]]
  <2>1. [notices[call[c].cur.id] EXCEPT !["reminder"] = None]
          \in [Kinds -> Slot \cup {None}]
    BY <1>1 DEF Image, TypeOK
  <2>2. notices' = [notices EXCEPT ![call[c].cur.id] =
                      [notices[call[c].cur.id] EXCEPT !["reminder"] = None]]
    BY DEF RetireReminders
  <2> QED
    BY <2>1, <2>2 DEF TypeOK
<1> QED
  BY <1>2, <1>3, <1>4, CallUpdate DEF RetireReminders, TypeOK

(* So does writing the audit event.                                        *)
LEMMA RecordType ==
  ASSUME NEW c \in Calls, TypeOK, Record(c) PROVE TypeOK'
<1>1. call[c] \in CallState /\ RunShape(call[c]) /\ call[c].cur \in Image
  BY Running DEF Record, Ended, NeedsTarget
<1>2. call' = [call EXCEPT ![c] = Advance(call[c])]
  BY DEF Record
<1>3. Advance(call[c]) \in CallState /\ CallShape(Advance(call[c]))
  BY <1>1, AdvanceShape
<1>4. trail' \in [Occ -> SUBSET Row]
  BY <1>1 DEF Record, Image, TypeOK
<1> QED
  BY <1>2, <1>3, <1>4, CallUpdate DEF Record, TypeOK

(* So does taking up the next moved session.                               *)
LEMMA NotifyType ==
  ASSUME NEW c \in Calls, TypeOK, Notify(c) PROVE TypeOK'
<1>1. call[c] \in CallState /\ RunShape(call[c])
  BY Running DEF Notify, Ended
<1>2. PICK t \in Fronts(call[c], call[c].changed) :
        call' = [call EXCEPT ![c] = Noticing(call[c], t, "retire")]
  BY DEF Notify
<1> DEFINE k == Noticing(call[c], t, "retire")
<1>3. t \in Image
  BY <1>1, <1>2 DEF Fronts, CallState
<1>4. k \in CallState
  BY <1>1, <1>3 DEF Noticing, CallState, Stage
<1>5. /\ k.at = "retire" /\ k.cur = t /\ k.op = call[c].op
      /\ k.arg = call[c].arg /\ k.anchor = call[c].anchor
      /\ k.scope = call[c].scope
  BY <1>1 DEF Noticing, CallState
<1>6. CallShape(k)
  BY <1>1, <1>3, <1>5 DEF CallShape, RunShape, NeedsTarget
<1> QED
  BY <1>2, <1>4, <1>6, CallUpdate DEF Notify, aside, TypeOK

(* So does capturing its notices.                                          *)
LEMMA CaptureType ==
  ASSUME NEW c \in Calls, TypeOK, Capture(c) PROVE TypeOK'
<1>1. call[c] \in CallState /\ RunShape(call[c]) /\ call[c].cur \in Image
  BY Running DEF Capture, Ended, NeedsTarget
<1>2. notices' = [notices EXCEPT ![call[c].cur.id] =
         Captured(notices[call[c].cur.id], NoticeKinds(call[c]), call[c].cur.row.slot)]
  BY DEF Capture
<1>3. call' = [call EXCEPT ![c] = Advance(call[c])]
  BY DEF Capture
<1>4. Advance(call[c]) \in CallState /\ CallShape(Advance(call[c]))
  BY <1>1, AdvanceShape
<1>5. call[c].cur.id \in Occ /\ call[c].cur.row.slot \in Slot
  BY <1>1 DEF Image, Row
<1>6. Captured(notices[call[c].cur.id], NoticeKinds(call[c]), call[c].cur.row.slot)
        \in [Kinds -> Slot \cup {None}]
  BY <1>5, CapturedType DEF TypeOK
<1> QED
  BY <1>2, <1>3, <1>4, <1>5, <1>6, CallUpdate DEF Capture, TypeOK

(* So does renaming the series.                                            *)
LEMMA DefaultsType ==
  ASSUME NEW c \in Calls, TypeOK, SeriesDefaults(c) PROVE TypeOK'
<1>1. /\ RunShape(call[c]) /\ call[c].op = "edit" /\ call[c].scope # "THIS"
      /\ call[c].anchor \in Image
  BY Running DEF SeriesDefaults, Ended, TypeOK, CallShape
<1>2. call[c].arg \in Titles /\ Series[call[c].anchor.id] \in SeriesIds
  BY <1>1 DEF RunShape, ArgsOf, SeriesIds, Image
<1>3. seriesTitle' \in [SeriesIds -> Titles]
  BY <1>2 DEF SeriesDefaults, TypeOK
<1> QED
  BY <1>3, BlankShape, CallUpdate DEF SeriesDefaults, TypeOK

(* So does a stop.                                                         *)
LEMMA CrashType ==
  ASSUME NEW c \in Calls, TypeOK, Crash(c) PROVE TypeOK'
<1> DEFINE k == [Blank EXCEPT !.at = "dead", !.cur = call[c].cur]
<1>1. call[c].cur \in Image \cup {None} /\ "dead" \in Stage
  BY DEF TypeOK, CallState, Stage, Ended
<1>2. k \in CallState
  BY <1>1, BlankShape DEF CallState
<1>3. k.at = "dead"
  BY BlankShape DEF CallState
<1> HIDE DEF k
<1>4. CallShape(k)
  BY <1>3 DEF CallShape, Ended, NeedsTarget
<1> QED
  BY <1>2, <1>4, CallUpdate DEF k, Crash, aside, TypeOK

(* Every step keeps types.                                                 *)
LEMMA NextTypeOK == TypeOK /\ [Next]_vars => TypeOK'
<1> SUFFICES ASSUME TypeOK, [Next]_vars PROVE TypeOK'
  OBVIOUS
<1>1. CASE UNCHANGED vars \/ Rest
  BY <1>1 DEF Rest, vars, TypeOK
<1>2. ASSUME NEW c \in Calls, Step(c) PROVE TypeOK'
  BY <1>2, LoadType, SweepLoadType, ListType, CheckType, RescheduleType,
     EditType, StatusType, CompleteType, CorrectType, SweepWarnType,
     PublishType, RetireType, RecordType, NotifyType, CaptureType,
     DefaultsType, CrashType DEF Step
<1> QED
  BY <1>1, <1>2 DEF Next

(* Every reachable state is well typed, and every request in it has what   *)
(* its stage relies on.                                                    *)
THEOREM TypeCorrect == Spec => []TypeOK
BY InitTypeOK, NextTypeOK, PTL DEF Spec

-----------------------------------------------------------------------------
(* The calendar.  A row changes only where Commit writes one that fits,    *)
(* and a row that fits contends with no other.                             *)

Stay == {"reschedule", "edit", "cancel"}

(* The status an operation gives; moving gives one to a plain session only.*)
Outcome == [cancel |-> "CANCELLED", sweep |-> "CANCELLED",
            restore |-> "SCHEDULED", approve |-> "SCHEDULED",
            complete |-> "COMPLETED", mark_missed |-> "MISSED",
            reject |-> "REJECTED"]
Becomes(op, t, status) ==
  \/ status = row[t.id].status
  \/ op \in DOMAIN Outcome /\ status = Outcome[op]
  \/ op = "reschedule" /\ t.row.status = "SCHEDULED" /\ status = "RESCHEDULED"

(* One of the update statements: what it may do to the row of its target.  *)
Update(c, op, t, new, next) ==
  /\ Turn(c, op, t)
  /\ Commit(c, t, new, next)
  /\ IF op = "reschedule" THEN new.slot = NewSlot(call[c], t)
     ELSE new.slot = row[t.id].slot
  /\ Becomes(op, t, new.status)
  /\ new.title = row[t.id].title \/ op = "edit"
  /\ new.status = "IN_PROGRESS" => row[t.id].status = "IN_PROGRESS"
  /\ op \in Stay => next = "publish"
  /\ op = "sweep" => next = "retire" /\ new.status = "CANCELLED"
  /\ op \notin Stay \cup {"sweep"} => next = "record"

(* Every handler that writes a row does it in the shape of Update.         *)
LEMMA Updates ==
  ASSUME NEW c \in Calls, TypeOK,
         \/ Reschedule(c) \/ EditDetails(c) \/ Cancel(c) \/ Restore(c)
         \/ Complete(c) \/ MarkMissed(c) \/ Approve(c) \/ Reject(c)
         \/ CorrectActualTimes(c) \/ SweepCancel(c)
  PROVE  \E op \in AllOps, t \in call[c].todo, next \in {"publish", "record", "retire"} :
            \E new : Update(c, op, t, new, next)
<1>0. \A t \in call[c].todo : t \in Image /\ row[t.id] \in Row
  BY DEF TypeOK, CallState, Image
<1>1. CASE Reschedule(c)
  <2> DEFINE new(t) == [row[t.id] EXCEPT
               !.slot = NewSlot(call[c], t),
               !.status = IF t.row.status = "SCHEDULED" THEN "RESCHEDULED" ELSE @,
               !.detached = @ \/ Detaches(call[c], t)]
  <2>1. PICK t \in call[c].todo :
          Turn(c, "reschedule", t) /\ Commit(c, t, new(t), "publish")
    BY <1>1 DEF Reschedule
  <2>2. /\ new(t).status = "IN_PROGRESS" => row[t.id].status = "IN_PROGRESS"
        /\ new(t).title = row[t.id].title /\ new(t).slot = NewSlot(call[c], t)
        /\ Becomes("reschedule", t, new(t).status)
    BY <1>0 DEF Row, Becomes
  <2>3. Update(c, "reschedule", t, new(t), "publish")
    BY <2>1, <2>2 DEF Update, Stay
  <2> HIDE DEF new
  <2> QED
    BY <2>3 DEF AllOps
<1>2. CASE EditDetails(c)
  <2> DEFINE new(t) == [row[t.id] EXCEPT !.title = call[c].arg,
                                         !.detached = @ \/ Detaches(call[c], t)]
  <2>1. PICK t \in call[c].todo :
          Turn(c, "edit", t) /\ Commit(c, t, new(t), "publish")
    BY <1>2 DEF EditDetails
  <2>2. new(t).status = row[t.id].status /\ new(t).slot = row[t.id].slot
    BY <1>0 DEF Row
  <2>3. Update(c, "edit", t, new(t), "publish")
    BY <2>1, <2>2 DEF Update, Becomes, Stay
  <2> HIDE DEF new
  <2> QED
    BY <2>3 DEF AllOps
<1>3. ASSUME \/ Cancel(c) \/ Restore(c) \/ MarkMissed(c) \/ Approve(c)
             \/ Reject(c) \/ SweepCancel(c)
      PROVE  \E op \in AllOps, t \in call[c].todo,
                next \in {"publish", "record", "retire"} :
               \E new : Update(c, op, t, new, next)
  <2>1. PICK op \in AllOps, t \in call[c].todo,
             status \in Status \ {"IN_PROGRESS"},
             next \in {"publish", "record", "retire"} :
          /\ Turn(c, op, t)
          /\ Commit(c, t, [row[t.id] EXCEPT !.status = status], next)
          /\ op \in DOMAIN Outcome /\ status = Outcome[op]
          /\ op \in Stay => next = "publish"
          /\ op = "sweep" => next = "retire" /\ status = "CANCELLED"
          /\ op \notin Stay \cup {"sweep"} => next = "record"
    <3>1. CASE Cancel(c)
      BY <3>1 DEF Cancel, AllOps, Status, Stay, Outcome
    <3>2. CASE Restore(c)
      BY <3>2 DEF Restore, AllOps, Status, Stay, Outcome
    <3>3. CASE MarkMissed(c)
      BY <3>3 DEF MarkMissed, AllOps, Status, Stay, Outcome
    <3>4. CASE Approve(c)
      BY <3>4 DEF Approve, AllOps, Status, Stay, Outcome
    <3>5. CASE Reject(c)
      BY <3>5 DEF Reject, AllOps, Status, Stay, Outcome
    <3>6. CASE SweepCancel(c)
      BY <3>6 DEF SweepCancel, AllOps, Status, Stay, Outcome
    <3> QED
      BY <1>3, <3>1, <3>2, <3>3, <3>4, <3>5, <3>6
  <2> DEFINE new == [row[t.id] EXCEPT !.status = status]
  <2>2. /\ new.status = status /\ new.slot = row[t.id].slot
        /\ new.title = row[t.id].title
    BY <1>0 DEF Row
  <2>3. op # "reschedule" /\ Becomes(op, t, status)
    BY <2>1 DEF Outcome, Becomes
  <2>4. Update(c, op, t, new, next)
    BY <2>1, <2>2, <2>3 DEF Update
  <2> HIDE DEF new
  <2> QED
    BY <2>4
<1>4. CASE Complete(c)
  <2> DEFINE new(t) == [row[t.id] EXCEPT !.status = "COMPLETED",
               !.actual = IF t.row.actual = None THEN t.row.slot ELSE t.row.actual]
  <2>1. PICK t \in call[c].todo :
          Turn(c, "complete", t) /\ Commit(c, t, new(t), "record")
    BY <1>4 DEF Complete
  <2>2. /\ new(t).status = "COMPLETED" /\ new(t).slot = row[t.id].slot
        /\ new(t).title = row[t.id].title
    BY <1>0 DEF Row
  <2>3. Update(c, "complete", t, new(t), "record")
    BY <2>1, <2>2 DEF Update, Becomes, Outcome, Stay
  <2> HIDE DEF new
  <2> QED
    BY <2>3 DEF AllOps
<1>5. CASE CorrectActualTimes(c)
  <2> DEFINE new(t) == [row[t.id] EXCEPT !.actual = call[c].arg]
  <2>1. PICK t \in call[c].todo :
          Turn(c, "correct_actuals", t) /\ Commit(c, t, new(t), "record")
    BY <1>5 DEF CorrectActualTimes
  <2>2. /\ new(t).status = row[t.id].status /\ new(t).slot = row[t.id].slot
        /\ new(t).title = row[t.id].title
    BY <1>0 DEF Row
  <2>3. Update(c, "correct_actuals", t, new(t), "record")
    BY <2>1, <2>2 DEF Update, Becomes, Stay
  <2> HIDE DEF new
  <2> QED
    BY <2>3 DEF AllOps
<1> QED
  BY <1>1, <1>2, <1>3, <1>4, <1>5

(* What a step does to the rows: nothing, or one update that fits, which   *)
(* moves no row unless it reschedules it and starts none.                  *)
LEMMA RowStep ==
  ASSUME TypeOK, [Next]_vars
  PROVE  \/ row' = row
         \/ \E c \in Calls : \E t \in call[c].todo :
              /\ t.id \in Occ
              /\ Fits(t.id, row'[t.id])
              /\ row' = [row EXCEPT ![t.id] = row'[t.id]]
              /\ row'[t.id].slot = row[t.id].slot \/ call[c].op = "reschedule"
              /\ row'[t.id].status = "IN_PROGRESS" => row[t.id].status = "IN_PROGRESS"
<1>1. CASE UNCHANGED vars \/ Rest
  BY <1>1 DEF Rest, vars
<1>2. ASSUME NEW c \in Calls,
             \/ Load(c) \/ SweepLoad(c) \/ List(c) \/ CheckRefuses(c)
             \/ CheckPasses(c) \/ SweepWarn(c) \/ PublishRead(c)
             \/ PublishWrite(c) \/ RetireReminders(c) \/ Record(c)
             \/ Notify(c) \/ Capture(c) \/ SeriesDefaults(c) \/ Crash(c)
      PROVE  row' = row
  BY <1>2 DEF Load, SweepLoad, List, CheckRefuses, CheckPasses, SweepWarn,
     PublishRead, PublishWrite, RetireReminders, Record, Notify, Capture,
     SeriesDefaults, Crash
<1>3. ASSUME NEW c \in Calls, NEW op \in AllOps, NEW t \in call[c].todo, NEW new,
             NEW next \in {"publish", "record", "retire"},
             Update(c, op, t, new, next)
      PROVE  \/ row' = row
             \/ /\ t.id \in Occ
                /\ Fits(t.id, row'[t.id])
                /\ row' = [row EXCEPT ![t.id] = row'[t.id]]
                /\ row'[t.id].slot = row[t.id].slot \/ call[c].op = "reschedule"
                /\ row'[t.id].status = "IN_PROGRESS"
                     => row[t.id].status = "IN_PROGRESS"
  <2>1. t.id \in Occ
    BY DEF TypeOK, CallState, Image
  <2>2. CASE Fits(t.id, new)
    <3>1. row' = [row EXCEPT ![t.id] = new]
      BY <1>3, <2>2 DEF Update, Commit
    <3>2. row'[t.id] = new
      BY <2>1, <3>1 DEF TypeOK
    <3> QED
      BY <1>3, <2>1, <2>2, <3>1, <3>2 DEF Update, Turn
  <2>3. CASE ~Fits(t.id, new)
    BY <1>3, <2>3 DEF Update, Commit
  <2> QED
    BY <2>2, <2>3
<1> QED
  BY <1>1, <1>2, <1>3, Updates DEF Next, Step

Exclusive == NoInstructorOverlap /\ NoRoomOverlap

(* The initial calendar is exclusive.                                      *)
LEMMA InitExclusive == Init => Exclusive
<1> SUFFICES ASSUME Init PROVE Exclusive
  OBVIOUS
<1>1. \A o \in Occ : Fits(o, row[o])
  BY DEF Init
<1>2. ASSUME NEW o \in Occ, NEW p \in Occ, o # p, Blocking(row[o]), Blocking(row[p]),
             SameInstructor(o, p) \/ SameRoom(o, p)
      PROVE  ~Overlap(row[o].slot, row[p].slot)
  BY <1>1, <1>2 DEF Fits, AbsoluteClash, Busy, Overlap
<1> QED
  BY <1>2 DEF Exclusive, NoInstructorOverlap, NoRoomOverlap

(* A step keeps the calendar exclusive.                                    *)
LEMMA NextExclusive ==
  ASSUME TypeOK, TypeOK', Exclusive, [Next]_vars PROVE Exclusive'
<1>1. CASE row' = row
  BY <1>1 DEF Exclusive, NoInstructorOverlap, NoRoomOverlap, Blocking
<1>2. ASSUME NEW o \in Occ, Fits(o, row'[o]), row' = [row EXCEPT ![o] = row'[o]]
      PROVE  Exclusive'
  <2>1. \A p \in Occ \ {o} : row'[p] = row[p]
    BY <1>2 DEF TypeOK
  <2>2. ASSUME NEW p \in Occ \ {o}, SameInstructor(o, p) \/ SameRoom(o, p),
               Blocking(row'[o]), Blocking(row'[p])
        PROVE  ~Overlap(row'[o].slot, row'[p].slot)
    BY <1>2, <2>1, <2>2 DEF Fits, AbsoluteClash, Busy, Overlap
  <2>3. ASSUME NEW p \in Occ, NEW q \in Occ, p # q,
               SameInstructor(p, q) \/ SameRoom(p, q),
               Blocking(row'[p]), Blocking(row'[q])
        PROVE  ~Overlap(row'[p].slot, row'[q].slot)
    <3>1. CASE p # o /\ q # o
      BY <2>1, <2>3, <3>1 DEF Exclusive, NoInstructorOverlap, NoRoomOverlap
    <3>2. CASE p = o
      BY <2>2, <2>3, <3>2
    <3>3. CASE q = o
      <4>1. SameInstructor(o, p) \/ SameRoom(o, p)
        BY <2>3, <3>3 DEF SameInstructor, SameRoom
      <4>2. ~Overlap(row'[o].slot, row'[p].slot)
        BY <2>2, <2>3, <3>3, <4>1
      <4> QED
        BY <3>3, <4>2 DEF Overlap
    <3> QED
      BY <3>1, <3>2, <3>3
  <2> QED
    BY <2>3 DEF Exclusive, NoInstructorOverlap, NoRoomOverlap
<1> QED
  BY <1>1, <1>2, RowStep

(* No instructor is ever in two live sessions at once ...                  *)
THEOREM InstructorsExclusive == Spec => []NoInstructorOverlap
<1>1. Exclusive => NoInstructorOverlap
  BY DEF Exclusive
<1> QED
  BY <1>1, InitExclusive, NextExclusive, TypeCorrect, PTL DEF Spec

(* ... and no room holds two, whatever the requests do to each other.      *)
THEOREM RoomsExclusive == Spec => []NoRoomOverlap
<1>1. Exclusive => NoRoomOverlap
  BY DEF Exclusive
<1> QED
  BY <1>1, InitExclusive, NextExclusive, TypeCorrect, PTL DEF Spec

-----------------------------------------------------------------------------
(* The calendar is a SlotBook.                                             *)

(* What an occurrence holds is a slot or nothing.                          *)
LEMMA HeldType ==
  ASSUME TypeOK
  PROVE  Held \in [Occ -> Book!Slot \cup {None}]
BY DEF Held, TypeOK, Row, Slot, Book!Slot

(* What an occurrence holds, in the terms of the rows.                     *)
LEMMA HeldOf ==
  ASSUME NEW o \in Occ, TypeOK
  PROVE  /\ Held[o] # None <=> Blocking(row[o])
         /\ Blocking(row[o]) => Held[o] = row[o].slot
BY ConstantsAssumption DEF Held, TypeOK, Row

(* Two occurrences contend when they share an instructor or a room.        *)
LEMMA ContendingPairs ==
  ASSUME NEW o \in Occ, NEW p \in Occ, {o, p} \in Contending
  PROVE  SameInstructor(o, p) \/ SameRoom(o, p)
<1>1. PICK x \in Occ \X Occ : /\ {o, p} = {x[1], x[2]}
                              /\ SameInstructor(x[1], x[2]) \/ SameRoom(x[1], x[2])
  BY DEF Contending
<1>2. (x[1] = o /\ x[2] = p) \/ (x[1] = p /\ x[2] = o)
  BY <1>1
<1> QED
  BY <1>1, <1>2 DEF SameInstructor, SameRoom

(* The initial rows are an initial SlotBook.                               *)
LEMMA InitBook == Init /\ TypeOK => Book!Init
<1> SUFFICES ASSUME Init, TypeOK PROVE Book!Init
  OBVIOUS
<1>1. ASSUME NEW o \in Occ, NEW p \in Occ, o # p, {o, p} \in Contending,
             Held[o] # None, Held[p] # None
      PROVE  ~Book!Overlap(Held[o], Held[p])
  <2>1. Exclusive
    BY InitExclusive
  <2>2. SameInstructor(o, p) \/ SameRoom(o, p)
    BY <1>1, ContendingPairs
  <2>3. ~Overlap(row[o].slot, row[p].slot)
    BY <1>1, <2>1, <2>2, HeldOf DEF Exclusive, NoInstructorOverlap, NoRoomOverlap
  <2> QED
    BY <1>1, <2>3, HeldOf DEF Overlap, Book!Overlap
<1> QED
  BY <1>1, HeldType DEF Book!Init, Book!Exclusive

(* A step of the handlers is a step of SlotBook or changes nothing of it.  *)
LEMMA NextBook ==
  ASSUME TypeOK, TypeOK', [Next]_vars
  PROVE  [Book!Next]_Held
<1>1. CASE row' = row
  BY <1>1 DEF Held
<1>2. ASSUME NEW o \in Occ, Fits(o, row'[o]), row' = [row EXCEPT ![o] = row'[o]]
      PROVE  [Book!Next]_Held
  <2>1. Held' = [Held EXCEPT ![o] = Held'[o]]
    BY <1>2 DEF Held, TypeOK
  <2>2. CASE ~Blocking(row'[o])
    <3>1. Held'[o] = None
      BY <2>2 DEF Held
    <3> QED
      BY <2>1, <3>1 DEF Book!Next, Book!Release
  <2>3. CASE Blocking(row'[o])
    <3>1. Held'[o] = row'[o].slot
      BY <2>3 DEF Held
    <3>2. Held'[o] \in Book!Slot
      BY <3>1 DEF TypeOK, Row, Slot, Book!Slot
    <3>3. ASSUME NEW p \in Occ \ {o}, {o, p} \in Contending, Held[p] # None
          PROVE  ~Book!Overlap(Held'[o], Held[p])
      <4>1. SameInstructor(o, p) \/ SameRoom(o, p)
        BY <3>3, ContendingPairs
      <4>2. Blocking(row[p]) /\ Held[p] = row[p].slot
        BY <3>3, HeldOf
      <4>3. ~Overlap(row[p].slot, row'[o].slot)
        BY <1>2, <2>3, <4>1, <4>2 DEF Fits, AbsoluteClash, Busy
      <4> QED
        BY <3>1, <4>2, <4>3 DEF Overlap, Book!Overlap
    <3>4. Book!Fits(o, Held'[o])
      BY <3>3 DEF Book!Fits
    <3>5. Book!Hold(o)
      BY <2>1, <3>2, <3>4 DEF Book!Hold
    <3> QED
      BY <3>5 DEF Book!Next
  <2> QED
    BY <2>2, <2>3
<1> QED
  BY <1>1, <1>2, RowStep

(* The services implement the calendar's contract: the slots the rows hold *)
(* change one occurrence at a time and never onto a contender.             *)
THEOREM ImplementsBook == Spec => ImplementsSlotBook
BY InitTypeOK, InitBook, NextBook, TypeCorrect, PTL
   DEF Spec, ImplementsSlotBook, Book!Spec

-----------------------------------------------------------------------------
(* A started session stays where it is.                                    *)

(* No request to move it has been let in: it is of no series, so the wide  *)
(* scopes do not reach it, and nothing starts a session that was judged    *)
(* when it had not begun.                                                  *)
StartedUntouched ==
  \A o \in Occ :
    row[o].status = "IN_PROGRESS" =>
      /\ Series[o] = None
      /\ \A c \in Calls : call[c].op = "reschedule" =>
           \A t \in call[c].todo : t.id # o

(* A request that goes on moving was moving, with no target added.         *)
LEMMA AdvanceTodo ==
  ASSUME NEW k \in CallState, Advance(k).op = "reschedule"
  PROVE  k.op = "reschedule" /\ Advance(k).todo \subseteq k.todo
<1>1. CASE \/ k.todo # {}
           \/ k.todo = {} /\ k.op = "reschedule" /\ k.changed # {}
           \/ k.todo = {} /\ k.op = "edit" /\ k.scope # "THIS"
  BY <1>1 DEF Advance, CallState
<1>2. CASE ~ \/ k.todo # {}
             \/ k.todo = {} /\ k.op = "reschedule" /\ k.changed # {}
             \/ k.todo = {} /\ k.op = "edit" /\ k.scope # "THIS"
  BY <1>2 DEF Advance, Done, Blank
<1> QED
  BY <1>1, <1>2

(* Its targets are among those it found.                                   *)
LEMMA ReachTodo ==
  ASSUME NEW k \in CallState, NEW S \in SUBSET Image,
         Reach(k, S).op = "reschedule"
  PROVE  k.op = "reschedule" /\ Reach(k, S).todo \subseteq S
<1> DEFINE j == [k EXCEPT !.todo = {t \in S : ~Skipped(k, t)}]
<1>1. j \in CallState /\ j.op = k.op /\ j.todo \subseteq S
  BY DEF CallState
<1>2. Reach(k, S) = Advance(j)
  BY DEF Reach
<1> QED
  BY <1>1, <1>2, AdvanceTodo

(* A request to move sessions takes on a target only when the target may   *)
(* be moved as it stands, or belongs to a series.                          *)
LEMMA NewTargets ==
  ASSUME NEW c \in Calls, TypeOK, Step(c), call'[c].op = "reschedule",
         NEW t \in call'[c].todo
  PROVE  \/ call[c].op = "reschedule" /\ t \in call[c].todo
         \/ /\ row' = row
            /\ t.id \in Occ /\ row[t.id].status # "IN_PROGRESS"
         \/ Series[t.id] # None
<1>0. call[c] \in CallState
  BY DEF TypeOK
<1>1. CASE Load(c)
  <2>1. PICK op \in Ops \ {"sweep"}, o \in Occ :
          /\ Permitted(op, row[o])
          /\ \E scope \in ScopesOf(op, o), arg \in ArgsOf(op) :
               LET k == [Blank EXCEPT !.op = op, !.anchor = ImageOf(o),
                                      !.scope = scope, !.arg = arg]
               IN call' = [call EXCEPT ![c] =
                             IF scope = "THIS" THEN Reach(k, {ImageOf(o)})
                             ELSE [k EXCEPT !.at = "list"]]
    BY <1>1 DEF Load
  <2>2. PICK scope \in ScopesOf(op, o), arg \in ArgsOf(op) :
          LET k == [Blank EXCEPT !.op = op, !.anchor = ImageOf(o),
                                 !.scope = scope, !.arg = arg]
          IN call' = [call EXCEPT ![c] =
                        IF scope = "THIS" THEN Reach(k, {ImageOf(o)})
                        ELSE [k EXCEPT !.at = "list"]]
    BY <2>1
  <2> DEFINE k == [Blank EXCEPT !.op = op, !.anchor = ImageOf(o),
                                !.scope = scope, !.arg = arg]
  <2>3. ImageOf(o) \in Image
    BY DEF ImageOf, Image, TypeOK
  <2>4. op \in AllOps /\ scope \in Scope /\ arg \in Slot \cup Titles \cup {None}
    BY ConstantsAssumption DEF AllOps, ArgsOf, ScopesOf, Scope
  <2>5. k \in CallState
    BY <2>3, <2>4, BlankShape DEF CallState
  <2>6. k.op = op /\ k.todo = {}
    BY DEF Blank
  <2>7. CASE scope = "THIS"
    <3>1. call'[c] = Reach(k, {ImageOf(o)})
      BY <2>2, <2>7 DEF TypeOK
    <3> HIDE DEF k
    <3>2. op = "reschedule" /\ t = ImageOf(o)
      BY <2>3, <2>5, <2>6, <3>1, ReachTodo
    <3>3. row[o].status # "IN_PROGRESS"
      BY <2>1, <3>2 DEF Permitted, StatusAllows, ACTIONS_BY_STATUS
    <3> QED
      BY <1>1, <3>2, <3>3 DEF ImageOf, Load
  <2>8. CASE scope # "THIS"
    <3>1. call'[c] = [k EXCEPT !.at = "list"]
      BY <2>2, <2>8 DEF TypeOK
    <3>2. call'[c].todo = {}
      BY <2>6, <3>1 DEF Blank
    <3> QED
      BY <3>2
  <2> QED
    BY <2>7, <2>8
<1>2. CASE SweepLoad(c)
  <2> DEFINE k == [Blank EXCEPT !.op = "sweep"]
  <2>1. PICK S \in SUBSET Occ : call'[c] = Reach(k, {ImageOf(o) : o \in S})
    <3>1. PICK S \in SUBSET {o \in ShortOfCredit : row[o].status = "REQUESTED"} :
            call' = [call EXCEPT ![c] = Reach(k, {ImageOf(o) : o \in S})]
      BY <1>2 DEF SweepLoad
    <3> QED
      BY <3>1, ConstantsAssumption DEF TypeOK
  <2>2. {ImageOf(o) : o \in S} \in SUBSET Image
    BY DEF ImageOf, Image, TypeOK
  <2>3. k \in CallState
    BY BlankShape DEF CallState, AllOps
  <2>4. k.op = "sweep"
    BY DEF Blank
  <2> QED
    BY <2>1, <2>2, <2>3, <2>4, ReachTodo
<1>3. CASE List(c)
  <2> DEFINE found == {ImageOf(p) : p \in {q \in Occ :
                         InScope(call[c].anchor, call[c].scope, q)}}
             lead == \A u \in found : u.id # call[c].anchor.id
             k == [call[c] EXCEPT !.lead = lead]
             S == IF lead THEN found \cup {call[c].anchor} ELSE found
  <2>1. call'[c] = Reach(k, S)
    BY <1>3 DEF List, TypeOK
  <2>2. RunShape(call[c]) /\ call[c].scope # "THIS"
    BY <1>3 DEF List, TypeOK, CallShape, Ended
  <2>3. Series[call[c].anchor.id] # None /\ call[c].anchor \in Image
    BY <2>2 DEF RunShape
  <2>4. S \in SUBSET Image
    BY <2>3 DEF ImageOf, Image, TypeOK
  <2>5. k \in CallState
    BY <1>0 DEF CallState
  <2>6. t \in S
    BY <2>1, <2>4, <2>5, ReachTodo
  <2>7. \A u \in S : Series[u.id] = Series[call[c].anchor.id]
    BY DEF InScope, ImageOf
  <2> QED
    BY <2>3, <2>6, <2>7
<1>4. CASE CheckRefuses(c)
  BY <1>0, <1>4 DEF CheckRefuses, Fail, Blank, TypeOK
<1>5. CASE CheckPasses(c)
  BY <1>0, <1>5 DEF CheckPasses, CallState, TypeOK
<1>6. CASE \/ Reschedule(c) \/ EditDetails(c) \/ Cancel(c) \/ Restore(c)
           \/ Complete(c) \/ MarkMissed(c) \/ Approve(c) \/ Reject(c)
           \/ CorrectActualTimes(c) \/ SweepCancel(c)
  <2>1. PICK u, new, next :
          \/ call' = [call EXCEPT ![c] = Wrote(call[c], u, new, next)]
          \/ call' = [call EXCEPT ![c] = Fail(call[c])]
    <3>1. PICK op, u, new, next : Update(c, op, u, new, next)
      BY <1>6, Updates
    <3> QED
      BY <3>1 DEF Update, Commit
  <2>2. /\ Wrote(call[c], u, new, next).op = call[c].op
        /\ Wrote(call[c], u, new, next).todo = call[c].todo \ {u}
    BY <1>0 DEF Wrote, CallState
  <2>3. Fail(call[c]).todo = {}
    BY DEF Fail, Blank
  <2>4. \/ call'[c] = Wrote(call[c], u, new, next)
        \/ call'[c] = Fail(call[c])
    BY <2>1 DEF TypeOK
  <2> QED
    BY <2>2, <2>3, <2>4
<1>7. CASE SweepWarn(c)
  <2>1. PICK u \in call[c].todo : call'[c] = Advance(Without(call[c], u))
    BY <1>7 DEF SweepWarn, TypeOK
  <2>2. /\ Without(call[c], u) \in CallState
        /\ Without(call[c], u).op = call[c].op
        /\ Without(call[c], u).todo \subseteq call[c].todo
    BY <1>0 DEF Without, CallState
  <2> QED
    BY <2>1, <2>2, AdvanceTodo
<1>8. CASE PublishRead(c) \/ PublishWrite(c) \/ RetireReminders(c)
  <2>1. CASE PublishRead(c)
    <3>1. PICK copy : call' = [call EXCEPT ![c] =
                                 [call[c] EXCEPT !.at = "push", !.copy = copy]]
      BY <2>1 DEF PublishRead
    <3> QED
      BY <1>0, <3>1 DEF CallState, TypeOK
  <2>2. CASE PublishWrite(c) \/ RetireReminders(c)
    <3>1. PICK at : call' = [call EXCEPT ![c] = [call[c] EXCEPT !.at = at]]
      BY <2>2 DEF PublishWrite, RetireReminders
    <3> QED
      BY <1>0, <3>1 DEF CallState, TypeOK
  <2> QED
    BY <1>8, <2>1, <2>2
<1>9. CASE Notify(c)
  BY <1>0, <1>9 DEF Notify, Noticing, CallState, TypeOK
<1>10. CASE Record(c) \/ Capture(c)
  <2>1. call'[c] = Advance(call[c])
    BY <1>10 DEF Record, Capture, TypeOK
  <2> QED
    BY <1>0, <2>1, AdvanceTodo
<1>11. CASE SeriesDefaults(c)
  BY <1>11 DEF SeriesDefaults, Done, Blank, TypeOK
<1>12. CASE Crash(c)
  BY <1>12 DEF Crash, Blank, TypeOK
<1> QED
  BY <1>1, <1>2, <1>3, <1>4, <1>5, <1>6, <1>7, <1>8, <1>9, <1>10, <1>11, <1>12
     DEF Step

(* A request's step leaves the other requests as they are.                 *)
LEMMA OthersWait ==
  ASSUME NEW c \in Calls, TypeOK, Step(c), NEW d \in Calls \ {c}
  PROVE  call'[d] = call[d]
<1>1. PICK k : call' = [call EXCEPT ![c] = k]
  <2>1. CASE \/ Load(c) \/ SweepLoad(c) \/ List(c) \/ CheckRefuses(c)
             \/ CheckPasses(c) \/ SweepWarn(c)
    BY <2>1 DEF Load, SweepLoad, List, CheckRefuses, CheckPasses, SweepWarn
  <2>2. CASE \/ PublishRead(c) \/ PublishWrite(c) \/ RetireReminders(c)
             \/ Record(c) \/ Notify(c) \/ Capture(c) \/ SeriesDefaults(c)
             \/ Crash(c)
    BY <2>2 DEF PublishRead, PublishWrite, RetireReminders, Record, Notify,
       Capture, SeriesDefaults, Crash
  <2>3. CASE \/ Reschedule(c) \/ EditDetails(c) \/ Cancel(c) \/ Restore(c)
             \/ Complete(c) \/ MarkMissed(c) \/ Approve(c) \/ Reject(c)
             \/ CorrectActualTimes(c) \/ SweepCancel(c)
    <3>1. PICK op, u, new, next : Update(c, op, u, new, next)
      BY <2>3, Updates
    <3> QED
      BY <3>1 DEF Update, Commit
  <2> QED
    BY <2>1, <2>2, <2>3 DEF Step
<1> QED
  BY <1>1 DEF TypeOK

(* No request has a target before it is made.                              *)
LEMMA InitStarted == Init => StartedUntouched
<1> SUFFICES ASSUME Init PROVE StartedUntouched
  OBVIOUS
<1>1. \A o \in Occ : row[o].status = "IN_PROGRESS" => Series[o] = None
  BY ConstantsAssumption DEF Init
<1>2. \A c \in Calls : call[c].op = "none"
  BY DEF Init, Blank
<1> QED
  BY <1>1, <1>2 DEF StartedUntouched

(* A step keeps targets in progress out of the reach of a move.            *)
LEMMA NextStarted ==
  ASSUME TypeOK, TypeOK', StartedUntouched, [Next]_vars
  PROVE  StartedUntouched'
<1>1. ASSUME NEW o \in Occ, row'[o].status = "IN_PROGRESS"
      PROVE  row[o].status = "IN_PROGRESS"
  BY <1>1, RowStep DEF TypeOK
<1>2. CASE UNCHANGED vars \/ Rest
  BY <1>2 DEF Rest, vars, StartedUntouched
<1>3. ASSUME NEW c \in Calls, Step(c), NEW o \in Occ,
             row'[o].status = "IN_PROGRESS", NEW d \in Calls,
             call'[d].op = "reschedule", NEW t \in call'[d].todo
      PROVE  t.id # o
  <2>1. row[o].status = "IN_PROGRESS"
    BY <1>1, <1>3
  <2>2. CASE d # c
    BY <1>3, <2>1, <2>2, OthersWait DEF StartedUntouched
  <2>3. CASE d = c
    BY <1>3, <2>1, <2>3, NewTargets DEF StartedUntouched
  <2> QED
    BY <2>2, <2>3
<1>4. ASSUME NEW o \in Occ, row'[o].status = "IN_PROGRESS"
      PROVE  Series[o] = None
  BY <1>1, <1>4 DEF StartedUntouched
<1> QED
  BY <1>2, <1>3, <1>4 DEF Next, StartedUntouched

(* With that, a step moves no session in progress.                         *)
LEMMA StartedStays ==
  ASSUME TypeOK, StartedUntouched, [Next]_vars, NEW o \in Occ,
         row[o].status = "IN_PROGRESS"
  PROVE  row'[o].slot = row[o].slot
<1>1. CASE row' = row
  BY <1>1
<1>2. ASSUME NEW c \in Calls, NEW t \in call[c].todo, t.id \in Occ,
             row' = [row EXCEPT ![t.id] = row'[t.id]],
             row'[t.id].slot = row[t.id].slot \/ call[c].op = "reschedule"
      PROVE  row'[o].slot = row[o].slot
  <2>1. CASE t.id = o
    BY <1>2, <2>1 DEF StartedUntouched
  <2>2. CASE t.id # o
    BY <1>2, <2>2 DEF TypeOK
  <2> QED
    BY <2>1, <2>2
<1> QED
  BY <1>1, <1>2, RowStep

(* A lesson that has started is not moved while it is happening.           *)
THEOREM StartedNeverMoves == Spec => InProgressNeverMoves
<1>1. TypeOK /\ StartedUntouched /\ [Next]_vars =>
        [\A o \in Occ : row[o].status = "IN_PROGRESS"
                          => row'[o].slot = row[o].slot]_vars
  BY StartedStays
<1> QED
  BY <1>1, InitStarted, NextStarted, TypeCorrect, PTL
     DEF Spec, InProgressNeverMoves

-----------------------------------------------------------------------------
(* The audit trail.                                                        *)

(* Request c has written row o and is still to record it, or never will.   *)
Recording(c, o) ==
  /\ call[c].cur = ImageOf(o)
  /\ \/ call[c].at \in {"publish", "push", "record", "dead"}
     \/ call[c].at = "retire" /\ call[c].op = "cancel"
     \/ /\ call[c].at \in {"retire", "capture"} /\ call[c].op = "sweep"
        /\ row[o].status = "CANCELLED"

SweptAway(o) == row[o].status = "CANCELLED" /\ notices[o]["credit_cancel"] # None

(* AuditWitness with the stages at which a request still owes its record:  *)
(* the target at hand of any other stage proves nothing.                   *)
AuditInv ==
  \A o \in Occ : \/ row[o] \in trail[o]
                 \/ \E c \in Calls : Recording(c, o)
                 \/ SweptAway(o)

(* An update makes its request the writer of the row.                      *)
LEMMA WriterRecords ==
  ASSUME NEW c \in Calls, TypeOK, Step(c), NEW o \in Occ, row'[o] # row[o]
  PROVE  Recording(c, o)'
<1>0. call[c] \in CallState
  BY DEF TypeOK
<1>1. \/ Reschedule(c) \/ EditDetails(c) \/ Cancel(c) \/ Restore(c)
      \/ Complete(c) \/ MarkMissed(c) \/ Approve(c) \/ Reject(c)
      \/ CorrectActualTimes(c) \/ SweepCancel(c)
  BY DEF Step, Load, SweepLoad, List, CheckRefuses, CheckPasses, SweepWarn,
     PublishRead, PublishWrite, RetireReminders, Record, Notify, Capture,
     SeriesDefaults, Crash
<1>a. PICK op \in AllOps, t \in call[c].todo, next \in {"publish", "record", "retire"} :
           \E new : Update(c, op, t, new, next)
  BY <1>1, Updates
<1>2. PICK new : Update(c, op, t, new, next)
  BY <1>a
<1>3. /\ row' = [row EXCEPT ![t.id] = new]
      /\ call' = [call EXCEPT ![c] = Wrote(call[c], t, new, next)]
  BY <1>2 DEF Update, Commit
<1>4. t.id = o /\ row'[o] = new
  BY <1>3 DEF TypeOK
<1>5. /\ call'[c].at = next /\ call'[c].op = op
      /\ call'[c].cur = [id |-> o, row |-> row'[o]]
  BY <1>0, <1>2, <1>3, <1>4 DEF Wrote, Update, Turn, CallState, TypeOK
<1> QED
  BY <1>2, <1>4, <1>5, <1>a DEF Recording, ImageOf, Update, Stay

(* A request that owes a record keeps owing it until it has paid.          *)
LEMMA RecordingStep ==
  ASSUME NEW c \in Calls, TypeOK, Step(c), NEW o \in Occ, row'[o] = row[o],
         Recording(c, o)
  PROVE  row'[o] \in trail'[o] \/ Recording(c, o)' \/ SweptAway(o)'
<1>0. call[c] \in CallState /\ call[c].cur = [id |-> o, row |-> row[o]]
  BY DEF TypeOK, Recording, ImageOf
<1>1. CASE PublishRead(c)
  <2>1. PICK copy : call' = [call EXCEPT ![c] =
                               [call[c] EXCEPT !.at = "push", !.copy = copy]]
    BY <1>1 DEF PublishRead
  <2>2. call'[c].at = "push" /\ call'[c].cur = call[c].cur
    BY <1>0, <2>1 DEF CallState, TypeOK
  <2> QED
    BY <1>0, <2>2 DEF Recording, ImageOf
<1>2. CASE PublishWrite(c)
  <2>1. /\ call'[c].at = IF call[c].op = "cancel" THEN "retire" ELSE "record"
        /\ call'[c].cur = call[c].cur /\ call'[c].op = call[c].op
    BY <1>0, <1>2 DEF PublishWrite, CallState, TypeOK
  <2> QED
    BY <1>0, <2>1 DEF Recording, ImageOf
<1>3. CASE RetireReminders(c)
  <2>1. /\ call'[c].at = IF call[c].op = "cancel" THEN "record" ELSE "capture"
        /\ call'[c].cur = call[c].cur /\ call'[c].op = call[c].op
    BY <1>0, <1>3 DEF RetireReminders, CallState, TypeOK
  <2>2. call[c].at = "retire"
    BY <1>3 DEF RetireReminders
  <2> QED
    BY <1>0, <2>1, <2>2 DEF Recording, ImageOf
<1>4. CASE Record(c)
  BY <1>0, <1>4 DEF Record, TypeOK
<1>5. CASE Capture(c)
  <2>1. call[c].op = "sweep" /\ row[o].status = "CANCELLED"
    BY <1>5 DEF Capture, Recording
  <2>2. notices' = [notices EXCEPT ![o] =
                      Captured(notices[o], {"credit_cancel"}, row[o].slot)]
    <3>1. NoticeKinds(call[c]) = {"credit_cancel"}
      BY <2>1 DEF NoticeKinds
    <3>2. call[c].cur.id = o /\ call[c].cur.row.slot = row[o].slot
      BY <1>0
    <3> QED
      BY <1>5, <3>1, <3>2 DEF Capture
  <2>3. row[o].slot # None
    BY ConstantsAssumption DEF TypeOK, Row
  <2>4. notices'[o]["credit_cancel"] # None
    BY <2>2, <2>3 DEF Captured, Kinds, TypeOK
  <2> QED
    BY <2>1, <2>4 DEF SweptAway
<1>6. CASE Crash(c)
  <2>1. call'[c].at = "dead" /\ call'[c].cur = call[c].cur
    BY <1>6 DEF Crash, Blank, TypeOK
  <2> QED
    BY <1>0, <2>1 DEF Recording, ImageOf
<1>7. call[c].at \in {"publish", "push", "record", "dead", "retire", "capture"}
  BY DEF Recording
<1>8. \/ PublishRead(c) \/ PublishWrite(c) \/ RetireReminders(c)
      \/ Record(c) \/ Capture(c) \/ Crash(c)
  <2>1. ASSUME NEW op, NEW t, Turn(c, op, t) PROVE FALSE
    BY <1>7, <2>1 DEF Turn
  <2> QED
    BY <1>7, <2>1 DEF Step, Load, SweepLoad, List, CheckRefuses, CheckPasses,
       Reschedule, EditDetails, Cancel, Restore, Complete, MarkMissed, Approve,
       Reject, CorrectActualTimes, SweepCancel, SweepWarn, Notify, SeriesDefaults
<1> QED
  BY <1>1, <1>2, <1>3, <1>4, <1>5, <1>6, <1>8

(* The trail only grows.                                                   *)
LEMMA TrailGrows ==
  ASSUME NEW c \in Calls, TypeOK, Step(c), NEW o \in Occ
  PROVE  trail[o] \subseteq trail'[o]
<1>1. CASE Record(c)
  BY <1>1 DEF Record, TypeOK
<1>2. CASE \/ Reschedule(c) \/ EditDetails(c) \/ Cancel(c) \/ Restore(c)
           \/ Complete(c) \/ MarkMissed(c) \/ Approve(c) \/ Reject(c)
           \/ CorrectActualTimes(c) \/ SweepCancel(c)
  <2>1. PICK op, t, new, next : Update(c, op, t, new, next)
    BY <1>2, Updates
  <2> QED
    BY <2>1 DEF Update, Commit, aside
<1> QED
  BY <1>1, <1>2 DEF Step, Load, SweepLoad, List, CheckRefuses, CheckPasses,
     SweepWarn, PublishRead, PublishWrite, RetireReminders, Notify, Capture,
     SeriesDefaults, Crash, aside

(* The notice of a cancellation by the sweep stays.                        *)
LEMMA NoticeStays ==
  ASSUME NEW c \in Calls, TypeOK, Step(c), NEW o \in Occ,
         notices[o]["credit_cancel"] # None
  PROVE  notices'[o]["credit_cancel"] = notices[o]["credit_cancel"]
<1>0. \A p \in Occ : notices[p] \in [Kinds -> Slot \cup {None}]
  BY DEF TypeOK
<1>1. CASE RetireReminders(c)
  BY <1>0, <1>1 DEF RetireReminders, Kinds, TypeOK
<1>2. CASE SweepWarn(c) \/ Capture(c)
  <2>1. \E p, kinds, s :
          notices' = [notices EXCEPT ![p] = Captured(notices[p], kinds, s)]
    <3>1. CASE SweepWarn(c)
      <4>1. PICK t \in call[c].todo :
              notices' = [notices EXCEPT ![t.id] =
                Captured(notices[t.id], {"credit_warning"}, t.row.slot)]
        BY <3>1 DEF SweepWarn
      <4> QED
        BY <4>1
    <3>2. CASE Capture(c)
      BY <3>2 DEF Capture
    <3> QED
      BY <1>2, <3>1, <3>2
  <2> QED
    BY <2>1 DEF Captured, Kinds, TypeOK
<1>3. CASE \/ Reschedule(c) \/ EditDetails(c) \/ Cancel(c) \/ Restore(c)
           \/ Complete(c) \/ MarkMissed(c) \/ Approve(c) \/ Reject(c)
           \/ CorrectActualTimes(c) \/ SweepCancel(c)
  <2>1. PICK op, t, new, next : Update(c, op, t, new, next)
    BY <1>3, Updates
  <2> QED
    BY <2>1 DEF Update, Commit, aside
<1> QED
  BY <1>1, <1>2, <1>3 DEF Step, Load, SweepLoad, List, CheckRefuses, CheckPasses,
     PublishRead, PublishWrite, Record, Notify, SeriesDefaults, Crash, aside

(* A step leaves every row recorded, at hand, or announced by the sweep.   *)
LEMMA NextAudit ==
  ASSUME TypeOK, TypeOK', AuditInv, [Next]_vars PROVE AuditInv'
<1>1. CASE UNCHANGED vars \/ Rest
  BY <1>1 DEF Rest, vars, AuditInv, Recording, SweptAway, ImageOf
<1>2. ASSUME NEW c \in Calls, Step(c), NEW o \in Occ
      PROVE  \/ row'[o] \in trail'[o]
             \/ \E d \in Calls : Recording(d, o)'
             \/ SweptAway(o)'
  <2>1. CASE row'[o] # row[o]
    BY <1>2, <2>1, WriterRecords
  <2>2. CASE row'[o] = row[o] /\ row[o] \in trail[o]
    <3>1. trail[o] \subseteq trail'[o]
      BY <1>2, TrailGrows
    <3> QED
      BY <2>2, <3>1
  <2>3. CASE row'[o] = row[o] /\ SweptAway(o)
    <3>1. notices'[o]["credit_cancel"] = notices[o]["credit_cancel"]
      BY <1>2, <2>3, NoticeStays DEF SweptAway
    <3> QED
      BY <2>3, <3>1 DEF SweptAway
  <2>4. ASSUME NEW d \in Calls, row'[o] = row[o], Recording(d, o)
        PROVE  \/ row'[o] \in trail'[o] \/ Recording(d, o)' \/ SweptAway(o)'
    <3>1. CASE d = c
      BY <1>2, <2>4, <3>1, RecordingStep
    <3>2. CASE d # c
      <4>1. call'[d] = call[d]
        BY <1>2, <3>2, OthersWait
      <4> QED
        BY <2>4, <4>1 DEF Recording, ImageOf
    <3> QED
      BY <3>1, <3>2
  <2> QED
    BY <2>1, <2>2, <2>3, <2>4 DEF AuditInv
<1> QED
  BY <1>1, <1>2 DEF Next, AuditInv

(* Every row has its witness in the trail or in a request: nothing that    *)
(* goes wrong between two requests loses an event, only a stop does.       *)
THEOREM AuditHolds == Spec => []AuditWitness
<1>1. Init => AuditInv
  BY DEF Init, AuditInv
<1>2. AuditInv => AuditWitness
  BY DEF AuditInv, AuditWitness, Recording, SweptAway
<1> QED
  BY <1>1, <1>2, NextAudit, TypeCorrect, PTL DEF Spec

-----------------------------------------------------------------------------
(* One request at a time.  When the server works on one request, what a    *)
(* request reads is what it writes over, and what follows an update        *)
(* follows the last one.                                                   *)

Alone == \A c, d \in Calls : Active(c) /\ Active(d) => c = d

(* The copy shows the row, or the request that changed it is about to      *)
(* publish; what it is about to push is the row.                           *)
Shows(o, copy) == copy.slot = row[o].slot /\ copy.title = row[o].title
CopyInv ==
  /\ \A o \in Occ :
       \/ shared[o] = None \/ Shows(o, shared[o])
       \/ \E c \in Calls : /\ call[c].at \in {"publish", "push"}
                           /\ call[c].cur.id = o
  /\ \A c \in Calls : call[c].at = "push" => Shows(call[c].cur.id, call[c].copy)

(* What a request knows of its targets: each is there once, a row it moved *)
(* is where it put it, and only a move comes to be announced.              *)
Distinct(k) ==
  /\ \A t, u \in k.todo : t.id = u.id => t = u
  /\ \A t \in k.todo : \A u \in k.changed : t.id # u.id
Placed(k, r) == k.op = "reschedule" =>
  /\ \A u \in k.changed : r[u.id].slot = u.row.slot
  /\ k.at \in {"retire", "capture"} => r[k.cur.id].slot = k.cur.row.slot
Announces(k) ==
  /\ k.at = "notify" => k.op = "reschedule"
  /\ k.at = "retire" => k.op \in {"reschedule", "cancel", "sweep"}
  /\ k.at = "capture" => k.op \in {"reschedule", "sweep"}
  /\ k.at \in {"idle", "list"} => k.changed = {}
Tells(k, r) ==
  k.at \notin Ended => Distinct(k) /\ Placed(k, r) /\ Announces(k)

(* An open reminder names the session's time, or is about to be retired,   *)
(* or its session was moved by a request that has not told so (yet).       *)
Pending(k, o) ==
  \/ k.at = "retire" /\ k.cur.id = o
  \/ k.op = "reschedule" /\ \E t \in k.changed : t.id = o
ReminderInv ==
  /\ \A o \in Occ : \/ notices[o]["reminder"] \in {None, row[o].slot}
                    \/ \E c \in Calls : Pending(call[c], o)
  /\ \A c \in Calls : Tells(call[c], row)

(* A request is admitted when no other one runs.                           *)
LEMMA Nobody ==
  ASSUME Alone, MaxInFlight = 1, Admitted
  PROVE  \A c \in Calls : ~Active(c)
<1> SUFFICES ASSUME NEW c \in Calls, Active(c) PROVE FALSE
  OBVIOUS
<1>1. {d \in Calls : Active(d)} = {c}
  BY DEF Alone
<1>2. Cardinality({c}) = 1
  BY FS_Singleton
<1> QED
  BY <1>1, <1>2 DEF Admitted

(* While one takes a step the others stand still, and none of them runs.   *)
LEMMA Solo ==
  ASSUME TypeOK, Alone, MaxInFlight = 1, NEW c \in Calls, Step(c),
         NEW d \in Calls \ {c}
  PROVE  ~Active(d) /\ call'[d] = call[d]
<1>1. call'[d] = call[d]
  BY OthersWait
<1>2. CASE Load(c) \/ SweepLoad(c)
  BY <1>1, <1>2, Nobody DEF Load, SweepLoad
<1>3. CASE ~(Load(c) \/ SweepLoad(c))
  <2>1. Active(c)
    <3>1. CASE \/ List(c) \/ CheckRefuses(c) \/ CheckPasses(c) \/ SweepWarn(c)
               \/ PublishRead(c) \/ PublishWrite(c) \/ RetireReminders(c)
               \/ Record(c) \/ Notify(c) \/ Capture(c) \/ SeriesDefaults(c)
               \/ Crash(c)
      BY <3>1 DEF List, CheckRefuses, CheckPasses, SweepWarn, Turn, NeedsCheck,
         PublishRead, PublishWrite, RetireReminders, Record, Notify, Capture,
         SeriesDefaults, Crash, Active, Ended
    <3>2. CASE \/ Reschedule(c) \/ EditDetails(c) \/ Cancel(c) \/ Restore(c)
               \/ Complete(c) \/ MarkMissed(c) \/ Approve(c) \/ Reject(c)
               \/ CorrectActualTimes(c) \/ SweepCancel(c)
      <4>1. PICK op, t, new, next : Update(c, op, t, new, next)
        BY <3>2, Updates
      <4> QED
        BY <4>1 DEF Update, Turn, Active, Ended
    <3> QED
      BY <1>3, <3>1, <3>2 DEF Step
  <2> QED
    BY <1>1, <2>1 DEF Alone
<1> QED
  BY <1>2, <1>3

(* So they stay alone.                                                     *)
LEMMA NextAlone ==
  ASSUME TypeOK, Alone, MaxInFlight = 1, [Next]_vars
  PROVE  Alone'
<1>1. CASE UNCHANGED vars \/ Rest
  BY <1>1 DEF Rest, vars, Alone, Active
<1>2. ASSUME NEW c \in Calls, Step(c) PROVE Alone'
  <2>1. \A d \in Calls \ {c} : ~Active(d)'
    BY <1>2, Solo DEF Active
  <2> QED
    BY <2>1 DEF Alone
<1> QED
  BY <1>1, <1>2 DEF Next

(* No request runs at first.                                               *)
LEMMA InitAlone == Init => Alone
BY DEF Init, Blank, Alone, Active

(* What an update does to the row of its target and to the request.        *)
LEMMA UpdateStep ==
  ASSUME TypeOK, NEW c \in Calls, NEW op \in AllOps, NEW t \in call[c].todo,
         NEW new, NEW next \in {"publish", "record", "retire"},
         Update(c, op, t, new, next)
  PROVE  /\ t \in Image /\ t.id \in Occ /\ call[c].op = op
         /\ call[c].at \in {"update", "target"}
         /\ UNCHANGED aside
         /\ \/ row' = row /\ call'[c] = Fail(call[c])
            \/ /\ row' = [row EXCEPT ![t.id] = new] /\ row'[t.id] = new
               /\ call'[c] = Wrote(call[c], t, new, next)
BY DEF TypeOK, CallState, Image, Update, Turn, Commit

-----------------------------------------------------------------------------
(* Copies.                                                                 *)

(* Each session was published as it was booked.                            *)
LEMMA InitCopy == Init => CopyInv
<1> SUFFICES ASSUME Init PROVE CopyInv
  OBVIOUS
<1>1. \A c \in Calls : call[c].at = "idle"
  BY DEF Init, Blank
<1>2. \A o \in Occ : shared[o] = None \/ Shows(o, shared[o])
  BY DEF Init, Shows
<1> QED
  BY <1>1, <1>2 DEF CopyInv

(* A step that touches no row, no copy and no publication keeps them.      *)
LEMMA CopyStays ==
  ASSUME TypeOK, Alone, MaxInFlight = 1, NEW c \in Calls, Step(c), CopyInv,
         row' = row, shared' = shared,
         call[c].at \notin {"publish", "push"}, call'[c].at # "push"
  PROVE  CopyInv'
<1>1. \A d \in Calls \ {c} : call'[d] = call[d]
  BY Solo
<1>2. ASSUME NEW o \in Occ
      PROVE  \/ shared'[o] = None \/ Shows(o, shared[o])'
             \/ \E d \in Calls : /\ call'[d].at \in {"publish", "push"}
                                 /\ call'[d].cur.id = o
  BY <1>1 DEF CopyInv, Shows
<1>3. \A d \in Calls : call'[d].at = "push" =>
        Shows(call[d].cur.id, call[d].copy)'
  BY <1>1 DEF CopyInv, Shows
<1> QED
  BY <1>2, <1>3 DEF CopyInv

(* A publication reads the row there is, and pushes what it read.          *)
LEMMA PublishCopy ==
  ASSUME TypeOK, Alone, MaxInFlight = 1, NEW c \in Calls, Step(c), CopyInv,
         PublishRead(c) \/ PublishWrite(c)
  PROVE  CopyInv'
<1> DEFINE k == call[c]
<1>1. \A d \in Calls \ {c} : call'[d] = call[d] /\ ~Active(d)
  BY Solo
<1>2. /\ k \in CallState /\ k.cur \in Image /\ k.cur.id \in Occ
      /\ call \in [Calls -> CallState] /\ row' = row
      /\ shared \in [Occ -> Copy \cup {None}]
  BY DEF PublishRead, PublishWrite, TypeOK, CallShape, NeedsTarget, Image
<1>3. \A d \in Calls \ {c} : call'[d].at \notin {"publish", "push"}
  BY <1>1 DEF Active, Ended
<1>4. ASSUME NEW o \in Occ \ {k.cur.id}
      PROVE  shared[o] = None \/ Shows(o, shared[o])
  BY <1>1, <1>3 DEF CopyInv
<1>5. CASE PublishRead(c)
  <2> DEFINE r == row[k.cur.id]
             copy == [status |-> ToSharedStatus(r.status), slot |-> r.slot,
                      title |-> r.title]
             n == [k EXCEPT !.at = "push", !.copy = copy]
  <2>1. call'[c] = n /\ shared' = shared
    BY <1>2, <1>5 DEF PublishRead, aside
  <2>2. n.at = "push" /\ n.cur = k.cur /\ n.copy = copy
    BY <1>2 DEF CallState
  <2>3. copy.slot = r.slot /\ copy.title = r.title
    OBVIOUS
  <2> HIDE DEF copy, n, k
  <2>4. \A d \in Calls : call'[d].at = "push" =>
          Shows(call[d].cur.id, call[d].copy)'
    BY <1>2, <1>3, <2>1, <2>2, <2>3 DEF Shows
  <2>5. \A o \in Occ : \/ shared'[o] = None \/ Shows(o, shared[o])'
                       \/ \E d \in Calls : /\ call'[d].at \in {"publish", "push"}
                                           /\ call'[d].cur.id = o
    BY <1>2, <1>4, <2>1, <2>2 DEF Shows
  <2> QED
    BY <2>4, <2>5 DEF CopyInv
<1>6. CASE PublishWrite(c)
  <2>1. PICK next \in {"retire", "record"} :
          call'[c] = [k EXCEPT !.at = next]
    BY <1>2, <1>6 DEF PublishWrite
  <2>2. call'[c].at \notin {"publish", "push"}
    BY <1>2, <2>1 DEF CallState
  <2>3. shared' = [shared EXCEPT ![k.cur.id] = k.copy] /\ k.at = "push"
    BY <1>6 DEF PublishWrite
  <2>4. Shows(k.cur.id, k.copy)
    BY <2>3 DEF CopyInv
  <2> HIDE DEF k
  <2>5. ASSUME NEW o \in Occ PROVE shared'[o] = None \/ Shows(o, shared[o])'
    <3>1. CASE o = k.cur.id
      BY <1>2, <2>3, <2>4, <3>1 DEF Shows
    <3>2. CASE o # k.cur.id
      BY <1>2, <1>4, <2>3, <3>2 DEF Shows
    <3> QED
      BY <3>1, <3>2
  <2>6. \A d \in Calls : call'[d].at # "push"
    BY <1>3, <2>2
  <2> QED
    BY <2>5, <2>6 DEF CopyInv
<1> QED
  BY <1>5, <1>6

(* An update that moves or renames a session goes on to publish it.        *)
LEMMA UpdateCopy ==
  ASSUME TypeOK, Alone, MaxInFlight = 1, NEW c \in Calls, Step(c), CopyInv,
         NEW op \in AllOps, NEW t \in call[c].todo, NEW new,
         NEW next \in {"publish", "record", "retire"},
         Update(c, op, t, new, next)
  PROVE  CopyInv'
<1> DEFINE k == call[c]
           image == [id |-> t.id, row |-> new]
           n == Wrote(k, t, new, next)
<1>0. /\ k \in CallState /\ t.id \in Occ /\ shared' = shared
      /\ k.at \in {"update", "target"} /\ row \in [Occ -> Row]
  BY UpdateStep DEF TypeOK, aside
<1>1. \A d \in Calls \ {c} : call'[d] = call[d] /\ ~Active(d)
  BY Solo
<1>2. \A d \in Calls : call[d].at \notin {"publish", "push"}
  BY <1>0, <1>1 DEF Active, Ended
<1>3. \A o \in Occ : shared[o] = None \/ Shows(o, shared[o])
  BY <1>2 DEF CopyInv
<1>4. CASE row' = row /\ call'[c] = Fail(k)
  <2>1. call'[c].at # "push"
    BY <1>4 DEF Fail, Blank
  <2> QED
    BY <1>0, <1>2, <1>4, <2>1, CopyStays
<1>5. CASE row' = [row EXCEPT ![t.id] = new] /\ call'[c] = n
  <2>1. n.at = next /\ n.cur = image /\ image.id = t.id
    BY <1>0 DEF Wrote, CallState
  <2> HIDE DEF n, image
  <2>2. ASSUME NEW o \in Occ
        PROVE  \/ shared'[o] = None \/ Shows(o, shared[o])'
               \/ \E d \in Calls : /\ call'[d].at \in {"publish", "push"}
                                   /\ call'[d].cur.id = o
    <3>1. CASE o # t.id
      <4>1. row'[o] = row[o]
        BY <1>0, <1>5, <3>1
      <4> QED
        BY <1>0, <1>3, <4>1 DEF Shows
    <3>2. CASE o = t.id /\ next = "publish"
      BY <1>5, <2>1, <3>2
    <3>3. CASE o = t.id /\ next # "publish"
      <4>1. new.slot = row[o].slot /\ new.title = row[o].title
        BY <3>3 DEF Update, Stay
      <4>2. row'[o] = new
        BY <1>0, <1>5, <3>3
      <4> QED
        BY <1>0, <1>3, <4>1, <4>2 DEF Shows
    <3> QED
      BY <3>1, <3>2, <3>3
  <2>3. \A d \in Calls : call'[d].at # "push"
    BY <1>1, <1>2, <1>5, <2>1
  <2> QED
    BY <2>2, <2>3 DEF CopyInv
<1> QED
  BY <1>4, <1>5, UpdateStep

-----------------------------------------------------------------------------
(* Where a request stands when it has found or finished with its targets.  *)

Onward(k, n) ==
  /\ n.at \in {"target", "notify", "defaults", "done"}
  /\ n.at = "notify" => k.op = "reschedule"
  /\ n.at # "done" => n.op = k.op /\ n.todo = k.todo /\ n.changed = k.changed
  /\ n.at = "done" => (k.op = "reschedule" => k.changed = {})

(* Finishing with a target drops nothing that was moved.                   *)
LEMMA AdvanceOnward ==
  ASSUME NEW k \in CallState
  PROVE  Onward(k, Advance(k))
<1>1. CASE k.todo # {}
  BY <1>1 DEF Advance, CallState, Onward
<1>2. CASE k.todo = {} /\ k.op = "reschedule" /\ k.changed # {}
  BY <1>2 DEF Advance, CallState, Onward
<1>3. CASE k.todo = {} /\ k.op = "edit" /\ k.scope # "THIS"
  BY <1>3 DEF Advance, CallState, Onward
<1>4. CASE /\ ~(k.todo # {})
           /\ ~(k.todo = {} /\ k.op = "reschedule" /\ k.changed # {})
           /\ ~(k.todo = {} /\ k.op = "edit" /\ k.scope # "THIS")
  <2>1. Advance(k) = Done
    BY <1>4 DEF Advance
  <2> QED
    BY <1>4, <2>1 DEF Done, Blank, Onward
<1> QED
  BY <1>1, <1>2, <1>3, <1>4

(* A request that has just found its targets has each once, and has moved  *)
(* none.                                                                   *)
Fresh(k) ==
  /\ k.at \in {"list", "target", "notify", "defaults", "done"}
  /\ k.at = "notify" => k.op = "reschedule"
  /\ k.changed = {} \/ k.at = "done"
  /\ \A t, u \in k.todo : t.id = u.id => t = u

(* That is so of whatever distinct images it keeps.                        *)
LEMMA ReachFresh ==
  ASSUME NEW k \in CallState, NEW S \in SUBSET Image, k.changed = {},
         \A t, u \in S : t.id = u.id => t = u
  PROVE  Fresh(Reach(k, S))
<1> DEFINE j == [k EXCEPT !.todo = {t \in S : ~Skipped(k, t)}]
<1>1. j \in CallState /\ j.op = k.op /\ j.todo \subseteq S /\ j.changed = {}
  BY DEF CallState
<1>2. Reach(k, S) = Advance(j)
  BY DEF Reach
<1>3. Onward(j, Advance(j))
  BY <1>1, AdvanceOnward
<1> HIDE DEF j
<1>4. CASE Advance(j).at # "done"
  BY <1>1, <1>2, <1>3, <1>4 DEF Onward, Fresh
<1>5. CASE Advance(j).at = "done"
  <2>1. Advance(j) = Done
    BY <1>1, <1>5 DEF Advance, CallState
  <2> QED
    BY <1>2, <2>1 DEF Done, Blank, Fresh
<1> QED
  BY <1>4, <1>5

(* Each of the three ways to find targets does so.                         *)
LEMMA FoundFresh ==
  ASSUME TypeOK, NEW c \in Calls, Load(c) \/ SweepLoad(c) \/ List(c),
         call[c].at = "list" => call[c].changed = {}
  PROVE  Fresh(call'[c])
<1>0. call[c] \in CallState /\ call \in [Calls -> CallState]
  BY DEF TypeOK
<1>1. CASE Load(c)
  <2>1. PICK op \in Ops \ {"sweep"}, o \in Occ :
          \E scope \in ScopesOf(op, o), arg \in ArgsOf(op) :
             LET k == [Blank EXCEPT !.op = op, !.anchor = ImageOf(o),
                                    !.scope = scope, !.arg = arg]
             IN call' = [call EXCEPT ![c] =
                           IF scope = "THIS" THEN Reach(k, {ImageOf(o)})
                           ELSE [k EXCEPT !.at = "list"]]
    BY <1>1 DEF Load
  <2>2. PICK scope \in ScopesOf(op, o), arg \in ArgsOf(op) :
          LET k == [Blank EXCEPT !.op = op, !.anchor = ImageOf(o),
                                 !.scope = scope, !.arg = arg]
          IN call' = [call EXCEPT ![c] =
                        IF scope = "THIS" THEN Reach(k, {ImageOf(o)})
                        ELSE [k EXCEPT !.at = "list"]]
    BY <2>1
  <2> DEFINE k == [Blank EXCEPT !.op = op, !.anchor = ImageOf(o),
                                !.scope = scope, !.arg = arg]
  <2>3. ImageOf(o) \in Image
    BY DEF ImageOf, Image, TypeOK
  <2>4. op \in AllOps /\ scope \in Scope /\ arg \in Slot \cup Titles \cup {None}
    BY ConstantsAssumption DEF AllOps, ArgsOf, ScopesOf, Scope
  <2>5. k \in CallState
    BY <2>3, <2>4, BlankShape DEF CallState
  <2>6. k.changed = {} /\ k.todo = {}
    BY DEF Blank
  <2>7. CASE scope = "THIS"
    <3>1. call'[c] = Reach(k, {ImageOf(o)})
      BY <1>0, <2>2, <2>7
    <3> HIDE DEF k
    <3> QED
      BY <2>3, <2>5, <2>6, <3>1, ReachFresh
  <2>8. CASE scope # "THIS"
    <3>1. call'[c] = [k EXCEPT !.at = "list"]
      BY <1>0, <2>2, <2>8
    <3> HIDE DEF k
    <3> QED
      BY <2>5, <2>6, <3>1 DEF CallState, Fresh
  <2> QED
    BY <2>7, <2>8
<1>2. CASE SweepLoad(c)
  <2> DEFINE k == [Blank EXCEPT !.op = "sweep"]
  <2>1. PICK S \in SUBSET Occ : call'[c] = Reach(k, {ImageOf(o) : o \in S})
    <3>1. PICK S \in SUBSET {o \in ShortOfCredit : row[o].status = "REQUESTED"} :
            call' = [call EXCEPT ![c] = Reach(k, {ImageOf(o) : o \in S})]
      BY <1>2 DEF SweepLoad
    <3> QED
      BY <1>0, <3>1, ConstantsAssumption
  <2>2. {ImageOf(o) : o \in S} \in SUBSET Image
    BY DEF ImageOf, Image, TypeOK
  <2>3. k \in CallState /\ k.changed = {}
    BY BlankShape DEF CallState, AllOps, Blank
  <2>4. \A t, u \in {ImageOf(o) : o \in S} : t.id = u.id => t = u
    BY DEF ImageOf
  <2> HIDE DEF k
  <2> QED
    BY <2>1, <2>2, <2>3, <2>4, ReachFresh
<1>3. CASE List(c)
  <2> DEFINE found == {ImageOf(p) : p \in {q \in Occ :
                         InScope(call[c].anchor, call[c].scope, q)}}
             lead == \A u \in found : u.id # call[c].anchor.id
             k == [call[c] EXCEPT !.lead = lead]
             S == IF lead THEN found \cup {call[c].anchor} ELSE found
  <2>1. call'[c] = Reach(k, S)
    BY <1>3 DEF List, TypeOK
  <2>2. RunShape(call[c]) /\ call[c].scope # "THIS"
    BY <1>3 DEF List, TypeOK, CallShape, Ended
  <2>3. call[c].anchor \in Image
    BY <2>2 DEF RunShape
  <2>4. S \in SUBSET Image
    BY <2>3 DEF ImageOf, Image, TypeOK
  <2>5. k \in CallState /\ k.changed = {}
    BY <1>0, <1>3 DEF CallState, List
  <2>6. \A t, u \in found : t.id = u.id => t = u
    BY DEF ImageOf
  <2> HIDE DEF k, found
  <2>7. \A t, u \in S : t.id = u.id => t = u
    BY <2>6
  <2> HIDE DEF lead, S
  <2> QED
    BY <2>1, <2>4, <2>5, <2>7, ReachFresh
<1> QED
  BY <1>1, <1>2, <1>3

(* The steps of a request that write a notice, an event or the defaults,   *)
(* or nothing, leave rows and copies; only a publication pushes.           *)
LEMMA NextCopy ==
  ASSUME TypeOK, Alone, MaxInFlight = 1, CopyInv, [Next]_vars,
         \A c \in Calls : Tells(call[c], row) /\ ~Crash(c)
  PROVE  CopyInv'
<1>1. CASE UNCHANGED vars \/ Rest
  BY <1>1 DEF Rest, vars, CopyInv, Shows
<1>2. ASSUME NEW c \in Calls, Step(c) PROVE CopyInv'
  <2> DEFINE k == call[c]
             n == call'[c]
  <2>0. k \in CallState /\ call \in [Calls -> CallState]
    BY DEF TypeOK
  <2>1. CASE Load(c) \/ SweepLoad(c) \/ List(c)
    <3>1. k.at \in {"idle", "list"} /\ row' = row /\ shared' = shared
      BY <2>1 DEF Load, SweepLoad, List, aside
    <3>2. Fresh(n)
      BY <2>1, FoundFresh DEF Tells, Announces, Ended
    <3>3. n.at # "push"
      BY <3>2 DEF Fresh
    <3> QED
      BY <1>2, <3>1, <3>3, CopyStays
  <2>2. CASE CheckRefuses(c) \/ CheckPasses(c)
    <3>1. k.at = "target" /\ row' = row /\ shared' = shared
      BY <2>2 DEF CheckRefuses, CheckPasses, aside
    <3>2. n.at \in {"failed", "update"}
      <4>1. CASE CheckRefuses(c)
        BY <2>0, <4>1 DEF CheckRefuses, Fail, Blank
      <4>2. CASE CheckPasses(c)
        <5>1. PICK t : n = [k EXCEPT !.at = "update", !.cur = t]
          BY <2>0, <4>2 DEF CheckPasses
        <5> QED
          BY <2>0, <5>1 DEF CallState
      <4> QED
        BY <2>2, <4>1, <4>2
    <3> QED
      BY <1>2, <3>1, <3>2, CopyStays
  <2>3. CASE SweepWarn(c)
    <3>1. PICK t \in k.todo : n = Advance(Without(k, t))
      BY <2>0, <2>3 DEF SweepWarn
    <3>2. Without(k, t) \in CallState
      BY <2>0 DEF Without, CallState
    <3>3. n.at # "push"
      BY <3>1, <3>2, AdvanceOnward DEF Onward
    <3>4. k.at = "target" /\ row' = row /\ shared' = shared
      BY <2>3 DEF SweepWarn, Turn, NeedsCheck
    <3> QED
      BY <1>2, <3>3, <3>4, CopyStays
  <2>4. CASE Record(c) \/ Capture(c)
    <3>1. n = Advance(k) /\ k.at \in {"record", "capture"}
          /\ row' = row /\ shared' = shared
      BY <2>0, <2>4 DEF Record, Capture
    <3>2. n.at # "push"
      BY <2>0, <3>1, AdvanceOnward DEF Onward
    <3> QED
      BY <1>2, <3>1, <3>2, CopyStays
  <2>5. CASE RetireReminders(c) \/ Notify(c) \/ SeriesDefaults(c)
    <3>1. k.at \in {"retire", "notify", "defaults"}
          /\ row' = row /\ shared' = shared
      BY <2>5 DEF RetireReminders, Notify, SeriesDefaults, aside
    <3>2. n.at \in {"record", "capture", "retire", "done"}
      <4>1. CASE RetireReminders(c)
        <5>1. PICK next \in {"record", "capture"} : n = [k EXCEPT !.at = next]
          BY <2>0, <4>1 DEF RetireReminders
        <5> QED
          BY <2>0, <5>1 DEF CallState
      <4>2. CASE Notify(c)
        <5>1. PICK t : n = Noticing(k, t, "retire")
          BY <2>0, <4>2 DEF Notify
        <5> QED
          BY <2>0, <5>1 DEF Noticing, CallState
      <4>3. CASE SeriesDefaults(c)
        BY <2>0, <4>3 DEF SeriesDefaults, Done, Blank
      <4> QED
        BY <2>5, <4>1, <4>2, <4>3
    <3> QED
      BY <1>2, <3>1, <3>2, CopyStays
  <2>6. CASE PublishRead(c) \/ PublishWrite(c)
    BY <1>2, <2>6, PublishCopy
  <2>7. CASE \/ Reschedule(c) \/ EditDetails(c) \/ Cancel(c) \/ Restore(c)
             \/ Complete(c) \/ MarkMissed(c) \/ Approve(c) \/ Reject(c)
             \/ CorrectActualTimes(c) \/ SweepCancel(c)
    BY <1>2, <2>7, Updates, UpdateCopy
  <2>8. ~Crash(c)
    OBVIOUS
  <2> QED
    BY <1>2, <2>1, <2>2, <2>3, <2>4, <2>5, <2>6, <2>7, <2>8 DEF Step
<1> QED
  BY <1>1, <1>2 DEF Next

-----------------------------------------------------------------------------
(* Reminders.                                                              *)

(* What a step of one request has to show of each session.                 *)
Reminded(k, n, o) ==
  \/ notices'[o]["reminder"] \in {None, row'[o].slot}
  \/ Pending(n, o)
  \/ /\ notices'[o]["reminder"] = notices[o]["reminder"]
     /\ row'[o].slot = row[o].slot
     /\ Pending(k, o) => Pending(n, o)

(* The others stand still, so that is all there is to show of a step.      *)
LEMMA ReminderMove ==
  ASSUME TypeOK, Alone, MaxInFlight = 1, ReminderInv, NEW c \in Calls, Step(c),
         Tells(call'[c], row'),
         \A o \in Occ : Reminded(call[c], call'[c], o)
  PROVE  ReminderInv'
<1>1. \A d \in Calls \ {c} : ~Active(d) /\ call'[d] = call[d]
  BY Solo
<1>2. ASSUME NEW d \in Calls PROVE Tells(call'[d], row')
  <2>1. CASE d = c
    BY <2>1
  <2>2. CASE d # c
    <3>1. call'[d] = call[d] /\ call[d].at \in {"idle"} \cup Ended
      BY <1>1, <2>2 DEF Active
    <3>2. Tells(call[d], row)
      BY DEF ReminderInv
    <3> QED
      BY <3>1, <3>2 DEF Tells, Distinct, Placed, Announces
  <2> QED
    BY <2>1, <2>2
<1>3. ASSUME NEW o \in Occ
      PROVE  \/ notices'[o]["reminder"] \in {None, row'[o].slot}
             \/ \E d \in Calls : Pending(call'[d], o)
  <2>1. Reminded(call[c], call'[c], o)
    OBVIOUS
  <2>2. CASE /\ notices'[o]["reminder"] = notices[o]["reminder"]
             /\ row'[o].slot = row[o].slot
             /\ Pending(call[c], o) => Pending(call'[c], o)
    <3>1. \/ notices[o]["reminder"] \in {None, row[o].slot}
          \/ \E d \in Calls : Pending(call[d], o)
      BY DEF ReminderInv
    <3>2. CASE notices[o]["reminder"] \in {None, row[o].slot}
      BY <2>2, <3>2
    <3>3. ASSUME NEW d \in Calls, Pending(call[d], o)
          PROVE  \E e \in Calls : Pending(call'[e], o)
      BY <1>1, <2>2, <3>3
    <3> QED
      BY <3>1, <3>2, <3>3
  <2> QED
    BY <2>1, <2>2 DEF Reminded
<1> QED
  BY <1>2, <1>3 DEF ReminderInv, Pending

(* Going on from a stage that is not a retirement.                         *)
LEMMA OnwardTells ==
  ASSUME NEW k, NEW n, NEW r, Onward(k, n), k.at \notin {"retire"} \cup Ended,
         Distinct(k), Placed(k, r)
  PROVE  /\ Tells(n, r)
         /\ \A o : Pending(k, o) => Pending(n, o)
<1>1. CASE n.at = "done"
  BY <1>1 DEF Onward, Tells, Ended, Pending
<1>2. CASE n.at # "done"
  BY <1>2 DEF Onward, Tells, Ended, Pending, Distinct, Placed, Announces
<1> QED
  BY <1>1, <1>2

(* Whoever finds targets has moved none.                                   *)
LEMMA FoundReminder ==
  ASSUME TypeOK, Alone, MaxInFlight = 1, ReminderInv, NEW c \in Calls, Step(c),
         Load(c) \/ SweepLoad(c) \/ List(c)
  PROVE  ReminderInv'
<1> DEFINE k == call[c]
           n == call'[c]
<1>1. /\ row' = row /\ notices' = notices /\ k.at \in {"idle", "list"}
      /\ Tells(k, row)
  BY DEF Load, SweepLoad, List, aside, ReminderInv
<1>2. k.changed = {}
  BY <1>1 DEF Tells, Announces, Ended
<1>3. Fresh(n)
  BY <1>2, FoundFresh
<1> HIDE DEF k, n
<1>4. Tells(n, row')
  BY <1>3 DEF Fresh, Tells, Distinct, Placed, Announces, Ended
<1>5. \A o : ~Pending(k, o)
  BY <1>1, <1>2 DEF Pending
<1>6. \A o \in Occ : Reminded(k, n, o)
  BY <1>1, <1>5 DEF Reminded
<1> QED
  BY <1>4, <1>6, ReminderMove DEF k, n

(* A check passes a target on, or ends the request with what it moved.     *)
LEMMA CheckReminder ==
  ASSUME TypeOK, Alone, MaxInFlight = 1, ReminderInv, NEW c \in Calls, Step(c),
         CheckRefuses(c) \/ CheckPasses(c)
  PROVE  ReminderInv'
<1> DEFINE k == call[c]
           n == call'[c]
<1>1. /\ row' = row /\ notices' = notices /\ k.at = "target"
      /\ Tells(k, row) /\ k \in CallState /\ call \in [Calls -> CallState]
  BY DEF CheckRefuses, CheckPasses, aside, ReminderInv, TypeOK
<1>2. /\ n.op = k.op /\ n.changed = k.changed
      /\ \/ n.at = "failed"
         \/ n.at = "update" /\ n.todo = k.todo
  <2>1. CASE CheckRefuses(c)
    BY <1>1, <2>1 DEF CheckRefuses, Fail, Blank
  <2>2. CASE CheckPasses(c)
    <3>1. PICK t : n = [k EXCEPT !.at = "update", !.cur = t]
      BY <1>1, <2>2 DEF CheckPasses
    <3> QED
      BY <1>1, <3>1 DEF CallState
  <2> QED
    BY <2>1, <2>2
<1> HIDE DEF k, n
<1>3. Tells(n, row')
  BY <1>1, <1>2 DEF Tells, Distinct, Placed, Announces, Ended
<1>4. \A o : Pending(k, o) => Pending(n, o)
  BY <1>1, <1>2 DEF Pending
<1>5. \A o \in Occ : Reminded(k, n, o)
  BY <1>1, <1>4 DEF Reminded
<1> QED
  BY <1>3, <1>5, ReminderMove DEF k, n

(* Publishing changes no row and no notice.                                *)
LEMMA PublishReminder ==
  ASSUME TypeOK, Alone, MaxInFlight = 1, ReminderInv, NEW c \in Calls, Step(c),
         PublishRead(c) \/ PublishWrite(c)
  PROVE  ReminderInv'
<1> DEFINE k == call[c]
           n == call'[c]
<1>1. /\ row' = row /\ notices' = notices /\ k.at \in {"publish", "push"}
      /\ Tells(k, row) /\ k \in CallState /\ call \in [Calls -> CallState]
  BY DEF PublishRead, PublishWrite, aside, ReminderInv, TypeOK
<1>2. /\ n.op = k.op /\ n.changed = k.changed /\ n.todo = k.todo
      /\ n.at \in {"push", "record"} \/ (n.at = "retire" /\ k.op = "cancel")
  <2>1. CASE PublishRead(c)
    <3>1. PICK copy : n = [k EXCEPT !.at = "push", !.copy = copy]
      BY <1>1, <2>1 DEF PublishRead
    <3> QED
      BY <1>1, <3>1 DEF CallState
  <2>2. CASE PublishWrite(c)
    <3>1. PICK next : /\ n = [k EXCEPT !.at = next]
                      /\ \/ next = "retire" /\ k.op = "cancel"
                         \/ next = "record"
      BY <1>1, <2>2 DEF PublishWrite
    <3> QED
      BY <1>1, <3>1 DEF CallState
  <2> QED
    BY <2>1, <2>2
<1> HIDE DEF k, n
<1>3. Tells(n, row')
  BY <1>1, <1>2 DEF Tells, Distinct, Placed, Announces, Ended
<1>4. \A o : Pending(k, o) => Pending(n, o)
  BY <1>1, <1>2 DEF Pending
<1>5. \A o \in Occ : Reminded(k, n, o)
  BY <1>1, <1>4 DEF Reminded
<1> QED
  BY <1>3, <1>5, ReminderMove DEF k, n

(* An event, the defaults of a series: the request goes on or is done.     *)
LEMMA RecordReminder ==
  ASSUME TypeOK, Alone, MaxInFlight = 1, ReminderInv, NEW c \in Calls, Step(c),
         Record(c) \/ SeriesDefaults(c)
  PROVE  ReminderInv'
<1> DEFINE k == call[c]
           n == call'[c]
<1>1. /\ row' = row /\ notices' = notices /\ k.at \in {"record", "defaults"}
      /\ Tells(k, row) /\ k \in CallState /\ call \in [Calls -> CallState]
      /\ CallShape(k)
  BY DEF Record, SeriesDefaults, aside, ReminderInv, TypeOK
<1>2. CASE Record(c)
  <2>1. n = Advance(k)
    BY <1>1, <1>2 DEF Record
  <2>2. Onward(k, n)
    BY <1>1, <2>1, AdvanceOnward
  <2> HIDE DEF k, n
  <2>3. Tells(n, row') /\ \A o : Pending(k, o) => Pending(n, o)
    BY <1>1, <2>2, OnwardTells DEF Tells, Ended
  <2>4. \A o \in Occ : Reminded(k, n, o)
    BY <1>1, <2>3 DEF Reminded
  <2> QED
    BY <2>3, <2>4, ReminderMove DEF k, n
<1>3. CASE SeriesDefaults(c)
  <2>1. n.at = "done" /\ k.at = "defaults"
    BY <1>1, <1>3 DEF SeriesDefaults, Done, Blank
  <2>2. k.op = "edit"
    BY <1>1, <2>1 DEF CallShape
  <2> HIDE DEF k, n
  <2>3. Tells(n, row') /\ \A o : ~Pending(k, o)
    BY <2>1, <2>2 DEF Tells, Ended, Pending
  <2>4. \A o \in Occ : Reminded(k, n, o)
    BY <1>1, <2>3 DEF Reminded
  <2> QED
    BY <2>3, <2>4, ReminderMove DEF k, n
<1> QED
  BY <1>2, <1>3

(* A row that was moved joins those to be announced; any other keeps its   *)
(* time.                                                                   *)
LEMMA UpdateReminder ==
  ASSUME TypeOK, Alone, MaxInFlight = 1, ReminderInv, NEW c \in Calls, Step(c),
         NEW op \in AllOps, NEW t \in call[c].todo, NEW new,
         NEW next \in {"publish", "record", "retire"},
         Update(c, op, t, new, next)
  PROVE  ReminderInv'
<1> DEFINE k == call[c]
           n == call'[c]
           image == [id |-> t.id, row |-> new]
<1>1. /\ k \in CallState /\ t \in Image /\ t.id \in Occ /\ k.op = op
      /\ k.at \in {"update", "target"} /\ row \in [Occ -> Row]
      /\ notices' = notices /\ Tells(k, row) /\ k.changed \subseteq Image
  BY UpdateStep DEF TypeOK, aside, ReminderInv, CallState
<1>2. CASE row' = row /\ n = Fail(k)
  <2>1. n.at = "failed" /\ n.op = k.op /\ n.changed = k.changed
    BY <1>2 DEF Fail, Blank
  <2> HIDE DEF k, n
  <2>2. Tells(n, row')
    BY <2>1 DEF Tells, Ended
  <2>3. \A o : Pending(k, o) => Pending(n, o)
    BY <1>1, <2>1 DEF Pending
  <2>4. \A o \in Occ : Reminded(k, n, o)
    BY <1>1, <1>2, <2>3 DEF Reminded
  <2> QED
    BY <2>2, <2>4, ReminderMove DEF k, n
<1>3. CASE /\ row' = [row EXCEPT ![t.id] = new] /\ row'[t.id] = new
           /\ n = Wrote(k, t, new, next)
  <2>1. /\ n.at = next /\ n.op = k.op /\ n.todo = k.todo \ {t}
        /\ n.cur = image /\ n.changed = k.changed \cup {image}
    BY <1>1, <1>3 DEF Wrote, CallState
  <2>2. image.id = t.id /\ image.row = new
    OBVIOUS
  <2>3. next = "retire" => k.op = "sweep"
    BY <1>1 DEF Update, Stay
  <2>4. t \in k.todo
    OBVIOUS
  <2>5. new.slot = row[t.id].slot \/ k.op = "reschedule"
    BY <1>1 DEF Update
  <2> HIDE DEF k, n, image
  <2>6. Distinct(k) /\ Placed(k, row)
    BY <1>1 DEF Tells, Ended
  <2>7. Distinct(n)
    BY <2>1, <2>2, <2>4, <2>6 DEF Distinct
  <2>8. Placed(n, row')
    <3>1. ASSUME k.op = "reschedule", NEW u \in n.changed
          PROVE  row'[u.id].slot = u.row.slot
      <4>1. CASE u = image
        BY <1>3, <2>2, <4>1
      <4>2. CASE u \in k.changed
        <5>1. u.id # t.id /\ u.id \in Occ
          BY <1>1, <2>4, <2>6, <4>2 DEF Distinct, Image
        <5>2. row'[u.id] = row[u.id]
          BY <1>1, <1>3, <5>1
        <5> QED
          BY <2>6, <3>1, <4>2, <5>2 DEF Placed
      <4> QED
        BY <2>1, <3>1, <4>1, <4>2
    <3> QED
      BY <2>1, <2>3, <3>1 DEF Placed
  <2>9. Tells(n, row')
    BY <2>1, <2>3, <2>7, <2>8 DEF Tells, Announces
  <2>10. \A o : Pending(k, o) => Pending(n, o)
    BY <1>1, <2>1 DEF Pending
  <2>11. ASSUME NEW o \in Occ PROVE Reminded(k, n, o)
    <3>1. CASE o = t.id /\ k.op = "reschedule"
      BY <2>1, <2>2, <3>1 DEF Reminded, Pending
    <3>2. CASE o = t.id /\ k.op # "reschedule"
      BY <1>1, <1>3, <2>5, <2>10, <3>2 DEF Reminded
    <3>3. CASE o # t.id
      <4>1. row'[o] = row[o]
        BY <1>1, <1>3, <3>3
      <4> QED
        BY <1>1, <2>10, <4>1 DEF Reminded
    <3> QED
      BY <3>1, <3>2, <3>3
  <2> QED
    BY <2>9, <2>11, ReminderMove DEF k, n
<1> QED
  BY <1>2, <1>3, UpdateStep

(* A warning takes the target off and leaves every reminder.               *)
LEMMA SweepWarnReminder ==
  ASSUME TypeOK, Alone, MaxInFlight = 1, ReminderInv, NEW c \in Calls, Step(c),
         SweepWarn(c)
  PROVE  ReminderInv'
<1> DEFINE k == call[c]
           n == call'[c]
<1>1. /\ row' = row /\ Tells(k, row)
      /\ k \in CallState /\ call \in [Calls -> CallState]
      /\ notices \in [Occ -> [Kinds -> Slot \cup {None}]]
  BY DEF SweepWarn, ReminderInv, TypeOK
<1>2. PICK t \in k.todo :
        /\ k.at = "target" /\ n = Advance(Without(k, t))
        /\ notices' = [notices EXCEPT ![t.id] =
                         Captured(@, {"credit_warning"}, t.row.slot)]
  BY <1>1 DEF SweepWarn, Turn, NeedsCheck
<1> DEFINE j == Without(k, t)
<1>3. /\ j \in CallState /\ j.at = k.at /\ j.op = k.op /\ j.cur = k.cur
      /\ j.todo \subseteq k.todo /\ j.changed = k.changed
  BY <1>1 DEF Without, CallState
<1>4. Onward(j, n)
  BY <1>2, <1>3, AdvanceOnward
<1>5. \A o \in Occ : notices'[o]["reminder"] = notices[o]["reminder"]
  BY <1>1, <1>2 DEF Captured, Kinds
<1> HIDE DEF k, n, j
<1>6. Distinct(j) /\ Placed(j, row)
  BY <1>1, <1>2, <1>3 DEF Tells, Ended, Distinct, Placed
<1>7. Tells(n, row') /\ \A o : Pending(j, o) => Pending(n, o)
  BY <1>1, <1>2, <1>3, <1>4, <1>6, OnwardTells DEF Ended
<1>8. \A o \in Occ : Reminded(k, n, o)
  BY <1>1, <1>3, <1>5, <1>7 DEF Reminded, Pending
<1> QED
  BY <1>7, <1>8, ReminderMove DEF k, n

(* Retiring closes the reminder of the session at hand.                    *)
LEMMA RetireReminder ==
  ASSUME TypeOK, Alone, MaxInFlight = 1, ReminderInv, NEW c \in Calls, Step(c),
         RetireReminders(c)
  PROVE  ReminderInv'
<1> DEFINE k == call[c]
           n == call'[c]
<1>1. /\ row' = row /\ Tells(k, row) /\ k.at = "retire"
      /\ k \in CallState /\ call \in [Calls -> CallState]
      /\ notices \in [Occ -> [Kinds -> Slot \cup {None}]]
      /\ notices' = [notices EXCEPT ![k.cur.id]["reminder"] = None]
  BY DEF RetireReminders, ReminderInv, TypeOK
<1>2. PICK next : /\ n = [k EXCEPT !.at = next]
                  /\ \/ next = "record" /\ k.op = "cancel"
                     \/ next = "capture" /\ k.op # "cancel"
  BY <1>1 DEF RetireReminders
<1>3. /\ n.at = next /\ n.op = k.op /\ n.todo = k.todo /\ n.cur = k.cur
      /\ n.changed = k.changed
  BY <1>1, <1>2 DEF CallState
<1>4. \A o \in Occ : notices'[o]["reminder"] =
        IF o = k.cur.id THEN None ELSE notices[o]["reminder"]
  BY <1>1 DEF Kinds
<1> HIDE DEF k, n
<1>5. Tells(n, row')
  BY <1>1, <1>2, <1>3 DEF Tells, Distinct, Placed, Announces, Ended
<1>6. \A o : Pending(k, o) /\ o # k.cur.id => Pending(n, o)
  BY <1>3 DEF Pending
<1>7. \A o \in Occ : Reminded(k, n, o)
  BY <1>1, <1>4, <1>6 DEF Reminded
<1> QED
  BY <1>5, <1>7, ReminderMove DEF k, n

(* A move that comes to be announced is retired first.                     *)
LEMMA NotifyReminder ==
  ASSUME TypeOK, Alone, MaxInFlight = 1, ReminderInv, NEW c \in Calls, Step(c),
         Notify(c)
  PROVE  ReminderInv'
<1> DEFINE k == call[c]
           n == call'[c]
<1>1. /\ row' = row /\ notices' = notices /\ Tells(k, row) /\ k.at = "notify"
      /\ k \in CallState /\ call \in [Calls -> CallState]
  BY DEF Notify, aside, ReminderInv, TypeOK
<1>2. PICK t \in k.changed : n = Noticing(k, t, "retire")
  BY <1>1 DEF Notify, Fronts
<1>3. /\ n.at = "retire" /\ n.op = k.op /\ n.todo = k.todo /\ n.cur = t
      /\ n.changed = k.changed \ {t}
  BY <1>1, <1>2 DEF Noticing, CallState
<1> HIDE DEF k, n
<1>4. /\ k.op = "reschedule" /\ Distinct(k) /\ Placed(k, row)
  BY <1>1 DEF Tells, Announces, Ended
<1>5. Placed(n, row')
  BY <1>1, <1>2, <1>3, <1>4 DEF Placed
<1>6. Distinct(n)
  BY <1>3, <1>4 DEF Distinct
<1>7. Tells(n, row')
  BY <1>3, <1>4, <1>5, <1>6 DEF Tells, Announces
<1>8. \A o : Pending(k, o) => Pending(n, o)
  BY <1>1, <1>3, <1>4 DEF Pending
<1>9. \A o \in Occ : Reminded(k, n, o)
  BY <1>1, <1>8 DEF Reminded
<1> QED
  BY <1>7, <1>9, ReminderMove DEF k, n

(* A new reminder names the time the move gave; the credit sweep opens     *)
(* none.                                                                   *)
LEMMA CaptureReminder ==
  ASSUME TypeOK, Alone, MaxInFlight = 1, ReminderInv, NEW c \in Calls, Step(c),
         Capture(c)
  PROVE  ReminderInv'
<1> DEFINE k == call[c]
           n == call'[c]
<1>1. /\ row' = row /\ Tells(k, row) /\ k.at = "capture"
      /\ k \in CallState /\ call \in [Calls -> CallState]
      /\ notices \in [Occ -> [Kinds -> Slot \cup {None}]]
      /\ notices' = [notices EXCEPT ![k.cur.id] =
                       Captured(@, NoticeKinds(k), k.cur.row.slot)]
      /\ n = Advance(k)
  BY DEF Capture, ReminderInv, TypeOK
<1>2. Onward(k, n)
  BY <1>1, AdvanceOnward
<1>3. \A o \in Occ :
        \/ notices'[o]["reminder"] = notices[o]["reminder"]
        \/ /\ o = k.cur.id /\ notices'[o]["reminder"] = k.cur.row.slot
           /\ "reminder" \in NoticeKinds(k)
  <2> HIDE DEF k, n
  <2> QED
    BY <1>1 DEF Captured, Kinds
<1> HIDE DEF k, n
<1>4. /\ k.op \in {"reschedule", "sweep"} /\ Distinct(k) /\ Placed(k, row)
  BY <1>1 DEF Tells, Announces, Ended
<1>5. "reminder" \in NoticeKinds(k) => k.op = "reschedule"
  BY <1>4 DEF NoticeKinds
<1>6. Tells(n, row') /\ \A o : Pending(k, o) => Pending(n, o)
  BY <1>1, <1>2, <1>4, OnwardTells DEF Ended
<1>7. ASSUME NEW o \in Occ PROVE Reminded(k, n, o)
  <2>1. CASE notices'[o]["reminder"] = notices[o]["reminder"]
    BY <1>1, <1>6, <2>1 DEF Reminded
  <2>2. CASE /\ o = k.cur.id /\ notices'[o]["reminder"] = k.cur.row.slot
             /\ "reminder" \in NoticeKinds(k)
    <3>1. row[o].slot = k.cur.row.slot
      BY <1>1, <1>4, <1>5, <2>2 DEF Placed
    <3> QED
      BY <1>1, <2>2, <3>1 DEF Reminded
  <2> QED
    BY <1>3, <2>1, <2>2
<1> QED
  BY <1>6, <1>7, ReminderMove DEF k, n

(* Every step keeps what an open reminder says.                            *)
LEMMA NextReminder ==
  ASSUME TypeOK, Alone, MaxInFlight = 1, ReminderInv, [Next]_vars,
         \A c \in Calls : ~Crash(c)
  PROVE  ReminderInv'
<1>1. CASE UNCHANGED vars \/ Rest
  BY <1>1 DEF Rest, vars, ReminderInv
<1>2. ASSUME NEW c \in Calls, Step(c) PROVE ReminderInv'
  <2>1. CASE \/ Reschedule(c) \/ EditDetails(c) \/ Cancel(c) \/ Restore(c)
             \/ Complete(c) \/ MarkMissed(c) \/ Approve(c) \/ Reject(c)
             \/ CorrectActualTimes(c) \/ SweepCancel(c)
    BY <1>2, <2>1, Updates, UpdateReminder
  <2>2. CASE Load(c) \/ SweepLoad(c) \/ List(c)
    BY <1>2, <2>2, FoundReminder
  <2>3. CASE CheckRefuses(c) \/ CheckPasses(c)
    BY <1>2, <2>3, CheckReminder
  <2>4. CASE PublishRead(c) \/ PublishWrite(c)
    BY <1>2, <2>4, PublishReminder
  <2>5. CASE Record(c) \/ SeriesDefaults(c)
    BY <1>2, <2>5, RecordReminder
  <2>6. CASE SweepWarn(c)
    BY <1>2, <2>6, SweepWarnReminder
  <2>7. CASE RetireReminders(c)
    BY <1>2, <2>7, RetireReminder
  <2>8. CASE Notify(c)
    BY <1>2, <2>8, NotifyReminder
  <2>9. CASE Capture(c)
    BY <1>2, <2>9, CaptureReminder
  <2>10. ~Crash(c)
    OBVIOUS
  <2> QED
    BY <1>2, <2>1, <2>2, <2>3, <2>4, <2>5, <2>6, <2>7, <2>8, <2>9, <2>10 DEF Step
<1> QED
  BY <1>1, <1>2 DEF Next

(* At first every open reminder names its session's time.                  *)
LEMMA InitReminder == Init => ReminderInv
<1> SUFFICES ASSUME Init PROVE ReminderInv
  OBVIOUS
<1>1. \A o \in Occ : notices[o]["reminder"] \in {None, row[o].slot}
  BY DEF Init, Kinds
<1>2. \A c \in Calls : /\ call[c].at = "idle" /\ call[c].todo = {}
                       /\ call[c].changed = {}
  BY DEF Init, Blank
<1>3. \A c \in Calls : Tells(call[c], row)
  BY <1>2 DEF Tells, Distinct, Placed, Announces
<1> QED
  BY <1>1, <1>3 DEF ReminderInv

-----------------------------------------------------------------------------
(* A stop is for good, and of a process that stopped nothing is said.      *)
Stopped == \E c \in Calls : call[c].at = "dead"

(* No step is a step of a request that stopped.                            *)
LEMMA StoppedStays ==
  ASSUME TypeOK, Stopped, [Next]_vars
  PROVE  Stopped'
<1> PICK c \in Calls : call[c].at = "dead"
  BY DEF Stopped
<1>1. CASE UNCHANGED vars \/ Rest
  BY <1>1 DEF Rest, vars, Stopped
<1>2. ASSUME NEW d \in Calls, Step(d) PROVE Stopped'
  <2>1. CASE d # c
    BY <1>2, <2>1, OthersWait DEF Stopped
  <2>2. CASE d = c
    <3>1. CASE \/ Reschedule(d) \/ EditDetails(d) \/ Cancel(d) \/ Restore(d)
               \/ Complete(d) \/ MarkMissed(d) \/ Approve(d) \/ Reject(d)
               \/ CorrectActualTimes(d) \/ SweepCancel(d)
      <4>1. PICK op, t, new, next : Update(d, op, t, new, next)
        BY <3>1, Updates
      <4> QED
        BY <2>2, <4>1 DEF Update, Turn
    <3>2. CASE \/ Load(d) \/ SweepLoad(d) \/ List(d) \/ CheckRefuses(d)
               \/ CheckPasses(d) \/ SweepWarn(d) \/ PublishRead(d)
               \/ PublishWrite(d) \/ RetireReminders(d) \/ Record(d)
               \/ Notify(d) \/ Capture(d) \/ SeriesDefaults(d) \/ Crash(d)
      BY <2>2, <3>2 DEF Load, SweepLoad, List, CheckRefuses, CheckPasses,
         SweepWarn, Turn, NeedsCheck, PublishRead, PublishWrite,
         RetireReminders, Record, Notify, Capture, SeriesDefaults, Crash,
         Active, Ended
    <3> QED
      BY <1>2, <3>1, <3>2 DEF Step
  <2> QED
    BY <2>1, <2>2
<1> QED
  BY <1>1, <1>2 DEF Next

(* Until then copies and reminders are kept by every step.                 *)
Following == TypeOK /\ Alone /\ (Stopped \/ (CopyInv /\ ReminderInv))

(* A stop is the only way out of that.                                     *)
LEMMA NextFollowing ==
  MaxInFlight = 1 => (Following /\ [Next]_vars => Following')
<1> SUFFICES ASSUME MaxInFlight = 1, Following, [Next]_vars PROVE Following'
  OBVIOUS
<1>1. TypeOK' /\ Alone'
  BY NextTypeOK, NextAlone DEF Following
<1>2. CASE Stopped
  BY <1>1, <1>2, StoppedStays DEF Following
<1>3. ASSUME NEW c \in Calls, Crash(c) PROVE Following'
  <2>1. call'[c].at = "dead"
    BY <1>3 DEF Crash, Blank, Following, TypeOK
  <2> QED
    BY <1>1, <2>1 DEF Following, Stopped
<1>4. CASE ~Stopped /\ \A c \in Calls : ~Crash(c)
  <2>1. CopyInv /\ ReminderInv /\ \A c \in Calls : Tells(call[c], row)
    BY <1>4 DEF Following, ReminderInv
  <2>2. CopyInv'
    BY <1>4, <2>1, NextCopy DEF Following
  <2>3. ReminderInv'
    BY <1>4, <2>1, NextReminder DEF Following
  <2> QED
    BY <1>1, <2>2, <2>3 DEF Following
<1> QED
  BY <1>2, <1>3, <1>4

(* Everything is as it should be at first.                                 *)
LEMMA InitFollowing == Init => Following
BY InitTypeOK, InitAlone, InitCopy, InitReminder DEF Following

(* Whenever no request is running, the school application's copy shows     *)
(* where and under which title the session is: for any number of requests  *)
(* handled one at a time, on a series of any length, refused anywhere.     *)
THEOREM CopiesAlwaysFollow ==
  ASSUME MaxInFlight = 1
  PROVE  Spec => []CopyFollowsMoves
<1>1. Following => CopyFollowsMoves
  BY DEF Following, Stopped, CopyInv, CopyFollowsMoves, Quiet, Shows
<1>2. Following /\ [Next]_vars => Following'
  BY NextFollowing
<1> QED
  BY <1>1, <1>2, InitFollowing, PTL DEF Spec

(* Whenever no request is running, an open reminder of a live session      *)
(* names the time the session has, unless the series it was moved with was *)
(* not moved to the end: for requests handled one at a time.               *)
THEOREM RemindersAlwaysFollow ==
  ASSUME MaxInFlight = 1
  PROVE  Spec => []RemindersFollow
<1>1. Following => RemindersFollow
  BY DEF Following, Stopped, ReminderInv, Pending, RemindersFollow, Quiet
<1>2. Following /\ [Next]_vars => Following'
  BY NextFollowing
<1> QED
  BY <1>1, <1>2, InitFollowing, PTL DEF Spec

-----------------------------------------------------------------------------
(* What a request was judged on.                                           *)

(* Its targets, as it read them, are what its operation admits, and of a   *)
(* series none but the anchor is detached or settled.                      *)
Single == {"restore", "complete", "mark_missed", "approve", "reject"}
Suits(k, t) ==
  /\ k.op = "sweep" => t.row.status = "REQUESTED"
  /\ k.op \in Single => StatusAllows(t.row.status, k.op)
  /\ k.scope # "THIS" /\ t.id # k.anchor.id =>
       ~t.row.detached /\ t.row.status \notin SETTLED_STATUSES
Judged(k) ==
  /\ k.at = "list" => k.op \in Stay
  /\ \A t \in k.todo :
       /\ Suits(k, t)
       /\ k.op = "cancel" => t.row.status \in CANCELLABLE_STATUSES

(* The rows it read are the rows there are.                                *)
Current(k, r) ==
  /\ k.at = "list" => k.anchor.row = r[k.anchor.id]
  /\ \A t \in k.todo : t.row = r[t.id]

(* It goes on with what it found, or it is over.                           *)
Ends(n) == n.at \in Ended /\ n.todo = {}
Same(k, n) ==
  /\ n.op = k.op /\ n.scope = k.scope /\ n.anchor = k.anchor /\ n.arg = k.arg
  /\ n.at \notin {"list", "update"} /\ n.todo \subseteq k.todo

(* Finishing with a target does so.                                        *)
LEMMA AdvanceSame ==
  ASSUME NEW k \in CallState
  PROVE  Ends(Advance(k)) \/ Same(k, Advance(k))
<1>1. CASE k.todo # {}
  BY <1>1 DEF Advance, CallState, Same
<1>2. CASE k.todo = {} /\ k.op = "reschedule" /\ k.changed # {}
  BY <1>2 DEF Advance, CallState, Same
<1>3. CASE k.todo = {} /\ k.op = "edit" /\ k.scope # "THIS"
  BY <1>3 DEF Advance, CallState, Same
<1>4. CASE /\ ~(k.todo # {})
           /\ ~(k.todo = {} /\ k.op = "reschedule" /\ k.changed # {})
           /\ ~(k.todo = {} /\ k.op = "edit" /\ k.scope # "THIS")
  <2>1. Advance(k) = Done
    BY <1>4 DEF Advance
  <2> QED
    BY <2>1 DEF Done, Blank, Ends, Ended
<1> QED
  BY <1>1, <1>2, <1>3, <1>4

(* So does taking targets on, which leaves out what is to be skipped.      *)
LEMMA ReachSame ==
  ASSUME NEW k \in CallState, NEW S \in SUBSET Image
  PROVE  \/ Ends(Reach(k, S))
         \/ /\ Same([k EXCEPT !.todo = S], Reach(k, S))
            /\ \A t \in Reach(k, S).todo : ~Skipped(k, t)
<1> DEFINE T == {t \in S : ~Skipped(k, t)}
           j == [k EXCEPT !.todo = T]
           i == [k EXCEPT !.todo = S]
<1>1. /\ j \in CallState /\ j.todo = T
      /\ j.op = i.op /\ j.scope = i.scope /\ j.anchor = i.anchor /\ j.arg = i.arg
      /\ i.todo = S
  BY DEF CallState
<1>2. Reach(k, S) = Advance(j)
  BY DEF Reach
<1> HIDE DEF i, j
<1>3. Ends(Advance(j)) \/ Same(j, Advance(j))
  BY <1>1, AdvanceSame
<1>4. Same(j, Advance(j)) =>
        Same(i, Advance(j)) /\ \A t \in Advance(j).todo : ~Skipped(k, t)
  BY <1>1 DEF Same
<1> QED
  BY <1>2, <1>3, <1>4 DEF i

(* A check passes one of them on.                                          *)
LEMMA PassedSame ==
  ASSUME TypeOK, NEW c \in Calls, CheckPasses(c)
  PROVE  LET k == call[c]
             n == call'[c]
         IN /\ n.op = k.op /\ n.scope = k.scope /\ n.anchor = k.anchor
            /\ n.arg = k.arg /\ n.todo = k.todo /\ n.at = "update"
            /\ k.op = "reschedule" => ~StudentClash(n.cur.id, NewSlot(k, n.cur))
<1> DEFINE k == call[c]
           n == call'[c]
<1>0. k \in CallState /\ call \in [Calls -> CallState]
  BY DEF TypeOK
<1>1. PICK t : /\ n = [k EXCEPT !.at = "update", !.cur = t]
               /\ k.op = "reschedule" => ~StudentClash(t.id, NewSlot(k, t))
  BY <1>0 DEF CheckPasses
<1> QED
  BY <1>0, <1>1 DEF CallState

(* A request that has its targets takes no other and changes no argument.  *)
LEMMA LaterSame ==
  ASSUME TypeOK, NEW c \in Calls, Step(c),
         ~(Load(c) \/ SweepLoad(c) \/ List(c) \/ CheckPasses(c))
  PROVE  Ends(call'[c]) \/ Same(call[c], call'[c])
<1> DEFINE k == call[c]
           n == call'[c]
<1>0. k \in CallState /\ call \in [Calls -> CallState]
  BY DEF TypeOK
<1>1. CASE CheckRefuses(c) \/ Crash(c) \/ SeriesDefaults(c)
  <2>1. \/ n = Fail(k) \/ n = Done
        \/ n = [Blank EXCEPT !.at = "dead", !.cur = k.cur]
    BY <1>0, <1>1 DEF CheckRefuses, Crash, SeriesDefaults
  <2> QED
    BY <2>1 DEF Fail, Done, Blank, Ends, Ended
<1>3. CASE \/ Reschedule(c) \/ EditDetails(c) \/ Cancel(c) \/ Restore(c)
           \/ Complete(c) \/ MarkMissed(c) \/ Approve(c) \/ Reject(c)
           \/ CorrectActualTimes(c) \/ SweepCancel(c)
  <2>1. PICK op \in AllOps, t \in k.todo, next \in {"publish", "record", "retire"} :
          \E new : Update(c, op, t, new, next)
    BY <1>3, Updates
  <2>2. PICK new : n = Fail(k) \/ n = Wrote(k, t, new, next)
    BY <2>1, UpdateStep
  <2>3. CASE n = Fail(k)
    BY <2>3 DEF Fail, Blank, Ends, Ended
  <2>4. CASE n = Wrote(k, t, new, next)
    BY <1>0, <2>4 DEF Wrote, CallState, Same
  <2> QED
    BY <2>2, <2>3, <2>4
<1>4. CASE SweepWarn(c)
  <2>1. PICK t \in k.todo : n = Advance(Without(k, t))
    BY <1>0, <1>4 DEF SweepWarn
  <2> DEFINE j == Without(k, t)
  <2>2. /\ j \in CallState /\ j.at = k.at
        /\ (j.at \notin {"list", "update"} => Same(k, j))
    BY <1>0 DEF Without, CallState, Same
  <2>3. j.at \notin {"list", "update"}
    BY <1>4, <2>2 DEF SweepWarn, Turn, NeedsCheck
  <2> HIDE DEF j
  <2>4. Ends(n) \/ Same(j, n)
    BY <2>1, <2>2, AdvanceSame DEF j
  <2> QED
    BY <2>2, <2>3, <2>4 DEF Same
<1>5. CASE Record(c) \/ Capture(c)
  <2>1. n = Advance(k)
    BY <1>0, <1>5 DEF Record, Capture
  <2> QED
    BY <1>0, <2>1, AdvanceSame
<1>6. CASE PublishRead(c)
  <2>1. PICK copy : n = [k EXCEPT !.at = "push", !.copy = copy]
    BY <1>0, <1>6 DEF PublishRead
  <2> QED
    BY <1>0, <2>1 DEF CallState, Same
<1>7. CASE PublishWrite(c) \/ RetireReminders(c)
  <2>1. PICK at \in {"retire", "record", "capture"} : n = [k EXCEPT !.at = at]
    BY <1>0, <1>7 DEF PublishWrite, RetireReminders
  <2> QED
    BY <1>0, <2>1 DEF CallState, Same
<1>8. CASE Notify(c)
  <2>1. PICK t : n = Noticing(k, t, "retire")
    BY <1>0, <1>8 DEF Notify
  <2> QED
    BY <1>0, <2>1 DEF Noticing, CallState, Same
<1> QED
  BY <1>1, <1>3, <1>4, <1>5, <1>6, <1>7, <1>8 DEF Step

(* Targets that suit are judged once the ones to skip are left out.        *)
LEMMA ReachJudged ==
  ASSUME NEW k \in CallState, NEW S \in SUBSET Image, \A t \in S : Suits(k, t)
  PROVE  /\ Judged(Reach(k, S))
         /\ Reach(k, S).at \notin {"list", "update"}
         /\ Reach(k, S).todo \subseteq S
<1> DEFINE i == [k EXCEPT !.todo = S]
           n == Reach(k, S)
<1>1. /\ i.op = k.op /\ i.scope = k.scope /\ i.anchor = k.anchor
      /\ i.todo = S
  BY DEF CallState
<1>2. Ends(n) \/ (Same(i, n) /\ \A t \in n.todo : ~Skipped(k, t))
  BY ReachSame
<1> HIDE DEF i, n
<1>3. CASE Ends(n)
  BY <1>3 DEF Ends, Ended, Judged, n
<1>4. CASE Same(i, n) /\ \A t \in n.todo : ~Skipped(k, t)
  <2>1. /\ n.op = k.op /\ n.scope = k.scope /\ n.anchor = k.anchor
        /\ n.todo \subseteq S /\ n.at \notin {"list", "update"}
    BY <1>1, <1>4 DEF Same
  <2>2. \A t \in n.todo : Suits(n, t)
    BY <2>1 DEF Suits
  <2>3. ASSUME n.op = "cancel", NEW t \in n.todo
        PROVE  t.row.status \in CANCELLABLE_STATUSES
    BY <1>4, <2>1, <2>3 DEF Skipped
  <2> QED
    BY <2>1, <2>2, <2>3 DEF Judged, n
<1> QED
  BY <1>2, <1>3, <1>4

(* The policy let the session in.                                          *)
LEMMA LoadJudged ==
  ASSUME TypeOK, NEW c \in Calls, Load(c)
  PROVE  /\ Judged(call'[c]) /\ call'[c].at # "update"
         /\ Current(call'[c], row)
<1>0. call[c] \in CallState /\ call \in [Calls -> CallState]
  BY DEF TypeOK
<1>1. PICK op \in Ops \ {"sweep"}, o \in Occ :
        /\ Permitted(op, row[o])
        /\ \E scope \in ScopesOf(op, o), arg \in ArgsOf(op) :
             LET k == [Blank EXCEPT !.op = op, !.anchor = ImageOf(o),
                                    !.scope = scope, !.arg = arg]
             IN call' = [call EXCEPT ![c] =
                           IF scope = "THIS" THEN Reach(k, {ImageOf(o)})
                           ELSE [k EXCEPT !.at = "list"]]
  BY DEF Load
<1>2. PICK scope \in ScopesOf(op, o), arg \in ArgsOf(op) :
        LET k == [Blank EXCEPT !.op = op, !.anchor = ImageOf(o),
                               !.scope = scope, !.arg = arg]
        IN call' = [call EXCEPT ![c] =
                      IF scope = "THIS" THEN Reach(k, {ImageOf(o)})
                      ELSE [k EXCEPT !.at = "list"]]
  BY <1>1
<1> DEFINE k == [Blank EXCEPT !.op = op, !.anchor = ImageOf(o),
                              !.scope = scope, !.arg = arg]
<1>3. /\ ImageOf(o) \in Image /\ ImageOf(o).id = o /\ ImageOf(o).row = row[o]
  BY DEF ImageOf, Image, TypeOK
<1>4. op \in AllOps /\ scope \in Scope /\ arg \in Slot \cup Titles \cup {None}
  BY ConstantsAssumption DEF AllOps, ArgsOf, ScopesOf, Scope
<1>5. k \in CallState
  BY <1>3, <1>4, BlankShape DEF CallState
<1>6. /\ k.op = op /\ k.scope = scope /\ k.anchor = ImageOf(o)
      /\ k.todo = {}
  BY DEF Blank
<1>7. CASE scope = "THIS"
  <2>1. call'[c] = Reach(k, {ImageOf(o)})
    BY <1>0, <1>2, <1>7
  <2> HIDE DEF k
  <2>2. Suits(k, ImageOf(o))
    BY <1>1, <1>3, <1>6, <1>7 DEF Suits, Permitted, Single
  <2>3. /\ Judged(Reach(k, {ImageOf(o)}))
        /\ Reach(k, {ImageOf(o)}).at \notin {"list", "update"}
        /\ Reach(k, {ImageOf(o)}).todo \subseteq {ImageOf(o)}
    BY <1>3, <1>5, <2>2, ReachJudged
  <2> QED
    BY <1>3, <2>1, <2>3 DEF Current
<1>8. CASE scope # "THIS"
  <2>1. call'[c] = [k EXCEPT !.at = "list"]
    BY <1>0, <1>2, <1>8
  <2>2. op \in Stay
    BY <1>8 DEF ScopesOf, Stay
  <2> HIDE DEF k
  <2>3. /\ call'[c].op = op /\ call'[c].todo = {} /\ call'[c].at = "list"
        /\ call'[c].anchor = ImageOf(o)
    BY <1>5, <1>6, <2>1 DEF CallState
  <2> QED
    BY <1>3, <2>2, <2>3 DEF Judged, Current
<1> QED
  BY <1>7, <1>8

(* The sweep takes requests only.                                          *)
LEMMA SweepJudged ==
  ASSUME TypeOK, NEW c \in Calls, SweepLoad(c)
  PROVE  /\ Judged(call'[c]) /\ call'[c].at # "update"
         /\ Current(call'[c], row)
<1> DEFINE k == [Blank EXCEPT !.op = "sweep"]
<1>1. PICK S \in SUBSET {o \in ShortOfCredit : row[o].status = "REQUESTED"} :
        call'[c] = Reach(k, {ImageOf(o) : o \in S})
  BY DEF SweepLoad, TypeOK
<1>2. S \subseteq Occ
  BY ConstantsAssumption
<1> DEFINE T == {ImageOf(o) : o \in S}
<1>3. T \in SUBSET Image /\ \A t \in T : t.row = row[t.id]
  BY <1>2 DEF ImageOf, Image, TypeOK
<1>4. k \in CallState
  BY BlankShape DEF CallState, AllOps
<1>5. k.op = "sweep" /\ k.scope = "THIS"
  BY DEF Blank
<1>6. \A t \in T : t.row.status = "REQUESTED"
  BY DEF ImageOf
<1>7. \A t \in T : Suits(k, t)
  BY <1>5, <1>6 DEF Suits, Single
<1> HIDE DEF k, T
<1>8. /\ Judged(Reach(k, T)) /\ Reach(k, T).at \notin {"list", "update"}
      /\ Reach(k, T).todo \subseteq T
  BY <1>3, <1>4, <1>7, ReachJudged
<1> QED
  BY <1>1, <1>3, <1>8 DEF Current, T

(* A series is listed without what is detached or settled.                 *)
LEMMA ListJudged ==
  ASSUME TypeOK, NEW c \in Calls, List(c), Judged(call[c])
  PROVE  /\ Judged(call'[c]) /\ call'[c].at # "update"
         /\ Current(call[c], row) => Current(call'[c], row)
<1> DEFINE found == {ImageOf(p) : p \in {q \in Occ :
                       InScope(call[c].anchor, call[c].scope, q)}}
           lead == \A u \in found : u.id # call[c].anchor.id
           k == [call[c] EXCEPT !.lead = lead]
           S == IF lead THEN found \cup {call[c].anchor} ELSE found
<1>0. call[c] \in CallState
  BY DEF TypeOK
<1>1. call'[c] = Reach(k, S)
  BY DEF List, TypeOK
<1>2. RunShape(call[c]) /\ call[c].scope # "THIS" /\ call[c].op \in Stay
  BY DEF List, TypeOK, CallShape, Ended, Judged
<1>3. call[c].anchor \in Image
  BY <1>2 DEF RunShape
<1>4. /\ found \in SUBSET Image
      /\ \A t \in found : t.row = row[t.id]
      /\ \A t \in found : ~t.row.detached /\ t.row.status \notin SETTLED_STATUSES
  BY DEF ImageOf, Image, TypeOK, InScope
<1>5. /\ k \in CallState /\ k.op = call[c].op /\ k.anchor = call[c].anchor
  BY <1>0 DEF CallState
<1>6. S \in SUBSET Image /\ S \subseteq found \cup {call[c].anchor}
  BY <1>3, <1>4
<1> HIDE DEF found, lead, k, S
<1>7. \A t \in S : Suits(k, t)
  BY <1>2, <1>4, <1>5, <1>6 DEF Suits, Stay, Single
<1>8. /\ Judged(Reach(k, S)) /\ Reach(k, S).at \notin {"list", "update"}
      /\ Reach(k, S).todo \subseteq S
  BY <1>5, <1>6, <1>7, ReachJudged
<1>9. Current(call[c], row) => call[c].anchor.row = row[call[c].anchor.id]
  BY DEF List, Current
<1> QED
  BY <1>1, <1>4, <1>6, <1>8, <1>9 DEF Current

(* A request keeps what it was judged on.                                  *)
LEMMA NextJudged ==
  ASSUME TypeOK, \A c \in Calls : Judged(call[c]), [Next]_vars
  PROVE  \A c \in Calls : Judged(call'[c])
<1>1. CASE UNCHANGED vars \/ Rest
  BY <1>1 DEF Rest, vars
<1>2. ASSUME NEW c \in Calls, Step(c), NEW d \in Calls PROVE Judged(call'[d])
  <2>1. CASE d # c
    BY <1>2, <2>1, OthersWait
  <2>2. CASE d = c /\ (Load(c) \/ SweepLoad(c) \/ List(c))
    BY <2>2, LoadJudged, SweepJudged, ListJudged
  <2>3. CASE d = c /\ CheckPasses(c)
    BY <2>3, PassedSame DEF Judged, Suits
  <2>4. CASE d = c /\ ~(Load(c) \/ SweepLoad(c) \/ List(c) \/ CheckPasses(c))
    <3>1. Ends(call'[c]) \/ Same(call[c], call'[c])
      BY <1>2, <2>4, LaterSame
    <3>2. CASE Ends(call'[c])
      BY <2>4, <3>2 DEF Ends, Ended, Judged
    <3>3. CASE Same(call[c], call'[c])
      BY <2>4, <3>3 DEF Same, Judged, Suits
    <3> QED
      BY <3>1, <3>2, <3>3
  <2> QED
    BY <2>1, <2>2, <2>3, <2>4
<1> QED
  BY <1>1, <1>2 DEF Next

(* No request has targets at first.                                        *)
LEMMA InitJudged == Init => \A c \in Calls : Judged(call[c])
BY DEF Init, Blank, Judged

(* What an update makes of a session that is as the request read it.       *)
LEMMA UpdateOnPath ==
  ASSUME TypeOK, NEW c \in Calls, Judged(call[c]), NEW op \in AllOps,
         NEW t \in call[c].todo, NEW new,
         NEW next \in {"publish", "record", "retire"},
         Update(c, op, t, new, next), new.status # row[t.id].status,
         t.row.status = row[t.id].status
  PROVE  Lifecycle(row[t.id].status, new.status)
<1> DEFINE s == row[t.id].status
<1>1. call[c].op = op /\ s \in Status
  BY UpdateStep DEF TypeOK, Row
<1>2. CASE op = "reschedule"
  BY <1>2 DEF Update, Becomes, Outcome, Lifecycle
<1>3. CASE op \in {"cancel", "sweep"}
  <2>1. new.status = "CANCELLED"
    BY <1>3 DEF Update, Becomes, Outcome
  <2>2. op = "cancel" => StatusAllows(s, "cancel")
    BY <1>1 DEF Judged, CANCELLABLE_STATUSES
  <2>3. op = "sweep" => s = "REQUESTED"
    BY <1>1 DEF Judged, Suits
  <2>4. s \in {"REQUESTED", "SCHEDULED", "RESCHEDULED"}
    BY <1>1, <1>3, <2>2, <2>3
       DEF Status, StatusAllows, ACTIONS_BY_STATUS, LiveActions
  <2> HIDE DEF s
  <2> QED
    BY <2>1, <2>4 DEF Lifecycle, s
<1>4. CASE op \in Single
  <2>1. StatusAllows(s, op)
    BY <1>1, <1>4 DEF Judged, Suits
  <2>2. new.status = Outcome[op]
    BY <1>4 DEF Update, Becomes, Single
  <2> HIDE DEF s
  <2> QED
    BY <1>1, <1>4, <2>1, <2>2
       DEF Status, StatusAllows, ACTIONS_BY_STATUS, LiveActions, Single, Outcome,
           Lifecycle, s
<1>5. op \in {"reschedule", "cancel", "sweep"} \cup Single
  BY DEF Update, Becomes, Outcome, Single
<1> QED
  BY <1>2, <1>3, <1>4, <1>5

(* A status leaves its life's path only through a request that was judged  *)
(* on a row another request has changed since: for any number of requests  *)
(* side by side.                                                           *)
THEOREM PathLeftOnlyWhenStale == Spec => OffPathOnlyWhenStale
<1> DEFINE I == TypeOK /\ \A c \in Calls : Judged(call[c])
<1>1. Init => I
  BY InitTypeOK, InitJudged
<1>2. I /\ [Next]_vars => I'
  BY NextTypeOK, NextJudged
<1>3. I /\ [Next]_vars =>
        [\A o \in Occ :
           row'[o].status # row[o].status
             => Lifecycle(row[o].status, row'[o].status)
                  \/ \E c \in Calls : Stale(c, o)]_vars
  <2> SUFFICES ASSUME I, Next, NEW o \in Occ, row'[o].status # row[o].status
               PROVE  \/ Lifecycle(row[o].status, row'[o].status)
                      \/ \E c \in Calls : Stale(c, o)
    BY DEF vars
  <2>1. PICK c \in Calls : Step(c)
    BY DEF Next, Rest, vars
  <2>2. \/ Reschedule(c) \/ EditDetails(c) \/ Cancel(c) \/ Restore(c)
        \/ Complete(c) \/ MarkMissed(c) \/ Approve(c) \/ Reject(c)
        \/ CorrectActualTimes(c) \/ SweepCancel(c)
    BY <2>1 DEF Step, Load, SweepLoad, List, CheckRefuses, CheckPasses, SweepWarn,
       PublishRead, PublishWrite, RetireReminders, Record, Notify, Capture,
       SeriesDefaults, Crash
  <2>3. PICK op \in AllOps, t \in call[c].todo,
             next \in {"publish", "record", "retire"} :
          \E new : Update(c, op, t, new, next)
    BY <2>2, Updates
  <2>4. PICK new : Update(c, op, t, new, next)
    BY <2>3
  <2>5. /\ row' = [row EXCEPT ![t.id] = new] /\ row'[t.id] = new /\ t.id = o
    BY <2>4, UpdateStep DEF TypeOK
  <2>6. CASE t.row.status # row[o].status
    BY <2>5, <2>6 DEF Stale
  <2>7. CASE t.row.status = row[o].status
    BY <2>4, <2>5, <2>7, UpdateOnPath
  <2> QED
    BY <2>6, <2>7
<1> HIDE DEF I
<1> QED
  BY <1>1, <1>2, <1>3, PTL DEF Spec, OffPathOnlyWhenStale

-----------------------------------------------------------------------------
(* One request at a time: what it read is there, what it checked holds.    *)

Clear(k) ==
  k.at = "update" /\ k.op = "reschedule" =>
    ~StudentClash(k.cur.id, NewSlot(k, k.cur))
PresentInv ==
  \A c \in Calls : Active(c) => Current(call[c], row) /\ Clear(call[c])

(* Whoever finds targets finds what is there.                              *)
LEMMA FoundPresent ==
  ASSUME TypeOK, Alone, MaxInFlight = 1, PresentInv, NEW c \in Calls,
         Judged(call[c]), Load(c) \/ SweepLoad(c) \/ List(c)
  PROVE  Current(call'[c], row') /\ Clear(call[c])'
<1>1. row' = row
  BY DEF Load, SweepLoad, List
<1>2. List(c) => Current(call[c], row)
  BY DEF List, PresentInv, Active, Ended
<1>3. Current(call'[c], row) /\ call'[c].at # "update"
  BY <1>2, LoadJudged, SweepJudged, ListJudged
<1> QED
  BY <1>1, <1>3 DEF Clear

(* A check passes what is clear.                                           *)
LEMMA PassedPresent ==
  ASSUME TypeOK, PresentInv, NEW c \in Calls, CheckPasses(c)
  PROVE  Current(call'[c], row') /\ Clear(call[c])'
<1> DEFINE k == call[c]
           n == call'[c]
<1>1. row' = row /\ Active(c)
  BY DEF CheckPasses, Active, Ended
<1>2. /\ n.op = k.op /\ n.anchor = k.anchor /\ n.arg = k.arg
      /\ n.todo = k.todo /\ n.at = "update"
      /\ k.op = "reschedule" => ~StudentClash(n.cur.id, NewSlot(k, n.cur))
  BY PassedSame
<1>3. Current(k, row)
  BY <1>1 DEF PresentInv
<1>4. NewSlot(n, n.cur) = NewSlot(k, n.cur)
  BY <1>2 DEF NewSlot
<1> HIDE DEF k, n
<1>5. Current(n, row')
  BY <1>1, <1>2, <1>3 DEF Current
<1>6. n.op = "reschedule" => ~StudentClash(n.cur.id, NewSlot(n, n.cur))
  BY <1>2, <1>4
<1>7. \A o, s : StudentClash(o, s)' <=> StudentClash(o, s)
  BY <1>1 DEF StudentClash, Busy, Blocking
<1>8. Clear(call[c])'
  BY <1>6, <1>7 DEF Clear, NewSlot, n
<1> QED
  BY <1>5, <1>8 DEF n

(* An update leaves the other targets as they were read.                   *)
LEMMA UpdatePresent ==
  ASSUME TypeOK, PresentInv, NEW c \in Calls, NEW op \in AllOps,
         NEW t \in call[c].todo, NEW new,
         NEW next \in {"publish", "record", "retire"},
         Update(c, op, t, new, next)
  PROVE  Current(call'[c], row') /\ Clear(call[c])'
<1> DEFINE k == call[c]
           n == call'[c]
<1>1. /\ k \in CallState /\ t \in Image /\ t.id \in Occ /\ row \in [Occ -> Row]
      /\ k.at \in {"update", "target"} /\ k.todo \subseteq Image
  BY UpdateStep DEF TypeOK, CallState
<1>2. Current(k, row)
  BY <1>1 DEF PresentInv, Active, Ended
<1>3. CASE n = Fail(k)
  <2>1. n.at = "failed" /\ n.todo = {}
    BY <1>3 DEF Fail, Blank
  <2> QED
    BY <2>1 DEF Current, Clear
<1>4. CASE row' = [row EXCEPT ![t.id] = new] /\ n = Wrote(k, t, new, next)
  <2>1. n.at = next /\ n.todo = k.todo \ {t}
    BY <1>1, <1>4 DEF Wrote, CallState
  <2>2. t \in k.todo
    OBVIOUS
  <2> HIDE DEF k, n
  <2>3. ASSUME NEW u \in n.todo PROVE u.row = row'[u.id]
    <3>1. u \in k.todo /\ u # t /\ u \in Image /\ u.row = row[u.id]
      BY <1>1, <1>2, <2>1 DEF Current
    <3>2. t.row = row[t.id]
      BY <1>2, <2>2 DEF Current
    <3>3. u.id # t.id
      BY <1>1, <3>1, <3>2 DEF Image
    <3> QED
      BY <1>1, <1>4, <3>1, <3>3 DEF Image
  <2> QED
    BY <2>1, <2>3 DEF Current, Clear, n
<1> QED
  BY <1>3, <1>4, UpdateStep

(* Every step keeps that.                                                  *)
LEMMA NextPresent ==
  ASSUME TypeOK, Alone, MaxInFlight = 1, \A c \in Calls : Judged(call[c]),
         PresentInv, [Next]_vars
  PROVE  PresentInv'
<1>1. CASE UNCHANGED vars \/ Rest
  BY <1>1 DEF Rest, vars, PresentInv, Active, Current, Clear, StudentClash, Busy,
     Blocking
<1>2. ASSUME NEW c \in Calls, Step(c) PROVE PresentInv'
  <2>1. \A d \in Calls \ {c} : ~Active(d)'
    BY <1>2, Solo DEF Active
  <2>2. Active(c)' => Current(call'[c], row') /\ Clear(call[c])'
    <3>1. CASE Load(c) \/ SweepLoad(c) \/ List(c)
      BY <3>1, FoundPresent
    <3>2. CASE CheckPasses(c)
      BY <3>2, PassedPresent
    <3>3. CASE \/ Reschedule(c) \/ EditDetails(c) \/ Cancel(c) \/ Restore(c)
               \/ Complete(c) \/ MarkMissed(c) \/ Approve(c) \/ Reject(c)
               \/ CorrectActualTimes(c) \/ SweepCancel(c)
      BY <3>3, Updates, UpdatePresent
    <3>4. CASE \/ CheckRefuses(c) \/ SweepWarn(c) \/ PublishRead(c)
               \/ PublishWrite(c) \/ RetireReminders(c) \/ Record(c)
               \/ Notify(c) \/ Capture(c) \/ SeriesDefaults(c) \/ Crash(c)
      <4>1. row' = row /\ Active(c)
        BY <3>4 DEF CheckRefuses, SweepWarn, Turn, NeedsCheck, PublishRead,
           PublishWrite, RetireReminders, Record, Notify, Capture,
           SeriesDefaults, Crash, Active, Ended
      <4>2. Current(call[c], row)
        BY <4>1 DEF PresentInv
      <4>3. ~(Load(c) \/ SweepLoad(c) \/ List(c) \/ CheckPasses(c))
              => Ends(call'[c]) \/ Same(call[c], call'[c])
        BY <1>2, LaterSame
      <4>4. Ends(call'[c]) \/ Same(call[c], call'[c])
              => Current(call'[c], row') /\ Clear(call[c])'
        BY <4>1, <4>2 DEF Ends, Ended, Same, Current, Clear
      <4> QED
        BY <3>1, <3>2, <4>3, <4>4
    <3> QED
      BY <1>2, <3>1, <3>2, <3>3, <3>4 DEF Step
  <2> QED
    BY <2>1, <2>2 DEF PresentInv
<1> QED
  BY <1>1, <1>2 DEF Next

(* No request is under way at first.                                       *)
LEMMA InitPresent == Init => PresentInv
BY DEF Init, Blank, PresentInv, Active

(* What a step writes, one request at a time.                              *)
Settled == /\ TypeOK /\ Alone /\ PresentInv
           /\ \A c \in Calls : Judged(call[c])

(* So it is at first ...                                                   *)
LEMMA InitSettled == Init => Settled
BY InitTypeOK, InitAlone, InitPresent, InitJudged DEF Settled

(* ... and after every step.                                               *)
LEMMA NextSettled == MaxInFlight = 1 => (Settled /\ [Next]_vars => Settled')
<1> SUFFICES ASSUME MaxInFlight = 1, Settled, [Next]_vars PROVE Settled'
  OBVIOUS
<1>1. TypeOK' /\ Alone'
  BY NextTypeOK, NextAlone DEF Settled
<1>2. PresentInv'
  BY NextPresent DEF Settled
<1>3. \A c \in Calls : Judged(call'[c])
  BY NextJudged DEF Settled
<1> QED
  BY <1>1, <1>2, <1>3 DEF Settled

(* A change to a whole series leaves alone what is detached and what is    *)
(* settled, except the occurrence somebody was looking at: for requests    *)
(* handled one at a time.                                                  *)
THEOREM AnchorAloneExempt ==
  ASSUME MaxInFlight = 1
  PROVE  Spec => OnlyTheAnchorIsExempt
<1>1. Settled /\ [Next]_vars =>
        [\A c \in Calls, o \in Occ :
           /\ call[c].scope # "THIS" /\ call'[c] # call[c]
           /\ row'[o] # row[o] /\ o # call[c].anchor.id
           => ~row[o].detached /\ row[o].status \notin SETTLED_STATUSES]_vars
  <2> SUFFICES ASSUME Settled, Next, NEW c \in Calls, NEW o \in Occ,
                      call[c].scope # "THIS", call'[c] # call[c],
                      row'[o] # row[o], o # call[c].anchor.id
               PROVE  ~row[o].detached /\ row[o].status \notin SETTLED_STATUSES
    BY DEF vars
  <2>1. Step(c)
    <3>1. PICK d \in Calls : Step(d)
      BY DEF Next, Rest, vars
    <3>2. d = c
      BY <3>1, OthersWait DEF Settled
    <3> QED
      BY <3>1, <3>2
  <2>2. \/ Reschedule(c) \/ EditDetails(c) \/ Cancel(c) \/ Restore(c)
        \/ Complete(c) \/ MarkMissed(c) \/ Approve(c) \/ Reject(c)
        \/ CorrectActualTimes(c) \/ SweepCancel(c)
    BY <2>1 DEF Step, Load, SweepLoad, List, CheckRefuses, CheckPasses, SweepWarn,
       PublishRead, PublishWrite, RetireReminders, Record, Notify, Capture,
       SeriesDefaults, Crash
  <2>3. PICK op \in AllOps, t \in call[c].todo,
             next \in {"publish", "record", "retire"} :
          \E new : Update(c, op, t, new, next)
    BY <2>2, Updates DEF Settled
  <2>4. PICK new : Update(c, op, t, new, next)
    BY <2>3
  <2>5. t.id = o /\ Active(c)
    BY <2>4, UpdateStep DEF Settled, TypeOK, Active, Ended
  <2>6. t.row = row[o]
    BY <2>5 DEF Settled, PresentInv, Current
  <2> QED
    BY <2>5, <2>6 DEF Settled, Judged, Suits
<1>2. Settled /\ [Next]_vars => Settled'
  BY NextSettled
<1> QED
  BY <1>1, <1>2, InitSettled, PTL DEF Spec, OnlyTheAnchorIsExempt

(* An update other than an approval or a restoration brings its session    *)
(* together with no other that has the same student.                       *)
LEMMA UpdateApart ==
  ASSUME Settled, NEW c \in Calls, NEW op \in AllOps \ {"approve", "restore"},
         NEW t \in call[c].todo, NEW new,
         NEW next \in {"publish", "record", "retire"},
         Update(c, op, t, new, next), NEW q \in Occ \ {t.id},
         SameStudent(t.id, q), Blocking(new), Blocking(row[q]),
         Overlap(new.slot, row[q].slot)
  PROVE  Blocking(row[t.id]) /\ Overlap(row[t.id].slot, row[q].slot)
<1> USE DEF Settled
<1>1. CASE op = "reschedule"
  <2>1. /\ call[c].at = "update" /\ t = call[c].cur /\ call[c].op = op
        /\ new.slot = NewSlot(call[c], t)
    BY <1>1 DEF Update, Turn, NeedsCheck
  <2>2. ~StudentClash(t.id, new.slot)
    BY <1>1, <2>1 DEF PresentInv, Active, Ended, Clear
  <2>3. q \in Busy(t.id, new.slot)
    BY DEF Busy, Overlap
  <2> QED
    BY <2>2, <2>3 DEF StudentClash
<1>2. CASE op # "reschedule"
  <2>1. new.slot = row[t.id].slot
    BY <1>2 DEF Update
  <2>2. new.status = row[t.id].status
    BY <1>2 DEF Update, Becomes, Outcome, Blocking, BLOCKING_STATUSES
  <2> QED
    BY <2>1, <2>2 DEF Blocking
<1> QED
  BY <1>1, <1>2

(* Of two sessions that come to be at one time with a student in both, one *)
(* has just been written.                                                  *)
LEMMA BookedByUpdate ==
  ASSUME Settled, NEW c \in Calls, NEW op \in AllOps \ {"approve", "restore"},
         NEW t \in call[c].todo, NEW new,
         NEW next \in {"publish", "record", "retire"},
         Update(c, op, t, new, next), NEW o \in Occ, NEW p \in Occ,
         StudentsBooked(o, p)'
  PROVE  StudentsBooked(o, p)
<1>0. t.id \in Occ /\ row \in [Occ -> Row]
  BY UpdateStep DEF Settled, TypeOK
<1>1. CASE row' = row
  BY <1>1 DEF StudentsBooked, Blocking
<1>2. CASE row' = [row EXCEPT ![t.id] = new] /\ row'[t.id] = new
  <2>1. \A q \in Occ \ {t.id} : row'[q] = row[q]
    BY <1>0, <1>2
  <2>2. /\ o # p /\ SameStudent(o, p) /\ Blocking(row'[o]) /\ Blocking(row'[p])
        /\ Overlap(row'[o].slot, row'[p].slot)
    BY DEF StudentsBooked, Blocking
  <2>3. CASE o = t.id
    BY <1>2, <2>1, <2>2, <2>3, UpdateApart DEF StudentsBooked
  <2>4. CASE p = t.id
    <3>1. SameStudent(t.id, o) /\ Overlap(new.slot, row[o].slot)
      BY <1>2, <2>1, <2>2, <2>4 DEF SameStudent, Overlap
    <3>2. Blocking(row[t.id]) /\ Overlap(row[t.id].slot, row[o].slot)
      BY <1>2, <2>1, <2>2, <2>4, <3>1, UpdateApart
    <3> QED
      BY <2>1, <2>2, <2>4, <3>2 DEF StudentsBooked, Overlap
  <2>5. CASE o # t.id /\ p # t.id
    BY <2>1, <2>2, <2>5 DEF StudentsBooked
  <2> QED
    BY <2>3, <2>4, <2>5
<1> QED
  BY <1>1, <1>2, UpdateStep DEF Settled

(* A student ends up in two live sessions at once only by an approval,     *)
(* which minds no student clash, or a restoration, which checks nothing:   *)
(* for requests handled one at a time.                                     *)
THEOREM ReopeningAloneClashes ==
  ASSUME MaxInFlight = 1
  PROVE  Spec => StudentClashOnlyByReopening
<1>1. Settled /\ [Next]_vars =>
        [\A o, p \in Occ :
           ~StudentsBooked(o, p) /\ StudentsBooked(o, p)'
             => \E c \in Calls : /\ call[c].op \in {"approve", "restore"}
                                 /\ call'[c] # call[c]]_vars
  <2> SUFFICES ASSUME Settled, Next, NEW o \in Occ, NEW p \in Occ,
                      ~StudentsBooked(o, p), StudentsBooked(o, p)'
               PROVE  \E c \in Calls : /\ call[c].op \in {"approve", "restore"}
                                       /\ call'[c] # call[c]
    BY DEF vars
  <2>0. row' # row
    BY DEF StudentsBooked, Blocking
  <2>1. PICK c \in Calls : Step(c)
    BY <2>0 DEF Next, Rest, vars
  <2>2. \/ Reschedule(c) \/ EditDetails(c) \/ Cancel(c) \/ Restore(c)
        \/ Complete(c) \/ MarkMissed(c) \/ Approve(c) \/ Reject(c)
        \/ CorrectActualTimes(c) \/ SweepCancel(c)
    BY <2>0, <2>1 DEF Step, Load, SweepLoad, List, CheckRefuses, CheckPasses,
       SweepWarn, PublishRead, PublishWrite, RetireReminders, Record, Notify,
       Capture, SeriesDefaults, Crash
  <2>3. PICK op \in AllOps, t \in call[c].todo,
             next \in {"publish", "record", "retire"} :
          \E new : Update(c, op, t, new, next)
    BY <2>2, Updates DEF Settled
  <2>4. PICK new : Update(c, op, t, new, next)
    BY <2>3
  <2>5. op \in {"approve", "restore"}
    BY <2>4, BookedByUpdate
  <2>6. /\ call[c].op = op /\ call[c].at \in {"update", "target"}
        /\ call'[c] = Fail(call[c]) \/ call'[c] = Wrote(call[c], t, new, next)
    BY <2>4, UpdateStep DEF Settled
  <2>7. call'[c].at \notin {"update", "target"}
    <3>1. Fail(call[c]).at = "failed"
      BY DEF Fail, Blank
    <3>2. Wrote(call[c], t, new, next).at = next
      BY DEF Wrote, Settled, TypeOK, CallState
    <3> QED
      BY <2>6, <3>1, <3>2
  <2> QED
    BY <2>5, <2>6, <2>7
<1>2. Settled /\ [Next]_vars => Settled'
  BY NextSettled
<1> QED
  BY <1>1, <1>2, InitSettled, PTL DEF Spec, StudentClashOnlyByReopening
=============================================================================
