------------------------- MODULE Attendance_proofs --------------------------
(***************************************************************************)
(* What Attendance guarantees for any number of participants and of forms  *)
(* sent side by side, with marks of the school and stops in between.       *)
(***************************************************************************)
EXTENDS Attendance, FiniteSetTheorems, SequenceTheorems, TLAPS

-----------------------------------------------------------------------------
(* The inductive invariant.                                                *)

Work == [who : Participant, left : Snapshot]
Told(t, left) == \E i \in DOMAIN t : t[i].after = left

(* Where a request stands: whom it has still to mark it was asked to mark; *)
(* whom it marked last is at hand until the event is there.                *)
Standing(c) ==
  LET k == call[c] IN
  /\ k.at = "idle" => k.cur = None
  /\ Active(c) =>
       /\ k.button \in {"save", "bulk"}
       /\ k.button = "bulk" => k.todo \subseteq Student
       /\ k.button = "save" => \A p \in k.todo : k.form[p] # None
  /\ k.at = "mark" => \A w \in Work : k.cur = w => Told(trail[w.who], w.left)
  /\ k.at = "record" => k.cur \in Work

(* Of a row in one hand at a time, what a request read still stands while  *)
(* the request has yet to mark it, and bulk marking has left only rows     *)
(* nobody had judged.                                                      *)
Undisturbed(c, p) ==
  Active(c) /\ p \in call[c].todo =>
    /\ call[c].read[p] = mark[p]
    /\ call[c].button = "bulk" => mark[p].status = "UNMARKED"

(* The events of a participant follow from one another; what they end in.  *)
Ending(t, n) == IF n = 0 THEN Fields(Unmarked) ELSE t[n].after
Connected(t) == \A i \in 1 .. Len(t) : t[i].before = Ending(t, i - 1)
History(p) ==
  /\ Connected(trail[p])
  /\ \A c, d \in Calls : Recording(c, p) /\ Recording(d, p) => c = d
  /\ (\A c \in Calls : ~Recording(c, p)) =>
       Ending(trail[p], Len(trail[p])) = Fields(mark[p])
  /\ \A c \in Calls : Recording(c, p) =>
       /\ Ending(trail[p], Len(trail[p])) = Fields(call[c].read[p])
       /\ call[c].cur.left = Fields(mark[p])

AttendanceInv ==
  /\ TypeOK
  /\ \A c \in Calls : Standing(c)
  /\ MarksAccounted
  /\ \A p \in apart : (\A c \in Calls : Undisturbed(c, p)) /\ History(p)

-----------------------------------------------------------------------------
(* One request moves.                                                      *)
LEMMA OneTurns ==
  ASSUME AttendanceInv, NEW c \in Calls, NEW k \in CallState, Turn(c, k)
  PROVE  /\ call' \in [Calls -> CallState] /\ call'[c] = k
         /\ \A d \in Calls : d # c => call'[d] = call[d]
BY DEF AttendanceInv, TypeOK, Turn

LEMMA Stands ==
  ASSUME AttendanceInv, NEW c \in Calls
  PROVE  call[c] \in CallState /\ Standing(c)
BY DEF AttendanceInv, TypeOK

LEMMA BlankTyped ==
  /\ Blank \in CallState /\ Blank.cur = None
  /\ Unmarked \in Mark /\ Fields(Unmarked) \in Snapshot
<1>1. Unmarked \in Mark /\ Fields(Unmarked) \in Snapshot
  BY DEF Unmarked, Mark, Fields, Snapshot, AttendanceStatus, Source
<1>2. [p \in Participant |-> "UNMARKED"] \in Sheet
  BY DEF Sheet, AttendanceStatus
<1>3. [p \in Participant |-> Unmarked] \in [Participant -> Mark]
  BY <1>1
<1> QED
  BY <1>1, <1>2, <1>3 DEF Blank, CallState

(* With somebody left to mark a request goes on; else it is answered.      *)
LEMMA OnwardTyped ==
  ASSUME NEW k \in CallState
  PROVE  /\ Onward(k) \in CallState
         /\ \/ Onward(k).at = "done" /\ Onward(k).cur = None
            \/ /\ Onward(k).at = "mark" /\ k.todo # {}
               /\ Onward(k).todo = k.todo /\ Onward(k).cur = k.cur
               /\ Onward(k).read = k.read /\ Onward(k).form = k.form
               /\ Onward(k).button = k.button
<1>1. CASE k.todo = {}
  <2>1. Onward(k) = [Blank EXCEPT !.at = "done"]
    BY <1>1 DEF Onward
  <2> QED
    BY <2>1, BlankTyped DEF CallState
<1>2. CASE k.todo # {}
  <2>1. Onward(k) = [k EXCEPT !.at = "mark"]
    BY <1>2 DEF Onward
  <2> QED
    BY <1>2, <2>1 DEF CallState
<1> QED
  BY <1>1, <1>2

(* The two buttons send alike: with what the rows say now, and people to   *)
(* mark that were asked for.                                               *)
Sent(c) ==
  /\ call[c].at = "idle" /\ UNCHANGED <<mark, trail, apart>>
  /\ \E k \in CallState :
       /\ Turn(c, k) /\ k.cur = None
       /\ \/ k.at = "done"
          \/ /\ k.at = "mark" /\ k.read = mark
             /\ \/ k.button = "save" /\ \A p \in k.todo : k.form[p] # None
                \/ /\ k.button = "bulk" /\ k.todo \subseteq Student
                   /\ \A p \in k.todo : mark[p].status = "UNMARKED"

LEMMA SaveSends ==
  ASSUME AttendanceInv, NEW c \in Calls, Save(c)
  PROVE  Sent(c)
<1>1. PICK form \in [Participant -> Statuses \cup {None}] :
        Turn(c, Onward([call[c] EXCEPT
          !.button = "save", !.form = form, !.read = mark,
          !.todo = {p \in Participant : /\ form[p] # None
                                       /\ form[p] # mark[p].status}]))
  BY DEF Save
<1> DEFINE todo == {p \in Participant : /\ form[p] # None
                                        /\ form[p] # mark[p].status}
           k == [call[c] EXCEPT !.button = "save", !.form = form,
                                !.read = mark, !.todo = todo]
<1>2. form \in Sheet
  BY AttendanceAssumption DEF Sheet
<1>3. /\ call[c] \in CallState /\ mark \in [Participant -> Mark]
      /\ call[c].cur = None
  BY Stands DEF Save, Standing, AttendanceInv, TypeOK
<1>4. todo \in SUBSET Participant /\ \A p \in todo : form[p] # None
  OBVIOUS
<1> HIDE DEF todo
<1>5. /\ k \in CallState /\ k.cur = None /\ k.read = mark /\ k.form = form
      /\ k.button = "save" /\ k.todo = todo
  BY <1>2, <1>3, <1>4 DEF CallState
<1>6. Turn(c, Onward(k))
  BY <1>1 DEF todo
<1> HIDE DEF k
<1>7. /\ call[c].at = "idle" /\ UNCHANGED <<mark, trail, apart>>
  BY DEF Save
<1> QED
  BY <1>4, <1>5, <1>6, <1>7, OnwardTyped DEF Sent

LEMMA MarkAllPresentSends ==
  ASSUME AttendanceInv, NEW c \in Calls, MarkAllPresent(c)
  PROVE  Sent(c)
<1> DEFINE todo == {p \in Student : mark[p].status = "UNMARKED"}
           k == [call[c] EXCEPT !.button = "bulk", !.read = mark,
                                !.todo = todo]
<1>1. Turn(c, Onward(k))
  BY DEF MarkAllPresent
<1>2. /\ call[c] \in CallState /\ mark \in [Participant -> Mark]
      /\ call[c].cur = None
  BY Stands DEF MarkAllPresent, Standing, AttendanceInv, TypeOK
<1>3. /\ todo \in SUBSET Participant /\ todo \subseteq Student
      /\ \A p \in todo : mark[p].status = "UNMARKED"
  BY AttendanceAssumption
<1> HIDE DEF todo
<1>4. /\ k \in CallState /\ k.cur = None /\ k.read = mark
      /\ k.button = "bulk" /\ k.todo = todo
  BY <1>2, <1>3 DEF CallState
<1> HIDE DEF k
<1>5. /\ call[c].at = "idle" /\ UNCHANGED <<mark, trail, apart>>
  BY DEF MarkAllPresent
<1> QED
  BY <1>1, <1>3, <1>4, <1>5, OnwardTyped DEF Sent

(* What a mark leaves behind.                                              *)
Marked(c, p) ==
  /\ p \in call[c].todo /\ call[c].at = "mark" /\ UNCHANGED trail
  /\ Reaching(c, p)
  /\ \E m \in Mark : /\ mark' = [mark EXCEPT ![p] = m]
                    /\ m.source = IF call[c].button = "bulk" THEN "BULK"
                                  ELSE "MANUAL"
  /\ \E k \in CallState :
       /\ Turn(c, k) /\ k.at = "record" /\ k.todo = call[c].todo \ {p}
       /\ k.cur \in Work /\ k.cur.who = p /\ k.cur.left = Fields(mark'[p])
       /\ k.cur = [who |-> p, left |-> Fields(mark'[p])]
       /\ k.button = call[c].button /\ k.form = call[c].form
       /\ k.read = call[c].read

LEMMA MarkOneMarks ==
  ASSUME AttendanceInv, NEW c \in Calls, MarkOne(c)
  PROVE  \E p \in Participant : Marked(c, p)
<1>1. PICK p \in call[c].todo :
       LET left == [status |-> Asked(call[c], p), times |-> FALSE]
       IN /\ mark' = [mark EXCEPT ![p] =
                        [status |-> left.status, times |-> left.times,
                         source |-> IF call[c].button = "bulk" THEN "BULK"
                                    ELSE "MANUAL"]]
          /\ Turn(c, [call[c] EXCEPT !.at = "record", !.todo = @ \ {p},
                                     !.cur = [who |-> p, left |-> left]])
          /\ Reaching(c, p)
  BY DEF MarkOne
<1> DEFINE source == IF call[c].button = "bulk" THEN "BULK" ELSE "MANUAL"
           asked == Asked(call[c], p)
           left == [status |-> asked, times |-> FALSE]
           m == [status |-> asked, times |-> FALSE, source |-> source]
           k == [call[c] EXCEPT !.at = "record", !.todo = @ \ {p},
                                !.cur = [who |-> p, left |-> left]]
<1>2. call[c] \in CallState /\ p \in Participant /\ call[c].at = "mark"
  BY Stands DEF MarkOne, CallState
<1>3. asked \in AttendanceStatus
  <2>1. CASE call[c].button = "bulk"
    BY <2>1 DEF Asked, AttendanceStatus
  <2>2. CASE call[c].button # "bulk"
    <3>1. call[c].form[p] # None
      BY <1>2, <2>2, Stands DEF Standing, Active
    <3>2. call[c].form[p] \in AttendanceStatus \cup {None}
      BY <1>2 DEF CallState, Sheet
    <3> QED
      BY <2>2, <3>1, <3>2 DEF Asked
  <2> QED
    BY <2>1, <2>2
<1>4. source \in Source
  BY DEF Source
<1>5. mark' = [mark EXCEPT ![p] = m] /\ Turn(c, k)
  BY <1>1
<1> HIDE DEF source, asked
<1>6. m \in Mark /\ m.source = source /\ left \in Snapshot /\ Fields(m) = left
  BY <1>3, <1>4 DEF Mark, Snapshot, Fields
<1>7. mark'[p] = m
  BY <1>2, <1>5 DEF AttendanceInv, TypeOK
<1> HIDE DEF m, left
<1>8. [who |-> p, left |-> left] \in Work
  BY <1>2, <1>6 DEF Work
<1>9. /\ k \in CallState /\ k.at = "record" /\ k.todo = call[c].todo \ {p}
      /\ k.cur = [who |-> p, left |-> left]
      /\ k.button = call[c].button /\ k.form = call[c].form
      /\ k.read = call[c].read
  BY <1>2, <1>8 DEF CallState, Work
<1> HIDE DEF k
<1>10. k.cur.who = p /\ k.cur.left = Fields(mark'[p])
  BY <1>6, <1>7, <1>9
<1>11. Reaching(c, p) /\ UNCHANGED trail
  BY <1>1 DEF MarkOne
<1>12. Marked(c, p)
  BY <1>2, <1>5, <1>6, <1>7, <1>8, <1>9, <1>10, <1>11 DEF Marked, source
<1> QED
  BY <1>2, <1>12

(* What a record leaves behind: one event more, of whom the request marked.*)
Recorded(c, p) ==
  /\ p \in Participant /\ Recording(c, p) /\ call[c].cur \in Work
  /\ UNCHANGED <<mark, apart>>
  /\ trail' \in [Participant -> Seq(Event)]
  /\ \A q \in Participant : q # p => trail'[q] = trail[q]
  /\ Len(trail[p]) \in Nat /\ Len(trail'[p]) = Len(trail[p]) + 1
  /\ \A i \in 1 .. Len(trail[p]) : trail'[p][i] = trail[p][i]
  /\ trail'[p][Len(trail[p]) + 1].before = Fields(call[c].read[p])
  /\ trail'[p][Len(trail[p]) + 1].after = call[c].cur.left
  /\ Turn(c, Onward(call[c]))

LEMMA RecordRecords ==
  ASSUME AttendanceInv, NEW c \in Calls, Record(c)
  PROVE  \E p \in Participant : Recorded(c, p)
<1> DEFINE w == call[c].cur
           p == w.who
           e == [before |-> Fields(call[c].read[p]), after |-> w.left]
<1>1. call[c] \in CallState /\ w \in Work /\ call[c].at = "record"
  BY Stands DEF Record, Standing
<1>2. p \in Participant /\ w.left \in Snapshot
  BY <1>1 DEF Work
<1>3. call[c].read[p] \in Mark
  BY <1>1, <1>2 DEF CallState
<1>4. e \in Event /\ e.before = Fields(call[c].read[p]) /\ e.after = w.left
  BY <1>2, <1>3 DEF Event, Fields, Snapshot, Mark
<1>5. trail' = [trail EXCEPT ![p] = Append(trail[p], e)]
  BY DEF Record
<1>6. trail \in [Participant -> Seq(Event)] /\ trail[p] \in Seq(Event)
  BY <1>2 DEF AttendanceInv, TypeOK
<1> HIDE DEF e, p
<1> DEFINE t == Append(trail[p], e)
<1>7. /\ t \in Seq(Event) /\ Len(trail[p]) \in Nat
      /\ Len(t) = Len(trail[p]) + 1
      /\ \A i \in 1 .. Len(trail[p]) : t[i] = trail[p][i]
      /\ t[Len(trail[p]) + 1] = e
  BY <1>4, <1>6, AppendProperties, LenProperties
<1> HIDE DEF t
<1>8. /\ trail' \in [Participant -> Seq(Event)] /\ trail'[p] = t
      /\ \A q \in Participant : q # p => trail'[q] = trail[q]
  BY <1>2, <1>5, <1>6, <1>7 DEF t
<1>9. UNCHANGED <<mark, apart>> /\ Turn(c, Onward(call[c]))
  BY DEF Record
<1>10. Recording(c, p)
  BY <1>1 DEF Recording, p
<1>11. Recorded(c, p)
  BY <1>1, <1>2, <1>4, <1>7, <1>8, <1>9, <1>10 DEF Recorded
<1> QED
  BY <1>2, <1>11

-----------------------------------------------------------------------------
(* The invariant is kept.                                                  *)

(* A mark told stays told, and one at hand stays at hand or is told.       *)
LEMMA AccountStays ==
  ASSUME AttendanceInv, NEW p \in Participant, mark'[p] = mark[p],
         mark'[p].source \in {"MANUAL", "BULK"},
         \A left : Told(trail[p], left) => Told(trail'[p], left),
         AtHand(p) => AtHand(p)' \/ Told(trail'[p], Fields(mark[p]))
  PROVE  \/ \E i \in DOMAIN trail'[p] : trail'[p][i].after = Fields(mark'[p])
         \/ AtHand(p)'
<1>1. Told(trail[p], Fields(mark[p])) \/ AtHand(p)
  BY DEF AttendanceInv, MarksAccounted, Told
<1>2. Told(trail'[p], Fields(mark[p])) \/ AtHand(p)'
  BY <1>1
<1>3. Fields(mark'[p]) = Fields(mark[p])
  OBVIOUS
<1> QED
  BY <1>2, <1>3 DEF Told

(* Of the others what stood stands, whatever events have come.             *)
LEMMA OthersStand ==
  ASSUME AttendanceInv, NEW d \in Calls, call'[d] = call[d],
         \A p \in Participant : \A left :
           Told(trail[p], left) => Told(trail'[p], left)
  PROVE  Standing(d)'
<1>1. Standing(d)
  BY DEF AttendanceInv
<1>2. \A w \in Work : w.who \in Participant
  BY DEF Work
<1> QED
  BY <1>1, <1>2 DEF Standing, Active

LEMMA AtHandIsWork ==
  ASSUME AttendanceInv, NEW p \in Participant
  PROVE  /\ Fields(mark[p]) \in Snapshot
         /\ [who |-> p, left |-> Fields(mark[p])] \in Work
         /\ [who |-> p, left |-> Fields(mark[p])] # None
<1>1. mark[p] \in Mark
  BY DEF AttendanceInv, TypeOK
<1>2. Fields(mark[p]) \in Snapshot
  BY <1>1 DEF Mark, Fields, Snapshot
<1>3. [who |-> p, left |-> Fields(mark[p])] \in Work
  BY <1>2 DEF Work
<1>4. None \notin Work
  BY AttendanceAssumption DEF Work, Snapshot
<1> QED
  BY <1>2, <1>3, <1>4

(* A row nobody wrote or told of stays as it was, whoever has come to have *)
(* it to mark, if what they read is what it says now.                      *)
LEMMA RowStays ==
  ASSUME AttendanceInv, NEW q \in apart, mark'[q] = mark[q],
         trail'[q] = trail[q],
         \A d \in Calls : Recording(d, q)' <=> Recording(d, q),
         \A d \in Calls : Recording(d, q) => call'[d] = call[d],
         \A d \in Calls : \/ Undisturbed(d, q)'
                          \/ Undisturbed(d, q) => Undisturbed(d, q)'
  PROVE  (\A d \in Calls : Undisturbed(d, q)') /\ History(q)'
<1>1. (\A d \in Calls : Undisturbed(d, q)) /\ History(q)
  BY DEF AttendanceInv
<1> QED
  BY <1>1 DEF History

(* A request is sent.                                                      *)
LEMMA SentKeeps ==
  ASSUME AttendanceInv, NEW c \in Calls, Sent(c)
  PROVE  AttendanceInv'
<1>1. PICK k \in CallState :
        /\ Turn(c, k) /\ k.cur = None
        /\ \/ k.at = "done"
           \/ /\ k.at = "mark" /\ k.read = mark
              /\ \/ k.button = "save" /\ \A p \in k.todo : k.form[p] # None
                 \/ /\ k.button = "bulk" /\ k.todo \subseteq Student
                    /\ \A p \in k.todo : mark[p].status = "UNMARKED"
  BY DEF Sent
<1>2. /\ call[c].at = "idle" /\ mark' = mark /\ trail' = trail
      /\ apart' = apart
  BY DEF Sent
<1>3. /\ call' \in [Calls -> CallState] /\ call'[c] = k
      /\ \A d \in Calls : d # c => call'[d] = call[d]
  BY <1>1, OneTurns
<1>4. TypeOK'
  BY <1>2, <1>3 DEF AttendanceInv, TypeOK
<1>5. \A d \in Calls : Standing(d)'
  <2>1. ASSUME NEW d \in Calls, d # c  PROVE Standing(d)'
    BY <1>2, <1>3, <2>1, OthersStand
  <2>2. None \notin Work
    BY AttendanceAssumption DEF Work, Snapshot
  <2>3. Standing(c)'
    BY <1>1, <1>3, <2>2 DEF Standing, Active
  <2> QED
    BY <2>1, <2>3
<1>6. call[c].cur = None
  BY <1>2, Stands DEF Standing
<1>7. MarksAccounted'
  <2>1. ASSUME NEW p \in Participant, AtHand(p)  PROVE AtHand(p)'
    <3>1. PICK d \in Calls :
            call[d].cur = [who |-> p, left |-> Fields(mark[p])]
      BY <2>1 DEF AtHand
    <3>2. d # c
      BY <1>6, <3>1, AtHandIsWork
    <3> QED
      BY <1>2, <1>3, <3>1, <3>2 DEF AtHand
  <2> QED
    BY <1>2, <2>1, AccountStays DEF MarksAccounted
<1>8. ASSUME NEW q \in apart
      PROVE  (\A d \in Calls : Undisturbed(d, q)') /\ History(q)'
  <2>1. \A d \in Calls : Recording(d, q)' <=> Recording(d, q)
    BY <1>1, <1>2, <1>3 DEF Recording
  <2>2. \A d \in Calls : Recording(d, q) => call'[d] = call[d]
    BY <1>2, <1>3 DEF Recording
  <2>3. ASSUME NEW d \in Calls, d # c
        PROVE  Undisturbed(d, q) => Undisturbed(d, q)'
    BY <1>2, <1>3, <2>3 DEF Undisturbed, Active
  <2>4. Undisturbed(c, q)'
    BY <1>1, <1>2, <1>3 DEF Undisturbed, Active
  <2> QED
    BY <1>2, <2>1, <2>2, <2>3, <2>4, RowStays
<1> QED
  BY <1>2, <1>4, <1>5, <1>7, <1>8 DEF AttendanceInv

(* One person is marked.                                                   *)
LEMMA MarkedKeeps ==
  ASSUME AttendanceInv, NEW c \in Calls, NEW p \in Participant, Marked(c, p)
  PROVE  AttendanceInv'
<1>1. PICK m \in Mark : mark' = [mark EXCEPT ![p] = m]
  BY DEF Marked
<1>2. PICK k \in CallState :
       /\ Turn(c, k) /\ k.at = "record" /\ k.todo = call[c].todo \ {p}
       /\ k.cur \in Work /\ k.cur.who = p /\ k.cur.left = Fields(mark'[p])
       /\ k.cur = [who |-> p, left |-> Fields(mark'[p])]
       /\ k.button = call[c].button /\ k.form = call[c].form
       /\ k.read = call[c].read
  BY DEF Marked
<1>3. /\ p \in call[c].todo /\ call[c].at = "mark" /\ Active(c)
      /\ trail' = trail
      /\ apart' = {q \in apart :
                    q = p => \A d \in Calls \ {c} : ~InHand(d, p)}
  BY DEF Marked, Active, Reaching
<1>4. /\ call' \in [Calls -> CallState] /\ call'[c] = k
      /\ \A d \in Calls : d # c => call'[d] = call[d]
  BY <1>2, OneTurns
<1>5. /\ mark' \in [Participant -> Mark]
      /\ \A q \in Participant : q # p => mark'[q] = mark[q]
  BY <1>1 DEF AttendanceInv, TypeOK
<1>6. TypeOK'
  BY <1>3, <1>4, <1>5 DEF AttendanceInv, TypeOK
<1>7. \A d \in Calls : Standing(d)'
  <2>1. ASSUME NEW d \in Calls, d # c  PROVE Standing(d)'
    BY <1>3, <1>4, <2>1, OthersStand
  <2>2. Standing(c)
    BY Stands
  <2>3. Standing(c)'
    BY <1>2, <1>3, <1>4, <2>2 DEF Standing, Active
  <2> QED
    BY <2>1, <2>3
<1>8. MarksAccounted'
  <2>1. ASSUME NEW q \in Participant,
               (mark[q].source \in {"MANUAL", "BULK"})'
        PROVE  \/ \E i \in DOMAIN trail'[q] :
                    trail'[q][i].after = Fields(mark'[q])
               \/ AtHand(q)'
    <3>1. CASE q = p
      BY <1>2, <1>4, <3>1 DEF AtHand
    <3>2. CASE q # p
      <4>1. mark'[q] = mark[q]
        BY <1>5, <3>2
      <4>2. AtHand(q) => AtHand(q)' \/ Told(trail'[q], Fields(mark[q]))
        <5>1. SUFFICES ASSUME AtHand(q)
                       PROVE  AtHand(q)' \/ Told(trail'[q], Fields(mark[q]))
          OBVIOUS
        <5>2. PICK d \in Calls :
                call[d].cur = [who |-> q, left |-> Fields(mark[q])]
          BY <5>1 DEF AtHand
        <5>3. CASE d # c
          BY <1>4, <4>1, <5>2, <5>3 DEF AtHand
        <5>4. CASE d = c
          <6> DEFINE w == [who |-> q, left |-> Fields(mark[q])]
          <6>1. w \in Work /\ w.who = q /\ w.left = Fields(mark[q])
            BY AtHandIsWork
          <6>2. call[c].cur = w
            BY <5>2, <5>4
          <6> HIDE DEF w
          <6>3. Told(trail[w.who], w.left)
            BY <1>3, <6>1, <6>2, Stands DEF Standing
          <6> QED
            BY <1>3, <6>1, <6>3
        <5> QED
          BY <5>3, <5>4
      <4> QED
        BY <1>3, <2>1, <4>1, <4>2, AccountStays
    <3> QED
      BY <3>1, <3>2
  <2> QED
    BY <2>1 DEF MarksAccounted
<1>9. ASSUME NEW q \in apart'
      PROVE  (\A d \in Calls : Undisturbed(d, q)') /\ History(q)'
  <2>1. /\ q \in apart /\ q \in Participant
        /\ q = p => \A d \in Calls \ {c} : ~InHand(d, p)
    BY <1>3, <1>9 DEF AttendanceInv, TypeOK
  <2>2. \A d \in Calls : Undisturbed(d, q)
    BY <2>1 DEF AttendanceInv
  <2>3. CASE q # p
    <3>1. \A d \in Calls : Recording(d, q)' <=> Recording(d, q)
      BY <1>2, <1>3, <1>4, <2>3 DEF Recording
    <3>2. \A d \in Calls : Recording(d, q) => call'[d] = call[d]
      BY <1>3, <1>4 DEF Recording
    <3>3. mark'[q] = mark[q]
      BY <1>5, <2>1, <2>3
    <3>4. ASSUME NEW d \in Calls, d # c
          PROVE  Undisturbed(d, q) => Undisturbed(d, q)'
      BY <1>4, <3>3, <3>4 DEF Undisturbed, Active
    <3>5. Undisturbed(c, q) => Undisturbed(c, q)'
      BY <1>2, <1>3, <1>4, <3>3 DEF Undisturbed, Active
    <3> QED
      BY <1>3, <2>1, <3>1, <3>2, <3>3, <3>4, <3>5, RowStays
  <2>4. CASE q = p
    <3>1. \A d \in Calls : ~Recording(d, p)
      BY <1>3, <2>1, <2>4 DEF Recording, InHand
    <3>2. /\ Connected(trail[p])
          /\ Ending(trail[p], Len(trail[p])) = Fields(mark[p])
      BY <2>1, <2>4, <3>1 DEF AttendanceInv, History
    <3>3. \A d \in Calls : Recording(d, p)' => d = c
      BY <1>4, <3>1 DEF Recording
    <3>4. call'[c].read[p] = mark[p] /\ call'[c].cur.left = Fields(mark'[p])
      BY <1>2, <1>3, <1>4, <2>2, <2>4 DEF Undisturbed
    <3>5. Recording(c, p)'
      BY <1>2, <1>4 DEF Recording
    <3>6. History(p)'
      BY <1>3, <3>2, <3>3, <3>4, <3>5 DEF History
    <3>7. ASSUME NEW d \in Calls  PROVE ~(Active(d) /\ p \in call[d].todo)'
      <4>1. CASE d # c
        <5>1. ~InHand(d, p)
          BY <2>1, <2>4, <4>1
        <5> QED
          BY <1>4, <4>1, <5>1 DEF InHand, Active
      <4>2. CASE d = c
        BY <1>2, <1>4, <4>2
      <4> QED
        BY <4>1, <4>2
    <3> QED
      BY <2>4, <3>6, <3>7 DEF Undisturbed
  <2> QED
    BY <2>3, <2>4
<1> QED
  BY <1>6, <1>7, <1>8, <1>9 DEF AttendanceInv

(* One event is written.                                                   *)
LEMMA RecordedKeeps ==
  ASSUME AttendanceInv, NEW c \in Calls, NEW p \in Participant, Recorded(c, p)
  PROVE  AttendanceInv'
<1> DEFINE k == Onward(call[c])
           n == Len(trail[p])
<1>1. /\ Recording(c, p) /\ call[c].at = "record" /\ Active(c)
      /\ call[c].cur \in Work /\ call[c].cur.who = p
      /\ mark' = mark /\ apart' = apart
      /\ trail' \in [Participant -> Seq(Event)]
      /\ \A q \in Participant : q # p => trail'[q] = trail[q]
  BY DEF Recorded, Recording, Active
<1>2. /\ n \in Nat /\ Len(trail'[p]) = n + 1
      /\ \A i \in 1 .. n : trail'[p][i] = trail[p][i]
      /\ trail'[p][n + 1].before = Fields(call[c].read[p])
      /\ trail'[p][n + 1].after = call[c].cur.left
      /\ Turn(c, k)
  BY DEF Recorded
<1>3. /\ trail[p] \in Seq(Event) /\ DOMAIN trail[p] = 1 .. n
      /\ DOMAIN trail'[p] = 1 .. n + 1
  BY <1>1, <1>2, LenProperties DEF AttendanceInv, TypeOK
<1>4. call[c] \in CallState /\ Standing(c)
  BY Stands
<1>5. /\ k \in CallState
      /\ \/ k.at = "done" /\ k.cur = None
         \/ /\ k.at = "mark" /\ call[c].todo # {}
            /\ k.todo = call[c].todo /\ k.cur = call[c].cur
            /\ k.read = call[c].read /\ k.form = call[c].form
            /\ k.button = call[c].button
  BY <1>4, OnwardTyped
<1> HIDE DEF k, n
<1>6. /\ call' \in [Calls -> CallState] /\ call'[c] = k
      /\ \A d \in Calls : d # c => call'[d] = call[d]
  BY <1>2, <1>5, OneTurns
<1>7. TypeOK'
  BY <1>1, <1>6 DEF AttendanceInv, TypeOK
<1>8. ASSUME NEW q \in Participant, NEW left, Told(trail[q], left)
      PROVE  Told(trail'[q], left)
  <2>1. CASE q # p
    BY <1>1, <1>8, <2>1
  <2>2. CASE q = p
    <3>1. PICK i \in 1 .. n : trail[p][i].after = left
      BY <1>3, <1>8, <2>2 DEF Told
    <3>2. i \in 1 .. n + 1 /\ trail'[p][i].after = left
      BY <1>2, <3>1
    <3> QED
      BY <1>3, <2>2, <3>2 DEF Told
  <2> QED
    BY <2>1, <2>2
<1>9. Told(trail'[p], call[c].cur.left)
  BY <1>2, <1>3 DEF Told
<1>10. \A d \in Calls : Standing(d)'
  <2>1. ASSUME NEW d \in Calls, d # c  PROVE Standing(d)'
    BY <1>6, <1>8, <2>1, OthersStand
  <2>2. k.at = "mark" => \A w \in Work : k.cur = w => Told(trail'[w.who], w.left)
    BY <1>1, <1>5, <1>9
  <2>3. Standing(c)'
    BY <1>1, <1>4, <1>5, <1>6, <2>2 DEF Standing, Active
  <2> QED
    BY <2>1, <2>3
<1>11. MarksAccounted'
  <2>1. ASSUME NEW q \in Participant, AtHand(q)
        PROVE  AtHand(q)' \/ Told(trail'[q], Fields(mark[q]))
    <3>1. PICK d \in Calls :
            call[d].cur = [who |-> q, left |-> Fields(mark[q])]
      BY <2>1 DEF AtHand
    <3>2. CASE d # c
      BY <1>1, <1>6, <3>1, <3>2 DEF AtHand
    <3>3. CASE d = c
      <4>1. call[c].cur.who = q /\ call[c].cur.left = Fields(mark[q])
        BY <3>1, <3>3
      <4> QED
        BY <1>1, <1>9, <4>1
    <3> QED
      BY <3>2, <3>3
  <2> QED
    BY <1>1, <1>8, <2>1, AccountStays DEF MarksAccounted
<1>12. ASSUME NEW q \in apart
       PROVE  (\A d \in Calls : Undisturbed(d, q)') /\ History(q)'
  <2>1. \A d \in Calls : Undisturbed(d, q) => Undisturbed(d, q)'
    <3>1. ASSUME NEW d \in Calls, d # c
          PROVE  Undisturbed(d, q) => Undisturbed(d, q)'
      BY <1>1, <1>6, <3>1 DEF Undisturbed, Active
    <3>2. Undisturbed(c, q) => Undisturbed(c, q)'
      BY <1>1, <1>5, <1>6 DEF Undisturbed, Active
    <3> QED
      BY <3>1, <3>2
  <2>2. (\A d \in Calls : Undisturbed(d, q)) /\ History(q)
    BY DEF AttendanceInv
  <2>3. CASE q # p
    <3>1. \A d \in Calls : Recording(d, q)' <=> Recording(d, q)
      BY <1>1, <1>5, <1>6, <2>3 DEF Recording
    <3>2. \A d \in Calls : Recording(d, q) => call'[d] = call[d]
      BY <1>1, <1>6, <2>3 DEF Recording
    <3>3. trail'[q] = trail[q] /\ mark'[q] = mark[q]
      BY <1>1, <2>3 DEF AttendanceInv, TypeOK
    <3> QED
      BY <2>1, <3>1, <3>2, <3>3, RowStays
  <2>4. ASSUME q = p  PROVE History(p)'
    <3>1. /\ Connected(trail[p])
          /\ Ending(trail[p], n) = Fields(call[c].read[p])
          /\ call[c].cur.left = Fields(mark[p])
      BY <1>1, <2>2, <2>4 DEF History, n
    <3>2. \A i \in 0 .. n : Ending(trail'[p], i) = Ending(trail[p], i)
      BY <1>2 DEF Ending
    <3>3. ASSUME NEW i \in 1 .. n + 1
          PROVE  trail'[p][i].before = Ending(trail'[p], i - 1)
      <4>1. CASE i \in 1 .. n
        <5>1. trail[p][i].before = Ending(trail[p], i - 1)
          BY <3>1, <4>1 DEF Connected, n
        <5>2. i - 1 \in 0 .. n
          BY <1>2, <4>1
        <5> QED
          BY <1>2, <3>2, <4>1, <5>1, <5>2
      <4>2. CASE i = n + 1
        <5>1. i - 1 = n /\ n \in 0 .. n
          BY <1>2, <4>2
        <5> QED
          BY <1>2, <3>1, <3>2, <4>2, <5>1
      <4> QED
        BY <1>2, <3>3, <4>1, <4>2
    <3>4. Connected(trail'[p])
      BY <1>2, <3>3 DEF Connected
    <3>5. Ending(trail'[p], n + 1) = Fields(mark[p])
      BY <1>2, <3>1 DEF Ending
    <3>6. \A d \in Calls : ~Recording(d, p)'
      <4>1. \A d \in Calls : Recording(d, p) => d = c
        BY <1>1, <2>2, <2>4 DEF History
      <4> QED
        BY <1>5, <1>6, <4>1 DEF Recording
    <3> QED
      BY <1>1, <1>2, <3>4, <3>5, <3>6 DEF History
  <2> QED
    BY <2>1, <2>2, <2>3, <2>4
<1> QED
  BY <1>1, <1>7, <1>10, <1>11, <1>12 DEF AttendanceInv

(* A request that stops takes with it what it had to do, not what it did.  *)
LEMMA CrashKeeps ==
  ASSUME AttendanceInv, NEW c \in Calls, Crash(c)
  PROVE  AttendanceInv'
<1> DEFINE k == [Blank EXCEPT !.at = "dead", !.cur = call[c].cur]
<1>1. call[c] \in CallState
  BY Stands
<1>2. k \in CallState /\ k.at = "dead" /\ k.cur = call[c].cur
  BY <1>1, BlankTyped DEF CallState
<1>3. /\ Turn(c, k) /\ mark' = mark /\ trail' = trail
      /\ apart' = {q \in apart : ~Recording(c, q)}
  BY DEF Crash
<1> HIDE DEF k
<1>4. /\ call' \in [Calls -> CallState] /\ call'[c] = k
      /\ \A d \in Calls : d # c => call'[d] = call[d]
  BY <1>2, <1>3, OneTurns
<1>5. TypeOK'
  BY <1>3, <1>4 DEF AttendanceInv, TypeOK
<1>6. \A d \in Calls : Standing(d)'
  <2>1. ASSUME NEW d \in Calls, d # c  PROVE Standing(d)'
    BY <1>3, <1>4, <2>1, OthersStand
  <2>2. Standing(c)'
    BY <1>2, <1>4 DEF Standing, Active
  <2> QED
    BY <2>1, <2>2
<1>7. MarksAccounted'
  <2>1. \A d \in Calls : call'[d].cur = call[d].cur
    BY <1>2, <1>4
  <2>2. \A p \in Participant : AtHand(p) => AtHand(p)'
    BY <1>3, <2>1 DEF AtHand
  <2> QED
    BY <1>3, <2>2, AccountStays DEF MarksAccounted
<1>8. ASSUME NEW q \in apart'
      PROVE  (\A d \in Calls : Undisturbed(d, q)') /\ History(q)'
  <2>1. q \in apart /\ ~Recording(c, q)
    BY <1>3, <1>8
  <2>2. \A d \in Calls : Recording(d, q)' <=> Recording(d, q)
    BY <1>2, <1>4, <2>1 DEF Recording
  <2>3. \A d \in Calls : Recording(d, q) => call'[d] = call[d]
    BY <1>4, <2>1
  <2>4. ASSUME NEW d \in Calls, d # c
        PROVE  Undisturbed(d, q) => Undisturbed(d, q)'
    BY <1>3, <1>4, <2>4 DEF Undisturbed, Active
  <2>5. Undisturbed(c, q)'
    BY <1>2, <1>4 DEF Undisturbed, Active
  <2> QED
    BY <1>3, <2>1, <2>2, <2>3, <2>4, <2>5, RowStays
<1> QED
  BY <1>5, <1>6, <1>7, <1>8 DEF AttendanceInv

(* The school's mark is nobody's here.                                     *)
LEMMA InboundKeeps ==
  ASSUME AttendanceInv, NEW p \in Participant, NEW s \in FromSchool,
         Inbound(p, s)
  PROVE  AttendanceInv'
<1>1. PICK known \in BOOLEAN :
        mark' = [mark EXCEPT ![p] =
                   [status |-> s, times |-> known, source |-> "SYSTEM"]]
  BY DEF Inbound
<1>2. apart' = apart \ {p} /\ trail' = trail /\ call' = call
  BY DEF Inbound
<1>3. [status |-> s, times |-> known, source |-> "SYSTEM"] \in Mark
  BY AttendanceAssumption DEF Mark, AttendanceStatus, Source
<1>4. /\ mark' \in [Participant -> Mark] /\ mark'[p].source = "SYSTEM"
      /\ \A q \in Participant : q # p => mark'[q] = mark[q]
  BY <1>1, <1>3 DEF AttendanceInv, TypeOK
<1>5. TypeOK'
  BY <1>2, <1>4 DEF AttendanceInv, TypeOK
<1>6. \A d \in Calls : Standing(d)'
  BY <1>2, OthersStand
<1>7. MarksAccounted'
  <2>1. ASSUME NEW q \in Participant,
               (mark[q].source \in {"MANUAL", "BULK"})'
        PROVE  \/ \E i \in DOMAIN trail'[q] :
                    trail'[q][i].after = Fields(mark'[q])
               \/ AtHand(q)'
    <3>1. q # p /\ mark'[q] = mark[q]
      BY <1>4, <2>1
    <3>2. AtHand(q) => AtHand(q)'
      BY <1>2, <3>1 DEF AtHand
    <3> QED
      BY <1>2, <2>1, <3>1, <3>2, AccountStays
  <2> QED
    BY <2>1 DEF MarksAccounted
<1>8. ASSUME NEW q \in apart'
      PROVE  (\A d \in Calls : Undisturbed(d, q)') /\ History(q)'
  <2>1. q \in apart /\ mark'[q] = mark[q]
    BY <1>2, <1>4, <1>8 DEF AttendanceInv, TypeOK
  <2>2. \A d \in Calls : /\ Recording(d, q)' <=> Recording(d, q)
                         /\ Undisturbed(d, q) => Undisturbed(d, q)'
    BY <1>2, <2>1 DEF Recording, Undisturbed, Active
  <2> QED
    BY <1>2, <2>1, <2>2, RowStays
<1> QED
  BY <1>5, <1>6, <1>7, <1>8 DEF AttendanceInv

LEMMA UnchangedKeeps ==
  ASSUME AttendanceInv, UNCHANGED vars
  PROVE  AttendanceInv'
BY DEF AttendanceInv, vars, TypeOK, Standing, Active, MarksAccounted, AtHand,
       Undisturbed, History, Recording

LEMMA InitHolds == Init => AttendanceInv
<1> SUFFICES ASSUME Init PROVE AttendanceInv
  OBVIOUS
<1>1. /\ mark = [p \in Participant |-> Unmarked]
      /\ trail = [p \in Participant |-> <<>>]
      /\ call = [c \in Calls |-> Blank] /\ apart = Participant
  BY DEF Init
<1>2. <<>> \in Seq(Event) /\ Len(<<>>) = 0
  OBVIOUS
<1>3. TypeOK
  BY <1>1, <1>2, BlankTyped DEF TypeOK
<1>4. \A c \in Calls : call[c].at = "idle" /\ call[c].cur = None
  BY <1>1 DEF Blank
<1>5. \A c \in Calls : Standing(c) /\ \A p \in apart : Undisturbed(c, p)
  BY <1>4 DEF Standing, Undisturbed, Active
<1>6. MarksAccounted
  BY <1>1 DEF MarksAccounted, Unmarked
<1>7. ASSUME NEW p \in Participant  PROVE History(p)
  <2>1. trail[p] = <<>> /\ mark[p] = Unmarked /\ Len(trail[p]) = 0
    BY <1>1, <1>2
  <2> QED
    BY <1>4, <2>1 DEF History, Recording, Connected, Ending
<1> QED
  BY <1>1, <1>3, <1>5, <1>6, <1>7 DEF AttendanceInv

LEMMA StepKeeps ==
  ASSUME AttendanceInv, [Next]_vars
  PROVE  AttendanceInv'
<1>1. ASSUME NEW c \in Calls, Save(c)  PROVE AttendanceInv'
  BY <1>1, SaveSends, SentKeeps
<1>2. ASSUME NEW c \in Calls, MarkAllPresent(c)  PROVE AttendanceInv'
  BY <1>2, MarkAllPresentSends, SentKeeps
<1>3. ASSUME NEW c \in Calls, MarkOne(c)  PROVE AttendanceInv'
  BY <1>3, MarkOneMarks, MarkedKeeps
<1>4. ASSUME NEW c \in Calls, Record(c)  PROVE AttendanceInv'
  BY <1>4, RecordRecords, RecordedKeeps
<1>5. ASSUME NEW c \in Calls, Crash(c)  PROVE AttendanceInv'
  BY <1>5, CrashKeeps
<1>6. ASSUME NEW p \in Participant, NEW s \in FromSchool, Inbound(p, s)
      PROVE  AttendanceInv'
  BY <1>6, InboundKeeps
<1>7. CASE Rest \/ UNCHANGED vars
  BY <1>7, UnchangedKeeps DEF Rest
<1> QED
  BY <1>1, <1>2, <1>3, <1>4, <1>5, <1>6, <1>7 DEF Next

LEMMA AttendanceInvAlways == Spec => []AttendanceInv
<1>1. Init => AttendanceInv
  BY InitHolds
<1>2. AttendanceInv /\ [Next]_vars => AttendanceInv'
  BY StepKeeps
<1> QED
  BY <1>1, <1>2, PTL DEF Spec

-----------------------------------------------------------------------------
(* The results.                                                            *)

(* Rows, events and requests keep their shape, however the two buttons,    *)
(* their single statements and the school's marks interleave.              *)
THEOREM AttendanceTypeCorrect == Spec => []TypeOK
<1>1. AttendanceInv => TypeOK
  BY DEF AttendanceInv
<1> QED
  BY <1>1, AttendanceInvAlways, PTL

(* Every mark a person or the bulk button made is told by an event of its  *)
(* row, or its writer has yet to write that event or stopped before it:    *)
(* markAttendance writes the row first and the audit event after.          *)
THEOREM MarksAccountedAlways == Spec => []MarksAccounted
<1>1. AttendanceInv => MarksAccounted
  BY DEF AttendanceInv
<1> QED
  BY <1>1, AttendanceInvAlways, PTL

(* However many requests work side by side and wherever they stop,         *)
(* markAllPresent overwrites nobody's judgement of a row that no two of    *)
(* them had in hand when one wrote it and the school left alone: the row   *)
(* it read as UNMARKED is UNMARKED when it writes.                         *)
THEOREM BulkFillsGapsAlways == Spec => BulkFillsGaps
<1> DEFINE Fills ==
      \A p \in apart' :
        mark'[p] # mark[p] /\ mark'[p].source = "BULK"
          => mark[p].status = "UNMARKED"
<1>1. AttendanceInv /\ [Next]_vars => [Fills]_vars
  <2>1. SUFFICES ASSUME AttendanceInv, Next, NEW p \in apart',
                        mark'[p] # mark[p], mark'[p].source = "BULK"
                 PROVE  mark[p].status = "UNMARKED"
    OBVIOUS
  <2>2. mark' # mark
    BY <2>1
  <2>3. ASSUME NEW q \in Participant, NEW s \in FromSchool, Inbound(q, s)
        PROVE  FALSE
    <3>1. p \in apart /\ p # q
      BY <2>1, <2>3 DEF Inbound
    <3> QED
      BY <2>1, <2>3, <3>1 DEF Inbound, AttendanceInv, TypeOK
  <2>4. PICK c \in Calls : MarkOne(c)
    BY <2>1, <2>2, <2>3 DEF Next, Save, MarkAllPresent, Record, Crash, Rest, vars
  <2>5. PICK q \in Participant : Marked(c, q)
    BY <2>1, <2>4, MarkOneMarks
  <2>6. PICK m \in Mark :
          /\ mark' = [mark EXCEPT ![q] = m]
          /\ m.source = IF call[c].button = "bulk" THEN "BULK" ELSE "MANUAL"
    BY <2>5 DEF Marked
  <2>7. p \in apart /\ p \in Participant
    BY <2>1, <2>5 DEF Marked, Reaching, AttendanceInv, TypeOK
  <2>8. p = q /\ mark'[p] = m
    BY <2>1, <2>6, <2>7 DEF AttendanceInv, TypeOK
  <2>9. call[c].button = "bulk"
    BY <2>1, <2>6, <2>8
  <2>10. p \in call[c].todo /\ Active(c)
    BY <2>1, <2>5, <2>8 DEF Marked, Active
  <2>11. Undisturbed(c, p)
    BY <2>1, <2>7 DEF AttendanceInv
  <2> QED
    BY <2>9, <2>10, <2>11 DEF Undisturbed
<1>2. BulkFillsGaps <=> [][Fills]_vars
  BY PTL DEF BulkFillsGaps
<1> QED
  BY <1>1, <1>2, AttendanceInvAlways, PTL DEF Spec

(* attendanceRate divides those who attended by those neither excused nor  *)
(* unmarked: excusing somebody absent takes one from below the line only.  *)
THEOREM ExcusingNeverLowersAlways == Spec => []ExcusingNeverLowers
<1>1. ASSUME TypeOK, NEW p \in Student,
             mark[p].status = "ABSENT" \/ mark[p].status = "UNMARKED"
      PROVE  RateAtMost(mark, [mark EXCEPT ![p].status = "EXCUSED"])
  <2> DEFINE n == [mark EXCEPT ![p].status = "EXCUSED"]
             k == Cardinality(Counted(mark))
             a == Cardinality(Attended(mark))
  <2>1. p \in Participant /\ mark \in [Participant -> Mark] /\ mark[p] \in Mark
    BY <1>1, AttendanceAssumption DEF TypeOK
  <2>2. /\ n[p].status = "EXCUSED"
        /\ \A q \in Participant : q # p => n[q] = mark[q]
    BY <2>1 DEF Mark
  <2> HIDE DEF n
  <2>3. Counted(n) = Counted(mark) \ {p}
    BY <1>1, <2>1, <2>2, AttendanceAssumption DEF Counted
  <2>4. p \notin Attended(mark)
    BY <1>1 DEF Attended, PRESENT_STATES
  <2>5. Attended(n) = Attended(mark)
    <3>1. ASSUME NEW q \in Student  PROVE q \in Attended(n) <=> q \in Attended(mark)
      <4>1. CASE q = p
        BY <2>3, <2>4, <4>1 DEF Attended
      <4>2. CASE q # p
        BY <2>2, <2>3, <4>2, AttendanceAssumption DEF Attended
      <4> QED
        BY <4>1, <4>2
    <3> QED
      BY <3>1 DEF Attended, Counted
  <2>6. IsFiniteSet(Counted(mark)) /\ IsFiniteSet(Attended(mark))
    <3>1. /\ Counted(mark) \subseteq Participant
          /\ Attended(mark) \subseteq Participant
      BY AttendanceAssumption DEF Counted, Attended
    <3> QED
      BY <3>1, FS_Subset, AttendanceAssumption
  <2>7. k \in Nat /\ a \in Nat
    BY <2>6, FS_CardinalityType
  <2>8. Cardinality(Counted(n)) \in Nat /\ Cardinality(Counted(n)) <= k
    <3>1. /\ Counted(n) \subseteq Counted(mark)
      BY <2>3
    <3> QED
      BY <3>1, <2>6, FS_Subset, FS_CardinalityType
  <2> DEFINE j == Cardinality(Counted(n))
  <2> HIDE DEF k, a, j
  <2>9. a * j <= a * k
    <3>1. j \in Nat /\ j <= k
      BY <2>8 DEF j, k
    <3> QED
      BY <2>7, <3>1, SMT
  <2> QED
    BY <2>5, <2>9 DEF RateAtMost, a, j, k, n
<1>2. AttendanceInv => ExcusingNeverLowers
  BY <1>1 DEF AttendanceInv, ExcusingNeverLowers
<1> QED
  BY <1>2, AttendanceInvAlways, PTL

(* Requests side by side, stopping anywhere: of a row no two had in hand   *)
(* when one wrote it, whose writer did not stop before its event and that  *)
(* the school left alone, the audit tells one history, from no mark to the *)
(* mark that stands: each event's "before" is what the request had read.   *)
THEOREM HistoryConnectedAlways == Spec => []HistoryConnected
<1>1. ASSUME AttendanceInv, NEW p \in apart,
             \A c \in Calls : ~Recording(c, p)
      PROVE  LET seen ==
                   <<[before |-> Fields(Unmarked), after |-> Fields(Unmarked)]>>
                     \o trail[p]
             IN /\ \A i \in 2..Len(seen) : seen[i].before = seen[i - 1].after
                /\ Last(seen).after = Fields(mark[p])
  <2> DEFINE e == [before |-> Fields(Unmarked), after |-> Fields(Unmarked)]
             t == trail[p]
             seen == <<e>> \o t
             n == Len(t)
  <2>1. e \in Event /\ e.after = Fields(Unmarked)
    BY BlankTyped DEF Event
  <2>2. t \in Seq(Event)
    BY <1>1 DEF AttendanceInv, TypeOK
  <2>3. Connected(t) /\ Ending(t, n) = Fields(mark[p])
    BY <1>1 DEF AttendanceInv, History, t, n
  <2> HIDE DEF e, t
  <2>4. n \in Nat
    BY <2>2, LenProperties
  <2>5. /\ Len(seen) = n + 1 /\ seen[1] = e
        /\ \A i \in 1 .. n : seen[i + 1] = t[i]
    <3>1. <<e>> \in Seq(Event) /\ Len(<<e>>) = 1 /\ <<e>>[1] = e
      BY <2>1
    <3> QED
      BY <2>2, <2>4, <3>1, ConcatProperties
  <2> HIDE DEF seen, n
  <2>6. \A i \in 0 .. n : seen[i + 1].after = Ending(t, i)
    BY <2>1, <2>4, <2>5 DEF Ending
  <2>7. ASSUME NEW i \in 2 .. Len(seen)
        PROVE  seen[i].before = seen[i - 1].after
    <3> DEFINE j == i - 1
    <3>1. j \in 1 .. n /\ j - 1 \in 0 .. n /\ i = j + 1 /\ i - 1 = (j - 1) + 1
      BY <2>4, <2>5, <2>7
    <3>2. seen[i].before = t[j].before
      BY <2>5, <3>1
    <3>3. t[j].before = Ending(t, j - 1)
      BY <2>3, <3>1 DEF Connected, n
    <3>4. seen[i - 1].after = Ending(t, j - 1)
      BY <2>6, <3>1
    <3> QED
      BY <3>2, <3>3, <3>4
  <2>8. Last(seen).after = Fields(mark[p])
    <3>1. seen[n + 1].after = Ending(t, n)
      BY <2>4, <2>6
    <3> QED
      BY <2>3, <2>5, <3>1 DEF Last
  <2> QED
    BY <2>7, <2>8 DEF seen, e, t
<1>2. AttendanceInv => HistoryConnected
  BY <1>1 DEF HistoryConnected, AttendanceInv
<1> QED
  BY <1>2, AttendanceInvAlways, PTL
=============================================================================
