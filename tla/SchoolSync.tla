----------------------------- MODULE SchoolSync -----------------------------
(***************************************************************************)
(* The way a session travels to the school application and an attendance   *)
(* mark travels back: lib/services/sharedSession.ts writes the copy and    *)
(* queues it, lib/services/schoolSync.ts (npm run sync:local) delivers the *)
(* queue into the other database and fetches the marks, and                *)
(* tools/link-local-schools.ts makes the two sides' people the same.       *)
(*                                                                         *)
(* Every statement commits by itself, except the delivery of one change,   *)
(* which is one transaction of the school's database.                      *)
(*                                                                         *)
(* Abstracted: what a session says is the number of times it was written;  *)
(* school and pod-membership rows are left out (no step waits for them);   *)
(* a session has one student, so one attendance row.                       *)
(***************************************************************************)
EXTENDS Integers, Sequences, FiniteSets

CONSTANTS
  Occ,         \* occurrences
  Pod, PodOf,  \* pods, and the pod of an occurrence (its series' or its own)
  Person,      \* the people on sessions, the stand-in tutor among them
  People,      \* who is on an occurrence
  Cast,        \* the people db:link-schools knows
  LinkedFirst, \* those it was run for before anything was published
  Publishers,  \* requests that change a session and publish it, each made once
  MaxInFlight, \* how many of them the server works on at a time
  Syncs,       \* runs of sync:local that may overlap
  MaxMarks,    \* bound on the marks made at the school
  MaxStops,    \* bound on how often a request or a run stops half-way
  None

ASSUME SyncAssumption ==
  /\ Occ \cap Pod = {}
  /\ PodOf \in [Occ -> Pod]
  /\ People \in [Occ -> SUBSET Person]
  /\ \A o \in Occ : People[o] # {}
  /\ LinkedFirst \subseteq Cast /\ Cast \subseteq Person
  /\ MaxMarks \in Nat /\ MaxStops \in Nat /\ MaxInFlight \in Nat
  /\ None \notin Nat \cup {"UNMARKED", "PRESENT", "ABSENT"}

VARIABLES
  version,  \* session_occurrence: how often it was written, 0 before booking
  copies,   \* shared_session, shared_pod: the rows made for a key, oldest first
  link,     \* shared_link: which of them is the copy, 0 while there is none
  person,   \* shared_user and its shared_link
  outbound, \* outbound_change
  known,    \* School side: the people in it under their own id
  school,   \* School side: Session, with its SessionAttendance
  marked,   \* School side: AttendanceOutbound
  applied,  \* applied_inbound
  mark,     \* session_participant: attendance and where it came from
  publish,  \* what each request has done so far
  sync,     \* what each run has done so far
  stops

opsVars == <<version, copies, link, person, outbound, applied, mark>>
schoolVars == <<known, school, marked>>
vars == <<opsVars, schoolVars, publish, sync, stops>>

Key == Occ \cup Pod
Mark == {"UNMARKED", "PRESENT", "ABSENT"}
SharedId == {"ops", "main"}   \* made up here, or taken from the main database
CopyRow == [version : Nat, mark : Mark \cup {None}]
OutboundRow == [occ : Occ, copy : Nat, version : Nat, mark : Mark,
                people : SUBSET (Person \X SharedId), delivered : BOOLEAN]
MarkRow == [occ : Occ, copy : Nat, status : Mark, acked : BOOLEAN]
SchoolSession == [copy : Nat, version : Nat, mark : Mark]

PublishState ==
  [at : {"idle", "read", "people", "person", "pod", "podlink", "session",
         "sessionlink", "attendance", "queue", "done", "failed", "dead"},
   occ : Occ \cup {None}, image : Nat, need : SUBSET Person,
   who : Person \cup {None}, ids : SUBSET (Person \X SharedId),
   copy : Nat, mark : Mark]

SyncState ==
  [at : {"idle", "deliver", "mark", "collect", "seen", "shared", "ops",
         "applied", "ack"},
   todo : SUBSET Nat]

Fresh == [at |-> "idle", occ |-> None, image |-> 0, need |-> {}, who |-> None,
          ids |-> {}, copy |-> 0, mark |-> "UNMARKED"]
Asleep == [at |-> "idle", todo |-> {}]

Init ==
  /\ version = [o \in Occ |-> 0]
  /\ copies = [k \in Key |-> <<>>]
  /\ link = [k \in Key |-> 0]
  /\ person = [p \in Person |->
                 LET id == IF p \in LinkedFirst THEN "main" ELSE None
                 IN [row |-> id, link |-> id]]
  /\ outbound = <<>>
  /\ known = LinkedFirst
  /\ school = [o \in Occ |-> {}]
  /\ marked = <<>>
  /\ applied = {}
  /\ mark = [o \in Occ |-> [status |-> "UNMARKED", by |-> "nobody"]]
  /\ publish = [c \in Publishers |-> Fresh]
  /\ sync = [y \in Syncs |-> Asleep]
  /\ stops = 0

-----------------------------------------------------------------------------
(* publishOccurrence, statement by statement.                              *)

Busy(c) == publish[c].at \notin {"idle", "done", "failed", "dead"}
Turn(c, k) == publish' = [publish EXCEPT ![c] = k]
Fail(c) == Turn(c, [publish[c] EXCEPT !.at = "failed"])

(* An operation books, moves, edits or cancels a session, and publishes it.*)
Change(c) ==
  /\ publish[c].at = "idle"
  /\ Cardinality({d \in Publishers : Busy(d)}) < MaxInFlight
  /\ \E o \in Occ :
       /\ version' = [version EXCEPT ![o] = @ + 1]
       /\ Turn(c, [Fresh EXCEPT !.at = "read", !.occ = o])
  /\ UNCHANGED <<copies, link, person, outbound, applied, mark, schoolVars,
                 sync, stops>>

Read(c) ==
  /\ publish[c].at = "read"
  /\ Turn(c, [publish[c] EXCEPT !.at = "people",
                                !.image = version[publish[c].occ],
                                !.need = People[publish[c].occ]])
  /\ UNCHANGED <<opsVars, schoolVars, sync, stops>>

Named(k, p, id) ==
  [k EXCEPT !.at = IF k.need = {p} THEN "pod" ELSE "people",
            !.need = k.need \ {p}, !.who = None,
            !.ids = k.ids \cup {<<p, id>>}]

(* ensurePerson and ensureUnassignedTutor: a person without a link gets a  *)
(* row, under an id made up here.  The address is unique: where the row is *)
(* there and its link is not, the insert throws.                           *)
FindPerson(c) ==
  /\ publish[c].at = "people"
  /\ \E p \in publish[c].need :
       /\ person[p].link # None
       /\ Turn(c, Named(publish[c], p, person[p].link))
  /\ UNCHANGED <<opsVars, schoolVars, sync, stops>>

CreatePerson(c) ==
  /\ publish[c].at = "people"
  /\ \E p \in publish[c].need :
       /\ person[p].link = None
       /\ IF person[p].row = None
          THEN /\ person' = [person EXCEPT ![p].row = "ops"]
               /\ Turn(c, [publish[c] EXCEPT !.at = "person", !.who = p])
          ELSE Fail(c) /\ UNCHANGED person
  /\ UNCHANGED <<version, copies, link, outbound, applied, mark, schoolVars,
                 sync, stops>>

LinkPerson(c) ==
  /\ publish[c].at = "person"
  /\ LET p == publish[c].who
     IN IF person[p].link = None
        THEN /\ person' = [person EXCEPT ![p].link = "ops"]
             /\ Turn(c, Named(publish[c], p, "ops"))
        ELSE Fail(c) /\ UNCHANGED person
  /\ UNCHANGED <<version, copies, link, outbound, applied, mark, schoolVars,
                 sync, stops>>

KeyOf(k) == IF k.at \in {"pod", "podlink"} THEN PodOf[k.occ] ELSE k.occ
Kept(k, n) == IF k.at \in {"pod", "podlink"} THEN [k EXCEPT !.at = "session"]
              ELSE [k EXCEPT !.at = "attendance", !.copy = n]

(* ensurePod and ensureSession: the linked row is refreshed; without a     *)
(* link a new row is made, and linked by the statement after.              *)
Refresh(c) ==
  /\ publish[c].at \in {"pod", "session"}
  /\ LET k == publish[c]
         n == link[KeyOf(k)]
     IN /\ n # 0
        /\ copies' = [copies EXCEPT ![KeyOf(k)][n].version = k.image]
        /\ Turn(c, Kept(k, n))
  /\ UNCHANGED <<version, link, person, outbound, applied, mark, schoolVars,
                 sync, stops>>

Create(c) ==
  /\ publish[c].at \in {"pod", "session"}
  /\ LET k == publish[c]
         x == KeyOf(k)
     IN /\ link[x] = 0
        /\ copies' = [copies EXCEPT ![x] =
                        Append(@, [version |-> k.image, mark |-> None])]
        /\ Turn(c, [k EXCEPT !.copy = Len(copies[x]) + 1,
                             !.at = IF k.at = "pod" THEN "podlink"
                                    ELSE "sessionlink"])
  /\ UNCHANGED <<version, link, person, outbound, applied, mark, schoolVars,
                 sync, stops>>

(* uq_shared_link: whoever comes second throws, and its row stays behind.  *)
LinkOver(c) ==
  /\ publish[c].at \in {"podlink", "sessionlink"}
  /\ LET k == publish[c]
     IN /\ link' = [link EXCEPT ![KeyOf(k)] = k.copy]
        /\ Turn(c, Kept(k, k.copy))
  /\ UNCHANGED <<version, copies, person, outbound, applied, mark, schoolVars,
                 sync, stops>>

Link(c) ==
  /\ publish[c].at \in {"podlink", "sessionlink"}
  /\ LET k == publish[c]
     IN IF link[KeyOf(k)] = 0
        THEN /\ link' = [link EXCEPT ![KeyOf(k)] = k.copy]
             /\ Turn(c, Kept(k, k.copy))
        ELSE Fail(c) /\ UNCHANGED link
  /\ UNCHANGED <<version, copies, person, outbound, applied, mark, schoolVars,
                 sync, stops>>

(* A later edit does not wipe a mark.  The find and the create are one     *)
(* step here: who loses a race for the row throws, as one who stops does.  *)
EnsureAttendance(c) ==
  /\ publish[c].at = "attendance"
  /\ LET k == publish[c]
         there == copies[k.occ][k.copy].mark
         m == IF there = None THEN "UNMARKED" ELSE there
     IN /\ copies' = [copies EXCEPT ![k.occ][k.copy].mark = m]
        /\ Turn(c, [k EXCEPT !.at = "queue", !.mark = m])
  /\ UNCHANGED <<version, link, person, outbound, applied, mark, schoolVars,
                 sync, stops>>

Queue(c) ==
  /\ publish[c].at = "queue"
  /\ LET k == publish[c]
     IN /\ outbound' = Append(outbound,
             [occ |-> k.occ, copy |-> k.copy, version |-> k.image,
              mark |-> k.mark, people |-> k.ids, delivered |-> FALSE])
        /\ Turn(c, [k EXCEPT !.at = "done"])
  /\ UNCHANGED <<version, copies, link, person, applied, mark, schoolVars,
                 sync, stops>>

-----------------------------------------------------------------------------
(* syncLocal.                                                              *)

Step(y, k) == sync' = [sync EXCEPT ![y] = k]
Newest(S) == CHOOSE i \in S : \A j \in S : i >= j
Oldest(S) == CHOOSE i \in S : \A j \in S : i <= j
Rest(y, more, after) ==
  LET left == sync[y].todo \ {Oldest(sync[y].todo)}
  IN IF left = {} THEN [at |-> after, todo |-> {}] ELSE [at |-> more, todo |-> left]

Waiting(y) ==
  /\ sync[y].at = "idle"
  /\ LET S == {i \in DOMAIN outbound : ~outbound[i].delivered}
     IN Step(y, [at |-> IF S = {} THEN "collect" ELSE "deliver", todo |-> S])
  /\ UNCHANGED <<opsVars, schoolVars, publish, stops>>

(* applySessionPayload, one transaction: the session row is written over,  *)
(* an attendance row that is there is left alone, and a person the school  *)
(* does not have stops the run.                                            *)
Welcome(ch) == \A x \in ch.people : x[2] = "main" /\ x[1] \in known

StoredOnce(rows, ch) ==
  IF \E r \in rows : r.copy = ch.copy THEN rows
  ELSE rows \cup {[copy |-> ch.copy, version |-> ch.version, mark |-> ch.mark]}

StoredOver(rows, ch) ==
  {r \in rows : r.copy # ch.copy}
    \cup {[copy |-> ch.copy, version |-> ch.version, mark |-> ch.mark]}

Stored(rows, ch) ==
  {r \in rows : r.copy # ch.copy}
    \cup {[copy |-> ch.copy, version |-> ch.version,
           mark |-> IF \E r \in rows : r.copy = ch.copy
                    THEN (CHOOSE r \in rows : r.copy = ch.copy).mark
                    ELSE ch.mark]}

DeliverSkipping(y) ==
  /\ sync[y].at = "deliver"
  /\ LET ch == outbound[Oldest(sync[y].todo)]
     IN school' = IF Welcome(ch)
                  THEN [school EXCEPT ![ch.occ] = Stored(@, ch)] ELSE school
  /\ Step(y, [sync[y] EXCEPT !.at = "mark"])
  /\ UNCHANGED <<opsVars, known, marked, publish, stops>>

Deliver(y) ==
  /\ sync[y].at = "deliver"
  /\ LET ch == outbound[Oldest(sync[y].todo)]
     IN IF Welcome(ch)
        THEN /\ school' = [school EXCEPT ![ch.occ] = Stored(@, ch)]
             /\ Step(y, [sync[y] EXCEPT !.at = "mark"])
        ELSE Step(y, Asleep) /\ UNCHANGED school
  /\ UNCHANGED <<opsVars, known, marked, publish, stops>>

DeliveredAt(y) ==
  /\ sync[y].at = "mark"
  /\ outbound' = [outbound EXCEPT ![Oldest(sync[y].todo)].delivered = TRUE]
  /\ Step(y, Rest(y, "deliver", "collect"))
  /\ UNCHANGED <<version, copies, link, person, applied, mark, schoolVars,
                 publish, stops>>

Collect(y) ==
  /\ sync[y].at = "collect"
  /\ LET S == {i \in DOMAIN marked : ~marked[i].acked}
     IN Step(y, IF S = {} THEN Asleep ELSE [at |-> "seen", todo |-> S])
  /\ UNCHANGED <<opsVars, schoolVars, publish, stops>>

(* applyInboundAttendance: a mark seen before is only acknowledged again;  *)
(* else it is stored on the shared copy, on the participant, and at last   *)
(* remembered, where a source remembered meanwhile makes the insert throw. *)
SeenNever(y) ==
  /\ sync[y].at = "seen"
  /\ Step(y, [sync[y] EXCEPT !.at = "shared"])
  /\ UNCHANGED <<opsVars, schoolVars, publish, stops>>

Seen(y) ==
  /\ sync[y].at = "seen"
  /\ Step(y, [sync[y] EXCEPT !.at = IF Oldest(sync[y].todo) \in applied
                                    THEN "ack" ELSE "shared"])
  /\ UNCHANGED <<opsVars, schoolVars, publish, stops>>

StoreShared(y) ==
  /\ sync[y].at = "shared"
  /\ LET m == marked[Oldest(sync[y].todo)]
     IN copies' = [copies EXCEPT ![m.occ][m.copy].mark = m.status]
  /\ Step(y, [sync[y] EXCEPT !.at = "ops"])
  /\ UNCHANGED <<version, link, person, outbound, applied, mark, schoolVars,
                 publish, stops>>

StoreOps(y) ==
  /\ sync[y].at = "ops"
  /\ LET m == marked[Oldest(sync[y].todo)]
     IN mark' = IF link[m.occ] = m.copy
                THEN [mark EXCEPT ![m.occ] =
                        [status |-> m.status, by |-> "school"]]
                ELSE mark
  /\ Step(y, [sync[y] EXCEPT !.at = "applied"])
  /\ UNCHANGED <<version, copies, link, person, outbound, applied, schoolVars,
                 publish, stops>>

Remember(y) ==
  /\ sync[y].at = "applied"
  /\ LET i == Oldest(sync[y].todo)
     IN IF i \in applied
        THEN Step(y, Asleep) /\ UNCHANGED applied
        ELSE /\ applied' = applied \cup {i}
             /\ Step(y, [sync[y] EXCEPT !.at = "ack"])
  /\ UNCHANGED <<version, copies, link, person, outbound, mark, schoolVars,
                 publish, stops>>

Acknowledge(y) ==
  /\ sync[y].at = "ack"
  /\ marked' = [marked EXCEPT ![Oldest(sync[y].todo)].acked = TRUE]
  /\ Step(y, Rest(y, "seen", "idle"))
  /\ UNCHANGED <<opsVars, known, school, publish, stops>>

-----------------------------------------------------------------------------
(* Around them.                                                            *)

(* markAttendance, by hand.                                                *)
HandMark(o, s) ==
  /\ version[o] > 0
  /\ mark' = [mark EXCEPT ![o] = [status |-> s, by |-> "ops"]]
  /\ UNCHANGED <<version, copies, link, person, outbound, applied, schoolVars,
                 publish, sync, stops>>

(* The school application marks a student on a session it has.             *)
SchoolMarks(o, s) ==
  /\ Len(marked) < MaxMarks
  /\ \E r \in school[o] :
       /\ school' = [school EXCEPT ![o] =
                       (@ \ {r}) \cup {[r EXCEPT !.mark = s]}]
       /\ marked' = Append(marked, [occ |-> o, copy |-> r.copy, status |-> s,
                                    acked |-> FALSE])
  /\ UNCHANGED <<opsVars, known, publish, sync, stops>>

(* db:link-schools for one of its cast: the main database has the person   *)
(* from then on, and so has this one, unless it already made up an id;     *)
(* the link is the statement after.                                        *)
EnsureUser(p) ==
  /\ known' = known \cup {p}
  /\ person' = IF person[p].row = None THEN [person EXCEPT ![p].row = "main"]
               ELSE person
  /\ UNCHANGED <<version, copies, link, outbound, applied, mark, school, marked,
                 publish, sync, stops>>

LinkUser(p) ==
  /\ person[p] = [row |-> "main", link |-> None]
  /\ person' = [person EXCEPT ![p].link = "main"]
  /\ UNCHANGED <<version, copies, link, outbound, applied, mark, schoolVars,
                 publish, sync, stops>>

(* A request or a run stops between two statements, or one of them throws. *)
StopPublish(c) ==
  /\ stops < MaxStops /\ Busy(c)
  /\ stops' = stops + 1
  /\ Turn(c, [publish[c] EXCEPT !.at = "dead"])
  /\ UNCHANGED <<opsVars, schoolVars, sync>>

StopSync(y) ==
  /\ stops < MaxStops /\ sync[y].at # "idle"
  /\ stops' = stops + 1
  /\ Step(y, Asleep)
  /\ UNCHANGED <<opsVars, schoolVars, publish>>

Publish(c) ==
  \/ Change(c) \/ Read(c) \/ FindPerson(c) \/ CreatePerson(c) \/ LinkPerson(c)
  \/ Refresh(c) \/ Create(c) \/ Link(c) \/ EnsureAttendance(c) \/ Queue(c)

Sync(y) ==
  \/ Waiting(y) \/ Deliver(y) \/ DeliveredAt(y) \/ Collect(y) \/ Seen(y)
  \/ StoreShared(y) \/ StoreOps(y) \/ Remember(y) \/ Acknowledge(y)

LinkCast(p) == EnsureUser(p) \/ LinkUser(p)

Next ==
  \/ \E c \in Publishers : Publish(c) \/ StopPublish(c)
  \/ \E y \in Syncs : Sync(y) \/ StopSync(y)
  \/ \E o \in Occ, s \in Mark : HandMark(o, s) \/ SchoolMarks(o, s)
  \/ \E p \in Cast : LinkCast(p)

Spec == Init /\ [][Next]_vars

(* Somebody runs sync:local, and db:link-schools, again and again.         *)
FairSpec == /\ Spec
            /\ \A y \in Syncs : WF_vars(Sync(y))
            /\ \A p \in Cast : WF_vars(LinkCast(p))
-----------------------------------------------------------------------------
(* Properties.                                                             *)

TypeOK ==
  /\ version \in [Occ -> Nat]
  /\ copies \in [Key -> Seq(CopyRow)]
  /\ link \in [Key -> Nat]
  /\ person \in [Person -> [row : SharedId \cup {None},
                           link : SharedId \cup {None}]]
  /\ outbound \in Seq(OutboundRow)
  /\ known \subseteq Person
  /\ school \in [Occ -> SUBSET SchoolSession]
  /\ marked \in Seq(MarkRow)
  /\ applied \subseteq DOMAIN marked
  /\ mark \in [Occ -> [status : Mark, by : {"nobody", "ops", "school"}]]
  /\ publish \in [Publishers -> PublishState]
  /\ sync \in [Syncs -> SyncState]
  /\ stops \in 0..MaxStops

(* One occurrence is one session at the school, under one id, whatever     *)
(* rows requests that raced or stopped left behind: what is queued and     *)
(* what is delivered is the linked copy.                                   *)
OneCopy ==
  /\ \A i \in DOMAIN outbound : outbound[i].copy = link[outbound[i].occ]
  /\ \A o \in Occ : \A r \in school[o] : r.copy = link[o]

(* Delivery leaves alone an attendance row that is already there: only the *)
(* school changes its marks.                                               *)
SchoolMarkKept ==
  [][\A o \in Occ : \A r \in school[o] :
       \/ \E q \in school'[o] : q.copy = r.copy /\ q.mark = r.mark
       \/ marked' # marked]_vars

(* Nothing is ticked off that was not done, wherever a run stopped: a      *)
(* change marked delivered is at the school, a mark acknowledged is        *)
(* remembered, and a mark remembered has reached copy and participant.     *)
NothingSkipped ==
  /\ \A i \in DOMAIN outbound : outbound[i].delivered =>
       \E r \in school[outbound[i].occ] : r.copy = outbound[i].copy
  /\ \A i \in DOMAIN marked : marked[i].acked => i \in applied
  /\ \A i \in applied : /\ copies[marked[i].occ][marked[i].copy].mark # None
                       /\ mark[marked[i].occ].by # "nobody"

(* With one run at a time and requests one after another, a session at the *)
(* school never goes back to what it said before, redeliveries included ...*)
SchoolNeverGoesBack ==
  [][\A o \in Occ : \A r \in school[o], q \in school'[o] :
       r.copy = q.copy => r.version <= q.version]_vars

(* ... a queue delivered to the end has brought it up to date ...          *)
SchoolAgrees ==
  /\ \A i \in DOMAIN outbound : outbound[i].delivered
  /\ \A c \in Publishers : publish[c].at \in {"idle", "done"}
  => \A o \in Occ : version[o] > 0 =>
       \E r \in school[o] : r.version = version[o]

(* ... and once every mark is acknowledged, the shared copy shows the last *)
(* one the school made, and so does the participant unless somebody marked *)
(* it here.                                                                *)
MarksAgree ==
  (\A i \in DOMAIN marked : marked[i].acked) =>
    \A i \in DOMAIN marked :
      (\A j \in DOMAIN marked : j > i => marked[j].occ # marked[i].occ)
      => LET m == marked[i]
         IN /\ copies[m.occ][m.copy].mark = m.status
            /\ mark[m.occ].by = "school" => mark[m.occ].status = m.status

(* With one run at a time the queue is a Courier, however requests overlap *)
(* and wherever they or the run stop: changes reach the school oldest      *)
(* first, are delivered again only while none after them was, and are      *)
(* ticked off only while the school says what they do; nothing else, the   *)
(* school's own marks included, changes what it says of a session.         *)
Posted == [i \in DOMAIN outbound |-> [to |-> outbound[i].occ,
                                      says |-> outbound[i].version]]
Ticked == {i \in DOMAIN outbound : outbound[i].delivered}
Held == [o \in Occ |-> {r.version : r \in school[o]}]

Carried == INSTANCE Courier WITH Address <- Occ, posted <- Posted,
                                 ticked <- Ticked, held <- Held
ImplementsCourier == Carried!Spec

(* With everybody linked, what is queued is in the end delivered, and what *)
(* the school marked acknowledged, as long as sync:local is run: no stop   *)
(* leaves a change or a mark that every later run trips over.              *)
QueueDrains ==
  \A i \in 1..Cardinality(Publishers) :
    i <= Len(outbound) ~> i <= Len(outbound) /\ outbound[i].delivered
MarksArrive ==
  \A i \in 1..MaxMarks :
    i <= Len(marked) ~> i <= Len(marked) /\ marked[i].acked
EverythingArrives == QueueDrains /\ MarksArrive
=============================================================================
