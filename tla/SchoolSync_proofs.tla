-------------------------- MODULE SchoolSync_proofs -------------------------
(***************************************************************************)
(* What SchoolSync guarantees for any sessions and people, any number of   *)
(* requests and of runs of sync:local side by side, stops included; and    *)
(* what more it guarantees when they come one at a time.                   *)
(***************************************************************************)
EXTENDS SchoolSync, FiniteSetTheorems, SequenceTheorems, TLAPS

-----------------------------------------------------------------------------
(* The inductive invariant.                                                *)

(* A link names a row there is.                                            *)
LinksNameRows == \A x \in Key : link[x] <= Len(copies[x])

(* A request stands on an occurrence; the row it has made is there, and    *)
(* past the links the copy it works on is the linked one.                  *)
Standing(k, rows, to) ==
  /\ k.at \notin {"idle", "done", "failed", "dead"} => k.occ \in Occ
  /\ k.at = "person" => k.who \in Person
  /\ k.at \in {"podlink", "sessionlink"} =>
       k.copy \in 1 .. Len(rows[KeyOf(k)])
  /\ k.at \in {"attendance", "queue"} => /\ k.copy = to[k.occ]
                                         /\ to[k.occ] # 0

(* What travels names the linked copy, and a session is at the school once.*)
TravelsLinked ==
  /\ \A i \in DOMAIN outbound : /\ outbound[i].copy = link[outbound[i].occ]
                                /\ link[outbound[i].occ] # 0
  /\ \A o \in Occ : \A r \in school[o] : r.copy = link[o] /\ link[o] # 0
  /\ \A o \in Occ : \A r, q \in school[o] : r = q
  /\ \A i \in DOMAIN marked : /\ marked[i].copy = link[marked[i].occ]
                              /\ link[marked[i].occ] # 0

(* How far a change, and a mark, has got.                                  *)
AtSchool(i) == \E r \in school[outbound[i].occ] : r.copy = outbound[i].copy
OnCopy(i) == copies[marked[i].occ][marked[i].copy].mark # None
OnParticipant(i) == mark[marked[i].occ].by # "nobody"

(* A run has somewhere to go on from, and what stands before the statement *)
(* it is at has been done.                                                 *)
Running(s) ==
  /\ s.at \in {"deliver", "mark"} =>
       s.todo # {} /\ s.todo \subseteq DOMAIN outbound
  /\ s.at \in {"seen", "shared", "ops", "applied", "ack"} =>
       s.todo # {} /\ s.todo \subseteq DOMAIN marked
  /\ s.at = "mark" => AtSchool(Oldest(s.todo))
  /\ s.at \in {"ops", "applied"} => OnCopy(Oldest(s.todo))
  /\ s.at = "applied" => OnParticipant(Oldest(s.todo))
  /\ s.at = "ack" => Oldest(s.todo) \in applied

SyncInv ==
  /\ TypeOK
  /\ LinksNameRows
  /\ \A c \in Publishers : Standing(publish[c], copies, link)
  /\ TravelsLinked
  /\ \A y \in Syncs : Running(sync[y])
  /\ NothingSkipped

-----------------------------------------------------------------------------
(* Facts about data.                                                       *)

(* A nonempty set of naturals has a least element: the initial segments of *)
(* its members are finite sets, and strict inclusion of those is           *)
(* well-founded.                                                           *)
LEMMA LeastOf ==
  ASSUME NEW S \in SUBSET Nat, S # {}
  PROVE  \E i \in S : \A j \in S : i <= j
<1> DEFINE T == {1 .. n : n \in S}
<1>1. T \subseteq FiniteSubsetsOf(Nat) /\ T # {}
  <2>1. ASSUME NEW n \in S PROVE 1 .. n \in FiniteSubsetsOf(Nat)
    <3>1. 1 .. n \in SUBSET Nat
      OBVIOUS
    <3>2. IsFiniteSet(1 .. n)
      BY FS_Interval
    <3> QED
      BY <3>1, <3>2 DEF FiniteSubsetsOf
  <2> QED
    BY <2>1
<1>2. PICK s \in T : \A t \in T : <<t, s>> \notin StrictSubsetOrdering(Nat)
  BY <1>1, FS_StrictSubsetOrderingWellFounded, WFMin
<1>3. PICK i \in S : s = 1 .. i
  OBVIOUS
<1>4. ASSUME NEW j \in S, j < i PROVE FALSE
  <2>1. 1 .. j \subseteq 1 .. i /\ i \in (1 .. i) \ (1 .. j)
    BY <1>4
  <2>2. <<1 .. j, 1 .. i>> \in StrictSubsetOrdering(Nat)
    BY <2>1 DEF StrictSubsetOrdering
  <2> QED
    BY <1>2, <1>3, <2>2
<1> QED
  BY <1>4

(* Oldest picks a member.                                                  *)
LEMMA OldestIn ==
  ASSUME NEW S \in SUBSET Nat, S # {}
  PROVE  Oldest(S) \in S
BY LeastOf DEF Oldest

-----------------------------------------------------------------------------
(* No statement takes back what an earlier one did.                        *)
RowsStay ==
  \A x \in Key : /\ Len(copies[x]) <= Len(copies'[x])
                 /\ \A n \in 1 .. Len(copies[x]) :
                      copies[x][n].mark # None => copies'[x][n].mark # None
LinksStay == \A x \in Key : link[x] # 0 => link'[x] = link[x]
QueueStays ==
  \A i \in DOMAIN outbound : /\ i \in DOMAIN outbound'
                             /\ outbound'[i].occ = outbound[i].occ
                             /\ outbound'[i].copy = outbound[i].copy
MarksStay ==
  \A i \in DOMAIN marked : /\ i \in DOMAIN marked'
                           /\ marked'[i].occ = marked[i].occ
                           /\ marked'[i].copy = marked[i].copy
SessionsStay ==
  \A o \in Occ : \A r \in school[o] : \E q \in school'[o] : q.copy = r.copy
AppliedStays == applied \subseteq applied'
ParticipantsStay ==
  \A o \in Occ : mark[o].by # "nobody" => mark'[o].by # "nobody"

Grown == /\ RowsStay /\ LinksStay /\ QueueStays /\ MarksStay
         /\ SessionsStay /\ AppliedStays /\ ParticipantsStay

(* What stands still stays.                                                *)
LEMMA StillStays ==
  /\ UNCHANGED copies => RowsStay
  /\ UNCHANGED link => LinksStay
  /\ UNCHANGED outbound => QueueStays
  /\ UNCHANGED marked => MarksStay
  /\ UNCHANGED school => SessionsStay
  /\ UNCHANGED applied => AppliedStays
  /\ UNCHANGED mark => ParticipantsStay
<1>1. UNCHANGED copies => RowsStay
  BY DEF RowsStay
<1>2. UNCHANGED link => LinksStay
  BY DEF LinksStay
<1>3. UNCHANGED outbound => QueueStays
  BY DEF QueueStays
<1>4. UNCHANGED marked => MarksStay
  BY DEF MarksStay
<1>5. UNCHANGED school => SessionsStay
  BY DEF SessionsStay
<1> QED
  BY <1>1, <1>2, <1>3, <1>4, <1>5 DEF AppliedStays, ParticipantsStay

-----------------------------------------------------------------------------
(* Every statement keeps the types and takes nothing back.                 *)

(* Where a request and a run stand.                                        *)
LEMMA Stands ==
  ASSUME SyncInv, NEW c \in Publishers
  PROVE  /\ publish[c] \in PublishState
         /\ Standing(publish[c], copies, link)
BY DEF SyncInv, TypeOK

LEMMA Runs ==
  ASSUME SyncInv, NEW y \in Syncs
  PROVE  /\ sync[y] \in SyncState /\ Running(sync[y])
         /\ sync[y].todo # {} => Oldest(sync[y].todo) \in sync[y].todo
BY OldestIn DEF SyncInv, TypeOK, SyncState

(* A request and a run that go on to a state of one.                       *)
LEMMA TurnTyped ==
  ASSUME SyncInv, NEW c \in Publishers, NEW k \in PublishState, Turn(c, k)
  PROVE  /\ publish' \in [Publishers -> PublishState]
         /\ publish'[c] = k
         /\ \A d \in Publishers : d # c => publish'[d] = publish[d]
BY DEF SyncInv, TypeOK, Turn

LEMMA StepTyped ==
  ASSUME SyncInv, NEW y \in Syncs, NEW k \in SyncState, Step(y, k)
  PROVE  /\ sync' \in [Syncs -> SyncState]
         /\ sync'[y] = k
         /\ \A z \in Syncs : z # y => sync'[z] = sync[z]
BY DEF SyncInv, TypeOK, Step

(* The key a request writes, and the row it stands on when the key has one.*)
LEMMA KeyWritten ==
  ASSUME SyncInv, NEW c \in Publishers,
         publish[c].at \in {"pod", "podlink", "session", "sessionlink"}
  PROVE  /\ KeyOf(publish[c]) \in Key
         /\ copies[KeyOf(publish[c])] \in Seq(CopyRow)
         /\ link[KeyOf(publish[c])] \in 0 .. Len(copies[KeyOf(publish[c])])
         /\ publish[c].at = "session" => KeyOf(publish[c]) = publish[c].occ
<1>1. publish[c].occ \in Occ
  BY Stands DEF Standing
<1>2. KeyOf(publish[c]) \in Key
  BY <1>1, SyncAssumption DEF KeyOf, Key
<1> QED
  BY <1>2 DEF SyncInv, TypeOK, LinksNameRows, KeyOf

LEMMA ChangeTypes ==
  ASSUME SyncInv, NEW c \in Publishers, Change(c)
  PROVE  TypeOK' /\ Grown
<1>1. PICK o \in Occ : /\ version' = [version EXCEPT ![o] = @ + 1]
                       /\ Turn(c, [Fresh EXCEPT !.at = "read", !.occ = o])
  BY DEF Change
<1>2. [Fresh EXCEPT !.at = "read", !.occ = o] \in PublishState
  BY DEF Fresh, PublishState, Mark
<1>3. publish' \in [Publishers -> PublishState]
  BY <1>1, <1>2, TurnTyped
<1> QED
  BY <1>1, <1>3, StillStays
  DEF Change, SyncInv, TypeOK, schoolVars, Grown

LEMMA ReadTypes ==
  ASSUME SyncInv, NEW c \in Publishers, Read(c)
  PROVE  TypeOK' /\ Grown
<1> DEFINE k == [publish[c] EXCEPT !.at = "people",
                                   !.image = version[publish[c].occ],
                                   !.need = People[publish[c].occ]]
<1>1. publish[c].occ \in Occ
  BY Stands DEF Read, Standing
<1>2. version[publish[c].occ] \in Nat /\ People[publish[c].occ] \in SUBSET Person
  BY <1>1, SyncAssumption DEF SyncInv, TypeOK
<1>3. k \in PublishState
  BY <1>2, Stands DEF PublishState
<1>4. Turn(c, k)
  BY DEF Read
<1> HIDE DEF k
<1>5. publish' \in [Publishers -> PublishState]
  BY <1>3, <1>4, TurnTyped
<1> QED
  BY <1>5, StillStays
  DEF Read, SyncInv, TypeOK, schoolVars, opsVars, Grown

(* A person found, or linked, is named on the payload.                     *)
LEMMA NamedTyped ==
  ASSUME NEW k \in PublishState, NEW p \in Person, NEW id \in SharedId
  PROVE  Named(k, p, id) \in PublishState
<1> DEFINE at == IF k.need = {p} THEN "pod" ELSE "people"
           need == k.need \ {p}
           ids == k.ids \cup {<<p, id>>}
<1>1. /\ at \in {"pod", "people"} /\ need \in SUBSET Person
      /\ ids \in SUBSET (Person \X SharedId)
  BY DEF PublishState
<1>2. Named(k, p, id) = [k EXCEPT !.at = at, !.need = need, !.who = None,
                                  !.ids = ids]
  BY DEF Named
<1> HIDE DEF at, need, ids
<1> QED
  BY <1>1, <1>2 DEF PublishState

LEMMA FailTyped ==
  ASSUME SyncInv, NEW c \in Publishers, Fail(c)
  PROVE  /\ publish' \in [Publishers -> PublishState]
         /\ publish'[c].at = "failed"
<1>1. [publish[c] EXCEPT !.at = "failed"] \in PublishState
  BY Stands DEF PublishState
<1> QED
  BY <1>1, Stands, TurnTyped DEF Fail, PublishState

LEMMA FindPersonTypes ==
  ASSUME SyncInv, NEW c \in Publishers, FindPerson(c)
  PROVE  TypeOK' /\ Grown
<1>1. PICK p \in publish[c].need : /\ person[p].link # None
                                   /\ Turn(c, Named(publish[c], p, person[p].link))
  BY DEF FindPerson
<1>2. p \in Person
  BY Stands DEF PublishState
<1>3. person[p].link \in SharedId
  BY <1>1, <1>2 DEF SyncInv, TypeOK
<1>4. Named(publish[c], p, person[p].link) \in PublishState
  BY <1>2, <1>3, Stands, NamedTyped
<1>5. publish' \in [Publishers -> PublishState]
  BY <1>1, <1>4, TurnTyped
<1> QED
  BY <1>5, StillStays
  DEF FindPerson, SyncInv, TypeOK, schoolVars, opsVars, Grown

LEMMA CreatePersonTypes ==
  ASSUME SyncInv, NEW c \in Publishers, CreatePerson(c)
  PROVE  TypeOK' /\ Grown
<1>1. PICK p \in publish[c].need :
        IF person[p].row = None
        THEN /\ person' = [person EXCEPT ![p].row = "ops"]
             /\ Turn(c, [publish[c] EXCEPT !.at = "person", !.who = p])
        ELSE Fail(c) /\ UNCHANGED person
  BY DEF CreatePerson
<1>2. p \in Person /\ [publish[c] EXCEPT !.at = "person", !.who = p] \in PublishState
  BY Stands DEF PublishState
<1>3. publish' \in [Publishers -> PublishState]
  BY <1>1, <1>2, TurnTyped, FailTyped
<1>4. person' \in [Person -> [row : SharedId \cup {None},
                            link : SharedId \cup {None}]]
  <2>1. CASE person[p].row = None
    <3>1. person' = [person EXCEPT ![p].row = "ops"]
      BY <1>1, <2>1
    <3> QED
      BY <1>2, <3>1 DEF SyncInv, TypeOK, SharedId
  <2>2. CASE person[p].row # None
    BY <1>1, <2>2 DEF SyncInv, TypeOK
  <2> QED
    BY <2>1, <2>2
<1> QED
  BY <1>3, <1>4, StillStays
  DEF CreatePerson, SyncInv, TypeOK, schoolVars, Grown

LEMMA LinkPersonTypes ==
  ASSUME SyncInv, NEW c \in Publishers, LinkPerson(c)
  PROVE  TypeOK' /\ Grown
<1> DEFINE p == publish[c].who
<1>1. p \in Person /\ "ops" \in SharedId
  BY Stands DEF LinkPerson, Standing, SharedId
<1>2. Named(publish[c], p, "ops") \in PublishState
  BY <1>1, Stands, NamedTyped
<1>3. publish' \in [Publishers -> PublishState]
  BY <1>2, TurnTyped, FailTyped DEF LinkPerson
<1>4. person' \in [Person -> [row : SharedId \cup {None},
                            link : SharedId \cup {None}]]
  <2>1. CASE person[p].link = None
    <3>1. person' = [person EXCEPT ![p].link = "ops"]
      BY <2>1 DEF LinkPerson
    <3> HIDE DEF p
    <3> QED
      BY <1>1, <3>1 DEF SyncInv, TypeOK, SharedId
  <2>2. CASE person[p].link # None
    BY <2>2 DEF LinkPerson, SyncInv, TypeOK
  <2> QED
    BY <2>1, <2>2
<1> QED
  BY <1>3, <1>4, StillStays
  DEF LinkPerson, SyncInv, TypeOK, schoolVars, Grown

(* One row of a key written over, with a mark where it had one; a row more.*)
LEMMA RowWritten ==
  ASSUME SyncInv, NEW x \in Key, NEW n \in 1 .. Len(copies[x]),
         NEW r \in CopyRow, copies[x][n].mark # None => r.mark # None,
         copies' = [copies EXCEPT ![x] = [copies[x] EXCEPT ![n] = r]]
  PROVE  /\ copies' \in [Key -> Seq(CopyRow)] /\ RowsStay
         /\ copies'[x][n] = r
<1> DEFINE q == [copies[x] EXCEPT ![n] = r]
<1>1. copies \in [Key -> Seq(CopyRow)] /\ copies[x] \in Seq(CopyRow)
  BY DEF SyncInv, TypeOK
<1>2. /\ q \in Seq(CopyRow) /\ Len(q) = Len(copies[x])
      /\ \A j \in 1 .. Len(copies[x]) : q[j] = IF j = n THEN r ELSE copies[x][j]
  BY <1>1, ExceptSeq
<1> HIDE DEF q
<1>3. copies' = [copies EXCEPT ![x] = q]
  BY DEF q
<1>4. copies' \in [Key -> Seq(CopyRow)] /\ copies'[x] = q
  BY <1>1, <1>2, <1>3
<1>5. \A z \in Key : z # x => copies'[z] = copies[z]
  BY <1>1, <1>3
<1>6. RowsStay
  <2> SUFFICES ASSUME NEW z \in Key
               PROVE  /\ Len(copies[z]) <= Len(copies'[z])
                      /\ \A j \in 1 .. Len(copies[z]) :
                           copies[z][j].mark # None => copies'[z][j].mark # None
    BY DEF RowsStay
  <2>1. Len(copies[z]) \in Nat
    BY <1>1, LenProperties
  <2>2. CASE z = x
    BY <1>2, <1>4, <2>1, <2>2
  <2>3. CASE z # x
    BY <1>5, <2>1, <2>3
  <2> QED
    BY <2>2, <2>3
<1> QED
  BY <1>2, <1>4, <1>6

LEMMA RowAdded ==
  ASSUME SyncInv, NEW x \in Key, NEW r \in CopyRow,
         copies' = [copies EXCEPT ![x] = Append(copies[x], r)]
  PROVE  /\ copies' \in [Key -> Seq(CopyRow)] /\ RowsStay
         /\ Len(copies[x]) \in Nat /\ Len(copies'[x]) = Len(copies[x]) + 1
<1> DEFINE q == Append(copies[x], r)
<1>1. copies \in [Key -> Seq(CopyRow)] /\ copies[x] \in Seq(CopyRow)
  BY DEF SyncInv, TypeOK
<1>2. /\ q \in Seq(CopyRow) /\ Len(q) = Len(copies[x]) + 1
      /\ \A j \in 1 .. Len(copies[x]) : q[j] = copies[x][j]
  BY <1>1, AppendProperties
<1> HIDE DEF q
<1>3. copies' = [copies EXCEPT ![x] = q]
  BY DEF q
<1>4. copies' \in [Key -> Seq(CopyRow)] /\ copies'[x] = q
  BY <1>1, <1>2, <1>3
<1>5. \A z \in Key : z # x => copies'[z] = copies[z]
  BY <1>1, <1>3
<1>6. \A z \in Key : Len(copies[z]) \in Nat
  BY <1>1, LenProperties
<1>7. RowsStay
  <2> SUFFICES ASSUME NEW z \in Key
               PROVE  /\ Len(copies[z]) <= Len(copies'[z])
                      /\ \A j \in 1 .. Len(copies[z]) :
                           copies[z][j].mark # None => copies'[z][j].mark # None
    BY DEF RowsStay
  <2>1. CASE z = x
    BY <1>2, <1>4, <1>6, <2>1
  <2>2. CASE z # x
    BY <1>5, <1>6, <2>2
  <2> QED
    BY <2>1, <2>2
<1> QED
  BY <1>2, <1>4, <1>6, <1>7

LEMMA KeptTyped ==
  ASSUME NEW k \in PublishState, NEW n \in Nat
  PROVE  Kept(k, n) \in PublishState
BY DEF Kept, PublishState

LEMMA RefreshTypes ==
  ASSUME SyncInv, NEW c \in Publishers, Refresh(c)
  PROVE  TypeOK' /\ Grown
<1> DEFINE k == publish[c]
           x == KeyOf(publish[c])
           n == link[KeyOf(publish[c])]
           r == [copies[x][n] EXCEPT !.version = k.image]
<1>1. /\ x \in Key /\ copies[x] \in Seq(CopyRow)
      /\ n \in 1 .. Len(copies[x]) /\ n \in Nat
  BY KeyWritten DEF Refresh
<1>2. copies[x][n] \in CopyRow
  BY <1>1, ElementOfSeq
<1>3. r \in CopyRow /\ r.mark = copies[x][n].mark
  BY <1>2, Stands DEF CopyRow, PublishState
<1>4. copies' = [copies EXCEPT ![x] = [copies[x] EXCEPT ![n] = r]]
  BY DEF Refresh
<1>5. Turn(c, Kept(k, n))
  BY DEF Refresh
<1>6. Kept(k, n) \in PublishState
  BY <1>1, Stands, KeptTyped
<1>7. publish' \in [Publishers -> PublishState]
  BY <1>5, <1>6, TurnTyped
<1> HIDE DEF x, n, r
<1>8. copies' \in [Key -> Seq(CopyRow)] /\ RowsStay
  BY <1>1, <1>3, <1>4, RowWritten
<1> QED
  BY <1>7, <1>8, StillStays
  DEF Refresh, SyncInv, TypeOK, schoolVars, Grown

LEMMA CreateTypes ==
  ASSUME SyncInv, NEW c \in Publishers, Create(c)
  PROVE  TypeOK' /\ Grown
<1> DEFINE k == publish[c]
           x == KeyOf(publish[c])
           r == [version |-> k.image, mark |-> None]
           to == IF k.at = "pod" THEN "podlink" ELSE "sessionlink"
           at == [k EXCEPT !.copy = Len(copies[x]) + 1, !.at = to]
<1>1. x \in Key /\ Len(copies[x]) \in Nat
  BY KeyWritten DEF Create
<1>2. r \in CopyRow
  BY Stands DEF CopyRow, PublishState
<1>3. copies' = [copies EXCEPT ![x] = Append(copies[x], r)]
  BY DEF Create
<1>4. Turn(c, at)
  BY DEF Create
<1>5. to \in {"podlink", "sessionlink"}
  OBVIOUS
<1>6. at \in PublishState
  <2>1. k \in PublishState /\ Len(copies[x]) + 1 \in Nat
    BY <1>1, Stands
  <2> HIDE DEF k, x, to
  <2> QED
    BY <1>5, <2>1 DEF PublishState
<1> HIDE DEF x, r, at
<1>7. publish' \in [Publishers -> PublishState]
  BY <1>4, <1>6, TurnTyped
<1>8. copies' \in [Key -> Seq(CopyRow)] /\ RowsStay
  BY <1>1, <1>2, <1>3, RowAdded
<1> QED
  BY <1>7, <1>8, StillStays
  DEF Create, SyncInv, TypeOK, schoolVars, Grown

LEMMA LinkTypes ==
  ASSUME SyncInv, NEW c \in Publishers, Link(c)
  PROVE  TypeOK' /\ Grown
<1> DEFINE k == publish[c]
           x == KeyOf(publish[c])
<1>1. x \in Key
  BY KeyWritten DEF Link
<1>2. k.copy \in Nat /\ Kept(k, k.copy) \in PublishState
  BY Stands, KeptTyped DEF PublishState
<1>3. publish' \in [Publishers -> PublishState]
  BY <1>2, TurnTyped, FailTyped DEF Link
<1>4. link' \in [Key -> Nat] /\ LinksStay
  <2>1. CASE link[x] = 0
    <3>1. link' = [link EXCEPT ![x] = k.copy]
      BY <2>1 DEF Link
    <3> HIDE DEF x
    <3> QED
      BY <1>1, <1>2, <2>1, <3>1 DEF SyncInv, TypeOK, LinksStay
  <2>2. CASE link[x] # 0
    BY <2>2, StillStays DEF Link, SyncInv, TypeOK
  <2> QED
    BY <2>1, <2>2
<1> QED
  BY <1>3, <1>4, StillStays
  DEF Link, SyncInv, TypeOK, schoolVars, Grown

LEMMA EnsureAttendanceTypes ==
  ASSUME SyncInv, NEW c \in Publishers, EnsureAttendance(c)
  PROVE  /\ TypeOK' /\ Grown
         /\ publish'[c].at = "queue" /\ publish'[c].occ = publish[c].occ
         /\ publish'[c].copy = publish[c].copy
<1> DEFINE k == publish[c]
           x == publish[c].occ
           n == publish[c].copy
           there == copies[x][n].mark
           m == IF there = None THEN "UNMARKED" ELSE there
           r == [copies[x][n] EXCEPT !.mark = m]
           at == [k EXCEPT !.at = "queue", !.mark = m]
<1>1. x \in Occ /\ x \in Key /\ n = link[x] /\ link[x] # 0
  BY Stands DEF EnsureAttendance, Standing, Key
<1>2. copies[x] \in Seq(CopyRow) /\ n \in 1 .. Len(copies[x])
  BY <1>1 DEF SyncInv, TypeOK, LinksNameRows
<1>3. copies[x][n] \in CopyRow
  BY <1>2, ElementOfSeq
<1>4. m \in Mark /\ there \in Mark \cup {None}
  BY <1>3 DEF CopyRow, Mark
<1>5. copies' = [copies EXCEPT ![x] = [copies[x] EXCEPT ![n] = r]]
  BY DEF EnsureAttendance
<1>6. Turn(c, at)
  BY DEF EnsureAttendance
<1>7. there # None => m = there
  OBVIOUS
<1> HIDE DEF x, n, there, m
<1>8. r \in CopyRow /\ r.mark = m
  BY <1>3, <1>4 DEF CopyRow
<1>9. copies[x][n].mark # None => r.mark # None
  BY <1>7, <1>8 DEF there
<1>10. /\ at \in PublishState /\ at.at = "queue" /\ at.occ = k.occ
       /\ at.copy = k.copy
  <2>1. k \in PublishState
    BY Stands
  <2> HIDE DEF k
  <2> QED
    BY <1>4, <2>1 DEF PublishState
<1> HIDE DEF r, at
<1>11. publish' \in [Publishers -> PublishState] /\ publish'[c] = at
  BY <1>6, <1>10, TurnTyped
<1>12. copies' \in [Key -> Seq(CopyRow)] /\ RowsStay
  BY <1>1, <1>2, <1>5, <1>8, <1>9, RowWritten
<1> QED
  BY <1>10, <1>11, <1>12, StillStays
  DEF EnsureAttendance, SyncInv, TypeOK, schoolVars, Grown

(* A change more in the queue.                                             *)
LEMMA QueueTypes ==
  ASSUME SyncInv, NEW c \in Publishers, Queue(c)
  PROVE  /\ TypeOK' /\ Grown
         /\ publish'[c].at = "done"
         /\ Len(outbound) \in Nat
         /\ DOMAIN outbound' = DOMAIN outbound \cup {Len(outbound) + 1}
         /\ \A i \in DOMAIN outbound : outbound'[i] = outbound[i]
         /\ LET ch == outbound'[Len(outbound) + 1]
            IN /\ ch.occ = publish[c].occ /\ ch.copy = publish[c].copy
               /\ ~ch.delivered
<1> DEFINE k == publish[c]
           ch == [occ |-> k.occ, copy |-> k.copy, version |-> k.image,
                  mark |-> k.mark, people |-> k.ids, delivered |-> FALSE]
           at == [k EXCEPT !.at = "done"]
<1>1. k.occ \in Occ /\ k \in PublishState
  BY Stands DEF Queue, Standing
<1>2. outbound' = Append(outbound, ch) /\ Turn(c, at)
  BY DEF Queue
<1>3. at \in PublishState /\ at.at = "done"
  BY <1>1 DEF PublishState
<1>4. ch \in OutboundRow
  BY <1>1 DEF PublishState, OutboundRow
<1>5. ch.occ = k.occ /\ ch.copy = k.copy /\ ~ch.delivered
  OBVIOUS
<1> HIDE DEF ch, at
<1>6. publish' \in [Publishers -> PublishState] /\ publish'[c] = at
  BY <1>2, <1>3, TurnTyped
<1>7. outbound \in Seq(OutboundRow)
  BY DEF SyncInv, TypeOK
<1>8. /\ outbound' \in Seq(OutboundRow) /\ Len(outbound) \in Nat
      /\ Len(outbound') = Len(outbound) + 1
      /\ \A i \in 1 .. Len(outbound) : outbound'[i] = outbound[i]
      /\ outbound'[Len(outbound) + 1] = ch
  BY <1>2, <1>4, <1>7, AppendProperties, LenProperties
<1>9. /\ DOMAIN outbound = 1 .. Len(outbound)
      /\ DOMAIN outbound' = 1 .. Len(outbound')
  BY <1>7, <1>8, LenProperties
<1>10. /\ DOMAIN outbound' = DOMAIN outbound \cup {Len(outbound) + 1}
       /\ \A i \in DOMAIN outbound : outbound'[i] = outbound[i]
  BY <1>8, <1>9
<1>11. QueueStays
  BY <1>10 DEF QueueStays
<1>12. TypeOK' /\ Grown
  BY <1>6, <1>8, <1>11, StillStays
  DEF Queue, SyncInv, TypeOK, schoolVars, Grown
<1> QED
  BY <1>3, <1>5, <1>6, <1>8, <1>10, <1>12

LEMMA StopPublishTypes ==
  ASSUME SyncInv, NEW c \in Publishers, StopPublish(c)
  PROVE  TypeOK' /\ Grown
<1>1. [publish[c] EXCEPT !.at = "dead"] \in PublishState
  BY Stands DEF PublishState
<1>2. publish' \in [Publishers -> PublishState]
  BY <1>1, TurnTyped DEF StopPublish
<1>3. stops' \in 0 .. MaxStops
  BY SyncAssumption DEF StopPublish, SyncInv, TypeOK
<1> QED
  BY <1>2, <1>3, StillStays
  DEF StopPublish, SyncInv, TypeOK, schoolVars, opsVars, Grown

-----------------------------------------------------------------------------
(* The run's statements.                                                   *)

(* What is left to do after one is done.                                   *)
LEMMA RestTyped ==
  ASSUME SyncInv, NEW y \in Syncs,
         NEW more \in {"deliver", "seen"}, NEW after \in {"collect", "idle"},
         Step(y, Rest(y, more, after))
  PROVE  /\ sync' \in [Syncs -> SyncState]
         /\ \/ sync'[y].at = after
            \/ /\ sync'[y].at = more /\ sync'[y].todo # {}
               /\ sync'[y].todo \subseteq sync[y].todo
<1> DEFINE left == sync[y].todo \ {Oldest(sync[y].todo)}
           k == Rest(y, more, after)
<1>1. left \in SUBSET Nat /\ left \subseteq sync[y].todo
  BY Runs DEF SyncState
<1>2. k = IF left = {} THEN [at |-> after, todo |-> {}]
          ELSE [at |-> more, todo |-> left]
  BY DEF Rest
<1> HIDE DEF left, k
<1>3. k \in SyncState
  BY <1>1, <1>2 DEF SyncState
<1>4. sync' \in [Syncs -> SyncState] /\ sync'[y] = k
  BY <1>3, StepTyped DEF k
<1>5. CASE left = {}
  <2>1. k.at = after
    BY <1>2, <1>5
  <2> QED
    BY <1>4, <2>1
<1>6. CASE left # {}
  <2>1. k.at = more /\ k.todo = left
    BY <1>2, <1>6
  <2> QED
    BY <1>1, <1>4, <1>6, <2>1
<1> QED
  BY <1>5, <1>6

(* A run that goes on to its next statement with the same things to do, or *)
(* that ends.                                                              *)
LEMMA OnTyped ==
  ASSUME SyncInv, NEW y \in Syncs,
         NEW at \in {"mark", "shared", "ops", "applied", "ack"},
         Step(y, [sync[y] EXCEPT !.at = at])
  PROVE  /\ sync' \in [Syncs -> SyncState]
         /\ sync'[y].at = at /\ sync'[y].todo = sync[y].todo
<1>1. sync[y] \in SyncState
  BY Runs
<1>2. /\ [sync[y] EXCEPT !.at = at] \in SyncState
      /\ [sync[y] EXCEPT !.at = at].at = at
      /\ [sync[y] EXCEPT !.at = at].todo = sync[y].todo
  BY <1>1 DEF SyncState
<1> QED
  BY <1>2, StepTyped

LEMMA AsleepTyped ==
  ASSUME SyncInv, NEW y \in Syncs, Step(y, Asleep)
  PROVE  sync' \in [Syncs -> SyncState] /\ sync'[y].at = "idle"
<1>1. Asleep \in SyncState /\ Asleep.at = "idle"
  BY DEF Asleep, SyncState
<1> QED
  BY <1>1, StepTyped

(* The change, and the mark, a run is at.                                  *)
LEMMA ChangeAtHand ==
  ASSUME SyncInv, NEW y \in Syncs, sync[y].at \in {"deliver", "mark"}
  PROVE  /\ Oldest(sync[y].todo) \in DOMAIN outbound
         /\ outbound[Oldest(sync[y].todo)] \in OutboundRow
         /\ outbound[Oldest(sync[y].todo)].occ \in Occ
         /\ sync[y].todo \subseteq DOMAIN outbound
<1>1. Oldest(sync[y].todo) \in DOMAIN outbound /\ sync[y].todo \subseteq DOMAIN outbound
  BY Runs DEF Running
<1>2. outbound \in Seq(OutboundRow)
  BY DEF SyncInv, TypeOK
<1>3. outbound[Oldest(sync[y].todo)] \in OutboundRow
  BY <1>1, <1>2, LenProperties, ElementOfSeq
<1> QED
  BY <1>1, <1>3 DEF OutboundRow

LEMMA MarkAtHand ==
  ASSUME SyncInv, NEW i \in DOMAIN marked
  PROVE  /\ marked[i] \in MarkRow /\ marked[i].occ \in Occ
         /\ marked[i].occ \in Key /\ marked[i].status \in Mark
         /\ marked[i].copy = link[marked[i].occ]
         /\ marked[i].copy \in 1 .. Len(copies[marked[i].occ])
         /\ copies[marked[i].occ] \in Seq(CopyRow)
<1>1. marked \in Seq(MarkRow)
  BY DEF SyncInv, TypeOK
<1>2. marked[i] \in MarkRow
  BY <1>1, LenProperties, ElementOfSeq
<1>3. marked[i].occ \in Occ /\ marked[i].occ \in Key /\ marked[i].status \in Mark
  BY <1>2 DEF MarkRow, Key
<1>4. /\ marked[i].copy = link[marked[i].occ] /\ marked[i].copy # 0
      /\ link[marked[i].occ] <= Len(copies[marked[i].occ])
  BY <1>3 DEF SyncInv, TravelsLinked, LinksNameRows
<1>5. copies[marked[i].occ] \in Seq(CopyRow) /\ link[marked[i].occ] \in Nat
  BY <1>3 DEF SyncInv, TypeOK
<1> QED
  BY <1>2, <1>3, <1>4, <1>5

LEMMA MarkOf ==
  ASSUME SyncInv, NEW y \in Syncs,
         sync[y].at \in {"seen", "shared", "ops", "applied", "ack"}
  PROVE  /\ Oldest(sync[y].todo) \in DOMAIN marked
         /\ sync[y].todo \subseteq DOMAIN marked
BY Runs DEF Running

LEMMA WaitingTypes ==
  ASSUME SyncInv, NEW y \in Syncs, Waiting(y)
  PROVE  /\ TypeOK' /\ Grown
         /\ \/ sync'[y].at = "collect"
            \/ /\ sync'[y].at = "deliver" /\ sync'[y].todo # {}
               /\ sync'[y].todo \subseteq DOMAIN outbound
<1> DEFINE S == {i \in DOMAIN outbound : ~outbound[i].delivered}
           k == [at |-> IF S = {} THEN "collect" ELSE "deliver", todo |-> S]
<1>1. S \in SUBSET Nat /\ S \subseteq DOMAIN outbound
  BY LenProperties DEF SyncInv, TypeOK
<1>2. Step(y, k)
  BY DEF Waiting
<1>3. /\ k \in SyncState /\ k.todo = S
      /\ k.at = "collect" \/ (k.at = "deliver" /\ S # {})
  <2> HIDE DEF S
  <2> QED
    BY <1>1 DEF SyncState
<1> HIDE DEF S, k
<1>4. sync' \in [Syncs -> SyncState] /\ sync'[y] = k
  BY <1>2, <1>3, StepTyped
<1>5. TypeOK' /\ Grown
  BY <1>4, StillStays DEF Waiting, SyncInv, TypeOK, opsVars, schoolVars, Grown
<1> QED
  BY <1>1, <1>3, <1>4, <1>5

LEMMA CollectTypes ==
  ASSUME SyncInv, NEW y \in Syncs, Collect(y)
  PROVE  /\ TypeOK' /\ Grown
         /\ \/ sync'[y].at = "idle"
            \/ /\ sync'[y].at = "seen" /\ sync'[y].todo # {}
               /\ sync'[y].todo \subseteq DOMAIN marked
<1> DEFINE S == {i \in DOMAIN marked : ~marked[i].acked}
           k == IF S = {} THEN Asleep ELSE [at |-> "seen", todo |-> S]
<1>1. S \in SUBSET Nat /\ S \subseteq DOMAIN marked
  BY LenProperties DEF SyncInv, TypeOK
<1>2. Step(y, k)
  BY DEF Collect
<1>3. /\ k \in SyncState
      /\ k.at = "idle" \/ (k.at = "seen" /\ k.todo = S /\ S # {})
  <2> HIDE DEF S
  <2> QED
    BY <1>1 DEF SyncState, Asleep
<1> HIDE DEF S, k
<1>4. sync' \in [Syncs -> SyncState] /\ sync'[y] = k
  BY <1>2, <1>3, StepTyped
<1>5. TypeOK' /\ Grown
  BY <1>4, StillStays DEF Collect, SyncInv, TypeOK, opsVars, schoolVars, Grown
<1> QED
  BY <1>1, <1>3, <1>4, <1>5

(* Storing a change where the school has at most the one session of its    *)
(* copy: the session is written over and its mark is left alone.           *)
LEMMA StoredOne ==
  ASSUME NEW rows \in SUBSET SchoolSession, NEW ch \in OutboundRow,
         \A r, q \in rows : r = q, \A r \in rows : r.copy = ch.copy
  PROVE  \E s \in SchoolSession : /\ Stored(rows, ch) = {s} /\ s.copy = ch.copy
                                 /\ s.version = ch.version
                                 /\ \A r \in rows : r.mark = s.mark
<1> DEFINE m == IF \E r \in rows : r.copy = ch.copy
                THEN (CHOOSE r \in rows : r.copy = ch.copy).mark ELSE ch.mark
           s == [copy |-> ch.copy, version |-> ch.version, mark |-> m]
<1>1. {r \in rows : r.copy # ch.copy} = {}
  OBVIOUS
<1>2. Stored(rows, ch) = {s}
  BY <1>1 DEF Stored
<1>3. m \in Mark /\ \A r \in rows : r.mark = m
  <2>1. CASE rows = {}
    BY <2>1 DEF OutboundRow
  <2>2. CASE rows # {}
    <3>1. PICK r \in rows : TRUE
      BY <2>2
    <3>2. (CHOOSE q \in rows : q.copy = ch.copy) = r
      BY <3>1
    <3>3. m = r.mark
      BY <3>1, <3>2
    <3> QED
      BY <3>1, <3>3 DEF SchoolSession
  <2> QED
    BY <2>1, <2>2
<1> HIDE DEF m
<1>4. /\ s \in SchoolSession /\ s.copy = ch.copy /\ s.version = ch.version
      /\ s.mark = m
  BY <1>3 DEF SchoolSession, OutboundRow
<1> QED
  BY <1>2, <1>3, <1>4

LEMMA DeliverTypes ==
  ASSUME SyncInv, NEW y \in Syncs, Deliver(y)
  PROVE  /\ TypeOK' /\ Grown
         /\ \A o \in Occ : \A r \in school'[o] : link[o] # 0 /\ r.copy = link[o]
         /\ \A o \in Occ : \A r, q \in school'[o] : r = q
         /\ \A o \in Occ : \A r \in school[o] :
              \E q \in school'[o] : q.copy = r.copy /\ q.mark = r.mark
         /\ \/ sync'[y].at = "idle"
            \/ /\ sync'[y].at = "mark" /\ sync'[y].todo = sync[y].todo
               /\ LET ch == outbound[Oldest(sync[y].todo)]
                  IN \E r \in school'[ch.occ] : r.copy = ch.copy
<1> DEFINE i == Oldest(sync[y].todo)
           ch == outbound[Oldest(sync[y].todo)]
<1>1. i \in DOMAIN outbound /\ ch \in OutboundRow /\ ch.occ \in Occ
  BY ChangeAtHand DEF Deliver
<1>2. ch.copy = link[ch.occ] /\ link[ch.occ] # 0
  BY <1>1 DEF SyncInv, TravelsLinked
<1>3. CASE Welcome(ch)
  <2>1. /\ school' = [school EXCEPT ![ch.occ] = Stored(school[ch.occ], ch)]
        /\ Step(y, [sync[y] EXCEPT !.at = "mark"])
    BY <1>3 DEF Deliver
  <2>2. /\ sync' \in [Syncs -> SyncState]
        /\ sync'[y].at = "mark" /\ sync'[y].todo = sync[y].todo
    BY <2>1, OnTyped
  <2> HIDE DEF i, ch
  <2>3. /\ school \in [Occ -> SUBSET SchoolSession]
        /\ \A r, q \in school[ch.occ] : r = q
        /\ \A r \in school[ch.occ] : r.copy = ch.copy
    BY <1>1, <1>2 DEF SyncInv, TypeOK, TravelsLinked
  <2>4. PICK s \in SchoolSession :
          /\ Stored(school[ch.occ], ch) = {s} /\ s.copy = ch.copy
          /\ \A r \in school[ch.occ] : r.mark = s.mark
    BY <1>1, <2>3, StoredOne
  <2>5. school' = [school EXCEPT ![ch.occ] = {s}]
    BY <2>1, <2>4
  <2>6. school' \in [Occ -> SUBSET SchoolSession] /\ school'[ch.occ] = {s}
    BY <1>1, <2>3, <2>5
  <2>7. \A o \in Occ : o # ch.occ => school'[o] = school[o]
    BY <2>3, <2>5
  <2>8. SessionsStay
    BY <1>1, <2>3, <2>4, <2>6, <2>7 DEF SessionsStay
  <2>9. TypeOK' /\ Grown
    BY <2>2, <2>6, <2>8, StillStays
    DEF Deliver, SyncInv, TypeOK, opsVars, Grown
  <2>10. ASSUME NEW o \in Occ
         PROVE  /\ \A r \in school'[o] : link[o] # 0 /\ r.copy = link[o]
                /\ \A r, q \in school'[o] : r = q
                /\ \A r \in school[o] :
                     \E q \in school'[o] : q.copy = r.copy /\ q.mark = r.mark
    <3>1. CASE o = ch.occ
      BY <1>2, <2>3, <2>4, <2>6, <3>1
    <3>2. CASE o # ch.occ
      BY <2>7, <3>2 DEF SyncInv, TravelsLinked
    <3> QED
      BY <3>1, <3>2
  <2>11. \E r \in school'[ch.occ] : r.copy = ch.copy
    BY <2>4, <2>6
  <2> QED
    BY <2>2, <2>9, <2>10, <2>11 DEF ch
<1>4. CASE ~Welcome(ch)
  <2>1. Step(y, Asleep) /\ UNCHANGED school
    BY <1>4 DEF Deliver
  <2>2. sync' \in [Syncs -> SyncState] /\ sync'[y].at = "idle"
    BY <2>1, AsleepTyped
  <2>3. TypeOK' /\ Grown
    BY <2>1, <2>2, StillStays
    DEF Deliver, SyncInv, TypeOK, opsVars, Grown
  <2> QED
    BY <2>1, <2>2, <2>3 DEF SyncInv, TravelsLinked
<1> QED
  BY <1>3, <1>4

LEMMA DeliveredAtTypes ==
  ASSUME SyncInv, NEW y \in Syncs, DeliveredAt(y)
  PROVE  /\ TypeOK' /\ Grown
         /\ DOMAIN outbound' = DOMAIN outbound
         /\ \A i \in DOMAIN outbound :
              /\ outbound'[i].occ = outbound[i].occ
              /\ outbound'[i].copy = outbound[i].copy
              /\ outbound'[i].delivered => outbound[i].delivered \/ AtSchool(i)
         /\ \/ sync'[y].at = "collect"
            \/ /\ sync'[y].at = "deliver" /\ sync'[y].todo # {}
               /\ sync'[y].todo \subseteq DOMAIN outbound
<1> DEFINE i == Oldest(sync[y].todo)
           ch == [outbound[i] EXCEPT !.delivered = TRUE]
<1>1. /\ i \in DOMAIN outbound /\ outbound[i] \in OutboundRow
      /\ sync[y].todo \subseteq DOMAIN outbound /\ AtSchool(i)
  BY ChangeAtHand, Runs DEF DeliveredAt, Running
<1>2. /\ sync' \in [Syncs -> SyncState]
      /\ \/ sync'[y].at = "collect"
         \/ /\ sync'[y].at = "deliver" /\ sync'[y].todo # {}
            /\ sync'[y].todo \subseteq sync[y].todo
  BY RestTyped DEF DeliveredAt
<1>3. outbound' = [outbound EXCEPT ![i] = ch]
  BY DEF DeliveredAt
<1> HIDE DEF i
<1>4. ch \in OutboundRow /\ ch.occ = outbound[i].occ /\ ch.copy = outbound[i].copy
  BY <1>1 DEF OutboundRow
<1> HIDE DEF ch
<1>5. outbound \in Seq(OutboundRow)
  BY DEF SyncInv, TypeOK
<1>6. DOMAIN outbound = 1 .. Len(outbound) /\ Len(outbound) \in Nat
  BY <1>5, LenProperties
<1>7. /\ outbound' \in Seq(OutboundRow) /\ Len(outbound') = Len(outbound)
      /\ \A j \in 1 .. Len(outbound) :
           outbound'[j] = IF j = i THEN ch ELSE outbound[j]
  BY <1>1, <1>3, <1>4, <1>5, <1>6, ExceptSeq
<1>8. DOMAIN outbound' = DOMAIN outbound
  BY <1>6, <1>7, LenProperties
<1>9. ASSUME NEW j \in DOMAIN outbound
      PROVE  /\ outbound'[j].occ = outbound[j].occ
             /\ outbound'[j].copy = outbound[j].copy
             /\ outbound'[j].delivered => outbound[j].delivered \/ AtSchool(j)
  BY <1>1, <1>4, <1>6, <1>7
<1>10. QueueStays
  BY <1>8, <1>9 DEF QueueStays
<1>11. TypeOK' /\ Grown
  BY <1>2, <1>7, <1>10, StillStays
  DEF DeliveredAt, SyncInv, TypeOK, schoolVars, Grown
<1> QED
  BY <1>1, <1>2, <1>8, <1>9, <1>11

LEMMA SeenTypes ==
  ASSUME SyncInv, NEW y \in Syncs, Seen(y)
  PROVE  /\ TypeOK' /\ Grown
         /\ sync'[y].todo = sync[y].todo
         /\ \/ sync'[y].at = "shared"
            \/ sync'[y].at = "ack" /\ Oldest(sync[y].todo) \in applied
<1>1. PICK at \in {"ack", "shared"} :
        /\ at = "ack" => Oldest(sync[y].todo) \in applied
        /\ Step(y, [sync[y] EXCEPT !.at = at])
  BY DEF Seen
<1>2. /\ sync' \in [Syncs -> SyncState]
      /\ sync'[y].at = at /\ sync'[y].todo = sync[y].todo
  BY <1>1, OnTyped
<1> QED
  BY <1>1, <1>2, StillStays
  DEF Seen, SyncInv, TypeOK, opsVars, schoolVars, Grown

LEMMA StoreSharedTypes ==
  ASSUME SyncInv, NEW y \in Syncs, StoreShared(y)
  PROVE  /\ TypeOK' /\ Grown
         /\ sync'[y].at = "ops" /\ sync'[y].todo = sync[y].todo
         /\ OnCopy(Oldest(sync[y].todo))'
<1> DEFINE i == Oldest(sync[y].todo)
           x == marked[i].occ
           n == marked[i].copy
           r == [copies[x][n] EXCEPT !.mark = marked[i].status]
<1>1. i \in DOMAIN marked
  BY MarkOf DEF StoreShared
<1>2. /\ x \in Key /\ n \in 1 .. Len(copies[x]) /\ copies[x] \in Seq(CopyRow)
      /\ marked[i].status \in Mark
  BY <1>1, MarkAtHand
<1>3. copies[x][n] \in CopyRow
  BY <1>2, ElementOfSeq
<1>4. r \in CopyRow /\ r.mark # None
  BY <1>2, <1>3, SyncAssumption DEF CopyRow, Mark
<1>5. copies' = [copies EXCEPT ![x] = [copies[x] EXCEPT ![n] = r]]
  BY DEF StoreShared
<1>6. /\ sync' \in [Syncs -> SyncState]
      /\ sync'[y].at = "ops" /\ sync'[y].todo = sync[y].todo
  BY OnTyped DEF StoreShared
<1>7. UNCHANGED marked
  BY DEF StoreShared, schoolVars
<1> HIDE DEF i, x, n, r
<1>8. /\ copies' \in [Key -> Seq(CopyRow)] /\ RowsStay
      /\ copies'[x][n] = r
  BY <1>2, <1>4, <1>5, RowWritten
<1>9. TypeOK' /\ Grown
  BY <1>6, <1>8, StillStays
  DEF StoreShared, SyncInv, TypeOK, schoolVars, Grown
<1>10. copies'[marked'[i].occ][marked'[i].copy].mark # None
  BY <1>4, <1>7, <1>8 DEF x, n
<1>11. Oldest(sync[y].todo)' = i
  BY <1>6 DEF i
<1> QED
  BY <1>6, <1>9, <1>10, <1>11 DEF OnCopy

LEMMA StoreOpsTypes ==
  ASSUME SyncInv, NEW y \in Syncs, StoreOps(y)
  PROVE  /\ TypeOK' /\ Grown
         /\ sync'[y].at = "applied" /\ sync'[y].todo = sync[y].todo
         /\ mark'[marked[Oldest(sync[y].todo)].occ].by # "nobody"
<1> DEFINE i == Oldest(sync[y].todo)
           x == marked[i].occ
           v == [status |-> marked[i].status, by |-> "school"]
<1>1. i \in DOMAIN marked
  BY MarkOf DEF StoreOps
<1>2. /\ x \in Occ /\ marked[i].status \in Mark
      /\ link[x] = marked[i].copy
  BY <1>1, MarkAtHand
<1>3. v \in [status : Mark, by : {"nobody", "ops", "school"}] /\ v.by = "school"
  BY <1>2
<1>4. mark' = [mark EXCEPT ![x] = v]
  BY <1>2 DEF StoreOps
<1>5. /\ sync' \in [Syncs -> SyncState]
      /\ sync'[y].at = "applied" /\ sync'[y].todo = sync[y].todo
  BY OnTyped DEF StoreOps
<1> HIDE DEF x, v
<1>6. /\ mark' \in [Occ -> [status : Mark, by : {"nobody", "ops", "school"}]]
      /\ mark'[x].by = "school" /\ ParticipantsStay
  BY <1>2, <1>3, <1>4 DEF SyncInv, TypeOK, ParticipantsStay
<1>7. TypeOK' /\ Grown
  BY <1>5, <1>6, StillStays
  DEF StoreOps, SyncInv, TypeOK, schoolVars, Grown
<1> QED
  BY <1>5, <1>6, <1>7 DEF x

LEMMA RememberTypes ==
  ASSUME SyncInv, NEW y \in Syncs, Remember(y)
  PROVE  /\ TypeOK' /\ Grown
         /\ applied' \subseteq applied \cup {Oldest(sync[y].todo)}
         /\ \/ sync'[y].at = "idle"
            \/ /\ sync'[y].at = "ack" /\ sync'[y].todo = sync[y].todo
               /\ Oldest(sync[y].todo) \in applied'
<1> DEFINE i == Oldest(sync[y].todo)
<1>1. i \in DOMAIN marked
  BY MarkOf DEF Remember
<1>2. CASE i \in applied
  <2>1. Step(y, Asleep) /\ UNCHANGED applied
    BY <1>2 DEF Remember
  <2>2. sync' \in [Syncs -> SyncState] /\ sync'[y].at = "idle"
    BY <2>1, AsleepTyped
  <2> QED
    BY <2>1, <2>2, StillStays
    DEF Remember, SyncInv, TypeOK, schoolVars, Grown
<1>3. CASE i \notin applied
  <2>1. applied' = applied \cup {i} /\ Step(y, [sync[y] EXCEPT !.at = "ack"])
    BY <1>3 DEF Remember
  <2>2. /\ sync' \in [Syncs -> SyncState]
        /\ sync'[y].at = "ack" /\ sync'[y].todo = sync[y].todo
    BY <2>1, OnTyped
  <2>3. TypeOK' /\ Grown
    BY <1>1, <2>1, <2>2, StillStays
    DEF Remember, SyncInv, TypeOK, schoolVars, Grown, AppliedStays
  <2> QED
    BY <2>1, <2>2, <2>3
<1> QED
  BY <1>2, <1>3

LEMMA AcknowledgeTypes ==
  ASSUME SyncInv, NEW y \in Syncs, Acknowledge(y)
  PROVE  /\ TypeOK' /\ Grown
         /\ DOMAIN marked' = DOMAIN marked
         /\ \A i \in DOMAIN marked :
              /\ marked'[i].occ = marked[i].occ
              /\ marked'[i].copy = marked[i].copy
              /\ marked'[i].acked => marked[i].acked \/ i \in applied
         /\ \/ sync'[y].at = "idle"
            \/ /\ sync'[y].at = "seen" /\ sync'[y].todo # {}
               /\ sync'[y].todo \subseteq DOMAIN marked
<1> DEFINE i == Oldest(sync[y].todo)
           m == [marked[i] EXCEPT !.acked = TRUE]
<1>1. /\ i \in DOMAIN marked /\ marked[i] \in MarkRow
      /\ sync[y].todo \subseteq DOMAIN marked /\ i \in applied
  BY MarkOf, MarkAtHand, Runs DEF Acknowledge, Running
<1>2. /\ sync' \in [Syncs -> SyncState]
      /\ \/ sync'[y].at = "idle"
         \/ /\ sync'[y].at = "seen" /\ sync'[y].todo # {}
            /\ sync'[y].todo \subseteq sync[y].todo
  BY RestTyped DEF Acknowledge
<1>3. marked' = [marked EXCEPT ![i] = m]
  BY DEF Acknowledge
<1> HIDE DEF i
<1>4. m \in MarkRow /\ m.occ = marked[i].occ /\ m.copy = marked[i].copy
  BY <1>1 DEF MarkRow
<1> HIDE DEF m
<1>5. marked \in Seq(MarkRow)
  BY DEF SyncInv, TypeOK
<1>6. DOMAIN marked = 1 .. Len(marked) /\ Len(marked) \in Nat
  BY <1>5, LenProperties
<1>7. /\ marked' \in Seq(MarkRow) /\ Len(marked') = Len(marked)
      /\ \A j \in 1 .. Len(marked) :
           marked'[j] = IF j = i THEN m ELSE marked[j]
  BY <1>1, <1>3, <1>4, <1>5, <1>6, ExceptSeq
<1>8. DOMAIN marked' = DOMAIN marked
  BY <1>6, <1>7, LenProperties
<1>9. ASSUME NEW j \in DOMAIN marked
      PROVE  /\ marked'[j].occ = marked[j].occ
             /\ marked'[j].copy = marked[j].copy
             /\ marked'[j].acked => marked[j].acked \/ j \in applied
  BY <1>1, <1>4, <1>6, <1>7
<1>10. MarksStay
  BY <1>8, <1>9 DEF MarksStay
<1>11. TypeOK' /\ Grown
  BY <1>2, <1>7, <1>8, <1>10, StillStays
  DEF Acknowledge, SyncInv, TypeOK, opsVars, Grown
<1> QED
  BY <1>1, <1>2, <1>8, <1>9, <1>11

LEMMA StopSyncTypes ==
  ASSUME SyncInv, NEW y \in Syncs, StopSync(y)
  PROVE  TypeOK' /\ Grown /\ sync'[y].at = "idle"
<1>1. sync' \in [Syncs -> SyncState] /\ sync'[y].at = "idle"
  BY AsleepTyped DEF StopSync
<1>2. stops' \in 0 .. MaxStops
  BY SyncAssumption DEF StopSync, SyncInv, TypeOK
<1> QED
  BY <1>1, <1>2, StillStays
  DEF StopSync, SyncInv, TypeOK, schoolVars, opsVars, Grown

-----------------------------------------------------------------------------
(* What happens around them.                                               *)

LEMMA HandMarkTypes ==
  ASSUME SyncInv, NEW o \in Occ, NEW s \in Mark, HandMark(o, s)
  PROVE  TypeOK' /\ Grown
<1>1. mark' = [mark EXCEPT ![o] = [status |-> s, by |-> "ops"]]
  BY DEF HandMark
<1>2. /\ mark' \in [Occ -> [status : Mark, by : {"nobody", "ops", "school"}]]
      /\ ParticipantsStay
  BY <1>1 DEF SyncInv, TypeOK, ParticipantsStay
<1> QED
  BY <1>2, StillStays DEF HandMark, SyncInv, TypeOK, schoolVars, Grown

(* The school marks the one session it has, and says which copy it is of.  *)
LEMMA SchoolMarksTypes ==
  ASSUME SyncInv, NEW o \in Occ, NEW s \in Mark, SchoolMarks(o, s)
  PROVE  /\ TypeOK' /\ Grown
         /\ \A x \in Occ : \A r \in school'[x] : r.copy = link[x] /\ link[x] # 0
         /\ \A x \in Occ : \A r, q \in school'[x] : r = q
         /\ Len(marked) \in Nat
         /\ DOMAIN marked' = DOMAIN marked \cup {Len(marked) + 1}
         /\ \A i \in DOMAIN marked : marked'[i] = marked[i]
         /\ LET m == marked'[Len(marked) + 1]
            IN /\ m.occ = o /\ m.copy = link[o] /\ link[o] # 0 /\ ~m.acked
<1>1. PICK r \in school[o] :
        /\ school' = [school EXCEPT ![o] =
                        (@ \ {r}) \cup {[r EXCEPT !.mark = s]}]
        /\ marked' = Append(marked, [occ |-> o, copy |-> r.copy, status |-> s,
                                     acked |-> FALSE])
  BY DEF SchoolMarks
<1> DEFINE n == [r EXCEPT !.mark = s]
           m == [occ |-> o, copy |-> r.copy, status |-> s, acked |-> FALSE]
<1>2. school \in [Occ -> SUBSET SchoolSession] /\ r \in SchoolSession
  BY DEF SyncInv, TypeOK
<1>3. n \in SchoolSession /\ n.copy = r.copy
  BY <1>2 DEF SchoolSession
<1>4. school[o] = {r} /\ r.copy = link[o] /\ link[o] # 0
  BY DEF SyncInv, TravelsLinked
<1>5. m \in MarkRow /\ m.occ = o /\ m.copy = r.copy /\ ~m.acked
  BY <1>2 DEF SchoolSession, MarkRow
<1> HIDE DEF n, m
<1>6. school' = [school EXCEPT ![o] = {n}]
  BY <1>1, <1>4 DEF n
<1>7. /\ school' \in [Occ -> SUBSET SchoolSession] /\ school'[o] = {n}
      /\ \A x \in Occ : x # o => school'[x] = school[x]
  BY <1>2, <1>3, <1>6
<1>8. ASSUME NEW x \in Occ
      PROVE  /\ \A q \in school'[x] : q.copy = link[x] /\ link[x] # 0
             /\ \A p, q \in school'[x] : p = q
             /\ \A p \in school[x] : \E q \in school'[x] : q.copy = p.copy
  BY <1>3, <1>4, <1>7 DEF SyncInv, TravelsLinked
<1>9. SessionsStay
  BY <1>8 DEF SessionsStay
<1>10. marked \in Seq(MarkRow) /\ marked' = Append(marked, m)
  BY <1>1 DEF SyncInv, TypeOK, m
<1>11. /\ marked' \in Seq(MarkRow) /\ Len(marked) \in Nat
       /\ Len(marked') = Len(marked) + 1
       /\ \A i \in 1 .. Len(marked) : marked'[i] = marked[i]
       /\ marked'[Len(marked) + 1] = m
  BY <1>5, <1>10, AppendProperties, LenProperties
<1>12. DOMAIN marked = 1 .. Len(marked) /\ DOMAIN marked' = 1 .. Len(marked')
  BY <1>10, <1>11, LenProperties
<1>13. /\ DOMAIN marked' = DOMAIN marked \cup {Len(marked) + 1}
       /\ \A i \in DOMAIN marked : marked'[i] = marked[i]
  BY <1>11, <1>12
<1>14. MarksStay
  BY <1>13 DEF MarksStay
<1>15. TypeOK' /\ Grown
  BY <1>7, <1>9, <1>11, <1>13, <1>14, StillStays
  DEF SchoolMarks, SyncInv, TypeOK, opsVars, Grown
<1> QED
  BY <1>4, <1>5, <1>8, <1>11, <1>13, <1>15

LEMMA LinkCastTypes ==
  ASSUME SyncInv, NEW p \in Cast, LinkCast(p)
  PROVE  TypeOK' /\ Grown
<1>1. p \in Person /\ "main" \in SharedId
  BY SyncAssumption DEF SharedId
<1>2. /\ known' \subseteq Person
      /\ person' \in [Person -> [row : SharedId \cup {None},
                                link : SharedId \cup {None}]]
      /\ UNCHANGED <<version, copies, link, outbound, applied, mark, school,
                     marked, publish, sync, stops>>
  <2>1. CASE EnsureUser(p)
    <3>1. CASE person[p].row = None
      <4>1. person' = [person EXCEPT ![p].row = "main"]
        BY <2>1, <3>1 DEF EnsureUser
      <4> QED
        BY <1>1, <2>1, <4>1 DEF EnsureUser, SyncInv, TypeOK
    <3>2. CASE person[p].row # None
      BY <1>1, <2>1, <3>2 DEF EnsureUser, SyncInv, TypeOK
    <3> QED
      BY <3>1, <3>2
  <2>2. CASE LinkUser(p)
    <3>1. person' = [person EXCEPT ![p].link = "main"]
      BY <2>2 DEF LinkUser
    <3> QED
      BY <1>1, <2>2, <3>1 DEF LinkUser, schoolVars, SyncInv, TypeOK
  <2> QED
    BY <2>1, <2>2 DEF LinkCast
<1> QED
  BY <1>2, StillStays DEF SyncInv, TypeOK, Grown

-----------------------------------------------------------------------------
(* The invariant is kept.                                                  *)

(* Where a statement leaves the queue, the marks and what is remembered:   *)
(* what is new is linked and not yet done, and what is ticked off had been *)
(* done before.                                                            *)
QueueSound ==
  \A i \in DOMAIN outbound' :
    \/ /\ i \in DOMAIN outbound
       /\ outbound'[i].delivered => outbound[i].delivered \/ AtSchool(i)
    \/ /\ outbound'[i].copy = link'[outbound'[i].occ]
       /\ link'[outbound'[i].occ] # 0 /\ ~outbound'[i].delivered
MarksSound ==
  \A i \in DOMAIN marked' :
    \/ /\ i \in DOMAIN marked
       /\ marked'[i].acked => marked[i].acked \/ i \in applied
    \/ /\ marked'[i].copy = link'[marked'[i].occ]
       /\ link'[marked'[i].occ] # 0 /\ ~marked'[i].acked
AppliedSound ==
  \A i \in applied' : i \in applied \/ (i \in DOMAIN marked /\ OnCopy(i) /\ OnParticipant(i))
SessionsSound ==
  \A o \in Occ : /\ \A r \in school'[o] : r.copy = link'[o] /\ link'[o] # 0
                 /\ \A r, q \in school'[o] : r = q

LEMMA StillSound ==
  /\ UNCHANGED outbound => QueueSound
  /\ UNCHANGED marked => MarksSound
  /\ UNCHANGED applied => AppliedSound
  /\ SyncInv /\ UNCHANGED school /\ LinksStay => SessionsSound
  /\ SyncInv /\ TypeOK' /\ UNCHANGED link /\ RowsStay => LinksNameRows'
<1>1. UNCHANGED outbound => QueueSound
  BY DEF QueueSound
<1>2. UNCHANGED marked => MarksSound
  BY DEF MarksSound
<1>3. UNCHANGED applied => AppliedSound
  BY DEF AppliedSound
<1>4. SyncInv /\ UNCHANGED school /\ LinksStay => SessionsSound
  BY DEF SyncInv, TravelsLinked, LinksStay, SessionsSound, Key
<1>5. ASSUME SyncInv, TypeOK', UNCHANGED link, RowsStay PROVE LinksNameRows'
  <2> SUFFICES ASSUME NEW x \in Key PROVE link'[x] <= Len(copies'[x])
    BY DEF LinksNameRows
  <2>1. /\ link[x] \in Nat /\ link[x] <= Len(copies[x])
        /\ Len(copies[x]) \in Nat /\ Len(copies'[x]) \in Nat
    BY <1>5, LenProperties DEF SyncInv, TypeOK, LinksNameRows
  <2>2. Len(copies[x]) <= Len(copies'[x])
    BY <1>5 DEF RowsStay
  <2> QED
    BY <1>5, <2>1, <2>2
<1> QED
  BY <1>1, <1>2, <1>3, <1>4, <1>5

LEMMA TravelsKept ==
  ASSUME SyncInv, TypeOK', Grown, QueueSound, MarksSound, SessionsSound
  PROVE  TravelsLinked'
<1>1. ASSUME NEW i \in DOMAIN outbound'
      PROVE  /\ outbound'[i].copy = link'[outbound'[i].occ]
             /\ link'[outbound'[i].occ] # 0
  <2>1. CASE i \in DOMAIN outbound
    <3>1. /\ outbound[i].copy = link[outbound[i].occ] /\ link[outbound[i].occ] # 0
          /\ outbound'[i].occ = outbound[i].occ
          /\ outbound'[i].copy = outbound[i].copy
      BY <2>1 DEF SyncInv, TravelsLinked, Grown, QueueStays
    <3>2. outbound[i] \in OutboundRow
      BY <2>1, LenProperties, ElementOfSeq DEF SyncInv, TypeOK
    <3>3. outbound[i].occ \in Key
      BY <3>2 DEF OutboundRow, Key
    <3> QED
      BY <3>1, <3>3 DEF Grown, LinksStay
  <2>2. CASE i \notin DOMAIN outbound
    BY <1>1, <2>2 DEF QueueSound
  <2> QED
    BY <2>1, <2>2
<1>2. ASSUME NEW i \in DOMAIN marked'
      PROVE  /\ marked'[i].copy = link'[marked'[i].occ]
             /\ link'[marked'[i].occ] # 0
  <2>1. CASE i \in DOMAIN marked
    <3>1. /\ marked[i].copy = link[marked[i].occ] /\ link[marked[i].occ] # 0
          /\ marked'[i].occ = marked[i].occ /\ marked'[i].copy = marked[i].copy
      BY <2>1 DEF SyncInv, TravelsLinked, Grown, MarksStay
    <3>2. marked[i].occ \in Key
      BY <2>1, MarkAtHand
    <3> QED
      BY <3>1, <3>2 DEF Grown, LinksStay
  <2>2. CASE i \notin DOMAIN marked
    BY <1>2, <2>2 DEF MarksSound
  <2> QED
    BY <2>1, <2>2
<1> QED
  BY <1>1, <1>2 DEF SessionsSound, TravelsLinked

(* What a change and a mark have reached, they have reached for good.      *)
LEMMA ReachedStays ==
  ASSUME SyncInv, Grown
  PROVE  /\ \A i \in DOMAIN outbound : AtSchool(i) => AtSchool(i)'
         /\ \A i \in DOMAIN marked : OnCopy(i) => OnCopy(i)'
         /\ \A i \in DOMAIN marked : OnParticipant(i) => OnParticipant(i)'
<1>1. ASSUME NEW i \in DOMAIN outbound, AtSchool(i) PROVE AtSchool(i)'
  <2>0. outbound[i] \in OutboundRow
    BY LenProperties, ElementOfSeq DEF SyncInv, TypeOK
  <2>1. outbound[i].occ \in Occ
    BY <2>0 DEF OutboundRow
  <2>2. PICK r \in school[outbound[i].occ] : r.copy = outbound[i].copy
    BY <1>1 DEF AtSchool
  <2>3. /\ outbound'[i].occ = outbound[i].occ
        /\ outbound'[i].copy = outbound[i].copy
    BY DEF Grown, QueueStays
  <2> QED
    BY <2>1, <2>2, <2>3 DEF AtSchool, Grown, SessionsStay
<1>2. ASSUME NEW i \in DOMAIN marked PROVE OnCopy(i) => OnCopy(i)'
  <2>1. /\ marked[i].occ \in Key
        /\ marked[i].copy \in 1 .. Len(copies[marked[i].occ])
    BY MarkAtHand
  <2>2. marked'[i].occ = marked[i].occ /\ marked'[i].copy = marked[i].copy
    BY DEF Grown, MarksStay
  <2> QED
    BY <2>1, <2>2 DEF OnCopy, Grown, RowsStay
<1>3. ASSUME NEW i \in DOMAIN marked PROVE OnParticipant(i) => OnParticipant(i)'
  <2>1. marked[i].occ \in Occ
    BY MarkAtHand
  <2>2. marked'[i].occ = marked[i].occ
    BY DEF Grown, MarksStay
  <2> QED
    BY <2>1, <2>2 DEF OnParticipant, Grown, ParticipantsStay
<1> QED
  BY <1>1, <1>2, <1>3

LEMMA NothingSkippedKept ==
  ASSUME SyncInv, TypeOK', Grown, QueueSound, MarksSound, AppliedSound
  PROVE  NothingSkipped'
<1>1. ASSUME NEW i \in DOMAIN outbound', outbound'[i].delivered
      PROVE  AtSchool(i)'
  <2>1. i \in DOMAIN outbound /\ (outbound[i].delivered \/ AtSchool(i))
    BY <1>1 DEF QueueSound
  <2>2. AtSchool(i)
    BY <2>1 DEF SyncInv, NothingSkipped, AtSchool
  <2> QED
    BY <2>1, <2>2, ReachedStays
<1>2. ASSUME NEW i \in DOMAIN marked', marked'[i].acked PROVE i \in applied'
  <2>1. i \in applied
    BY <1>2 DEF MarksSound, SyncInv, NothingSkipped
  <2> QED
    BY <2>1 DEF Grown, AppliedStays
<1>3. ASSUME NEW i \in applied' PROVE OnCopy(i)' /\ OnParticipant(i)'
  <2>1. i \in DOMAIN marked /\ OnCopy(i) /\ OnParticipant(i)
    BY <1>3 DEF AppliedSound, SyncInv, TypeOK, NothingSkipped, OnCopy, OnParticipant
  <2> QED
    BY <2>1, ReachedStays
<1> QED
  BY <1>1, <1>2, <1>3 DEF NothingSkipped, AtSchool, OnCopy, OnParticipant

(* A request and a run that did not move stand where they stood.           *)
LEMMA OthersStand ==
  ASSUME SyncInv, TypeOK', Grown, NEW c \in Publishers, publish'[c] = publish[c]
  PROVE  Standing(publish'[c], copies', link')
<1> DEFINE k == publish[c]
<1>1. Standing(k, copies, link)
  BY Stands
<1>2. ASSUME k.at \in {"podlink", "sessionlink"}
      PROVE  k.copy \in 1 .. Len(copies'[KeyOf(k)])
  <2>1. KeyOf(k) \in Key
    BY <1>2, KeyWritten
  <2>2. k.copy \in 1 .. Len(copies[KeyOf(k)])
    BY <1>1, <1>2 DEF Standing
  <2>3. /\ Len(copies[KeyOf(k)]) \in Nat /\ Len(copies'[KeyOf(k)]) \in Nat
        /\ Len(copies[KeyOf(k)]) <= Len(copies'[KeyOf(k)])
    BY <2>1, LenProperties DEF SyncInv, TypeOK, Grown, RowsStay
  <2> QED
    BY <2>2, <2>3
<1>3. ASSUME k.at \in {"attendance", "queue"}
      PROVE  k.copy = link'[k.occ] /\ link'[k.occ] # 0
  BY <1>1, <1>3 DEF Standing, Grown, LinksStay, Key
<1> HIDE DEF k
<1>4. Standing(k, copies', link')
  BY <1>1, <1>2, <1>3 DEF Standing
<1> QED
  BY <1>4 DEF k

LEMMA OthersRun ==
  ASSUME SyncInv, TypeOK', Grown, NEW y \in Syncs, sync'[y] = sync[y]
  PROVE  Running(sync[y])'
<1>1. Running(sync[y])
  BY Runs
<1>2. Oldest(sync[y].todo)' = Oldest(sync[y].todo)
  OBVIOUS
<1>3. DOMAIN outbound \subseteq DOMAIN outbound' /\ DOMAIN marked \subseteq DOMAIN marked'
  BY DEF Grown, QueueStays, MarksStay
<1>4. sync[y].at = "mark" => AtSchool(Oldest(sync[y].todo))'
  BY <1>1, ReachedStays, ChangeAtHand DEF Running
<1>5. sync[y].at \in {"ops", "applied"} => OnCopy(Oldest(sync[y].todo))'
  BY <1>1, ReachedStays, MarkOf DEF Running
<1>6. sync[y].at = "applied" => OnParticipant(Oldest(sync[y].todo))'
  BY <1>1, ReachedStays, MarkOf DEF Running
<1>7. sync[y].at = "ack" => Oldest(sync[y].todo) \in applied'
  BY <1>1 DEF Running, Grown, AppliedStays
<1> QED
  BY <1>1, <1>2, <1>3, <1>4, <1>5, <1>6, <1>7 DEF Running

(* A request goes on; a run goes on.                                       *)
LEMMA RequestKeeps ==
  ASSUME SyncInv, TypeOK', Grown, NEW c \in Publishers,
         UNCHANGED <<school, marked, applied, sync>>,
         \A d \in Publishers : d # c => publish'[d] = publish[d],
         Standing(publish'[c], copies', link'), LinksNameRows', QueueSound
  PROVE  SyncInv'
<1>1. \A d \in Publishers : Standing(publish'[d], copies', link')
  BY OthersStand
<1>2. \A y \in Syncs : Running(sync[y])'
  BY OthersRun
<1>3. MarksSound /\ AppliedSound /\ SessionsSound
  BY StillSound DEF Grown
<1>4. TravelsLinked' /\ NothingSkipped'
  BY <1>3, TravelsKept, NothingSkippedKept
<1> QED
  BY <1>1, <1>2, <1>4 DEF SyncInv

LEMMA RunKeeps ==
  ASSUME SyncInv, TypeOK', Grown, NEW y \in Syncs, UNCHANGED <<publish, link>>,
         \A z \in Syncs : z # y => sync'[z] = sync[z], Running(sync[y])',
         QueueSound, MarksSound, AppliedSound, SessionsSound
  PROVE  SyncInv'
<1>1. \A d \in Publishers : Standing(publish'[d], copies', link')
  BY OthersStand
<1>2. \A z \in Syncs : Running(sync[z])'
  BY OthersRun
<1>3. TravelsLinked' /\ NothingSkipped' /\ LinksNameRows'
  BY StillSound, TravelsKept, NothingSkippedKept DEF Grown
<1> QED
  BY <1>1, <1>2, <1>3 DEF SyncInv

(* Only one of the requests, or of the runs, moves at a time.              *)
LEMMA OneTurns ==
  ASSUME SyncInv, NEW c \in Publishers, NEW k, Turn(c, k)
  PROVE  /\ publish'[c] = k
         /\ \A d \in Publishers : d # c => publish'[d] = publish[d]
BY DEF SyncInv, TypeOK, Turn

LEMMA OneSteps ==
  ASSUME SyncInv, NEW y \in Syncs, NEW k, Step(y, k)
  PROVE  \A z \in Syncs : z # y => sync'[z] = sync[z]
BY DEF SyncInv, TypeOK, Step

(* The statements after which a request relies on nothing but its session: *)
(* a change, the people, a failure, a stop, and the end.                   *)
LEMMA PlainStanding ==
  ASSUME NEW k, NEW rows, NEW to,
         k.at \in {"idle", "read", "people", "pod", "session", "done", "failed",
                   "dead"},
         k.at \notin {"idle", "done", "failed", "dead"} => k.occ \in Occ
  PROVE  Standing(k, rows, to)
BY DEF Standing

LEMMA ChangeKeeps ==
  ASSUME SyncInv, NEW c \in Publishers, Change(c)
  PROVE  SyncInv'
<1>1. PICK o \in Occ : Turn(c, [Fresh EXCEPT !.at = "read", !.occ = o])
  BY DEF Change
<1> DEFINE k == [Fresh EXCEPT !.at = "read", !.occ = o]
<1>2. k.at = "read" /\ k.occ = o
  BY DEF Fresh
<1> HIDE DEF k
<1>3. Turn(c, k)
  BY <1>1 DEF k
<1>4. Standing(publish'[c], copies', link')
  BY <1>2, <1>3, OneTurns, PlainStanding
<1>5. TypeOK' /\ Grown
  BY ChangeTypes
<1>6. QueueSound /\ LinksNameRows'
  BY <1>5, StillSound DEF Change, Grown
<1> QED
  BY <1>3, <1>4, <1>5, <1>6, OneTurns, RequestKeeps DEF Change, schoolVars

LEMMA ReadKeeps ==
  ASSUME SyncInv, NEW c \in Publishers, Read(c)
  PROVE  SyncInv'
<1> DEFINE k == [publish[c] EXCEPT !.at = "people",
                                   !.image = version[publish[c].occ],
                                   !.need = People[publish[c].occ]]
<1>1. Turn(c, k) /\ publish[c].occ \in Occ /\ publish[c] \in PublishState
  BY Stands DEF Read, Standing
<1>2. k.at = "people" /\ k.occ = publish[c].occ
  BY <1>1 DEF PublishState
<1> HIDE DEF k
<1>3. Standing(publish'[c], copies', link')
  BY <1>1, <1>2, OneTurns, PlainStanding
<1>4. TypeOK' /\ Grown
  BY ReadTypes
<1>5. QueueSound /\ LinksNameRows'
  BY <1>4, StillSound DEF Read, opsVars, Grown
<1> QED
  BY <1>1, <1>3, <1>4, <1>5, OneTurns, RequestKeeps DEF Read, opsVars, schoolVars

(* A name more on the payload leaves the request on its session.           *)
LEMMA NamedStands ==
  ASSUME SyncInv, NEW c \in Publishers, NEW p, NEW id,
         publish[c].at \in {"people", "person"},
         Turn(c, Named(publish[c], p, id))
  PROVE  Standing(publish'[c], copies', link')
<1> DEFINE at == IF publish[c].need = {p} THEN "pod" ELSE "people"
           k == Named(publish[c], p, id)
<1>1. publish[c].occ \in Occ /\ publish[c] \in PublishState
  BY Stands DEF Standing
<1>2. at \in {"pod", "people"}
  OBVIOUS
<1>3. k.at = at /\ k.occ = publish[c].occ
  BY <1>1 DEF Named, PublishState
<1> HIDE DEF at, k
<1>4. publish'[c] = k
  BY OneTurns DEF k
<1> QED
  BY <1>1, <1>2, <1>3, <1>4, PlainStanding

LEMMA FailStands ==
  ASSUME SyncInv, NEW c \in Publishers, Fail(c)
  PROVE  Standing(publish'[c], copies', link')
BY FailTyped, PlainStanding

LEMMA FindPersonKeeps ==
  ASSUME SyncInv, NEW c \in Publishers, FindPerson(c)
  PROVE  SyncInv'
<1>1. PICK p \in publish[c].need : Turn(c, Named(publish[c], p, person[p].link))
  BY DEF FindPerson
<1>2. Standing(publish'[c], copies', link')
  BY <1>1, NamedStands DEF FindPerson
<1>3. TypeOK' /\ Grown
  BY FindPersonTypes
<1>4. QueueSound /\ LinksNameRows'
  BY <1>3, StillSound DEF FindPerson, opsVars, Grown
<1> QED
  BY <1>1, <1>2, <1>3, <1>4, OneTurns, RequestKeeps
  DEF FindPerson, opsVars, schoolVars

LEMMA CreatePersonKeeps ==
  ASSUME SyncInv, NEW c \in Publishers, CreatePerson(c)
  PROVE  SyncInv'
<1>1. PICK p \in publish[c].need :
        \/ Turn(c, [publish[c] EXCEPT !.at = "person", !.who = p])
        \/ Fail(c)
  BY DEF CreatePerson
<1>2. /\ publish[c].occ \in Occ /\ publish[c] \in PublishState /\ p \in Person
  BY Stands DEF CreatePerson, Standing, PublishState
<1>3. Standing(publish'[c], copies', link')
  <2> DEFINE k == [publish[c] EXCEPT !.at = "person", !.who = p]
  <2>1. CASE Turn(c, k)
    <3>1. k.at = "person" /\ k.who = p /\ k.occ = publish[c].occ
      BY <1>2 DEF PublishState
    <3> HIDE DEF k
    <3>2. Standing(k, copies', link')
      BY <1>2, <3>1 DEF Standing
    <3> QED
      BY <2>1, <3>2, OneTurns
  <2>2. CASE Fail(c)
    BY <2>2, FailStands
  <2> QED
    BY <1>1, <2>1, <2>2
<1>4. TypeOK' /\ Grown
  BY CreatePersonTypes
<1>5. QueueSound /\ LinksNameRows'
  BY <1>4, StillSound DEF CreatePerson, Grown
<1>6. \A d \in Publishers : d # c => publish'[d] = publish[d]
  BY <1>1, OneTurns DEF Fail
<1> QED
  BY <1>3, <1>4, <1>5, <1>6, RequestKeeps DEF CreatePerson, schoolVars

LEMMA LinkPersonKeeps ==
  ASSUME SyncInv, NEW c \in Publishers, LinkPerson(c)
  PROVE  SyncInv'
<1>1. \/ Turn(c, Named(publish[c], publish[c].who, "ops"))
      \/ Fail(c)
  BY DEF LinkPerson
<1>2. Standing(publish'[c], copies', link')
  BY <1>1, NamedStands, FailStands DEF LinkPerson
<1>3. TypeOK' /\ Grown
  BY LinkPersonTypes
<1>4. QueueSound /\ LinksNameRows'
  BY <1>3, StillSound DEF LinkPerson, Grown
<1>5. \A d \in Publishers : d # c => publish'[d] = publish[d]
  BY <1>1, OneTurns DEF Fail
<1> QED
  BY <1>2, <1>3, <1>4, <1>5, RequestKeeps DEF LinkPerson, schoolVars

(* Past a pod the session comes; past the session's link, its copy.        *)
LEMMA KeptStands ==
  ASSUME SyncInv, TypeOK', NEW c \in Publishers, NEW n,
         publish[c].at \in {"pod", "podlink", "session", "sessionlink"},
         Turn(c, Kept(publish[c], n)),
         n = link'[KeyOf(publish[c])], n # 0
  PROVE  Standing(publish'[c], copies', link')
<1>1. publish[c].occ \in Occ /\ publish[c] \in PublishState
  BY Stands DEF Standing
<1>2. publish'[c] = Kept(publish[c], n)
  BY OneTurns
<1>3. CASE publish[c].at \in {"pod", "podlink"}
  <2>1. publish'[c] = [publish[c] EXCEPT !.at = "session"]
    BY <1>2, <1>3 DEF Kept
  <2>2. publish'[c].at = "session" /\ publish'[c].occ = publish[c].occ
    BY <1>1, <2>1 DEF PublishState
  <2> QED
    BY <1>1, <2>2, PlainStanding
<1>4. CASE publish[c].at \notin {"pod", "podlink"}
  <2>1. publish'[c] = [publish[c] EXCEPT !.at = "attendance", !.copy = n]
    BY <1>2, <1>4 DEF Kept
  <2>2. /\ publish'[c].at = "attendance" /\ publish'[c].occ = publish[c].occ
        /\ publish'[c].copy = n
    BY <1>1, <2>1 DEF PublishState
  <2>3. KeyOf(publish[c]) = publish[c].occ
    BY <1>4 DEF KeyOf
  <2> QED
    BY <1>1, <2>2, <2>3 DEF Standing
<1> QED
  BY <1>3, <1>4

LEMMA RefreshKeeps ==
  ASSUME SyncInv, NEW c \in Publishers, Refresh(c)
  PROVE  SyncInv'
<1>1. /\ Turn(c, Kept(publish[c], link[KeyOf(publish[c])]))
      /\ link[KeyOf(publish[c])] # 0 /\ UNCHANGED link
  BY DEF Refresh
<1>2. TypeOK' /\ Grown
  BY RefreshTypes
<1>3. Standing(publish'[c], copies', link')
  <2>1. link[KeyOf(publish[c])] = link'[KeyOf(publish[c])]
    BY <1>1
  <2>2. publish[c].at \in {"pod", "podlink", "session", "sessionlink"}
    BY DEF Refresh
  <2> QED
    BY <1>1, <1>2, <2>1, <2>2, KeptStands
<1>4. QueueSound /\ LinksNameRows'
  BY <1>2, StillSound DEF Refresh, Grown
<1> QED
  BY <1>1, <1>2, <1>3, <1>4, OneTurns, RequestKeeps DEF Refresh, schoolVars

LEMMA CreateKeeps ==
  ASSUME SyncInv, NEW c \in Publishers, Create(c)
  PROVE  SyncInv'
<1> DEFINE k == publish[c]
           x == KeyOf(publish[c])
           to == IF k.at = "pod" THEN "podlink" ELSE "sessionlink"
           at == [k EXCEPT !.copy = Len(copies[x]) + 1, !.at = to]
           r == [version |-> k.image, mark |-> None]
<1>1. Turn(c, at) /\ copies' = [copies EXCEPT ![x] = Append(copies[x], r)]
  BY DEF Create
<1>2. x \in Key /\ k \in PublishState /\ k.occ \in Occ
      /\ k.at \in {"pod", "session"}
  BY KeyWritten, Stands DEF Create, Standing
<1>3. r \in CopyRow
  BY <1>2 DEF CopyRow, PublishState
<1>4. at.at = to /\ at.occ = k.occ /\ at.copy = Len(copies[x]) + 1
  <2> HIDE DEF to, x
  <2> QED
    BY <1>2 DEF PublishState
<1>5. KeyOf(at) = x /\ at.at \in {"podlink", "sessionlink"}
  BY <1>2, <1>4 DEF KeyOf
<1> HIDE DEF r, at, x
<1>6. Len(copies[x]) \in Nat /\ Len(copies'[x]) = Len(copies[x]) + 1
  BY <1>1, <1>2, <1>3, RowAdded
<1>7. Standing(at, copies', link')
  BY <1>2, <1>4, <1>5, <1>6 DEF Standing
<1>8. TypeOK' /\ Grown
  BY CreateTypes
<1>9. QueueSound /\ LinksNameRows'
  BY <1>8, StillSound DEF Create, Grown
<1> QED
  BY <1>1, <1>7, <1>8, <1>9, OneTurns, RequestKeeps DEF Create, schoolVars

(* A link made names the row just made, and is made once.                  *)
LEMMA LinkKeeps ==
  ASSUME SyncInv, NEW c \in Publishers, Link(c)
  PROVE  SyncInv'
<1> DEFINE k == publish[c]
           x == KeyOf(publish[c])
<1>1. TypeOK' /\ Grown
  BY LinkTypes
<1>2. /\ x \in Key /\ k.copy \in 1 .. Len(copies[x])
      /\ copies[x] \in Seq(CopyRow)
  BY KeyWritten, Stands DEF Link, Standing
<1>3. QueueSound /\ UNCHANGED copies
  BY StillSound DEF Link
<1>4. CASE link[x] = 0
  <2>1. link' = [link EXCEPT ![x] = k.copy] /\ Turn(c, Kept(k, k.copy))
    BY <1>4 DEF Link
  <2>2. link'[x] = k.copy /\ \A z \in Key : z # x => link'[z] = link[z]
    BY <1>2, <2>1 DEF SyncInv, TypeOK
  <2>3. k.copy # 0
    BY <1>2
  <2>4. Standing(publish'[c], copies', link')
    <3>1. publish[c].at \in {"pod", "podlink", "session", "sessionlink"}
      BY DEF Link
    <3>2. Turn(c, Kept(publish[c], publish[c].copy))
      BY <2>1
    <3>3. /\ publish[c].copy = link'[KeyOf(publish[c])]
          /\ publish[c].copy # 0
      BY <2>2, <2>3
    <3> HIDE DEF k, x
    <3> QED
      BY <1>1, <3>1, <3>2, <3>3, KeptStands
  <2>5. LinksNameRows'
    <3> SUFFICES ASSUME NEW z \in Key PROVE link'[z] <= Len(copies[z])
      BY <1>3 DEF LinksNameRows
    <3>1. CASE z = x
      BY <1>2, <2>2, <3>1
    <3>2. CASE z # x
      BY <2>2, <3>2 DEF SyncInv, LinksNameRows
    <3> QED
      BY <3>1, <3>2
  <2> QED
    BY <1>1, <1>3, <2>1, <2>4, <2>5, OneTurns, RequestKeeps DEF Link, schoolVars
<1>5. CASE link[x] # 0
  <2>1. Fail(c) /\ UNCHANGED link
    BY <1>5 DEF Link
  <2>2. Standing(publish'[c], copies', link')
    BY <2>1, FailStands
  <2>3. LinksNameRows'
    BY <1>3, <2>1 DEF SyncInv, LinksNameRows
  <2> QED
    BY <1>1, <1>3, <2>1, <2>2, <2>3, OneTurns, RequestKeeps
    DEF Link, schoolVars, Fail
<1> QED
  BY <1>4, <1>5

LEMMA EnsureAttendanceKeeps ==
  ASSUME SyncInv, NEW c \in Publishers, EnsureAttendance(c)
  PROVE  SyncInv'
<1>1. /\ TypeOK' /\ Grown
      /\ publish'[c].at = "queue" /\ publish'[c].occ = publish[c].occ
      /\ publish'[c].copy = publish[c].copy
  BY EnsureAttendanceTypes
<1>2. /\ publish[c].occ \in Occ /\ publish[c].copy = link[publish[c].occ]
      /\ link[publish[c].occ] # 0 /\ UNCHANGED link
  BY Stands DEF EnsureAttendance, Standing
<1>3. Standing(publish'[c], copies', link')
  BY <1>1, <1>2 DEF Standing
<1>4. QueueSound /\ LinksNameRows'
  BY <1>1, StillSound DEF EnsureAttendance, Grown
<1> QED
  BY <1>1, <1>3, <1>4, OneTurns, RequestKeeps DEF EnsureAttendance, schoolVars

LEMMA QueueKeeps ==
  ASSUME SyncInv, NEW c \in Publishers, Queue(c)
  PROVE  SyncInv'
<1>1. /\ TypeOK' /\ Grown /\ publish'[c].at = "done"
      /\ DOMAIN outbound' = DOMAIN outbound \cup {Len(outbound) + 1}
      /\ \A i \in DOMAIN outbound : outbound'[i] = outbound[i]
      /\ LET ch == outbound'[Len(outbound) + 1]
         IN /\ ch.occ = publish[c].occ /\ ch.copy = publish[c].copy
            /\ ~ch.delivered
  BY QueueTypes
<1>2. /\ publish[c].copy = link[publish[c].occ]
      /\ link[publish[c].occ] # 0 /\ UNCHANGED link
  BY Stands DEF Queue, Standing
<1>3. QueueSound
  BY <1>1, <1>2 DEF QueueSound
<1>4. Standing(publish'[c], copies', link')
  BY <1>1, PlainStanding
<1>5. LinksNameRows'
  BY <1>1, StillSound DEF Queue, Grown
<1> QED
  BY <1>1, <1>3, <1>4, <1>5, OneTurns, RequestKeeps DEF Queue, schoolVars

LEMMA StopPublishKeeps ==
  ASSUME SyncInv, NEW c \in Publishers, StopPublish(c)
  PROVE  SyncInv'
<1>1. Turn(c, [publish[c] EXCEPT !.at = "dead"])
  BY DEF StopPublish
<1>2. publish'[c].at = "dead"
  BY <1>1, Stands, OneTurns DEF PublishState
<1>3. Standing(publish'[c], copies', link')
  BY <1>2, PlainStanding
<1>4. TypeOK' /\ Grown
  BY StopPublishTypes
<1>5. QueueSound /\ LinksNameRows'
  BY <1>4, StillSound DEF StopPublish, opsVars, Grown
<1> QED
  BY <1>1, <1>3, <1>4, <1>5, OneTurns, RequestKeeps
  DEF StopPublish, opsVars, schoolVars

LEMMA WaitingKeeps ==
  ASSUME SyncInv, NEW y \in Syncs, Waiting(y)
  PROVE  SyncInv'
<1>1. TypeOK' /\ Grown
  BY WaitingTypes
<1>2. UNCHANGED <<outbound, marked, applied, school, publish, link>>
  BY DEF Waiting, opsVars, schoolVars
<1>3. Running(sync[y])'
  BY <1>2, WaitingTypes DEF Running
<1>4. QueueSound /\ MarksSound /\ AppliedSound /\ SessionsSound
  BY <1>1, <1>2, StillSound DEF Grown
<1>5. \A z \in Syncs : z # y => sync'[z] = sync[z]
  BY OneSteps DEF Waiting
<1> QED
  BY <1>1, <1>2, <1>3, <1>4, <1>5, RunKeeps

LEMMA DeliverKeeps ==
  ASSUME SyncInv, NEW y \in Syncs, Deliver(y)
  PROVE  SyncInv'
<1> DEFINE ch == outbound[Oldest(sync[y].todo)]
<1>1. /\ TypeOK' /\ Grown
      /\ \A o \in Occ : \A r \in school'[o] : link[o] # 0 /\ r.copy = link[o]
      /\ \A o \in Occ : \A r, q \in school'[o] : r = q
      /\ \/ sync'[y].at = "idle"
         \/ /\ sync'[y].at = "mark" /\ sync'[y].todo = sync[y].todo
            /\ \E r \in school'[ch.occ] : r.copy = ch.copy
  BY DeliverTypes
<1>2. UNCHANGED <<outbound, marked, applied, publish, link>>
  BY DEF Deliver, opsVars
<1>3. Running(sync[y])'
  <2>1. CASE sync'[y].at = "idle"
    BY <2>1 DEF Running
  <2>2. CASE sync'[y].at = "mark"
    <3>1. /\ sync'[y].todo = sync[y].todo
          /\ \E r \in school'[ch.occ] : r.copy = ch.copy
      BY <1>1, <2>2
    <3>2. sync[y].todo # {} /\ sync[y].todo \subseteq DOMAIN outbound
      BY Runs DEF Deliver, Running
    <3>3. AtSchool(Oldest(sync[y].todo))'
      BY <1>2, <3>1 DEF AtSchool
    <3> QED
      BY <1>2, <2>2, <3>1, <3>2, <3>3 DEF Running
  <2> QED
    BY <1>1, <2>1, <2>2
<1>4. SessionsSound
  BY <1>1, <1>2 DEF SessionsSound, SyncInv, TravelsLinked
<1>5. QueueSound /\ MarksSound /\ AppliedSound
  BY <1>2, StillSound
<1>6. \A z \in Syncs : z # y => sync'[z] = sync[z]
  BY OneSteps DEF Deliver
<1> QED
  BY <1>1, <1>2, <1>3, <1>4, <1>5, <1>6, RunKeeps

LEMMA DeliveredAtKeeps ==
  ASSUME SyncInv, NEW y \in Syncs, DeliveredAt(y)
  PROVE  SyncInv'
<1>1. /\ TypeOK' /\ Grown /\ DOMAIN outbound' = DOMAIN outbound
      /\ \A i \in DOMAIN outbound :
           outbound'[i].delivered => outbound[i].delivered \/ AtSchool(i)
      /\ \/ sync'[y].at = "collect"
         \/ /\ sync'[y].at = "deliver" /\ sync'[y].todo # {}
            /\ sync'[y].todo \subseteq DOMAIN outbound
  BY DeliveredAtTypes
<1>2. UNCHANGED <<marked, applied, school, publish, link>>
  BY DEF DeliveredAt, schoolVars
<1>3. Running(sync[y])'
  BY <1>1 DEF Running
<1>4. QueueSound
  BY <1>1 DEF QueueSound
<1>5. MarksSound /\ AppliedSound /\ SessionsSound
  BY <1>1, <1>2, StillSound DEF Grown
<1>6. \A z \in Syncs : z # y => sync'[z] = sync[z]
  BY OneSteps DEF DeliveredAt
<1> QED
  BY <1>1, <1>2, <1>3, <1>4, <1>5, <1>6, RunKeeps

LEMMA CollectKeeps ==
  ASSUME SyncInv, NEW y \in Syncs, Collect(y)
  PROVE  SyncInv'
<1>1. TypeOK' /\ Grown
  BY CollectTypes
<1>2. UNCHANGED <<outbound, marked, applied, school, publish, link>>
  BY DEF Collect, opsVars, schoolVars
<1>3. Running(sync[y])'
  BY <1>2, CollectTypes DEF Running
<1>4. QueueSound /\ MarksSound /\ AppliedSound /\ SessionsSound
  BY <1>1, <1>2, StillSound DEF Grown
<1>5. \A z \in Syncs : z # y => sync'[z] = sync[z]
  <2>1. PICK k : Step(y, k)
    BY DEF Collect
  <2> QED
    BY <2>1, OneSteps
<1> QED
  BY <1>1, <1>2, <1>3, <1>4, <1>5, RunKeeps

LEMMA SeenKeeps ==
  ASSUME SyncInv, NEW y \in Syncs, Seen(y)
  PROVE  SyncInv'
<1>1. /\ TypeOK' /\ Grown /\ sync'[y].todo = sync[y].todo
      /\ \/ sync'[y].at = "shared"
         \/ sync'[y].at = "ack" /\ Oldest(sync[y].todo) \in applied
  BY SeenTypes
<1>2. UNCHANGED <<outbound, marked, applied, school, publish, link>>
  BY DEF Seen, opsVars, schoolVars
<1>3. sync[y].todo # {} /\ sync[y].todo \subseteq DOMAIN marked
  BY Runs DEF Seen, Running
<1>4. Running(sync[y])'
  BY <1>1, <1>2, <1>3 DEF Running
<1>5. QueueSound /\ MarksSound /\ AppliedSound /\ SessionsSound
  BY <1>1, <1>2, StillSound DEF Grown
<1>6. \A z \in Syncs : z # y => sync'[z] = sync[z]
  BY OneSteps DEF Seen
<1> QED
  BY <1>1, <1>2, <1>4, <1>5, <1>6, RunKeeps

LEMMA StoreSharedKeeps ==
  ASSUME SyncInv, NEW y \in Syncs, StoreShared(y)
  PROVE  SyncInv'
<1>1. /\ TypeOK' /\ Grown
      /\ sync'[y].at = "ops" /\ sync'[y].todo = sync[y].todo
      /\ OnCopy(Oldest(sync[y].todo))'
  BY StoreSharedTypes
<1>2. UNCHANGED <<outbound, marked, applied, school, publish, link>>
  BY DEF StoreShared, schoolVars
<1>3. sync[y].todo # {} /\ sync[y].todo \subseteq DOMAIN marked
  BY Runs DEF StoreShared, Running
<1>4. Running(sync[y])'
  BY <1>1, <1>2, <1>3 DEF Running
<1>5. QueueSound /\ MarksSound /\ AppliedSound /\ SessionsSound
  BY <1>1, <1>2, StillSound DEF Grown
<1>6. \A z \in Syncs : z # y => sync'[z] = sync[z]
  BY OneSteps DEF StoreShared
<1> QED
  BY <1>1, <1>2, <1>4, <1>5, <1>6, RunKeeps

LEMMA StoreOpsKeeps ==
  ASSUME SyncInv, NEW y \in Syncs, StoreOps(y)
  PROVE  SyncInv'
<1> DEFINE i == Oldest(sync[y].todo)
<1>1. /\ TypeOK' /\ Grown
      /\ sync'[y].at = "applied" /\ sync'[y].todo = sync[y].todo
      /\ mark'[marked[i].occ].by # "nobody"
  BY StoreOpsTypes
<1>2. UNCHANGED <<outbound, marked, applied, school, publish, link>>
  BY DEF StoreOps, schoolVars
<1>3. /\ sync[y].todo # {} /\ sync[y].todo \subseteq DOMAIN marked
      /\ OnCopy(i) /\ i \in DOMAIN marked
  BY Runs, MarkOf DEF StoreOps, Running
<1>4. OnCopy(i)'
  BY <1>1, <1>3, ReachedStays
<1>5. OnParticipant(i)'
  BY <1>1, <1>2 DEF OnParticipant
<1>6. i' = i
  BY <1>1
<1> HIDE DEF i
<1>7. Running(sync[y])'
  BY <1>1, <1>2, <1>3, <1>4, <1>5, <1>6 DEF Running, i
<1>8. QueueSound /\ MarksSound /\ AppliedSound /\ SessionsSound
  BY <1>1, <1>2, StillSound DEF Grown
<1>9. \A z \in Syncs : z # y => sync'[z] = sync[z]
  BY OneSteps DEF StoreOps
<1> QED
  BY <1>1, <1>2, <1>7, <1>8, <1>9, RunKeeps

(* A mark is remembered only once copy and participant show it.            *)
LEMMA RememberKeeps ==
  ASSUME SyncInv, NEW y \in Syncs, Remember(y)
  PROVE  SyncInv'
<1> DEFINE i == Oldest(sync[y].todo)
<1>1. /\ TypeOK' /\ Grown /\ applied' \subseteq applied \cup {i}
      /\ \/ sync'[y].at = "idle"
         \/ /\ sync'[y].at = "ack" /\ sync'[y].todo = sync[y].todo
            /\ i \in applied'
  BY RememberTypes
<1>2. UNCHANGED <<outbound, marked, school, publish, link>>
  BY DEF Remember, schoolVars
<1>3. /\ sync[y].todo # {} /\ sync[y].todo \subseteq DOMAIN marked
      /\ OnCopy(i) /\ OnParticipant(i) /\ i \in DOMAIN marked
  BY Runs, MarkOf DEF Remember, Running
<1>4. Running(sync[y])'
  BY <1>1, <1>2, <1>3 DEF Running
<1>5. AppliedSound
  BY <1>1, <1>3 DEF AppliedSound
<1>6. QueueSound /\ MarksSound /\ SessionsSound
  BY <1>1, <1>2, StillSound DEF Grown
<1>7. \A z \in Syncs : z # y => sync'[z] = sync[z]
  <2>1. PICK k : Step(y, k)
    BY DEF Remember
  <2> QED
    BY <2>1, OneSteps
<1> QED
  BY <1>1, <1>2, <1>4, <1>5, <1>6, <1>7, RunKeeps

LEMMA AcknowledgeKeeps ==
  ASSUME SyncInv, NEW y \in Syncs, Acknowledge(y)
  PROVE  SyncInv'
<1>1. /\ TypeOK' /\ Grown /\ DOMAIN marked' = DOMAIN marked
      /\ \A i \in DOMAIN marked :
           marked'[i].acked => marked[i].acked \/ i \in applied
      /\ \/ sync'[y].at = "idle"
         \/ /\ sync'[y].at = "seen" /\ sync'[y].todo # {}
            /\ sync'[y].todo \subseteq DOMAIN marked
  BY AcknowledgeTypes
<1>2. UNCHANGED <<outbound, applied, school, publish, link>>
  BY DEF Acknowledge, opsVars
<1>3. Running(sync[y])'
  BY <1>1 DEF Running
<1>4. MarksSound
  BY <1>1 DEF MarksSound
<1>5. QueueSound /\ AppliedSound /\ SessionsSound
  BY <1>1, <1>2, StillSound DEF Grown
<1>6. \A z \in Syncs : z # y => sync'[z] = sync[z]
  BY OneSteps DEF Acknowledge
<1> QED
  BY <1>1, <1>2, <1>3, <1>4, <1>5, <1>6, RunKeeps

LEMMA StopSyncKeeps ==
  ASSUME SyncInv, NEW y \in Syncs, StopSync(y)
  PROVE  SyncInv'
<1>1. TypeOK' /\ Grown /\ sync'[y].at = "idle"
  BY StopSyncTypes
<1>2. UNCHANGED <<outbound, marked, applied, school, publish, link>>
  BY DEF StopSync, opsVars, schoolVars
<1>3. Running(sync[y])'
  BY <1>1 DEF Running
<1>4. QueueSound /\ MarksSound /\ AppliedSound /\ SessionsSound
  BY <1>1, <1>2, StillSound DEF Grown
<1>5. \A z \in Syncs : z # y => sync'[z] = sync[z]
  BY OneSteps DEF StopSync
<1> QED
  BY <1>1, <1>2, <1>3, <1>4, <1>5, RunKeeps

(* What nobody's request and no run does.                                  *)
LEMMA AroundKeeps ==
  ASSUME SyncInv, TypeOK', Grown,
         UNCHANGED <<publish, sync, link, outbound, applied>>,
         MarksSound, SessionsSound
  PROVE  SyncInv'
<1>1. \A d \in Publishers : Standing(publish'[d], copies', link')
  BY OthersStand
<1>2. \A z \in Syncs : Running(sync[z])'
  BY OthersRun
<1>3. QueueSound /\ AppliedSound /\ LinksNameRows'
  BY StillSound DEF Grown
<1>4. TravelsLinked' /\ NothingSkipped'
  BY <1>3, TravelsKept, NothingSkippedKept
<1> QED
  BY <1>1, <1>2, <1>3, <1>4 DEF SyncInv

LEMMA HandMarkKeeps ==
  ASSUME SyncInv, NEW o \in Occ, NEW s \in Mark, HandMark(o, s)
  PROVE  SyncInv'
<1>1. TypeOK' /\ Grown
  BY HandMarkTypes
<1>2. UNCHANGED <<publish, sync, link, outbound, applied, marked, school>>
  BY DEF HandMark, schoolVars
<1>3. MarksSound /\ SessionsSound
  BY <1>1, <1>2, StillSound DEF Grown
<1> QED
  BY <1>1, <1>2, <1>3, AroundKeeps

LEMMA SchoolMarksKeeps ==
  ASSUME SyncInv, NEW o \in Occ, NEW s \in Mark, SchoolMarks(o, s)
  PROVE  SyncInv'
<1>1. /\ TypeOK' /\ Grown
      /\ \A x \in Occ : \A r \in school'[x] : r.copy = link[x] /\ link[x] # 0
      /\ \A x \in Occ : \A r, q \in school'[x] : r = q
      /\ DOMAIN marked' = DOMAIN marked \cup {Len(marked) + 1}
      /\ \A i \in DOMAIN marked : marked'[i] = marked[i]
      /\ LET m == marked'[Len(marked) + 1]
         IN /\ m.occ = o /\ m.copy = link[o] /\ link[o] # 0 /\ ~m.acked
  BY SchoolMarksTypes
<1>2. UNCHANGED <<publish, sync, link, outbound, applied>>
  BY DEF SchoolMarks, opsVars
<1>3. MarksSound
  BY <1>1, <1>2 DEF MarksSound
<1>4. SessionsSound
  BY <1>1, <1>2 DEF SessionsSound
<1> QED
  BY <1>1, <1>2, <1>3, <1>4, AroundKeeps

LEMMA LinkCastKeeps ==
  ASSUME SyncInv, NEW p \in Cast, LinkCast(p)
  PROVE  SyncInv'
<1>1. TypeOK' /\ Grown
  BY LinkCastTypes
<1>2. UNCHANGED <<publish, sync, link, outbound, applied, marked, school>>
  BY DEF LinkCast, EnsureUser, LinkUser, schoolVars
<1>3. MarksSound /\ SessionsSound
  BY <1>1, <1>2, StillSound DEF Grown
<1> QED
  BY <1>1, <1>2, <1>3, AroundKeeps

LEMMA SyncInitially ==
  Init => SyncInv
<1> SUFFICES ASSUME Init PROVE SyncInv
  OBVIOUS
<1>1. /\ outbound = <<>> /\ marked = <<>> /\ applied = {}
      /\ \A o \in Occ : school[o] = {}
      /\ \A c \in Publishers : publish[c].at = "idle"
      /\ \A y \in Syncs : sync[y].at = "idle"
      /\ \A x \in Key : link[x] = 0 /\ copies[x] = <<>>
  BY DEF Init, Fresh, Asleep
<1>2. DOMAIN outbound = {} /\ DOMAIN marked = {}
  BY <1>1
<1>3. TypeOK
  <2>1. Fresh \in PublishState /\ Asleep \in SyncState
    BY DEF Fresh, Asleep, PublishState, SyncState, Mark
  <2>2. /\ publish \in [Publishers -> PublishState]
        /\ sync \in [Syncs -> SyncState]
    BY <2>1 DEF Init
  <2>3. person \in [Person -> [row : SharedId \cup {None},
                             link : SharedId \cup {None}]]
    BY DEF Init, SharedId
  <2>4. known \subseteq Person /\ stops \in 0 .. MaxStops
    BY SyncAssumption DEF Init
  <2>5. mark \in [Occ -> [status : Mark, by : {"nobody", "ops", "school"}]]
    BY DEF Init, Mark
  <2>6. /\ outbound \in Seq(OutboundRow) /\ marked \in Seq(MarkRow)
        /\ copies \in [Key -> Seq(CopyRow)]
    BY EmptySeq DEF Init
  <2>7. /\ version \in [Occ -> Nat] /\ link \in [Key -> Nat]
        /\ school \in [Occ -> SUBSET SchoolSession]
        /\ applied \subseteq DOMAIN marked
    BY <1>1 DEF Init
  <2> QED
    BY <2>2, <2>3, <2>4, <2>5, <2>6, <2>7 DEF TypeOK
<1>4. LinksNameRows
  BY <1>1, EmptySeq DEF LinksNameRows
<1>5. TravelsLinked /\ NothingSkipped
  BY <1>1, <1>2 DEF TravelsLinked, NothingSkipped
<1>6. \A c \in Publishers : Standing(publish[c], copies, link)
  BY <1>1 DEF Standing
<1>7. \A y \in Syncs : Running(sync[y])
  BY <1>1 DEF Running
<1> QED
  BY <1>3, <1>4, <1>5, <1>6, <1>7 DEF SyncInv

(* Standing still keeps everything.                                        *)
LEMMA StillKeeps ==
  ASSUME SyncInv, UNCHANGED vars
  PROVE  SyncInv' /\ Grown
<1>1. UNCHANGED <<version, copies, link, person, outbound, applied, mark, known,
                 school, marked, publish, sync, stops>>
  BY DEF vars, opsVars, schoolVars
<1>2. TypeOK'
  BY <1>1 DEF SyncInv, TypeOK
<1>3. Grown
  BY <1>1, StillStays DEF Grown
<1>4. MarksSound /\ SessionsSound
  BY <1>1, <1>3, StillSound DEF Grown
<1> QED
  BY <1>1, <1>2, <1>3, <1>4, AroundKeeps

(* One step, whoever makes it.                                             *)
LEMMA SyncStep ==
  ASSUME SyncInv, [Next]_vars
  PROVE  SyncInv' /\ Grown
<1>1. ASSUME NEW c \in Publishers, Publish(c) PROVE SyncInv' /\ Grown
  <2>1. CASE Change(c)
    BY <2>1, ChangeKeeps, ChangeTypes
  <2>2. CASE Read(c)
    BY <2>2, ReadKeeps, ReadTypes
  <2>3. CASE FindPerson(c)
    BY <2>3, FindPersonKeeps, FindPersonTypes
  <2>4. CASE CreatePerson(c)
    BY <2>4, CreatePersonKeeps, CreatePersonTypes
  <2>5. CASE LinkPerson(c)
    BY <2>5, LinkPersonKeeps, LinkPersonTypes
  <2>6. CASE Refresh(c)
    BY <2>6, RefreshKeeps, RefreshTypes
  <2>7. CASE Create(c)
    BY <2>7, CreateKeeps, CreateTypes
  <2>8. CASE Link(c)
    BY <2>8, LinkKeeps, LinkTypes
  <2>9. CASE EnsureAttendance(c)
    BY <2>9, EnsureAttendanceKeeps, EnsureAttendanceTypes
  <2>10. CASE Queue(c)
    BY <2>10, QueueKeeps, QueueTypes
  <2> QED
    BY <1>1, <2>1, <2>2, <2>3, <2>4, <2>5, <2>6, <2>7, <2>8, <2>9, <2>10
    DEF Publish
<1>2. ASSUME NEW y \in Syncs, Sync(y) PROVE SyncInv' /\ Grown
  <2>1. CASE Waiting(y)
    BY <2>1, WaitingKeeps, WaitingTypes
  <2>2. CASE Deliver(y)
    BY <2>2, DeliverKeeps, DeliverTypes
  <2>3. CASE DeliveredAt(y)
    BY <2>3, DeliveredAtKeeps, DeliveredAtTypes
  <2>4. CASE Collect(y)
    BY <2>4, CollectKeeps, CollectTypes
  <2>5. CASE Seen(y)
    BY <2>5, SeenKeeps, SeenTypes
  <2>6. CASE StoreShared(y)
    BY <2>6, StoreSharedKeeps, StoreSharedTypes
  <2>7. CASE StoreOps(y)
    BY <2>7, StoreOpsKeeps, StoreOpsTypes
  <2>8. CASE Remember(y)
    BY <2>8, RememberKeeps, RememberTypes
  <2>9. CASE Acknowledge(y)
    BY <2>9, AcknowledgeKeeps, AcknowledgeTypes
  <2> QED
    BY <1>2, <2>1, <2>2, <2>3, <2>4, <2>5, <2>6, <2>7, <2>8, <2>9 DEF Sync
<1>3. ASSUME NEW c \in Publishers, StopPublish(c) PROVE SyncInv' /\ Grown
  BY <1>3, StopPublishKeeps, StopPublishTypes
<1>4. ASSUME NEW y \in Syncs, StopSync(y) PROVE SyncInv' /\ Grown
  BY <1>4, StopSyncKeeps, StopSyncTypes
<1>5. ASSUME NEW o \in Occ, NEW s \in Mark, HandMark(o, s)
      PROVE  SyncInv' /\ Grown
  BY <1>5, HandMarkKeeps, HandMarkTypes
<1>6. ASSUME NEW o \in Occ, NEW s \in Mark, SchoolMarks(o, s)
      PROVE  SyncInv' /\ Grown
  BY <1>6, SchoolMarksKeeps, SchoolMarksTypes
<1>7. ASSUME NEW p \in Cast, LinkCast(p) PROVE SyncInv' /\ Grown
  BY <1>7, LinkCastKeeps, LinkCastTypes
<1>8. CASE UNCHANGED vars
  BY <1>8, StillKeeps
<1> QED
  BY <1>1, <1>2, <1>3, <1>4, <1>5, <1>6, <1>7, <1>8 DEF Next

-----------------------------------------------------------------------------
(* The theorems.                                                           *)

LEMMA SyncInvariant == Spec => []SyncInv
<1>1. Init => SyncInv
  BY SyncInitially
<1>2. SyncInv /\ [Next]_vars => SyncInv'
  BY SyncStep
<1> QED
  BY <1>1, <1>2, PTL DEF Spec

(* Every step of publishing, of sync:local, of the school and of           *)
(* db:link-schools keeps the types, whatever they are interleaved with.    *)
THEOREM SyncTypeCorrect == Spec => []TypeOK
<1>1. SyncInv => TypeOK
  BY DEF SyncInv
<1> QED
  BY <1>1, SyncInvariant, PTL

(* publishOccurrence and sync:local: however many requests race and stop   *)
(* between statements, all that is queued and all that is at the school is *)
(* the one linked copy of its occurrence.                                  *)
THEOREM OneCopyAlways == Spec => []OneCopy
<1>1. SyncInv => OneCopy
  BY DEF SyncInv, TravelsLinked, OneCopy
<1> QED
  BY <1>1, SyncInvariant, PTL

(* syncLocal and applyInboundAttendance: wherever runs stop and however    *)
(* they overlap, a change ticked off is at the school, a mark acknowledged *)
(* is remembered, and a mark remembered is on copy and participant.        *)
THEOREM NothingSkippedAlways == Spec => []NothingSkipped
<1>1. SyncInv => NothingSkipped
  BY DEF SyncInv
<1> QED
  BY <1>1, SyncInvariant, PTL

(* No statement takes back what another did: a link once made is never     *)
(* repointed, a queued change and a mark keep what they are of, a session  *)
(* delivered stays, a mark remembered stays so.                            *)
THEOREM NothingTakenBack == Spec => [][Grown]_vars
<1>1. SyncInv /\ [Next]_vars => [Grown]_vars
  BY SyncStep
<1> QED
  BY <1>1, SyncInvariant, PTL DEF Spec

(* The school's marks change only where a mark is made: of the statements, *)
(* only a delivery and a mark write the school's sessions.                 *)
LEMMA MarksKept ==
  ASSUME SyncInv, [Next]_vars
  PROVE  \A o \in Occ : \A r \in school[o] :
           \/ \E q \in school'[o] : q.copy = r.copy /\ q.mark = r.mark
           \/ marked' # marked
<1>1. \/ UNCHANGED school
      \/ \E y \in Syncs : Deliver(y)
      \/ \E o \in Occ, s \in Mark : SchoolMarks(o, s)
  BY DEF Next, vars, opsVars, schoolVars, Publish, Sync, LinkCast, Change, Read,
         FindPerson, CreatePerson, LinkPerson, Refresh, Create, Link,
         EnsureAttendance, Queue, StopPublish, Waiting, DeliveredAt, Collect,
         Seen, StoreShared, StoreOps, Remember, Acknowledge, StopSync,
         HandMark, EnsureUser, LinkUser
<1>2. CASE UNCHANGED school
  BY <1>2
<1>3. ASSUME NEW y \in Syncs, Deliver(y)
      PROVE  \A o \in Occ : \A r \in school[o] :
               \E q \in school'[o] : q.copy = r.copy /\ q.mark = r.mark
  BY <1>3, DeliverTypes
<1>4. ASSUME NEW o \in Occ, NEW s \in Mark, SchoolMarks(o, s)
      PROVE  marked' # marked
  <2>1. /\ Len(marked) \in Nat
        /\ DOMAIN marked' = DOMAIN marked \cup {Len(marked) + 1}
    BY <1>4, SchoolMarksTypes
  <2>2. DOMAIN marked = 1 .. Len(marked)
    BY LenProperties DEF SyncInv, TypeOK
  <2> QED
    BY <2>1, <2>2
<1> QED
  BY <1>1, <1>2, <1>3, <1>4

(* applySessionPayload leaves an attendance row that is there alone: a     *)
(* redelivered, late or out-of-order change never undoes the school's mark.*)
THEOREM SchoolMarkKeptAlways == Spec => SchoolMarkKept
<1>1. SyncInv /\ [Next]_vars =>
        [\A o \in Occ : \A r \in school[o] :
           \/ \E q \in school'[o] : q.copy = r.copy /\ q.mark = r.mark
           \/ marked' # marked]_vars
  BY MarksKept
<1> QED
  BY <1>1, SyncInvariant, PTL DEF Spec, SchoolMarkKept
-----------------------------------------------------------------------------
(* One at a time.  Requests that publish one after another, and a run of   *)
(* sync:local at a time, keep the order of what was written and marked.    *)

InTurn == \A c, d \in Publishers : Busy(c) /\ Busy(d) => c = d

(* A request past its read works on the occurrence as it is.               *)
Imaged(k) ==
  k.at \notin {"idle", "read", "done", "failed", "dead"} =>
    k.image = version[k.occ]

(* The queue has each occurrence in the order it was written, to the last  *)
(* unless the request that wrote it is still to queue it, or never will.   *)
QueueOrdered ==
  /\ \A i \in DOMAIN outbound : outbound[i].version <= version[outbound[i].occ]
  /\ \A i, j \in DOMAIN outbound :
       i < j /\ outbound[i].occ = outbound[j].occ
         => outbound[i].version <= outbound[j].version
Represented ==
  \A o \in Occ : version[o] > 0 =>
    \/ \E i \in DOMAIN outbound :
         outbound[i].occ = o /\ outbound[i].version = version[o]
    \/ \E c \in Publishers : /\ publish[c].at \notin {"idle", "done"}
                             /\ publish[c].occ = o

(* The school is at most as far as what it still waits for, and at least   *)
(* as far as what it was given.                                            *)
Reached(i) == \E r \in school[outbound[i].occ] :
                outbound[i].version <= r.version
SchoolOrdered ==
  /\ \A o \in Occ : \A r \in school[o] :
       /\ r.version <= version[o]
       /\ \A j \in DOMAIN outbound :
            outbound[j].occ = o /\ ~outbound[j].delivered
              => r.version <= outbound[j].version
  /\ \A i \in DOMAIN outbound : outbound[i].delivered => Reached(i)

(* A run has to do what was waiting, and whatever came since is younger.   *)
Delivering(s) ==
  /\ s.at \in {"deliver", "mark"} =>
       /\ \A i \in s.todo : ~outbound[i].delivered
       /\ \A i \in DOMAIN outbound : ~outbound[i].delivered =>
            i \in s.todo \/ \A j \in s.todo : j < i
  /\ s.at = "mark" => Reached(Oldest(s.todo))

OrderInv ==
  /\ InTurn /\ QueueOrdered /\ Represented /\ SchoolOrdered
  /\ \A c \in Publishers : Imaged(publish[c])
  /\ \A y \in Syncs : Delivering(sync[y])

(* A request that goes on without a new change and without queueing one    *)
(* keeps its occurrence, and its image once it has read it.                *)
Onward(c) ==
  /\ UNCHANGED <<version, outbound, school, sync>>
  /\ Busy(c)
  /\ \A d \in Publishers : d # c => publish'[d] = publish[d]
  /\ publish'[c].occ = publish[c].occ
  /\ publish'[c].at \notin {"idle", "done"}
  /\ \/ publish'[c].image = version[publish[c].occ]
     \/ publish'[c].image = publish[c].image /\ publish[c].at # "read"
     \/ publish'[c].at \in {"failed", "dead"}

LEMMA FailOnward ==
  ASSUME SyncInv, NEW c \in Publishers, Fail(c)
  PROVE  /\ publish'[c].occ = publish[c].occ /\ publish'[c].at = "failed"
         /\ \A d \in Publishers : d # c => publish'[d] = publish[d]
BY Stands, OneTurns DEF Fail, PublishState

LEMMA NamedOnward ==
  ASSUME SyncInv, NEW c \in Publishers, NEW p, NEW id,
         Turn(c, Named(publish[c], p, id))
  PROVE  /\ publish'[c].occ = publish[c].occ
         /\ publish'[c].image = publish[c].image
         /\ publish'[c].at \in {"pod", "people"}
         /\ \A d \in Publishers : d # c => publish'[d] = publish[d]
<1> DEFINE at == IF publish[c].need = {p} THEN "pod" ELSE "people"
           k == Named(publish[c], p, id)
<1>1. publish[c] \in PublishState /\ at \in {"pod", "people"}
  BY Stands
<1>2. k.at = at /\ k.occ = publish[c].occ /\ k.image = publish[c].image
  BY <1>1 DEF Named, PublishState
<1> HIDE DEF at, k
<1>3. publish'[c] = k /\ \A d \in Publishers : d # c => publish'[d] = publish[d]
  BY OneTurns DEF k
<1> QED
  BY <1>1, <1>2, <1>3

LEMMA KeptOnward ==
  ASSUME SyncInv, NEW c \in Publishers, NEW n, Turn(c, Kept(publish[c], n))
  PROVE  /\ publish'[c].occ = publish[c].occ
         /\ publish'[c].image = publish[c].image
         /\ publish'[c].at \in {"session", "attendance"}
         /\ \A d \in Publishers : d # c => publish'[d] = publish[d]
<1> DEFINE k == Kept(publish[c], n)
<1>1. publish[c] \in PublishState
  BY Stands
<1>2. /\ k.at \in {"session", "attendance"} /\ k.occ = publish[c].occ
      /\ k.image = publish[c].image
  BY <1>1 DEF Kept, PublishState
<1> HIDE DEF k
<1>3. publish'[c] = k /\ \A d \in Publishers : d # c => publish'[d] = publish[d]
  BY OneTurns DEF k
<1> QED
  BY <1>2, <1>3

LEMMA GoesOnward ==
  ASSUME SyncInv, NEW c \in Publishers, Publish(c) \/ StopPublish(c),
         ~Change(c), ~Queue(c)
  PROVE  Onward(c)
<1>1. publish[c] \in PublishState
  BY Stands
<1>2. CASE Read(c)
  <2> DEFINE k == [publish[c] EXCEPT !.at = "people",
                                     !.image = version[publish[c].occ],
                                     !.need = People[publish[c].occ]]
  <2>1. Turn(c, k) /\ Busy(c)
    BY <1>2 DEF Read, Busy
  <2>2. /\ k.at = "people" /\ k.occ = publish[c].occ
        /\ k.image = version[publish[c].occ]
    BY <1>1 DEF PublishState
  <2> HIDE DEF k
  <2> QED
    BY <1>2, <2>1, <2>2, OneTurns DEF Read, Onward, opsVars, schoolVars
<1>3. CASE FindPerson(c)
  <2>1. PICK p \in publish[c].need : Turn(c, Named(publish[c], p, person[p].link))
    BY <1>3 DEF FindPerson
  <2> QED
    BY <1>3, <2>1, NamedOnward DEF FindPerson, Onward, Busy, opsVars, schoolVars
<1>4. CASE CreatePerson(c)
  <2>1. PICK p \in publish[c].need :
          \/ Turn(c, [publish[c] EXCEPT !.at = "person", !.who = p])
          \/ Fail(c)
    BY <1>4 DEF CreatePerson
  <2> DEFINE k == [publish[c] EXCEPT !.at = "person", !.who = p]
  <2>2. k.at = "person" /\ k.occ = publish[c].occ /\ k.image = publish[c].image
    BY <1>1 DEF PublishState
  <2>3. Turn(c, k) \/ Fail(c)
    BY <2>1
  <2> HIDE DEF k
  <2>4. CASE Turn(c, k)
    BY <1>4, <2>2, <2>4, OneTurns DEF CreatePerson, Onward, Busy, schoolVars
  <2>5. CASE Fail(c)
    BY <1>4, <2>5, FailOnward DEF CreatePerson, Onward, Busy, schoolVars
  <2> QED
    BY <2>3, <2>4, <2>5
<1>5. CASE LinkPerson(c)
  <2>1. Turn(c, Named(publish[c], publish[c].who, "ops")) \/ Fail(c)
    BY <1>5 DEF LinkPerson
  <2> QED
    BY <1>5, <2>1, NamedOnward, FailOnward
    DEF LinkPerson, Onward, Busy, schoolVars
<1>6. CASE Refresh(c)
  <2>1. Turn(c, Kept(publish[c], link[KeyOf(publish[c])]))
    BY <1>6 DEF Refresh
  <2> QED
    BY <1>6, <2>1, KeptOnward DEF Refresh, Onward, Busy, schoolVars
<1>7. CASE Create(c)
  <2> DEFINE to == IF publish[c].at = "pod" THEN "podlink" ELSE "sessionlink"
             n == Len(copies[KeyOf(publish[c])]) + 1
             k == [publish[c] EXCEPT !.copy = n, !.at = to]
  <2>1. Turn(c, k) /\ to \in {"podlink", "sessionlink"}
    BY <1>7 DEF Create
  <2> HIDE DEF to, n
  <2>2. k.at = to /\ k.occ = publish[c].occ /\ k.image = publish[c].image
    BY <1>1 DEF PublishState
  <2> HIDE DEF k
  <2> QED
    BY <1>7, <2>1, <2>2, OneTurns DEF Create, Onward, Busy, schoolVars
<1>8. CASE Link(c)
  <2>1. Turn(c, Kept(publish[c], publish[c].copy)) \/ Fail(c)
    BY <1>8 DEF Link
  <2> QED
    BY <1>8, <2>1, KeptOnward, FailOnward DEF Link, Onward, Busy, schoolVars
<1>9. CASE EnsureAttendance(c)
  <2> DEFINE there == copies[publish[c].occ][publish[c].copy].mark
             m == IF there = None THEN "UNMARKED" ELSE there
             k == [publish[c] EXCEPT !.at = "queue", !.mark = m]
  <2>1. Turn(c, k)
    BY <1>9 DEF EnsureAttendance
  <2> HIDE DEF m
  <2>2. k.at = "queue" /\ k.occ = publish[c].occ /\ k.image = publish[c].image
    BY <1>1 DEF PublishState
  <2> HIDE DEF k
  <2> QED
    BY <1>9, <2>1, <2>2, OneTurns DEF EnsureAttendance, Onward, Busy, schoolVars
<1>10. CASE StopPublish(c)
  <2> DEFINE k == [publish[c] EXCEPT !.at = "dead"]
  <2>1. Turn(c, k) /\ Busy(c)
    BY <1>10 DEF StopPublish
  <2>2. k.at = "dead" /\ k.occ = publish[c].occ
    BY <1>1 DEF PublishState
  <2> HIDE DEF k
  <2> QED
    BY <1>10, <2>1, <2>2, OneTurns DEF StopPublish, Onward, opsVars, schoolVars
<1> QED
  BY <1>2, <1>3, <1>4, <1>5, <1>6, <1>7, <1>8, <1>9, <1>10 DEF Publish

(* What the invariant compares are numbers.                                *)
LEMMA Numbers ==
  ASSUME SyncInv
  PROVE  /\ DOMAIN outbound = 1 .. Len(outbound) /\ Len(outbound) \in Nat
         /\ \A i \in DOMAIN outbound : /\ outbound[i] \in OutboundRow
                                       /\ outbound[i].occ \in Occ
                                       /\ outbound[i].version \in Nat
         /\ \A o \in Occ : version[o] \in Nat
         /\ \A o \in Occ : \A r \in school[o] : r.version \in Nat
<1>1. outbound \in Seq(OutboundRow)
  BY DEF SyncInv, TypeOK
<1>2. DOMAIN outbound = 1 .. Len(outbound) /\ Len(outbound) \in Nat
  BY <1>1, LenProperties
<1>3. \A i \in DOMAIN outbound : outbound[i] \in OutboundRow
  BY <1>1, <1>2, ElementOfSeq
<1>4. version \in [Occ -> Nat] /\ school \in [Occ -> SUBSET SchoolSession]
  BY DEF SyncInv, TypeOK
<1> QED
  BY <1>2, <1>3, <1>4 DEF OutboundRow, SchoolSession

LEMMA OnwardOrders ==
  ASSUME SyncInv, OrderInv, NEW c \in Publishers, Onward(c)
  PROVE  OrderInv'
<1>1. InTurn'
  <2>1. \A d \in Publishers : Busy(d)' => Busy(d)
    BY DEF Onward, Busy
  <2> QED
    BY <2>1 DEF OrderInv, InTurn
<1>2. QueueOrdered' /\ SchoolOrdered'
  BY DEF OrderInv, QueueOrdered, SchoolOrdered, Reached, Onward
<1>3. Represented'
  BY DEF OrderInv, Represented, Onward, Busy
<1>4. \A d \in Publishers : Imaged(publish[d])'
  BY DEF OrderInv, Imaged, Onward, Busy
<1>5. \A y \in Syncs : Delivering(sync[y])'
  BY DEF OrderInv, Delivering, Reached, Onward, Oldest
<1> QED
  BY <1>1, <1>2, <1>3, <1>4, <1>5 DEF OrderInv
(* With one request at a time a change comes when nobody publishes.        *)
LEMMA ChangeOrders ==
  ASSUME SyncInv, OrderInv, MaxInFlight = 1, NEW c \in Publishers, Change(c)
  PROVE  OrderInv'
<1>1. PICK o \in Occ : /\ version' = [version EXCEPT ![o] = @ + 1]
                       /\ Turn(c, [Fresh EXCEPT !.at = "read", !.occ = o])
  BY DEF Change
<1>2. \A d \in Publishers : ~Busy(d)
  <2> SUFFICES ASSUME NEW d \in Publishers, Busy(d) PROVE FALSE
    OBVIOUS
  <2>1. {e \in Publishers : Busy(e)} = {d}
    BY DEF OrderInv, InTurn
  <2>2. Cardinality({d}) = 1
    BY FS_Singleton
  <2> QED
    BY <2>1, <2>2 DEF Change
<1> DEFINE k == [Fresh EXCEPT !.at = "read", !.occ = o]
<1>3. k.at = "read" /\ k.occ = o
  BY DEF Fresh
<1> HIDE DEF k
<1>4. publish'[c] = k /\ \A d \in Publishers : d # c => publish'[d] = publish[d]
  BY <1>1, OneTurns DEF k
<1>5. /\ version'[o] = version[o] + 1
      /\ \A x \in Occ : x # o => version'[x] = version[x]
      /\ \A x \in Occ : version[x] \in Nat /\ version[x] <= version'[x]
  BY <1>1 DEF SyncInv, TypeOK
<1>6. UNCHANGED <<outbound, school, sync>>
  BY DEF Change, schoolVars
<1>7. InTurn'
  BY <1>2, <1>3, <1>4 DEF InTurn, Busy
<1>8. QueueOrdered' /\ SchoolOrdered'
  <2>1. \A i \in DOMAIN outbound : outbound[i].version <= version'[outbound[i].occ]
    BY <1>5, Numbers DEF OrderInv, QueueOrdered
  <2>2. \A x \in Occ : \A r \in school[x] : r.version <= version'[x]
    BY <1>5, Numbers DEF OrderInv, SchoolOrdered
  <2> QED
    BY <1>6, <2>1, <2>2 DEF OrderInv, QueueOrdered, SchoolOrdered, Reached
<1>9. Represented'
  BY <1>3, <1>4, <1>5, <1>6 DEF Change, OrderInv, Represented
<1>10. \A d \in Publishers : Imaged(publish[d])'
  BY <1>2, <1>3, <1>4 DEF Imaged, Busy
<1>11. \A y \in Syncs : Delivering(sync[y])'
  BY <1>6 DEF OrderInv, Delivering, Reached, Oldest
<1> QED
  BY <1>7, <1>8, <1>9, <1>10, <1>11 DEF OrderInv

(* What is queued is the occurrence as it is, after all that came before.  *)
LEMMA QueueOrders ==
  ASSUME SyncInv, OrderInv, NEW c \in Publishers, Queue(c)
  PROVE  OrderInv'
<1> DEFINE o == publish[c].occ
           n == Len(outbound) + 1
           ch == [occ |-> o, copy |-> publish[c].copy,
                  version |-> publish[c].image, mark |-> publish[c].mark,
                  people |-> publish[c].ids, delivered |-> FALSE]
<1>1. /\ ch \in OutboundRow /\ o \in Occ
      /\ ch.occ = o /\ ch.version = version[o] /\ ~ch.delivered
  <2>1. /\ publish[c] \in PublishState /\ o \in Occ
        /\ publish[c].image = version[o]
    BY Stands DEF Queue, Standing, OrderInv, Imaged
  <2> QED
    BY <2>1 DEF PublishState, OutboundRow
<1> HIDE DEF ch
<1>2. outbound' = Append(outbound, ch)
  BY DEF Queue, ch
<1>3. /\ DOMAIN outbound = 1 .. Len(outbound) /\ Len(outbound) \in Nat
      /\ DOMAIN outbound' = DOMAIN outbound \cup {n}
      /\ \A i \in DOMAIN outbound : outbound'[i] = outbound[i] /\ i < n
  <2>1. DOMAIN outbound = 1 .. Len(outbound) /\ Len(outbound) \in Nat
    BY Numbers
  <2>2. /\ DOMAIN outbound' = DOMAIN outbound \cup {n}
        /\ \A i \in DOMAIN outbound : outbound'[i] = outbound[i]
    BY QueueTypes
  <2> QED
    BY <2>1, <2>2
<1>4. outbound'[n] = ch
  <2>1. outbound \in Seq(OutboundRow)
    BY DEF SyncInv, TypeOK
  <2> QED
    BY <1>1, <1>2, <2>1, AppendProperties
<1>5. UNCHANGED <<version, school, sync>>
  BY DEF Queue, schoolVars
<1>6. publish'[c].at = "done" /\ \A d \in Publishers : d # c => publish'[d] = publish[d]
  BY QueueTypes, OneTurns DEF Queue
<1> HIDE DEF n
<1>7. InTurn'
  BY <1>6 DEF OrderInv, InTurn, Busy
<1>8. QueueOrdered'
  <2>1. ASSUME NEW i \in DOMAIN outbound'
        PROVE  outbound'[i].version <= version[outbound'[i].occ]
    <3>1. CASE i = n
      BY <1>1, <1>4, <3>1, Numbers
    <3>2. CASE i # n
      BY <1>3, <3>2 DEF OrderInv, QueueOrdered
    <3> QED
      BY <3>1, <3>2
  <2>2. ASSUME NEW i \in DOMAIN outbound', NEW j \in DOMAIN outbound',
               i < j, outbound'[i].occ = outbound'[j].occ
        PROVE  outbound'[i].version <= outbound'[j].version
    <3>1. CASE j = n
      BY <1>1, <1>4, <2>1, <2>2, <3>1
    <3>2. CASE j # n
      <4>1. i # n
        BY <1>3, <2>2, <3>2 DEF n
      <4> QED
        BY <1>3, <2>2, <3>2, <4>1 DEF OrderInv, QueueOrdered
    <3> QED
      BY <3>1, <3>2
  <2> QED
    BY <1>5, <2>1, <2>2 DEF QueueOrdered
<1>9. Represented'
  <2> SUFFICES ASSUME NEW x \in Occ, version[x] > 0
               PROVE  \/ \E i \in DOMAIN outbound' :
                           outbound'[i].occ = x /\ outbound'[i].version = version[x]
                      \/ \E d \in Publishers : /\ publish'[d].at \notin {"idle", "done"}
                                               /\ publish'[d].occ = x
    BY <1>5 DEF Represented
  <2>1. CASE x = o
    BY <1>1, <1>3, <1>4, <2>1
  <2>2. CASE x # o
    BY <1>3, <1>6, <2>2 DEF OrderInv, Represented
  <2> QED
    BY <2>1, <2>2
<1>10. SchoolOrdered'
  <2>1. ASSUME NEW x \in Occ, NEW r \in school[x]
        PROVE  /\ r.version <= version[x]
               /\ \A j \in DOMAIN outbound' :
                    outbound'[j].occ = x /\ ~outbound'[j].delivered
                      => r.version <= outbound'[j].version
    BY <1>1, <1>3, <1>4 DEF OrderInv, SchoolOrdered
  <2>2. ASSUME NEW i \in DOMAIN outbound', outbound'[i].delivered
        PROVE  \E r \in school[outbound'[i].occ] : outbound'[i].version <= r.version
    <3>1. i \in DOMAIN outbound /\ outbound'[i] = outbound[i]
      BY <1>1, <1>3, <1>4, <2>2
    <3> QED
      BY <2>2, <3>1 DEF OrderInv, SchoolOrdered, Reached
  <2> QED
    BY <1>5, <2>1, <2>2 DEF SchoolOrdered, Reached
<1>11. \A d \in Publishers : Imaged(publish[d])'
  BY <1>5, <1>6 DEF OrderInv, Imaged
<1>12. ASSUME NEW y \in Syncs PROVE Delivering(sync[y])'
  <2> SUFFICES ASSUME sync[y].at \in {"deliver", "mark"} PROVE Delivering(sync[y])'
    BY <1>5 DEF Delivering
  <2>1. /\ Oldest(sync[y].todo) \in DOMAIN outbound
        /\ sync[y].todo \subseteq DOMAIN outbound
    BY ChangeAtHand
  <2>2. Delivering(sync[y])
    BY DEF OrderInv
  <2>3. sync[y].at = "mark" => Reached(Oldest(sync[y].todo))'
    BY <1>3, <1>5, <2>1, <2>2 DEF Delivering, Reached
  <2>4. \A i \in sync[y].todo : ~outbound'[i].delivered
    BY <1>3, <2>1, <2>2 DEF Delivering
  <2>5. \A i \in DOMAIN outbound' : ~outbound'[i].delivered =>
          i \in sync[y].todo \/ \A j \in sync[y].todo : j < i
    BY <1>3, <2>1, <2>2 DEF Delivering
  <2>6. Oldest(sync[y].todo)' = Oldest(sync[y].todo)
    BY <1>5
  <2> QED
    BY <1>5, <2>3, <2>4, <2>5, <2>6 DEF Delivering
<1> QED
  BY <1>7, <1>8, <1>9, <1>10, <1>11, <1>12 DEF OrderInv
(* What is asked of a request holds as long as versions, queue and requests*)
(* stand still.                                                            *)
LEMMA RequestsStill ==
  ASSUME OrderInv, UNCHANGED <<version, outbound, publish>>
  PROVE  /\ InTurn' /\ QueueOrdered' /\ Represented'
         /\ \A c \in Publishers : Imaged(publish[c])'
BY DEF OrderInv, InTurn, QueueOrdered, Represented, Imaged, Busy

(* A statement that neither queues, delivers nor ticks off.                *)
LEMMA ElsewhereOrders ==
  ASSUME SyncInv, OrderInv, UNCHANGED <<version, outbound, publish, school>>,
         \A y \in Syncs : \/ sync'[y] = sync[y]
                          \/ sync'[y].at \notin {"deliver", "mark"}
  PROVE  OrderInv'
<1>1. SchoolOrdered'
  BY DEF OrderInv, SchoolOrdered, Reached
<1>2. \A y \in Syncs : Delivering(sync[y])'
  BY DEF OrderInv, Delivering, Reached, Oldest
<1> QED
  BY <1>1, <1>2, RequestsStill DEF OrderInv

LEMMA WaitingOrders ==
  ASSUME SyncInv, OrderInv, \A y, z \in Syncs : y = z,
         NEW y \in Syncs, Waiting(y)
  PROVE  OrderInv'
<1> DEFINE S == {i \in DOMAIN outbound : ~outbound[i].delivered}
           k == [at |-> IF S = {} THEN "collect" ELSE "deliver", todo |-> S]
<1>1. S \in SUBSET Nat
  BY Numbers
<1>2. Step(y, k)
  BY DEF Waiting
<1>3. k \in SyncState /\ k.todo = S /\ k.at # "mark"
  <2> HIDE DEF S
  <2> QED
    BY <1>1 DEF SyncState
<1> HIDE DEF k
<1>4. sync'[y] = k
  BY <1>2, <1>3, StepTyped
<1>5. UNCHANGED <<version, outbound, publish, school>>
  BY DEF Waiting, opsVars, schoolVars
<1>6. Delivering(sync[y])'
  BY <1>3, <1>4, <1>5 DEF Delivering
<1>7. SchoolOrdered'
  BY <1>5 DEF OrderInv, SchoolOrdered, Reached
<1> QED
  BY <1>5, <1>6, <1>7, RequestsStill DEF OrderInv

(* What a delivery does to the one session there is at the school.         *)
LEMMA DeliverWrites ==
  ASSUME SyncInv, NEW y \in Syncs, Deliver(y)
  PROVE  LET ch == outbound[Oldest(sync[y].todo)]
         IN \/ UNCHANGED school /\ sync'[y].at = "idle"
            \/ /\ \A o \in Occ : o # ch.occ => school'[o] = school[o]
               /\ \E s \in school'[ch.occ] : /\ school'[ch.occ] = {s}
                                             /\ s.version = ch.version
               /\ sync'[y].at = "mark" /\ sync'[y].todo = sync[y].todo
<1> DEFINE ch == outbound[Oldest(sync[y].todo)]
<1>1. ch \in OutboundRow /\ ch.occ \in Occ /\ Oldest(sync[y].todo) \in DOMAIN outbound
  BY ChangeAtHand DEF Deliver
<1>2. CASE Welcome(ch)
  <2>1. /\ school' = [school EXCEPT ![ch.occ] = Stored(school[ch.occ], ch)]
        /\ Step(y, [sync[y] EXCEPT !.at = "mark"])
    BY <1>2 DEF Deliver
  <2>2. sync'[y].at = "mark" /\ sync'[y].todo = sync[y].todo
    BY <2>1, OnTyped
  <2>3. /\ school \in [Occ -> SUBSET SchoolSession]
        /\ \A r, q \in school[ch.occ] : r = q
        /\ \A r \in school[ch.occ] : r.copy = ch.copy
    <3>1. ch.copy = link[ch.occ]
      BY <1>1 DEF SyncInv, TravelsLinked
    <3> HIDE DEF ch
    <3>2. school \in [Occ -> SUBSET SchoolSession]
      BY DEF SyncInv, TypeOK
    <3>3. /\ \A r, q \in school[ch.occ] : r = q
          /\ \A r \in school[ch.occ] : r.copy = link[ch.occ]
      BY <1>1 DEF SyncInv, TravelsLinked
    <3> QED
      BY <3>1, <3>2, <3>3
  <2> HIDE DEF ch
  <2>4. PICK s \in SchoolSession : /\ Stored(school[ch.occ], ch) = {s}
                                   /\ s.version = ch.version
    BY <1>1, <2>3, StoredOne
  <2>5. /\ school'[ch.occ] = {s}
        /\ \A o \in Occ : o # ch.occ => school'[o] = school[o]
    BY <1>1, <2>1, <2>3, <2>4
  <2> QED
    BY <2>2, <2>4, <2>5 DEF ch
<1>3. CASE ~Welcome(ch)
  <2>1. Step(y, Asleep) /\ UNCHANGED school
    BY <1>3 DEF Deliver
  <2> QED
    BY <2>1, AsleepTyped
<1> QED
  BY <1>2, <1>3

(* The oldest change that waits is delivered: the school is not past it.   *)
LEMMA DeliverOrders ==
  ASSUME SyncInv, OrderInv, \A y, z \in Syncs : y = z,
         NEW y \in Syncs, Deliver(y)
  PROVE  /\ OrderInv'
         /\ \A o \in Occ : \A r \in school[o], q \in school'[o] :
              r.version <= q.version
<1> DEFINE i == Oldest(sync[y].todo)
           ch == outbound[i]
<1>1. UNCHANGED <<version, outbound, publish>>
  BY DEF Deliver, opsVars
<1>2. CASE UNCHANGED school /\ sync'[y].at = "idle"
  <2>1. OrderInv'
    BY <1>1, <1>2, ElsewhereOrders
  <2>2. \A o \in Occ : \A r, q \in school[o] : r = q /\ r.version \in Nat
    BY Numbers DEF SyncInv, TravelsLinked
  <2> QED
    BY <1>2, <2>1, <2>2
<1>3. CASE ~(UNCHANGED school /\ sync'[y].at = "idle")
  <2>1. PICK s \in school'[ch.occ] :
          /\ school'[ch.occ] = {s} /\ s.version = ch.version
          /\ \A o \in Occ : o # ch.occ => school'[o] = school[o]
          /\ sync'[y].at = "mark" /\ sync'[y].todo = sync[y].todo
    BY <1>3, DeliverWrites
  <2>2. /\ i \in DOMAIN outbound /\ i \in sync[y].todo
        /\ ch.occ \in Occ /\ ch.version \in Nat
        /\ sync[y].todo \subseteq DOMAIN outbound
    BY ChangeAtHand, Runs, Numbers DEF Deliver, Running
  <2>3. /\ \A j \in sync[y].todo : i <= j
        /\ \A j \in sync[y].todo : ~outbound[j].delivered
        /\ \A j \in DOMAIN outbound : ~outbound[j].delivered =>
             j \in sync[y].todo \/ \A l \in sync[y].todo : l < j
    <3>1. sync[y].todo \in SUBSET Nat /\ sync[y].todo # {}
      BY Runs DEF Deliver, Running, SyncState
    <3>2. \A j \in sync[y].todo : i <= j
      BY <3>1, LeastOf DEF Oldest
    <3> QED
      BY <3>2 DEF OrderInv, Delivering, Deliver
  <2> HIDE DEF i
  <2>4. \A j \in DOMAIN outbound : ~outbound[j].delivered => i <= j
    BY <2>2, <2>3, Numbers
  <2>5. \A r \in school[ch.occ] : r.version <= ch.version
    BY <2>2, <2>3 DEF OrderInv, SchoolOrdered
  <2>6. ASSUME NEW o \in Occ, NEW q \in school'[o]
        PROVE  /\ q.version \in Nat /\ q.version <= version[o]
               /\ \A r \in school[o] : r.version <= q.version
               /\ \A j \in DOMAIN outbound :
                    outbound[j].occ = o /\ ~outbound[j].delivered
                      => q.version <= outbound[j].version
    <3>1. CASE o = ch.occ
      <4>1. q.version = ch.version
        BY <2>1, <3>1
      <4>2. ch.version <= version[o]
        BY <2>2, <3>1 DEF OrderInv, QueueOrdered
      <4>3. ASSUME NEW j \in DOMAIN outbound, outbound[j].occ = o,
                   ~outbound[j].delivered
            PROVE  ch.version <= outbound[j].version
        <5>1. i <= j
          BY <2>4, <4>3
        <5>2. CASE i = j
          BY <2>2, <5>2
        <5>3. CASE i # j
          <6>1. i < j
            BY <2>2, <5>1, <5>3, Numbers
          <6> QED
            BY <2>2, <3>1, <4>3, <6>1 DEF OrderInv, QueueOrdered
        <5> QED
          BY <5>2, <5>3
      <4> QED
        BY <2>2, <2>5, <3>1, <4>1, <4>2, <4>3
    <3>2. CASE o # ch.occ
      <4>1. q \in school[o] /\ \A r \in school[o] : r = q
        BY <2>1, <3>2 DEF SyncInv, TravelsLinked
      <4> QED
        BY <4>1, Numbers DEF OrderInv, SchoolOrdered
    <3> QED
      BY <3>1, <3>2
  <2>7. ASSUME NEW j \in DOMAIN outbound,
               \/ outbound[j].delivered
               \/ j = i
        PROVE  Reached(j)'
    <3>1. outbound[j].occ \in Occ /\ outbound[j].version \in Nat
      BY Numbers
    <3>2. CASE outbound[j].occ = ch.occ
      <4>1. outbound[j].version <= s.version
        <5>1. CASE j = i
          BY <2>1, <2>2, <5>1
        <5>2. CASE j # i
          <6>1. PICK r \in school[ch.occ] : outbound[j].version <= r.version
            BY <2>7, <3>2, <5>2 DEF OrderInv, SchoolOrdered, Reached
          <6>2. r.version \in Nat /\ r.version <= ch.version
            BY <2>2, <2>5, Numbers
          <6> QED
            BY <2>1, <2>2, <3>1, <6>1, <6>2
        <5> QED
          BY <5>1, <5>2
      <4> QED
        BY <1>1, <2>1, <3>2, <4>1 DEF Reached
    <3>3. CASE outbound[j].occ # ch.occ
      BY <1>1, <2>1, <2>7, <3>1, <3>3 DEF OrderInv, SchoolOrdered, Reached
    <3> QED
      BY <3>2, <3>3
  <2>8. SchoolOrdered'
    BY <1>1, <2>6, <2>7 DEF SchoolOrdered
  <2>9. Delivering(sync[y])'
    <3>1. Oldest(sync[y].todo)' = i
      BY <2>1 DEF i
    <3> QED
      BY <1>1, <2>1, <2>2, <2>3, <2>7, <3>1 DEF Delivering
  <2> QED
    BY <1>1, <2>6, <2>8, <2>9, RequestsStill DEF OrderInv
<1> QED
  BY <1>2, <1>3
(* What is left to do after one is done, exactly.                          *)
LEMMA RestIs ==
  ASSUME SyncInv, NEW y \in Syncs,
         NEW more \in {"deliver", "seen"}, NEW after \in {"collect", "idle"},
         Step(y, Rest(y, more, after))
  PROVE  \/ sync'[y].at = after /\ sync[y].todo \subseteq {Oldest(sync[y].todo)}
         \/ /\ sync'[y].at = more
            /\ sync'[y].todo = sync[y].todo \ {Oldest(sync[y].todo)}
            /\ sync'[y].todo # {}
<1> DEFINE left == sync[y].todo \ {Oldest(sync[y].todo)}
           k == Rest(y, more, after)
<1>1. left \in SUBSET Nat
  BY Runs DEF SyncState
<1>2. k = IF left = {} THEN [at |-> after, todo |-> {}]
          ELSE [at |-> more, todo |-> left]
  BY DEF Rest
<1>3. left = {} => sync[y].todo \subseteq {Oldest(sync[y].todo)}
  OBVIOUS
<1> HIDE DEF left, k
<1>4. k \in SyncState
  BY <1>1, <1>2 DEF SyncState
<1>5. sync'[y] = k
  BY <1>4, StepTyped DEF k
<1>6. CASE left = {}
  <2>1. k.at = after
    BY <1>2, <1>6
  <2> QED
    BY <1>3, <1>5, <1>6, <2>1
<1>7. CASE left # {}
  <2>1. k.at = more /\ k.todo = left
    BY <1>2, <1>7
  <2> QED
    BY <1>5, <1>7, <2>1 DEF left
<1> QED
  BY <1>6, <1>7

(* What is ticked off is at the school; what is left still waits.          *)
LEMMA DeliveredAtOrders ==
  ASSUME SyncInv, OrderInv, \A y, z \in Syncs : y = z,
         NEW y \in Syncs, DeliveredAt(y)
  PROVE  OrderInv'
<1> DEFINE i == Oldest(sync[y].todo)
           ch == [outbound[i] EXCEPT !.delivered = TRUE]
<1>1. /\ i \in DOMAIN outbound /\ i \in sync[y].todo /\ outbound[i] \in OutboundRow
      /\ sync[y].todo \subseteq DOMAIN outbound
      /\ Reached(i) /\ \A j \in sync[y].todo : ~outbound[j].delivered
      /\ \A j \in DOMAIN outbound : ~outbound[j].delivered =>
           j \in sync[y].todo \/ \A l \in sync[y].todo : l < j
  BY ChangeAtHand, Runs DEF DeliveredAt, Running, OrderInv, Delivering
<1>2. \/ sync'[y].at = "collect"
      \/ sync'[y].at = "deliver" /\ sync'[y].todo = sync[y].todo \ {i}
  BY RestIs DEF DeliveredAt
<1>3. outbound' = [outbound EXCEPT ![i] = ch]
  BY DEF DeliveredAt
<1>4. UNCHANGED <<version, publish, school>>
  BY DEF DeliveredAt, schoolVars
<1> HIDE DEF i
<1>5. /\ ch.occ = outbound[i].occ /\ ch.version = outbound[i].version
      /\ ch.delivered
  BY <1>1 DEF OutboundRow
<1> HIDE DEF ch
<1>6. /\ DOMAIN outbound' = DOMAIN outbound
      /\ \A j \in DOMAIN outbound :
           /\ outbound'[j].occ = outbound[j].occ
           /\ outbound'[j].version = outbound[j].version
           /\ outbound'[j].delivered <=> outbound[j].delivered \/ j = i
  <2>1. /\ DOMAIN outbound' = DOMAIN outbound
        /\ \A j \in DOMAIN outbound :
             outbound'[j] = IF j = i THEN ch ELSE outbound[j]
    BY <1>1, <1>3, Numbers
  <2>2. \A j \in DOMAIN outbound : outbound[j].delivered \in BOOLEAN
    BY Numbers DEF OutboundRow
  <2> QED
    BY <1>1, <1>5, <2>1, <2>2
<1>7. \A j \in DOMAIN outbound : Reached(j) => Reached(j)'
  BY <1>4, <1>6 DEF Reached
<1>8. QueueOrdered' /\ Represented' /\ SchoolOrdered'
  <2>1. QueueOrdered'
    BY <1>4, <1>6 DEF OrderInv, QueueOrdered
  <2>2. Represented'
    BY <1>4, <1>6 DEF OrderInv, Represented
  <2>3. SchoolOrdered'
    BY <1>1, <1>4, <1>6, <1>7 DEF OrderInv, SchoolOrdered
  <2> QED
    BY <2>1, <2>2, <2>3
<1>9. InTurn' /\ \A c \in Publishers : Imaged(publish[c])'
  BY <1>4 DEF OrderInv, InTurn, Imaged, Busy
<1>10. Delivering(sync[y])'
  <2>1. CASE sync'[y].at = "collect"
    BY <2>1 DEF Delivering
  <2>2. CASE sync'[y].at = "deliver" /\ sync'[y].todo = sync[y].todo \ {i}
    BY <1>1, <1>6, <2>2 DEF Delivering
  <2> QED
    BY <1>2, <2>1, <2>2
<1> QED
  BY <1>8, <1>9, <1>10 DEF OrderInv

(* A mark leaves what the school says of a session otherwise.              *)
LEMMA SchoolMarksOrders ==
  ASSUME SyncInv, OrderInv, NEW o \in Occ, NEW s \in Mark, SchoolMarks(o, s)
  PROVE  /\ OrderInv'
         /\ \A x \in Occ : \A r \in school[x], q \in school'[x] :
              r.version <= q.version
<1>1. PICK r \in school[o] :
        school' = [school EXCEPT ![o] = (@ \ {r}) \cup {[r EXCEPT !.mark = s]}]
  BY DEF SchoolMarks
<1> DEFINE n == [r EXCEPT !.mark = s]
<1>2. /\ school \in [Occ -> SUBSET SchoolSession] /\ r \in SchoolSession
      /\ school[o] = {r}
  BY DEF SyncInv, TypeOK, TravelsLinked
<1>3. n.version = r.version
  BY <1>2 DEF SchoolSession
<1> HIDE DEF n
<1>4. school' = [school EXCEPT ![o] = {n}]
  BY <1>1, <1>2 DEF n
<1>5. school'[o] = {n} /\ \A x \in Occ : x # o => school'[x] = school[x]
  BY <1>2, <1>4
<1>6. UNCHANGED <<version, outbound, publish, sync>>
  BY DEF SchoolMarks, opsVars
<1>7. \A x \in Occ : \A q \in school'[x] : \E p \in school[x] : q.version = p.version
  BY <1>2, <1>3, <1>5
<1>8. \A x \in Occ : \A p \in school[x] : \E q \in school'[x] : q.version = p.version
  BY <1>2, <1>3, <1>5
<1>9. \A j \in DOMAIN outbound : Reached(j) => Reached(j)'
  BY <1>6, <1>8, Numbers DEF Reached
<1>10. SchoolOrdered'
  BY <1>6, <1>7, <1>9 DEF OrderInv, SchoolOrdered
<1>11. \A y \in Syncs : Delivering(sync[y])'
  <2> SUFFICES ASSUME NEW y \in Syncs PROVE Delivering(sync[y])'
    OBVIOUS
  <2>1. ASSUME sync[y].at = "mark" PROVE Reached(Oldest(sync[y].todo))'
    <3>1. Oldest(sync[y].todo) \in DOMAIN outbound
      BY <2>1, ChangeAtHand
    <3>2. Reached(Oldest(sync[y].todo))
      BY <2>1 DEF OrderInv, Delivering
    <3> QED
      BY <1>6, <1>9, <3>1, <3>2
  <2>2. Oldest(sync[y].todo)' = Oldest(sync[y].todo)
    BY <1>6
  <2> QED
    BY <1>6, <2>1, <2>2 DEF OrderInv, Delivering
<1>12. \A x \in Occ : \A p \in school[x], q \in school'[x] : p.version <= q.version
  <2>1. \A x \in Occ : \A p, q \in school[x] : p = q /\ p.version \in Nat
    BY Numbers DEF SyncInv, TravelsLinked
  <2> QED
    BY <1>7, <2>1
<1> QED
  BY <1>6, <1>10, <1>11, <1>12, RequestsStill DEF OrderInv

LEMMA OrderInitially ==
  Init => OrderInv
<1> SUFFICES ASSUME Init PROVE OrderInv
  OBVIOUS
<1>1. /\ outbound = <<>> /\ \A o \in Occ : version[o] = 0 /\ school[o] = {}
      /\ \A c \in Publishers : publish[c].at = "idle"
      /\ \A y \in Syncs : sync[y].at = "idle"
  BY DEF Init, Fresh, Asleep
<1>2. DOMAIN outbound = {}
  BY <1>1
<1>3. InTurn /\ QueueOrdered /\ Represented /\ SchoolOrdered
  BY <1>1, <1>2 DEF InTurn, Busy, QueueOrdered, Represented, SchoolOrdered
<1>4. /\ \A c \in Publishers : Imaged(publish[c])
      /\ \A y \in Syncs : Delivering(sync[y])
  BY <1>1 DEF Imaged, Delivering
<1> QED
  BY <1>3, <1>4 DEF OrderInv

LEMMA OrderStep ==
  ASSUME SyncInv, OrderInv, MaxInFlight = 1, \A y, z \in Syncs : y = z,
         [Next]_vars
  PROVE  /\ OrderInv'
         /\ \A o \in Occ : \A r \in school[o], q \in school'[o] :
              r.version <= q.version
<1>1. UNCHANGED school =>
        \A o \in Occ : \A r \in school[o], q \in school'[o] : r.version <= q.version
  <2>1. \A o \in Occ : \A r, q \in school[o] : r = q /\ r.version \in Nat
    BY Numbers DEF SyncInv, TravelsLinked
  <2> QED
    BY <2>1
<1>2. ASSUME NEW c \in Publishers, Publish(c) \/ StopPublish(c)
      PROVE  OrderInv' /\ UNCHANGED school
  <2>1. CASE Change(c)
    BY <2>1, ChangeOrders DEF Change, schoolVars
  <2>2. CASE Queue(c)
    BY <2>2, QueueOrders DEF Queue, schoolVars
  <2>3. CASE ~Change(c) /\ ~Queue(c)
    <3>1. Onward(c)
      BY <1>2, <2>3, GoesOnward
    <3> QED
      BY <3>1, OnwardOrders DEF Onward
  <2> QED
    BY <2>1, <2>2, <2>3
<1>3. ASSUME NEW y \in Syncs, Waiting(y) PROVE OrderInv' /\ UNCHANGED school
  BY <1>3, WaitingOrders DEF Waiting, schoolVars
<1>4. CASE \E y \in Syncs : Deliver(y)
  BY <1>4, DeliverOrders
<1>5. ASSUME NEW y \in Syncs, DeliveredAt(y) PROVE OrderInv' /\ UNCHANGED school
  BY <1>5, DeliveredAtOrders DEF DeliveredAt, schoolVars
<1>6. ASSUME NEW y \in Syncs,
             \/ Collect(y) \/ Seen(y) \/ StoreShared(y) \/ StoreOps(y)
             \/ Remember(y) \/ Acknowledge(y) \/ StopSync(y)
      PROVE  OrderInv' /\ UNCHANGED school
  <2>1. UNCHANGED <<version, outbound, publish, school>>
    BY <1>6 DEF Collect, Seen, StoreShared, StoreOps, Remember, Acknowledge,
       StopSync, opsVars, schoolVars
  <2>2. sync'[y].at \notin {"deliver", "mark"}
    <3>1. CASE Collect(y)
      BY <3>1, CollectTypes
    <3>2. CASE Seen(y)
      BY <3>2, SeenTypes
    <3>3. CASE StoreShared(y)
      BY <3>3, StoreSharedTypes
    <3>4. CASE StoreOps(y)
      BY <3>4, StoreOpsTypes
    <3>5. CASE Remember(y)
      BY <3>5, RememberTypes
    <3>6. CASE Acknowledge(y)
      BY <3>6, AcknowledgeTypes
    <3>7. CASE StopSync(y)
      BY <3>7, StopSyncTypes
    <3> QED
      BY <1>6, <3>1, <3>2, <3>3, <3>4, <3>5, <3>6, <3>7
  <2>3. \A z \in Syncs : z = y
    OBVIOUS
  <2> QED
    BY <2>1, <2>2, <2>3, ElsewhereOrders
<1>7. CASE \E o \in Occ, s \in Mark : SchoolMarks(o, s)
  BY <1>7, SchoolMarksOrders
<1>8. CASE \/ \E o \in Occ, s \in Mark : HandMark(o, s)
           \/ \E p \in Cast : LinkCast(p)
           \/ UNCHANGED vars
  <2>1. UNCHANGED <<version, outbound, publish, school, sync>>
    BY <1>8 DEF HandMark, LinkCast, EnsureUser, LinkUser, vars, opsVars, schoolVars
  <2>2. OrderInv'
    BY <2>1, ElsewhereOrders
  <2> QED
    BY <1>1, <2>1, <2>2
<1>9. \/ \E c \in Publishers : Publish(c) \/ StopPublish(c)
      \/ \E y \in Syncs : Sync(y) \/ StopSync(y)
      \/ \E o \in Occ, s \in Mark : HandMark(o, s) \/ SchoolMarks(o, s)
      \/ \E p \in Cast : LinkCast(p)
      \/ UNCHANGED vars
  BY DEF Next
<1>10. CASE \E c \in Publishers : Publish(c) \/ StopPublish(c)
  BY <1>1, <1>2, <1>10
<1>11. CASE \E y \in Syncs : Sync(y) \/ StopSync(y)
  BY <1>1, <1>3, <1>4, <1>5, <1>6, <1>11 DEF Sync
<1> QED
  BY <1>7, <1>8, <1>9, <1>10, <1>11

(* Requests that publish one after another, and one run of sync:local at a *)
(* time: when all that was queued is delivered and every request came to   *)
(* its end, the school has every session as it was last written.           *)
THEOREM SchoolAgreesInTurn ==
  ASSUME MaxInFlight = 1, \A y, z \in Syncs : y = z
  PROVE  Spec => []SchoolAgrees
<1>1. Init => SyncInv /\ OrderInv
  BY SyncInitially, OrderInitially
<1>2. SyncInv /\ OrderInv /\ [Next]_vars => SyncInv' /\ OrderInv'
  BY SyncStep, OrderStep
<1>3. SyncInv /\ OrderInv => SchoolAgrees
  <2> SUFFICES ASSUME SyncInv, OrderInv,
                      \A i \in DOMAIN outbound : outbound[i].delivered,
                      \A c \in Publishers : publish[c].at \in {"idle", "done"},
                      NEW o \in Occ, version[o] > 0
               PROVE  \E r \in school[o] : r.version = version[o]
    BY DEF SchoolAgrees
  <2>1. PICK i \in DOMAIN outbound :
          outbound[i].occ = o /\ outbound[i].version = version[o]
    BY DEF OrderInv, Represented
  <2>2. PICK r \in school[o] : version[o] <= r.version
    BY <2>1 DEF OrderInv, SchoolOrdered, Reached
  <2>3. r.version <= version[o] /\ r.version \in Nat /\ version[o] \in Nat
    BY Numbers DEF OrderInv, SchoolOrdered
  <2> QED
    BY <2>2, <2>3
<1> QED
  BY <1>1, <1>2, <1>3, PTL DEF Spec

(* ... and on the way a session at the school never goes back to what it   *)
(* said before, redeliveries after a stop included.                        *)
THEOREM NeverGoesBackInTurn ==
  ASSUME MaxInFlight = 1, \A y, z \in Syncs : y = z
  PROVE  Spec => SchoolNeverGoesBack
<1>1. Init => SyncInv /\ OrderInv
  BY SyncInitially, OrderInitially
<1>2. SyncInv /\ OrderInv /\ [Next]_vars => SyncInv' /\ OrderInv'
  BY SyncStep, OrderStep
<1>3. SyncInv /\ OrderInv /\ [Next]_vars =>
        [\A o \in Occ : \A r \in school[o], q \in school'[o] :
           r.copy = q.copy => r.version <= q.version]_vars
  BY OrderStep
<1> QED
  BY <1>1, <1>2, <1>3, PTL DEF Spec, SchoolNeverGoesBack

-----------------------------------------------------------------------------
(* The queue as a Courier.  Requests may overlap here; only the runs of    *)
(* sync:local come one at a time.                                          *)

Says(o) == {r.version : r \in school[o]}

(* A run at work has before it what was waiting, whatever came since is    *)
(* younger, and what it has just handed over is what the school says.      *)
Taking(s) ==
  /\ s.at \in {"deliver", "mark"} =>
       /\ \A i \in s.todo : ~outbound[i].delivered
       /\ \A i \in DOMAIN outbound : ~outbound[i].delivered =>
            i \in s.todo \/ \A j \in s.todo : j < i
  /\ s.at = "mark" =>
       LET ch == outbound[Oldest(s.todo)] IN Says(ch.occ) = {ch.version}

CourierInv == \A y \in Syncs : Taking(sync[y])

Carries == CourierInv' /\ [Carried!Next]_Carried!courier

(* The three variables of the Courier, position by position.               *)
LEMMA Mapped ==
  ASSUME SyncInv
  PROVE  /\ DOMAIN Posted = DOMAIN outbound
         /\ \A i \in DOMAIN outbound : /\ Posted[i].to = outbound[i].occ
                                       /\ Posted[i].says = outbound[i].version
         /\ Posted \in Seq([to : Occ, says : Nat])
         /\ Len(Posted) = Len(outbound)
         /\ \A i \in DOMAIN outbound : i \in Ticked <=> outbound[i].delivered
         /\ \A o \in Occ : Held[o] = Says(o)
<1>1. /\ DOMAIN Posted = DOMAIN outbound
      /\ \A i \in DOMAIN outbound : Posted[i] = [to |-> outbound[i].occ,
                                                 says |-> outbound[i].version]
  BY DEF Posted
<1>2. \A i \in DOMAIN outbound : Posted[i] \in [to : Occ, says : Nat]
  BY <1>1, Numbers
<1>3. Posted = [i \in 1 .. Len(outbound) |-> Posted[i]]
  BY Numbers DEF Posted
<1>4. Posted \in Seq([to : Occ, says : Nat])
  BY <1>2, <1>3, Numbers, IsASeq
<1>5. Len(Posted) = Len(outbound)
  BY <1>1, <1>4, Numbers, LenProperties
<1> QED
  BY <1>1, <1>4, <1>5 DEF Ticked, Held, Says

(* The change a run is at is the one that is due.                          *)
LEMMA AtHandIsDue ==
  ASSUME SyncInv, CourierInv, NEW y \in Syncs, sync[y].at \in {"deliver", "mark"}
  PROVE  /\ Oldest(sync[y].todo) \in DOMAIN Posted
         /\ Carried!Due(Oldest(sync[y].todo))
<1> DEFINE i == Oldest(sync[y].todo)
<1>1. i \in DOMAIN outbound /\ i \in sync[y].todo /\ sync[y].todo \subseteq DOMAIN outbound
  BY ChangeAtHand, Runs DEF Running
<1>2. sync[y].todo \in SUBSET Nat /\ sync[y].todo # {}
  BY Runs DEF Running, SyncState
<1>3. \A j \in sync[y].todo : i <= j
  BY <1>2, LeastOf DEF Oldest
<1>4. /\ ~outbound[i].delivered
      /\ \A j \in DOMAIN outbound : ~outbound[j].delivered =>
           j \in sync[y].todo \/ \A l \in sync[y].todo : l < j
  BY <1>1 DEF CourierInv, Taking
<1> HIDE DEF i
<1>5. \A j \in DOMAIN outbound : ~outbound[j].delivered => ~(j < i)
  BY <1>1, <1>3, <1>4, Numbers
<1>6. i \in DOMAIN Posted /\ i \notin Ticked
  BY <1>1, <1>4, Mapped
<1>7. \A j \in DOMAIN Posted : j < i => j \in Ticked
  BY <1>5, Mapped
<1> QED
  BY <1>6, <1>7 DEF Carried!Due, i

(* A statement that neither queues, delivers nor ticks off.                *)
LEMMA ElsewhereCarries ==
  ASSUME SyncInv, CourierInv, UNCHANGED <<outbound, school>>,
         \A y \in Syncs : \/ sync'[y] = sync[y]
                          \/ sync'[y].at \notin {"deliver", "mark"}
  PROVE  Carries
<1>1. CourierInv'
  BY DEF CourierInv, Taking, Says, Oldest
<1>2. UNCHANGED Carried!courier
  BY DEF Carried!courier, Posted, Ticked, Held
<1> QED
  BY <1>1, <1>2 DEF Carries

(* A run that begins has all that waits before it.                         *)
LEMMA WaitingCarries ==
  ASSUME SyncInv, CourierInv, \A y, z \in Syncs : y = z,
         NEW y \in Syncs, Waiting(y)
  PROVE  Carries
<1> DEFINE S == {i \in DOMAIN outbound : ~outbound[i].delivered}
           k == [at |-> IF S = {} THEN "collect" ELSE "deliver", todo |-> S]
<1>1. S \in SUBSET Nat
  BY Numbers
<1>2. Step(y, k)
  BY DEF Waiting
<1>3. k \in SyncState /\ k.todo = S /\ k.at # "mark"
  <2> HIDE DEF S
  <2> QED
    BY <1>1 DEF SyncState
<1> HIDE DEF k
<1>4. sync'[y] = k
  BY <1>2, <1>3, StepTyped
<1>5. UNCHANGED <<outbound, school>>
  BY DEF Waiting, opsVars, schoolVars
<1>6. Taking(sync[y])'
  BY <1>3, <1>4, <1>5 DEF Taking
<1>7. CourierInv'
  BY <1>6 DEF CourierInv
<1>8. UNCHANGED Carried!courier
  BY <1>5 DEF Carried!courier, Posted, Ticked, Held
<1> QED
  BY <1>7, <1>8 DEF Carries

(* Queueing posts one message, younger than all a run has before it.       *)
LEMMA QueueCarries ==
  ASSUME SyncInv, CourierInv, NEW c \in Publishers, Queue(c)
  PROVE  Carries
<1> DEFINE n == Len(outbound) + 1
           m == Posted'[n]
<1>1. /\ DOMAIN outbound = 1 .. Len(outbound) /\ Len(outbound) \in Nat
      /\ DOMAIN outbound' = DOMAIN outbound \cup {n}
      /\ \A i \in DOMAIN outbound : outbound'[i] = outbound[i] /\ i < n
      /\ ~outbound'[n].delivered
  <2>1. DOMAIN outbound = 1 .. Len(outbound) /\ Len(outbound) \in Nat
    BY Numbers
  <2>2. /\ DOMAIN outbound' = DOMAIN outbound \cup {n}
        /\ \A i \in DOMAIN outbound : outbound'[i] = outbound[i]
        /\ ~outbound'[n].delivered
    BY QueueTypes
  <2> QED
    BY <2>1, <2>2
<1>2. UNCHANGED <<school, sync>>
  BY DEF Queue, schoolVars
<1>3. outbound'[n].occ \in Occ /\ outbound'[n].version \in Nat
  <2>1. outbound' \in Seq(OutboundRow) /\ n \in DOMAIN outbound'
    BY <1>1, QueueTypes DEF TypeOK
  <2>2. outbound'[n] \in OutboundRow
    BY <2>1, LenProperties, ElementOfSeq
  <2> QED
    BY <2>2 DEF OutboundRow
<1> HIDE DEF n
<1>4. ASSUME NEW y \in Syncs PROVE Taking(sync[y])'
  <2> SUFFICES ASSUME sync[y].at \in {"deliver", "mark"} PROVE Taking(sync[y])'
    BY <1>2 DEF Taking
  <2>1. /\ Oldest(sync[y].todo) \in DOMAIN outbound
        /\ sync[y].todo \subseteq DOMAIN outbound
    BY ChangeAtHand
  <2>2. Taking(sync[y])
    BY DEF CourierInv
  <2>3. Oldest(sync[y].todo)' = Oldest(sync[y].todo)
    BY <1>2
  <2>4. \A i \in sync[y].todo : ~outbound'[i].delivered
    BY <1>1, <2>1, <2>2 DEF Taking
  <2>5. \A i \in DOMAIN outbound' : ~outbound'[i].delivered =>
          i \in sync[y].todo \/ \A j \in sync[y].todo : j < i
    BY <1>1, <2>1, <2>2 DEF Taking
  <2>6. outbound'[Oldest(sync[y].todo)] = outbound[Oldest(sync[y].todo)]
    BY <1>1, <2>1
  <2> QED
    BY <1>2, <2>2, <2>3, <2>4, <2>5, <2>6 DEF Taking, Says
<1>5. Posted' = Append(Posted, m)
  <2> DEFINE Message == [to : Occ, says : Nat]
             q == Append(Posted, m)
  <2>1. /\ \A i \in DOMAIN outbound' :
             Posted'[i] = [to |-> outbound'[i].occ, says |-> outbound'[i].version]
        /\ DOMAIN Posted' = DOMAIN outbound'
    BY DEF Posted
  <2>2. \A i \in DOMAIN outbound : Posted'[i] = Posted[i]
    BY <1>1, <2>1 DEF Posted
  <2>3. m \in Message
    <3>1. m = [to |-> outbound'[n].occ, says |-> outbound'[n].version]
      BY <1>1, <2>1
    <3> HIDE DEF m
    <3> QED
      BY <1>3, <3>1
  <2> HIDE DEF m
  <2>4. /\ q \in Seq(Message) /\ Len(q) = Len(Posted) + 1
        /\ \A i \in 1 .. Len(Posted) : q[i] = Posted[i]
        /\ q[Len(Posted) + 1] = m
    BY <2>3, Mapped, AppendProperties
  <2> HIDE DEF q
  <2>5. Len(Posted) = Len(outbound) /\ n = Len(outbound) + 1
    BY Mapped DEF n
  <2>6. \A i \in 1 .. n : q[i] = Posted'[i]
    BY <1>1, <2>2, <2>4, <2>5 DEF m
  <2>7. Posted' = [i \in 1 .. n |-> Posted'[i]]
    BY <1>1, <2>5 DEF Posted
  <2>8. q = [i \in 1 .. n |-> q[i]]
    BY <2>4, <2>5, LenProperties
  <2> QED
    BY <2>6, <2>7, <2>8 DEF q
<1>6. n \in DOMAIN Posted' /\ m.to \in Occ
  BY <1>1, <1>3 DEF Posted
<1>7. Ticked' = Ticked /\ Held' = Held
  BY <1>1, <1>2 DEF Ticked, Held
<1>8. Carried!Post
  BY <1>5, <1>6, <1>7 DEF Carried!Post
<1>9. CourierInv'
  BY <1>2, <1>4 DEF CourierInv
<1> QED
  BY <1>8, <1>9 DEF Carries, Carried!Next

(* A delivery hands over the message that is due, or is refused.           *)
LEMMA DeliverCarries ==
  ASSUME SyncInv, CourierInv, \A y, z \in Syncs : y = z,
         NEW y \in Syncs, Deliver(y)
  PROVE  Carries
<1> DEFINE i == Oldest(sync[y].todo)
           ch == outbound[i]
<1>1. UNCHANGED outbound
  BY DEF Deliver, opsVars
<1>2. CASE UNCHANGED school /\ sync'[y].at = "idle"
  BY <1>1, <1>2, ElsewhereCarries
<1>3. CASE ~(UNCHANGED school /\ sync'[y].at = "idle")
  <2>1. PICK s \in school'[ch.occ] :
          /\ school'[ch.occ] = {s} /\ s.version = ch.version
          /\ \A o \in Occ : o # ch.occ => school'[o] = school[o]
          /\ sync'[y].at = "mark" /\ sync'[y].todo = sync[y].todo
    BY <1>3, DeliverWrites
  <2>2. i \in DOMAIN outbound /\ ch.occ \in Occ
    BY ChangeAtHand DEF Deliver
  <2>3. i \in DOMAIN Posted /\ Carried!Due(i)
    BY AtHandIsDue DEF Deliver
  <2>4. Taking(sync[y])'
    <3>1. Oldest(sync'[y].todo) = i
      BY <2>1
    <3>2. Taking(sync[y]) /\ sync[y].at = "deliver"
      BY DEF CourierInv, Deliver
    <3> HIDE DEF i
    <3>3. {r.version : r \in school'[outbound'[i].occ]} = {outbound'[i].version}
      BY <1>1, <2>1
    <3>4. /\ \A j \in sync'[y].todo : ~outbound[j].delivered
          /\ \A j \in DOMAIN outbound : ~outbound[j].delivered =>
               j \in sync'[y].todo \/ \A l \in sync'[y].todo : l < j
      BY <2>1, <3>2 DEF Taking
    <3> QED
      BY <1>1, <3>1, <3>3, <3>4 DEF Taking, Says
  <2>5. Held' = [Held EXCEPT ![Posted[i].to] = {Posted[i].says}]
    <3>1. Posted[i].to = ch.occ /\ Posted[i].says = ch.version
      BY <2>2, Mapped
    <3> HIDE DEF i, ch
    <3>2. \A o \in Occ : {r.version : r \in school'[o]} =
                         IF o = ch.occ THEN {ch.version} ELSE Held[o]
      BY <2>1 DEF Held
    <3>3. Held' = [o \in Occ |-> IF o = ch.occ THEN {ch.version} ELSE Held[o]]
      BY <3>2 DEF Held
    <3>4. Held = [o \in Occ |-> Held[o]]
      BY DEF Held
    <3> QED
      BY <3>1, <3>3, <3>4
  <2>6. UNCHANGED <<Posted, Ticked>>
    BY <1>1 DEF Posted, Ticked
  <2>7. Carried!Hand(i)
    BY <2>3, <2>5, <2>6 DEF Carried!Hand
  <2>8. CourierInv'
    BY <2>4 DEF CourierInv
  <2> QED
    BY <2>3, <2>7, <2>8 DEF Carries, Carried!Next
<1> QED
  BY <1>2, <1>3

(* What is ticked off was due, and is what the school says.                *)
LEMMA DeliveredAtCarries ==
  ASSUME SyncInv, CourierInv, \A y, z \in Syncs : y = z,
         NEW y \in Syncs, DeliveredAt(y)
  PROVE  Carries
<1> DEFINE i == Oldest(sync[y].todo)
           ch == [outbound[i] EXCEPT !.delivered = TRUE]
<1>1. /\ i \in DOMAIN outbound /\ i \in sync[y].todo /\ outbound[i] \in OutboundRow
      /\ sync[y].todo \subseteq DOMAIN outbound
      /\ Says(outbound[i].occ) = {outbound[i].version}
      /\ \A j \in sync[y].todo : ~outbound[j].delivered
      /\ \A j \in DOMAIN outbound : ~outbound[j].delivered =>
           j \in sync[y].todo \/ \A l \in sync[y].todo : l < j
  BY ChangeAtHand, Runs DEF DeliveredAt, Running, CourierInv, Taking
<1>2. \/ sync'[y].at = "collect"
      \/ sync'[y].at = "deliver" /\ sync'[y].todo = sync[y].todo \ {i}
  BY RestIs DEF DeliveredAt
<1>3. outbound' = [outbound EXCEPT ![i] = ch]
  BY DEF DeliveredAt
<1>4. UNCHANGED school
  BY DEF DeliveredAt, schoolVars
<1>5. i \in DOMAIN Posted /\ Carried!Due(i)
  BY AtHandIsDue DEF DeliveredAt
<1> HIDE DEF i
<1>6. /\ ch.occ = outbound[i].occ /\ ch.version = outbound[i].version
      /\ ch.delivered
  BY <1>1 DEF OutboundRow
<1> HIDE DEF ch
<1>7. /\ DOMAIN outbound' = DOMAIN outbound
      /\ \A j \in DOMAIN outbound :
           /\ outbound'[j].occ = outbound[j].occ
           /\ outbound'[j].version = outbound[j].version
           /\ outbound'[j].delivered <=> outbound[j].delivered \/ j = i
  <2>1. /\ DOMAIN outbound' = DOMAIN outbound
        /\ \A j \in DOMAIN outbound :
             outbound'[j] = IF j = i THEN ch ELSE outbound[j]
    BY <1>1, <1>3, Numbers
  <2>2. \A j \in DOMAIN outbound : outbound[j].delivered \in BOOLEAN
    BY Numbers DEF OutboundRow
  <2> QED
    BY <1>1, <1>6, <2>1, <2>2
<1>8. Taking(sync[y])'
  <2>1. CASE sync'[y].at = "collect"
    BY <2>1 DEF Taking
  <2>2. CASE sync'[y].at = "deliver" /\ sync'[y].todo = sync[y].todo \ {i}
    BY <1>1, <1>7, <2>2 DEF Taking
  <2> QED
    BY <1>2, <2>1, <2>2
<1>9. Posted' = Posted
  BY <1>7 DEF Posted
<1>10. Ticked' = Ticked \cup {i}
  BY <1>1, <1>7 DEF Ticked
<1>11. Held' = Held /\ Held[Posted[i].to] = {Posted[i].says}
  <2>1. Held' = Held
    BY <1>4 DEF Held
  <2>2. /\ Posted[i].to = outbound[i].occ /\ Posted[i].says = outbound[i].version
        /\ outbound[i].occ \in Occ
    BY <1>1, Mapped, Numbers
  <2> QED
    BY <1>1, <2>1, <2>2, Mapped
<1>12. Carried!Tick(i)
  BY <1>5, <1>9, <1>10, <1>11 DEF Carried!Tick
<1>13. CourierInv'
  BY <1>8 DEF CourierInv
<1> QED
  BY <1>5, <1>12, <1>13 DEF Carries, Carried!Next

(* A mark leaves what the school says of a session otherwise.              *)
LEMMA SchoolMarksCarries ==
  ASSUME SyncInv, CourierInv, NEW o \in Occ, NEW s \in Mark, SchoolMarks(o, s)
  PROVE  Carries
<1>1. PICK r \in school[o] :
        school' = [school EXCEPT ![o] = (@ \ {r}) \cup {[r EXCEPT !.mark = s]}]
  BY DEF SchoolMarks
<1> DEFINE n == [r EXCEPT !.mark = s]
<1>2. /\ school \in [Occ -> SUBSET SchoolSession] /\ r \in SchoolSession
      /\ school[o] = {r}
  BY DEF SyncInv, TypeOK, TravelsLinked
<1>3. n.version = r.version
  BY <1>2 DEF SchoolSession
<1> HIDE DEF n
<1>4. school' = [school EXCEPT ![o] = {n}]
  BY <1>1, <1>2 DEF n
<1>5. school'[o] = {n} /\ \A x \in Occ : x # o => school'[x] = school[x]
  BY <1>2, <1>4
<1>6. UNCHANGED <<outbound, sync>>
  BY DEF SchoolMarks, opsVars
<1>7. \A x \in Occ : Says(x)' = Says(x)
  <2>1. Says(o) = {r.version} /\ Says(o)' = {n.version}
    BY <1>2, <1>5 DEF Says
  <2>2. \A x \in Occ : x # o => Says(x)' = Says(x)
    BY <1>5 DEF Says
  <2> QED
    BY <1>3, <2>1, <2>2
<1>8. ASSUME NEW y \in Syncs PROVE Taking(sync[y])'
  <2>1. Taking(sync[y]) /\ Oldest(sync[y].todo)' = Oldest(sync[y].todo)
    BY <1>6 DEF CourierInv
  <2>2. sync[y].at = "mark" => outbound[Oldest(sync[y].todo)].occ \in Occ
    BY ChangeAtHand
  <2> QED
    BY <1>6, <1>7, <2>1, <2>2 DEF Taking
<1>9. CourierInv'
  BY <1>6, <1>8 DEF CourierInv
<1>10. Held' = Held
  BY <1>7 DEF Held, Says
<1>11. UNCHANGED Carried!courier
  BY <1>6, <1>10 DEF Carried!courier, Posted, Ticked
<1> QED
  BY <1>9, <1>11 DEF Carries

LEMMA CourierInitially ==
  Init => CourierInv /\ Carried!Init
<1> SUFFICES ASSUME Init PROVE CourierInv /\ Carried!Init
  OBVIOUS
<1>1. /\ outbound = <<>> /\ school = [o \in Occ |-> {}]
      /\ \A y \in Syncs : sync[y].at = "idle"
  BY DEF Init, Asleep
<1>2. CourierInv
  BY <1>1 DEF CourierInv, Taking
<1>3. DOMAIN outbound = {}
  BY <1>1
<1>4. Posted = <<>>
  BY <1>3 DEF Posted
<1>5. Ticked = {} /\ Held = [o \in Occ |-> {}]
  BY <1>1, <1>3 DEF Ticked, Held
<1> QED
  BY <1>2, <1>4, <1>5 DEF Carried!Init

LEMMA CourierStep ==
  ASSUME SyncInv, CourierInv, \A y, z \in Syncs : y = z, [Next]_vars
  PROVE  Carries
<1>1. ASSUME NEW c \in Publishers, Publish(c) \/ StopPublish(c) PROVE Carries
  <2>1. CASE Queue(c)
    BY <2>1, QueueCarries
  <2>2. CASE ~Queue(c)
    <3>1. UNCHANGED <<outbound, school, sync>>
      <4>1. CASE Read(c)
        BY <4>1 DEF Read, opsVars, schoolVars
      <4>2. CASE Change(c)
        BY <4>2 DEF Change, opsVars, schoolVars
      <4>3. CASE FindPerson(c)
        BY <4>3 DEF FindPerson, opsVars, schoolVars
      <4>4. CASE CreatePerson(c)
        BY <4>4 DEF CreatePerson, opsVars, schoolVars
      <4>5. CASE LinkPerson(c)
        BY <4>5 DEF LinkPerson, opsVars, schoolVars
      <4>6. CASE Refresh(c)
        BY <4>6 DEF Refresh, opsVars, schoolVars
      <4>7. CASE Create(c)
        BY <4>7 DEF Create, opsVars, schoolVars
      <4>8. CASE Link(c)
        BY <4>8 DEF Link, opsVars, schoolVars
      <4>9. CASE EnsureAttendance(c)
        BY <4>9 DEF EnsureAttendance, opsVars, schoolVars
      <4>10. CASE StopPublish(c)
        BY <4>10 DEF StopPublish, opsVars, schoolVars
      <4> QED
        BY <1>1, <2>2, <4>1, <4>2, <4>3, <4>4, <4>5, <4>6, <4>7,
           <4>8, <4>9, <4>10 DEF Publish
    <3> QED
      BY <3>1, ElsewhereCarries
  <2> QED
    BY <2>1, <2>2
<1>2. ASSUME NEW y \in Syncs,
             \/ Collect(y) \/ Seen(y) \/ StoreShared(y) \/ StoreOps(y)
             \/ Remember(y) \/ Acknowledge(y) \/ StopSync(y)
      PROVE  Carries
  <2>1. UNCHANGED <<outbound, school>>
    BY <1>2 DEF Collect, Seen, StoreShared, StoreOps, Remember, Acknowledge,
       StopSync, opsVars, schoolVars
  <2>2. sync'[y].at \notin {"deliver", "mark"}
    <3>1. CASE Collect(y)
      BY <3>1, CollectTypes
    <3>2. CASE Seen(y)
      BY <3>2, SeenTypes
    <3>3. CASE StoreShared(y)
      BY <3>3, StoreSharedTypes
    <3>4. CASE StoreOps(y)
      BY <3>4, StoreOpsTypes
    <3>5. CASE Remember(y)
      BY <3>5, RememberTypes
    <3>6. CASE Acknowledge(y)
      BY <3>6, AcknowledgeTypes
    <3>7. CASE StopSync(y)
      BY <3>7, StopSyncTypes
    <3> QED
      BY <1>2, <3>1, <3>2, <3>3, <3>4, <3>5, <3>6, <3>7
  <2>3. \A z \in Syncs : z = y
    OBVIOUS
  <2> QED
    BY <2>1, <2>2, <2>3, ElsewhereCarries
<1>3. CASE \E y \in Syncs : Sync(y) \/ StopSync(y)
  BY <1>2, <1>3, WaitingCarries, DeliverCarries, DeliveredAtCarries DEF Sync
<1>4. CASE \E o \in Occ, s \in Mark : SchoolMarks(o, s)
  BY <1>4, SchoolMarksCarries
<1>5. CASE \/ \E o \in Occ, s \in Mark : HandMark(o, s)
           \/ \E p \in Cast : LinkCast(p)
           \/ UNCHANGED vars
  <2>1. UNCHANGED <<outbound, school, sync>>
    BY <1>5 DEF HandMark, LinkCast, EnsureUser, LinkUser, vars, opsVars, schoolVars
  <2> QED
    BY <2>1, ElsewhereCarries
<1>6. \/ \E c \in Publishers : Publish(c) \/ StopPublish(c)
      \/ \E y \in Syncs : Sync(y) \/ StopSync(y)
      \/ \E o \in Occ, s \in Mark : HandMark(o, s) \/ SchoolMarks(o, s)
      \/ \E p \in Cast : LinkCast(p)
      \/ UNCHANGED vars
  BY DEF Next
<1> QED
  BY <1>1, <1>3, <1>4, <1>5, <1>6

(* One run of sync:local at a time makes the queue a Courier, whatever     *)
(* requests overlap and wherever they or the run stop: the school hears of *)
(* the changes oldest first, one that is delivered again is still the last *)
(* it heard of, and what is ticked off is what it says at that moment.     *)
THEOREM RunsInTurnCarry ==
  ASSUME \A y, z \in Syncs : y = z
  PROVE  Spec => ImplementsCourier
<1>1. Init => SyncInv /\ CourierInv /\ Carried!Init
  BY SyncInitially, CourierInitially
<1>2. SyncInv /\ CourierInv /\ [Next]_vars => SyncInv' /\ CourierInv'
  BY SyncStep, CourierStep DEF Carries
<1>3. SyncInv /\ CourierInv /\ [Next]_vars => [Carried!Next]_Carried!courier
  BY CourierStep DEF Carries
<1> QED
  BY <1>1, <1>2, <1>3, PTL DEF Spec, ImplementsCourier, Carried!Spec

-----------------------------------------------------------------------------
(* A mark is told when the copy shows it, and the participant unless it    *)
(* was marked here.                                                        *)
ToldCopy(i) ==
  copies[marked[i].occ][marked[i].copy].mark = marked[i].status
ToldOps(i) ==
  mark[marked[i].occ].by = "school" =>
    mark[marked[i].occ].status = marked[i].status

(* The marks before i have been acknowledged.                              *)
Settled(i) == \A j \in DOMAIN marked : j < i => marked[j].acked

(* A run has to do the marks that were waiting, remembers none while it    *)
(* stores it, and has stored what its stage says.                          *)
Fetching(s) ==
  s.at \in {"seen", "shared", "ops", "applied", "ack"} =>
    /\ \A i \in s.todo : ~marked[i].acked
    /\ Settled(Oldest(s.todo))
    /\ \A i \in DOMAIN marked : ~marked[i].acked =>
         i \in s.todo \/ \A j \in s.todo : j < i
    /\ s.at \in {"shared", "ops", "applied"} => Oldest(s.todo) \notin applied
    /\ s.at \in {"ops", "applied"} => ToldCopy(Oldest(s.todo))
    /\ s.at = "applied" => ToldOps(Oldest(s.todo))

(* Marks are acknowledged in order; one that is remembered is told, and of *)
(* those acknowledged the last of its occurrence, unless a later one is on *)
(* its way.                                                                *)
MarksInv ==
  /\ \A i \in DOMAIN marked : marked[i].acked \/ i \in applied => Settled(i)
  /\ \A i \in applied : ~marked[i].acked => ToldCopy(i) /\ ToldOps(i)
  /\ \A i \in DOMAIN marked :
       /\ marked[i].acked
       /\ \A j \in DOMAIN marked :
            marked[j].acked /\ marked[j].occ = marked[i].occ => j <= i
       => \/ ToldCopy(i) /\ ToldOps(i)
          \/ \E f \in DOMAIN marked : /\ ~marked[f].acked /\ Settled(f)
                                      /\ marked[f].occ = marked[i].occ
  /\ \A y \in Syncs : Fetching(sync[y])
-----------------------------------------------------------------------------
(* What each statement does to the marks that were told.                   *)

(* A row that has a mark keeps it.                                         *)
RowsTell ==
  \A x \in Key : \A n \in 1 .. Len(copies[x]) :
    copies[x][n].mark # None => copies'[x][n].mark = copies[x][n].mark

LEMMA RowIs ==
  ASSUME SyncInv, NEW x \in Key, NEW n \in 1 .. Len(copies[x]),
         NEW r \in CopyRow,
         copies' = [copies EXCEPT ![x] = [copies[x] EXCEPT ![n] = r]]
  PROVE  \A z \in Key : \A j \in 1 .. Len(copies[z]) :
           copies'[z][j] = IF z = x /\ j = n THEN r ELSE copies[z][j]
<1> DEFINE q == [copies[x] EXCEPT ![n] = r]
<1>1. copies \in [Key -> Seq(CopyRow)] /\ copies[x] \in Seq(CopyRow)
  BY DEF SyncInv, TypeOK
<1>2. DOMAIN copies[x] = 1 .. Len(copies[x])
  BY <1>1, LenProperties
<1>3. \A j \in 1 .. Len(copies[x]) : q[j] = IF j = n THEN r ELSE copies[x][j]
  BY <1>2
<1> HIDE DEF q
<1>4. copies' = [copies EXCEPT ![x] = q]
  BY DEF q
<1>5. copies'[x] = q /\ \A z \in Key : z # x => copies'[z] = copies[z]
  BY <1>1, <1>4
<1> QED
  BY <1>3, <1>5

(* Publishing again refreshes the row and leaves its mark; only a row      *)
(* without one gets one.                                                   *)
LEMMA PublishTells ==
  ASSUME SyncInv, NEW c \in Publishers, Publish(c) \/ StopPublish(c)
  PROVE  RowsTell /\ UNCHANGED <<marked, applied, mark, sync>>
<1>1. CASE Refresh(c)
  <2> DEFINE x == KeyOf(publish[c])
             n == link[KeyOf(publish[c])]
             r == [copies[x][n] EXCEPT !.version = publish[c].image]
  <2>1. x \in Key /\ n \in 1 .. Len(copies[x]) /\ copies[x] \in Seq(CopyRow)
    BY <1>1, KeyWritten DEF Refresh
  <2>2. copies[x][n] \in CopyRow
    BY <2>1, ElementOfSeq
  <2>3. r.mark = copies[x][n].mark /\ r \in CopyRow
    BY <2>2, Stands DEF CopyRow, PublishState
  <2>4. copies' = [copies EXCEPT ![x] = [copies[x] EXCEPT ![n] = r]]
    BY <1>1 DEF Refresh
  <2> HIDE DEF x, n, r
  <2>5. \A z \in Key : \A j \in 1 .. Len(copies[z]) :
          copies'[z][j] = IF z = x /\ j = n THEN r ELSE copies[z][j]
    BY <2>1, <2>3, <2>4, RowIs
  <2>6. RowsTell
    BY <2>3, <2>5 DEF RowsTell
  <2> QED
    BY <1>1, <2>6 DEF Refresh, schoolVars
<1>2. CASE Create(c)
  <2> DEFINE x == KeyOf(publish[c])
             r == [version |-> publish[c].image, mark |-> None]
  <2>1. x \in Key /\ copies[x] \in Seq(CopyRow) /\ copies \in [Key -> Seq(CopyRow)]
    BY <1>2, KeyWritten DEF Create, SyncInv, TypeOK
  <2>2. r \in CopyRow
    BY Stands DEF CopyRow, PublishState
  <2>3. copies' = [copies EXCEPT ![x] = Append(copies[x], r)]
    BY <1>2 DEF Create
  <2> HIDE DEF x, r
  <2>4. \A j \in 1 .. Len(copies[x]) : Append(copies[x], r)[j] = copies[x][j]
    BY <2>1, <2>2, AppendProperties
  <2>5. \A z \in Key : \A j \in 1 .. Len(copies[z]) : copies'[z][j] = copies[z][j]
    BY <2>1, <2>3, <2>4
  <2>6. RowsTell
    BY <2>5 DEF RowsTell
  <2> QED
    BY <1>2, <2>6 DEF Create, schoolVars
<1>3. CASE EnsureAttendance(c)
  <2> DEFINE x == publish[c].occ
             n == publish[c].copy
             there == copies[x][n].mark
             m == IF there = None THEN "UNMARKED" ELSE there
             r == [copies[x][n] EXCEPT !.mark = m]
  <2>1. x \in Key /\ n = link[x] /\ link[x] # 0
    BY <1>3, Stands DEF EnsureAttendance, Standing, Key
  <2>2. copies[x] \in Seq(CopyRow) /\ n \in 1 .. Len(copies[x])
    BY <2>1 DEF SyncInv, TypeOK, LinksNameRows
  <2>3. copies[x][n] \in CopyRow
    BY <2>2, ElementOfSeq
  <2>4. copies' = [copies EXCEPT ![x] = [copies[x] EXCEPT ![n] = r]]
    BY <1>3 DEF EnsureAttendance
  <2>5. /\ copies[x][n].mark # None => m = copies[x][n].mark
        /\ m \in Mark \cup {None}
    BY <2>3 DEF CopyRow, Mark
  <2> HIDE DEF x, n, m
  <2>6. r.mark = m /\ r \in CopyRow
    BY <2>3, <2>5 DEF CopyRow
  <2> HIDE DEF r
  <2>7. \A z \in Key : \A j \in 1 .. Len(copies[z]) :
          copies'[z][j] = IF z = x /\ j = n THEN r ELSE copies[z][j]
    BY <2>1, <2>2, <2>4, <2>6, RowIs
  <2>8. RowsTell
    BY <2>5, <2>6, <2>7 DEF RowsTell
  <2> QED
    BY <1>3, <2>8 DEF EnsureAttendance, schoolVars
<1>4. CASE ~Refresh(c) /\ ~Create(c) /\ ~EnsureAttendance(c)
  <2>1. UNCHANGED <<copies, marked, applied, mark, sync>>
    BY <1>4 DEF Publish, Change, Read, FindPerson, CreatePerson, LinkPerson, Link,
       Queue, StopPublish, opsVars, schoolVars
  <2> QED
    BY <2>1 DEF RowsTell
<1> QED
  BY <1>1, <1>2, <1>3, <1>4

(* The marks are numbered in the order they were made.                     *)
LEMMA MarkNumbers ==
  ASSUME SyncInv
  PROVE  /\ DOMAIN marked = 1 .. Len(marked) /\ Len(marked) \in Nat
         /\ applied \subseteq DOMAIN marked
         /\ \A i \in DOMAIN marked : marked[i].acked \in BOOLEAN
<1>1. marked \in Seq(MarkRow)
  BY DEF SyncInv, TypeOK
<1>2. DOMAIN marked = 1 .. Len(marked) /\ Len(marked) \in Nat
  BY <1>1, LenProperties
<1>3. \A i \in DOMAIN marked : marked[i] \in MarkRow
  BY MarkAtHand
<1> QED
  BY <1>2, <1>3 DEF MarkRow, SyncInv, TypeOK

(* What was told on the copy stays told where rows keep their marks.       *)
LEMMA CopyStaysTold ==
  ASSUME SyncInv, RowsTell, UNCHANGED marked, NEW i \in DOMAIN marked, ToldCopy(i)
  PROVE  ToldCopy(i)'
<1>1. /\ marked[i].occ \in Key /\ marked[i].status \in Mark
      /\ marked[i].copy \in 1 .. Len(copies[marked[i].occ])
  BY MarkAtHand
<1>2. marked[i].status # None
  BY <1>1, SyncAssumption DEF Mark
<1> QED
  BY <1>1, <1>2 DEF RowsTell, ToldCopy

(* A statement that leaves the marks, what is remembered, and what was     *)
(* told of them, and no run at one it was not at.                          *)
LEMMA ToldStays ==
  ASSUME SyncInv, MarksInv, UNCHANGED <<marked, applied>>,
         \A i \in DOMAIN marked : ToldCopy(i) => ToldCopy(i)',
         \A i \in DOMAIN marked : ToldOps(i) => ToldOps(i)',
         \A y \in Syncs :
           \/ sync'[y] = sync[y]
           \/ sync'[y].at \notin {"seen", "shared", "ops", "applied", "ack"}
  PROVE  MarksInv'
<1>1. \A i \in DOMAIN marked : Settled(i)' <=> Settled(i)
  BY DEF Settled
<1>2. \A i \in DOMAIN marked' : marked'[i].acked \/ i \in applied' => Settled(i)'
  BY <1>1 DEF MarksInv
<1>3. \A i \in applied' : ~marked'[i].acked => ToldCopy(i)' /\ ToldOps(i)'
  BY MarkNumbers DEF MarksInv
<1>4. ASSUME NEW i \in DOMAIN marked', marked'[i].acked,
             \A j \in DOMAIN marked' :
               marked'[j].acked /\ marked'[j].occ = marked'[i].occ => j <= i
      PROVE  \/ ToldCopy(i)' /\ ToldOps(i)'
             \/ \E f \in DOMAIN marked' : /\ ~marked'[f].acked /\ Settled(f)'
                                          /\ marked'[f].occ = marked'[i].occ
  <2>1. \/ ToldCopy(i) /\ ToldOps(i)
        \/ \E f \in DOMAIN marked : /\ ~marked[f].acked /\ Settled(f)
                                    /\ marked[f].occ = marked[i].occ
    BY <1>4 DEF MarksInv
  <2> QED
    BY <1>1, <2>1
<1>5. ASSUME NEW y \in Syncs PROVE Fetching(sync[y])'
  <2> SUFFICES ASSUME sync'[y] = sync[y],
                      sync[y].at \in {"seen", "shared", "ops", "applied", "ack"}
               PROVE  Fetching(sync[y])'
    BY DEF Fetching
  <2>1. Fetching(sync[y]) /\ Oldest(sync[y].todo) \in DOMAIN marked
    BY MarkOf DEF MarksInv
  <2>2. Oldest(sync[y].todo)' = Oldest(sync[y].todo)
    OBVIOUS
  <2>3. Settled(Oldest(sync[y].todo))'
    BY <1>1, <2>1 DEF Fetching
  <2>4. sync[y].at \in {"ops", "applied"} => ToldCopy(Oldest(sync[y].todo))'
    BY <2>1 DEF Fetching
  <2>5. sync[y].at = "applied" => ToldOps(Oldest(sync[y].todo))'
    BY <2>1 DEF Fetching
  <2> QED
    BY <2>1, <2>2, <2>3, <2>4, <2>5 DEF Fetching
<1> QED
  BY <1>2, <1>3, <1>4, <1>5 DEF MarksInv

(* The mark that waits with nothing before it is one.                      *)
LEMMA OneFront ==
  ASSUME SyncInv, NEW i \in DOMAIN marked, NEW j \in DOMAIN marked,
         ~marked[i].acked, Settled(i), ~marked[j].acked, Settled(j)
  PROVE  i = j
BY MarkNumbers DEF Settled
-----------------------------------------------------------------------------
(* The statements of the one run that fetches.                             *)

LEMMA CollectTells ==
  ASSUME SyncInv, MarksInv, \A y, z \in Syncs : y = z,
         NEW y \in Syncs, Collect(y)
  PROVE  MarksInv'
<1> DEFINE S == {i \in DOMAIN marked : ~marked[i].acked}
           k == IF S = {} THEN Asleep ELSE [at |-> "seen", todo |-> S]
<1>1. S \in SUBSET Nat /\ S \subseteq DOMAIN marked
  BY MarkNumbers
<1>2. Step(y, k)
  BY DEF Collect
<1>3. /\ k \in SyncState
      /\ k.at = "idle" \/ (k.at = "seen" /\ k.todo = S /\ S # {})
  <2> HIDE DEF S
  <2> QED
    BY <1>1 DEF SyncState, Asleep
<1> HIDE DEF k
<1>4. sync'[y] = k
  BY <1>2, <1>3, StepTyped
<1>5. UNCHANGED <<copies, mark, marked, applied>>
  BY DEF Collect, opsVars, schoolVars
<1>6. CASE k.at = "idle"
  <2>1. /\ \A i \in DOMAIN marked : ToldCopy(i) => ToldCopy(i)'
        /\ \A i \in DOMAIN marked : ToldOps(i) => ToldOps(i)'
    BY <1>5 DEF ToldCopy, ToldOps
  <2> QED
    BY <1>4, <1>5, <1>6, <2>1, ToldStays
<1>7. CASE k.at = "seen" /\ k.todo = S /\ S # {}
  <2>1. Oldest(S) \in S /\ \A j \in S : Oldest(S) <= j
    <3> HIDE DEF S
    <3> QED
      BY <1>1, <1>7, LeastOf DEF Oldest
  <2>2. ASSUME NEW j \in DOMAIN marked, j < Oldest(S) PROVE marked[j].acked
    <3>1. ~marked[j].acked => j \in S
      OBVIOUS
    <3> HIDE DEF S
    <3>2. Oldest(S) \in Nat
      BY <1>1, <2>1
    <3>3. j \in Nat
      BY MarkNumbers
    <3> QED
      BY <2>1, <2>2, <3>1, <3>2, <3>3
  <2>3. Fetching(sync[y])'
    BY <1>4, <1>5, <1>7, <2>2 DEF Fetching, Settled
  <2>4. \A i \in DOMAIN marked : /\ Settled(i)' <=> Settled(i)
                                 /\ ToldCopy(i)' <=> ToldCopy(i)
                                 /\ ToldOps(i)' <=> ToldOps(i)
    BY <1>5 DEF Settled, ToldCopy, ToldOps
  <2> QED
    BY <1>5, <2>3, <2>4, MarkNumbers DEF MarksInv
<1> QED
  BY <1>3, <1>6, <1>7

(* A statement that goes on with the same marks to do.                     *)
LEMMA FetchingOn ==
  ASSUME SyncInv, MarksInv, \A y, z \in Syncs : y = z, NEW y \in Syncs,
         sync[y].at \in {"seen", "shared", "ops", "applied", "ack"},
         sync'[y].todo = sync[y].todo, UNCHANGED marked,
         sync'[y].at \in {"shared", "ops", "applied"} =>
           Oldest(sync[y].todo) \notin applied',
         sync'[y].at \in {"ops", "applied"} => ToldCopy(Oldest(sync[y].todo))',
         sync'[y].at = "applied" => ToldOps(Oldest(sync[y].todo))'
  PROVE  \A z \in Syncs : Fetching(sync[z])'
<1>1. Fetching(sync[y])
  BY DEF MarksInv
<1>2. Oldest(sync[y].todo)' = Oldest(sync[y].todo)
  OBVIOUS
<1>3. Settled(Oldest(sync[y].todo))'
  BY <1>1 DEF Fetching, Settled
<1>4. Fetching(sync[y])'
  BY <1>1, <1>2, <1>3 DEF Fetching
<1> QED
  BY <1>4

LEMMA SeenTells ==
  ASSUME SyncInv, MarksInv, \A y, z \in Syncs : y = z,
         NEW y \in Syncs, Seen(y)
  PROVE  MarksInv'
<1>1. /\ sync'[y].todo = sync[y].todo
      /\ \/ sync'[y].at = "shared" /\ Oldest(sync[y].todo) \notin applied
         \/ sync'[y].at = "ack"
  <2>1. CASE Oldest(sync[y].todo) \in applied
    <3>1. Step(y, [sync[y] EXCEPT !.at = "ack"])
      BY <2>1 DEF Seen
    <3> QED
      BY <3>1, OnTyped
  <2>2. CASE Oldest(sync[y].todo) \notin applied
    <3>1. Step(y, [sync[y] EXCEPT !.at = "shared"])
      BY <2>2 DEF Seen
    <3> QED
      BY <2>2, <3>1, OnTyped
  <2> QED
    BY <2>1, <2>2
<1>2. UNCHANGED <<copies, mark, marked, applied>>
  BY DEF Seen, opsVars, schoolVars
<1>3. \A z \in Syncs : Fetching(sync[z])'
  BY <1>1, <1>2, FetchingOn DEF Seen
<1>4. \A i \in DOMAIN marked : /\ Settled(i)' <=> Settled(i)
                               /\ ToldCopy(i)' <=> ToldCopy(i)
                               /\ ToldOps(i)' <=> ToldOps(i)
  BY <1>2 DEF Settled, ToldCopy, ToldOps
<1> QED
  BY <1>2, <1>3, <1>4, MarkNumbers DEF MarksInv

(* The mark a run is at is the one that waits with nothing before it.      *)
LEMMA AtFront ==
  ASSUME SyncInv, MarksInv, NEW y \in Syncs,
         sync[y].at \in {"seen", "shared", "ops", "applied", "ack"}
  PROVE  LET i == Oldest(sync[y].todo)
         IN /\ i \in DOMAIN marked /\ i \in sync[y].todo
            /\ ~marked[i].acked /\ Settled(i)
            /\ \A j \in sync[y].todo : i <= j
            /\ sync[y].at \in {"shared", "ops", "applied"} =>
                 \A j \in applied : marked[j].acked
<1> DEFINE i == Oldest(sync[y].todo)
<1>1. /\ i \in DOMAIN marked /\ sync[y].todo \subseteq DOMAIN marked
      /\ sync[y].todo # {} /\ sync[y].todo \in SUBSET Nat
  BY MarkOf, Runs DEF Running, SyncState
<1>2. i \in sync[y].todo /\ \A j \in sync[y].todo : i <= j
  BY <1>1, LeastOf DEF Oldest
<1>3. ~marked[i].acked /\ Settled(i)
  BY <1>2 DEF MarksInv, Fetching
<1>4. ASSUME sync[y].at \in {"shared", "ops", "applied"}, NEW j \in applied,
             ~marked[j].acked
      PROVE  FALSE
  <2>1. i \notin applied
    BY <1>4 DEF MarksInv, Fetching
  <2>2. j \in DOMAIN marked /\ Settled(j)
    BY MarkNumbers DEF MarksInv
  <2> QED
    BY <1>1, <1>3, <1>4, <2>1, <2>2, OneFront
<1> QED
  BY <1>1, <1>2, <1>3, <1>4

(* A statement that tells one mark over, on the copy or the participant:   *)
(* what it undoes is of the same occurrence, and that mark is on its way.  *)
LEMMA FrontTells ==
  ASSUME SyncInv, MarksInv, NEW y \in Syncs,
         sync[y].at \in {"shared", "ops"}, UNCHANGED <<marked, applied>>,
         \A i \in DOMAIN marked :
           marked[i].occ # marked[Oldest(sync[y].todo)].occ =>
             /\ ToldCopy(i) => ToldCopy(i)'
             /\ ToldOps(i) => ToldOps(i)',
         \A z \in Syncs : Fetching(sync[z])'
  PROVE  MarksInv'
<1> DEFINE i == Oldest(sync[y].todo)
<1>1. /\ i \in DOMAIN marked /\ ~marked[i].acked /\ Settled(i)
      /\ \A j \in applied : marked[j].acked
  BY AtFront
<1> HIDE DEF i
<1>2. \A j \in DOMAIN marked : Settled(j)' <=> Settled(j)
  BY DEF Settled
<1>3. \A j \in DOMAIN marked' : marked'[j].acked \/ j \in applied' => Settled(j)'
  BY <1>2 DEF MarksInv
<1>4. \A j \in applied' : ~marked'[j].acked => ToldCopy(j)' /\ ToldOps(j)'
  BY <1>1
<1>5. ASSUME NEW j \in DOMAIN marked', marked'[j].acked,
             \A l \in DOMAIN marked' :
               marked'[l].acked /\ marked'[l].occ = marked'[j].occ => l <= j
      PROVE  \/ ToldCopy(j)' /\ ToldOps(j)'
             \/ \E f \in DOMAIN marked' : /\ ~marked'[f].acked /\ Settled(f)'
                                          /\ marked'[f].occ = marked'[j].occ
  <2>1. CASE marked[j].occ = marked[i].occ
    BY <1>1, <1>2, <2>1
  <2>2. CASE marked[j].occ # marked[i].occ
    <3>1. \/ ToldCopy(j) /\ ToldOps(j)
          \/ \E f \in DOMAIN marked : /\ ~marked[f].acked /\ Settled(f)
                                      /\ marked[f].occ = marked[j].occ
      BY <1>5 DEF MarksInv
    <3>2. (ToldCopy(j) => ToldCopy(j)') /\ (ToldOps(j) => ToldOps(j)')
      BY <2>2 DEF i
    <3> QED
      BY <1>2, <3>1, <3>2
  <2> QED
    BY <2>1, <2>2
<1> QED
  BY <1>3, <1>4, <1>5 DEF MarksInv

(* A mark stored on the copy is the mark of the copy's row, and no other   *)
(* row changes.                                                            *)
LEMMA StoreSharedWrites ==
  ASSUME SyncInv, NEW y \in Syncs, StoreShared(y)
  PROVE  LET m == marked[Oldest(sync[y].todo)]
         IN \A z \in Key : \A j \in 1 .. Len(copies[z]) :
              IF z = m.occ /\ j = m.copy THEN copies'[z][j].mark = m.status
              ELSE copies'[z][j] = copies[z][j]
<1> DEFINE i == Oldest(sync[y].todo)
           x == marked[i].occ
           n == marked[i].copy
           r == [copies[x][n] EXCEPT !.mark = marked[i].status]
<1>1. /\ i \in DOMAIN marked /\ x \in Key /\ n \in 1 .. Len(copies[x])
      /\ copies[x] \in Seq(CopyRow) /\ marked[i].status \in Mark
  BY MarkOf, MarkAtHand DEF StoreShared
<1>2. copies[x][n] \in CopyRow
  BY <1>1, ElementOfSeq
<1>3. r \in CopyRow /\ r.mark = marked[i].status
  BY <1>1, <1>2 DEF CopyRow
<1>4. copies' = [copies EXCEPT ![x] = [copies[x] EXCEPT ![n] = r]]
  BY DEF StoreShared
<1>5. x \in Key /\ n \in 1 .. Len(copies[x])
  BY <1>1
<1> HIDE DEF i, x, n, r
<1>6. \A z \in Key : \A j \in 1 .. Len(copies[z]) :
        copies'[z][j] = IF z = x /\ j = n THEN r ELSE copies[z][j]
  BY <1>3, <1>4, <1>5, RowIs
<1> QED
  BY <1>3, <1>6 DEF i, x, n

LEMMA StoreSharedTells ==
  ASSUME SyncInv, MarksInv, \A y, z \in Syncs : y = z,
         NEW y \in Syncs, StoreShared(y)
  PROVE  MarksInv'
<1> DEFINE i == Oldest(sync[y].todo)
           x == marked[i].occ
           n == marked[i].copy
<1>1. /\ i \in DOMAIN marked /\ x \in Key /\ n \in 1 .. Len(copies[x])
  BY MarkOf, MarkAtHand DEF StoreShared
<1>2. \A z \in Key : \A j \in 1 .. Len(copies[z]) :
        IF z = x /\ j = n THEN copies'[z][j].mark = marked[i].status
        ELSE copies'[z][j] = copies[z][j]
  BY StoreSharedWrites
<1>3. sync'[y].at = "ops" /\ sync'[y].todo = sync[y].todo
  BY StoreSharedTypes
<1>4. UNCHANGED <<mark, marked, applied>> /\ sync[y].at = "shared"
  BY DEF StoreShared, schoolVars
<1>5. i \notin applied
  BY <1>4 DEF MarksInv, Fetching
<1> HIDE DEF i, x, n
<1>6. ASSUME NEW j \in DOMAIN marked, j = i PROVE ToldCopy(j)'
  <2>1. copies'[x][n].mark = marked[i].status
    BY <1>1, <1>2
  <2> QED
    BY <1>4, <1>6, <2>1 DEF ToldCopy, x, n
<1>7. \A z \in Syncs : Fetching(sync[z])'
  BY <1>1, <1>3, <1>4, <1>5, <1>6, FetchingOn DEF i
<1>8. ASSUME NEW j \in DOMAIN marked, marked[j].occ # x
      PROVE  (ToldCopy(j) => ToldCopy(j)') /\ (ToldOps(j) => ToldOps(j)')
  <2>1. /\ marked[j].occ \in Key
        /\ marked[j].copy \in 1 .. Len(copies[marked[j].occ])
    BY MarkAtHand
  <2>2. copies'[marked[j].occ][marked[j].copy]
          = copies[marked[j].occ][marked[j].copy]
    BY <1>2, <1>8, <2>1
  <2> QED
    BY <1>4, <2>2 DEF ToldCopy, ToldOps
<1> QED
  BY <1>4, <1>7, <1>8, FrontTells DEF i, x

LEMMA StoreOpsTells ==
  ASSUME SyncInv, MarksInv, \A y, z \in Syncs : y = z,
         NEW y \in Syncs, StoreOps(y)
  PROVE  MarksInv'
<1> DEFINE i == Oldest(sync[y].todo)
           x == marked[i].occ
           v == [status |-> marked[i].status, by |-> "school"]
<1>1. i \in DOMAIN marked /\ x \in Occ /\ marked[i].copy = link[x]
  BY MarkOf, MarkAtHand DEF StoreOps
<1>2. mark' = [mark EXCEPT ![x] = v]
  BY <1>1 DEF StoreOps
<1>3. sync'[y].at = "applied" /\ sync'[y].todo = sync[y].todo
  BY StoreOpsTypes
<1>4. UNCHANGED <<copies, marked, applied>> /\ sync[y].at = "ops"
  BY DEF StoreOps, schoolVars
<1>5. i \notin applied /\ ToldCopy(i)
  BY <1>4 DEF MarksInv, Fetching
<1> HIDE DEF i, x
<1>6. mark'[x] = v /\ \A o \in Occ : o # x => mark'[o] = mark[o]
  BY <1>1, <1>2 DEF SyncInv, TypeOK
<1>7. \A j \in DOMAIN marked : j = i => ToldCopy(j)' /\ ToldOps(j)'
  BY <1>4, <1>5, <1>6 DEF ToldCopy, ToldOps, x
<1>8. \A z \in Syncs : Fetching(sync[z])'
  BY <1>1, <1>3, <1>4, <1>5, <1>7, FetchingOn DEF i
<1>9. \A j \in DOMAIN marked : marked[j].occ # x =>
        (ToldCopy(j) => ToldCopy(j)') /\ (ToldOps(j) => ToldOps(j)')
  BY <1>4, <1>6, MarkAtHand DEF ToldCopy, ToldOps
<1> QED
  BY <1>4, <1>8, <1>9, FrontTells DEF i, x
(* What a run remembers, it has told.                                      *)
LEMMA RememberTells ==
  ASSUME SyncInv, MarksInv, \A y, z \in Syncs : y = z,
         NEW y \in Syncs, Remember(y)
  PROVE  MarksInv'
<1> DEFINE i == Oldest(sync[y].todo)
<1>1. sync[y].at = "applied"
  BY DEF Remember
<1>2. /\ i \in DOMAIN marked /\ ~marked[i].acked /\ Settled(i)
      /\ i \notin applied /\ ToldCopy(i) /\ ToldOps(i)
  BY <1>1, AtFront DEF MarksInv, Fetching
<1>3. applied' = applied \cup {i} /\ Step(y, [sync[y] EXCEPT !.at = "ack"])
  BY <1>2 DEF Remember
<1>4. sync'[y].at = "ack" /\ sync'[y].todo = sync[y].todo
  BY <1>3, OnTyped
<1>5. UNCHANGED <<copies, mark, marked>>
  BY DEF Remember, schoolVars
<1>6. \A z \in Syncs : Fetching(sync[z])'
  BY <1>1, <1>4, <1>5, FetchingOn
<1> HIDE DEF i
<1>7. \A j \in DOMAIN marked : /\ Settled(j)' <=> Settled(j)
                               /\ ToldCopy(j)' <=> ToldCopy(j)
                               /\ ToldOps(j)' <=> ToldOps(j)
  BY <1>5 DEF Settled, ToldCopy, ToldOps
<1>8. \A j \in DOMAIN marked' : marked'[j].acked \/ j \in applied' => Settled(j)'
  BY <1>2, <1>3, <1>5, <1>7 DEF MarksInv
<1>9. \A j \in applied' : ~marked'[j].acked => ToldCopy(j)' /\ ToldOps(j)'
  BY <1>2, <1>3, <1>5, <1>7, MarkNumbers DEF MarksInv
<1> QED
  BY <1>5, <1>6, <1>7, <1>8, <1>9 DEF MarksInv

(* The mark a run acknowledges is told, and now the last acknowledged of   *)
(* its occurrence; it was the one that was on its way.                     *)
LEMMA AcknowledgeTells ==
  ASSUME SyncInv, MarksInv, \A y, z \in Syncs : y = z,
         NEW y \in Syncs, Acknowledge(y)
  PROVE  MarksInv'
<1> DEFINE i == Oldest(sync[y].todo)
           m == [marked[i] EXCEPT !.acked = TRUE]
<1>1. sync[y].at = "ack"
  BY DEF Acknowledge
<1>2. /\ i \in DOMAIN marked /\ ~marked[i].acked /\ Settled(i)
      /\ i \in sync[y].todo /\ i \in applied /\ marked[i] \in MarkRow
      /\ \A j \in sync[y].todo : ~marked[j].acked
      /\ \A j \in DOMAIN marked : ~marked[j].acked =>
           j \in sync[y].todo \/ \A l \in sync[y].todo : l < j
  BY <1>1, AtFront, MarkAtHand, Runs DEF Running, MarksInv, Fetching
<1>3. ToldCopy(i) /\ ToldOps(i)
  BY <1>2 DEF MarksInv
<1>4. \/ sync'[y].at = "idle"
      \/ /\ sync'[y].at = "seen" /\ sync'[y].todo = sync[y].todo \ {i}
         /\ sync'[y].todo # {}
  BY RestIs DEF Acknowledge
<1>5. marked' = [marked EXCEPT ![i] = m]
  BY DEF Acknowledge
<1>6. UNCHANGED <<copies, mark, applied>>
  BY DEF Acknowledge, opsVars
<1> HIDE DEF i
<1>7. m.occ = marked[i].occ /\ m.copy = marked[i].copy /\ m.acked
      /\ m.status = marked[i].status
  BY <1>2 DEF MarkRow
<1> HIDE DEF m
<1>8. /\ DOMAIN marked' = DOMAIN marked
      /\ \A j \in DOMAIN marked :
           /\ marked'[j].occ = marked[j].occ
           /\ marked'[j].copy = marked[j].copy
           /\ marked'[j].status = marked[j].status
           /\ marked'[j].acked <=> marked[j].acked \/ j = i
  <2>1. /\ DOMAIN marked' = DOMAIN marked
        /\ \A j \in DOMAIN marked : marked'[j] = IF j = i THEN m ELSE marked[j]
    BY <1>2, <1>5, MarkNumbers
  <2> QED
    BY <1>2, <1>7, <2>1, MarkNumbers
<1>9. \A j \in DOMAIN marked : /\ ToldCopy(j)' <=> ToldCopy(j)
                               /\ ToldOps(j)' <=> ToldOps(j)
  BY <1>6, <1>8 DEF ToldCopy, ToldOps
<1>10. \A j \in DOMAIN marked : Settled(j) => Settled(j)'
  BY <1>8 DEF Settled
<1>11. \A j \in DOMAIN marked' : marked'[j].acked \/ j \in applied' => Settled(j)'
  BY <1>2, <1>6, <1>8, <1>10 DEF MarksInv
<1>12. \A j \in applied' : ~marked'[j].acked => ToldCopy(j)' /\ ToldOps(j)'
  BY <1>6, <1>8, <1>9, MarkNumbers DEF MarksInv
<1>13. ASSUME NEW j \in DOMAIN marked', marked'[j].acked,
              \A l \in DOMAIN marked' :
                marked'[l].acked /\ marked'[l].occ = marked'[j].occ => l <= j
       PROVE  \/ ToldCopy(j)' /\ ToldOps(j)'
              \/ \E f \in DOMAIN marked' : /\ ~marked'[f].acked /\ Settled(f)'
                                           /\ marked'[f].occ = marked'[j].occ
  <2>1. CASE j = i
    BY <1>2, <1>3, <1>9, <2>1
  <2>2. CASE j # i
    <3>1. /\ j \in DOMAIN marked /\ marked[j].acked /\ Settled(j)
          /\ \A l \in DOMAIN marked :
               marked[l].acked /\ marked[l].occ = marked[j].occ => l <= j
      BY <1>8, <1>13, <2>2 DEF MarksInv
    <3>2. CASE ToldCopy(j) /\ ToldOps(j)
      BY <1>9, <3>1, <3>2
    <3>3. CASE ~(ToldCopy(j) /\ ToldOps(j))
      <4>1. PICK f \in DOMAIN marked : /\ ~marked[f].acked /\ Settled(f)
                                       /\ marked[f].occ = marked[j].occ
        BY <3>1, <3>3 DEF MarksInv
      <4>2. f = i
        BY <1>2, <4>1, OneFront
      <4>3. i <= j
        BY <1>2, <1>8, <1>13, <4>1, <4>2
      <4>4. i < j
        BY <1>2, <2>2, <3>1, <4>3, MarkNumbers
      <4> QED
        BY <1>2, <3>1, <4>4 DEF Settled
    <3> QED
      BY <3>2, <3>3
  <2> QED
    BY <2>1, <2>2
<1>14. Fetching(sync[y])'
  <2>1. CASE sync'[y].at = "idle"
    BY <2>1 DEF Fetching
  <2>2. CASE /\ sync'[y].at = "seen" /\ sync'[y].todo = sync[y].todo \ {i}
             /\ sync'[y].todo # {}
    <3> DEFINE T == sync[y].todo \ {i}
               n == Oldest(T)
    <3>1. T \in SUBSET Nat /\ T # {} /\ T \subseteq DOMAIN marked
      BY <1>1, <2>2, MarkOf, Runs DEF SyncState
    <3>2. n \in T /\ \A j \in T : n <= j
      <4> HIDE DEF T
      <4> QED
        BY <3>1, LeastOf DEF Oldest
    <3>3. \A j \in T : ~marked'[j].acked
      BY <1>2, <1>8, <3>1
    <3>4. \A j \in DOMAIN marked' : ~marked'[j].acked =>
            j \in T \/ \A l \in T : l < j
      BY <1>2, <1>8
    <3> HIDE DEF T, n
    <3>5. \A j \in DOMAIN marked' : j < n => marked'[j].acked
      <4> SUFFICES ASSUME NEW j \in DOMAIN marked', j < n, ~marked'[j].acked
                   PROVE  FALSE
        OBVIOUS
      <4>1. j \in Nat /\ n \in Nat
        BY <1>8, <3>1, <3>2, MarkNumbers
      <4> QED
        BY <3>2, <3>4, <4>1
    <3>6. sync'[y].todo = T /\ Oldest(sync'[y].todo) = n
      BY <2>2 DEF T, n
    <3> QED
      BY <2>2, <3>3, <3>4, <3>5, <3>6 DEF Fetching, Settled
  <2> QED
    BY <1>4, <2>1, <2>2
<1> QED
  BY <1>11, <1>12, <1>13, <1>14 DEF MarksInv

(* A mark the school makes comes after all that wait.                      *)
LEMMA SchoolMarksTells ==
  ASSUME SyncInv, MarksInv, NEW o \in Occ, NEW s \in Mark, SchoolMarks(o, s)
  PROVE  MarksInv'
<1> DEFINE n == Len(marked) + 1
<1>1. /\ DOMAIN marked = 1 .. Len(marked) /\ Len(marked) \in Nat
      /\ applied \subseteq DOMAIN marked
  BY MarkNumbers
<1>2. /\ DOMAIN marked' = DOMAIN marked \cup {n}
      /\ \A i \in DOMAIN marked : marked'[i] = marked[i]
      /\ ~marked'[n].acked
  BY SchoolMarksTypes
<1>3. \A i \in DOMAIN marked : i < n /\ i # n
  BY <1>1
<1>4. UNCHANGED <<copies, mark, applied, sync>>
  BY DEF SchoolMarks, opsVars
<1> HIDE DEF n
<1>5. \A i \in DOMAIN marked : /\ ToldCopy(i)' <=> ToldCopy(i)
                               /\ ToldOps(i)' <=> ToldOps(i)
  BY <1>2, <1>4 DEF ToldCopy, ToldOps
<1>6. \A i \in DOMAIN marked : Settled(i) => Settled(i)'
  <2> SUFFICES ASSUME NEW i \in DOMAIN marked, Settled(i),
                      NEW j \in DOMAIN marked', j < i
               PROVE  marked'[j].acked
    BY DEF Settled
  <2>1. j # n
    <3>1. i < n /\ i \in Nat /\ n \in Nat
      BY <1>1, <1>3 DEF n
    <3> QED
      BY <3>1
  <2> QED
    BY <1>2, <2>1 DEF Settled
<1>7. \A i \in DOMAIN marked' : marked'[i].acked \/ i \in applied' => Settled(i)'
  <2> SUFFICES ASSUME NEW i \in DOMAIN marked', marked'[i].acked \/ i \in applied
               PROVE  Settled(i)'
    BY <1>4
  <2>1. i \in DOMAIN marked /\ (marked[i].acked \/ i \in applied)
    BY <1>1, <1>2
  <2> QED
    BY <1>6, <2>1 DEF MarksInv
<1>8. \A i \in applied' : ~marked'[i].acked => ToldCopy(i)' /\ ToldOps(i)'
  BY <1>1, <1>2, <1>4, <1>5 DEF MarksInv
<1>9. ASSUME NEW i \in DOMAIN marked', marked'[i].acked,
             \A j \in DOMAIN marked' :
               marked'[j].acked /\ marked'[j].occ = marked'[i].occ => j <= i
      PROVE  \/ ToldCopy(i)' /\ ToldOps(i)'
             \/ \E f \in DOMAIN marked' : /\ ~marked'[f].acked /\ Settled(f)'
                                          /\ marked'[f].occ = marked'[i].occ
  <2>1. /\ i \in DOMAIN marked /\ marked[i].acked
        /\ \A j \in DOMAIN marked :
             marked[j].acked /\ marked[j].occ = marked[i].occ => j <= i
    BY <1>2, <1>9
  <2>2. \/ ToldCopy(i) /\ ToldOps(i)
        \/ \E f \in DOMAIN marked : /\ ~marked[f].acked /\ Settled(f)
                                    /\ marked[f].occ = marked[i].occ
    BY <2>1 DEF MarksInv
  <2> QED
    BY <1>2, <1>5, <1>6, <2>1, <2>2
<1>10. ASSUME NEW y \in Syncs PROVE Fetching(sync[y])'
  <2> SUFFICES ASSUME sync[y].at \in {"seen", "shared", "ops", "applied", "ack"}
               PROVE  Fetching(sync[y])'
    BY <1>4 DEF Fetching
  <2>1. /\ Oldest(sync[y].todo) \in DOMAIN marked
        /\ sync[y].todo \subseteq DOMAIN marked
        /\ Fetching(sync[y])
    BY MarkOf DEF MarksInv
  <2>2. Oldest(sync[y].todo)' = Oldest(sync[y].todo)
    BY <1>4
  <2>3. Settled(Oldest(sync[y].todo))'
    BY <1>4, <1>6, <2>1 DEF Fetching
  <2>4. \A i \in sync[y].todo : ~marked'[i].acked
    BY <1>2, <2>1 DEF Fetching
  <2>5. \A i \in DOMAIN marked' : ~marked'[i].acked =>
          i \in sync[y].todo \/ \A j \in sync[y].todo : j < i
    BY <1>2, <1>3, <2>1 DEF Fetching
  <2>6. /\ sync[y].at \in {"shared", "ops", "applied"} =>
             Oldest(sync[y].todo) \notin applied'
        /\ sync[y].at \in {"ops", "applied"} => ToldCopy(Oldest(sync[y].todo))'
        /\ sync[y].at = "applied" => ToldOps(Oldest(sync[y].todo))'
    BY <1>4, <1>5, <2>1 DEF Fetching
  <2> QED
    BY <1>4, <2>2, <2>3, <2>4, <2>5, <2>6 DEF Fetching
<1> QED
  BY <1>7, <1>8, <1>9, <1>10 DEF MarksInv

LEMMA MarksInitially ==
  Init => MarksInv
<1> SUFFICES ASSUME Init PROVE MarksInv
  OBVIOUS
<1>1. /\ marked = <<>> /\ applied = {}
      /\ \A y \in Syncs : sync[y].at = "idle"
  BY DEF Init, Asleep
<1>2. DOMAIN marked = {}
  BY <1>1
<1>3. \A y \in Syncs : Fetching(sync[y])
  BY <1>1 DEF Fetching
<1> QED
  BY <1>1, <1>2, <1>3 DEF MarksInv

LEMMA MarksStep ==
  ASSUME SyncInv, MarksInv, \A y, z \in Syncs : y = z, [Next]_vars
  PROVE  MarksInv'
<1>1. ASSUME NEW c \in Publishers, Publish(c) \/ StopPublish(c) PROVE MarksInv'
  <2>1. RowsTell /\ UNCHANGED <<marked, applied, mark, sync>>
    BY <1>1, PublishTells
  <2>2. /\ \A i \in DOMAIN marked : ToldCopy(i) => ToldCopy(i)'
        /\ \A i \in DOMAIN marked : ToldOps(i) => ToldOps(i)'
    BY <2>1, CopyStaysTold DEF ToldOps
  <2> QED
    BY <2>1, <2>2, ToldStays
<1>2. ASSUME NEW y \in Syncs,
             Waiting(y) \/ Deliver(y) \/ DeliveredAt(y) \/ StopSync(y)
      PROVE  MarksInv'
  <2>1. UNCHANGED <<copies, marked, applied, mark>>
    BY <1>2 DEF Waiting, Deliver, DeliveredAt, StopSync, opsVars, schoolVars
  <2>2. sync'[y].at \notin {"seen", "shared", "ops", "applied", "ack"}
    <3>1. CASE Waiting(y)
      BY <3>1, WaitingTypes
    <3>2. CASE Deliver(y)
      BY <3>2, DeliverTypes
    <3>3. CASE DeliveredAt(y)
      BY <3>3, DeliveredAtTypes
    <3>4. CASE StopSync(y)
      BY <3>4, StopSyncTypes
    <3> QED
      BY <1>2, <3>1, <3>2, <3>3, <3>4
  <2>3. /\ \A i \in DOMAIN marked : ToldCopy(i) => ToldCopy(i)'
        /\ \A i \in DOMAIN marked : ToldOps(i) => ToldOps(i)'
        /\ \A z \in Syncs : z = y
    BY <2>1 DEF ToldCopy, ToldOps
  <2> QED
    BY <2>1, <2>2, <2>3, ToldStays
<1>3. ASSUME NEW y \in Syncs, Sync(y) \/ StopSync(y) PROVE MarksInv'
  BY <1>2, <1>3, CollectTells, SeenTells, StoreSharedTells, StoreOpsTells,
     RememberTells, AcknowledgeTells DEF Sync
<1>4. ASSUME NEW o \in Occ, NEW s \in Mark, HandMark(o, s) PROVE MarksInv'
  <2>1. /\ mark' = [mark EXCEPT ![o] = [status |-> s, by |-> "ops"]]
        /\ UNCHANGED <<copies, marked, applied, sync>>
    BY <1>4 DEF HandMark, schoolVars
  <2>2. mark'[o].by = "ops" /\ \A x \in Occ : x # o => mark'[x] = mark[x]
    BY <2>1 DEF SyncInv, TypeOK
  <2>3. \A i \in DOMAIN marked : ToldCopy(i) => ToldCopy(i)'
    BY <2>1 DEF ToldCopy
  <2>4. \A i \in DOMAIN marked : ToldOps(i) => ToldOps(i)'
    BY <2>1, <2>2, MarkAtHand DEF ToldOps
  <2> QED
    BY <2>1, <2>3, <2>4, ToldStays
<1>5. ASSUME NEW o \in Occ, NEW s \in Mark, SchoolMarks(o, s) PROVE MarksInv'
  BY <1>5, SchoolMarksTells
<1>6. CASE (\E p \in Cast : LinkCast(p)) \/ UNCHANGED vars
  <2>1. UNCHANGED <<copies, marked, applied, mark, sync>>
    BY <1>6 DEF LinkCast, EnsureUser, LinkUser, vars, opsVars, schoolVars
  <2>2. /\ \A i \in DOMAIN marked : ToldCopy(i) => ToldCopy(i)'
        /\ \A i \in DOMAIN marked : ToldOps(i) => ToldOps(i)'
    BY <2>1 DEF ToldCopy, ToldOps
  <2> QED
    BY <2>1, <2>2, ToldStays
<1> QED
  BY <1>1, <1>3, <1>4, <1>5, <1>6 DEF Next

(* One run of sync:local at a time, however many requests publish beside   *)
(* it and wherever it stops: once every mark is acknowledged, the shared   *)
(* copy shows the last one the school made of each session, and so does    *)
(* the participant unless somebody marked it here.                         *)
THEOREM MarksAgreeInTurn ==
  ASSUME \A y, z \in Syncs : y = z
  PROVE  Spec => []MarksAgree
<1>1. Init => SyncInv /\ MarksInv
  BY SyncInitially, MarksInitially
<1>2. SyncInv /\ MarksInv /\ [Next]_vars => SyncInv' /\ MarksInv'
  BY SyncStep, MarksStep
<1>3. SyncInv /\ MarksInv => MarksAgree
  <2> SUFFICES ASSUME SyncInv, MarksInv,
                      \A i \in DOMAIN marked : marked[i].acked,
                      NEW i \in DOMAIN marked,
                      \A j \in DOMAIN marked : j > i => marked[j].occ # marked[i].occ
               PROVE  ToldCopy(i) /\ ToldOps(i)
    BY DEF MarksAgree, ToldCopy, ToldOps
  <2>1. \A j \in DOMAIN marked :
          marked[j].acked /\ marked[j].occ = marked[i].occ => j <= i
    BY MarkNumbers
  <2> QED
    BY <2>1 DEF MarksInv
<1> QED
  BY <1>1, <1>2, <1>3, PTL DEF Spec
=============================================================================
