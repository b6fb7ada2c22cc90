--------------------------- MODULE Import_proofs ---------------------------
(***************************************************************************)
(* What Import guarantees for any exports and users and any number of      *)
(* previews and commits side by side, stopped anywhere, with people        *)
(* invited and sessions booked by hand in between.                         *)
(***************************************************************************)
EXTENDS Import, FiniteSetTheorems, SequenceTheorems, WellFoundedInduction, TLAPS

-----------------------------------------------------------------------------
(* Where a request stands.                                                 *)

Fields == {"at", "commit", "batch", "export", "todo", "i", "known", "fresh",
           "names", "emails", "busy", "pending", "entity", "student", "says",
           "after"}
Sayings == {"written", "here", "refused", "clashed", "unknown"}
BatchFields == {"status", "export", "files", "source", "report", "seenBefore"}
Shaped(k) == DOMAIN k = Fields /\ DOMAIN k.says = Sayings

Reading == {"ledger", "lookup", "busy"}
Having == {"status", "remember", "attach"}
AtARow == {"match", "create"} \cup Having
InFile == Reading \cup {"rows"} \cup AtARow

RowOf(k) == Rows(k.export, Head(k.todo))[k.i]
KeyOf(k) == Key(k.export, Head(k.todo), k.i)
Items(t) == {t[n] : n \in 1 .. Len(t)}
Left(k) == Items(k.todo)

Going(k) ==
  /\ k.commit \in BOOLEAN
  /\ k.at = "idle" => k = Blank
  /\ k.todo \in Seq(FileName) /\ k.i \in Nat \ {0} /\ k.student \in Nat \ {0}
  /\ k.at \in InFile => k.todo # <<>>
  /\ k.at \in InFile \cup {"report", "event"} => k.export \in Exports
  /\ k.at \in {"report", "event"} => k.todo = <<>>
  /\ k.at = "done" /\ k.commit => k.todo = <<>> /\ k.export \in Exports
  /\ k.at \in Reading => k.i = 1
  /\ k.at \in AtARow => k.i <= Len(Rows(k.export, Head(k.todo)))
  /\ k.at \in AtARow \cup {"event"} => k.commit
  /\ k.at \notin Having \cup {"dead"} => k.entity = 0
  /\ k.at # "attach" => k.student = 1
  /\ k.commit => k.pending = <<>>
  /\ k.at = "status" => Head(k.todo) = "people"
  /\ k.at = "busy" => Head(k.todo) = "sessions"
  /\ k.at = "attach" => /\ Head(k.todo) = "sessions"
                        /\ k.student <= Len(RowOf(k).students)

Countable(k) == \A what \in {"written", "here", "refused"} : IsFiniteSet(k.says[what])

(* Every request has a batch, that of a preview is its own.                *)
Batched ==
  /\ DOMAIN batch = Runs
  /\ \A b \in Runs : batch[b] # None =>
       /\ DOMAIN batch[b] = BatchFields
       /\ batch[b].export \in Exports
       /\ batch[b].files \subseteq FileName /\ batch[b].files # {}
  /\ \A c \in Runs :
       IF call[c].at = "idle" THEN batch[c] = None
       ELSE /\ call[c].batch \in Runs /\ batch[call[c].batch] # None
            /\ ~call[c].commit => call[c].batch = c

Called ==
  /\ DOMAIN call = Runs
  /\ \A c \in Runs : Shaped(call[c]) /\ Going(call[c]) /\ Countable(call[c])
  /\ \A c \in Runs : \A d \in call[c].after : d \in Runs /\ call[d].at = "done"

-----------------------------------------------------------------------------
(* What a commit believes is so.                                           *)

First(name, u) == /\ u \in DOMAIN users /\ users[u].name = name
                  /\ \A j \in 1 .. u - 1 : users[j].name # name

Believing(c) == call[c].commit =>
  /\ call[c].known \cup call[c].fresh \subseteq DOMAIN ledger
  /\ \A name \in DOMAIN call[c].names : First(name, call[c].names[name])
  /\ \A mail \in DOMAIN call[c].emails : call[c].emails[mail] \in DOMAIN users
  /\ call[c].busy \subseteq BusyByInstructor(sessions)

(* What it counts as written the ledger names.                             *)
Entered(c) == call[c].commit => WrittenKeys(c) \subseteq DOMAIN ledger

(* What was judged of the row it is at.                                    *)
Judged(c) ==
  /\ call[c].at = "match" => Matched(c)
  /\ call[c].at = "create" =>
       /\ Readable(File(c), TheRow(c)) /\ ~Matched(c)
       /\ TheKey(c) \notin call[c].known \cup call[c].fresh
       /\ File(c) = "sessions" => ~Busy(c)

(* The entity at hand was made by this request from this row.              *)
Seated(i, n) ==
  \/ \E p \in call[sessions[i].by].says.unknown :
       /\ p[3] = n
       /\ Key(call[sessions[i].by].export, "sessions", p[2]) = sessions[i].source
  \/ \E u \in sessions[i].roster : users[u].name = sessions[i].source[2][4][n]

AsTheRow(c, s) == /\ s.who = Instructor(c) /\ s.status = TheRow(c).status
                  /\ s.from = TheRow(c).from
                  /\ s.to = TheRow(c).from + TheRow(c).minutes

Holding(c) ==
  /\ call[c].at \in Having =>
       /\ call[c].entity \in Made(File(c))
       /\ MadeBy(File(c), call[c].entity) = c
       /\ SourceOf(File(c), call[c].entity) = TheKey(c)
  /\ call[c].at = "remember" /\ File(c) = "sessions" =>
       /\ \A key \in DOMAIN ledger :
            key[1] = "sessions" => ledger[key] # call[c].entity
       /\ AsTheRow(c, sessions[call[c].entity])
  /\ call[c].at = "attach" =>
       /\ TheKey(c) \in DOMAIN ledger /\ ledger[TheKey(c)] = call[c].entity
       /\ \A n \in 1 .. call[c].student - 1 : Seated(call[c].entity, n)

(* Its own sessions are among those it holds against the next rows.        *)
Ours(c) ==
  /\ call[c].at \in {"rows"} \cup AtARow /\ call[c].commit /\ File(c) = "sessions"
  => \A i \in DOMAIN sessions :
       /\ sessions[i].by = c /\ Holds(sessions[i].who, sessions[i].status)
       => \/ [who |-> sessions[i].who, from |-> sessions[i].from,
              to |-> sessions[i].to] \in call[c].busy
          \/ LostTheKey("sessions", i)
          \/ call[c].at = "remember" /\ call[c].entity = i

-----------------------------------------------------------------------------
(* Rows no later import writes.                                            *)

Occupied(w, r, busy) == \E s \in busy : Clash(s, Span(w, r))
Hopeless(e, f, i) ==
  LET r == Rows(e, f)[i] IN
  \/ ~Readable(f, r)
  \/ /\ f = "people"
     /\ \/ ~r.valid
        \/ r.email # None /\ \E u \in DOMAIN users : users[u].email = r.email
  \/ /\ f = "sessions" /\ r.status = "blocking"
     /\ \E w \in DOMAIN users : /\ First(r.instructor, w)
                                /\ Occupied(w, r, BusyByInstructor(sessions))
Settled(e, f, i) == Key(e, f, i) \in DOMAIN ledger \/ Hopeless(e, f, i)
AllSettled(e, f) == \A i \in DOMAIN Rows(e, f) : Settled(e, f, i)

Settling(c) ==
  call[c].commit /\ call[c].at \in Working \cup {"done"} =>
    /\ call[c].export = batch[call[c].batch].export
    /\ Left(call[c]) \subseteq batch[call[c].batch].files
    /\ \A f \in batch[call[c].batch].files \ Left(call[c]) :
         AllSettled(call[c].export, f)
    /\ call[c].at \in InFile =>
         \A j \in 1 .. call[c].i - 1 : Settled(call[c].export, File(c), j)

(* How a commit that repeats another knows that it need not write a row.   *)
Repeating(c) == \E d \in Runs : Again(d, c)
Forbidden(c, i, busy) ==
  LET r == Rows(call[c].export, File(c))[i]
      names == call[c].names
  IN
  \/ ~Readable(File(c), r)
  \/ /\ File(c) = "people"
     /\ \/ ~r.valid
        \/ r.email # None /\ r.email \in DOMAIN call[c].emails
  \/ /\ File(c) = "sessions" /\ r.status = "blocking" /\ r.instructor \in DOMAIN names
     /\ Occupied(names[r.instructor], r, busy)
Warned(c, i) ==
  \/ Key(call[c].export, File(c), i) \in call[c].known
  \/ call[c].at = "lookup" /\ Hopeless(call[c].export, File(c), i)
  \/ call[c].at = "busy" /\ Forbidden(c, i, BusyByInstructor(sessions))
  \/ call[c].at \in {"rows", "match", "create"} /\ Forbidden(c, i, call[c].busy)
Barred(c) ==
  Repeating(c) /\ call[c].at \in {"lookup", "busy", "rows", "match", "create"} =>
    \A i \in DOMAIN Rows(call[c].export, File(c)) : Warned(c, i)

-----------------------------------------------------------------------------
(* The tables.                                                             *)

Tables ==
  /\ \A i \in DOMAIN sessions :
       /\ sessions[i].who # None => sessions[i].who \in DOMAIN users
       /\ sessions[i].roster \subseteq DOMAIN users
       /\ sessions[i].by \in Runs => sessions[i].source # None
  /\ \A f \in FileName : \A i \in Made(f) :
       MadeBy(f, i) \in Runs /\ call[MadeBy(f, i)].at # "idle"

ImportInv ==
  /\ TypeOK /\ Called /\ Batched /\ Tables
  /\ \A c \in Runs : Believing(c) /\ Entered(c) /\ Judged(c) /\ Holding(c) /\ Ours(c)
  /\ \A c \in Runs : Settling(c) /\ Barred(c)
  /\ CountedOnce /\ WholeUnlessStopped /\ ConstraintOnlyForOthers
  /\ SecondWritesNothing

-----------------------------------------------------------------------------
(* Facts about data.                                                       *)

LEMMA FileNames == FileName = {"people", "sessions", "series"}
<1>1. FileName = {Files[1], Files[2], Files[3]}
  BY DEF FileName
<1> QED
  BY <1>1 DEF Files

(* An upload is worked on in the order people, sessions, series.           *)
LEMMA ItemsOfTwo ==
  ASSUME NEW S, NEW s \in Seq(S), NEW t \in Seq(S)
  PROVE  s \o t \in Seq(S) /\ Items(s \o t) = Items(s) \cup Items(t)
<1> DEFINE u == s \o t
           m == Len(s)
           n == Len(t)
<1>1. /\ u \in Seq(S) /\ Len(u) = m + n /\ m \in Nat /\ n \in Nat
      /\ \A i \in 1 .. m + n : u[i] = IF i <= m THEN s[i] ELSE t[i - m]
  OBVIOUS
<1> HIDE DEF u, m, n
<1>2. ASSUME NEW i \in 1 .. m + n
      PROVE  u[i] \in {s[j] : j \in 1 .. m} \cup {t[j] : j \in 1 .. n}
  <2>1. CASE i <= m
    BY <1>1, <2>1
  <2>2. CASE i > m
    <3>1. i - m \in 1 .. n /\ u[i] = t[i - m]
      BY <1>1, <2>2
    <3> QED
      BY <3>1
  <2> QED
    BY <1>1, <2>1, <2>2
<1>3. ASSUME NEW j \in 1 .. m PROVE \E i \in 1 .. m + n : u[i] = s[j]
  BY <1>1
<1>4. ASSUME NEW j \in 1 .. n PROVE \E i \in 1 .. m + n : u[i] = t[j]
  <2>1. m + j \in 1 .. m + n /\ u[m + j] = t[j]
    BY <1>1
  <2> QED
    BY <2>1
<1>5. {u[i] : i \in 1 .. m + n}
        = {s[j] : j \in 1 .. m} \cup {t[j] : j \in 1 .. n}
  BY <1>2, <1>3, <1>4
<1> QED
  BY <1>1, <1>5 DEF u, m, n, Items

LEMMA OrderIs ==
  ASSUME NEW files \in SUBSET FileName
  PROVE  /\ Order(files) \in Seq(FileName)
         /\ Items(Order(files)) = files
<1> DEFINE only(f) == IF f \in files THEN <<f>> ELSE <<>>
<1>1. Order(files) = only("people") \o only("sessions") \o only("series")
  BY DEF Order, Files
<1>2. ASSUME NEW f \in FileName
      PROVE  only(f) \in Seq(FileName) /\ Items(only(f)) = {f} \cap files
  <2>1. CASE f \in files
    <3>1. only(f) = <<f>> /\ Len(<<f>>) = 1 /\ <<f>>[1] = f
      BY <2>1
    <3>2. Items(<<f>>) = {f}
      BY DEF Items
    <3> QED
      BY <2>1, <3>1, <3>2
  <2>2. CASE f \notin files
    <3>1. only(f) = <<>> /\ Items(<<>>) = {}
      BY <2>2 DEF Items
    <3> QED
      BY <2>2, <3>1
  <2> QED
    BY <2>1, <2>2
<1>3. files = ({"people"} \cap files) \cup ({"sessions"} \cap files)
                \cup ({"series"} \cap files)
  BY FileNames
<1> HIDE DEF only
<1>4. /\ only("people") \in Seq(FileName) /\ only("sessions") \in Seq(FileName)
      /\ only("series") \in Seq(FileName)
      /\ Items(only("people")) = {"people"} \cap files
      /\ Items(only("sessions")) = {"sessions"} \cap files
      /\ Items(only("series")) = {"series"} \cap files
  BY <1>2, FileNames
<1> DEFINE a == only("people")
           b == only("sessions")
           d == only("series")
<1> HIDE DEF a, b, d
<1>5. a \in Seq(FileName) /\ b \in Seq(FileName) /\ d \in Seq(FileName)
  BY <1>4 DEF a, b, d
<1>6. a \o b \in Seq(FileName) /\ Items(a \o b) = Items(a) \cup Items(b)
  BY <1>5, ItemsOfTwo
<1> DEFINE ab == a \o b
<1> HIDE DEF ab
<1>7. ab \in Seq(FileName)
  BY <1>6 DEF ab
<1>8. ab \o d \in Seq(FileName) /\ Items(ab \o d) = Items(ab) \cup Items(d)
  BY <1>5, <1>7, ItemsOfTwo
<1>9. Order(files) = ab \o d
  BY <1>1, Zenon DEF ab, a, b, d
<1> QED
  BY <1>3, <1>4, <1>6, <1>8, <1>9 DEF a, b, d, ab

LEMMA LeastOf ==
  ASSUME NEW S \in SUBSET Nat, S # {}
  PROVE  \E i \in S : \A j \in S : i <= j
<1> DEFINE T == {1 .. n : n \in S}
<1>1. T \subseteq FiniteSubsetsOf(Nat) /\ T # {}
  <2>1. ASSUME NEW n \in S PROVE 1 .. n \in FiniteSubsetsOf(Nat)
    <3>1. 1 .. n \in SUBSET Nat
      OBVIOUS
    <3>2. IsFiniteSet(1 .. n)
      BY FS_Interval
    <3> QED
      BY <3>1, <3>2 DEF FiniteSubsetsOf
  <2> QED
    BY <2>1
<1>2. PICK s \in T : \A t \in T : <<t, s>> \notin StrictSubsetOrdering(Nat)
  BY <1>1, FS_StrictSubsetOrderingWellFounded, WFMin
<1>3. PICK i \in S : s = 1 .. i
  OBVIOUS
<1>4. ASSUME NEW j \in S, j < i PROVE FALSE
  <2>1. 1 .. j \subseteq 1 .. i /\ i \in (1 .. i) \ (1 .. j)
    BY <1>4
  <2>2. <<1 .. j, 1 .. i>> \in StrictSubsetOrdering(Nat)
    BY <2>1 DEF StrictSubsetOrdering
  <2> QED
    BY <1>2, <1>3, <2>2
<1> QED
  BY <1>4

(* The rows of each file are what its reader makes.                        *)
LEMMA RowTypes ==
  ASSUME NEW e \in Exports
  PROVE  /\ Rows(e, "people") \in Seq(PersonRow)
         /\ Rows(e, "sessions") \in Seq(SessionRow)
         /\ Rows(e, "series") \in Seq(SeriesRow)
<1> HIDE DEF PersonRow, SessionRow, SeriesRow
<1> QED
  BY ImportAssumption DEF Rows

LEMMA RowsAre ==
  ASSUME NEW e \in Exports, NEW f \in FileName
  PROVE  Len(Rows(e, f)) \in Nat /\ DOMAIN Rows(e, f) = 1 .. Len(Rows(e, f))
BY RowTypes, FileNames, LenProperties

LEMMA PersonAt ==
  ASSUME NEW e \in Exports, NEW i \in DOMAIN Rows(e, "people")
  PROVE  /\ Rows(e, "people")[i].shown \in STRING
         /\ Rows(e, "people")[i].email \in STRING \cup {None}
         /\ Rows(e, "people")[i].account \in Account
<1>1. Rows(e, "people")[i] \in PersonRow
  <2> HIDE DEF PersonRow
  <2> QED
    BY RowTypes, ElementOfSeq, LenProperties
<1> QED
  BY <1>1 DEF PersonRow

LEMMA SessionAt ==
  ASSUME NEW e \in Exports, NEW i \in DOMAIN Rows(e, "sessions")
  PROVE  /\ Rows(e, "sessions")[i].students \in Seq(STRING)
         /\ Rows(e, "sessions")[i].from \in Int \cup {None}
         /\ Rows(e, "sessions")[i].minutes \in Int
         /\ Rows(e, "sessions")[i].status \in {"blocking", "free", None}
<1>1. Rows(e, "sessions")[i] \in SessionRow
  <2> HIDE DEF SessionRow
  <2> QED
    BY RowTypes, ElementOfSeq, LenProperties
<1> QED
  BY <1>1 DEF SessionRow

(* A key says which file it is of; that of a session whom it is held with. *)
LEMMA KeyIs ==
  ASSUME NEW e \in Exports, NEW f \in FileName, NEW i \in DOMAIN Rows(e, f)
  PROVE  /\ Key(e, f, i) \in Keys /\ Key(e, f, i) # None
         /\ Key(e, f, i)[1] = f
         /\ f = "sessions" => Key(e, f, i)[2][4] = Rows(e, f)[i].students
<1>1. Key(e, f, i) \in Keys
  <2>1. Key(e, f, i) \in {Key(e, f, j) : j \in DOMAIN Rows(e, f)}
    BY Zenon
  <2> DEFINE K(h, l) == {Key(h, l, j) : j \in DOMAIN Rows(h, l)}
  <2>2. Keys = UNION {K(h, l) : h \in Exports, l \in FileName}
    BY DEF Keys
  <2>3. Key(e, f, i) \in K(e, f)
    BY <2>1
  <2> HIDE DEF K
  <2>4. K(e, f) \in {K(h, l) : h \in Exports, l \in FileName}
    OBVIOUS
  <2> QED
    BY <2>2, <2>3, <2>4
<1>2. Key(e, f, i)[1] = f
  BY DEF Key
<1>3. Key(e, f, i)[2] = Base(f, Rows(e, f)[i])
  BY DEF Key
<1>4. f = "sessions" => Base(f, Rows(e, f)[i])[4] = Rows(e, f)[i].students
  BY DEF Base
<1> QED
  BY <1>1, <1>2, <1>3, <1>4, ImportAssumption

-----------------------------------------------------------------------------
(* What is looked up.                                                      *)

LEMMA NamedIs ==
  ASSUME users \in Seq(User), NEW n \in DOMAIN users
  PROVE  First(users[n].name, Named(users, users[n].name))
<1> DEFINE name == users[n].name
           S == {i \in DOMAIN users : users[i].name = name}
<1> HIDE DEF User
<1>1. DOMAIN users = 1 .. Len(users) /\ Len(users) \in Nat
  BY LenProperties
<1>2. S \in SUBSET Nat /\ n \in S
  BY <1>1
<1>3. PICK i \in S : \A j \in S : i <= j
  BY <1>2, LeastOf
<1>4. users[i].name = name /\ \A j \in 1 .. i - 1 : users[j].name # name
  BY <1>1, <1>3
<1>5. \E k \in DOMAIN users : /\ users[k].name = name
                              /\ \A j \in 1 .. k - 1 : users[j].name # name
  BY <1>3, <1>4
<1> QED
  BY <1>5 DEF Named, First

LEMMA FirstOnce ==
  ASSUME users \in Seq(User), NEW name, NEW u, NEW v, First(name, u), First(name, v)
  PROVE  u = v
<1> HIDE DEF User
<1>1. u \in Nat \ {0} /\ v \in Nat \ {0}
  BY LenProperties DEF First
<1> QED
  BY <1>1 DEF First

LEMMA ByNameIs ==
  ASSUME users \in Seq(User)
  PROVE  /\ \A name \in DOMAIN ByName(users) : First(name, ByName(users)[name])
         /\ \A n \in DOMAIN users : users[n].name \in DOMAIN ByName(users)
<1>1. DOMAIN ByName(users) = {users[i].name : i \in DOMAIN users}
  BY DEF ByName
<1>2. \A name \in {users[i].name : i \in DOMAIN users} :
        ByName(users)[name] = Named(users, name)
  BY DEF ByName
<1> QED
  BY <1>1, <1>2, NamedIs

(* With nobody foreseen there are no stand-ins.                            *)
LEMMA NoStandIns ==
  ASSUME NEW names
  PROVE  /\ DOMAIN StandIns(<<>>, names) = DOMAIN names
         /\ \A name \in DOMAIN names : StandIns(<<>>, names)[name] = names[name]
BY DEF StandIns

LEMMA ByEmailIs ==
  ASSUME NEW n \in DOMAIN users, users[n].email # None
  PROVE  users[n].email \in DOMAIN ByEmail(users)
BY DEF ByEmail

LEMMA ByEmailIn ==
  ASSUME NEW mail \in DOMAIN ByEmail(users)
  PROVE  ByEmail(users)[mail] \in DOMAIN users
BY DEF ByEmail

-----------------------------------------------------------------------------
(* How a request moves.                                                    *)

LEMMA BlankIs ==
  /\ Shaped(Blank) /\ Going(Blank)
  /\ Blank.at = "idle" /\ Blank.entity = 0 /\ Blank.commit = FALSE
  /\ Blank.batch = None /\ Blank.export = None /\ Blank.todo = <<>>
  /\ Blank.i = 1 /\ Blank.student = 1 /\ Blank.known = {} /\ Blank.fresh = {}
  /\ Blank.names = <<>> /\ Blank.emails = <<>> /\ Blank.busy = {}
  /\ Blank.pending = <<>> /\ Blank.says = NoSays /\ Blank.after = {}
<1>1. Shaped(Blank)
  BY DEF Shaped, Blank, NoSays, Fields, Sayings
<1>2. Going(Blank)
  BY DEF Going, Blank, InFile, Having, AtARow, Reading
<1>3. /\ Blank.at = "idle" /\ Blank.entity = 0 /\ Blank.commit = FALSE
      /\ Blank.batch = None /\ Blank.export = None /\ Blank.todo = <<>>
      /\ Blank.i = 1 /\ Blank.student = 1 /\ Blank.known = {} /\ Blank.fresh = {}
      /\ Blank.names = <<>> /\ Blank.emails = <<>> /\ Blank.busy = {}
      /\ Blank.pending = <<>> /\ Blank.says = NoSays /\ Blank.after = {}
  BY DEF Blank
<1> QED
  BY <1>1, <1>2, <1>3

LEMMA SayIs ==
  ASSUME NEW k, Shaped(k), NEW what \in Sayings, NEW q, q = Say(k, what)
  PROVE  /\ Shaped(q)
         /\ q.at = "rows" /\ q.i = k.i + 1 /\ q.entity = 0 /\ q.student = 1
         /\ q.commit = k.commit /\ q.batch = k.batch /\ q.export = k.export
         /\ q.todo = k.todo /\ q.known = k.known /\ q.fresh = k.fresh
         /\ q.names = k.names /\ q.emails = k.emails /\ q.busy = k.busy
         /\ q.pending = k.pending /\ q.after = k.after
         /\ q.says[what] = k.says[what] \cup {<<Head(k.todo), k.i>>}
         /\ \A word \in Sayings : word # what => q.says[word] = k.says[word]
BY DEF Say, Shaped, Fields, Sayings

Tells(k, what, q) ==
  /\ Shaped(q)
  /\ q.at = "rows" /\ q.i = k.i + 1 /\ q.entity = 0 /\ q.student = 1
  /\ q.commit = k.commit /\ q.batch = k.batch /\ q.export = k.export
  /\ q.todo = k.todo /\ q.known = k.known /\ q.fresh = k.fresh
  /\ q.names = k.names /\ q.emails = k.emails /\ q.busy = k.busy
  /\ q.pending = k.pending /\ q.after = k.after
  /\ q.says[what] = k.says[what] \cup {<<Head(k.todo), k.i>>}
  /\ \A word \in Sayings : word # what => q.says[word] = k.says[word]

LEMMA SayTells ==
  ASSUME NEW k, Shaped(k), NEW what \in Sayings
  PROVE  Tells(k, what, Say(k, what))
<1>1. PICK q : q = Say(k, what)
  OBVIOUS
<1>2. /\ Shaped(q)
      /\ q.at = "rows" /\ q.i = k.i + 1 /\ q.entity = 0 /\ q.student = 1
      /\ q.commit = k.commit /\ q.batch = k.batch /\ q.export = k.export
      /\ q.todo = k.todo /\ q.known = k.known /\ q.fresh = k.fresh
      /\ q.names = k.names /\ q.emails = k.emails /\ q.busy = k.busy
      /\ q.pending = k.pending /\ q.after = k.after
      /\ q.says[what] = k.says[what] \cup {<<Head(k.todo), k.i>>}
      /\ \A word \in Sayings : word # what => q.says[word] = k.says[word]
  BY <1>1, SayIs
<1> QED
  BY <1>1, <1>2 DEF Tells

LEMMA SayMore ==
  ASSUME NEW k, Shaped(k), NEW what \in Sayings, NEW q, q = Say(k, what)
  PROVE  /\ \A word \in Sayings : k.says[word] \subseteq q.says[word]
         /\ \A word \in Sayings : word # what => q.says[word] = k.says[word]
BY SayIs

LEMMA OnIs ==
  ASSUME NEW k, Shaped(k), NEW q, q = On(k)
  PROVE  /\ Shaped(q)
         /\ q.at = "rows" /\ q.i = k.i + 1 /\ q.entity = 0 /\ q.student = 1
         /\ q.commit = k.commit /\ q.batch = k.batch /\ q.export = k.export
         /\ q.todo = k.todo /\ q.known = k.known /\ q.fresh = k.fresh
         /\ q.names = k.names /\ q.emails = k.emails /\ q.busy = k.busy
         /\ q.pending = k.pending /\ q.after = k.after /\ q.says = k.says
BY DEF On, Shaped, Fields, Sayings

Ending(c, at) ==
  [Blank EXCEPT !.at = at, !.commit = call[c].commit, !.batch = call[c].batch,
                !.export = call[c].export, !.entity = call[c].entity,
                !.todo = call[c].todo, !.says = call[c].says,
                !.after = call[c].after]

LEMMA EndIs ==
  ASSUME NEW c, NEW at, Shaped(call[c])
  PROVE  LET q == Ending(c, at) IN
         /\ Shaped(q)
         /\ q.at = at /\ q.entity = call[c].entity
         /\ q.commit = call[c].commit /\ q.batch = call[c].batch
         /\ q.export = call[c].export /\ q.todo = call[c].todo
         /\ q.says = call[c].says /\ q.after = call[c].after
         /\ q.i = 1 /\ q.student = 1 /\ q.known = {} /\ q.fresh = {}
         /\ q.names = <<>> /\ q.emails = <<>> /\ q.busy = {} /\ q.pending = <<>>
BY BlankIs DEF Shaped, Fields, Ending

Starting(commit, b, e, files) ==
  [Blank EXCEPT !.at = "ledger", !.commit = commit, !.batch = b,
                !.export = e, !.todo = Order(files),
                !.after = {d \in Runs : call[d].at = "done"}]

LEMMA StartIs ==
  ASSUME NEW commit, NEW b, NEW e, NEW files
  PROVE  LET q == Starting(commit, b, e, files) IN
         /\ Shaped(q)
         /\ q.at = "ledger" /\ q.entity = 0 /\ q.commit = commit /\ q.batch = b
         /\ q.export = e /\ q.todo = Order(files) /\ q.says = NoSays
         /\ q.after = {d \in Runs : call[d].at = "done"}
         /\ q.i = 1 /\ q.student = 1 /\ q.known = {} /\ q.fresh = {}
         /\ q.names = <<>> /\ q.emails = <<>> /\ q.busy = {} /\ q.pending = <<>>
BY BlankIs DEF Shaped, Fields, Starting

LEMMA NowhereSaid == DOMAIN NoSays = Sayings /\ \A what \in Sayings : NoSays[what] = {}
BY DEF NoSays, Sayings

LEMMA TurnIs ==
  ASSUME Called, NEW c \in Runs, NEW k, Turn(c, k)
  PROVE  /\ call'[c] = k /\ DOMAIN call' = Runs
         /\ \A d \in Runs : d # c => call'[d] = call[d]
BY DEF Called, Turn

LEMMA Stands ==
  ASSUME Called, NEW c \in Runs
  PROVE  Shaped(call[c]) /\ Going(call[c]) /\ Countable(call[c])
BY DEF Called

-----------------------------------------------------------------------------
(* What one step leaves of what is there: rows stay what they are, the     *)
(* ledger is added to, a request that is sent says what it said and more.  *)

TablesGrow ==
  /\ \A i \in DOMAIN users :
       /\ i \in DOMAIN users' /\ users'[i].name = users[i].name
       /\ users'[i].email = users[i].email /\ users'[i].from = users[i].from
       /\ users'[i].by = users[i].by
  /\ \A i \in DOMAIN sessions :
       /\ i \in DOMAIN sessions' /\ sessions'[i].who = sessions[i].who
       /\ sessions'[i].from = sessions[i].from /\ sessions'[i].to = sessions[i].to
       /\ sessions'[i].status = sessions[i].status
       /\ sessions'[i].source = sessions[i].source
       /\ sessions'[i].by = sessions[i].by
       /\ sessions[i].roster \subseteq sessions'[i].roster
  /\ \A i \in DOMAIN series : i \in DOMAIN series' /\ series'[i] = series[i]
  /\ \A key \in DOMAIN ledger : key \in DOMAIN ledger' /\ ledger'[key] = ledger[key]
  /\ \A b \in Runs : batch[b] # None =>
       /\ batch'[b] # None /\ batch'[b].export = batch[b].export
       /\ batch'[b].files = batch[b].files

(* What is new is of whoever moves.                                        *)
NewBy(c) ==
  /\ \A i \in DOMAIN users' \ DOMAIN users : users'[i].by = c
  /\ \A i \in DOMAIN sessions' \ DOMAIN sessions : sessions'[i].by = c
  /\ \A i \in DOMAIN series' \ DOMAIN series : series'[i].by = c
  /\ \A key \in DOMAIN ledger' \ DOMAIN ledger : key[1] = "sessions" =>
       ledger'[key] \in DOMAIN sessions /\ sessions[ledger'[key]].by = c

Steady(k, q) ==
  /\ q.commit = k.commit /\ q.batch = k.batch /\ q.export = k.export
  /\ q.after = k.after
  /\ \A word \in Sayings : k.says[word] \subseteq q.says[word]

RunsStay(c) ==
  /\ \A d \in Runs : d # c => call'[d] = call[d]
  /\ c \in Runs /\ call[c].at # "idle" =>
       Steady(call[c], call'[c]) /\ call'[c].at # "idle"
  /\ c \in Runs => call[c].at # "done"

Grows(c) == TablesGrow /\ NewBy(c) /\ RunsStay(c)

LEMMA SaidStays ==
  ASSUME ImportInv, NEW c, Grows(c), NEW d \in Runs, call[d].at # "idle"
  PROVE  Steady(call[d], call'[d]) /\ call'[d].at # "idle"
<1>1. CASE d = c
  BY <1>1 DEF Grows, RunsStay
<1>2. CASE d # c
  <2>1. call'[d] = call[d]
    BY <1>2 DEF Grows, RunsStay
  <2> QED
    BY <2>1 DEF Steady
<1> QED
  BY <1>1, <1>2

LEMMA FirstStays ==
  ASSUME ImportInv, TablesGrow, NEW name, NEW u, First(name, u)
  PROVE  First(name, u)'
<1> HIDE DEF User
<1>1. DOMAIN users = 1 .. Len(users) /\ Len(users) \in Nat
  BY LenProperties DEF ImportInv, TypeOK
<1>2. \A j \in 1 .. u - 1 : j \in DOMAIN users
  BY <1>1 DEF First
<1> QED
  BY <1>2 DEF First, TablesGrow

LEMMA BusyStays ==
  ASSUME TablesGrow
  PROVE  BusyByInstructor(sessions) \subseteq BusyByInstructor(sessions')
<1>1. ASSUME NEW i \in DOMAIN sessions, Holds(sessions[i].who, sessions[i].status)
      PROVE  [who |-> sessions[i].who, from |-> sessions[i].from,
              to |-> sessions[i].to] \in BusyByInstructor(sessions')
  <2>1. /\ i \in DOMAIN sessions' /\ sessions'[i].who = sessions[i].who
        /\ sessions'[i].from = sessions[i].from /\ sessions'[i].to = sessions[i].to
        /\ sessions'[i].status = sessions[i].status
    BY DEF TablesGrow
  <2> QED
    BY <1>1, <2>1 DEF BusyByInstructor
<1> QED
  BY <1>1 DEF BusyByInstructor

LEMMA SettledStays ==
  ASSUME ImportInv, TablesGrow, NEW e, NEW f, NEW i
  PROVE  /\ Hopeless(e, f, i) => Hopeless(e, f, i)'
         /\ Settled(e, f, i) => Settled(e, f, i)'
<1> DEFINE r == Rows(e, f)[i]
<1>1. ASSUME Hopeless(e, f, i) PROVE Hopeless(e, f, i)'
  <2>1. CASE ~Readable(f, r)
    BY <2>1 DEF Hopeless
  <2>2. CASE f = "people" /\ (\/ ~r.valid
                              \/ r.email # None /\ \E u \in DOMAIN users : users[u].email = r.email)
    BY <2>2 DEF Hopeless, TablesGrow
  <2>3. CASE f = "sessions" /\ r.status = "blocking"
             /\ \E w \in DOMAIN users : /\ First(r.instructor, w)
                                        /\ Occupied(w, r, BusyByInstructor(sessions))
    <3>1. PICK w \in DOMAIN users : /\ First(r.instructor, w)
                                    /\ Occupied(w, r, BusyByInstructor(sessions))
      BY <2>3
    <3>2. First(r.instructor, w)' /\ w \in DOMAIN users'
      BY <3>1, FirstStays DEF TablesGrow
    <3>3. Occupied(w, r, BusyByInstructor(sessions'))
      BY <3>1, BusyStays DEF Occupied
    <3> QED
      BY <2>3, <3>2, <3>3 DEF Hopeless
  <2> QED
    BY <1>1, <2>1, <2>2, <2>3 DEF Hopeless
<1> QED
  BY <1>1 DEF Settled, TablesGrow

(* A key that is lost stays lost; who is seated stays.                     *)
LEMMA MadeStays ==
  ASSUME ImportInv, TablesGrow, NEW f \in FileName, NEW i \in Made(f)
  PROVE  /\ i \in Made(f)' /\ SourceOf(f, i)' = SourceOf(f, i)
         /\ MadeBy(f, i)' = MadeBy(f, i) /\ i \in DOMAIN Entity(f)
BY FileNames DEF Made, SourceOf, MadeBy, Entity, TablesGrow

LEMMA LostStays ==
  ASSUME ImportInv, NEW c, Grows(c), NEW f \in FileName, NEW i \in Made(f),
         LostTheKey(f, i)
  PROVE  LostTheKey(f, i)'
<1> DEFINE d == MadeBy(f, i)
<1>1. d \in Runs /\ call[d].at # "idle"
  BY DEF ImportInv, Tables
<1>2. Steady(call[d], call'[d])
  BY <1>1, SaidStays
<1>3. PICK p \in call[d].says.refused :
        p[1] = f /\ Key(call[d].export, f, p[2]) = SourceOf(f, i)
  BY DEF LostTheKey
<1>4. p \in call'[d].says.refused /\ call'[d].export = call[d].export
  BY <1>2, <1>3 DEF Steady, Sayings
<1>5. SourceOf(f, i) \in DOMAIN ledger /\ ledger[SourceOf(f, i)] # i
  BY DEF LostTheKey
<1>6. SourceOf(f, i) \in DOMAIN ledger' /\ ledger'[SourceOf(f, i)] # i
  BY <1>5 DEF Grows, TablesGrow
<1>7. SourceOf(f, i)' = SourceOf(f, i) /\ MadeBy(f, i)' = d
  BY MadeStays DEF Grows
<1> QED
  BY <1>3, <1>4, <1>6, <1>7 DEF LostTheKey

LEMMA SeatedStays ==
  ASSUME ImportInv, NEW c, Grows(c), NEW i \in Made("sessions"), NEW n,
         Seated(i, n)
  PROVE  Seated(i, n)'
<1> DEFINE d == sessions[i].by
<1>1. i \in DOMAIN sessions /\ d \in Runs /\ call[d].at # "idle"
  BY FileNames DEF ImportInv, Tables, Made, MadeBy, Entity
<1>2. Steady(call[d], call'[d])
  BY <1>1, SaidStays
<1>3. /\ sessions'[i].by = d /\ sessions'[i].source = sessions[i].source
      /\ sessions[i].roster \subseteq sessions'[i].roster
  BY <1>1 DEF Grows, TablesGrow
<1>4. CASE \E p \in call[d].says.unknown :
             p[3] = n /\ Key(call[d].export, "sessions", p[2]) = sessions[i].source
  <2>1. \E p \in call'[d].says.unknown :
          p[3] = n /\ Key(call'[d].export, "sessions", p[2]) = sessions[i].source
    BY <1>2, <1>4 DEF Steady, Sayings
  <2> QED
    BY <1>3, <2>1 DEF Seated
<1>5. CASE \E u \in sessions[i].roster : users[u].name = sessions[i].source[2][4][n]
  <2>1. PICK u \in sessions[i].roster : users[u].name = sessions[i].source[2][4][n]
    BY <1>5
  <2>2. u \in DOMAIN users
    BY <1>1 DEF ImportInv, Tables
  <2>3. u \in sessions'[i].roster /\ users'[u].name = users[u].name
    BY <1>3, <2>2 DEF Grows, TablesGrow
  <2> QED
    BY <1>3, <2>1, <2>3 DEF Seated
<1> QED
  BY <1>4, <1>5 DEF Seated

-----------------------------------------------------------------------------
(* Whoever does not move keeps what the invariant says of them.            *)

LEMMA SameRun ==
  ASSUME NEW d, call'[d] = call[d]
  PROVE  /\ File(d)' = File(d) /\ TheRow(d)' = TheRow(d) /\ TheKey(d)' = TheKey(d)
         /\ Instructor(d)' = Instructor(d) /\ (Matched(d)' <=> Matched(d))
         /\ (Busy(d)' <=> Busy(d)) /\ WrittenKeys(d)' = WrittenKeys(d)
<1>1. File(d)' = File(d) /\ TheKey(d)' = TheKey(d)
  BY DEF File, TheKey
<1>2. TheRow(d)' = TheRow(d)
  BY <1>1 DEF TheRow
<1>3. Instructor(d)' = Instructor(d)
  BY <1>2 DEF Instructor
<1> QED
  BY <1>1, <1>2, <1>3 DEF Matched, Busy, Blocking, WrittenKeys

LEMMA AgainStays ==
  ASSUME ImportInv, NEW c, Grows(c), NEW d \in Runs, call[d].at # "idle",
         Repeating(d)'
  PROVE  Repeating(d)
<1>1. PICK e \in Runs : Again(e, d)'
  BY DEF Repeating
<1>2. Steady(call[d], call'[d])
  BY SaidStays
<1>3. e \in call[d].after
  BY <1>1, <1>2 DEF Again, Steady
<1>4. call[e].at = "done" /\ call[e].at # "idle"
  BY <1>3 DEF ImportInv, Called
<1>5. call'[e] = call[e]
  BY <1>4 DEF Grows, RunsStay
<1>6. /\ call[d].batch \in Runs /\ batch[call[d].batch] # None
      /\ call[e].batch \in Runs /\ batch[call[e].batch] # None
  BY <1>4 DEF ImportInv, Batched
<1>7. /\ batch'[call[d].batch].export = batch[call[d].batch].export
      /\ batch'[call[d].batch].files = batch[call[d].batch].files
      /\ batch'[call[e].batch].export = batch[call[e].batch].export
      /\ batch'[call[e].batch].files = batch[call[e].batch].files
  BY <1>6 DEF Grows, TablesGrow
<1>8. Again(e, d)
  BY <1>1, <1>2, <1>3, <1>5, <1>7 DEF Again, Steady
<1> QED
  BY <1>8 DEF Repeating

LEMMA OthersBelieve ==
  ASSUME ImportInv, NEW c, Grows(c), NEW d \in Runs, d # c
  PROVE  Believing(d)' /\ Entered(d)' /\ Judged(d)'
<1>1. call'[d] = call[d]
  BY DEF Grows, RunsStay
<1>2. TablesGrow /\ Believing(d) /\ Entered(d) /\ Judged(d)
  BY DEF Grows, ImportInv
<1>3. Believing(d)'
  <2>1. \A name, u : First(name, u) => First(name, u)'
    BY <1>2, FirstStays
  <2>2. BusyByInstructor(sessions) \subseteq BusyByInstructor(sessions')
    BY <1>2, BusyStays
  <2>3. DOMAIN ledger \subseteq DOMAIN ledger' /\ DOMAIN users \subseteq DOMAIN users'
    BY <1>2 DEF TablesGrow
  <2> QED
    BY <1>1, <1>2, <2>1, <2>2, <2>3 DEF Believing
<1>4. Entered(d)'
  BY <1>1, <1>2, SameRun DEF Entered, TablesGrow
<1>5. Judged(d)'
  BY <1>1, <1>2, SameRun DEF Judged
<1> QED
  BY <1>3, <1>4, <1>5

LEMMA OthersHold ==
  ASSUME ImportInv, NEW c, Grows(c), NEW d \in Runs, d # c
  PROVE  Holding(d)'
<1>1. call'[d] = call[d]
  BY DEF Grows, RunsStay
<1>2. TablesGrow /\ Holding(d) /\ Going(call[d])
  BY DEF Grows, ImportInv, Called
<1>3. /\ File(d)' = File(d) /\ TheKey(d)' = TheKey(d) /\ TheRow(d)' = TheRow(d)
      /\ Instructor(d)' = Instructor(d)
  BY <1>1, SameRun
<1> DEFINE f == File(d)
           n == call[d].entity
<1>4. ASSUME call[d].at \in Having
      PROVE  /\ f \in FileName /\ n \in Made(f) /\ MadeBy(f, n) = d
             /\ SourceOf(f, n) = TheKey(d)
             /\ n \in Made(f)' /\ MadeBy(f, n)' = d /\ SourceOf(f, n)' = TheKey(d)
             /\ f = "sessions" => n \in DOMAIN sessions /\ sessions[n].by = d
  <2>1. call[d].todo \in Seq(FileName) /\ call[d].todo # <<>>
    BY <1>2, <1>4 DEF Going, InFile, AtARow
  <2>2. f \in FileName
    BY <2>1, HeadTailProperties DEF File
  <2>3. n \in Made(f) /\ MadeBy(f, n) = d /\ SourceOf(f, n) = TheKey(d)
    BY <1>2, <1>4 DEF Holding
  <2>4. n \in Made(f)' /\ MadeBy(f, n)' = d /\ SourceOf(f, n)' = TheKey(d)
    <3>1. \A g \in FileName : \A m \in Made(g) :
            /\ m \in Made(g)' /\ SourceOf(g, m)' = SourceOf(g, m)
            /\ MadeBy(g, m)' = MadeBy(g, m)
      BY <1>2, MadeStays
    <3>2. f' = f /\ n' = n
      BY <1>1, <1>3
    <3> HIDE DEF f, n
    <3> QED
      BY <2>2, <2>3, <3>1, <3>2
  <2>5. f = "sessions" => n \in DOMAIN sessions /\ sessions[n].by = d
    BY <2>3 DEF Made, MadeBy, Entity
  <2> QED
    BY <2>2, <2>3, <2>4, <2>5
<1>5. call[d].at \in Having =>
        n \in Made(f)' /\ MadeBy(f, n)' = d /\ SourceOf(f, n)' = TheKey(d)
  BY <1>4
<1>6. ASSUME call[d].at = "remember", f = "sessions"
      PROVE  /\ \A key \in DOMAIN ledger' : key[1] = "sessions" => ledger'[key] # n
             /\ AsTheRow(d, sessions[n])'
  <2>1. n \in DOMAIN sessions /\ sessions[n].by = d
    BY <1>4, <1>6 DEF Having
  <2>2. \A key \in DOMAIN ledger : key[1] = "sessions" => ledger[key] # n
    BY <1>2, <1>6 DEF Holding
  <2>3. \A key \in DOMAIN ledger' \ DOMAIN ledger : key[1] = "sessions" => ledger'[key] # n
    BY <2>1 DEF Grows, NewBy
  <2>4. AsTheRow(d, sessions[n])
    BY <1>2, <1>6 DEF Holding
  <2>5. AsTheRow(d, sessions[n])'
    <3>1. /\ sessions'[n].who = sessions[n].who /\ sessions'[n].from = sessions[n].from
          /\ sessions'[n].to = sessions[n].to /\ sessions'[n].status = sessions[n].status
      BY <1>2, <2>1 DEF TablesGrow
    <3> QED
      BY <1>1, <1>3, <2>4, <3>1 DEF AsTheRow
  <2> QED
    BY <1>2, <2>2, <2>3, <2>5 DEF TablesGrow
<1>7. ASSUME call[d].at = "attach"
      PROVE  /\ TheKey(d) \in DOMAIN ledger' /\ ledger'[TheKey(d)] = n
             /\ \A m \in 1 .. call[d].student - 1 : Seated(n, m)'
  <2>1. /\ TheKey(d) \in DOMAIN ledger /\ ledger[TheKey(d)] = n
        /\ \A m \in 1 .. call[d].student - 1 : Seated(n, m)
    BY <1>2, <1>7 DEF Holding
  <2>2. n \in Made("sessions")
    <3>1. f = "sessions"
      BY <1>2, <1>7 DEF Going, File
    <3> QED
      BY <1>4, <1>7, <3>1 DEF Having
  <2>3. \A m : Seated(n, m) => Seated(n, m)'
    <3>1. \A i \in Made("sessions") : \A m : Seated(i, m) => Seated(i, m)'
      BY SeatedStays
    <3>2. n' = n
      BY <1>1
    <3> HIDE DEF n
    <3> QED
      BY <2>2, <3>1, <3>2
  <2> QED
    BY <1>2, <2>1, <2>3 DEF TablesGrow
<1> QED
  BY <1>1, <1>3, <1>5, <1>6, <1>7 DEF Holding

LEMMA OthersOurs ==
  ASSUME ImportInv, NEW c, Grows(c), NEW d \in Runs, d # c
  PROVE  Ours(d)'
<1>1. call'[d] = call[d]
  BY DEF Grows, RunsStay
<1>2. TablesGrow /\ Ours(d)
  BY DEF Grows, ImportInv
<1>3. File(d)' = File(d)
  BY <1>1, SameRun
<1>4. SUFFICES
        ASSUME call[d].at \in {"rows"} \cup AtARow, call[d].commit, File(d) = "sessions",
               NEW i \in DOMAIN sessions', sessions'[i].by = d,
               Holds(sessions'[i].who, sessions'[i].status)
        PROVE  \/ [who |-> sessions'[i].who, from |-> sessions'[i].from,
                   to |-> sessions'[i].to] \in call[d].busy
               \/ LostTheKey("sessions", i)'
               \/ call[d].at = "remember" /\ call[d].entity = i
  BY <1>1, <1>3 DEF Ours
<1>5. i \in DOMAIN sessions
  BY <1>4 DEF Grows, NewBy
<1>6. /\ sessions'[i].who = sessions[i].who /\ sessions'[i].from = sessions[i].from
      /\ sessions'[i].to = sessions[i].to /\ sessions'[i].status = sessions[i].status
      /\ sessions'[i].by = sessions[i].by
  BY <1>2, <1>5 DEF TablesGrow
<1>7. i \in Made("sessions")
  BY <1>4, <1>5, <1>6 DEF ImportInv, Tables, Made, Entity
<1>8. \/ [who |-> sessions[i].who, from |-> sessions[i].from,
          to |-> sessions[i].to] \in call[d].busy
      \/ LostTheKey("sessions", i)
      \/ call[d].at = "remember" /\ call[d].entity = i
  BY <1>2, <1>4, <1>5, <1>6 DEF Ours
<1>9. LostTheKey("sessions", i) => LostTheKey("sessions", i)'
  BY <1>7, LostStays, FileNames
<1> QED
  BY <1>6, <1>8, <1>9

LEMMA OthersSettle ==
  ASSUME ImportInv, NEW c, Grows(c), NEW d \in Runs, d # c
  PROVE  Settling(d)'
<1>1. call'[d] = call[d]
  BY DEF Grows, RunsStay
<1>2. TablesGrow /\ Settling(d)
  BY DEF Grows, ImportInv
<1>3. File(d)' = File(d) /\ Left(call[d])' = Left(call[d])
  BY <1>1, SameRun DEF Left
<1>4. \A e, f, i : Settled(e, f, i) => Settled(e, f, i)'
  BY <1>2, SettledStays
<1>5. \A e, f : AllSettled(e, f) => AllSettled(e, f)'
  BY <1>4 DEF AllSettled
<1>6. ASSUME call[d].commit, call[d].at \in Working \cup {"done"}
      PROVE  /\ call[d].export = batch'[call[d].batch].export
             /\ Left(call[d]) \subseteq batch'[call[d].batch].files
             /\ \A f \in batch'[call[d].batch].files \ Left(call[d]) :
                  AllSettled(call[d].export, f)'
             /\ call[d].at \in InFile =>
                  \A j \in 1 .. call[d].i - 1 :
                    Settled(call[d].export, File(d), j)'
  <2>1. call[d].batch \in Runs /\ batch[call[d].batch] # None
    BY <1>6 DEF ImportInv, Batched, Working
  <2>2. /\ batch'[call[d].batch].export = batch[call[d].batch].export
        /\ batch'[call[d].batch].files = batch[call[d].batch].files
    BY <1>2, <2>1 DEF TablesGrow
  <2>3. /\ \A f : AllSettled(call[d].export, f) => AllSettled(call[d].export, f)'
        /\ \A j : Settled(call[d].export, File(d), j) => Settled(call[d].export, File(d), j)'
    BY <1>1, <1>3, <1>4, <1>5
  <2> QED
    BY <1>2, <1>6, <2>2, <2>3 DEF Settling
<1> QED
  BY <1>1, <1>3, <1>6 DEF Settling, Left

LEMMA OthersBarred ==
  ASSUME ImportInv, NEW c, Grows(c), NEW d \in Runs, d # c
  PROVE  Barred(d)'
<1>1. call'[d] = call[d]
  BY DEF Grows, RunsStay
<1>2. TablesGrow /\ Barred(d)
  BY DEF Grows, ImportInv
<1>3. File(d)' = File(d)
  BY <1>1, SameRun
<1>4. SUFFICES
        ASSUME Repeating(d)',
               call[d].at \in {"lookup", "busy", "rows", "match", "create"},
               NEW i \in DOMAIN Rows(call[d].export, File(d))
        PROVE  Warned(d, i)'
  BY <1>1, <1>3 DEF Barred
<1>5. Repeating(d)
  BY <1>4, AgainStays
<1>6. Warned(d, i)
  BY <1>2, <1>4, <1>5 DEF Barred
<1>7. Hopeless(call[d].export, File(d), i) => Hopeless(call[d].export, File(d), i)'
  <2>1. \A e, f : Hopeless(e, f, i) => Hopeless(e, f, i)'
    BY <1>2, SettledStays
  <2> QED
    BY <1>1, <1>3, <2>1
<1>8. BusyByInstructor(sessions) \subseteq BusyByInstructor(sessions')
  BY <1>2, BusyStays
<1>9. Forbidden(d, i, BusyByInstructor(sessions)) => Forbidden(d, i, BusyByInstructor(sessions))'
  BY <1>1, <1>3, <1>8 DEF Forbidden, Occupied
<1>10. Forbidden(d, i, call[d].busy) => Forbidden(d, i, call[d].busy)'
  BY <1>1, <1>3 DEF Forbidden
<1> QED
  BY <1>1, <1>3, <1>6, <1>7, <1>9, <1>10 DEF Warned

-----------------------------------------------------------------------------
(* What holds of everybody, if whoever moves sees to its own.              *)

Filed(f, i) ==
  /\ SourceOf(f, i) \in DOMAIN ledger /\ ledger[SourceOf(f, i)] = i
  /\ f = "sessions" => \A n \in DOMAIN sessions[i].source[2][4] : Seated(i, n)
WholeAt(f, i) == AtHand(f, i) \/ LostTheKey(f, i) \/ Filed(f, i)

LEMMA WholeIs ==
  /\ WholeUnlessStopped <=> \A f \in FileName : \A i \in Made(f) : WholeAt(f, i)
  /\ WholeUnlessStopped' <=> \A f \in FileName : \A i \in Made(f)' : WholeAt(f, i)'
<1> DEFINE Sat(f, i) ==
             \A n \in DOMAIN Students(f, i) :
               \/ \E p \in call[MadeBy(f, i)].says.unknown :
                    /\ p[3] = n
                    /\ Key(call[MadeBy(f, i)].export, f, p[2]) = SourceOf(f, i)
               \/ \E u \in sessions[i].roster : users[u].name = Students(f, i)[n]
<1>1. ASSUME NEW f \in FileName, NEW i
      PROVE  /\ Sat(f, i) <=>
                  (f = "sessions" => \A n \in DOMAIN sessions[i].source[2][4] : Seated(i, n))
             /\ Sat(f, i)' <=>
                  (f = "sessions" => \A n \in DOMAIN sessions'[i].source[2][4] : Seated(i, n)')
  <2>1. CASE f = "sessions"
    <3>1. Students(f, i) = sessions[i].source[2][4] /\ MadeBy(f, i) = sessions[i].by
          /\ SourceOf(f, i) = sessions[i].source
      BY <2>1 DEF Students, MadeBy, SourceOf, Entity
    <3>2. /\ Students(f, i)' = sessions'[i].source[2][4]
          /\ MadeBy(f, i)' = sessions'[i].by
          /\ SourceOf(f, i)' = sessions'[i].source
      BY <2>1 DEF Students, MadeBy, SourceOf, Entity
    <3> QED
      BY <2>1, <3>1, <3>2 DEF Seated
  <2>2. CASE f # "sessions"
    BY <2>2 DEF Students
  <2> QED
    BY <2>1, <2>2
<1>2. /\ WholeUnlessStopped <=> \A f \in FileName : \A i \in Made(f) :
           \/ AtHand(f, i) \/ LostTheKey(f, i)
           \/ /\ SourceOf(f, i) \in DOMAIN ledger /\ ledger[SourceOf(f, i)] = i
              /\ Sat(f, i)
      /\ WholeUnlessStopped' <=> \A f \in FileName : \A i \in Made(f)' :
           \/ AtHand(f, i)' \/ LostTheKey(f, i)'
           \/ /\ SourceOf(f, i)' \in DOMAIN ledger' /\ ledger'[SourceOf(f, i)'] = i
              /\ Sat(f, i)'
  BY DEF WholeUnlessStopped
<1>3. \A f \in FileName : \A i :
        (/\ SourceOf(f, i) \in DOMAIN ledger /\ ledger[SourceOf(f, i)] = i
         /\ Sat(f, i)) <=> Filed(f, i)
  BY <1>1 DEF Filed
<1>4. \A f \in FileName : \A i :
        (/\ SourceOf(f, i)' \in DOMAIN ledger' /\ ledger'[SourceOf(f, i)'] = i
         /\ Sat(f, i)') <=> Filed(f, i)'
  BY <1>1 DEF Filed
<1> HIDE DEF Sat
<1> QED
  BY <1>2, <1>3, <1>4 DEF WholeAt

(* What an insert was refused for.                                         *)
ClashedAt(c, p) ==
  LET r == SessionRows[call[c].export][p[2]] IN
  \E i \in DOMAIN sessions :
    /\ sessions[i].status = "blocking" /\ sessions[i].who # None
    /\ users[sessions[i].who].name = r.instructor
    /\ Clash([sessions[i] EXCEPT !.who = 0], Span(0, r))
    /\ sessions[i].by = c => LostTheKey("sessions", i)

LEMMA ClashedIs ==
  /\ ConstraintOnlyForOthers <=>
       \A c \in Runs : \A p \in call[c].says.clashed : ClashedAt(c, p)
  /\ ConstraintOnlyForOthers' <=>
       \A c \in Runs : \A p \in call'[c].says.clashed : ClashedAt(c, p)'
BY DEF ConstraintOnlyForOthers, ClashedAt

LEMMA FiledStays ==
  ASSUME ImportInv, NEW c, Grows(c), NEW f \in FileName, NEW i \in Made(f), Filed(f, i)
  PROVE  Filed(f, i)'
<1>1. SourceOf(f, i)' = SourceOf(f, i)
  BY MadeStays DEF Grows
<1>2. SourceOf(f, i) \in DOMAIN ledger' /\ ledger'[SourceOf(f, i)] = i
  BY DEF Filed, Grows, TablesGrow
<1>3. ASSUME f = "sessions"
      PROVE  \A n \in DOMAIN sessions'[i].source[2][4] : Seated(i, n)'
  <2>1. i \in DOMAIN sessions
    BY <1>3 DEF Made, Entity
  <2>2. sessions'[i].source = sessions[i].source
    BY <2>1 DEF Grows, TablesGrow
  <2>3. \A n \in DOMAIN sessions[i].source[2][4] : Seated(i, n)
    BY <1>3 DEF Filed
  <2>4. \A n : Seated(i, n) => Seated(i, n)'
    BY <1>3, SeatedStays
  <2> QED
    BY <2>2, <2>3, <2>4
<1> QED
  BY <1>1, <1>2, <1>3 DEF Filed

LEMMA ClashedStays ==
  ASSUME ImportInv, NEW c, Grows(c), NEW d \in Runs, call[d].at # "idle",
         TypeOK', NEW p, ClashedAt(d, p)
  PROVE  ClashedAt(d, p)'
<1>1. call'[d].export = call[d].export
  BY SaidStays DEF Steady
<1> DEFINE r == SessionRows[call[d].export][p[2]]
<1>2. PICK i \in DOMAIN sessions :
        /\ sessions[i].status = "blocking" /\ sessions[i].who # None
        /\ users[sessions[i].who].name = r.instructor
        /\ Clash([sessions[i] EXCEPT !.who = 0], Span(0, r))
        /\ sessions[i].by = d => LostTheKey("sessions", i)
  BY DEF ClashedAt
<1>3. /\ i \in DOMAIN sessions' /\ sessions'[i].who = sessions[i].who
      /\ sessions'[i].from = sessions[i].from /\ sessions'[i].to = sessions[i].to
      /\ sessions'[i].status = sessions[i].status /\ sessions'[i].by = sessions[i].by
  BY DEF Grows, TablesGrow
<1>4. users'[sessions'[i].who].name = r.instructor
  <2>1. sessions[i].who \in DOMAIN users
    BY <1>2 DEF ImportInv, Tables
  <2> QED
    BY <1>2, <1>3, <2>1 DEF Grows, TablesGrow
<1>5. Clash([sessions'[i] EXCEPT !.who = 0], Span(0, r))
  <2>1. /\ [sessions[i] EXCEPT !.who = 0].who = 0
        /\ [sessions[i] EXCEPT !.who = 0].from = sessions[i].from
        /\ [sessions[i] EXCEPT !.who = 0].to = sessions[i].to
    BY DEF ImportInv, TypeOK, Session
  <2>2. /\ [sessions'[i] EXCEPT !.who = 0].who = 0
        /\ [sessions'[i] EXCEPT !.who = 0].from = sessions'[i].from
        /\ [sessions'[i] EXCEPT !.who = 0].to = sessions'[i].to
    BY <1>3 DEF TypeOK, Session
  <2> QED
    BY <1>2, <1>3, <2>1, <2>2 DEF Clash
<1>6. sessions'[i].by = d => LostTheKey("sessions", i)'
  <2>1. ASSUME sessions[i].by = d PROVE i \in Made("sessions")
    BY <2>1 DEF ImportInv, Tables, Made, Entity
  <2>2. ASSUME sessions[i].by = d PROVE LostTheKey("sessions", i)'
    BY <1>2, <2>1, <2>2, LostStays, FileNames
  <2> QED
    BY <1>3, <2>2
<1> QED
  BY <1>1, <1>2, <1>3, <1>4, <1>5, <1>6 DEF ClashedAt

LEMMA GlobalsKeep ==
  ASSUME ImportInv, TypeOK', NEW c, Grows(c),
         c \in Runs /\ call'[c].commit =>
           \A key \in WrittenKeys(c)' :
             \/ key \in WrittenKeys(c) /\ call[c].commit
             \/ key \notin DOMAIN ledger,
         \A f \in FileName : \A i \in Made(f) :
           MadeBy(f, i) = c /\ AtHand(f, i) => WholeAt(f, i)',
         \A f \in FileName : \A i \in Made(f)' :
           i \notin Made(f) =>
             c \in Runs /\ WholeAt(f, i)' /\ call[c].at # "idle" /\ ~Repeating(c),
         c \in Runs => \A p \in call'[c].says.clashed :
           \/ ClashedAt(c, p)'
           \/ p \in call[c].says.clashed /\ call[c].at # "idle"
  PROVE  CountedOnce' /\ WholeUnlessStopped' /\ ConstraintOnlyForOthers'
         /\ SecondWritesNothing'
<1>1. ASSUME NEW d \in Runs, d # c
      PROVE  call'[d] = call[d] /\ WrittenKeys(d)' = WrittenKeys(d)
  BY <1>1, SameRun DEF Grows, RunsStay
<1>2. CountedOnce'
  <2>1. \A a, b \in Runs : a # b /\ call[a].commit /\ call[b].commit =>
          WrittenKeys(a) \cap WrittenKeys(b) = {}
    BY DEF ImportInv, CountedOnce
  <2>2. \A d \in Runs : call[d].commit => WrittenKeys(d) \subseteq DOMAIN ledger
    BY DEF ImportInv, Entered
  <2>3. ASSUME NEW d \in Runs, d # c, c \in Runs, call'[c].commit, call'[d].commit
        PROVE  WrittenKeys(c)' \cap WrittenKeys(d)' = {}
    <3>1. WrittenKeys(d)' = WrittenKeys(d) /\ call[d].commit
      BY <1>1, <2>3
    <3>2. WrittenKeys(d) \subseteq DOMAIN ledger
      BY <2>2, <3>1
    <3>3. \A key \in WrittenKeys(c)' :
             \/ key \in WrittenKeys(c) /\ call[c].commit
             \/ key \notin DOMAIN ledger
      BY <2>3
    <3>4. call[c].commit => WrittenKeys(c) \cap WrittenKeys(d) = {}
      BY <2>1, <2>3, <3>1
    <3> QED
      BY <3>1, <3>2, <3>3, <3>4
  <2>4. ASSUME NEW a \in Runs, NEW b \in Runs, a # b, call'[a].commit, call'[b].commit
        PROVE  WrittenKeys(a)' \cap WrittenKeys(b)' = {}
    <3>1. CASE a = c
      <4>1. WrittenKeys(c)' \cap WrittenKeys(b)' = {}
        BY <2>3, <2>4, <3>1
      <4> QED
        BY <3>1, <4>1
    <3>2. CASE b = c
      <4>1. WrittenKeys(c)' \cap WrittenKeys(a)' = {}
        BY <2>3, <2>4, <3>2
      <4> QED
        BY <3>2, <4>1
    <3>3. CASE a # c /\ b # c
      BY <1>1, <2>1, <2>4, <3>3
    <3> QED
      BY <3>1, <3>2, <3>3
  <2> QED
    BY <2>4 DEF CountedOnce
<1>3. WholeUnlessStopped'
  <2>1. ASSUME NEW f \in FileName, NEW i \in Made(f)' PROVE WholeAt(f, i)'
    <3>1. CASE i \notin Made(f)
      BY <2>1, <3>1
    <3>2. CASE i \in Made(f)
      <4>1. WholeAt(f, i)
        BY <3>2, WholeIs DEF ImportInv
      <4>2. CASE LostTheKey(f, i)
        BY <3>2, <4>2, LostStays DEF WholeAt
      <4>3. CASE Filed(f, i)
        BY <3>2, <4>3, FiledStays DEF WholeAt
      <4>4. CASE AtHand(f, i)
        <5>1. CASE MadeBy(f, i) = c
          BY <3>2, <4>4, <5>1
        <5>2. CASE MadeBy(f, i) # c
          <6>1. MadeBy(f, i) \in Runs /\ MadeBy(f, i)' = MadeBy(f, i)
            BY <3>2, MadeStays DEF ImportInv, Tables, Grows
          <6>2. call'[MadeBy(f, i)] = call[MadeBy(f, i)]
            BY <1>1, <5>2, <6>1
          <6>3. AtHand(f, i)'
            BY <4>4, <6>1, <6>2 DEF AtHand
          <6> QED
            BY <6>3 DEF WholeAt
        <5> QED
          BY <5>1, <5>2
      <4> QED
        BY <4>1, <4>2, <4>3, <4>4 DEF WholeAt
    <3> QED
      BY <3>1, <3>2
  <2> QED
    BY <2>1, WholeIs
<1>4. ConstraintOnlyForOthers'
  <2>1. ASSUME NEW d \in Runs, NEW p \in call'[d].says.clashed
        PROVE  ClashedAt(d, p)'
    <3>1. ASSUME p \in call[d].says.clashed, call[d].at # "idle"
          PROVE  ClashedAt(d, p)'
      <4>1. ClashedAt(d, p)
        BY <3>1, ClashedIs DEF ImportInv
      <4> QED
        BY <3>1, <4>1, ClashedStays
    <3>2. CASE d = c
      <4>1. \/ ClashedAt(c, p)'
            \/ p \in call[c].says.clashed /\ call[c].at # "idle"
        BY <2>1, <3>2
      <4>2. ClashedAt(c, p)' => ClashedAt(d, p)'
        BY <3>2
      <4> QED
        BY <3>1, <3>2, <4>1, <4>2
    <3>3. CASE d # c
      <4>1. call'[d] = call[d]
        BY <1>1, <3>3
      <4>2. p \in call[d].says.clashed
        BY <4>1
      <4>3. call[d].at # "idle"
        BY <4>2, BlankIs, NowhereSaid DEF ImportInv, Called, Going, Sayings
      <4> QED
        BY <3>1, <4>2, <4>3
    <3> QED
      BY <3>2, <3>3
  <2> QED
    BY <2>1, ClashedIs
<1>5. SecondWritesNothing'
  <2>1. \A d \in Runs : Repeating(d) =>
          \A f \in FileName : \A i \in Made(f) : MadeBy(f, i) # d
    BY DEF ImportInv, SecondWritesNothing, Repeating
  <2>2. ASSUME NEW d \in Runs, Repeating(d)', NEW f \in FileName, NEW i \in Made(f)',
               MadeBy(f, i)' = d
        PROVE  FALSE
    <3>1. CASE i \in Made(f)
      <4>1. MadeBy(f, i) = d
        BY <2>2, <3>1, MadeStays DEF Grows
      <4>2. call[d].at # "idle"
        BY <3>1, <4>1 DEF ImportInv, Tables
      <4> QED
        BY <2>1, <2>2, <3>1, <4>1, <4>2, AgainStays
    <3>2. CASE i \notin Made(f)
      <4>1. c \in Runs /\ call[c].at # "idle" /\ ~Repeating(c)
        BY <2>2, <3>2
      <4>2. d = c
        <5>1. i \in DOMAIN Entity(f)' /\ MadeBy(f, i)' = Entity(f)'[i].by
          BY <2>2 DEF Made, MadeBy
        <5>2. i \notin DOMAIN Entity(f) \/ i \in Made(f)
          <6>1. CASE f = "people"
            BY <2>2, <6>1 DEF Made, Entity, Grows, TablesGrow
          <6>2. CASE f = "sessions"
            BY <2>2, <6>2 DEF Made, Entity, Grows, TablesGrow
          <6>3. CASE f = "series"
            BY <2>2, <6>3 DEF Made, Entity, Grows, TablesGrow
          <6> QED
            BY <6>1, <6>2, <6>3, FileNames
        <5> QED
          BY <2>2, <3>2, <5>1, <5>2, FileNames DEF Entity, Grows, NewBy
      <4>3. ~Repeating(c)'
        BY <4>1, AgainStays
      <4> QED
        BY <2>2, <4>2, <4>3
    <3> QED
      BY <3>1, <3>2
  <2> QED
    BY <2>2 DEF SecondWritesNothing, Repeating
<1> QED
  BY <1>2, <1>3, <1>4, <1>5

-----------------------------------------------------------------------------
(* One step, put together.                                                 *)

Own(c) == /\ Believing(c) /\ Entered(c) /\ Judged(c) /\ Holding(c) /\ Ours(c)
          /\ Settling(c) /\ Barred(c)

LEMMA OthersKeep ==
  ASSUME ImportInv, NEW c, Grows(c), NEW d \in Runs, d # c
  PROVE  Own(d)'
BY OthersBelieve, OthersHold, OthersOurs, OthersSettle, OthersBarred DEF Own

LEMMA StepKeeps ==
  ASSUME ImportInv, NEW c \in Runs, Grows(c), DOMAIN call' = Runs,
         TypeOK', Batched', Tables', Shaped(call'[c]), Going(call'[c]),
         Countable(call'[c]),
         \A d \in call'[c].after : d \in Runs /\ call[d].at = "done",
         Own(c)',
         CountedOnce', WholeUnlessStopped', ConstraintOnlyForOthers', SecondWritesNothing'
  PROVE  ImportInv'
<1>1. \A d \in Runs : d # c => call'[d] = call[d]
  BY DEF Grows, RunsStay
<1>2. Called'
  <2>1. call[c].at # "done"
    BY DEF Grows, RunsStay
  <2>2. \A d \in Runs : Shaped(call'[d]) /\ Going(call'[d]) /\ Countable(call'[d])
    <3>1. ASSUME NEW d \in Runs, d # c
          PROVE  Shaped(call'[d]) /\ Going(call'[d]) /\ Countable(call'[d])
      <4>1. Shaped(call[d]) /\ Going(call[d]) /\ Countable(call[d])
        BY DEF ImportInv, Called
      <4> QED
        BY <1>1, <3>1, <4>1
    <3> QED
      BY <3>1
  <2>3. ASSUME NEW d \in Runs, NEW e \in call'[d].after
        PROVE  e \in Runs /\ call'[e].at = "done"
    <3>1. e \in Runs /\ call[e].at = "done"
      BY <1>1, <2>3 DEF ImportInv, Called
    <3> QED
      BY <1>1, <2>1, <3>1
  <2>4. \A d \in Runs : Going(call[d])' /\ Shaped(call[d])' /\ Countable(call[d])'
    BY <2>2 DEF Going, Shaped, RowOf, Countable
  <2> QED
    BY <2>3, <2>4 DEF Called
<1>3. \A d \in Runs : Own(d)'
  <2>1. ASSUME NEW d \in Runs, d # c PROVE Own(d)'
    BY <2>1, OthersKeep
  <2>2. ASSUME NEW d \in Runs, d = c PROVE Own(d)'
    BY <2>2
  <2> QED
    BY <2>1, <2>2
<1>4. \A d \in Runs : Believing(d)' /\ Entered(d)' /\ Judged(d)' /\ Holding(d)' /\ Ours(d)'
  BY <1>3 DEF Own
<1>5. \A d \in Runs : Settling(d)' /\ Barred(d)'
  BY <1>3 DEF Own
<1> QED
  BY <1>2, <1>4, <1>5 DEF ImportInv

LEMMA Nonzero ==
  ASSUME ImportInv, NEW f \in FileName, NEW i \in Made(f)
  PROVE  i \in Nat \ {0} /\ MadeBy(f, i) \in Runs
<1> HIDE DEF User, Session, Template
<1>1. /\ DOMAIN users = 1 .. Len(users) /\ DOMAIN sessions = 1 .. Len(sessions)
      /\ DOMAIN series = 1 .. Len(series)
      /\ Len(users) \in Nat /\ Len(sessions) \in Nat /\ Len(series) \in Nat
  BY LenProperties DEF ImportInv, TypeOK
<1>2. i \in DOMAIN Entity(f)
  BY DEF Made
<1>3. DOMAIN Entity(f) \subseteq Nat \ {0}
  BY <1>1, FileNames DEF Entity
<1> QED
  BY <1>2, <1>3 DEF ImportInv, Tables

(* Steps that write no row and no key.                                     *)
Unwritten == UNCHANGED <<users, sessions, series, ledger, batch>>

LEMMA SameTables ==
  ASSUME Unwritten
  PROVE  /\ \A f : Entity(f)' = Entity(f) /\ Made(f)' = Made(f)
         /\ \A f, i : SourceOf(f, i)' = SourceOf(f, i) /\ MadeBy(f, i)' = MadeBy(f, i)
         /\ \A name, u : First(name, u)' <=> First(name, u)
         /\ \A e, f, i : Hopeless(e, f, i)' <=> Hopeless(e, f, i)
         /\ \A e, f, i : Settled(e, f, i)' <=> Settled(e, f, i)
         /\ \A e, f : AllSettled(e, f)' <=> AllSettled(e, f)
         /\ BusyByInstructor(sessions)' = BusyByInstructor(sessions)
<1>1. /\ \A f : Entity(f)' = Entity(f)
      /\ BusyByInstructor(sessions)' = BusyByInstructor(sessions)
      /\ \A name, u : First(name, u)' <=> First(name, u)
  BY DEF Unwritten, Entity, BusyByInstructor, First
<1>2. \A f : Made(f)' = Made(f)
  BY <1>1 DEF Made, Unwritten
<1>3. \A f, i : SourceOf(f, i)' = SourceOf(f, i) /\ MadeBy(f, i)' = MadeBy(f, i)
  BY <1>1 DEF SourceOf, MadeBy, Unwritten
<1>4. \A e, f, i : Hopeless(e, f, i)' <=> Hopeless(e, f, i)
  BY <1>1 DEF Hopeless, Unwritten
<1>5. \A e, f, i : Settled(e, f, i)' <=> Settled(e, f, i)
  BY <1>4 DEF Settled, Unwritten
<1>6. \A e, f : AllSettled(e, f)' <=> AllSettled(e, f)
  BY <1>5 DEF AllSettled
<1> QED
  BY <1>1, <1>2, <1>3, <1>4, <1>5, <1>6

SaysTyped(k) ==
  /\ k.at \in {"idle"} \cup Working \cup Ended
  /\ k.known \cup k.fresh \subseteq Keys
  /\ \A what \in {"written", "here", "refused", "clashed"} :
       k.says[what] \subseteq Position
  /\ Countable(k)

LEMMA TypedSays ==
  ASSUME ImportInv, NEW c \in Runs
  PROVE  SaysTyped(call[c])
BY DEF ImportInv, Called, TypeOK, SaysTyped

LEMMA QuietGrows ==
  ASSUME ImportInv, NEW c \in Runs, Unwritten,
         \A d \in Runs : d # c => call'[d] = call[d],
         Active(c), Steady(call[c], call'[c]),
         call'[c].at # "idle"
  PROVE  Grows(c)
<1>1. TablesGrow
  BY DEF Unwritten, TablesGrow
<1>2. NewBy(c)
  BY DEF Unwritten, NewBy
<1> QED
  BY <1>1, <1>2 DEF Grows, RunsStay, Active, Working

LEMMA QuietKeeps ==
  ASSUME ImportInv, NEW c \in Runs, Unwritten, trail' \subseteq Runs,
         NEW q, Turn(c, q),
         Active(c), Steady(call[c], q), q.at # "idle",
         Shaped(q), Going(q), SaysTyped(q),
         q.commit => q.says["written"] = call[c].says["written"],
         \/ call[c].at \notin Having
         \/ q.entity = call[c].entity /\ q.todo = call[c].todo /\ q.at # "done"
         \/ \A f, i : f = File(c) /\ i = call[c].entity => WholeAt(f, i)',
         \A p \in q.says["clashed"] :
           ClashedAt(c, p)' \/ p \in call[c].says["clashed"],
         Believing(c)', Judged(c)', Holding(c)', Ours(c)', Settling(c)', Barred(c)'
  PROVE  ImportInv'
<1> DEFINE k == call[c]
<1>1. /\ call'[c] = q /\ DOMAIN call' = Runs
      /\ \A d \in Runs : d # c => call'[d] = call[d]
  BY TurnIs DEF ImportInv
<1>2. Grows(c)
  BY <1>1, QuietGrows
<1>3. TypeOK'
  <2>1. \A d \in Runs : SaysTyped(call[d])'
    <3>1. ASSUME NEW d \in Runs, d # c PROVE SaysTyped(call[d])'
      <4>1. SaysTyped(call[d]) /\ call'[d] = call[d]
        BY <1>1, <3>1, TypedSays
      <4> QED
        BY <4>1 DEF SaysTyped
    <3>2. SaysTyped(call[c])'
      BY <1>1 DEF SaysTyped
    <3> QED
      BY <3>1, <3>2
  <2>2. /\ users' \in Seq(User) /\ sessions' \in Seq(Session) /\ series' \in Seq(Template)
        /\ DOMAIN ledger' \subseteq Keys
        /\ \A key \in DOMAIN ledger' : ledger'[key] \in DOMAIN Entity(key[1])'
        /\ batch' \in [Runs -> Batch \cup {None}]
        /\ \A b \in Runs : batch'[b] # None =>
             batch'[b].source = (batch'[b].status = "previewed")
    <3> HIDE DEF User, Session, Template
    <3> QED
      BY SameTables DEF ImportInv, TypeOK, Unwritten
  <2> HIDE DEF User, Session, Template
  <2> QED
    BY <2>1, <2>2 DEF TypeOK, SaysTyped
<1>4. Batched'
  <2>1. batch' = batch
    BY DEF Unwritten
  <2>2. \A d \in Runs : IF call'[d].at = "idle" THEN batch[d] = None
                        ELSE /\ call'[d].batch \in Runs /\ batch[call'[d].batch] # None
                             /\ ~call'[d].commit => call'[d].batch = d
    <3>1. \A d \in Runs : IF call[d].at = "idle" THEN batch[d] = None
                        ELSE /\ call[d].batch \in Runs /\ batch[call[d].batch] # None
                             /\ ~call[d].commit => call[d].batch = d
      BY DEF ImportInv, Batched
    <3>2. call'[c].at # "idle" /\ k.at # "idle" /\ call'[c].batch = k.batch
          /\ call'[c].commit = k.commit
      BY <1>1 DEF Steady, Active, Working
    <3> QED
      BY <1>1, <3>1, <3>2
  <2> QED
    BY <2>1, <2>2 DEF ImportInv, Batched
<1>5. Tables'
  <2>1. \A f \in FileName : \A i \in Made(f)' :
          MadeBy(f, i)' \in Runs /\ call'[MadeBy(f, i)'].at # "idle"
    <3>1. ASSUME NEW f \in FileName, NEW i \in Made(f)
          PROVE  MadeBy(f, i) \in Runs /\ call'[MadeBy(f, i)].at # "idle"
      <4>1. MadeBy(f, i) \in Runs /\ call[MadeBy(f, i)].at # "idle"
        BY DEF ImportInv, Tables
      <4> QED
        BY <1>1, <4>1
    <3> QED
      BY <3>1, SameTables
  <2> QED
    BY <2>1 DEF ImportInv, Tables, Unwritten
<1>6. WrittenKeys(c)' = {Key(q.export, p[1], p[2]) : p \in q.says["written"]}
      /\ WrittenKeys(c) = {Key(k.export, p[1], p[2]) : p \in k.says["written"]}
  BY <1>1 DEF WrittenKeys
<1>7. q.commit => WrittenKeys(c)' = WrittenKeys(c) /\ k.commit
  BY <1>6 DEF Steady
<1>8. Entered(c)'
  <2>1. Entered(c)
    BY DEF ImportInv
  <2> QED
    BY <1>1, <1>7, <2>1 DEF Entered, Unwritten
<1>9. ASSUME NEW f \in FileName, NEW i \in Made(f), MadeBy(f, i) = c, AtHand(f, i)
      PROVE  WholeAt(f, i)'
  <2>1. k.at # "done" /\ k.todo # <<>> /\ Head(k.todo) = f /\ k.entity = i /\ i # 0
    BY <1>9, Nonzero DEF AtHand
  <2>2. MadeBy(f, i)' = c
    BY <1>9, SameTables
  <2>3. CASE q.entity = k.entity /\ q.todo = k.todo /\ q.at # "done"
    <3>1. AtHand(f, i)'
      BY <1>1, <2>1, <2>2, <2>3 DEF AtHand
    <3> QED
      BY <3>1 DEF WholeAt
  <2>4. CASE \A g, j : g = File(c) /\ j = call[c].entity => WholeAt(g, j)'
    BY <2>1, <2>4 DEF File
  <2>5. CASE k.at \notin Having
    BY <2>1, <2>5 DEF ImportInv, Called, Going, Active, Working
  <2> QED
    BY <2>3, <2>4, <2>5
<1>10. CountedOnce' /\ WholeUnlessStopped' /\ ConstraintOnlyForOthers' /\ SecondWritesNothing'
  <2>1. c \in Runs /\ call'[c].commit =>
           \A key \in WrittenKeys(c)' :
             \/ key \in WrittenKeys(c) /\ call[c].commit
             \/ key \notin DOMAIN ledger
    BY <1>1, <1>7
  <2>2. \A f \in FileName : \A i \in Made(f) :
           MadeBy(f, i) = c /\ AtHand(f, i) => WholeAt(f, i)'
    BY <1>9
  <2>3. \A f \in FileName : \A i \in Made(f)' :
           i \notin Made(f) =>
             c \in Runs /\ WholeAt(f, i)' /\ call[c].at # "idle" /\ ~Repeating(c)
    BY SameTables
  <2>4. c \in Runs => \A p \in call'[c].says.clashed :
           \/ ClashedAt(c, p)'
           \/ p \in call[c].says.clashed /\ call[c].at # "idle"
    BY <1>1 DEF Active, Working
  <2> QED
    BY <1>2, <1>3, <2>1, <2>2, <2>3, <2>4, GlobalsKeep
<1>11. \A d \in call'[c].after : d \in Runs /\ call[d].at = "done"
  BY <1>1 DEF ImportInv, Called, Steady
<1>12. Own(c)'
  BY <1>8 DEF Own
<1>13. Shaped(call'[c]) /\ Going(call'[c]) /\ Countable(call'[c])
  BY <1>1 DEF SaysTyped
<1> QED
  BY <1>1, <1>2, <1>3, <1>4, <1>5, <1>10, <1>11, <1>12, <1>13, StepKeeps

-----------------------------------------------------------------------------
(* A row is passed.                                                        *)

LEMMA InFileIs ==
  ASSUME ImportInv, NEW c \in Runs, call[c].at \in InFile
  PROVE  /\ call[c].export \in Exports /\ File(c) \in FileName
         /\ call[c].todo \in Seq(FileName) /\ call[c].todo # <<>>
         /\ call[c].i \in Nat \ {0} /\ Active(c)
         /\ Len(Rows(call[c].export, File(c))) \in Nat
         /\ DOMAIN Rows(call[c].export, File(c)) = 1 .. Len(Rows(call[c].export, File(c)))
<1>1. Going(call[c])
  BY DEF ImportInv, Called
<1>2. call[c].todo \in Seq(FileName) /\ call[c].todo # <<>>
  BY <1>1 DEF Going
<1>3. File(c) \in FileName
  BY <1>2, HeadTailProperties DEF File
<1>4. call[c].export \in Exports /\ call[c].i \in Nat \ {0} /\ Active(c)
  BY <1>1 DEF Going, Active, InFile, Reading, AtARow, Having, Working
<1> QED
  BY <1>2, <1>3, <1>4, RowsAre

LEMMA AtTheRow ==
  ASSUME ImportInv, NEW c \in Runs, call[c].at \in AtARow \/ AtRow(c)
  PROVE  /\ call[c].at \in InFile /\ call[c].i \in DOMAIN Rows(call[c].export, File(c))
         /\ TheKey(c) \in Keys /\ TheKey(c) # None /\ TheKey(c)[1] = File(c)
         /\ <<File(c), call[c].i>> \in Position
         /\ TheRow(c) = Rows(call[c].export, File(c))[call[c].i]
         /\ TheKey(c) = Key(call[c].export, File(c), call[c].i)
<1>1. call[c].at \in InFile
  BY DEF AtRow, InFile
<1>2. Going(call[c])
  BY DEF ImportInv, Called
<1>3. call[c].i <= Len(Rows(call[c].export, File(c)))
  BY <1>2 DEF Going, AtRow, File
<1>4. call[c].i \in DOMAIN Rows(call[c].export, File(c))
  BY <1>1, <1>3, InFileIs
<1>5. TheKey(c) = Key(call[c].export, File(c), call[c].i)
  BY DEF TheKey
<1>6. TheKey(c) \in Keys /\ TheKey(c) # None /\ TheKey(c)[1] = File(c)
  <2> HIDE DEF File
  <2> QED
    BY <1>1, <1>4, <1>5, InFileIs, KeyIs
<1>7. <<File(c), call[c].i>> \in Position
  <2>1. /\ call[c].export \in Exports /\ File(c) \in FileName
    BY <1>1, InFileIs
  <2> DEFINE P(e, f) == {<<f, i>> : i \in DOMAIN Rows(e, f)}
  <2>2. Position = UNION {P(e, f) : e \in Exports, f \in FileName}
    BY DEF Position
  <2>3. <<File(c), call[c].i>> \in P(call[c].export, File(c))
    BY <1>4
  <2> HIDE DEF P
  <2>4. P(call[c].export, File(c)) \in {P(e, f) : e \in Exports, f \in FileName}
    BY <2>1
  <2> QED
    BY <2>2, <2>3, <2>4
<1> QED
  BY <1>1, <1>4, <1>5, <1>6, <1>7 DEF TheRow

LEMMA NotRepeating ==
  ASSUME ImportInv, NEW c \in Runs, call[c].at \in Having
  PROVE  ~Repeating(c)
<1>1. /\ call[c].entity \in Made(File(c)) /\ MadeBy(File(c), call[c].entity) = c
  BY DEF ImportInv, Holding
<1>2. File(c) \in FileName
  BY InFileIs DEF InFile, AtARow
<1> QED
  BY <1>1, <1>2 DEF ImportInv, SecondWritesNothing, Repeating

(* What there is to settle when a row is behind, and what is due of the    *)
(* entity that was at hand.                                                *)
RowSettled(c) ==
  \A e, f, i : /\ call[c].commit /\ e = call[c].export
               /\ f = File(c) /\ i = call[c].i
               => Settled(e, f, i)'
HandedOn(c) ==
  \A f, i : /\ call[c].at \in Having /\ f = File(c) /\ i = call[c].entity
            => /\ WholeAt(f, i)'
               /\ f = "sessions" => LostTheKey(f, i)'

LEMMA PassSettles ==
  ASSUME ImportInv, NEW c \in Runs, call[c].at \in AtARow \/ AtRow(c),
         Grows(c), NEW q, call'[c] = q, q.at = "rows", q.i = call[c].i + 1,
         q.todo = call[c].todo, q.export = call[c].export,
         RowSettled(c)
  PROVE  Settling(c)'
<1> DEFINE k == call[c]
           b == batch[k.batch]
<1>1. /\ k.at \in InFile /\ k.i \in Nat \ {0} /\ Active(c)
      /\ k.at # "idle" /\ q.batch = k.batch /\ q.commit = k.commit
  <2>1. k.at \in InFile
    BY AtTheRow
  <2>2. k.at # "idle"
    BY <2>1 DEF InFile, Reading, AtARow, Having
  <2> QED
    BY <2>1, <2>2, InFileIs DEF Grows, RunsStay, Steady
<1>2. File(c)' = File(c) /\ Left(call[c])' = Left(k)
  BY DEF File, Left
<1>3. b # None /\ k.batch \in Runs
  BY <1>1 DEF ImportInv, Batched
<1>4. batch'[k.batch].export = b.export /\ batch'[k.batch].files = b.files
  BY <1>3 DEF Grows, TablesGrow
<1>5. /\ \A e, f, i : Settled(e, f, i) => Settled(e, f, i)'
      /\ \A e, f : AllSettled(e, f) => AllSettled(e, f)'
  <2>1. \A e, f, i : Settled(e, f, i) => Settled(e, f, i)'
    BY SettledStays DEF Grows
  <2> QED
    BY <2>1 DEF AllSettled
<1>6. ASSUME q.commit
      PROVE  /\ k.export = batch'[k.batch].export
             /\ Left(k) \subseteq batch'[k.batch].files
             /\ \A f \in batch'[k.batch].files \ Left(k) : AllSettled(k.export, f)'
             /\ \A j \in 1 .. q.i - 1 : Settled(k.export, File(c), j)'
  <2>1. /\ k.export = b.export /\ Left(k) \subseteq b.files
        /\ \A f \in b.files \ Left(k) : AllSettled(k.export, f)
        /\ \A j \in 1 .. k.i - 1 : Settled(k.export, File(c), j)
    BY <1>1, <1>6 DEF ImportInv, Settling, Active
  <2>2. /\ \A f : AllSettled(k.export, f) => AllSettled(k.export, f)'
        /\ \A j : Settled(k.export, File(c), j) => Settled(k.export, File(c), j)'
    BY <1>2, <1>5
  <2>3. \A j \in 1 .. q.i - 1 : j \in 1 .. k.i - 1 \/ j = k.i
    BY <1>1
  <2>4. \A e, f, i : e = k.export /\ f = File(c) /\ i = k.i => Settled(e, f, i)'
    BY <1>1, <1>6 DEF RowSettled
  <2>5. \A j \in 1 .. q.i - 1 : Settled(k.export, File(c), j)'
    <3>1. \A j : j = k.i => Settled(k.export, File(c), j)'
      BY <1>2, <2>4
    <3> QED
      BY <2>1, <2>2, <2>3, <3>1
  <2> QED
    BY <1>4, <2>1, <2>2, <2>5
<1> QED
  BY <1>1, <1>2, <1>6 DEF Settling

(* Once begun, the pass keeps its reasons not to write.                    *)
LEMMA PassBars ==
  ASSUME ImportInv, NEW c \in Runs, call[c].at \in AtARow \/ AtRow(c),
         Grows(c), NEW q, call'[c] = q, q.at = "rows",
         q.export = call[c].export, q.todo = call[c].todo, q.known = call[c].known,
         q.names = call[c].names, q.emails = call[c].emails,
         call[c].busy \subseteq q.busy
  PROVE  Barred(c)'
<1> DEFINE k == call[c]
<1>1. k.at \in InFile /\ Active(c)
  BY AtTheRow, InFileIs
<1>2. File(c)' = File(c)
  BY DEF File
<1>3. SUFFICES ASSUME Repeating(c)', NEW i \in DOMAIN Rows(k.export, File(c))
               PROVE  Warned(c, i)'
  BY <1>2 DEF Barred
<1>4. Repeating(c)
  BY <1>1, <1>3, AgainStays DEF Active, Working
<1>5. k.at \in {"rows", "match", "create"}
  BY <1>4, NotRepeating DEF AtRow, AtARow
<1>6. Warned(c, i)
  BY <1>3, <1>4, <1>5 DEF ImportInv, Barred
<1>7. Key(k.export, File(c), i) \in k.known \/ Forbidden(c, i, k.busy)
  BY <1>5, <1>6 DEF Warned
<1>8. \A busy : k.busy \subseteq busy /\ Forbidden(c, i, k.busy) => Forbidden(c, i, busy)
  BY DEF Forbidden, Occupied
<1>9. \A busy : Forbidden(c, i, busy)' <=> Forbidden(c, i, busy)
  BY <1>2 DEF Forbidden
<1>10. Forbidden(c, i, k.busy) => Forbidden(c, i, q.busy)'
  BY <1>8, <1>9
<1> QED
  BY <1>2, <1>7, <1>10 DEF Warned

LEMMA PassKeeps ==
  ASSUME ImportInv, NEW c \in Runs, Unwritten, trail' \subseteq Runs,
         call[c].at \in AtARow \/ AtRow(c),
         NEW q, Turn(c, q), Shaped(q), SaysTyped(q),
         q.at = "rows", q.i = call[c].i + 1, q.entity = 0, q.student = 1,
         q.commit = call[c].commit, q.batch = call[c].batch,
         q.export = call[c].export, q.after = call[c].after,
         q.todo = call[c].todo, q.known = call[c].known, q.names = call[c].names,
         q.emails = call[c].emails, call[c].busy \subseteq q.busy,
         q.commit => /\ q.busy = call[c].busy /\ q.fresh = call[c].fresh
                     /\ q.pending = call[c].pending
                     /\ q.says["written"] = call[c].says["written"],
         \A word \in Sayings : call[c].says[word] \subseteq q.says[word],
         RowSettled(c), HandedOn(c),
         \A p \in q.says["clashed"] :
           ClashedAt(c, p)' \/ p \in call[c].says["clashed"]
  PROVE  ImportInv'
<1> DEFINE k == call[c]
<1>1. /\ call'[c] = q /\ DOMAIN call' = Runs
      /\ \A d \in Runs : d # c => call'[d] = call[d]
  BY TurnIs DEF ImportInv
<1>2. k.at \in InFile /\ Active(c) /\ Going(k)
  BY AtTheRow, InFileIs DEF ImportInv, Called
<1>3. Steady(k, q) /\ q.at # "idle"
  BY DEF Steady
<1>4. Grows(c)
  BY <1>1, <1>2, <1>3, QuietGrows
<1>5. Going(q)
  BY <1>2, InFileIs DEF Going, InFile, Having, AtARow, Reading
<1>6. File(c)' = File(c)
  BY <1>1 DEF File
<1>7. Believing(c)'
  <2>1. Believing(c)
    BY DEF ImportInv
  <2> QED
    BY <1>1, <2>1, SameTables DEF Believing, Unwritten
<1>8. Judged(c)' /\ Holding(c)'
  BY <1>1 DEF Judged, Holding, Having
<1>9. Ours(c)'
  <2>1. SUFFICES
          ASSUME q.commit, File(c) = "sessions", NEW i \in DOMAIN sessions,
                 sessions[i].by = c, Holds(sessions[i].who, sessions[i].status)
          PROVE  \/ [who |-> sessions[i].who, from |-> sessions[i].from,
                     to |-> sessions[i].to] \in q.busy
                 \/ LostTheKey("sessions", i)'
    BY <1>1, <1>6 DEF Ours, Unwritten
  <2>2. \/ [who |-> sessions[i].who, from |-> sessions[i].from,
            to |-> sessions[i].to] \in k.busy
        \/ LostTheKey("sessions", i)
        \/ k.at = "remember" /\ k.entity = i
    BY <2>1 DEF ImportInv, Ours, AtRow
  <2>3. i \in Made("sessions")
    BY <2>1 DEF ImportInv, Tables, Made, Entity
  <2>4. LostTheKey("sessions", i) => LostTheKey("sessions", i)'
    BY <1>4, <2>3, LostStays, FileNames
  <2>5. k.at = "remember" /\ k.entity = i => LostTheKey("sessions", i)'
    BY <2>1 DEF Having, HandedOn
  <2> QED
    BY <2>2, <2>4, <2>5
<1>10. Settling(c)'
  BY <1>1, <1>4, PassSettles
<1>11. Barred(c)'
  BY <1>1, <1>4, PassBars
<1>12. \/ k.at \notin Having
       \/ q.entity = k.entity /\ q.todo = k.todo /\ q.at # "done"
       \/ \A f, i : f = File(c) /\ i = k.entity => WholeAt(f, i)'
  BY DEF HandedOn
<1> QED
  BY <1>1, <1>2, <1>3, <1>5, <1>7, <1>8, <1>9, <1>10, <1>11, <1>12, QuietKeeps

LEMMA SayTyped ==
  ASSUME ImportInv, NEW c \in Runs, call[c].at \in AtARow \/ AtRow(c),
         NEW what \in Sayings, NEW k, Shaped(k), SaysTyped(k),
         k.todo = call[c].todo, k.i = call[c].i, NEW q, q = Say(k, what)
  PROVE  SaysTyped(q)
<1>1. /\ q.at = "rows" /\ q.known = k.known /\ q.fresh = k.fresh
      /\ q.says[what] = k.says[what] \cup {<<Head(k.todo), k.i>>}
      /\ \A word \in Sayings : word # what => q.says[word] = k.says[word]
  BY SayIs
<1>2. <<Head(k.todo), k.i>> \in Position
  BY AtTheRow DEF File
<1>3. Countable(q)
  <2>1. ASSUME NEW word \in {"written", "here", "refused"} PROVE IsFiniteSet(q.says[word])
    <3>1. IsFiniteSet(k.says[word]) /\ word \in Sayings
      BY <2>1 DEF SaysTyped, Countable, Sayings
    <3> QED
      BY <1>1, <3>1, FS_AddElement
  <2> QED
    BY <2>1 DEF Countable
<1> QED
  BY <1>1, <1>2, <1>3 DEF SaysTyped, Sayings, Working

(* A row of which only something is said.                                  *)
AtOne(c) == call[c].at \in AtARow \/ AtRow(c)
Said(c, what) == /\ Turn(c, Say(call[c], what))
                 /\ UNCHANGED <<tables, ledger, batch, trail>>

LEMMA SaidKeeps ==
  ASSUME ImportInv, NEW c \in Runs, AtOne(c),
         NEW what \in {"here", "refused", "unknown"}, Said(c, what),
         RowSettled(c), HandedOn(c)
  PROVE  ImportInv'
<1>0. /\ UNCHANGED <<tables, ledger, batch, trail>>
      /\ call[c].at \in AtARow \/ AtRow(c)
      /\ what \in Sayings /\ what # "written" /\ what # "clashed"
      /\ Turn(c, Say(call[c], what))
  BY DEF Said, AtOne, Sayings
<1> HIDE DEF Said, AtOne
<1> DEFINE k == call[c]
           q == Say(k, what)
<1>1. Shaped(k) /\ SaysTyped(k)
  BY TypedSays DEF ImportInv, Called
<1>2. SaysTyped(q)
  BY <1>0, <1>1, SayTyped
<1>3. Unwritten /\ trail' \subseteq Runs
  BY <1>0 DEF Unwritten, tables, ImportInv, TypeOK
<1>4. /\ Shaped(q) /\ q.at = "rows" /\ q.i = k.i + 1 /\ q.entity = 0 /\ q.student = 1
      /\ q.commit = k.commit /\ q.batch = k.batch /\ q.export = k.export
      /\ q.todo = k.todo /\ q.known = k.known /\ q.fresh = k.fresh
      /\ q.names = k.names /\ q.emails = k.emails /\ q.busy = k.busy
      /\ q.pending = k.pending /\ q.after = k.after
      /\ q.says["written"] = k.says["written"] /\ q.says["clashed"] = k.says["clashed"]
      /\ \A word \in Sayings : k.says[word] \subseteq q.says[word]
  <2> HIDE DEF q
  <2>1. q = Say(k, what)
    BY DEF q
  <2> HIDE DEF k
  <2> QED
    BY <1>0, <1>1, <2>1, SayIs DEF Sayings
<1>5. Turn(c, q)
  BY <1>0
<1> HIDE DEF q
<1>9. PICK y : y = q
  OBVIOUS
<1>7. \A p \in y.says["clashed"] :
        ClashedAt(c, p)' \/ p \in call[c].says["clashed"]
  BY <1>4, <1>9
<1>8. /\ call[c].busy \subseteq y.busy
      /\ y.commit => /\ y.busy = call[c].busy /\ y.fresh = call[c].fresh
                     /\ y.pending = call[c].pending
                     /\ y.says["written"] = call[c].says["written"]
  BY <1>4, <1>9
<1>10. Turn(c, y) /\ SaysTyped(y)
  BY <1>2, <1>5, <1>9
<1>11. /\ Shaped(y) /\ y.at = "rows" /\ y.i = call[c].i + 1 /\ y.entity = 0
       /\ y.student = 1 /\ y.commit = call[c].commit /\ y.batch = call[c].batch
       /\ y.export = call[c].export
       /\ y.todo = call[c].todo /\ y.known = call[c].known
       /\ y.names = call[c].names /\ y.emails = call[c].emails
       /\ y.after = call[c].after
       /\ \A word \in Sayings : call[c].says[word] \subseteq y.says[word]
  BY <1>4, <1>9
<1> QED
  BY <1>0, <1>3, <1>7, <1>8, <1>10, <1>11, PassKeeps

LEMMA LeavesAlone ==
  ASSUME ImportInv, NEW c \in Runs, LeaveAlone(c)
  PROVE  ImportInv'
<1>1. /\ AtRow(c) /\ Turn(c, Say(call[c], "here"))
      /\ UNCHANGED <<tables, ledger, batch, trail>>
      /\ TheKey(c) \in call[c].known \cup call[c].fresh
  BY DEF LeaveAlone, AtNew
<1>2. ASSUME call[c].commit
      PROVE  Key(call[c].export, File(c), call[c].i) \in DOMAIN ledger
  BY <1>1, <1>2, AtTheRow DEF ImportInv, Believing
<1>3. RowSettled(c)
  <2>1. ledger' = ledger
    BY <1>1
  <2>2. ASSUME call[c].commit
        PROVE  Settled(call[c].export, File(c), call[c].i)
    BY <1>2, <2>2 DEF Settled
  <2>3. \A e, f, i : Settled(e, f, i)' <=> Settled(e, f, i)
    BY <1>1, SameTables DEF Unwritten, tables
  <2>4. ASSUME NEW e, NEW f, NEW i, call[c].commit, e = call[c].export,
               f = File(c), i = call[c].i
        PROVE  Settled(e, f, i)'
    <3>1. Settled(e, f, i)
      BY <2>2, <2>4
    <3> QED
      BY <2>3, <3>1
  <2> QED
    BY <2>4 DEF RowSettled
<1>4. HandedOn(c)
  BY <1>1 DEF AtRow, Having, HandedOn
<1>5. AtOne(c) /\ Said(c, "here")
  BY <1>1 DEF AtOne, Said
<1> QED
  BY <1>3, <1>4, <1>5, SaidKeeps

LEMMA LosesKey ==
  ASSUME ImportInv, NEW c \in Runs, RememberLoses(c)
  PROVE  ImportInv'
<1> DEFINE k == call[c]
           q == Say(k, "refused")
<1>1. /\ k.at = "remember" /\ TheKey(c) \in DOMAIN ledger /\ Turn(c, q)
      /\ UNCHANGED <<tables, ledger, batch, trail>>
  BY DEF RememberLoses
<1>2. k.at \in AtARow /\ k.at \in Having
  BY <1>1 DEF AtARow, Having
<1>3. /\ File(c) \in FileName /\ k.entity \in Made(File(c))
      /\ MadeBy(File(c), k.entity) = c /\ SourceOf(File(c), k.entity) = TheKey(c)
      /\ TheKey(c) = Key(k.export, File(c), k.i)
  BY <1>2, AtTheRow, InFileIs DEF ImportInv, Holding
<1>4. call'[c] = q
  BY <1>1, TurnIs DEF ImportInv
<1>5. /\ <<File(c), k.i>> \in q.says["refused"] /\ q.export = k.export
  <2>1. Shaped(k)
    BY DEF ImportInv, Called
  <2>2. \A x : x = q => <<Head(k.todo), k.i>> \in x.says["refused"] /\ x.export = k.export
    <3> HIDE DEF k
    <3>1. "refused" \in Sayings
      BY DEF Sayings
    <3>2. Tells(k, "refused", Say(k, "refused"))
      BY <2>1, <3>1, SayTells
    <3>3. ASSUME NEW x, x = q
          PROVE  <<Head(k.todo), k.i>> \in x.says["refused"] /\ x.export = k.export
      <4>1. Tells(k, "refused", x)
        BY <3>2, <3>3 DEF q
      <4> QED
        BY <4>1 DEF Tells
    <3> QED
      BY <3>3
  <2> QED
    BY <2>2 DEF File
<1>6. Unwritten
  BY <1>1 DEF Unwritten, tables
<1>7. ASSUME NEW f, NEW i, f = File(c), i = k.entity
      PROVE  /\ WholeAt(f, i)'
             /\ f = "sessions" => LostTheKey(f, i)'
  <2>1. /\ SourceOf(f, i)' = TheKey(c) /\ MadeBy(f, i)' = c
    BY <1>3, <1>6, <1>7, SameTables
  <2>2. ASSUME ledger[TheKey(c)] # i PROVE LostTheKey(f, i)'
    <3>1. <<f, k.i>> \in call'[c].says.refused /\ Key(call'[c].export, f, k.i) = TheKey(c)
      BY <1>3, <1>4, <1>5, <1>7
    <3>2. \E p \in call'[c].says.refused :
            p[1] = f /\ Key(call'[c].export, f, p[2]) = TheKey(c)
      BY <3>1
    <3> QED
      BY <1>1, <1>6, <2>1, <2>2, <3>2 DEF LostTheKey, Unwritten
  <2>3. ASSUME f = "sessions" PROVE ledger[TheKey(c)] # i
    <3>1. Holding(c)
      BY DEF ImportInv
    <3>2. \A key \in DOMAIN ledger : key[1] = "sessions" => ledger[key] # k.entity
      BY <1>1, <1>7, <2>3, <3>1 DEF Holding
    <3>3. TheKey(c)[1] = "sessions"
      BY <1>2, <1>7, <2>3, AtTheRow
    <3> QED
      BY <1>1, <1>7, <3>2, <3>3
  <2>4. ASSUME f # "sessions", ledger[TheKey(c)] = i PROVE Filed(f, i)'
    BY <1>1, <1>6, <2>1, <2>4 DEF Filed, Unwritten
  <2> QED
    BY <2>2, <2>3, <2>4 DEF WholeAt
<1>10. RowSettled(c)
  <2>1. Settled(k.export, File(c), k.i)
    BY <1>1, <1>3 DEF Settled
  <2>2. \A e, f, i : Settled(e, f, i)' <=> Settled(e, f, i)
    BY <1>6, SameTables
  <2>3. ASSUME NEW e, NEW f, NEW i, e = k.export, f = File(c), i = k.i
        PROVE  Settled(e, f, i)'
    <3>1. Settled(e, f, i)
      BY <2>1, <2>3
    <3> QED
      BY <2>2, <3>1
  <2> QED
    BY <2>3 DEF RowSettled
<1>8. RowSettled(c) /\ HandedOn(c)
  BY <1>7, <1>10 DEF HandedOn
<1>9. AtOne(c) /\ Said(c, "refused")
  BY <1>1, <1>2 DEF AtOne, Said
<1> QED
  BY <1>8, <1>9, SaidKeeps

(* RowSettled is stated of what the step leaves; a quiet one leaves it so. *)
LEMMA QuietSettles ==
  ASSUME NEW c, Unwritten, call[c].commit => Settled(call[c].export, File(c), call[c].i)
  PROVE  RowSettled(c)
<1>1. ASSUME NEW e, NEW f, NEW i, call[c].commit, e = call[c].export,
             f = File(c), i = call[c].i
      PROVE  Settled(e, f, i)'
  <2>1. Settled(e, f, i)
    BY <1>1
  <2> QED
    BY <2>1, SameTables
<1> QED
  BY <1>1 DEF RowSettled

LEMMA RefusesRow ==
  ASSUME ImportInv, NEW c \in Runs, RefuseRow(c)
  PROVE  ImportInv'
<1> DEFINE k == call[c]
           r == TheRow(c)
<1>1. /\ AtRow(c) /\ Said(c, "refused") /\ AtOne(c)
      /\ \/ ~Readable(File(c), r)
         \/ File(c) = "sessions" /\ Busy(c)
  BY DEF RefuseRow, AtNew, Said, AtOne
<1>2. Unwritten
  BY <1>1 DEF Unwritten, tables, Said
<1>3. r = Rows(k.export, File(c))[k.i]
  BY <1>1, AtTheRow
<1>4. ASSUME k.commit, File(c) = "sessions", Busy(c)
      PROVE  Hopeless(k.export, File(c), k.i)
  <2> DEFINE w == Instructor(c)
  <2>1. /\ Holds(w, r.status) /\ \E s \in k.busy : Clash(s, Span(w, r))
    BY <1>4 DEF Busy, Blocking
  <2>2. /\ r.instructor \in DOMAIN k.names /\ w = k.names[r.instructor]
    BY <2>1 DEF Instructor, Holds
  <2>3. First(r.instructor, w) /\ k.busy \subseteq BusyByInstructor(sessions)
    BY <1>4, <2>2 DEF ImportInv, Believing
  <2>4. w \in DOMAIN users /\ r.status = "blocking"
    BY <2>1, <2>3 DEF First, Holds
  <2>5. Occupied(w, r, BusyByInstructor(sessions))
    BY <2>1, <2>3 DEF Occupied
  <2> HIDE DEF w, r
  <2> QED
    BY <1>3, <1>4, <2>3, <2>4, <2>5 DEF Hopeless
<1>5. k.commit => Settled(k.export, File(c), k.i)
  <2>1. CASE ~Readable(File(c), r)
    BY <1>3, <2>1 DEF Settled, Hopeless
  <2> QED
    BY <1>1, <1>4, <2>1 DEF Settled
<1>6. RowSettled(c)
  BY <1>2, <1>5, QuietSettles
<1>7. HandedOn(c)
  BY <1>1 DEF AtRow, Having, HandedOn
<1> QED
  BY <1>1, <1>6, <1>7, SaidKeeps

LEMMA RefusesPerson ==
  ASSUME ImportInv, NEW c \in Runs, RefusePerson(c)
  PROVE  ImportInv'
<1> DEFINE k == call[c]
           r == TheRow(c)
<1>1. /\ k.at = "create" /\ Said(c, "refused") /\ AtOne(c)
      /\ File(c) = "people" /\ ~Acceptable(r)
  BY DEF RefusePerson, Said, AtOne, AtARow
<1>2. Unwritten
  BY <1>1 DEF Unwritten, tables, Said
<1>3. r = Rows(k.export, File(c))[k.i]
  BY <1>1, AtTheRow DEF AtARow
<1>4. Hopeless(k.export, File(c), k.i)
  <2>1. \/ ~r.valid
        \/ r.email # None /\ \E u \in DOMAIN users : users[u].email = r.email
    BY <1>1 DEF Acceptable
  <2> HIDE DEF r
  <2> QED
    BY <1>1, <1>3, <2>1 DEF Hopeless
<1>5. RowSettled(c)
  BY <1>2, <1>4, QuietSettles DEF Settled
<1>6. HandedOn(c)
  BY <1>1 DEF Having, HandedOn
<1> QED
  BY <1>1, <1>5, <1>6, SaidKeeps

LEMMA ForeseesMatch ==
  ASSUME ImportInv, NEW c \in Runs, MatchPerson(c), ~call[c].commit
  PROVE  ImportInv'
<1>1. AtRow(c) /\ Said(c, "here") /\ AtOne(c)
  BY DEF MatchPerson, AtNew, Said, AtOne
<1>2. RowSettled(c) /\ HandedOn(c)
  BY <1>1 DEF AtRow, Having, HandedOn, RowSettled
<1> QED
  BY <1>1, <1>2, SaidKeeps

(* A preview holds a time it foresees as a commit holds one it has booked. *)
LEMMA HoldIs ==
  ASSUME NEW c, NEW k, Shaped(k)
  PROVE  /\ Shaped(Hold(c, k))
         /\ \A x \in Fields : x # "busy" => Hold(c, k)[x] = k[x]
         /\ Hold(c, k).busy = IF File(c) = "sessions" /\ Blocking(c)
                              THEN k.busy \cup {Span(Instructor(c), TheRow(c))}
                              ELSE k.busy
<1>1. CASE File(c) = "sessions" /\ Blocking(c)
  BY <1>1 DEF Hold, Shaped, Fields
<1>2. CASE ~(File(c) = "sessions" /\ Blocking(c))
  BY <1>2 DEF Hold
<1> QED
  BY <1>1, <1>2

LEMMA Foresees ==
  ASSUME ImportInv, NEW c \in Runs, Foresee(c)
  PROVE  ImportInv'
<1> DEFINE k == call[c]
           h == Hold(c, k)
           key == TheKey(c)
           foreseen == IF File(c) = "people"
                       THEN Append(h.pending, TheRow(c).shown) ELSE h.pending
           p == [h EXCEPT !.fresh = @ \cup {key}, !.pending = foreseen]
           q == Say(p, "written")
<1>1. /\ AtRow(c) /\ ~k.commit /\ Turn(c, q)
      /\ UNCHANGED <<tables, ledger, batch, trail>>
  BY DEF Foresee, Writable, AtNew
<1>2. Shaped(k) /\ SaysTyped(k)
  BY TypedSays DEF ImportInv, Called
<1>3. /\ Shaped(h) /\ h.i = k.i /\ h.commit = k.commit /\ h.batch = k.batch
      /\ h.export = k.export
      /\ h.todo = k.todo /\ h.known = k.known /\ h.fresh = k.fresh
      /\ h.names = k.names /\ h.emails = k.emails
      /\ h.after = k.after /\ h.says = k.says /\ k.busy \subseteq h.busy
      /\ h.at = k.at
  <2> HIDE DEF h
  <2>1. h = Hold(c, k)
    BY DEF h
  <2> HIDE DEF k
  <2>2. /\ Shaped(h) /\ k.busy \subseteq h.busy
        /\ \A x \in Fields : x # "busy" => h[x] = k[x]
    BY <1>2, <2>1, HoldIs
  <2> QED
    BY <2>2 DEF Fields
<1> HIDE DEF h
<1>4. /\ Shaped(p) /\ p.i = k.i /\ p.commit = k.commit /\ p.batch = k.batch
      /\ p.export = k.export
      /\ p.todo = k.todo /\ p.known = k.known /\ p.fresh = k.fresh \cup {key}
      /\ p.names = k.names /\ p.emails = k.emails
      /\ p.after = k.after /\ p.says = k.says /\ k.busy \subseteq p.busy
      /\ p.at = k.at
  <2> HIDE DEF k, key, foreseen
  <2> QED
    BY <1>3 DEF Shaped, Fields
<1> HIDE DEF p, foreseen
<1>5. SaysTyped(p)
  <2>1. TheKey(c) \in Keys
    BY <1>1, AtTheRow
  <2> HIDE DEF p, k
  <2> QED
    BY <1>2, <1>4, <2>1 DEF SaysTyped, Countable
<1>6. /\ Shaped(q) /\ q.at = "rows" /\ q.i = k.i + 1 /\ q.entity = 0 /\ q.student = 1
      /\ q.commit = k.commit /\ q.batch = k.batch /\ q.export = k.export
      /\ q.todo = k.todo /\ q.known = k.known
      /\ q.names = k.names /\ q.emails = k.emails /\ k.busy \subseteq q.busy
      /\ q.after = k.after /\ q.says["clashed"] = k.says["clashed"]
      /\ \A word \in Sayings : k.says[word] \subseteq q.says[word]
  <2> HIDE DEF q
  <2>1. q = Say(p, "written")
    BY DEF q
  <2> HIDE DEF k
  <2>2. "written" \in Sayings /\ "clashed" \in Sayings
    BY DEF Sayings
  <2> QED
    <3>1. /\ Shaped(q) /\ q.at = "rows" /\ q.i = p.i + 1 /\ q.entity = 0
          /\ q.student = 1 /\ q.commit = p.commit /\ q.batch = p.batch
          /\ q.export = p.export /\ q.todo = p.todo /\ q.known = p.known
          /\ q.names = p.names /\ q.emails = p.emails /\ q.busy = p.busy
          /\ q.after = p.after
          /\ q.says["written"] = p.says["written"] \cup {<<Head(p.todo), p.i>>}
          /\ \A word \in Sayings : word # "written" => q.says[word] = p.says[word]
      <4>1. Shaped(p)
        BY <1>4
      <4>2. Tells(p, "written", q)
        BY <2>1, <2>2, <4>1, SayTells
      <4> QED
        BY <4>2 DEF Tells
    <3>2. \A word \in Sayings : k.says[word] \subseteq q.says[word]
      BY <1>4, <3>1
    <3>3. q.says["clashed"] = k.says["clashed"]
      BY <1>4, <2>2, <3>1
    <3> QED
      BY <1>4, <3>1, <3>2, <3>3
<1>7. SaysTyped(q)
  <2>1. "written" \in Sayings
    BY DEF Sayings
  <2> QED
    BY <1>1, <1>4, <1>5, <2>1, SayTyped
<1> HIDE DEF q
<1>8. Unwritten /\ trail' \subseteq Runs
  BY <1>1 DEF Unwritten, tables, ImportInv, TypeOK
<1>9. RowSettled(c) /\ HandedOn(c)
  BY <1>1 DEF AtRow, Having, HandedOn, RowSettled
<1>10. PICK y : y = q
  OBVIOUS
<1>11. /\ Turn(c, y) /\ SaysTyped(y)
       /\ \A s \in y.says["clashed"] : ClashedAt(c, s)' \/ s \in call[c].says["clashed"]
       /\ y.commit => /\ y.busy = call[c].busy /\ y.fresh = call[c].fresh
                      /\ y.pending = call[c].pending
                      /\ y.says["written"] = call[c].says["written"]
  BY <1>1, <1>6, <1>7, <1>10
<1>12. /\ Shaped(y) /\ y.at = "rows" /\ y.i = call[c].i + 1 /\ y.entity = 0
       /\ y.student = 1 /\ y.commit = call[c].commit /\ y.batch = call[c].batch
       /\ y.export = call[c].export
       /\ y.todo = call[c].todo /\ y.known = call[c].known
       /\ y.names = call[c].names /\ y.emails = call[c].emails
       /\ call[c].busy \subseteq y.busy /\ y.after = call[c].after
       /\ \A word \in Sayings : call[c].says[word] \subseteq y.says[word]
  BY <1>6, <1>10
<1> QED
  BY <1>1, <1>8, <1>9, <1>11, <1>12, PassKeeps

(* An insert the constraint refuses was refused for a session that is not  *)
(* among those this import holds, so another made it or it lost its key.   *)
LEMMA ClashesAt ==
  ASSUME ImportInv, NEW c \in Runs, Excluded(c),
         call[c].at = "create", File(c) = "sessions",
         Unwritten, Grows(c), call'[c].export = call[c].export
  PROVE  /\ \A p : p = <<"sessions", call[c].i>> => ClashedAt(c, p)'
         /\ Hopeless(call[c].export, File(c), call[c].i)
<1> DEFINE k == call[c]
           r == TheRow(c)
           w == Instructor(c)
<1>1. /\ k.commit /\ ~Busy(c)
  BY DEF ImportInv, Called, Going, AtARow, Judged
<1>2. /\ Holds(w, r.status)
      /\ \E s \in BusyByInstructor(sessions) : Clash(s, Span(w, r))
  BY DEF Excluded, Blocking
<1>3. /\ r.instructor \in DOMAIN k.names /\ w = k.names[r.instructor]
  BY <1>2 DEF Instructor, Holds
<1>4. First(r.instructor, w) /\ w \in DOMAIN users /\ r.status = "blocking"
  BY <1>1, <1>2, <1>3 DEF ImportInv, Believing, First, Holds
<1>5. /\ r = Rows(k.export, File(c))[k.i] /\ r = SessionRows[k.export][k.i]
  BY AtTheRow DEF AtARow, Rows
<1>6. Occupied(w, r, BusyByInstructor(sessions))
  BY <1>2 DEF Occupied
<1>7. Hopeless(k.export, File(c), k.i)
  <2> HIDE DEF w, r
  <2> QED
    BY <1>4, <1>5, <1>6 DEF Hopeless
<1>8. PICK i \in DOMAIN sessions :
        /\ Holds(sessions[i].who, sessions[i].status)
        /\ Clash([who |-> sessions[i].who, from |-> sessions[i].from,
                  to |-> sessions[i].to], Span(w, r))
  BY <1>2 DEF BusyByInstructor
<1>9. /\ sessions[i].who = w /\ sessions[i].status = "blocking"
      /\ sessions[i].from < r.from + r.minutes /\ r.from < sessions[i].to
      /\ sessions[i].who # None
  BY <1>8 DEF Clash, Span, Holds
<1>10. ASSUME sessions[i].by = c PROVE LostTheKey("sessions", i)'
  <2>1. [who |-> sessions[i].who, from |-> sessions[i].from,
         to |-> sessions[i].to] \notin k.busy
    BY <1>1, <1>2, <1>8 DEF Busy, Blocking
  <2>2. LostTheKey("sessions", i)
    BY <1>1, <1>8, <1>10, <2>1 DEF ImportInv, Ours, AtARow
  <2>3. i \in Made("sessions")
    BY <1>10 DEF ImportInv, Tables, Made, Entity
  <2> QED
    BY <2>2, <2>3, FileNames, LostStays
<1>11. /\ users' = users /\ sessions' = sessions /\ users[w].name = r.instructor
  BY <1>4 DEF Unwritten, First
<1>12. Clash([sessions[i] EXCEPT !.who = 0], Span(0, r))
  <2>1. /\ [sessions[i] EXCEPT !.who = 0].who = 0
        /\ [sessions[i] EXCEPT !.who = 0].from = sessions[i].from
        /\ [sessions[i] EXCEPT !.who = 0].to = sessions[i].to
    BY DEF ImportInv, TypeOK, Session
  <2> HIDE DEF r
  <2> QED
    BY <1>9, <2>1 DEF Clash, Span
<1>13. ASSUME NEW p, p = <<"sessions", k.i>> PROVE ClashedAt(c, p)'
  <2>1. p[2] = k.i /\ SessionRows[call'[c].export][p[2]] = r
    BY <1>5, <1>13
  <2> HIDE DEF r, w
  <2> QED
    BY <1>9, <1>10, <1>11, <1>12, <2>1 DEF ClashedAt
<1> QED
  BY <1>7, <1>13

LEMMA InsertsClash ==
  ASSUME ImportInv, NEW c \in Runs, InsertClashes(c)
  PROVE  ImportInv'
<1> DEFINE k == call[c]
           s == Say(k, "refused")
           spot == <<"sessions", k.i>>
           q == [s EXCEPT !.says.clashed = @ \cup {spot}]
<1>1. /\ k.at = "create" /\ File(c) = "sessions" /\ Excluded(c) /\ Turn(c, q)
      /\ UNCHANGED <<tables, ledger, batch, trail>>
  BY DEF InsertClashes
<1>2. Shaped(k) /\ SaysTyped(k) /\ k.at \in AtARow /\ Active(c)
  BY <1>1, TypedSays DEF ImportInv, Called, AtARow, Active, Working
<1>3. /\ "refused" \in Sayings /\ "clashed" \in Sayings /\ "written" \in Sayings
  BY DEF Sayings
<1>4. /\ Shaped(s) /\ s.at = "rows" /\ s.i = k.i + 1 /\ s.entity = 0 /\ s.student = 1
      /\ s.commit = k.commit /\ s.batch = k.batch /\ s.export = k.export
      /\ s.todo = k.todo /\ s.known = k.known /\ s.fresh = k.fresh
      /\ s.names = k.names /\ s.emails = k.emails /\ s.busy = k.busy
      /\ s.pending = k.pending /\ s.after = k.after
      /\ s.says["refused"] = k.says["refused"] \cup {<<Head(k.todo), k.i>>}
      /\ \A word \in Sayings : word # "refused" => s.says[word] = k.says[word]
  <2> HIDE DEF s
  <2>1. s = Say(k, "refused")
    BY DEF s
  <2> HIDE DEF k
  <2>2. Shaped(k)
    BY <1>2
  <2>3. "refused" \in Sayings
    BY <1>3
  <2> HIDE DEF s
  <2> QED
    BY <2>1, <2>2, <2>3, SayIs
<1>5. SaysTyped(s)
  <2> HIDE DEF s
  <2>1. s = Say(k, "refused")
    BY DEF s
  <2> QED
    BY <1>2, <1>3, <2>1, SayTyped
<1> HIDE DEF s
<1>6. /\ DOMAIN q = Fields /\ \A x \in Fields : x # "says" => q[x] = s[x]
      /\ q.says = [s.says EXCEPT !.clashed = @ \cup {spot}]
  <2> DEFINE said == [s.says EXCEPT !.clashed = @ \cup {spot}]
  <2>1. q = [s EXCEPT !.says = said]
    BY Zenon
  <2>2. DOMAIN s = Fields
    BY <1>4 DEF Shaped
  <2> HIDE DEF spot, q, said
  <2>3. /\ DOMAIN q = Fields /\ \A x \in Fields : x # "says" => q[x] = s[x]
        /\ q.says = said
    BY <2>1, <2>2 DEF Fields
  <2> QED
    BY <2>3 DEF said
<1>7. /\ DOMAIN q.says = Sayings /\ q.says["clashed"] = s.says["clashed"] \cup {spot}
      /\ \A word \in Sayings : word # "clashed" => q.says[word] = s.says[word]
  <2> HIDE DEF spot, q
  <2> QED
    BY <1>4, <1>6 DEF Shaped, Sayings
<1> HIDE DEF q
<1>8. /\ Shaped(q) /\ q.at = "rows" /\ q.i = k.i + 1 /\ q.entity = 0 /\ q.student = 1
      /\ q.commit = k.commit /\ q.batch = k.batch /\ q.export = k.export
      /\ q.todo = k.todo /\ q.known = k.known /\ q.fresh = k.fresh
      /\ q.names = k.names /\ q.emails = k.emails /\ q.busy = k.busy
      /\ q.pending = k.pending /\ q.after = k.after
      /\ q.says["written"] = k.says["written"]
      /\ q.says["clashed"] = k.says["clashed"] \cup {spot}
      /\ \A word \in Sayings : k.says[word] \subseteq q.says[word]
  <2>1. \A word \in Sayings : k.says[word] \subseteq q.says[word]
    BY <1>4, <1>7
  <2> QED
    BY <1>3, <1>4, <1>6, <1>7, <2>1 DEF Shaped, Fields
<1>9. SaysTyped(q)
  <2>1. spot \in Position
    BY <1>1, <1>2, AtTheRow
  <2>2. /\ q.at = s.at /\ q.known = s.known /\ q.fresh = s.fresh
    BY <1>4, <1>8
  <2> HIDE DEF spot
  <2>3. Countable(q)
    BY <1>5, <1>7 DEF SaysTyped, Countable, Sayings
  <2> QED
    BY <1>5, <1>7, <2>1, <2>2, <2>3 DEF SaysTyped, Sayings
<1>10. Unwritten /\ trail' \subseteq Runs
  BY <1>1 DEF Unwritten, tables, ImportInv, TypeOK
<1>11. call'[c] = q /\ \A d \in Runs : d # c => call'[d] = call[d]
  BY <1>1, TurnIs DEF ImportInv
<1>12. Grows(c)
  <2>1. Steady(k, call'[c]) /\ call'[c].at # "idle"
    BY <1>8, <1>11 DEF Steady
  <2> QED
    BY <1>2, <1>10, <1>11, <2>1, QuietGrows
<1>13. /\ \A p : p = spot => ClashedAt(c, p)'
       /\ Hopeless(k.export, File(c), k.i)
  <2>1. call'[c].export = call[c].export
    BY <1>8, <1>11
  <2> QED
    BY <1>1, <1>10, <1>12, <2>1, ClashesAt
<1>14. RowSettled(c)
  BY <1>10, <1>13, QuietSettles DEF Settled
<1>15. HandedOn(c)
  BY <1>1 DEF Having, HandedOn
<1>16. PICK y : y = q
  OBVIOUS
<1>17. /\ Turn(c, y) /\ SaysTyped(y)
       /\ \A p \in y.says["clashed"] : ClashedAt(c, p)' \/ p \in call[c].says["clashed"]
       /\ y.commit => /\ y.busy = call[c].busy /\ y.fresh = call[c].fresh
                      /\ y.pending = call[c].pending
                      /\ y.says["written"] = call[c].says["written"]
  BY <1>1, <1>8, <1>9, <1>13, <1>16
<1>18. /\ Shaped(y) /\ y.at = "rows" /\ y.i = call[c].i + 1 /\ y.entity = 0
       /\ y.student = 1 /\ y.commit = call[c].commit /\ y.batch = call[c].batch
       /\ y.export = call[c].export
       /\ y.todo = call[c].todo /\ y.known = call[c].known
       /\ y.names = call[c].names /\ y.emails = call[c].emails
       /\ call[c].busy \subseteq y.busy /\ y.after = call[c].after
       /\ \A word \in Sayings : call[c].says[word] \subseteq y.says[word]
  BY <1>8, <1>16
<1> QED
  BY <1>2, <1>10, <1>14, <1>15, <1>17, <1>18, PassKeeps

-----------------------------------------------------------------------------
(* A request moves on without a word.                                      *)

LEMMA StillKeeps ==
  ASSUME ImportInv, NEW c \in Runs, UNCHANGED <<tables, ledger, batch, trail>>,
         NEW q, Turn(c, q), Active(c), call[c].at \notin Having,
         Shaped(q), Going(q), q.at \in Working \ Having,
         q.commit = call[c].commit, q.batch = call[c].batch,
         q.export = call[c].export, q.after = call[c].after, q.says = call[c].says,
         q.known \cup q.fresh \subseteq Keys,
         Believing(c)', Judged(c)', Ours(c)', Settling(c)', Barred(c)'
  PROVE  ImportInv'
<1>1. Unwritten /\ trail' \subseteq Runs
  BY DEF Unwritten, tables, ImportInv, TypeOK
<1>2. call'[c] = q
  BY TurnIs DEF ImportInv
<1>3. Steady(call[c], q) /\ q.at # "idle"
  BY DEF Steady, Working
<1>4. SaysTyped(q)
  <2>1. SaysTyped(call[c])
    BY TypedSays
  <2> QED
    BY <2>1 DEF SaysTyped, Countable
<1>5. Holding(c)'
  BY <1>2 DEF Holding, Having
<1>6. /\ q.commit => q.says["written"] = call[c].says["written"]
      /\ \A p \in q.says["clashed"] :
           ClashedAt(c, p)' \/ p \in call[c].says["clashed"]
  OBVIOUS
<1> QED
  BY <1>1, <1>3, <1>4, <1>5, <1>6, QuietKeeps

(* What such a step leaves of what the others' tables say of it.           *)
LEMMA StillGrows ==
  ASSUME ImportInv, NEW c \in Runs, UNCHANGED <<tables, ledger, batch, trail>>,
         NEW q, Turn(c, q), Active(c), q.at # "idle",
         q.commit = call[c].commit, q.batch = call[c].batch,
         q.export = call[c].export, q.after = call[c].after, q.says = call[c].says
  PROVE  Grows(c) /\ Unwritten /\ call'[c] = q
<1>1. Unwritten
  BY DEF Unwritten, tables
<1>2. call'[c] = q /\ \A d \in Runs : d # c => call'[d] = call[d]
  BY TurnIs DEF ImportInv
<1>3. Steady(call[c], call'[c])
  BY <1>2 DEF Steady
<1> QED
  BY <1>1, <1>2, <1>3, QuietGrows

LEMMA GoesOn ==
  ASSUME ImportInv, NEW c \in Runs, UNCHANGED <<tables, ledger, batch, trail>>,
         AtRow(c), call[c].commit, NEW at \in {"match", "create"}, Go(c, at),
         Judged(c)'
  PROVE  ImportInv'
<1> DEFINE k == call[c]
           q == [k EXCEPT !.at = at]
<1>1. Turn(c, q)
  BY DEF Go
<1>2. Shaped(k) /\ Going(k) /\ k.at = "rows"
  BY Stands DEF ImportInv, AtRow
<1>3. /\ Shaped(q) /\ q.at = at /\ \A x \in Fields : x # "at" => q[x] = k[x]
  BY <1>2 DEF Shaped, Fields
<1> HIDE DEF q
<1>4. /\ q.commit = k.commit /\ q.batch = k.batch /\ q.export = k.export
      /\ q.after = k.after /\ q.says = k.says /\ q.todo = k.todo /\ q.i = k.i
      /\ q.known = k.known /\ q.fresh = k.fresh /\ q.names = k.names
      /\ q.emails = k.emails /\ q.busy = k.busy /\ q.pending = k.pending
      /\ q.entity = k.entity /\ q.student = k.student
  BY <1>3 DEF Fields
<1>5. Active(c) /\ q.at # "idle" /\ q.at \in Working \ Having /\ k.at \notin Having
  BY <1>2, <1>3 DEF Active, Working, Having
<1>6. Going(q)
  BY <1>2, <1>3, <1>4
     DEF Going, AtRow, File, InFile, Reading, AtARow, Having
<1>7. Grows(c) /\ Unwritten /\ call'[c] = q
  BY <1>1, <1>4, <1>5, StillGrows
<1>8. q.known \cup q.fresh \subseteq Keys
  BY <1>4 DEF ImportInv, TypeOK
<1>9. Believing(c)'
  <2>1. Believing(c)
    BY DEF ImportInv
  <2>2. /\ ledger' = ledger /\ users' = users
        /\ BusyByInstructor(sessions)' = BusyByInstructor(sessions)
    BY <1>7, SameTables DEF Unwritten
  <2>3. BusyByInstructor(sessions') = BusyByInstructor(sessions)
    BY <1>7 DEF Unwritten
  <2>4. \A name, u : First(name, u)' <=> First(name, u)
    BY <1>7, SameTables
  <2> QED
    BY <1>4, <1>7, <2>1, <2>2, <2>3, <2>4 DEF Believing
<1>10. Ours(c)'
  <2>1. ASSUME k.commit, File(c) = "sessions", NEW i \in DOMAIN sessions,
               sessions[i].by = c, Holds(sessions[i].who, sessions[i].status)
        PROVE  \/ [who |-> sessions[i].who, from |-> sessions[i].from,
                   to |-> sessions[i].to] \in k.busy
               \/ LostTheKey("sessions", i)'
    <3>1. i \in Made("sessions")
      BY <2>1 DEF ImportInv, Tables, Made, Entity
    <3>2. LostTheKey("sessions", i) => LostTheKey("sessions", i)'
      BY <1>7, <3>1, LostStays, FileNames
    <3> QED
      BY <1>2, <2>1, <3>2 DEF ImportInv, Ours
  <2>2. File(c)' = File(c) /\ sessions' = sessions
    BY <1>4, <1>7 DEF File, Unwritten
  <2> QED
    BY <1>4, <1>7, <2>1, <2>2 DEF Ours
<1>11. Settling(c)'
  <2>1. Settling(c) /\ k.at \in InFile
    BY <1>2 DEF ImportInv, InFile
  <2>2. /\ \A e, f, i : Settled(e, f, i)' <=> Settled(e, f, i)
        /\ \A e, f : AllSettled(e, f)' <=> AllSettled(e, f)
        /\ batch' = batch
    BY <1>7, SameTables DEF Unwritten
  <2>3. File(c)' = File(c) /\ Left(q) = Left(k)
    BY <1>4, <1>7 DEF File, Left
  <2> QED
    BY <1>4, <1>5, <1>7, <2>1, <2>2, <2>3 DEF Settling, Active
<1>12. Barred(c)'
  <2>1. ASSUME Repeating(c)', NEW i \in DOMAIN Rows(k.export, File(c))
        PROVE  Warned(c, i)'
    <3>1. Repeating(c)
      BY <1>2, <1>7, <2>1, AgainStays
    <3>2. Warned(c, i)
      BY <1>2, <2>1, <3>1 DEF ImportInv, Barred
    <3>3. Key(k.export, File(c), i) \in k.known \/ Forbidden(c, i, k.busy)
      BY <1>2, <3>2 DEF Warned
    <3>4. PICK y : y = q
      OBVIOUS
    <3>5. call'[c] = y /\ y.at \in {"match", "create"} /\ y.known = k.known
          /\ y.export = k.export /\ y.todo = k.todo
      BY <1>3, <1>4, <1>7, <3>4
    <3>6. \A b : Forbidden(c, i, b)' <=> Forbidden(c, i, b)
      BY <1>4, <1>7 DEF Forbidden, File
    <3>7. Forbidden(c, i, k.busy) => Forbidden(c, i, y.busy)'
      BY <1>4, <3>4, <3>6
    <3> QED
      BY <3>3, <3>5, <3>7 DEF Warned, File
  <2>2. File(c)' = File(c)
    BY <1>4, <1>7 DEF File
  <2> QED
    BY <1>4, <1>7, <2>1, <2>2 DEF Barred
<1> QED
  BY <1>1, <1>3, <1>4, <1>5, <1>6, <1>8, <1>9, <1>10, <1>11, <1>12, StillKeeps

LEMMA SameJudgement ==
  ASSUME NEW c,
         call'[c].export = call[c].export, call'[c].todo = call[c].todo,
         call'[c].i = call[c].i, call'[c].names = call[c].names,
         call'[c].emails = call[c].emails, call'[c].busy = call[c].busy
  PROVE  /\ File(c)' = File(c) /\ TheRow(c)' = TheRow(c) /\ TheKey(c)' = TheKey(c)
         /\ Instructor(c)' = Instructor(c) /\ (Matched(c)' <=> Matched(c))
         /\ (Busy(c)' <=> Busy(c))
         /\ (Readable(File(c), TheRow(c))' <=> Readable(File(c), TheRow(c)))
<1>1. File(c)' = File(c) /\ TheRow(c)' = TheRow(c) /\ TheKey(c)' = TheKey(c)
  BY DEF File, TheRow, TheKey
<1>2. Instructor(c)' = Instructor(c) /\ (Matched(c)' <=> Matched(c))
      /\ (Readable(File(c), TheRow(c))' <=> Readable(File(c), TheRow(c)))
  BY <1>1 DEF Instructor, Matched, Readable
<1>3. Busy(c)' <=> Busy(c)
  BY <1>1, <1>2 DEF Busy, Blocking
<1> QED
  BY <1>1, <1>2, <1>3

LEMMA GoneOn ==
  ASSUME ImportInv, NEW c \in Runs, NEW at, Go(c, at)
  PROVE  /\ call'[c].at = at /\ call'[c].known = call[c].known
         /\ call'[c].fresh = call[c].fresh
         /\ call'[c].export = call[c].export /\ call'[c].todo = call[c].todo
         /\ call'[c].i = call[c].i /\ call'[c].names = call[c].names
         /\ call'[c].emails = call[c].emails /\ call'[c].busy = call[c].busy
<1> DEFINE q == [call[c] EXCEPT !.at = at]
<1>1. call'[c] = q /\ Shaped(call[c])
  BY TurnIs DEF Go, ImportInv, Called
<1> QED
  BY <1>1 DEF Shaped, Fields

LEMMA Attempts ==
  ASSUME ImportInv, NEW c \in Runs, Attempt(c)
  PROVE  ImportInv'
<1>1. /\ Writable(c) /\ AtRow(c) /\ call[c].commit /\ Go(c, "create")
      /\ UNCHANGED <<tables, ledger, batch, trail>>
  BY DEF Attempt, Writable, AtNew
<1>2. /\ Readable(File(c), TheRow(c)) /\ ~Matched(c)
      /\ TheKey(c) \notin call[c].known \cup call[c].fresh
      /\ File(c) = "sessions" => ~Busy(c)
  BY <1>1 DEF Writable, AtNew
<1>3. /\ call'[c].at = "create" /\ call'[c].known = call[c].known
      /\ call'[c].fresh = call[c].fresh
      /\ call'[c].export = call[c].export /\ call'[c].todo = call[c].todo
      /\ call'[c].i = call[c].i /\ call'[c].names = call[c].names
      /\ call'[c].emails = call[c].emails /\ call'[c].busy = call[c].busy
  BY <1>1, GoneOn
<1>4. /\ File(c)' = File(c) /\ TheKey(c)' = TheKey(c) /\ (Matched(c)' <=> Matched(c))
      /\ (Busy(c)' <=> Busy(c))
      /\ (Readable(File(c), TheRow(c))' <=> Readable(File(c), TheRow(c)))
  BY <1>3, SameJudgement
<1>5. Judged(c)'
  BY <1>2, <1>3, <1>4 DEF Judged
<1> QED
  BY <1>1, <1>5, GoesOn

LEMMA Matches ==
  ASSUME ImportInv, NEW c \in Runs, MatchPerson(c), call[c].commit
  PROVE  ImportInv'
<1>1. /\ Matched(c) /\ AtRow(c) /\ Go(c, "match")
      /\ UNCHANGED <<tables, ledger, batch, trail>>
  BY DEF MatchPerson, AtNew
<1>2. /\ call'[c].at = "match"
      /\ call'[c].export = call[c].export /\ call'[c].todo = call[c].todo
      /\ call'[c].i = call[c].i /\ call'[c].names = call[c].names
      /\ call'[c].emails = call[c].emails /\ call'[c].busy = call[c].busy
  BY <1>1, GoneOn
<1>3. Matched(c)' <=> Matched(c)
  BY <1>2, SameJudgement
<1>4. Judged(c)'
  BY <1>1, <1>2, <1>3 DEF Judged
<1> QED
  BY <1>1, <1>4, GoesOn

LEMMA StillSettles ==
  ASSUME ImportInv, NEW c \in Runs, Unwritten, call[c].at \in InFile,
         NEW q, call'[c] = q, q.commit = call[c].commit, q.batch = call[c].batch,
         q.export = call[c].export, q.todo = call[c].todo, q.i = call[c].i
  PROVE  Settling(c)'
<1> DEFINE k == call[c]
<1>1. Settling(c) /\ Active(c)
  BY InFileIs DEF ImportInv
<1>2. /\ \A e, f, i : Settled(e, f, i)' <=> Settled(e, f, i)
      /\ \A e, f : AllSettled(e, f)' <=> AllSettled(e, f)
      /\ batch' = batch
  BY SameTables DEF Unwritten
<1>3. File(c)' = File(c) /\ Left(q) = Left(k)
  BY DEF File, Left
<1> QED
  BY <1>1, <1>2, <1>3 DEF Settling, Active

(* A commit that repeats another finds every row of its file settled.      *)
LEMMA AlreadySettled ==
  ASSUME ImportInv, NEW c \in Runs, Repeating(c), call[c].at \in InFile
  PROVE  AllSettled(call[c].export, File(c))
<1> DEFINE k == call[c]
<1>1. PICK d \in Runs : Again(d, c)
  BY DEF Repeating
<1>2. /\ k.commit /\ call[d].commit /\ d \in k.after
      /\ batch[call[d].batch].export = batch[k.batch].export
      /\ batch[k.batch].files \subseteq batch[call[d].batch].files
  BY <1>1 DEF Again
<1>3. call[d].at = "done" /\ call[d].todo = <<>>
  <2>1. call[d].at = "done" /\ Going(call[d])
    BY <1>2 DEF ImportInv, Called
  <2> QED
    BY <1>2, <2>1 DEF Going
<1>4. Left(call[d]) = {}
  BY <1>3 DEF Left, Items
<1>5. /\ call[d].export = batch[call[d].batch].export
      /\ \A f \in batch[call[d].batch].files : AllSettled(call[d].export, f)
  BY <1>2, <1>3, <1>4 DEF ImportInv, Settling
<1>6. /\ k.export = batch[k.batch].export /\ Left(k) \subseteq batch[k.batch].files
  BY <1>2, InFileIs DEF ImportInv, Settling, Active
<1>7. File(c) \in Left(k)
  <2>1. k.todo \in Seq(FileName) /\ k.todo # <<>>
    BY InFileIs
  <2>2. 1 \in 1 .. Len(k.todo) /\ File(c) = k.todo[1]
    BY <2>1 DEF File
  <2> QED
    BY <2>2 DEF Left, Items
<1> QED
  BY <1>2, <1>5, <1>6, <1>7

LEMMA LooksUpLedger ==
  ASSUME ImportInv, NEW c \in Runs, LedgerFor(c)
  PROVE  ImportInv'
<1> DEFINE k == call[c]
           known == {key \in DOMAIN ledger : key[1] = File(c)}
           q == [k EXCEPT !.at = "lookup", !.fresh = {}, !.known = known]
<1>1. /\ k.at = "ledger" /\ Turn(c, q)
      /\ UNCHANGED <<tables, ledger, batch, trail>>
  BY DEF LedgerFor
<1>2. Shaped(k) /\ Going(k) /\ k.at \in InFile /\ k.at \notin Having /\ Active(c)
  BY <1>1, Stands DEF ImportInv, InFile, Reading, Having, Active, Working
<1>3. /\ DOMAIN q = Fields /\ q.at = "lookup" /\ q.fresh = {} /\ q.known = known
      /\ \A x \in Fields : x \notin {"at", "fresh", "known"} => q[x] = k[x]
  <2> HIDE DEF known
  <2> QED
    BY <1>2 DEF Shaped, Fields
<1> HIDE DEF q
<1>4. /\ q.commit = k.commit /\ q.batch = k.batch /\ q.export = k.export
      /\ q.after = k.after /\ q.says = k.says /\ q.todo = k.todo /\ q.i = k.i
      /\ q.names = k.names
      /\ q.emails = k.emails /\ q.busy = k.busy /\ q.pending = k.pending
      /\ q.entity = k.entity /\ q.student = k.student
  BY <1>3 DEF Fields
<1>5. Shaped(q) /\ q.at # "idle" /\ q.at \in Working \ Having
  BY <1>2, <1>3, <1>4 DEF Shaped, Working, Having
<1>6. Going(q)
  BY <1>1, <1>2, <1>3, <1>4
     DEF Going, InFile, Reading, AtARow, Having
<1>7. Grows(c) /\ Unwritten /\ call'[c] = q
  BY <1>1, <1>2, <1>4, <1>5, StillGrows
<1>8. q.known \cup q.fresh \subseteq Keys
  BY <1>3 DEF ImportInv, TypeOK
<1>9. Believing(c)'
  <2>1. /\ ledger' = ledger /\ users' = users /\ sessions' = sessions
    BY <1>7 DEF Unwritten
  <2>2. BusyByInstructor(sessions') = BusyByInstructor(sessions)
    BY <2>1
  <2>3. \A name, u : First(name, u)' <=> First(name, u)
    BY <1>7, SameTables
  <2> QED
    BY <1>3, <1>4, <1>7, <2>1, <2>2, <2>3 DEF Believing, ImportInv
<1>10. Judged(c)' /\ Ours(c)'
  BY <1>3, <1>7 DEF Judged, Ours, AtARow, Having
<1>11. Settling(c)'
  BY <1>2, <1>4, <1>7, StillSettles
<1>12. Barred(c)'
  <2>1. ASSUME Repeating(c)', NEW i \in DOMAIN Rows(k.export, File(c))
        PROVE  Warned(c, i)'
    <3>1. Repeating(c)
      BY <1>1, <1>7, <2>1, AgainStays
    <3>2. Settled(k.export, File(c), i)
      BY <1>2, <2>1, <3>1, AlreadySettled DEF AllSettled
    <3>3. Key(k.export, File(c), i)[1] = File(c)
      BY <1>2, <2>1, InFileIs, KeyIs
    <3>4. Key(k.export, File(c), i) \in q.known \/ Hopeless(k.export, File(c), i)
      BY <1>3, <3>2, <3>3 DEF Settled
    <3>5. PICK y : y = q
      OBVIOUS
    <3>6. /\ call'[c] = y /\ y.at = "lookup" /\ y.known = q.known
          /\ y.export = k.export /\ File(c)' = File(c)
      BY <1>3, <1>4, <1>7, <3>5 DEF File
    <3>7. \A e, f : Hopeless(e, f, i)' <=> Hopeless(e, f, i)
      BY <1>7, SameTables
    <3>8. \A e, f : e = y.export /\ f = File(c) /\ Hopeless(k.export, File(c), i)
                    => Hopeless(e, f, i)'
      BY <3>6, <3>7
    <3> QED
      BY <3>4, <3>6, <3>8 DEF Warned
  <2>2. File(c)' = File(c)
    BY <1>4, <1>7 DEF File
  <2> QED
    BY <1>4, <1>7, <2>1, <2>2 DEF Barred
<1> QED
  BY <1>1, <1>2, <1>4, <1>5, <1>6, <1>8, <1>9, <1>10, <1>11, <1>12, StillKeeps

(* What a commit reads tells it of every row there is no hope for.         *)
LEMMA Foretold ==
  ASSUME ImportInv, NEW c \in Runs, NEW e, NEW f, NEW i, Hopeless(e, f, i),
         NEW r, r = Rows(e, f)[i], NEW names, NEW emails, NEW busy,
         f = "people" => emails = ByEmail(users),
         f = "sessions" => /\ \A name \in DOMAIN names : First(name, names[name])
                           /\ \A n \in DOMAIN users : users[n].name \in DOMAIN names,
         f = "sessions" => BusyByInstructor(sessions) \subseteq busy
  PROVE  \/ ~Readable(f, r)
         \/ /\ f = "people"
            /\ \/ ~r.valid
               \/ r.email # None /\ r.email \in DOMAIN emails
         \/ /\ f = "sessions" /\ r.status = "blocking" /\ r.instructor \in DOMAIN names
            /\ Occupied(names[r.instructor], r, busy)
<1>1. CASE ~Readable(f, r)
  BY <1>1
<1>2. CASE f = "people" /\ (~r.valid \/ (r.email # None /\ \E u \in DOMAIN users : users[u].email = r.email))
  BY <1>2, ByEmailIs
<1>3. CASE /\ f = "sessions" /\ r.status = "blocking"
           /\ \E w \in DOMAIN users : /\ First(r.instructor, w)
                                      /\ Occupied(w, r, BusyByInstructor(sessions))
  <2>1. PICK w \in DOMAIN users : /\ First(r.instructor, w)
                                  /\ Occupied(w, r, BusyByInstructor(sessions))
    BY <1>3
  <2>2. r.instructor \in DOMAIN names /\ First(r.instructor, names[r.instructor])
    BY <1>3, <2>1 DEF First
  <2>3. users \in Seq(User)
    BY DEF ImportInv, TypeOK
  <2>4. names[r.instructor] = w
    BY <2>1, <2>2, <2>3, FirstOnce
  <2>5. Occupied(w, r, busy)
    BY <1>3, <2>1 DEF Occupied
  <2> QED
    BY <1>3, <2>2, <2>4, <2>5
<1> QED
  BY <1>1, <1>2, <1>3 DEF Hopeless

LEMMA ReadsPeople ==
  ASSUME ImportInv, NEW c \in Runs, ReadPeople(c)
  PROVE  ImportInv'
<1> DEFINE k == call[c]
           at == IF File(c) = "sessions" THEN "busy" ELSE "rows"
           emails == IF File(c) = "people" THEN ByEmail(users) ELSE <<>>
           names == IF File(c) = "people" THEN <<>>
                    ELSE IF File(c) = "sessions"
                    THEN StandIns(k.pending, ByName(users)) ELSE ByName(users)
           q == [k EXCEPT !.at = at, !.emails = emails, !.names = names]
<1>1. /\ k.at = "lookup" /\ Turn(c, q)
      /\ UNCHANGED <<tables, ledger, batch, trail>>
  BY DEF ReadPeople
<1>2. Shaped(k) /\ Going(k) /\ k.at \in InFile /\ k.at \notin Having /\ Active(c)
  BY <1>1, Stands DEF ImportInv, InFile, Reading, Having, Active, Working
<1>3. /\ DOMAIN q = Fields /\ q.at = at /\ q.emails = emails /\ q.names = names
      /\ \A x \in Fields : x \notin {"at", "emails", "names"} => q[x] = k[x]
  <2> HIDE DEF at, emails, names
  <2> QED
    BY <1>2 DEF Shaped, Fields
<1> HIDE DEF q
<1>4. /\ q.commit = k.commit /\ q.batch = k.batch /\ q.export = k.export
      /\ q.after = k.after /\ q.says = k.says /\ q.todo = k.todo /\ q.i = k.i
      /\ q.known = k.known /\ q.fresh = k.fresh
      /\ q.busy = k.busy /\ q.pending = k.pending
      /\ q.entity = k.entity /\ q.student = k.student
  <2> HIDE DEF at, emails, names
  <2> QED
    BY <1>3 DEF Fields
<1>5. Shaped(q) /\ q.at # "idle" /\ q.at \in Working \ Having
      /\ q.at \in {"busy", "rows"} /\ (q.at = "busy" <=> File(c) = "sessions")
  BY <1>2, <1>3, <1>4 DEF Shaped, Working, Having
<1> HIDE DEF at
<1>6. Going(q)
  BY <1>1, <1>2, <1>4, <1>5
     DEF Going, InFile, Reading, AtARow, Having, File
<1>7. Grows(c) /\ Unwritten /\ call'[c] = q
  BY <1>1, <1>2, <1>4, <1>5, StillGrows
<1>8. q.known \cup q.fresh \subseteq Keys
  BY <1>4 DEF ImportInv, TypeOK
<1>9. k.commit => /\ \A name \in DOMAIN names : First(name, names[name])
                  /\ \A mail \in DOMAIN emails : emails[mail] \in DOMAIN users
                  /\ File(c) = "sessions" =>
                       \A n \in DOMAIN users : users[n].name \in DOMAIN names
  <2>1. ASSUME k.commit PROVE k.pending = <<>>
    BY <1>2, <2>1 DEF Going
  <2>2. users \in Seq(User)
    BY DEF ImportInv, TypeOK
  <2>3. \A mail \in DOMAIN emails : emails[mail] \in DOMAIN users
    BY ByEmailIn
  <2>4. CASE File(c) = "people"
    BY <2>3, <2>4
  <2>5. CASE File(c) = "sessions"
    BY <2>1, <2>2, <2>3, <2>5, ByNameIs, NoStandIns
  <2>6. CASE File(c) \notin {"people", "sessions"}
    BY <2>2, <2>3, <2>6, ByNameIs
  <2> QED
    BY <2>4, <2>5, <2>6
<1>10. Believing(c)'
  <2>1. /\ ledger' = ledger /\ users' = users /\ sessions' = sessions
    BY <1>7 DEF Unwritten
  <2>2. BusyByInstructor(sessions') = BusyByInstructor(sessions)
    BY <2>1
  <2>3. \A name, u : First(name, u)' <=> First(name, u)
    BY <1>7, SameTables
  <2> HIDE DEF emails, names
  <2> QED
    BY <1>3, <1>4, <1>7, <1>9, <2>1, <2>2, <2>3 DEF Believing, ImportInv
<1>11. Judged(c)'
  BY <1>5, <1>7 DEF Judged
<1>12. Ours(c)'
  <2>1. File(c)' = File(c)
    BY <1>4, <1>7 DEF File
  <2> QED
    BY <1>5, <1>7, <2>1 DEF Ours, AtARow, Having
<1>13. Settling(c)'
  BY <1>2, <1>4, <1>7, StillSettles
<1>14. Barred(c)'
  <2>1. ASSUME Repeating(c)', NEW i \in DOMAIN Rows(k.export, File(c))
        PROVE  Warned(c, i)'
    <3>1. Repeating(c) /\ k.commit
      <4>1. Repeating(c)
        BY <1>1, <1>7, <2>1, AgainStays
      <4> QED
        BY <4>1 DEF Repeating, Again
    <3>2. Warned(c, i)
      BY <1>1, <2>1, <3>1 DEF ImportInv, Barred
    <3>3. Key(k.export, File(c), i) \in k.known \/ Hopeless(k.export, File(c), i)
      BY <1>1, <3>2 DEF Warned
    <3>4. PICK y : y = q
      OBVIOUS
    <3>5. /\ call'[c] = y /\ y.at = q.at /\ y.known = k.known
          /\ y.export = k.export /\ File(c)' = File(c)
          /\ y.names = names /\ y.emails = emails /\ y.busy = k.busy
      BY <1>3, <1>4, <1>7, <3>4 DEF File
    <3> DEFINE r == Rows(k.export, File(c))[i]
    <3>6. ASSUME Hopeless(k.export, File(c), i), NEW busy,
                 File(c) = "sessions" => BusyByInstructor(sessions) \subseteq busy
          PROVE  \/ ~Readable(File(c), r)
                 \/ /\ File(c) = "people"
                    /\ \/ ~r.valid
                       \/ r.email # None /\ r.email \in DOMAIN emails
                 \/ /\ File(c) = "sessions" /\ r.status = "blocking"
                    /\ r.instructor \in DOMAIN names
                    /\ Occupied(names[r.instructor], r, busy)
      <4>1. File(c) = "people" => emails = ByEmail(users)
        OBVIOUS
      <4> HIDE DEF emails, names
      <4> QED
        BY <1>9, <3>1, <3>6, <4>1, Foretold
    <3>7. ASSUME Hopeless(k.export, File(c), i), NEW busy,
                 File(c) = "sessions" => BusyByInstructor(sessions) \subseteq busy
          PROVE  Forbidden(c, i, busy)'
      <4>1. /\ call'[c].names = names /\ call'[c].emails = emails
            /\ Rows(call'[c].export, File(c)')[i] = r
        BY <3>5
      <4> HIDE DEF emails, names, r
      <4>2. \/ ~Readable(File(c), r)
            \/ /\ File(c) = "people"
               /\ \/ ~r.valid
                  \/ r.email # None /\ r.email \in DOMAIN emails
            \/ /\ File(c) = "sessions" /\ r.status = "blocking"
               /\ r.instructor \in DOMAIN names
               /\ Occupied(names[r.instructor], r, busy)
        BY <3>6, <3>7
      <4> QED
        BY <3>5, <4>1, <4>2 DEF Forbidden
    <3>8. CASE Key(k.export, File(c), i) \in k.known
      BY <3>5, <3>8 DEF Warned
    <3>9. CASE Hopeless(k.export, File(c), i)
      <4>1. CASE File(c) = "sessions"
        <5>1. \A b : b = BusyByInstructor(sessions) => Forbidden(c, i, b)'
          BY <3>7, <3>9
        <5>2. y.at = "busy" /\ BusyByInstructor(sessions)' = BusyByInstructor(sessions)
          BY <1>5, <1>7, <3>5, <4>1, SameTables
        <5> QED
          BY <3>5, <5>1, <5>2 DEF Warned
      <4>2. CASE File(c) # "sessions"
        <5>1. \A b : Forbidden(c, i, b)'
          BY <3>7, <3>9, <4>2
        <5>2. y.at = "rows"
          BY <1>5, <3>5, <4>2
        <5> QED
          BY <3>5, <5>1, <5>2 DEF Warned
      <4> QED
        BY <4>1, <4>2
    <3> QED
      BY <3>3, <3>8, <3>9
  <2>2. File(c)' = File(c)
    BY <1>4, <1>7 DEF File
  <2> QED
    BY <1>4, <1>7, <2>1, <2>2 DEF Barred
<1> QED
  BY <1>1, <1>2, <1>4, <1>5, <1>6, <1>8, <1>10, <1>11, <1>12, <1>13, <1>14, StillKeeps

LEMMA ReadsBusy ==
  ASSUME ImportInv, NEW c \in Runs, ReadBusy(c)
  PROVE  ImportInv'
<1> DEFINE k == call[c]
           busy == BusyByInstructor(sessions)
           q == [k EXCEPT !.at = "rows", !.busy = busy]
<1>1. /\ k.at = "busy" /\ Turn(c, q)
      /\ UNCHANGED <<tables, ledger, batch, trail>>
  BY DEF ReadBusy
<1>2. Shaped(k) /\ Going(k) /\ k.at \in InFile /\ k.at \notin Having /\ Active(c)
  BY <1>1, Stands DEF ImportInv, InFile, Reading, Having, Active, Working
<1>3. /\ DOMAIN q = Fields /\ q.at = "rows" /\ q.busy = busy
      /\ \A x \in Fields : x \notin {"at", "busy"} => q[x] = k[x]
  <2> HIDE DEF busy
  <2> QED
    BY <1>2 DEF Shaped, Fields
<1> HIDE DEF q
<1>4. /\ q.commit = k.commit /\ q.batch = k.batch /\ q.export = k.export
      /\ q.after = k.after /\ q.says = k.says /\ q.todo = k.todo /\ q.i = k.i
      /\ q.known = k.known /\ q.fresh = k.fresh /\ q.names = k.names
      /\ q.emails = k.emails /\ q.pending = k.pending
      /\ q.entity = k.entity /\ q.student = k.student
  <2> HIDE DEF busy
  <2> QED
    BY <1>3 DEF Fields
<1>5. Shaped(q) /\ q.at # "idle" /\ q.at \in Working \ Having
  BY <1>2, <1>3, <1>4 DEF Shaped, Working, Having
<1>6. Going(q)
  BY <1>1, <1>2, <1>3, <1>4
     DEF Going, InFile, Reading, AtARow, Having
<1>7. Grows(c) /\ Unwritten /\ call'[c] = q
  BY <1>1, <1>2, <1>4, <1>5, StillGrows
<1>8. q.known \cup q.fresh \subseteq Keys
  BY <1>4 DEF ImportInv, TypeOK
<1>9. /\ ledger' = ledger /\ users' = users /\ sessions' = sessions
      /\ BusyByInstructor(sessions') = busy /\ BusyByInstructor(sessions)' = busy
  BY <1>7 DEF Unwritten
<1>10. Believing(c)'
  <2>1. \A name, u : First(name, u)' <=> First(name, u)
    BY <1>7, SameTables
  <2> HIDE DEF busy
  <2> QED
    BY <1>3, <1>4, <1>7, <1>9, <2>1 DEF Believing, ImportInv
<1>11. Judged(c)'
  BY <1>3, <1>7 DEF Judged
<1>12. Ours(c)'
  <2>1. ASSUME NEW i \in DOMAIN sessions,
               Holds(sessions[i].who, sessions[i].status)
        PROVE  [who |-> sessions[i].who, from |-> sessions[i].from,
                to |-> sessions[i].to] \in busy
    BY <2>1 DEF BusyByInstructor
  <2> HIDE DEF busy
  <2> QED
    BY <1>3, <1>7, <1>9, <2>1 DEF Ours
<1>13. Settling(c)'
  BY <1>2, <1>4, <1>7, StillSettles
<1>14. Barred(c)'
  <2>1. ASSUME Repeating(c)', NEW i \in DOMAIN Rows(k.export, File(c))
        PROVE  Warned(c, i)'
    <3>1. Repeating(c)
      BY <1>1, <1>7, <2>1, AgainStays
    <3>2. Warned(c, i)
      BY <1>1, <2>1, <3>1 DEF ImportInv, Barred
    <3>3. Key(k.export, File(c), i) \in k.known \/ Forbidden(c, i, busy)
      BY <1>1, <3>2 DEF Warned
    <3>4. PICK y : y = q
      OBVIOUS
    <3>5. /\ call'[c] = y /\ y.at = "rows" /\ y.known = k.known
          /\ y.export = k.export /\ File(c)' = File(c)
          /\ y.names = k.names /\ y.emails = k.emails /\ y.busy = busy
      <4> HIDE DEF busy
      <4> QED
        BY <1>3, <1>4, <1>7, <3>4 DEF File
    <3>6. \A b : Forbidden(c, i, b)' <=> Forbidden(c, i, b)
      BY <3>5 DEF Forbidden
    <3>7. Forbidden(c, i, busy) => Forbidden(c, i, y.busy)'
      BY <3>5, <3>6
    <3> HIDE DEF busy
    <3> QED
      BY <3>3, <3>5, <3>7 DEF Warned
  <2>2. File(c)' = File(c)
    BY <1>4, <1>7 DEF File
  <2> QED
    BY <1>4, <1>7, <2>1, <2>2 DEF Barred
<1> QED
  BY <1>1, <1>2, <1>4, <1>5, <1>6, <1>8, <1>10, <1>11, <1>12, <1>13, <1>14, StillKeeps

-----------------------------------------------------------------------------
(* The end of a file, and of a request.                                    *)

LEMMA ItemsOfTail ==
  ASSUME NEW S, NEW t \in Seq(S), t # <<>>
  PROVE  /\ Tail(t) \in Seq(S) /\ Items(t) = {Head(t)} \cup Items(Tail(t))
         /\ (Len(t) > 1) <=> Tail(t) # <<>>
<1> DEFINE n == Len(t)
           u == Tail(t)
<1>1. /\ n \in Nat \ {0} /\ u \in Seq(S) /\ Len(u) = n - 1 /\ Head(t) = t[1]
      /\ \A i \in 1 .. n - 1 : u[i] = t[i + 1]
  BY HeadTailProperties, EmptySeq
<1> HIDE DEF n, u
<1>2. (n > 1) <=> u # <<>>
  BY <1>1, EmptySeq
<1>3. {t[i] : i \in 1 .. n} = {t[1]} \cup {u[i] : i \in 1 .. n - 1}
  <2>1. ASSUME NEW i \in 1 .. n PROVE t[i] \in {t[1]} \cup {u[j] : j \in 1 .. n - 1}
    <3>1. CASE i = 1
      BY <3>1
    <3>2. CASE i # 1
      <4>1. i - 1 \in 1 .. n - 1 /\ u[i - 1] = t[i]
        BY <1>1, <3>2
      <4> QED
        BY <4>1
    <3> QED
      BY <3>1, <3>2
  <2>2. ASSUME NEW j \in 1 .. n - 1 PROVE \E i \in 1 .. n : u[j] = t[i]
    <3>1. j + 1 \in 1 .. n /\ u[j] = t[j + 1]
      BY <1>1
    <3> QED
      BY <3>1
  <2>3. 1 \in 1 .. n
    BY <1>1
  <2> QED
    BY <2>1, <2>2, <2>3
<1> QED
  BY <1>1, <1>2, <1>3 DEF n, u, Items

LEMMA FileEnds ==
  ASSUME ImportInv, NEW c \in Runs, NextFile(c)
  PROVE  ImportInv'
<1> DEFINE k == call[c]
           at == IF Len(k.todo) > 1 THEN "ledger" ELSE "report"
           left == Tail(k.todo)
           q == [k EXCEPT !.todo = left, !.i = 1, !.at = at]
<1>1. /\ k.at = "rows" /\ Turn(c, q) /\ k.i > Len(Rows(k.export, File(c)))
      /\ UNCHANGED <<tables, ledger, batch, trail>>
  <2>1. Turn(c, [call[c] EXCEPT !.todo = Tail(@), !.i = 1, !.at = at])
    BY DEF NextFile
  <2> QED
    BY <2>1 DEF NextFile
<1>2. Shaped(k) /\ Going(k) /\ k.at \in InFile /\ k.at \notin Having /\ Active(c)
  BY <1>1, Stands DEF ImportInv, InFile, Reading, Having, Active, Working
<1>3. /\ DOMAIN q = Fields /\ q.at = at /\ q.todo = left /\ q.i = 1
      /\ \A x \in Fields : x \notin {"at", "todo", "i"} => q[x] = k[x]
  <2> HIDE DEF at, left
  <2> QED
    BY <1>2 DEF Shaped, Fields
<1> HIDE DEF q
<1>4. /\ q.commit = k.commit /\ q.batch = k.batch /\ q.export = k.export
      /\ q.after = k.after /\ q.says = k.says
      /\ q.known = k.known /\ q.fresh = k.fresh /\ q.names = k.names
      /\ q.emails = k.emails /\ q.pending = k.pending /\ q.busy = k.busy
      /\ q.entity = k.entity /\ q.student = k.student
  <2> HIDE DEF at, left
  <2> QED
    BY <1>3 DEF Fields
<1>5. /\ left \in Seq(FileName) /\ Left(k) = {File(c)} \cup Items(left)
      /\ (at = "ledger" <=> left # <<>>) /\ at \in {"ledger", "report"}
  <2>1. k.todo \in Seq(FileName) /\ k.todo # <<>>
    BY <1>2, InFileIs
  <2> QED
    BY <2>1, ItemsOfTail DEF Left, File
<1> HIDE DEF left, at
<1>6. Shaped(q) /\ q.at # "idle" /\ q.at \in Working \ Having
  BY <1>2, <1>3, <1>4, <1>5 DEF Shaped, Working, Having
<1>7. Going(q)
  BY <1>1, <1>2, <1>3, <1>4, <1>5
     DEF Going, InFile, Reading, AtARow, Having
<1>8. Grows(c) /\ Unwritten /\ call'[c] = q
  BY <1>1, <1>2, <1>4, <1>6, StillGrows
<1>9. q.known \cup q.fresh \subseteq Keys
  BY <1>4 DEF ImportInv, TypeOK
<1>10. Believing(c)'
  <2>1. /\ ledger' = ledger /\ users' = users /\ sessions' = sessions
    BY <1>8 DEF Unwritten
  <2>2. BusyByInstructor(sessions') = BusyByInstructor(sessions)
    BY <2>1
  <2>3. \A name, u : First(name, u)' <=> First(name, u)
    BY <1>8, SameTables
  <2> QED
    BY <1>4, <1>8, <2>1, <2>2, <2>3 DEF Believing, ImportInv
<1>11. Judged(c)' /\ Ours(c)' /\ Barred(c)'
  BY <1>3, <1>5, <1>8 DEF Judged, Ours, Barred, AtARow, Having
<1>12. Settling(c)'
  <2>1. Settling(c)
    BY DEF ImportInv
  <2>2. /\ \A e, f, i : Settled(e, f, i)' <=> Settled(e, f, i)
        /\ \A e, f : AllSettled(e, f)' <=> AllSettled(e, f)
        /\ batch' = batch
    BY <1>8, SameTables DEF Unwritten
  <2>3. ASSUME k.commit PROVE AllSettled(k.export, File(c))
    <3>1. \A j \in 1 .. k.i - 1 : Settled(k.export, File(c), j)
      BY <1>2, <2>1, <2>3 DEF Settling, Active
    <3>2. DOMAIN Rows(k.export, File(c)) \subseteq 1 .. k.i - 1
      BY <1>1, <1>2, InFileIs
    <3> QED
      BY <3>1, <3>2 DEF AllSettled
  <2>4. ASSUME k.commit
        PROVE  /\ k.export = batch[k.batch].export
               /\ Left(q) \subseteq batch[k.batch].files
               /\ \A f \in batch[k.batch].files \ Left(q) : AllSettled(k.export, f)
    <3>1. /\ k.export = batch[k.batch].export
          /\ Left(k) \subseteq batch[k.batch].files
          /\ \A f \in batch[k.batch].files \ Left(k) : AllSettled(k.export, f)
      BY <1>2, <2>1, <2>4 DEF Settling, Active
    <3>2. Left(q) = Items(left)
      BY <1>3 DEF Left
    <3> QED
      BY <1>5, <2>3, <2>4, <3>1, <3>2
  <2>5. \A j \in 1 .. q.i - 1 : FALSE
    BY <1>3
  <2> QED
    BY <1>4, <1>8, <2>2, <2>4, <2>5 DEF Settling
<1> QED
  BY <1>1, <1>2, <1>4, <1>6, <1>7, <1>9, <1>10, <1>11, <1>12, StillKeeps

LEMMA EndKeeps ==
  ASSUME ImportInv, NEW c \in Runs, Unwritten, trail' \subseteq Runs,
         NEW at \in Ended, End(c, at), Active(c),
         at = "done" => call[c].at = "event",
         at = "failed" => call[c].at \notin Having
  PROVE  ImportInv'
<1> DEFINE k == call[c]
           q == Ending(c, at)
<1>1. Turn(c, q)
  BY DEF End, Ending
<1>2. Shaped(k) /\ Going(k)
  BY Stands DEF ImportInv
<1>3. /\ Shaped(q)
      /\ q.at = at /\ q.entity = k.entity
      /\ q.commit = k.commit /\ q.batch = k.batch
      /\ q.export = k.export /\ q.todo = k.todo
      /\ q.says = k.says /\ q.after = k.after
      /\ q.i = 1 /\ q.student = 1 /\ q.known = {} /\ q.fresh = {}
      /\ q.names = <<>> /\ q.emails = <<>> /\ q.busy = {} /\ q.pending = <<>>
  BY <1>2, EndIs
<1> HIDE DEF q
<1>4. Steady(k, q) /\ q.at # "idle"
  BY <1>3 DEF Steady, Ended
<1>5. Going(q)
  BY <1>2, <1>3
     DEF Going, InFile, Reading, AtARow, Having, Ended, Working, Active
<1>6. SaysTyped(q)
  <2>1. SaysTyped(k)
    BY TypedSays
  <2> QED
    BY <1>3, <2>1 DEF SaysTyped, Ended, Countable
<1>7. call'[c] = q
  BY <1>1, TurnIs DEF ImportInv
<1>8. q.at \notin Working
  BY <1>3 DEF Working, Ended
<1>9. Believing(c)'
  BY <1>3, <1>7 DEF Believing
<1>10. Judged(c)' /\ Holding(c)' /\ Ours(c)' /\ Barred(c)'
  BY <1>7, <1>8 DEF Judged, Holding, Ours, Barred, Having, AtARow, Working
<1>11. Settling(c)'
  <2>1. CASE at # "done"
    BY <1>3, <1>7, <1>8, <2>1 DEF Settling
  <2>2. CASE at = "done"
    <3>1. k.at = "event" /\ k.at \in Working
      BY <2>2 DEF Working
    <3>2. k.commit =>
            /\ k.export = batch[k.batch].export
            /\ Left(k) \subseteq batch[k.batch].files
            /\ \A f \in batch[k.batch].files \ Left(k) : AllSettled(k.export, f)
      BY <3>1 DEF ImportInv, Settling
    <3>3. Left(q) = Left(k) /\ batch' = batch
      BY <1>3 DEF Left, Unwritten
    <3>4. \A e, f : AllSettled(e, f)' <=> AllSettled(e, f)
      BY SameTables
    <3>5. q.at \notin InFile
      BY <1>8 DEF InFile, Reading, AtARow, Having, Working
    <3> QED
      BY <1>3, <1>7, <3>2, <3>3, <3>4, <3>5 DEF Settling
  <2> QED
    BY <2>1, <2>2
<1>12. /\ q.commit => q.says["written"] = k.says["written"]
       /\ \A p \in q.says["clashed"] : ClashedAt(c, p)' \/ p \in k.says["clashed"]
       /\ \/ k.at \notin Having
          \/ q.entity = k.entity /\ q.todo = k.todo /\ q.at # "done"
          \/ \A f, i : f = File(c) /\ i = k.entity => WholeAt(f, i)'
  BY <1>3 DEF Having
<1> QED
  BY <1>1, <1>3, <1>4, <1>5, <1>6, <1>9, <1>10, <1>11, <1>12, QuietKeeps

LEMMA Ends ==
  ASSUME ImportInv, NEW c \in Runs, RecordCommit(c) \/ Stop(c) \/ MatchFails(c)
  PROVE  ImportInv'
<1>1. CASE RecordCommit(c)
  BY <1>1, EndKeeps DEF RecordCommit, Unwritten, tables, Ended, Active, Working,
     ImportInv, TypeOK
<1>2. CASE Stop(c)
  BY <1>2, EndKeeps DEF Stop, Unwritten, tables, Ended, ImportInv, TypeOK
<1>3. CASE MatchFails(c)
  BY <1>3, EndKeeps DEF MatchFails, Unwritten, tables, Ended, Active, Working, Having,
     ImportInv, TypeOK
<1> QED
  BY <1>1, <1>2, <1>3

-----------------------------------------------------------------------------
(* A step that writes.                                                     *)

TablesTyped ==
  /\ users \in Seq(User) /\ sessions \in Seq(Session) /\ series \in Seq(Template)
  /\ DOMAIN ledger \subseteq Keys
  /\ \A key \in DOMAIN ledger : ledger[key] \in DOMAIN Entity(key[1])
  /\ \A i \in DOMAIN sessions :
       /\ sessions[i].who # None => sessions[i].who \in DOMAIN users
       /\ sessions[i].roster \subseteq DOMAIN users
       /\ sessions[i].by \in Runs => sessions[i].source # None

LEMMA AreTyped ==
  ASSUME ImportInv
  PROVE  TablesTyped
BY DEF ImportInv, TypeOK, Tables, TablesTyped

LEMMA KeyFile ==
  ASSUME NEW key \in Keys
  PROVE  key[1] \in FileName
<1> DEFINE K(e, f) == {Key(e, f, i) : i \in DOMAIN Rows(e, f)}
<1>1. Keys = UNION {K(e, f) : e \in Exports, f \in FileName}
  BY DEF Keys
<1> HIDE DEF K
<1>2. PICK e \in Exports, f \in FileName : key \in K(e, f)
  BY <1>1
<1>3. PICK i \in DOMAIN Rows(e, f) : key = Key(e, f, i)
  BY <1>2 DEF K
<1> QED
  BY <1>3 DEF Key

LEMMA EntityIs ==
  /\ Entity("people") = users /\ Entity("sessions") = sessions
  /\ Entity("series") = series
BY DEF Entity

LEMMA MadeIs ==
  /\ Made("people") = {i \in DOMAIN users : users[i].from # None}
  /\ Made("sessions") = {i \in DOMAIN sessions : sessions[i].source # None}
  /\ Made("series") = {i \in DOMAIN series : series[i].source # None}
  /\ \A i : /\ SourceOf("people", i) = users[i].from
           /\ SourceOf("sessions", i) = sessions[i].source
           /\ SourceOf("series", i) = series[i].source
           /\ MadeBy("people", i) = users[i].by
           /\ MadeBy("sessions", i) = sessions[i].by
           /\ MadeBy("series", i) = series[i].by
BY EntityIs DEF Made, SourceOf, MadeBy

LEMMA MadeThenIs ==
  /\ Made("people")' = {i \in DOMAIN users' : users'[i].from # None}
  /\ Made("sessions")' = {i \in DOMAIN sessions' : sessions'[i].source # None}
  /\ Made("series")' = {i \in DOMAIN series' : series'[i].source # None}
  /\ \A i : /\ SourceOf("people", i)' = users'[i].from
           /\ SourceOf("sessions", i)' = sessions'[i].source
           /\ SourceOf("series", i)' = series'[i].source
           /\ MadeBy("people", i)' = users'[i].by
           /\ MadeBy("sessions", i)' = sessions'[i].by
           /\ MadeBy("series", i)' = series'[i].by
<1>1. Entity("people")' = users' /\ Entity("sessions")' = sessions'
      /\ Entity("series")' = series'
  BY DEF Entity
<1> QED
  BY <1>1 DEF Made, SourceOf, MadeBy

LEMMA EntityGrows ==
  ASSUME TablesGrow, NEW f \in FileName
  PROVE  DOMAIN Entity(f) \subseteq DOMAIN Entity(f)'
BY FileNames DEF Entity, TablesGrow

LEMMA MadeNew ==
  ASSUME ImportInv, NEW c, Grows(c), NEW f \in FileName, NEW i \in Made(f)'
  PROVE  \/ i \in Made(f) /\ MadeBy(f, i)' = MadeBy(f, i)
         \/ i \notin DOMAIN Entity(f) /\ MadeBy(f, i)' = c
<1>1. CASE f = "people"
  <2>1. i \in DOMAIN users' /\ users'[i].from # None
    BY <1>1 DEF Made, Entity
  <2>2. MadeBy(f, i) = users[i].by /\ MadeBy(f, i)' = users'[i].by
    BY <1>1 DEF MadeBy, Entity
  <2> QED
    BY <1>1, <2>1, <2>2 DEF Made, Entity, Grows, TablesGrow, NewBy
<1>2. CASE f = "sessions"
  <2>1. i \in DOMAIN sessions' /\ sessions'[i].source # None
    BY <1>2 DEF Made, Entity
  <2>2. MadeBy(f, i) = sessions[i].by /\ MadeBy(f, i)' = sessions'[i].by
    BY <1>2 DEF MadeBy, Entity
  <2> QED
    BY <1>2, <2>1, <2>2 DEF Made, Entity, Grows, TablesGrow, NewBy
<1>3. CASE f = "series"
  <2>1. i \in DOMAIN series' /\ series'[i].source # None
    BY <1>3 DEF Made, Entity
  <2>2. MadeBy(f, i) = series[i].by /\ MadeBy(f, i)' = series'[i].by
    BY <1>3 DEF MadeBy, Entity
  <2> QED
    BY <1>3, <2>1, <2>2 DEF Made, Entity, Grows, TablesGrow, NewBy
<1> QED
  BY <1>1, <1>2, <1>3, FileNames

LEMMA WriteKeeps ==
  ASSUME ImportInv, NEW c \in Runs, batch' = batch, trail' = trail,
         NEW q, Turn(c, q), Active(c), Steady(call[c], q), q.at # "idle",
         Shaped(q), Going(q), SaysTyped(q),
         TablesGrow, NewBy(c), TablesTyped',
         \A p \in q.says["written"] :
           \/ p \in call[c].says["written"]
           \/ \A key : key = Key(call[c].export, p[1], p[2])
                       => key \notin DOMAIN ledger /\ key \in DOMAIN ledger',
         q.says["clashed"] = call[c].says["clashed"],
         \A f \in FileName : \A i \in Made(f) :
           MadeBy(f, i) = c /\ AtHand(f, i) => WholeAt(f, i)',
         \A f \in FileName : \A i \in Made(f)' :
           i \notin Made(f) => WholeAt(f, i)' /\ ~Repeating(c),
         Believing(c)', Judged(c)', Holding(c)', Ours(c)', Settling(c)', Barred(c)'
  PROVE  ImportInv'
<1> DEFINE k == call[c]
<1>1. /\ call'[c] = q /\ DOMAIN call' = Runs
      /\ \A d \in Runs : d # c => call'[d] = call[d]
  BY TurnIs DEF ImportInv
<1>2. Grows(c)
  BY <1>1 DEF Grows, RunsStay, Active, Working
<1>3. TypeOK'
  <2>1. \A d \in Runs : SaysTyped(call[d])'
    <3>1. ASSUME NEW d \in Runs, d # c PROVE SaysTyped(call[d])'
      <4>1. SaysTyped(call[d]) /\ call'[d] = call[d]
        BY <1>1, <3>1, TypedSays
      <4> QED
        BY <4>1 DEF SaysTyped
    <3>2. SaysTyped(call[c])'
      BY <1>1 DEF SaysTyped
    <3> QED
      BY <3>1, <3>2
  <2>2. /\ batch' \in [Runs -> Batch \cup {None}]
        /\ \A b \in Runs : batch'[b] # None =>
             batch'[b].source = (batch'[b].status = "previewed")
        /\ trail' \subseteq Runs
    BY DEF ImportInv, TypeOK
  <2> HIDE DEF User, Session, Template
  <2> QED
    BY <2>1, <2>2 DEF TypeOK, SaysTyped, TablesTyped
<1>4. Batched'
  <2>1. \A d \in Runs : IF call'[d].at = "idle" THEN batch[d] = None
                        ELSE /\ call'[d].batch \in Runs /\ batch[call'[d].batch] # None
                             /\ ~call'[d].commit => call'[d].batch = d
    <3>1. \A d \in Runs : IF call[d].at = "idle" THEN batch[d] = None
                        ELSE /\ call[d].batch \in Runs /\ batch[call[d].batch] # None
                             /\ ~call[d].commit => call[d].batch = d
      BY DEF ImportInv, Batched
    <3>2. call'[c].at # "idle" /\ k.at # "idle" /\ call'[c].batch = k.batch
          /\ call'[c].commit = k.commit
      BY <1>1 DEF Steady, Active, Working
    <3> QED
      BY <1>1, <3>1, <3>2
  <2> QED
    BY <2>1 DEF ImportInv, Batched
<1>5. Tables'
  <2>1. ASSUME NEW f \in FileName, NEW i \in Made(f)'
        PROVE  MadeBy(f, i)' \in Runs /\ call'[MadeBy(f, i)'].at # "idle"
    <3>1. CASE i \in Made(f) /\ MadeBy(f, i)' = MadeBy(f, i)
      <4>1. MadeBy(f, i) \in Runs /\ call[MadeBy(f, i)].at # "idle"
        BY <3>1 DEF ImportInv, Tables
      <4> QED
        BY <1>1, <3>1, <4>1
    <3>2. CASE MadeBy(f, i)' = c
      BY <1>1, <3>2
    <3> QED
      BY <1>2, <2>1, <3>1, <3>2, MadeNew
  <2> QED
    BY <2>1 DEF Tables, TablesTyped
<1>6. WrittenKeys(c)' = {Key(q.export, p[1], p[2]) : p \in q.says["written"]}
      /\ WrittenKeys(c) = {Key(k.export, p[1], p[2]) : p \in k.says["written"]}
  BY <1>1 DEF WrittenKeys
<1>7. /\ q.export = k.export /\ q.commit = k.commit /\ q.after = k.after
  BY DEF Steady
<1>8. \A key \in WrittenKeys(c)' :
        \/ key \in WrittenKeys(c)
        \/ key \notin DOMAIN ledger /\ key \in DOMAIN ledger'
  BY <1>6, <1>7
<1>9. Entered(c)'
  <2>1. Entered(c)
    BY DEF ImportInv
  <2>2. DOMAIN ledger \subseteq DOMAIN ledger'
    BY DEF TablesGrow
  <2> QED
    BY <1>1, <1>7, <1>8, <2>1, <2>2 DEF Entered
<1>10. CountedOnce' /\ WholeUnlessStopped' /\ ConstraintOnlyForOthers' /\ SecondWritesNothing'
  <2>1. c \in Runs /\ call'[c].commit =>
           \A key \in WrittenKeys(c)' :
             \/ key \in WrittenKeys(c) /\ call[c].commit
             \/ key \notin DOMAIN ledger
    BY <1>1, <1>7, <1>8
  <2>2. \A f \in FileName : \A i \in Made(f)' :
           i \notin Made(f) =>
             c \in Runs /\ WholeAt(f, i)' /\ call[c].at # "idle" /\ ~Repeating(c)
    BY DEF Active, Working
  <2>3. c \in Runs => \A p \in call'[c].says.clashed :
           \/ ClashedAt(c, p)'
           \/ p \in call[c].says.clashed /\ call[c].at # "idle"
    BY <1>1 DEF Active, Working
  <2> QED
    BY <1>2, <1>3, <2>1, <2>2, <2>3, GlobalsKeep
<1>11. \A d \in call'[c].after : d \in Runs /\ call[d].at = "done"
  BY <1>1, <1>7 DEF ImportInv, Called
<1>12. Own(c)'
  BY <1>9 DEF Own
<1>13. Shaped(call'[c]) /\ Going(call'[c]) /\ Countable(call'[c])
  BY <1>1 DEF SaysTyped
<1> QED
  BY <1>1, <1>2, <1>3, <1>4, <1>5, <1>10, <1>11, <1>12, <1>13, StepKeeps

LEMMA AppendIs ==
  ASSUME NEW S, NEW s \in Seq(S), NEW x \in S, NEW t, t = Append(s, x)
  PROVE  /\ t \in Seq(S) /\ DOMAIN t = DOMAIN s \cup {Len(s) + 1}
         /\ \A i \in DOMAIN s : t[i] = s[i]
         /\ t[Len(s) + 1] = x /\ Len(s) + 1 \notin DOMAIN s /\ Len(s) + 1 # 0
<1>1. /\ Len(s) \in Nat /\ DOMAIN s = 1 .. Len(s)
      /\ Append(s, x) \in Seq(S) /\ Len(Append(s, x)) = Len(s) + 1
      /\ \A i \in 1 .. Len(s) : Append(s, x)[i] = s[i]
      /\ Append(s, x)[Len(s) + 1] = x
  BY LenProperties, AppendProperties
<1>2. DOMAIN t = 1 .. Len(s) + 1
  BY <1>1, LenProperties
<1> QED
  BY <1>1, <1>2

LEMMA GrowSettles ==
  ASSUME ImportInv, NEW c \in Runs, TablesGrow, call[c].at \in InFile,
         NEW q, call'[c] = q, q.commit = call[c].commit, q.batch = call[c].batch,
         q.export = call[c].export, q.todo = call[c].todo, q.i = call[c].i
  PROVE  Settling(c)'
<1> DEFINE k == call[c]
<1>1. Settling(c) /\ Active(c)
  BY InFileIs DEF ImportInv
<1>2. /\ \A e, f, i : Settled(e, f, i) => Settled(e, f, i)'
      /\ \A e, f : AllSettled(e, f) => AllSettled(e, f)'
  BY SettledStays DEF AllSettled
<1>3. File(c)' = File(c) /\ Left(q) = Left(k)
  BY DEF File, Left
<1>4. /\ batch'[k.batch].export = batch[k.batch].export
      /\ batch'[k.batch].files = batch[k.batch].files
  <2>1. k.batch \in Runs /\ batch[k.batch] # None
    BY <1>1 DEF ImportInv, Batched, Active, Working
  <2> QED
    BY <2>1 DEF TablesGrow
<1> QED
  BY <1>1, <1>2, <1>3, <1>4 DEF Settling, Active

LEMMA BelievesStill ==
  ASSUME ImportInv, NEW c \in Runs, TablesGrow, NEW q, call'[c] = q,
         q.commit = call[c].commit, q.names = call[c].names,
         q.commit => /\ q.known \cup q.fresh \subseteq DOMAIN ledger'
                     /\ \A mail \in DOMAIN q.emails : q.emails[mail] \in DOMAIN users'
                     /\ \/ q.busy = call[c].busy
                        \/ q.busy \subseteq BusyByInstructor(sessions')
  PROVE  Believing(c)'
<1> DEFINE k == call[c]
<1>1. Believing(c)
  BY DEF ImportInv
<1>2. ASSUME k.commit PROVE \A name \in DOMAIN q.names : First(name, q.names[name])'
  BY <1>1, <1>2, FirstStays DEF Believing
<1>3. ASSUME k.commit PROVE q.busy \subseteq BusyByInstructor(sessions')
  BY <1>1, <1>3, BusyStays DEF Believing
<1> QED
  BY <1>2, <1>3 DEF Believing

LEMMA OursStill ==
  ASSUME ImportInv, NEW c \in Runs, Grows(c), call[c].at \in {"rows"} \cup AtARow,
         call[c].commit, File(c) = "sessions", NEW i \in DOMAIN sessions,
         sessions[i].by = c, Holds(sessions[i].who, sessions[i].status)
  PROVE  \/ [who |-> sessions[i].who, from |-> sessions[i].from,
             to |-> sessions[i].to] \in call[c].busy
         \/ LostTheKey("sessions", i)'
         \/ call[c].at = "remember" /\ call[c].entity = i
<1>1. i \in Made("sessions")
  BY DEF ImportInv, Tables, Made, Entity
<1>2. LostTheKey("sessions", i) => LostTheKey("sessions", i)'
  BY <1>1, LostStays, FileNames
<1> QED
  BY <1>2 DEF ImportInv, Ours

(* A repetition never reaches an insert.                                   *)
LEMMA NothingToCreate ==
  ASSUME ImportInv, NEW c \in Runs, call[c].at = "create",
         File(c) = "people" => TheRow(c).valid
  PROVE  ~Repeating(c)
<1> DEFINE k == call[c]
           r == TheRow(c)
<1>1. SUFFICES ASSUME Repeating(c) PROVE FALSE
  OBVIOUS
<1>2. /\ k.i \in DOMAIN Rows(k.export, File(c))
      /\ r = Rows(k.export, File(c))[k.i] /\ TheKey(c) = Key(k.export, File(c), k.i)
  BY AtTheRow DEF AtARow
<1>3. Warned(c, k.i)
  BY <1>1, <1>2 DEF ImportInv, Barred
<1>4. /\ Readable(File(c), r) /\ ~Matched(c)
      /\ TheKey(c) \notin k.known \cup k.fresh
      /\ File(c) = "sessions" => ~Busy(c)
  BY DEF ImportInv, Judged
<1>5. Forbidden(c, k.i, k.busy)
  BY <1>2, <1>3, <1>4 DEF Warned
<1> HIDE DEF r
<1>6. \/ /\ File(c) = "people" /\ r.email # None /\ r.email \in DOMAIN k.emails
      \/ /\ File(c) = "sessions" /\ r.status = "blocking"
         /\ r.instructor \in DOMAIN k.names
         /\ Occupied(k.names[r.instructor], r, k.busy)
  BY <1>2, <1>4, <1>5 DEF Forbidden, r
<1>7. CASE File(c) = "people" /\ r.email # None /\ r.email \in DOMAIN k.emails
  BY <1>4, <1>7 DEF Matched, r
<1>8. CASE /\ File(c) = "sessions" /\ r.status = "blocking"
           /\ r.instructor \in DOMAIN k.names
           /\ Occupied(k.names[r.instructor], r, k.busy)
  <2>1. Instructor(c) = k.names[r.instructor]
    BY <1>8 DEF Instructor, r
  <2>2. First(r.instructor, k.names[r.instructor]) /\ k.commit
    BY <1>8 DEF ImportInv, Believing, Called, Going, AtARow
  <2>3. k.names[r.instructor] # None
    <3>1. DOMAIN users \subseteq Int
      <4> HIDE DEF User
      <4> QED
        BY LenProperties DEF ImportInv, TypeOK
    <3> QED
      BY <2>2, <3>1, ImportAssumption DEF First
  <2> QED
    BY <1>4, <1>8, <2>1, <2>3 DEF Busy, Blocking, Holds, Occupied, r
<1> QED
  BY <1>6, <1>7, <1>8

(* A row becomes an entity, which is at hand until the ledger names it.    *)
AsSaid(k, q) ==
  /\ Shaped(q)
  /\ q.commit = k.commit /\ q.batch = k.batch /\ q.export = k.export
  /\ q.todo = k.todo /\ q.i = k.i /\ q.known = k.known /\ q.fresh = k.fresh
  /\ q.names = k.names /\ q.emails = k.emails /\ q.busy = k.busy
  /\ q.pending = k.pending /\ q.student = k.student
  /\ q.says = k.says /\ q.after = k.after

LEMMA HoldsThen ==
  ASSUME NEW c, NEW q, call'[c] = q, q.at \in {"status", "remember"},
         NEW f, File(c)' = f, NEW key, TheKey(c)' = key, NEW n, n = q.entity,
         n \in Made(f)', MadeBy(f, n)' = c, SourceOf(f, n)' = key,
         q.at = "remember" /\ f = "sessions" =>
           /\ \A x \in DOMAIN ledger' : x[1] = "sessions" => ledger'[x] # n
           /\ \A s : s = sessions'[n] => AsTheRow(c, s)'
  PROVE  Holding(c)'
BY DEF Holding

LEMMA CreateKeeps ==
  ASSUME ImportInv, NEW c \in Runs, UNCHANGED <<ledger, batch, trail>>,
         NEW q, Turn(c, q), call[c].at = "create", AsSaid(call[c], q),
         q.at \in {"status", "remember"}, q.at = "status" => File(c) = "people",
         File(c) = "people" => TheRow(c).valid,
         TablesGrow, NewBy(c), TablesTyped', q.entity # 0,
         \A f \in FileName : \A i \in Made(f)' :
           i \notin Made(f) => f = File(c) /\ i = q.entity,
         Holding(c)', Ours(c)'
  PROVE  ImportInv'
<1> DEFINE k == call[c]
<1>1. Shaped(k) /\ Going(k) /\ Active(c) /\ k.at \in InFile /\ k.at \in AtARow
  BY Stands DEF ImportInv, Active, Working, InFile, AtARow
<1>2. /\ Steady(k, q) /\ q.at # "idle" /\ Shaped(q)
  BY DEF Steady, AsSaid
<1>3. Going(q)
  <2> HIDE DEF k
  <2>1. k.at = "create" /\ k.todo # <<>>
    BY <1>1 DEF k, Going
  <2> QED
    BY <1>1, <2>1 DEF Going, AsSaid, InFile, Reading, AtARow, Having, File, k
<1>4. SaysTyped(q)
  <2>1. SaysTyped(k)
    BY TypedSays
  <2> QED
    BY <2>1 DEF SaysTyped, Countable, AsSaid, Working
<1>5. call'[c] = q
  BY TurnIs DEF ImportInv
<1>6. Grows(c)
  BY <1>1, <1>2, <1>5, TurnIs DEF Grows, RunsStay, Active, Working, ImportInv
<1>7. \A f \in FileName : \A i \in Made(f) :
        ~(MadeBy(f, i) = c /\ AtHand(f, i))
  <2>1. k.entity = 0
    BY <1>1 DEF Going, Having
  <2> QED
    BY <2>1, Nonzero DEF AtHand
<1>8. ASSUME NEW f \in FileName, NEW i \in Made(f)', i \notin Made(f)
      PROVE  WholeAt(f, i)' /\ ~Repeating(c)
  <2>1. MadeBy(f, i)' = c
    BY <1>6, <1>8, MadeNew
  <2>2. f = File(c) /\ i = q.entity /\ q.todo # <<>> /\ q.at # "done"
        /\ Head(q.todo) = f
    BY <1>1, <1>8 DEF AsSaid, Going, File
  <2>3. AtHand(f, i)'
    BY <1>5, <2>1, <2>2 DEF AtHand
  <2> QED
    BY <2>3, NothingToCreate DEF WholeAt
<1>9. Believing(c)'
  <2>1. q.commit => /\ k.known \cup k.fresh \subseteq DOMAIN ledger
                    /\ \A mail \in DOMAIN k.emails : k.emails[mail] \in DOMAIN users
    BY DEF ImportInv, Believing, AsSaid
  <2>2. DOMAIN users \subseteq DOMAIN users'
    BY DEF TablesGrow
  <2>3. q.commit => /\ q.known \cup q.fresh \subseteq DOMAIN ledger'
                    /\ \A mail \in DOMAIN q.emails : q.emails[mail] \in DOMAIN users'
                    /\ \/ q.busy = call[c].busy
                       \/ q.busy \subseteq BusyByInstructor(sessions')
    BY <2>1, <2>2 DEF AsSaid
  <2>4. q.commit = call[c].commit /\ q.names = call[c].names
    BY DEF AsSaid
  <2> QED
    BY <1>5, <2>3, <2>4, BelievesStill
<1>10. Judged(c)' /\ Barred(c)'
  BY <1>5 DEF Judged, Barred
<1>11. Settling(c)'
  BY <1>1, <1>5, GrowSettles DEF AsSaid
<1>12. /\ \A p \in q.says["written"] :
            \/ p \in call[c].says["written"]
            \/ \A key : key = Key(call[c].export, p[1], p[2])
                        => key \notin DOMAIN ledger /\ key \in DOMAIN ledger'
       /\ q.says["clashed"] = call[c].says["clashed"]
  BY DEF AsSaid
<1> QED
  BY <1>1, <1>2, <1>3, <1>4, <1>7, <1>8, <1>9, <1>10, <1>11, <1>12, WriteKeeps

LEMMA CreatesPerson ==
  ASSUME ImportInv, NEW c \in Runs, CreatePerson(c)
  PROVE  ImportInv'
<1> DEFINE k == call[c]
           r == TheRow(c)
           n == Len(users) + 1
           u == [name |-> r.shown, email |-> r.email,
                 account |-> "invited", from |-> TheKey(c), by |-> c]
           at == IF r.account = "invited" THEN "remember" ELSE "status"
           q == [k EXCEPT !.entity = n, !.at = at]
<1>1. /\ k.at = "create" /\ File(c) = "people" /\ r.valid
      /\ users' = Append(users, u) /\ Turn(c, q)
      /\ UNCHANGED <<sessions, series, ledger, batch, trail>>
  BY DEF CreatePerson, Acceptable
<1>2. Shaped(k) /\ Going(k) /\ k.at \in AtARow
  BY <1>1, Stands DEF ImportInv, AtARow
<1>3. /\ AsSaid(k, q) /\ q.at = at /\ q.entity = n
  <2> HIDE DEF n, at
  <2> QED
    BY <1>2 DEF AsSaid, Shaped, Fields
<1> HIDE DEF q
<1>4. at \in {"status", "remember"}
  OBVIOUS
<1> HIDE DEF at
<1>5. /\ TheKey(c) \in Keys /\ TheKey(c) # None
      /\ r = Rows(k.export, "people")[k.i]
      /\ k.i \in DOMAIN Rows(k.export, "people") /\ k.export \in Exports
  BY <1>1, <1>2, AtTheRow, InFileIs
<1>6. u \in User
  <2>1. r.shown \in STRING /\ r.email \in STRING \cup {None}
    BY <1>5, PersonAt
  <2> HIDE DEF r
  <2> QED
    BY <1>5, <2>1 DEF User, Account
<1> HIDE DEF u
<1>7. /\ users' \in Seq(User) /\ DOMAIN users' = DOMAIN users \cup {n}
      /\ \A i \in DOMAIN users : users'[i] = users[i]
      /\ users'[n] = u /\ n \notin DOMAIN users /\ n # 0
  <2> HIDE DEF User
  <2>1. users \in Seq(User)
    BY DEF ImportInv, TypeOK
  <2> QED
    BY <1>1, <1>6, <2>1, AppendIs
<1>8. u.by = c /\ u.from = TheKey(c)
  BY DEF u
<1> HIDE DEF n
<1>9. TablesGrow
  BY <1>1, <1>7 DEF TablesGrow
<1>10. NewBy(c)
  BY <1>1, <1>7, <1>8 DEF NewBy
<1>11. TablesTyped'
  <2>1. TablesTyped
    BY AreTyped
  <2>2. \A key \in DOMAIN ledger' : ledger'[key] \in DOMAIN Entity(key[1])'
    <3>1. \A key \in DOMAIN ledger :
            key[1] \in FileName /\ ledger[key] \in DOMAIN Entity(key[1])
      BY <2>1, KeyFile DEF TablesTyped
    <3> QED
      BY <1>1, <1>9, <3>1, EntityGrows
  <2> HIDE DEF User, Session, Template
  <2> QED
    BY <1>1, <1>7, <2>1, <2>2 DEF TablesTyped
<1>12. \A f \in FileName : \A i \in Made(f)' :
           i \notin Made(f) => f = File(c) /\ i = q.entity
  <2>1. ASSUME NEW f \in FileName, NEW i \in Made(f)', i \notin Made(f)
        PROVE  f = "people" /\ i = n
    <3>1. CASE f = "people"
      BY <1>7, <2>1, <3>1 DEF Made, Entity
    <3>2. CASE f = "sessions" \/ f = "series"
      BY <1>1, <2>1, <3>2 DEF Made, Entity
    <3> QED
      BY <3>1, <3>2, FileNames
  <2> QED
    BY <1>1, <1>3, <2>1
<1>13. call'[c] = q
  BY <1>1, TurnIs DEF ImportInv
<1>14. File(c)' = "people" /\ TheKey(c)' = TheKey(c)
  BY <1>1, <1>3, <1>13 DEF AsSaid, File, TheKey
<1>15. ASSUME NEW f, NEW i, f = "people", i = n
       PROVE  i \in Made(f)' /\ MadeBy(f, i)' = c /\ SourceOf(f, i)' = TheKey(c)
  BY <1>5, <1>7, <1>8, <1>15, MadeThenIs
<1>16. Holding(c)'
  <2>1. PICK y, key, i : y = q /\ key = TheKey(c) /\ i = n
    OBVIOUS
  <2>2. i \in Made("people")' /\ MadeBy("people", i)' = c /\ SourceOf("people", i)' = key
    BY <1>15, <2>1
  <2>3. call'[c] = y /\ y.at \in {"status", "remember"} /\ i = y.entity
        /\ TheKey(c)' = key
    BY <1>3, <1>4, <1>13, <1>14, <2>1
  <2> QED
    BY <1>14, <2>2, <2>3, HoldsThen
<1>17. Ours(c)'
  BY <1>14 DEF Ours
<1>18. q.entity # 0
  BY <1>3, <1>7
<1> QED
  BY <1>1, <1>3, <1>4, <1>9, <1>10, <1>11, <1>12, <1>16, <1>17, <1>18, CreateKeeps

LEMMA CreatesSeries ==
  ASSUME ImportInv, NEW c \in Runs, CreateSeries(c)
  PROVE  ImportInv'
<1> DEFINE k == call[c]
           n == Len(series) + 1
           t == [source |-> TheKey(c), by |-> c]
           q == [k EXCEPT !.at = "remember", !.entity = n]
<1>1. /\ k.at = "create" /\ File(c) = "series"
      /\ series' = Append(series, t) /\ Turn(c, q)
      /\ UNCHANGED <<users, sessions, ledger, batch, trail>>
  BY DEF CreateSeries
<1>2. Shaped(k) /\ Going(k) /\ k.at \in AtARow
  BY <1>1, Stands DEF ImportInv, AtARow
<1>3. /\ AsSaid(k, q) /\ q.at = "remember" /\ q.entity = n
  <2> HIDE DEF n
  <2> QED
    BY <1>2 DEF AsSaid, Shaped, Fields
<1> HIDE DEF q
<1>5. TheKey(c) \in Keys /\ TheKey(c) # None
  BY <1>2, AtTheRow
<1>6. t \in Template /\ t.by = c /\ t.source = TheKey(c)
  BY <1>5 DEF Template
<1> HIDE DEF t
<1>7. /\ series' \in Seq(Template) /\ DOMAIN series' = DOMAIN series \cup {n}
      /\ \A i \in DOMAIN series : series'[i] = series[i]
      /\ series'[n] = t /\ n \notin DOMAIN series /\ n # 0
  <2> HIDE DEF Template
  <2>1. series \in Seq(Template)
    BY DEF ImportInv, TypeOK
  <2> QED
    BY <1>1, <1>6, <2>1, AppendIs
<1> HIDE DEF n
<1>9. TablesGrow
  BY <1>1, <1>7 DEF TablesGrow
<1>10. NewBy(c)
  BY <1>1, <1>6, <1>7 DEF NewBy
<1>11. TablesTyped'
  <2>1. TablesTyped
    BY AreTyped
  <2>2. \A key \in DOMAIN ledger' : ledger'[key] \in DOMAIN Entity(key[1])'
    <3>1. \A key \in DOMAIN ledger :
            key[1] \in FileName /\ ledger[key] \in DOMAIN Entity(key[1])
      BY <2>1, KeyFile DEF TablesTyped
    <3> QED
      BY <1>1, <1>9, <3>1, EntityGrows
  <2> HIDE DEF User, Session, Template
  <2> QED
    BY <1>1, <1>7, <2>1, <2>2 DEF TablesTyped
<1>12. \A f \in FileName : \A i \in Made(f)' :
           i \notin Made(f) => f = File(c) /\ i = q.entity
  <2>1. ASSUME NEW f \in FileName, NEW i \in Made(f)', i \notin Made(f)
        PROVE  f = "series" /\ i = n
    <3>1. CASE f = "series"
      BY <1>7, <2>1, <3>1, MadeIs, MadeThenIs
    <3>2. CASE f = "sessions" \/ f = "people"
      BY <1>1, <2>1, <3>2, MadeIs, MadeThenIs
    <3> QED
      BY <3>1, <3>2, FileNames
  <2> QED
    BY <1>1, <1>3, <2>1
<1>13. call'[c] = q
  BY <1>1, TurnIs DEF ImportInv
<1>14. File(c)' = "series" /\ TheKey(c)' = TheKey(c)
  BY <1>1, <1>3, <1>13 DEF AsSaid, File, TheKey
<1>15. ASSUME NEW f, NEW i, f = "series", i = n
       PROVE  i \in Made(f)' /\ MadeBy(f, i)' = c /\ SourceOf(f, i)' = TheKey(c)
  BY <1>5, <1>6, <1>7, <1>15, MadeThenIs
<1>16. Holding(c)'
  <2>1. PICK y, key, i : y = q /\ key = TheKey(c) /\ i = n
    OBVIOUS
  <2>2. i \in Made("series")' /\ MadeBy("series", i)' = c /\ SourceOf("series", i)' = key
    BY <1>15, <2>1
  <2>3. call'[c] = y /\ y.at \in {"status", "remember"} /\ i = y.entity
        /\ TheKey(c)' = key
    BY <1>3, <1>13, <1>14, <2>1
  <2> QED
    BY <1>14, <2>2, <2>3, HoldsThen
<1>17. Ours(c)'
  BY <1>14 DEF Ours
<1>18. q.entity # 0
  BY <1>3, <1>7
<1>19. /\ q.at \in {"status", "remember"} /\ (q.at = "status" => File(c) = "people")
       /\ (File(c) = "people" => TheRow(c).valid)
  BY <1>1, <1>3
<1> QED
  BY <1>1, <1>3, <1>9, <1>10, <1>11, <1>12, <1>16, <1>17, <1>18, <1>19, CreateKeeps

LEMMA CarriesStatus ==
  ASSUME ImportInv, NEW c \in Runs, CarryStatus(c)
  PROVE  ImportInv'
<1> DEFINE k == call[c]
           n == k.entity
           r == TheRow(c)
           q == [k EXCEPT !.at = "remember"]
<1>1. /\ k.at = "status" /\ users' = [users EXCEPT ![n].account = r.account]
      /\ Turn(c, q) /\ UNCHANGED <<sessions, series, ledger, batch, trail>>
  BY DEF CarryStatus, Go
<1>2. /\ Shaped(k) /\ Going(k) /\ k.at \in AtARow /\ k.at \in Having /\ k.at \in InFile
      /\ Active(c)
  BY <1>1, Stands DEF ImportInv, AtARow, Having, InFile, Active, Working
<1>3. /\ AsSaid(k, q) /\ q.at = "remember" /\ q.entity = n
  BY <1>2 DEF AsSaid, Shaped, Fields
<1> HIDE DEF q
<1>4. File(c) = "people" /\ k.commit
  BY <1>1, <1>2 DEF Going, File
<1>5. /\ r.account \in Account
  <2>1. /\ r = Rows(k.export, "people")[k.i]
        /\ k.i \in DOMAIN Rows(k.export, "people") /\ k.export \in Exports
    BY <1>2, <1>4, AtTheRow, InFileIs
  <2> QED
    BY <2>1, PersonAt
<1>6. n \in Made("people") /\ MadeBy("people", n) = c /\ SourceOf("people", n) = TheKey(c)
  BY <1>2, <1>4 DEF ImportInv, Holding
<1>7. n \in DOMAIN users /\ users \in Seq(User)
  BY <1>6, MadeIs DEF ImportInv, TypeOK
<1>8. /\ users' \in Seq(User) /\ DOMAIN users' = DOMAIN users
      /\ \A i \in DOMAIN users :
           /\ users'[i].name = users[i].name /\ users'[i].email = users[i].email
           /\ users'[i].from = users[i].from /\ users'[i].by = users[i].by
  <2>1. \A i \in DOMAIN users : users[i] \in User
    <3> HIDE DEF User
    <3> QED
      BY <1>7, ElementOfSeq, LenProperties
  <2>2. \A i \in DOMAIN users :
          /\ users'[i] \in User
          /\ users'[i].name = users[i].name /\ users'[i].email = users[i].email
          /\ users'[i].from = users[i].from /\ users'[i].by = users[i].by
    <3> HIDE DEF n, r
    <3>1. ASSUME NEW i \in DOMAIN users, i # n PROVE users'[i] = users[i]
      BY <1>1, <3>1
    <3>2. users'[n] = [users[n] EXCEPT !.account = r.account]
      BY <1>1, <1>7
    <3>3. /\ users'[n] \in User
          /\ users'[n].name = users[n].name /\ users'[n].email = users[n].email
          /\ users'[n].from = users[n].from /\ users'[n].by = users[n].by
      BY <1>5, <1>7, <2>1, <3>2 DEF User
    <3> QED
      BY <2>1, <3>1, <3>3
  <2>3. DOMAIN users' = DOMAIN users
    BY <1>1
  <2>4. users' \in Seq(User)
    <3> HIDE DEF User, n, r
    <3>1. /\ DOMAIN users = 1 .. Len(users) /\ Len(users) \in Nat
      BY <1>7, LenProperties
    <3>2. users' \in [1 .. Len(users) -> User]
      BY <1>1, <2>2, <2>3, <3>1
    <3> QED
      BY <3>1, <3>2, SeqDef
  <2> QED
    BY <2>2, <2>3, <2>4
<1>9. TablesGrow
  BY <1>1, <1>8 DEF TablesGrow
<1>10. NewBy(c)
  BY <1>1, <1>8 DEF NewBy
<1>11. TablesTyped'
  <2>1. TablesTyped
    BY AreTyped
  <2>2. \A key \in DOMAIN ledger' : ledger'[key] \in DOMAIN Entity(key[1])'
    <3>1. \A key \in DOMAIN ledger :
            key[1] \in FileName /\ ledger[key] \in DOMAIN Entity(key[1])
      BY <2>1, KeyFile DEF TablesTyped
    <3> QED
      BY <1>1, <1>9, <3>1, EntityGrows
  <2> HIDE DEF User, Session, Template
  <2> QED
    BY <1>1, <1>8, <2>1, <2>2 DEF TablesTyped
<1>12. call'[c] = q
  BY <1>1, TurnIs DEF ImportInv
<1>13. File(c)' = "people" /\ TheKey(c)' = TheKey(c)
  BY <1>3, <1>4, <1>12 DEF AsSaid, File, TheKey
<1>14. ASSUME NEW f \in FileName, NEW i \in Made(f)' PROVE i \in Made(f)
  <2>1. CASE f = "people"
    BY <1>8, <1>14, <2>1, MadeIs, MadeThenIs
  <2>2. CASE f = "sessions" \/ f = "series"
    BY <1>1, <1>14, <2>2, MadeIs, MadeThenIs
  <2> QED
    BY <2>1, <2>2, FileNames
<1>15. ASSUME NEW f \in FileName, NEW i \in Made(f), MadeBy(f, i) = c, AtHand(f, i)
       PROVE  WholeAt(f, i)'
  <2>1. Head(k.todo) = f /\ k.todo # <<>> /\ k.entity = i
    BY <1>15 DEF AtHand
  <2>2. MadeBy(f, i)' = c
    BY <1>9, <1>15, MadeStays
  <2>3. AtHand(f, i)'
    BY <1>3, <1>12, <2>1, <2>2 DEF AtHand, AsSaid
  <2> QED
    BY <2>3 DEF WholeAt
<1>16. Holding(c)'
  <2>1. PICK y, key, i : y = q /\ key = TheKey(c) /\ i = n
    OBVIOUS
  <2>2. i \in Made("people")' /\ MadeBy("people", i)' = c /\ SourceOf("people", i)' = key
    BY <1>6, <1>9, <2>1, MadeStays, FileNames
  <2>3. call'[c] = y /\ y.at \in {"status", "remember"} /\ i = y.entity
        /\ TheKey(c)' = key
    BY <1>3, <1>12, <1>13, <2>1
  <2> QED
    BY <1>13, <2>2, <2>3, HoldsThen
<1>17. Ours(c)'
  BY <1>13 DEF Ours
<1>18. Judged(c)' /\ Barred(c)'
  BY <1>3, <1>12 DEF Judged, Barred
<1>19. Settling(c)'
  BY <1>2, <1>3, <1>9, <1>12, GrowSettles DEF AsSaid
<1>20. Believing(c)'
  <2>1. k.commit => /\ k.known \cup k.fresh \subseteq DOMAIN ledger
                    /\ \A mail \in DOMAIN k.emails : k.emails[mail] \in DOMAIN users
    BY DEF ImportInv, Believing
  <2>2. q.commit => /\ q.known \cup q.fresh \subseteq DOMAIN ledger'
                    /\ \A mail \in DOMAIN q.emails : q.emails[mail] \in DOMAIN users'
                    /\ \/ q.busy = call[c].busy
                       \/ q.busy \subseteq BusyByInstructor(sessions')
    BY <1>1, <1>3, <1>8, <2>1 DEF AsSaid
  <2>3. q.commit = call[c].commit /\ q.names = call[c].names
    BY <1>3 DEF AsSaid
  <2> QED
    BY <1>9, <1>12, <2>2, <2>3, BelievesStill
<1>21. /\ Steady(k, q) /\ q.at # "idle" /\ Shaped(q) /\ SaysTyped(q)
  <2>1. SaysTyped(k)
    BY TypedSays
  <2> QED
    BY <1>3, <2>1 DEF SaysTyped, Countable, AsSaid, Working, Steady
<1>22. Going(q)
  BY <1>1, <1>2, <1>3, <1>4
     DEF Going, AsSaid, InFile, Reading, AtARow, Having, File
<1>23. /\ \A p \in q.says["written"] :
            \/ p \in call[c].says["written"]
            \/ \A key : key = Key(call[c].export, p[1], p[2])
                        => key \notin DOMAIN ledger /\ key \in DOMAIN ledger'
       /\ q.says["clashed"] = call[c].says["clashed"]
  BY <1>3 DEF AsSaid
<1> QED
  BY <1>1, <1>2, <1>9, <1>10, <1>11, <1>14, <1>15, <1>16, <1>17, <1>18, <1>19, <1>20,
     <1>21, <1>22, <1>23, WriteKeeps

LEMMA UsersCount ==
  ASSUME ImportInv
  PROVE  /\ DOMAIN users \subseteq Nat \ {0} /\ None \notin DOMAIN users
         /\ DOMAIN sessions \subseteq Nat \ {0}
<1>1. /\ DOMAIN users = 1 .. Len(users) /\ Len(users) \in Nat
      /\ DOMAIN sessions = 1 .. Len(sessions) /\ Len(sessions) \in Nat
  <2> HIDE DEF User, Session
  <2> QED
    BY LenProperties DEF ImportInv, TypeOK
<1> QED
  BY <1>1, ImportAssumption

LEMMA CreatesSession ==
  ASSUME ImportInv, NEW c \in Runs, CreateSession(c)
  PROVE  ImportInv'
<1> DEFINE k == call[c]
           r == TheRow(c)
           w == Instructor(c)
           n == Len(sessions) + 1
           s == [who |-> w, from |-> r.from, to |-> r.from + r.minutes,
                 status |-> r.status, roster |-> {}, source |-> TheKey(c), by |-> c]
           q == [k EXCEPT !.at = "remember", !.entity = n]
<1>1. /\ k.at = "create" /\ File(c) = "sessions"
      /\ sessions' = Append(sessions, s) /\ Turn(c, q)
      /\ UNCHANGED <<users, series, ledger, batch, trail>>
  BY DEF CreateSession
<1>2. Shaped(k) /\ Going(k) /\ k.at \in AtARow /\ k.commit
  BY <1>1, Stands DEF ImportInv, AtARow, Going
<1>3. /\ AsSaid(k, q) /\ q.at = "remember" /\ q.entity = n
  <2> HIDE DEF n
  <2> QED
    BY <1>2 DEF AsSaid, Shaped, Fields
<1> HIDE DEF q
<1>4. Readable("sessions", r)
  BY <1>1 DEF ImportInv, Judged
<1>5. /\ TheKey(c) \in Keys /\ TheKey(c) # None
      /\ r = Rows(k.export, "sessions")[k.i]
      /\ k.i \in DOMAIN Rows(k.export, "sessions") /\ k.export \in Exports
  BY <1>1, <1>2, AtTheRow, InFileIs
<1>6. /\ r.from \in Int /\ r.minutes \in Int /\ r.status \in {"blocking", "free"}
  <2>1. /\ r.from \in Int \cup {None} /\ r.minutes \in Int
        /\ r.status \in {"blocking", "free", None}
    BY <1>5, SessionAt
  <2> HIDE DEF r
  <2> QED
    BY <1>4, <2>1 DEF Readable
<1>7. w # None => w \in DOMAIN users
  <2>1. ASSUME w # None PROVE r.instructor \in DOMAIN k.names /\ w = k.names[r.instructor]
    BY <2>1 DEF Instructor
  <2> QED
    BY <1>2, <2>1 DEF ImportInv, Believing, First
<1>8. /\ s \in Session /\ s.who = w /\ s.from = r.from /\ s.to = r.from + r.minutes
      /\ s.status = r.status /\ s.roster = {} /\ s.source = TheKey(c) /\ s.by = c
  <2>1. w \in Nat \cup {None}
    BY <1>7, UsersCount
  <2> HIDE DEF r, w
  <2> QED
    BY <1>5, <1>6, <2>1 DEF Session
<1> HIDE DEF s
<1>9. /\ sessions' \in Seq(Session) /\ DOMAIN sessions' = DOMAIN sessions \cup {n}
      /\ \A i \in DOMAIN sessions : sessions'[i] = sessions[i]
      /\ sessions'[n] = s /\ n \notin DOMAIN sessions /\ n # 0
  <2> HIDE DEF Session
  <2>1. sessions \in Seq(Session)
    BY DEF ImportInv, TypeOK
  <2> QED
    BY <1>1, <1>8, <2>1, AppendIs
<1> HIDE DEF n
<1>10. TablesGrow
  BY <1>1, <1>9 DEF TablesGrow
<1>11. NewBy(c)
  BY <1>1, <1>8, <1>9 DEF NewBy
<1>12. TablesTyped'
  <2>1. TablesTyped
    BY AreTyped
  <2>2. \A key \in DOMAIN ledger' : ledger'[key] \in DOMAIN Entity(key[1])'
    <3>1. \A key \in DOMAIN ledger :
            key[1] \in FileName /\ ledger[key] \in DOMAIN Entity(key[1])
      BY <2>1, KeyFile DEF TablesTyped
    <3> QED
      BY <1>1, <1>10, <3>1, EntityGrows
  <2>3. \A i \in DOMAIN sessions' :
          /\ sessions'[i].who # None => sessions'[i].who \in DOMAIN users'
          /\ sessions'[i].roster \subseteq DOMAIN users'
          /\ sessions'[i].by \in Runs => sessions'[i].source # None
    <3> HIDE DEF w, r
    <3>1. \A i \in DOMAIN sessions :
            /\ sessions'[i].who # None => sessions'[i].who \in DOMAIN users'
            /\ sessions'[i].roster \subseteq DOMAIN users'
            /\ sessions'[i].by \in Runs => sessions'[i].source # None
      BY <1>1, <1>9, <2>1 DEF TablesTyped
    <3>2. /\ sessions'[n].who # None => sessions'[n].who \in DOMAIN users'
          /\ sessions'[n].roster \subseteq DOMAIN users'
          /\ sessions'[n].source # None
      BY <1>1, <1>5, <1>7, <1>8, <1>9
    <3> QED
      BY <1>9, <3>1, <3>2
  <2> HIDE DEF User, Session, Template
  <2> QED
    BY <1>1, <1>9, <2>1, <2>2, <2>3 DEF TablesTyped
<1>13. \A f \in FileName : \A i \in Made(f)' :
           i \notin Made(f) => f = File(c) /\ i = q.entity
  <2>1. ASSUME NEW f \in FileName, NEW i \in Made(f)', i \notin Made(f)
        PROVE  f = "sessions" /\ i = n
    <3>1. CASE f = "sessions"
      BY <1>9, <2>1, <3>1, MadeIs, MadeThenIs
    <3>2. CASE f = "series" \/ f = "people"
      BY <1>1, <2>1, <3>2, MadeIs, MadeThenIs
    <3> QED
      BY <3>1, <3>2, FileNames
  <2> QED
    BY <1>1, <1>3, <2>1
<1>14. call'[c] = q
  BY <1>1, TurnIs DEF ImportInv
<1>15. /\ File(c)' = "sessions" /\ TheKey(c)' = TheKey(c) /\ TheRow(c)' = r
       /\ Instructor(c)' = w
  <2>1. /\ call'[c].export = call[c].export /\ call'[c].todo = call[c].todo
        /\ call'[c].i = call[c].i /\ call'[c].names = call[c].names
        /\ call'[c].emails = call[c].emails /\ call'[c].busy = call[c].busy
    BY <1>3, <1>14 DEF AsSaid
  <2> QED
    BY <1>1, <2>1, SameJudgement
<1>16. ASSUME NEW f, NEW i, f = "sessions", i = n
       PROVE  i \in Made(f)' /\ MadeBy(f, i)' = c /\ SourceOf(f, i)' = TheKey(c)
  <2> HIDE DEF w, r
  <2> QED
    BY <1>5, <1>8, <1>9, <1>16, MadeThenIs
<1>17. Holding(c)'
  <2>1. PICK y, key, i : y = q /\ key = TheKey(c) /\ i = n
    OBVIOUS
  <2>2. i \in Made("sessions")' /\ MadeBy("sessions", i)' = c
        /\ SourceOf("sessions", i)' = key
    BY <1>16, <2>1
  <2>3. call'[c] = y /\ y.at \in {"status", "remember"} /\ i = y.entity
        /\ TheKey(c)' = key
    BY <1>3, <1>14, <1>15, <2>1
  <2>4. \A x \in DOMAIN ledger' : x[1] = "sessions" => ledger'[x] # i
    <3>1. \A x \in DOMAIN ledger : x[1] = "sessions" => ledger[x] \in DOMAIN sessions
      BY EntityIs DEF ImportInv, TypeOK
    <3> QED
      BY <1>1, <1>9, <2>1, <3>1
  <2>5. \A z : z = sessions'[i] => AsTheRow(c, z)'
    <3>1. /\ sessions'[i].who = w /\ sessions'[i].status = r.status
          /\ sessions'[i].from = r.from /\ sessions'[i].to = r.from + r.minutes
      BY <1>8, <1>9, <2>1
    <3> HIDE DEF w, r
    <3>2. ASSUME NEW z, z = sessions'[i] PROVE AsTheRow(c, z)'
      BY <1>15, <3>1, <3>2 DEF AsTheRow
    <3> QED
      BY <3>2
  <2> QED
    BY <1>15, <2>2, <2>3, <2>4, <2>5, HoldsThen
<1>18. Grows(c)
  BY <1>1, <1>2, <1>3, <1>10, <1>11, <1>14, TurnIs
     DEF Grows, RunsStay, AsSaid, Steady, ImportInv
<1>19. Ours(c)'
  <2>1. ASSUME NEW i \in DOMAIN sessions', sessions'[i].by = c,
               Holds(sessions'[i].who, sessions'[i].status)
        PROVE  \/ [who |-> sessions'[i].who, from |-> sessions'[i].from,
                   to |-> sessions'[i].to] \in q.busy
               \/ LostTheKey("sessions", i)'
               \/ q.at = "remember" /\ q.entity = i
    <3>1. CASE i \in DOMAIN sessions
      <4>1. sessions'[i] = sessions[i]
        BY <1>9, <3>1
      <4>2. k.at \in {"rows"} \cup AtARow /\ k.at # "remember"
        BY <1>1, <1>2
      <4>3. \/ [who |-> sessions[i].who, from |-> sessions[i].from,
                to |-> sessions[i].to] \in k.busy
            \/ LostTheKey("sessions", i)'
        BY <1>1, <1>2, <1>18, <2>1, <3>1, <4>1, <4>2, OursStill
      <4> QED
        BY <1>3, <4>1, <4>3 DEF AsSaid
    <3>2. CASE i = n
      BY <1>3, <3>2
    <3> QED
      BY <1>9, <3>1, <3>2
  <2> QED
    BY <1>14, <2>1 DEF Ours
<1>20. q.entity # 0
  BY <1>3, <1>9
<1>21. /\ q.at \in {"status", "remember"} /\ (q.at = "status" => File(c) = "people")
       /\ (File(c) = "people" => TheRow(c).valid)
  BY <1>1, <1>3
<1> QED
  BY <1>1, <1>3, <1>10, <1>11, <1>12, <1>13, <1>17, <1>19, <1>20, <1>21, CreateKeeps
(* A row that is entered.                                                  *)
LEMMA EnterIs ==
  ASSUME ImportInv, NEW c, NEW key \in Keys, key \notin DOMAIN ledger,
         NEW id, Enter(key, id), UNCHANGED tables, batch' = batch,
         id \in DOMAIN Entity(key[1]),
         key[1] = "sessions" => sessions[id].by = c
  PROVE  /\ DOMAIN ledger' = DOMAIN ledger \cup {key} /\ ledger'[key] = id
         /\ TablesGrow /\ NewBy(c) /\ TablesTyped'
         /\ \A f : Made(f)' = Made(f) /\ Entity(f)' = Entity(f)
         /\ \A f, i : SourceOf(f, i)' = SourceOf(f, i) /\ MadeBy(f, i)' = MadeBy(f, i)
<1>1. /\ users' = users /\ sessions' = sessions /\ series' = series
  BY DEF tables
<1>2. /\ DOMAIN ledger' = DOMAIN ledger \cup {key} /\ ledger'[key] = id
      /\ \A x \in DOMAIN ledger : ledger'[x] = ledger[x]
  BY DEF Enter
<1>3. TablesGrow
  BY <1>1, <1>2 DEF TablesGrow
<1>4. \A f : Entity(f)' = Entity(f)
  BY <1>1 DEF Entity
<1>5. /\ \A f : Made(f)' = Made(f)
      /\ \A f, i : SourceOf(f, i)' = SourceOf(f, i) /\ MadeBy(f, i)' = MadeBy(f, i)
  BY <1>1, <1>4 DEF Made, SourceOf, MadeBy
<1>6. NewBy(c)
  <2>1. key[1] = "sessions" => id \in DOMAIN sessions
    BY EntityIs
  <2> QED
    BY <1>1, <1>2, <2>1 DEF NewBy
<1>7. TablesTyped'
  <2>1. TablesTyped
    BY AreTyped
  <2>2. \A x \in DOMAIN ledger' : ledger'[x] \in DOMAIN Entity(x[1])'
    BY <1>2, <1>4, <2>1 DEF TablesTyped
  <2> HIDE DEF User, Session, Template
  <2> QED
    BY <1>1, <1>2, <2>1, <2>2 DEF TablesTyped
<1> QED
  BY <1>2, <1>3, <1>4, <1>5, <1>6, <1>7

LEMMA RemembersMatch ==
  ASSUME ImportInv, NEW c \in Runs, RememberMatch(c)
  PROVE  ImportInv'
<1> DEFINE k == call[c]
           key == TheKey(c)
           id == k.emails[TheRow(c).email]
           h == [k EXCEPT !.fresh = @ \cup {key}]
           q == Say(h, "here")
<1>1. /\ k.at = "match" /\ key \notin DOMAIN ledger /\ Enter(key, id) /\ Turn(c, q)
      /\ UNCHANGED tables /\ batch' = batch /\ trail' = trail
  BY DEF RememberMatch
<1>2. /\ Shaped(k) /\ Going(k) /\ SaysTyped(k) /\ k.at \in AtARow /\ k.at \in InFile
      /\ k.at \notin Having /\ Active(c) /\ k.commit /\ k.todo # <<>>
  BY <1>1, Stands, TypedSays
     DEF ImportInv, AtARow, Having, InFile, Active, Working, Going
<1>3. /\ key \in Keys /\ key[1] = File(c) /\ k.export \in Exports
      /\ key = Key(k.export, File(c), k.i)
  BY <1>2, AtTheRow, InFileIs
<1>4. File(c) = "people" /\ id \in DOMAIN users
  <2>1. Matched(c)
    BY <1>1 DEF ImportInv, Judged
  <2> QED
    BY <1>2, <2>1 DEF Matched, ImportInv, Believing
<1>5. /\ Shaped(h) /\ h.fresh = k.fresh \cup {key}
      /\ \A x \in Fields : x # "fresh" => h[x] = k[x]
  <2> HIDE DEF k, key
  <2> QED
    BY <1>2 DEF Shaped, Fields
<1>6. SaysTyped(h)
  BY <1>2, <1>3, <1>5 DEF SaysTyped, Countable, Fields
<1> HIDE DEF h, id
<1>7. /\ Shaped(q) /\ q.at = "rows" /\ q.i = k.i + 1 /\ q.entity = 0 /\ q.student = 1
      /\ q.commit = k.commit /\ q.batch = k.batch /\ q.export = k.export
      /\ q.todo = k.todo /\ q.known = k.known /\ q.fresh = k.fresh \cup {key}
      /\ q.names = k.names /\ q.emails = k.emails /\ q.busy = k.busy
      /\ q.pending = k.pending /\ q.after = k.after
      /\ q.says["written"] = k.says["written"] /\ q.says["clashed"] = k.says["clashed"]
      /\ \A word \in Sayings : k.says[word] \subseteq q.says[word]
  <2>1. /\ h.i = k.i /\ h.commit = k.commit /\ h.batch = k.batch /\ h.export = k.export
        /\ h.todo = k.todo /\ h.known = k.known /\ h.names = k.names
        /\ h.emails = k.emails /\ h.busy = k.busy /\ h.pending = k.pending
        /\ h.after = k.after /\ h.says = k.says
    BY <1>5 DEF Fields
  <2>2. Shaped(h)
    BY <1>5
  <2> HIDE DEF q
  <2>3. q = Say(h, "here")
    BY DEF q
  <2> HIDE DEF k, key
  <2>4. "here" \in Sayings /\ "written" \in Sayings /\ "clashed" \in Sayings
    BY DEF Sayings
  <2>5. /\ Shaped(q) /\ q.at = "rows" /\ q.i = h.i + 1 /\ q.entity = 0 /\ q.student = 1
        /\ q.commit = h.commit /\ q.batch = h.batch /\ q.export = h.export
        /\ q.todo = h.todo /\ q.known = h.known /\ q.fresh = h.fresh
        /\ q.names = h.names /\ q.emails = h.emails /\ q.busy = h.busy
        /\ q.pending = h.pending /\ q.after = h.after
    <3>1. Tells(h, "here", q)
      BY <2>2, <2>3, <2>4, SayTells
    <3> QED
      BY <3>1 DEF Tells
  <2>6. /\ \A word \in Sayings : h.says[word] \subseteq q.says[word]
        /\ \A word \in Sayings : word # "here" => q.says[word] = h.says[word]
    BY <2>2, <2>3, <2>4, SayMore
  <2> QED
    BY <1>5, <2>1, <2>4, <2>5, <2>6
<1>8. SaysTyped(q)
  <2>1. h.todo = k.todo /\ h.i = k.i
    BY <1>5 DEF Fields
  <2>2. "here" \in Sayings
    BY DEF Sayings
  <2>3. PICK y : y = q
    OBVIOUS
  <2> QED
    BY <1>2, <1>5, <1>6, <2>1, <2>2, <2>3, SayTyped
<1> HIDE DEF q
<1>9. /\ DOMAIN ledger' = DOMAIN ledger \cup {key} /\ ledger'[key] = id
      /\ TablesGrow /\ NewBy(c) /\ TablesTyped'
      /\ \A f : Made(f)' = Made(f)
  <2>1. id \in DOMAIN Entity(key[1]) /\ key[1] # "sessions"
    BY <1>3, <1>4, EntityIs
  <2> HIDE DEF key
  <2> QED
    BY <1>1, <1>3, <2>1, EnterIs
<1> HIDE DEF key
<1>10. call'[c] = q
  BY <1>1, TurnIs DEF ImportInv
<1>11. Steady(k, q) /\ q.at # "idle"
  BY <1>7 DEF Steady
<1>12. Grows(c)
  BY <1>1, <1>2, <1>9, <1>10, <1>11, TurnIs DEF Grows, RunsStay, ImportInv
<1>13. Going(q)
  BY <1>2, <1>7 DEF Going, InFile, Having, AtARow, Reading
<1>14. Believing(c)'
  <2>1. q.commit => /\ q.known \cup q.fresh \subseteq DOMAIN ledger'
                    /\ \A mail \in DOMAIN q.emails : q.emails[mail] \in DOMAIN users'
    BY <1>1, <1>7, <1>9 DEF ImportInv, Believing, tables
  <2> QED
    BY <1>7, <1>9, <1>10, <2>1, BelievesStill
<1>15. Judged(c)' /\ Holding(c)' /\ Ours(c)'
  <2>1. File(c)' = "people"
    BY <1>4, <1>7, <1>10 DEF File
  <2> QED
    BY <1>7, <1>10, <2>1 DEF Judged, Holding, Having, Ours
<1>16. Settling(c)'
  <2>1. RowSettled(c)
    <3>1. \A e, f, i : e = k.export /\ f = File(c) /\ i = k.i
             => Key(e, f, i) \in DOMAIN ledger'
      BY <1>3, <1>9
    <3> QED
      BY <3>1 DEF RowSettled, Settled
  <2> QED
    BY <1>2, <1>7, <1>10, <1>12, <2>1, PassSettles
<1>17. Barred(c)'
  BY <1>2, <1>7, <1>10, <1>12, PassBars
<1>18. /\ \A f \in FileName : \A i \in Made(f) :
            MadeBy(f, i) = c /\ AtHand(f, i) => WholeAt(f, i)'
       /\ \A f \in FileName : \A i \in Made(f)' :
            i \notin Made(f) => WholeAt(f, i)' /\ ~Repeating(c)
  <2>1. k.entity = 0
    BY <1>1, <1>2 DEF Going, Having
  <2> QED
    BY <1>9, <2>1, Nonzero DEF AtHand
<1>19. /\ \A p \in q.says["written"] :
            \/ p \in call[c].says["written"]
            \/ \A x : x = Key(call[c].export, p[1], p[2])
                        => x \notin DOMAIN ledger /\ x \in DOMAIN ledger'
       /\ q.says["clashed"] = call[c].says["clashed"]
  BY <1>7
<1> QED
  BY <1>1, <1>2, <1>7, <1>8, <1>9, <1>11, <1>13, <1>14, <1>15, <1>16, <1>17, <1>18,
     <1>19, WriteKeeps
(* What follows a row that is remembered.                                  *)
Onward(c, q) == /\ q.at = "rows" /\ q.i = call[c].i + 1 /\ q.entity = 0 /\ q.student = 1
Passed(c, q) ==
  /\ Onward(c, q)
  /\ File(c) = "sessions" => TheRow(c).students = <<>>
Seating(c, q) ==
  /\ q.at = "attach" /\ q.i = call[c].i /\ q.entity = call[c].entity
  /\ q.student = call[c].student
  /\ File(c) = "sessions" /\ TheRow(c).students # <<>>
Noted(c, q) ==
  /\ Shaped(q)
  /\ q.commit = call[c].commit /\ q.batch = call[c].batch
  /\ q.export = call[c].export /\ q.todo = call[c].todo
  /\ q.known = call[c].known /\ q.names = call[c].names
  /\ q.pending = call[c].pending /\ q.after = call[c].after
  /\ q.fresh = call[c].fresh \cup {TheKey(c)}
  /\ q.says["written"] = call[c].says["written"] \cup {<<File(c), call[c].i>>}
  /\ \A word \in Sayings : word # "written" => q.says[word] = call[c].says[word]
NotedBusy(c, q) ==
  q.busy = IF File(c) = "sessions" /\ Blocking(c)
           THEN call[c].busy \cup {Span(Instructor(c), TheRow(c))}
           ELSE call[c].busy
NotedMail(c, q) ==
  \A mail \in DOMAIN q.emails :
    \/ mail \in DOMAIN call[c].emails /\ q.emails[mail] = call[c].emails[mail]
    \/ File(c) = "people" /\ q.emails[mail] = call[c].entity

LEMMA FreshIs ==
  ASSUME NEW k, Shaped(k), NEW key, NEW h, h = [k EXCEPT !.fresh = @ \cup {key}]
  PROVE  /\ Shaped(h) /\ h.fresh = k.fresh \cup {key}
         /\ h.at = k.at /\ h.commit = k.commit /\ h.batch = k.batch
         /\ h.export = k.export /\ h.todo = k.todo /\ h.i = k.i /\ h.known = k.known
         /\ h.names = k.names /\ h.emails = k.emails /\ h.busy = k.busy
         /\ h.pending = k.pending /\ h.entity = k.entity /\ h.student = k.student
         /\ h.says = k.says /\ h.after = k.after
BY DEF Shaped, Fields

LEMMA MailIs ==
  ASSUME NEW k, Shaped(k), NEW mails, NEW h, h = [k EXCEPT !.emails = mails]
  PROVE  /\ Shaped(h) /\ h.emails = mails
         /\ h.at = k.at /\ h.commit = k.commit /\ h.batch = k.batch
         /\ h.export = k.export /\ h.todo = k.todo /\ h.i = k.i /\ h.known = k.known
         /\ h.names = k.names /\ h.fresh = k.fresh /\ h.busy = k.busy
         /\ h.pending = k.pending /\ h.entity = k.entity /\ h.student = k.student
         /\ h.says = k.says /\ h.after = k.after
BY DEF Shaped, Fields

Seat(k, p) == [k EXCEPT !.at = "attach", !.says.written = @ \cup {p}]
LEMMA SeatIs ==
  ASSUME NEW k, Shaped(k), NEW p, NEW h, h = Seat(k, p)
  PROVE  /\ Shaped(h) /\ h.at = "attach"
         /\ h.fresh = k.fresh /\ h.commit = k.commit /\ h.batch = k.batch
         /\ h.export = k.export /\ h.todo = k.todo /\ h.i = k.i /\ h.known = k.known
         /\ h.names = k.names /\ h.emails = k.emails /\ h.busy = k.busy
         /\ h.pending = k.pending /\ h.entity = k.entity /\ h.student = k.student
         /\ h.after = k.after
         /\ h.says["written"] = k.says["written"] \cup {p}
         /\ \A word \in Sayings : word # "written" => h.says[word] = k.says[word]
BY DEF Shaped, Fields, Sayings, Seat

LEMMA HeldIs ==
  ASSUME NEW c, NEW k, Shaped(k), NEW h, h = Hold(c, k)
  PROVE  /\ Shaped(h)
         /\ h.at = k.at /\ h.commit = k.commit /\ h.batch = k.batch
         /\ h.export = k.export /\ h.todo = k.todo /\ h.i = k.i /\ h.known = k.known
         /\ h.names = k.names /\ h.emails = k.emails /\ h.fresh = k.fresh
         /\ h.pending = k.pending /\ h.entity = k.entity /\ h.student = k.student
         /\ h.says = k.says /\ h.after = k.after
         /\ h.busy = IF File(c) = "sessions" /\ Blocking(c)
                     THEN k.busy \cup {Span(Instructor(c), TheRow(c))}
                     ELSE k.busy
<1>1. /\ Shaped(h) /\ \A x \in Fields : x # "busy" => h[x] = k[x]
  BY HoldIs
<1>2. h.busy = IF File(c) = "sessions" /\ Blocking(c)
               THEN k.busy \cup {Span(Instructor(c), TheRow(c))}
               ELSE k.busy
  BY HoldIs
<1> QED
  BY <1>1, <1>2 DEF Fields
LEMMA KeptIs ==
  ASSUME NEW c, Shaped(call[c]), NEW q, q = Kept(c)
  PROVE  Noted(c, q) /\ NotedBusy(c, q) /\ NotedMail(c, q) /\ (Passed(c, q) \/ Seating(c, q))
<1>0. "written" \in Sayings
  BY DEF Sayings
<1>1. PICK k, key, h : /\ k = call[c] /\ key = TheKey(c)
                       /\ h = [k EXCEPT !.fresh = @ \cup {key}]
  OBVIOUS
<1>2. /\ Shaped(k) /\ Shaped(h) /\ h.fresh = k.fresh \cup {key}
      /\ h.at = k.at /\ h.commit = k.commit /\ h.batch = k.batch
      /\ h.export = k.export /\ h.todo = k.todo /\ h.i = k.i /\ h.known = k.known
      /\ h.names = k.names /\ h.emails = k.emails /\ h.busy = k.busy
      /\ h.pending = k.pending /\ h.entity = k.entity /\ h.student = k.student
      /\ h.says = k.says /\ h.after = k.after
  BY <1>1, FreshIs
<1>3. ASSUME File(c) = "people"
      PROVE  q = Say([h EXCEPT !.emails =
                        IF TheRow(c).email = None THEN h.emails
                        ELSE [m \in DOMAIN h.emails \cup {TheRow(c).email} |->
                               IF m = TheRow(c).email THEN h.entity ELSE h.emails[m]]],
                      "written")
  BY <1>1, <1>2, <1>3 DEF Kept
<1>4. ASSUME File(c) = "sessions", TheRow(c).students # <<>>
      PROVE  q = [Hold(c, h) EXCEPT !.at = "attach",
                    !.says.written = @ \cup {<<"sessions", h.i>>}]
  BY <1>1, <1>4 DEF Kept
<1>5. ASSUME File(c) # "people", ~(File(c) = "sessions" /\ TheRow(c).students # <<>>)
      PROVE  q = Say(Hold(c, h), "written")
  BY <1>1, <1>5 DEF Kept
<1>6. CASE File(c) = "people"
  <2>1. PICK mails : mails = IF TheRow(c).email = None THEN h.emails
                        ELSE [m \in DOMAIN h.emails \cup {TheRow(c).email} |->
                               IF m = TheRow(c).email THEN h.entity ELSE h.emails[m]]
    OBVIOUS
  <2>2. PICK p : p = [h EXCEPT !.emails = mails]
    OBVIOUS
  <2>3. /\ Shaped(p) /\ p.emails = mails
        /\ p.commit = h.commit /\ p.batch = h.batch
        /\ p.export = h.export /\ p.todo = h.todo /\ p.i = h.i /\ p.known = h.known
        /\ p.names = h.names /\ p.fresh = h.fresh /\ p.busy = h.busy
        /\ p.pending = h.pending /\ p.says = h.says /\ p.after = h.after
    BY <1>2, <2>2, MailIs
  <2>4. q = Say(p, "written")
    BY <1>3, <1>6, <2>1, <2>2
  <2>9. Tells(p, "written", q)
    BY <1>0, <2>3, <2>4, SayTells
  <2>5. /\ Shaped(q)
        /\ q.at = "rows" /\ q.i = p.i + 1 /\ q.entity = 0 /\ q.student = 1
        /\ q.commit = p.commit /\ q.batch = p.batch /\ q.export = p.export
        /\ q.todo = p.todo /\ q.known = p.known /\ q.fresh = p.fresh
    BY <2>9 DEF Tells
  <2>6. /\ q.names = p.names /\ q.emails = p.emails /\ q.busy = p.busy
        /\ q.pending = p.pending /\ q.after = p.after
    BY <2>9 DEF Tells
  <2>7. /\ q.says["written"] = p.says["written"] \cup {<<Head(p.todo), p.i>>}
        /\ \A word \in Sayings : word # "written" => q.says[word] = p.says[word]
    BY <2>9 DEF Tells
  <2>8. NotedMail(c, q)
    <3>1. \A mail \in DOMAIN mails :
            \/ mail \in DOMAIN h.emails /\ mails[mail] = h.emails[mail]
            \/ mails[mail] = h.entity
      BY <2>1
    <3> QED
      BY <1>1, <1>2, <1>6, <2>3, <2>6, <3>1 DEF NotedMail
  <2> QED
    BY <1>1, <1>2, <1>6, <2>3, <2>5, <2>6, <2>7, <2>8
       DEF Noted, NotedBusy, Passed, Onward, File
<1>7. CASE File(c) # "people"
  <2>1. PICK p : p = Hold(c, h)
    OBVIOUS
  <2>2. /\ Shaped(p)
        /\ p.commit = h.commit /\ p.batch = h.batch
        /\ p.export = h.export /\ p.todo = h.todo /\ p.i = h.i /\ p.known = h.known
        /\ p.names = h.names /\ p.emails = h.emails /\ p.fresh = h.fresh
        /\ p.pending = h.pending /\ p.entity = h.entity /\ p.student = h.student
        /\ p.says = h.says /\ p.after = h.after
        /\ p.busy = IF File(c) = "sessions" /\ Blocking(c)
                    THEN h.busy \cup {Span(Instructor(c), TheRow(c))}
                    ELSE h.busy
    BY <1>2, <2>1, HeldIs
  <2>3. CASE File(c) = "sessions" /\ TheRow(c).students # <<>>
    <3>1. PICK z : z = <<"sessions", h.i>>
      OBVIOUS
    <3>2. q = Seat(p, z)
      BY <1>4, <2>1, <2>3, <3>1 DEF Seat
    <3>3. /\ Shaped(q) /\ q.at = "attach"
          /\ q.fresh = p.fresh /\ q.commit = p.commit /\ q.batch = p.batch
          /\ q.export = p.export /\ q.todo = p.todo /\ q.i = p.i /\ q.known = p.known
          /\ q.names = p.names /\ q.emails = p.emails /\ q.busy = p.busy
          /\ q.pending = p.pending /\ q.entity = p.entity /\ q.student = p.student
          /\ q.after = p.after
          /\ q.says["written"] = p.says["written"] \cup {z}
          /\ \A word \in Sayings : word # "written" => q.says[word] = p.says[word]
      <4>1. Shaped(p)
        BY <2>2
      <4>2. /\ Shaped(q) /\ q.at = "attach"
            /\ q.fresh = p.fresh /\ q.commit = p.commit /\ q.batch = p.batch
            /\ q.export = p.export /\ q.todo = p.todo /\ q.i = p.i
        BY <3>2, <4>1, SeatIs
      <4>3. /\ q.known = p.known /\ q.names = p.names /\ q.emails = p.emails
            /\ q.busy = p.busy /\ q.pending = p.pending /\ q.entity = p.entity
            /\ q.student = p.student /\ q.after = p.after
        BY <3>2, <4>1, SeatIs
      <4>4. /\ q.says["written"] = p.says["written"] \cup {z}
            /\ \A word \in Sayings : word # "written" => q.says[word] = p.says[word]
        BY <3>2, <4>1, SeatIs
      <4> QED
        BY <4>2, <4>3, <4>4
    <3>4. z = <<File(c), h.i>>
      BY <2>3, <3>1
    <3> QED
      BY <1>1, <1>2, <2>2, <2>3, <3>3, <3>4
         DEF Noted, NotedBusy, NotedMail, Seating
  <2>4. CASE ~(File(c) = "sessions" /\ TheRow(c).students # <<>>)
    <3>1. q = Say(p, "written")
      BY <1>5, <1>7, <2>1, <2>4
    <3>5. Tells(p, "written", q)
      BY <1>0, <2>2, <3>1, SayTells
    <3>2. /\ Shaped(q)
          /\ q.at = "rows" /\ q.i = p.i + 1 /\ q.entity = 0 /\ q.student = 1
          /\ q.commit = p.commit /\ q.batch = p.batch /\ q.export = p.export
          /\ q.todo = p.todo /\ q.known = p.known /\ q.fresh = p.fresh
      BY <3>5 DEF Tells
    <3>3. /\ q.names = p.names /\ q.emails = p.emails /\ q.busy = p.busy
          /\ q.pending = p.pending /\ q.after = p.after
      BY <3>5 DEF Tells
    <3>4. /\ q.says["written"] = p.says["written"] \cup {<<Head(p.todo), p.i>>}
          /\ \A word \in Sayings : word # "written" => q.says[word] = p.says[word]
      BY <3>5 DEF Tells
    <3> QED
      BY <1>1, <1>2, <2>2, <2>4, <3>2, <3>3, <3>4
         DEF Noted, NotedBusy, NotedMail, Passed, Onward, File
  <2> QED
    BY <2>3, <2>4
<1> QED
  BY <1>6, <1>7
LEMMA Remembers ==
  ASSUME ImportInv, NEW c \in Runs, Remember(c)
  PROVE  ImportInv'
<1> DEFINE k == call[c]
           r == TheRow(c)
           n == k.entity
           key == TheKey(c)
           f == File(c)
           q == Kept(c)
<1>1. /\ k.at = "remember" /\ key \notin DOMAIN ledger /\ Enter(key, n) /\ Turn(c, q)
      /\ UNCHANGED tables /\ batch' = batch /\ trail' = trail
  BY DEF Remember
<1>2. /\ Shaped(k) /\ Going(k) /\ SaysTyped(k) /\ k.at \in AtARow /\ k.at \in InFile
      /\ k.at \in Having /\ Active(c)
  BY <1>1, Stands, TypedSays
     DEF ImportInv, AtARow, Having, InFile, Active, Working
<1>3. k.commit /\ k.todo # <<>> /\ k.student = 1 /\ k.i \in Nat \ {0}
      /\ k.todo \in Seq(FileName) /\ k.pending = <<>>
  BY <1>1, <1>2 DEF Going
<1>4. /\ key \in Keys /\ key[1] = f /\ key # None /\ k.export \in Exports
      /\ f \in FileName /\ k.i \in DOMAIN Rows(k.export, f)
      /\ key = Key(k.export, f, k.i) /\ r = Rows(k.export, f)[k.i]
      /\ <<f, k.i>> \in Position
  BY <1>2, AtTheRow, InFileIs
<1>5. /\ n \in Made(f) /\ MadeBy(f, n) = c /\ SourceOf(f, n) = key
      /\ f = "sessions" => AsTheRow(c, sessions[n])
  BY <1>1, <1>2 DEF ImportInv, Holding
<1>6. n \in DOMAIN Entity(f)
  BY <1>5 DEF Made
<1>7. Noted(c, q) /\ NotedBusy(c, q) /\ NotedMail(c, q) /\ (Passed(c, q) \/ Seating(c, q))
  <2> HIDE DEF q
  <2>1. q = Kept(c)
    BY DEF q
  <2> QED
    BY <1>2, <2>1, KeptIs
<1> HIDE DEF q
<1>8. /\ Shaped(q) /\ q.commit = k.commit /\ q.batch = k.batch
      /\ q.export = k.export /\ q.todo = k.todo
      /\ q.known = k.known /\ q.names = k.names
      /\ q.pending = k.pending /\ q.after = k.after
      /\ q.fresh = k.fresh \cup {key}
      /\ q.says["written"] = k.says["written"] \cup {<<f, k.i>>}
      /\ \A word \in Sayings : word # "written" => q.says[word] = k.says[word]
  BY <1>7 DEF Noted
<1>9. call'[c] = q
  BY <1>1, TurnIs DEF ImportInv
<1>10. /\ DOMAIN ledger' = DOMAIN ledger \cup {key} /\ ledger'[key] = n
       /\ TablesGrow /\ NewBy(c) /\ TablesTyped'
       /\ \A g : Made(g)' = Made(g)
       /\ \A g, i : SourceOf(g, i)' = SourceOf(g, i) /\ MadeBy(g, i)' = MadeBy(g, i)
  <2>1. n \in DOMAIN Entity(key[1])
    BY <1>4, <1>6
  <2>2. key[1] = "sessions" => sessions[n].by = c
    BY <1>4, <1>5, MadeIs
  <2> HIDE DEF key, n
  <2> QED
    BY <1>1, <1>4, <2>1, <2>2, EnterIs
<1> HIDE DEF key, f, n, r
<1>11. q.at \in {"rows", "attach"}
  BY <1>7 DEF Passed, Onward, Seating
<1>12. Steady(k, q) /\ q.at # "idle"
  BY <1>8, <1>11 DEF Steady
<1>13. Grows(c)
  BY <1>1, <1>2, <1>9, <1>10, <1>12, TurnIs DEF Grows, RunsStay, ImportInv
<1>14. ~Repeating(c) /\ ~Repeating(c)'
  <2>1. ~Repeating(c)
    BY <1>2, NotRepeating
  <2>2. k.at # "idle"
    BY <1>1
  <2> QED
    BY <1>13, <2>1, <2>2, AgainStays
<1>15. SaysTyped(q)
  <2>1. IsFiniteSet(q.says["written"])
    <3>1. PICK S, x : S = k.says["written"] /\ x = <<f, k.i>>
      OBVIOUS
    <3>2. IsFiniteSet(S)
      BY <1>2, <3>1 DEF SaysTyped, Countable
    <3>3. IsFiniteSet(S \cup {x})
      BY <3>2, FS_AddElement
    <3> QED
      BY <1>8, <3>1, <3>3
  <2>2. Countable(q)
    BY <1>2, <1>8, <2>1 DEF SaysTyped, Countable, Sayings
  <2> QED
    BY <1>2, <1>4, <1>8, <1>11, <2>2 DEF SaysTyped, Working, Sayings
<1>16. Seating(c, q) =>
         /\ q.at = "attach" /\ q.i = k.i /\ q.entity = n /\ q.student = 1
         /\ f = "sessions" /\ r.students # <<>>
  BY <1>3 DEF Seating, n, f, r
<1>17. Passed(c, q) =>
         /\ q.at = "rows" /\ q.i = k.i + 1 /\ q.entity = 0 /\ q.student = 1
         /\ f = "sessions" => r.students = <<>>
  BY DEF Passed, Onward, f, r
<1>18. f = "sessions" => /\ r.students \in Seq(STRING) /\ key[2][4] = r.students
                         /\ sessions[n].source = key
  <2>1. ASSUME f = "sessions" PROVE r.students \in Seq(STRING)
    BY <1>4, <2>1, SessionAt
  <2>2. ASSUME f = "sessions" PROVE key[2][4] = r.students
    BY <1>4, <2>2, KeyIs
  <2>3. ASSUME f = "sessions" PROVE sessions[n].source = key
    BY <1>5, <2>3, MadeIs
  <2> QED
    BY <2>1, <2>2, <2>3
<1>19. Going(q)
  <2>1. CASE Passed(c, q)
    <3>1. q.i \in Nat \ {0}
      BY <1>3, <1>17, <2>1
    <3> QED
      BY <1>2, <1>3, <1>4, <1>8, <1>17, <2>1, <3>1
         DEF Going, InFile, Having, AtARow, Reading
  <2>2. CASE Seating(c, q)
    <3>1. RowOf(q) = r
      BY <1>8, <1>16, <2>2 DEF RowOf, TheRow, File, r
    <3>2. 1 <= Len(r.students)
      <4>1. r.students \in Seq(STRING) /\ r.students # <<>>
        BY <1>16, <1>18, <2>2
      <4> QED
        BY <4>1, LenProperties, EmptySeq
    <3>3. Head(k.todo) = "sessions"
      BY <1>16, <2>2 DEF File, f
    <3>4. k.i <= Len(Rows(k.export, Head(k.todo)))
      BY <1>1, <1>2 DEF Going
    <3> QED
      BY <1>2, <1>3, <1>4, <1>8, <1>16, <2>2, <3>1, <3>2, <3>3, <3>4
         DEF Going, InFile, Having, AtARow, Reading
  <2> QED
    BY <1>7, <2>1, <2>2
<1>20. f = "sessions" /\ Blocking(c) =>
         /\ Span(Instructor(c), TheRow(c)) \in BusyByInstructor(sessions)
  <2>1. ASSUME f = "sessions", Blocking(c)
        PROVE  Span(Instructor(c), TheRow(c)) \in BusyByInstructor(sessions)
    <3>1. AsTheRow(c, sessions[n]) /\ n \in DOMAIN sessions
      BY <1>5, <2>1, MadeIs
    <3>2. /\ Holds(sessions[n].who, sessions[n].status)
          /\ Span(Instructor(c), TheRow(c)) =
               [who |-> sessions[n].who, from |-> sessions[n].from,
                to |-> sessions[n].to]
      BY <2>1, <3>1 DEF AsTheRow, Blocking, Span
    <3> QED
      BY <3>1, <3>2 DEF BusyByInstructor
  <2> QED
    BY <2>1
<1>21. Believing(c)'
  <2>1. /\ k.known \cup k.fresh \subseteq DOMAIN ledger
        /\ \A mail \in DOMAIN k.emails : k.emails[mail] \in DOMAIN users
        /\ k.busy \subseteq BusyByInstructor(sessions)
    BY <1>3 DEF ImportInv, Believing
  <2>2. users' = users /\ sessions' = sessions
    BY <1>1 DEF tables
  <2>3. \A mail \in DOMAIN q.emails : q.emails[mail] \in DOMAIN users'
    <3>1. f = "people" => n \in DOMAIN users
      BY <1>6, EntityIs
    <3> QED
      BY <1>7, <2>1, <2>2, <3>1 DEF NotedMail, f, n
  <2>4. q.busy \subseteq BusyByInstructor(sessions')
    BY <1>7, <1>20, <2>1, <2>2 DEF NotedBusy, f
  <2>5. q.known \cup q.fresh \subseteq DOMAIN ledger'
    BY <1>8, <1>10, <2>1
  <2> QED
    BY <1>8, <1>9, <1>10, <2>3, <2>4, <2>5, BelievesStill
<1>22. File(c)' = f
  BY <1>8, <1>9 DEF File, f
<1>23. ASSUME Seating(c, q)
       PROVE  TheKey(c)' = key /\ f = "sessions"
  BY <1>8, <1>9, <1>16, <1>23 DEF TheKey, File, key
<1>24. Holding(c)'
  <2>1. CASE Passed(c, q)
    BY <1>9, <1>17, <2>1 DEF Holding, Having
  <2>2. CASE Seating(c, q)
    <3>1. PICK m, x : m = n /\ x = key
      OBVIOUS
    <3>2. /\ m \in Made("sessions")' /\ MadeBy("sessions", m)' = c
          /\ SourceOf("sessions", m)' = x
      BY <1>5, <1>10, <1>23, <2>2, <3>1
    <3>3. /\ q.at = "attach" /\ q.entity = m /\ q.student = 1
      BY <1>16, <2>2, <3>1
    <3>4. x \in DOMAIN ledger' /\ ledger'[x] = m
      BY <1>10, <3>1
    <3>5. TheKey(c)' = x /\ File(c)' = "sessions"
      BY <1>22, <1>23, <2>2, <3>1
    <3> QED
      BY <1>9, <3>2, <3>3, <3>4, <3>5 DEF Holding
  <2> QED
    BY <1>7, <2>1, <2>2
<1>25. Ours(c)'
  <2>1. ASSUME f = "sessions", NEW i \in DOMAIN sessions, sessions[i].by = c,
               Holds(sessions[i].who, sessions[i].status)
        PROVE  \/ [who |-> sessions[i].who, from |-> sessions[i].from,
                   to |-> sessions[i].to] \in q.busy
               \/ LostTheKey("sessions", i)'
    <3>1. \/ [who |-> sessions[i].who, from |-> sessions[i].from,
              to |-> sessions[i].to] \in k.busy
          \/ LostTheKey("sessions", i)'
          \/ n = i
      BY <1>2, <1>3, <1>13, <2>1, OursStill DEF f, n
    <3>2. k.busy \subseteq q.busy
      BY <1>7 DEF NotedBusy
    <3>3. ASSUME n = i
          PROVE  [who |-> sessions[i].who, from |-> sessions[i].from,
                  to |-> sessions[i].to] \in q.busy
      <4>1. AsTheRow(c, sessions[i])
        BY <1>5, <2>1, <3>3
      <4>2. /\ Blocking(c)
            /\ Span(Instructor(c), TheRow(c)) =
                 [who |-> sessions[i].who, from |-> sessions[i].from,
                  to |-> sessions[i].to]
        BY <2>1, <4>1 DEF AsTheRow, Blocking, Span
      <4> QED
        BY <1>7, <2>1, <4>2 DEF NotedBusy, f
    <3> QED
      BY <3>1, <3>2, <3>3
  <2>2. sessions' = sessions
    BY <1>1 DEF tables
  <2> QED
    BY <1>9, <1>22, <2>1, <2>2 DEF Ours
<1>26. Settling(c)'
  <2>1. CASE Passed(c, q)
    <3>1. RowSettled(c)
      <4>1. \A e, g, i : e = k.export /\ g = File(c) /\ i = k.i
               => Key(e, g, i) \in DOMAIN ledger'
        BY <1>4, <1>10 DEF f
      <4> QED
        BY <4>1 DEF RowSettled, Settled
    <3> QED
      BY <1>2, <1>8, <1>9, <1>13, <1>17, <2>1, <3>1, PassSettles
  <2>2. CASE Seating(c, q)
    BY <1>2, <1>8, <1>9, <1>10, <1>16, <2>2, GrowSettles
  <2> QED
    BY <1>7, <2>1, <2>2
<1>27. Judged(c)' /\ Barred(c)'
  BY <1>9, <1>11, <1>14 DEF Judged, Barred
<1>28. ASSUME NEW g \in FileName, NEW i \in Made(g), MadeBy(g, i) = c, AtHand(g, i)
       PROVE  WholeAt(g, i)'
  <2>1. g = f /\ i = n
    BY <1>28 DEF AtHand, File, f, n
  <2>2. MadeBy(g, i)' = c /\ SourceOf(g, i)' = key
    BY <1>5, <1>10, <1>28, <2>1
  <2>3. CASE Seating(c, q)
    <3>1. AtHand(g, i)'
      <4>1. q.at # "done" /\ q.todo # <<>> /\ Head(q.todo) = g /\ q.entity = i
        BY <1>3, <1>8, <1>16, <2>1, <2>3 DEF File, f
      <4> QED
        BY <1>9, <2>2, <4>1 DEF AtHand
    <3> QED
      BY <3>1 DEF WholeAt
  <2>4. CASE Passed(c, q)
    <3>1. SourceOf(g, i)' \in DOMAIN ledger' /\ ledger'[SourceOf(g, i)'] = i
      BY <1>10, <2>1, <2>2
    <3>2. g = "sessions" => DOMAIN sessions'[i].source[2][4] = {}
      <4>1. g = "sessions" => sessions'[i].source[2][4] = <<>>
        BY <1>1, <1>17, <1>18, <2>1, <2>4 DEF tables
      <4> QED
        BY <4>1
    <3>3. Filed(g, i)'
      BY <3>1, <3>2 DEF Filed
    <3> QED
      BY <3>3 DEF WholeAt
  <2> QED
    BY <1>7, <2>3, <2>4
<1>29. \A g \in FileName : \A i \in Made(g)' :
         i \notin Made(g) => WholeAt(g, i)' /\ ~Repeating(c)
  BY <1>10
<1>30. \A p \in q.says["written"] :
         \/ p \in call[c].says["written"]
         \/ \A x : x = Key(call[c].export, p[1], p[2])
                     => x \notin DOMAIN ledger /\ x \in DOMAIN ledger'
  <2>1. ASSUME NEW p \in q.says["written"], p \notin k.says["written"]
        PROVE  \A x : x = Key(k.export, p[1], p[2])
                        => x \notin DOMAIN ledger /\ x \in DOMAIN ledger'
    <3>1. p = <<f, k.i>>
      BY <1>8, <2>1
    <3>2. p[1] = f /\ p[2] = k.i
      BY <3>1
    <3>3. Key(k.export, p[1], p[2]) = key
      BY <1>4, <3>2
    <3>4. key \notin DOMAIN ledger
      BY <1>1 DEF key
    <3> QED
      BY <1>10, <3>3, <3>4
  <2> QED
    BY <2>1
<1>31. q.says["clashed"] = call[c].says["clashed"]
  BY <1>8 DEF Sayings
<1> QED
  BY <1>1, <1>2, <1>8, <1>10, <1>12, <1>15, <1>19, <1>21, <1>24, <1>25, <1>26, <1>27,
     <1>28, <1>29, <1>30, <1>31, WriteKeeps
(* A student of a row is seated, or said to be unknown.                    *)
Told(k, q) ==
  /\ Shaped(q)
  /\ q.commit = k.commit /\ q.batch = k.batch /\ q.export = k.export
  /\ q.todo = k.todo /\ q.known = k.known /\ q.fresh = k.fresh
  /\ q.names = k.names /\ q.emails = k.emails /\ q.busy = k.busy
  /\ q.pending = k.pending /\ q.after = k.after
  /\ \A word \in Sayings : k.says[word] \subseteq q.says[word]
  /\ \A word \in Sayings : word # "unknown" => q.says[word] = k.says[word]
AnotherOf(k, q) == /\ q.at = "attach" /\ q.i = k.i /\ q.entity = k.entity
                   /\ q.student = k.student + 1
LastOf(k, q) == q.at = "rows" /\ q.i = k.i + 1 /\ q.entity = 0 /\ q.student = 1
Unknown(k, spot) == [k EXCEPT !.says.unknown = @ \cup {spot}]
Another(k) == [k EXCEPT !.student = @ + 1]

LEMMA UnknownIs ==
  ASSUME NEW k, Shaped(k), NEW spot, NEW h, h = Unknown(k, spot)
  PROVE  /\ Shaped(h)
         /\ h.at = k.at /\ h.commit = k.commit /\ h.batch = k.batch
         /\ h.export = k.export /\ h.todo = k.todo /\ h.i = k.i /\ h.known = k.known
         /\ h.fresh = k.fresh /\ h.names = k.names /\ h.emails = k.emails
         /\ h.busy = k.busy /\ h.pending = k.pending /\ h.entity = k.entity
         /\ h.student = k.student /\ h.after = k.after
         /\ h.says["unknown"] = k.says["unknown"] \cup {spot}
         /\ \A word \in Sayings : word # "unknown" => h.says[word] = k.says[word]
BY DEF Unknown, Shaped, Fields, Sayings

LEMMA AnotherIs ==
  ASSUME NEW k, Shaped(k), NEW q, q = Another(k)
  PROVE  /\ Shaped(q) /\ q.at = k.at /\ q.i = k.i /\ q.entity = k.entity
         /\ q.student = k.student + 1
         /\ q.commit = k.commit /\ q.batch = k.batch /\ q.export = k.export
         /\ q.todo = k.todo /\ q.known = k.known /\ q.fresh = k.fresh
         /\ q.names = k.names /\ q.emails = k.emails /\ q.busy = k.busy
         /\ q.pending = k.pending /\ q.after = k.after /\ q.says = k.says
BY DEF Another, Shaped, Fields

Fits(c) == /\ TheRow(c).students[call[c].student] \in DOMAIN call[c].names
           /\ call[c].names[TheRow(c).students[call[c].student]]
                \notin sessions[call[c].entity].roster

LEMMA AttachIs ==
  ASSUME NEW c, Shaped(call[c]), call[c].at = "attach", NEW k, k = call[c],
         NEW spot, spot = <<"sessions", k.i, k.student>>,
         NEW said, said = IF Fits(c) THEN k ELSE Unknown(k, spot),
         NEW q, q = IF k.student < Len(TheRow(c).students) THEN Another(said) ELSE On(said)
  PROVE  /\ Told(k, q)
         /\ ~Fits(c) => spot \in q.says["unknown"]
         /\ IF k.student < Len(TheRow(c).students) THEN AnotherOf(k, q) ELSE LastOf(k, q)
<1>1. /\ Shaped(said)
      /\ said.at = k.at /\ said.commit = k.commit /\ said.batch = k.batch
      /\ said.export = k.export /\ said.todo = k.todo /\ said.i = k.i
      /\ said.known = k.known
      /\ said.fresh = k.fresh /\ said.names = k.names /\ said.emails = k.emails
      /\ said.busy = k.busy /\ said.pending = k.pending /\ said.entity = k.entity
      /\ said.student = k.student /\ said.after = k.after
      /\ \A word \in Sayings : word # "unknown" => said.says[word] = k.says[word]
      /\ k.says["unknown"] \subseteq said.says["unknown"]
      /\ ~Fits(c) => spot \in said.says["unknown"]
  <2>1. CASE Fits(c)
    <3>1. said = k
      BY <2>1
    <3> QED
      BY <2>1, <3>1
  <2>2. CASE ~Fits(c)
    <3>1. said = Unknown(k, spot)
      BY <2>2
    <3>2. Shaped(k)
      OBVIOUS
    <3>3. /\ Shaped(said)
          /\ said.at = k.at /\ said.commit = k.commit /\ said.batch = k.batch
          /\ said.export = k.export /\ said.todo = k.todo /\ said.i = k.i
      BY <3>1, <3>2, UnknownIs
    <3>4. /\ said.known = k.known
          /\ said.fresh = k.fresh /\ said.names = k.names /\ said.emails = k.emails
          /\ said.busy = k.busy /\ said.pending = k.pending /\ said.entity = k.entity
          /\ said.student = k.student /\ said.after = k.after
      BY <3>1, <3>2, UnknownIs
    <3>5. /\ \A word \in Sayings : word # "unknown" => said.says[word] = k.says[word]
          /\ said.says["unknown"] = k.says["unknown"] \cup {spot}
      BY <3>1, <3>2, UnknownIs
    <3> QED
      BY <2>2, <3>3, <3>4, <3>5
  <2> QED
    BY <2>1, <2>2
<1>2. \A word \in Sayings : k.says[word] \subseteq said.says[word]
  BY <1>1 DEF Sayings
<1>5. \A z : /\ Shaped(z)
             /\ z.commit = said.commit /\ z.batch = said.batch /\ z.export = said.export
             /\ z.todo = said.todo /\ z.known = said.known /\ z.fresh = said.fresh
             /\ z.names = said.names /\ z.emails = said.emails /\ z.busy = said.busy
             /\ z.pending = said.pending /\ z.after = said.after
             /\ z.says = said.says
             => Told(k, z) /\ (~Fits(c) => spot \in z.says["unknown"])
  BY <1>1, <1>2 DEF Told
<1>3. CASE k.student < Len(TheRow(c).students)
  <2>1. q = Another(said)
    BY <1>3
  <2>2. /\ Shaped(q) /\ q.at = said.at /\ q.i = said.i /\ q.entity = said.entity
        /\ q.student = said.student + 1
        /\ q.commit = said.commit /\ q.batch = said.batch /\ q.export = said.export
        /\ q.todo = said.todo /\ q.known = said.known /\ q.fresh = said.fresh
        /\ q.names = said.names /\ q.emails = said.emails /\ q.busy = said.busy
        /\ q.pending = said.pending /\ q.after = said.after /\ q.says = said.says
    BY <1>1, <2>1, AnotherIs
  <2>3. Told(k, q) /\ (~Fits(c) => spot \in q.says["unknown"])
    BY <1>5, <2>2
  <2>4. AnotherOf(k, q)
    BY <1>1, <2>2 DEF AnotherOf
  <2> QED
    BY <1>3, <2>3, <2>4
<1>4. CASE ~(k.student < Len(TheRow(c).students))
  <2>1. q = On(said)
    BY <1>4
  <2>2. /\ Shaped(q)
        /\ q.at = "rows" /\ q.i = said.i + 1 /\ q.entity = 0 /\ q.student = 1
        /\ q.commit = said.commit /\ q.batch = said.batch /\ q.export = said.export
        /\ q.todo = said.todo /\ q.known = said.known /\ q.fresh = said.fresh
        /\ q.names = said.names /\ q.emails = said.emails /\ q.busy = said.busy
        /\ q.pending = said.pending /\ q.after = said.after /\ q.says = said.says
    BY <1>1, <2>1, OnIs
  <2>3. Told(k, q) /\ (~Fits(c) => spot \in q.says["unknown"])
    BY <1>5, <2>2
  <2>4. LastOf(k, q)
    BY <1>1, <2>2 DEF LastOf
  <2> QED
    BY <1>4, <2>3, <2>4
<1> QED
  BY <1>3, <1>4
LEMMA AttachesStudent ==
  ASSUME ImportInv, NEW c \in Runs, AttachStudent(c)
  PROVE  ImportInv'
<1> DEFINE k == call[c]
           r == TheRow(c)
           n == k.entity
           m == k.student
           key == TheKey(c)
           u == k.names[r.students[m]]
           spot == <<"sessions", k.i, m>>
           said == IF Fits(c) THEN k ELSE Unknown(k, spot)
           q == IF m < Len(r.students) THEN Another(said) ELSE On(said)
<1>1. /\ k.at = "attach"
      /\ sessions' = IF Fits(c) THEN [sessions EXCEPT ![n].roster = @ \cup {u}]
                                ELSE sessions
      /\ Turn(c, q) /\ UNCHANGED <<users, series, ledger, batch, trail>>
  BY DEF AttachStudent, Fits, Unknown, Another
<1>2. /\ Shaped(k) /\ Going(k) /\ SaysTyped(k) /\ k.at \in AtARow /\ k.at \in InFile
      /\ k.at \in Having /\ Active(c)
  BY <1>1, Stands, TypedSays
     DEF ImportInv, AtARow, Having, InFile, Active, Working
<1>3. /\ k.commit /\ k.todo # <<>> /\ m \in Nat \ {0} /\ k.i \in Nat \ {0}
      /\ k.todo \in Seq(FileName) /\ k.pending = <<>>
      /\ Head(k.todo) = "sessions" /\ File(c) = "sessions"
      /\ m <= Len(r.students)
  <2>1. RowOf(k) = r
    BY DEF RowOf, TheRow, File
  <2> QED
    BY <1>1, <1>2, <2>1 DEF Going, File
<1>4. /\ key \in Keys /\ key[1] = "sessions" /\ key # None /\ k.export \in Exports
      /\ k.i \in DOMAIN Rows(k.export, "sessions")
      /\ key = Key(k.export, "sessions", k.i) /\ r = Rows(k.export, "sessions")[k.i]
  BY <1>2, <1>3, AtTheRow, InFileIs
<1>5. r.students \in Seq(STRING) /\ key[2][4] = r.students
  <2>1. r.students \in Seq(STRING)
    BY <1>4, SessionAt
  <2>2. key[2][4] = r.students
    BY <1>4, KeyIs, FileNames
  <2> QED
    BY <2>1, <2>2
<1>6. /\ n \in DOMAIN sessions /\ sessions[n].by = c /\ sessions[n].source = key
      /\ n \in Made("sessions")
      /\ key \in DOMAIN ledger /\ ledger[key] = n
      /\ \A s \in 1 .. m - 1 : Seated(n, s)
  <2>1. n \in Made("sessions") /\ MadeBy("sessions", n) = c /\ SourceOf("sessions", n) = key
    BY <1>2, <1>3 DEF ImportInv, Holding
  <2>2. /\ key \in DOMAIN ledger /\ ledger[key] = n
        /\ \A s \in 1 .. m - 1 : Seated(n, s)
    BY <1>1 DEF ImportInv, Holding
  <2> QED
    BY <2>1, <2>2, MadeIs
<1>7. /\ Told(k, q) /\ (~Fits(c) => spot \in q.says["unknown"])
      /\ IF m < Len(r.students) THEN AnotherOf(k, q) ELSE LastOf(k, q)
  <2>1. PICK x, p, s, z : x = k /\ p = spot /\ s = said /\ z = q
    OBVIOUS
  <2>2. /\ x = call[c] /\ p = <<"sessions", x.i, x.student>>
        /\ s = IF Fits(c) THEN x ELSE Unknown(x, p)
        /\ z = IF x.student < Len(TheRow(c).students) THEN Another(s) ELSE On(s)
        /\ Shaped(call[c]) /\ call[c].at = "attach"
    BY <1>1, <1>2, <2>1
  <2> HIDE DEF k, spot, said, q, m, r
  <2>3. /\ Told(x, z) /\ (~Fits(c) => p \in z.says["unknown"])
        /\ IF x.student < Len(TheRow(c).students) THEN AnotherOf(x, z) ELSE LastOf(x, z)
    BY <2>2, AttachIs
  <2> QED
    BY <2>1, <2>3 DEF m, r
<1> HIDE DEF q, said
<1>8. Fits(c) => u \in DOMAIN users /\ users[u].name = r.students[m]
  BY <1>3 DEF ImportInv, Believing, Fits, First
<1>9. /\ DOMAIN sessions' = DOMAIN sessions
      /\ \A i \in DOMAIN sessions : i # n => sessions'[i] = sessions[i]
      /\ sessions'[n] = IF Fits(c) THEN [sessions[n] EXCEPT !.roster = @ \cup {u}]
                                   ELSE sessions[n]
  <2> HIDE DEF n, u
  <2> QED
    BY <1>1, <1>6
<1>10. sessions \in Seq(Session) /\ \A i \in DOMAIN sessions : sessions[i] \in Session
  <2>1. sessions \in Seq(Session)
    BY DEF ImportInv, TypeOK
  <2> HIDE DEF Session
  <2> QED
    BY <2>1, ElementOfSeq, LenProperties
<1>11. /\ sessions'[n] \in Session
       /\ sessions'[n].who = sessions[n].who
       /\ sessions'[n].from = sessions[n].from /\ sessions'[n].to = sessions[n].to
       /\ sessions'[n].status = sessions[n].status
       /\ sessions'[n].source = sessions[n].source
       /\ sessions'[n].by = sessions[n].by
       /\ sessions'[n].roster = IF Fits(c) THEN sessions[n].roster \cup {u}
                                           ELSE sessions[n].roster
  <2>1. Fits(c) => u \in Nat
    BY <1>8, UsersCount
  <2>2. sessions[n] \in Session
    BY <1>6, <1>10
  <2> HIDE DEF n, u
  <2> QED
    BY <1>9, <2>1, <2>2 DEF Session
<1> HIDE DEF n, u, key, spot
<1>12. TablesGrow
  BY <1>1, <1>9, <1>11 DEF TablesGrow
<1>13. NewBy(c)
  BY <1>1, <1>9 DEF NewBy
<1>14. TablesTyped'
  <2>1. TablesTyped
    BY AreTyped
  <2>2. \A x \in DOMAIN ledger' : ledger'[x] \in DOMAIN Entity(x[1])'
    <3>1. \A x \in DOMAIN ledger :
            x[1] \in FileName /\ ledger[x] \in DOMAIN Entity(x[1])
      BY <2>1, KeyFile DEF TablesTyped
    <3> QED
      BY <1>1, <1>12, <3>1, EntityGrows
  <2>3. \A i \in DOMAIN sessions' :
          /\ sessions'[i] \in Session
          /\ sessions'[i].who # None => sessions'[i].who \in DOMAIN users'
          /\ sessions'[i].roster \subseteq DOMAIN users'
          /\ sessions'[i].by \in Runs => sessions'[i].source # None
    <3>1. \A i \in DOMAIN sessions :
            /\ sessions[i].who # None => sessions[i].who \in DOMAIN users
            /\ sessions[i].roster \subseteq DOMAIN users
            /\ sessions[i].by \in Runs => sessions[i].source # None
      BY <2>1 DEF TablesTyped
    <3>2. ASSUME NEW i \in DOMAIN sessions, i # n
          PROVE  /\ sessions'[i] \in Session
                 /\ sessions'[i].who # None => sessions'[i].who \in DOMAIN users'
                 /\ sessions'[i].roster \subseteq DOMAIN users'
                 /\ sessions'[i].by \in Runs => sessions'[i].source # None
      BY <1>1, <1>9, <1>10, <3>1, <3>2
    <3>3. /\ sessions'[n] \in Session
          /\ sessions'[n].who # None => sessions'[n].who \in DOMAIN users'
          /\ sessions'[n].roster \subseteq DOMAIN users'
          /\ sessions'[n].by \in Runs => sessions'[n].source # None
      BY <1>1, <1>6, <1>8, <1>11, <3>1
    <3> QED
      BY <1>9, <3>2, <3>3
  <2>4. sessions' \in Seq(Session)
    <3> HIDE DEF Session
    <3>1. DOMAIN sessions = 1 .. Len(sessions) /\ Len(sessions) \in Nat
      BY <1>10, LenProperties
    <3>2. DOMAIN sessions' = 1 .. Len(sessions)
      BY <1>9, <3>1
    <3>3. CASE Fits(c)
      <4>1. sessions' \in [1 .. Len(sessions) -> Session]
        BY <1>1, <2>3, <3>2, <3>3
      <4> QED
        BY <3>1, <4>1, SeqDef
    <3>4. CASE ~Fits(c)
      BY <1>1, <1>10, <3>4
    <3> QED
      BY <3>3, <3>4
  <2> HIDE DEF User, Session, Template
  <2> QED
    BY <1>1, <2>1, <2>2, <2>3, <2>4 DEF TablesTyped
<1>15. call'[c] = q
  BY <1>1, TurnIs DEF ImportInv
<1>16. /\ Shaped(q)
       /\ q.commit = k.commit /\ q.batch = k.batch /\ q.export = k.export
       /\ q.todo = k.todo /\ q.known = k.known /\ q.fresh = k.fresh
       /\ q.names = k.names /\ q.emails = k.emails /\ q.busy = k.busy
       /\ q.pending = k.pending /\ q.after = k.after
       /\ \A word \in Sayings : k.says[word] \subseteq q.says[word]
       /\ \A word \in Sayings : word # "unknown" => q.says[word] = k.says[word]
  BY <1>7 DEF Told
<1>17. \/ /\ m < Len(r.students) /\ q.at = "attach" /\ q.i = k.i /\ q.entity = n
          /\ q.student = m + 1
       \/ /\ ~(m < Len(r.students))
          /\ q.at = "rows" /\ q.i = k.i + 1 /\ q.entity = 0 /\ q.student = 1
  BY <1>7 DEF AnotherOf, LastOf, n
<1>18. Steady(k, q) /\ q.at # "idle"
  BY <1>16, <1>17 DEF Steady
<1>19. Grows(c)
  BY <1>1, <1>2, <1>12, <1>13, <1>15, <1>18, TurnIs DEF Grows, RunsStay, ImportInv
<1>20. ~Repeating(c)'
  <2>1. ~Repeating(c) /\ k.at # "idle"
    BY <1>1, <1>2, NotRepeating
  <2> QED
    BY <1>19, <2>1, AgainStays
<1>21. SaysTyped(q)
  <2>1. q.at \in {"idle"} \cup Working \cup Ended
    BY <1>17 DEF Working
  <2>2. {"written", "here", "refused", "clashed"} \subseteq Sayings \ {"unknown"}
    BY DEF Sayings
  <2> QED
    BY <1>2, <1>16, <2>1, <2>2 DEF SaysTyped, Countable
<1>22. Going(q)
  <2>1. Len(r.students) \in Nat
    BY <1>5, LenProperties
  <2>2. k.i <= Len(Rows(k.export, Head(k.todo)))
    BY <1>1, <1>2 DEF Going
  <2>3. CASE q.at = "attach"
    <3>1. RowOf(q) = r /\ q.i = k.i /\ q.student \in Nat \ {0} /\ q.student <= Len(r.students)
      BY <1>3, <1>16, <1>17, <2>1, <2>3 DEF RowOf, TheRow, File
    <3> QED
      BY <1>3, <1>4, <1>16, <2>2, <2>3, <3>1
         DEF Going, InFile, Having, AtARow, Reading
  <2>4. CASE q.at = "rows"
    <3>1. q.i \in Nat \ {0} /\ q.entity = 0 /\ q.student = 1
      BY <1>3, <1>17, <2>4
    <3> QED
      BY <1>3, <1>4, <1>16, <2>4, <3>1 DEF Going, InFile, Having, AtARow, Reading
  <2> QED
    BY <1>17, <2>3, <2>4
<1>23. Believing(c)'
  <2>1. /\ k.known \cup k.fresh \subseteq DOMAIN ledger
        /\ \A mail \in DOMAIN k.emails : k.emails[mail] \in DOMAIN users
    BY <1>3 DEF ImportInv, Believing
  <2>2. /\ q.known \cup q.fresh \subseteq DOMAIN ledger'
        /\ \A mail \in DOMAIN q.emails : q.emails[mail] \in DOMAIN users'
    BY <1>1, <1>16, <2>1
  <2> QED
    BY <1>12, <1>15, <1>16, <2>2, BelievesStill
<1>24. Judged(c)' /\ Barred(c)'
  BY <1>15, <1>17, <1>20 DEF Judged, Barred
<1>25. ASSUME NEW i, NEW s, i = n, s = m PROVE Seated(i, s)'
  <2>1. sessions'[i].by = c /\ sessions'[i].source = key /\ key[2][4][s] = r.students[m]
    BY <1>5, <1>6, <1>11, <1>25
  <2>2. CASE Fits(c)
    <3>1. u \in sessions'[i].roster /\ users'[u].name = r.students[m]
      BY <1>1, <1>8, <1>11, <1>25, <2>2
    <3>2. PICK v : v = u
      OBVIOUS
    <3>3. v \in sessions'[i].roster /\ users'[v].name = sessions'[i].source[2][4][s]
      BY <2>1, <3>1, <3>2
    <3> QED
      BY <3>3 DEF Seated
  <2>3. CASE ~Fits(c)
    <3>1. spot \in q.says["unknown"]
      BY <1>7, <2>3
    <3>2. spot[3] = m /\ spot[2] = k.i
      BY DEF spot
    <3>3. PICK p : p = spot
      OBVIOUS
    <3>4. /\ p \in call'[c].says["unknown"] /\ p[3] = s
          /\ Key(call'[c].export, "sessions", p[2]) = key
      BY <1>4, <1>15, <1>16, <1>25, <3>1, <3>2, <3>3 DEF key
    <3> QED
      BY <2>1, <3>4 DEF Seated
  <2> QED
    BY <2>2, <2>3
<1>26. ASSUME NEW i, i = n PROVE \A s \in 1 .. m : Seated(i, s)'
  <2>1. ASSUME NEW s \in 1 .. m - 1 PROVE Seated(i, s)'
    <3>1. Seated(i, s) /\ i \in Made("sessions")
      BY <1>6, <1>26, <2>1
    <3> QED
      BY <1>19, <3>1, SeatedStays
  <2>2. \A s \in 1 .. m : s \in 1 .. m - 1 \/ s = m
    BY <1>3
  <2>3. \A s : s = m => Seated(i, s)'
    BY <1>25, <1>26
  <2> QED
    BY <2>1, <2>2, <2>3
<1>27. /\ File(c)' = "sessions"
       /\ q.at = "attach" => TheKey(c)' = key
  <2>1. File(c)' = "sessions"
    BY <1>3, <1>15, <1>16 DEF File
  <2>2. ASSUME q.at = "attach" PROVE TheKey(c)' = key
    BY <1>15, <1>16, <1>17, <2>2 DEF TheKey, File, key
  <2> QED
    BY <2>1, <2>2
<1>28. ASSUME NEW i, i = n
       PROVE  /\ i \in Made("sessions")' /\ MadeBy("sessions", i)' = c
              /\ SourceOf("sessions", i)' = key
  BY <1>4, <1>6, <1>9, <1>11, <1>28, MadeThenIs
<1>29. Holding(c)'
  <2>1. CASE q.at = "attach"
    <3>1. PICK i, x : i = n /\ x = key
      OBVIOUS
    <3>2. /\ i \in Made("sessions")' /\ MadeBy("sessions", i)' = c
          /\ SourceOf("sessions", i)' = x
      BY <1>28, <3>1
    <3>3. x \in DOMAIN ledger' /\ ledger'[x] = i
      BY <1>1, <1>6, <3>1
    <3>4. q.entity = i /\ q.student = m + 1
      BY <1>17, <2>1, <3>1
    <3>5. \A s \in 1 .. q.student - 1 : Seated(i, s)'
      <4>1. \A s \in 1 .. m : Seated(i, s)'
        BY <1>26, <3>1
      <4> QED
        BY <1>3, <3>4, <4>1
    <3>6. TheKey(c)' = x /\ File(c)' = "sessions"
      BY <1>27, <2>1, <3>1
    <3> QED
      BY <1>15, <2>1, <3>2, <3>3, <3>4, <3>5, <3>6 DEF Holding
  <2>2. CASE q.at = "rows"
    BY <1>15, <2>2 DEF Holding, Having
  <2> QED
    BY <1>17, <2>1, <2>2
<1>30. Ours(c)'
  <2>1. ASSUME NEW i \in DOMAIN sessions', sessions'[i].by = c,
               Holds(sessions'[i].who, sessions'[i].status)
        PROVE  \/ [who |-> sessions'[i].who, from |-> sessions'[i].from,
                   to |-> sessions'[i].to] \in q.busy
               \/ LostTheKey("sessions", i)'
    <3>1. /\ i \in DOMAIN sessions
          /\ sessions'[i].who = sessions[i].who
          /\ sessions'[i].from = sessions[i].from /\ sessions'[i].to = sessions[i].to
          /\ sessions'[i].status = sessions[i].status
          /\ sessions'[i].by = sessions[i].by
      BY <1>9, <1>11, <2>1
    <3>2. sessions[i].by = c /\ Holds(sessions[i].who, sessions[i].status)
      BY <2>1, <3>1
    <3>3. k.at # "remember"
      BY <1>1
    <3>4. \/ [who |-> sessions[i].who, from |-> sessions[i].from,
              to |-> sessions[i].to] \in k.busy
          \/ LostTheKey("sessions", i)'
      BY <1>2, <1>3, <1>19, <3>1, <3>2, <3>3, OursStill
    <3> QED
      BY <1>16, <3>1, <3>4
  <2> QED
    BY <1>15, <2>1 DEF Ours
<1>31. Settling(c)'
  <2>1. CASE q.at = "attach"
    BY <1>2, <1>12, <1>15, <1>16, <1>17, <2>1, GrowSettles
  <2>2. CASE q.at = "rows"
    <3>1. RowSettled(c)
      <4>1. \A e, g, i : e = k.export /\ g = File(c) /\ i = k.i
               => Key(e, g, i) \in DOMAIN ledger'
        BY <1>1, <1>3, <1>4, <1>6
      <4> QED
        BY <4>1 DEF RowSettled, Settled
    <3> QED
      BY <1>2, <1>15, <1>16, <1>17, <1>19, <2>2, <3>1, PassSettles
  <2> QED
    BY <1>17, <2>1, <2>2
<1>32. ASSUME NEW g \in FileName, NEW i \in Made(g), MadeBy(g, i) = c, AtHand(g, i)
       PROVE  WholeAt(g, i)'
  <2>1. g = "sessions" /\ i = n
    BY <1>3, <1>32 DEF AtHand, n
  <2>2. MadeBy(g, i)' = c /\ SourceOf(g, i)' = key
    BY <1>28, <2>1
  <2>3. CASE q.at = "attach"
    <3>1. q.at # "done" /\ q.todo # <<>> /\ Head(q.todo) = g /\ q.entity = i
      BY <1>3, <1>16, <1>17, <2>1, <2>3
    <3>2. AtHand(g, i)'
      BY <1>15, <2>2, <3>1 DEF AtHand
    <3> QED
      BY <3>2 DEF WholeAt
  <2>4. CASE q.at = "rows"
    <3>1. SourceOf(g, i)' \in DOMAIN ledger' /\ ledger'[SourceOf(g, i)'] = i
      BY <1>1, <1>6, <2>1, <2>2
    <3>2. DOMAIN sessions'[i].source[2][4] = 1 .. m
      <4>1. Len(r.students) = m /\ DOMAIN r.students = 1 .. Len(r.students)
        <5>1. Len(r.students) \in Nat /\ DOMAIN r.students = 1 .. Len(r.students)
          BY <1>5, LenProperties
        <5> QED
          BY <1>3, <1>17, <2>4, <5>1
      <4>2. sessions'[i].source[2][4] = r.students
        BY <1>5, <1>6, <1>11, <2>1
      <4> QED
        BY <4>1, <4>2
    <3>3. \A s \in 1 .. m : Seated(i, s)'
      BY <1>26, <2>1
    <3>4. Filed(g, i)'
      BY <3>1, <3>2, <3>3 DEF Filed
    <3> QED
      BY <3>4 DEF WholeAt
  <2> QED
    BY <1>17, <2>3, <2>4
<1>33. ASSUME NEW g \in FileName, NEW i \in Made(g)' PROVE i \in Made(g)
  <2>1. CASE g = "sessions"
    BY <1>6, <1>9, <1>11, <1>33, <2>1, MadeIs, MadeThenIs
  <2>2. CASE g = "people" \/ g = "series"
    BY <1>1, <1>33, <2>2, MadeIs, MadeThenIs
  <2> QED
    BY <2>1, <2>2, FileNames
<1>34. /\ \A p \in q.says["written"] :
            \/ p \in call[c].says["written"]
            \/ \A x : x = Key(call[c].export, p[1], p[2])
                        => x \notin DOMAIN ledger /\ x \in DOMAIN ledger'
       /\ q.says["clashed"] = call[c].says["clashed"]
  BY <1>16 DEF Sayings
<1> QED
  BY <1>1, <1>2, <1>12, <1>13, <1>14, <1>16, <1>18, <1>21, <1>22, <1>23, <1>24,
     <1>29, <1>30, <1>31, <1>32, <1>33, <1>34, WriteKeeps
-----------------------------------------------------------------------------
(* The beginning of a request, and the report at its end.                  *)

Batches ==
  /\ batch \in [Runs -> Batch \cup {None}]
  /\ \A b \in Runs : batch[b] # None =>
       /\ batch[b].files # {}
       /\ batch[b].source = (batch[b].status = "previewed")

LEMMA BatchIs ==
  ASSUME NEW b \in Batch
  PROVE  /\ DOMAIN b = BatchFields /\ b.export \in Exports /\ b.files \subseteq FileName
         /\ b.status \in {"previewed", "committed"} /\ b # None
BY ImportAssumption DEF Batch, BatchFields

LEMMA BatchesAre ==
  ASSUME ImportInv
  PROVE  Batches
BY DEF ImportInv, TypeOK, Batched, Batches

LEMMA BatchKeeps ==
  ASSUME ImportInv, NEW c \in Runs, UNCHANGED <<tables, ledger>>, trail' \subseteq Runs,
         NEW q, Turn(c, q), Grows(c), Batches',
         \A b \in Runs :
           (b # c \/ call[c].at # "idle") /\ batch[b] = None => batch'[b] = None,
         q.at # "idle", q.batch \in Runs, batch'[q.batch] # None,
         ~q.commit => q.batch = c,
         Shaped(q), Going(q), SaysTyped(q),
         \A d \in q.after : d \in Runs /\ call[d].at = "done",
         q.says["written"] = call[c].says["written"] \/ q.says["written"] = {},
         q.commit => q.export = call[c].export \/ q.says["written"] = {},
         q.commit => call[c].commit \/ q.says["written"] = {},
         \A p \in q.says["clashed"] : p \in call[c].says["clashed"] /\ call[c].at # "idle",
         \A f \in FileName : \A i \in Made(f) : ~(MadeBy(f, i) = c /\ AtHand(f, i)),
         Believing(c)', Judged(c)', Holding(c)', Ours(c)', Settling(c)', Barred(c)'
  PROVE  ImportInv'
<1> DEFINE k == call[c]
<1>1. /\ call'[c] = q /\ DOMAIN call' = Runs
      /\ \A d \in Runs : d # c => call'[d] = call[d]
  BY TurnIs DEF ImportInv
<1>2. /\ users' = users /\ sessions' = sessions /\ series' = series /\ ledger' = ledger
  BY DEF tables
<1>3. TypeOK'
  <2>1. \A d \in Runs : SaysTyped(call[d])'
    <3>1. ASSUME NEW d \in Runs, d # c PROVE SaysTyped(call[d])'
      <4>1. SaysTyped(call[d]) /\ call'[d] = call[d]
        BY <1>1, <3>1, TypedSays
      <4> QED
        BY <4>1 DEF SaysTyped
    <3>2. SaysTyped(call[c])'
      BY <1>1 DEF SaysTyped
    <3> QED
      BY <3>1, <3>2
  <2>2. TablesTyped'
    <3>1. \A f : Entity(f)' = Entity(f)
      BY <1>2 DEF Entity
    <3> HIDE DEF User, Session, Template
    <3> QED
      BY <1>2, <3>1, AreTyped DEF TablesTyped
  <2> HIDE DEF User, Session, Template
  <2> QED
    BY <2>1, <2>2 DEF TypeOK, SaysTyped, TablesTyped, Batches
<1>4. Batched'
  <2>1. \A d \in Runs : IF call'[d].at = "idle" THEN batch'[d] = None
                        ELSE /\ call'[d].batch \in Runs /\ batch'[call'[d].batch] # None
                             /\ ~call'[d].commit => call'[d].batch = d
    <3>1. ASSUME NEW d \in Runs, d # c
          PROVE  IF call'[d].at = "idle" THEN batch'[d] = None
                 ELSE /\ call'[d].batch \in Runs /\ batch'[call'[d].batch] # None
                      /\ ~call'[d].commit => call'[d].batch = d
      <4>1. IF call[d].at = "idle" THEN batch[d] = None
            ELSE /\ call[d].batch \in Runs /\ batch[call[d].batch] # None
                 /\ ~call[d].commit => call[d].batch = d
        BY DEF ImportInv, Batched
      <4>2. \A b \in Runs : batch[b] # None => batch'[b] # None
        BY DEF Grows, TablesGrow
      <4> QED
        BY <1>1, <3>1, <4>1, <4>2
    <3> QED
      BY <1>1, <3>1
  <2>2. \A b \in Runs : batch'[b] # None => batch'[b] \in Batch
    BY DEF Batches
  <2>3. \A b \in Runs : batch'[b] # None =>
          /\ DOMAIN batch'[b] = BatchFields
          /\ batch'[b].export \in Exports
          /\ batch'[b].files \subseteq FileName /\ batch'[b].files # {}
    BY <2>2, BatchIs DEF Batches
  <2>4. DOMAIN batch' = Runs
    BY DEF Batches
  <2> QED
    BY <2>1, <2>3, <2>4 DEF Batched
<1>5. /\ \A f : Made(f)' = Made(f)
      /\ \A f, i : MadeBy(f, i)' = MadeBy(f, i)
  BY <1>2 DEF Made, MadeBy, Entity
<1>6. Tables'
  <2>1. ASSUME NEW f \in FileName, NEW i \in Made(f)'
        PROVE  MadeBy(f, i)' \in Runs /\ call'[MadeBy(f, i)'].at # "idle"
    <3>1. i \in Made(f) /\ MadeBy(f, i)' = MadeBy(f, i)
      BY <1>5, <2>1
    <3>2. MadeBy(f, i) \in Runs /\ call[MadeBy(f, i)].at # "idle"
      BY <3>1 DEF ImportInv, Tables
    <3> QED
      BY <1>1, <3>1, <3>2
  <2>2. \A i \in DOMAIN sessions' :
          /\ sessions'[i].who # None => sessions'[i].who \in DOMAIN users'
          /\ sessions'[i].roster \subseteq DOMAIN users'
          /\ sessions'[i].by \in Runs => sessions'[i].source # None
    BY <1>2 DEF ImportInv, Tables
  <2> QED
    BY <2>1, <2>2 DEF Tables
<1>7. /\ WrittenKeys(c)' = {Key(q.export, p[1], p[2]) : p \in q.says["written"]}
      /\ WrittenKeys(c) = {Key(k.export, p[1], p[2]) : p \in k.says["written"]}
  BY <1>1 DEF WrittenKeys
<1>8. q.commit => WrittenKeys(c)' = {} \/ (WrittenKeys(c)' = WrittenKeys(c) /\ k.commit)
  <2>1. ASSUME q.says["written"] = {} PROVE WrittenKeys(c)' = {}
    BY <1>7, <2>1
  <2>2. ASSUME q.says["written"] = k.says["written"], q.export = k.export
        PROVE  WrittenKeys(c)' = WrittenKeys(c)
    BY <1>7, <2>2
  <2> QED
    BY <2>1, <2>2
<1>9. Entered(c)'
  <2>1. Entered(c)
    BY DEF ImportInv
  <2> QED
    BY <1>1, <1>2, <1>8, <2>1 DEF Entered
<1>10. CountedOnce' /\ WholeUnlessStopped' /\ ConstraintOnlyForOthers' /\ SecondWritesNothing'
  <2>1. c \in Runs /\ call'[c].commit =>
           \A key \in WrittenKeys(c)' :
             \/ key \in WrittenKeys(c) /\ call[c].commit
             \/ key \notin DOMAIN ledger
    BY <1>1, <1>8
  <2>2. \A f \in FileName : \A i \in Made(f)' :
           i \notin Made(f) =>
             c \in Runs /\ WholeAt(f, i)' /\ call[c].at # "idle" /\ ~Repeating(c)
    BY <1>5
  <2>3. c \in Runs => \A p \in call'[c].says.clashed :
           \/ ClashedAt(c, p)'
           \/ p \in call[c].says.clashed /\ call[c].at # "idle"
    BY <1>1
  <2>4. \A f \in FileName : \A i \in Made(f) :
           MadeBy(f, i) = c /\ AtHand(f, i) => WholeAt(f, i)'
    OBVIOUS
  <2> QED
    BY <1>3, <2>1, <2>2, <2>3, <2>4, GlobalsKeep
<1>11. Own(c)'
  BY <1>9 DEF Own
<1>12. Shaped(call'[c]) /\ Going(call'[c]) /\ Countable(call'[c])
       /\ \A d \in call'[c].after : d \in Runs /\ call[d].at = "done"
  BY <1>1 DEF SaysTyped
<1> QED
  BY <1>1, <1>3, <1>4, <1>6, <1>10, <1>11, <1>12, StepKeeps
LEMMA BlankHere ==
  ASSUME ImportInv, NEW c \in Runs, call[c].at = "idle"
  PROVE  /\ call[c] = Blank /\ batch[c] = None
         /\ \A f \in FileName : \A i \in Made(f) : MadeBy(f, i) # c
<1>1. call[c] = Blank
  BY DEF ImportInv, Called, Going
<1>2. batch[c] = None
  BY DEF ImportInv, Batched
<1>3. \A f \in FileName : \A i \in Made(f) : MadeBy(f, i) # c
  BY DEF ImportInv, Tables
<1> QED
  BY <1>1, <1>2, <1>3

(* A request that begins: it has said nothing, and all is left.            *)
LEMMA BeginsWith ==
  ASSUME ImportInv, NEW c \in Runs, UNCHANGED <<tables, ledger, trail>>,
         call[c].at = "idle", NEW q, Turn(c, q), Shaped(q), Going(q),
         q.at \in {"ledger", "failed"}, q.says = NoSays,
         q.batch \in Runs, batch'[q.batch] # None, ~q.commit => q.batch = c,
         q.known = {}, q.fresh = {}, q.names = <<>>, q.emails = <<>>, q.busy = {},
         \A d \in q.after : d \in Runs /\ call[d].at = "done",
         Batches', \A d \in Runs : d # c => batch'[d] = batch[d],
         q.at = "ledger" => /\ q.export = batch'[q.batch].export
                            /\ Left(q) = batch'[q.batch].files
  PROVE  ImportInv'
<1>1. /\ call'[c] = q /\ DOMAIN call' = Runs
      /\ \A d \in Runs : d # c => call'[d] = call[d]
  BY TurnIs DEF ImportInv
<1>2. /\ batch[c] = None /\ \A f \in FileName : \A i \in Made(f) : MadeBy(f, i) # c
  BY BlankHere
<1>3. /\ users' = users /\ sessions' = sessions /\ series' = series /\ ledger' = ledger
      /\ UNCHANGED tables /\ trail' = trail
  BY DEF tables
<1>4. TablesGrow
  <2>1. \A b \in Runs : batch[b] # None => batch'[b] = batch[b]
    BY <1>2
  <2> QED
    BY <1>3, <2>1 DEF TablesGrow
<1>5. Grows(c)
  BY <1>1, <1>3, <1>4 DEF Grows, NewBy, RunsStay
<1>6. \A word \in Sayings : q.says[word] = {}
  BY NowhereSaid
<1>7. SaysTyped(q)
  <2>1. q.known \cup q.fresh \subseteq Keys
    OBVIOUS
  <2>2. {"written", "here", "refused", "clashed"} \subseteq Sayings
    BY DEF Sayings
  <2> QED
    BY <1>6, <2>1, <2>2, FS_EmptySet DEF SaysTyped, Countable, Working, Ended
<1>8. q.says["written"] = {} /\ q.says["clashed"] = {}
  BY <1>6 DEF Sayings
<1>9. Believing(c)'
  <2>1. call'[c].names = <<>> /\ call'[c].emails = <<>> /\ DOMAIN <<>> = {}
    BY <1>1
  <2> QED
    BY <1>1, <2>1 DEF Believing
<1>10. Judged(c)' /\ Holding(c)' /\ Ours(c)' /\ Barred(c)'
  BY <1>1 DEF Judged, Holding, Ours, Barred, Having, AtARow
<1>11. Settling(c)'
  <2>1. CASE q.at = "failed"
    BY <1>1, <2>1 DEF Settling, Working
  <2>2. CASE q.at = "ledger"
    <3>1. q.i = 1
      BY <2>2 DEF Going, Reading
    <3>2. batch'[q.batch].files \ Left(q) = {} /\ 1 .. q.i - 1 = {}
      BY <2>2, <3>1
    <3> QED
      BY <1>1, <2>2, <3>2 DEF Settling
  <2> QED
    BY <2>1, <2>2
<1>12. trail' \subseteq Runs
  BY <1>3 DEF ImportInv, TypeOK
<1>13. q.at # "idle"
  OBVIOUS
<1>14. \A b \in Runs :
         (b # c \/ call[c].at # "idle") /\ batch[b] = None => batch'[b] = None
  OBVIOUS
<1> QED
  BY <1>2, <1>3, <1>5, <1>7, <1>8, <1>9, <1>10, <1>11, <1>12, <1>13, <1>14, BatchKeeps

LEMMA StartsWith ==
  ASSUME ImportInv, NEW c \in Runs, UNCHANGED <<tables, ledger, trail>>,
         call[c].at = "idle", NEW commit \in BOOLEAN, NEW b \in Runs, NEW e \in Exports,
         NEW files \in SUBSET FileName, files # {}, Start(c, commit, b, e, files),
         ~commit => b = c, batch'[b] # None, batch'[b].export = e, batch'[b].files = files,
         Batches', \A d \in Runs : d # c => batch'[d] = batch[d]
  PROVE  ImportInv'
<1> DEFINE q == Starting(commit, b, e, files)
<1>1. Turn(c, q)
  BY DEF Start, Starting
<1>2. /\ Shaped(q)
      /\ q.at = "ledger" /\ q.entity = 0 /\ q.commit = commit /\ q.batch = b
      /\ q.export = e /\ q.todo = Order(files) /\ q.says = NoSays
      /\ q.after = {d \in Runs : call[d].at = "done"}
      /\ q.i = 1 /\ q.student = 1 /\ q.known = {} /\ q.fresh = {}
      /\ q.names = <<>> /\ q.emails = <<>> /\ q.busy = {} /\ q.pending = <<>>
  BY StartIs
<1> HIDE DEF q
<1>3. q.todo \in Seq(FileName) /\ Left(q) = files
  BY <1>2, OrderIs DEF Left
<1>4. q.todo # <<>>
  <2>1. ASSUME q.todo = <<>> PROVE Left(q) = {}
    BY <2>1 DEF Left, Items
  <2> QED
    BY <1>3, <2>1
<1>5. Going(q)
  BY <1>2, <1>3, <1>4 DEF Going, InFile, Reading, AtARow, Having
<1>6. \A d \in q.after : d \in Runs /\ call[d].at = "done"
  BY <1>2
<1>7. PICK y : y = q
  OBVIOUS
<1>8. /\ y.at \in {"ledger", "failed"} /\ y.says = NoSays
      /\ y.batch \in Runs /\ batch'[y.batch] # None /\ (~y.commit => y.batch = c)
      /\ y.known = {} /\ y.fresh = {} /\ y.names = <<>> /\ y.emails = <<>>
      /\ y.busy = {}
  BY <1>2, <1>7
<1>9. /\ y.at = "ledger" => /\ y.export = batch'[y.batch].export
                            /\ Left(y) = batch'[y.batch].files
  BY <1>2, <1>3, <1>7
<1>10. /\ Turn(c, y) /\ Shaped(y) /\ Going(y)
       /\ \A d \in y.after : d \in Runs /\ call[d].at = "done"
  BY <1>1, <1>2, <1>5, <1>6, <1>7
<1> QED
  BY <1>8, <1>9, <1>10, BeginsWith

LEMMA PreviewStarts ==
  ASSUME ImportInv, NEW c \in Runs, PreviewImport(c)
  PROVE  ImportInv'
<1>1. call[c].at = "idle" /\ UNCHANGED <<tables, ledger, trail>>
  BY DEF PreviewImport, Admitted
<1>2. PICK u \in Uploads, before \in BOOLEAN :
        /\ batch' = [batch EXCEPT ![c] =
             [status |-> "previewed", export |-> u[1], files |-> u[2],
              source |-> TRUE, report |-> None, seenBefore |-> before]]
        /\ Start(c, FALSE, c, u[1], u[2])
  BY DEF PreviewImport
<1>3. PICK e \in Exports, files \in SUBSET FileName :
        e = u[1] /\ files = u[2] /\ files # {}
  <2>1. \A w \in Uploads : w[1] \in Exports /\ w[2] \in (SUBSET FileName) \ {{}}
    BY ImportAssumption
  <2>2. u[1] \in Exports /\ u[2] \in (SUBSET FileName) \ {{}}
    BY <2>1
  <2>3. PICK e, files : e = u[1] /\ files = u[2]
    OBVIOUS
  <2>4. e \in Exports /\ files \in SUBSET FileName /\ files # {}
    BY <2>2, <2>3
  <2> QED
    BY <2>3, <2>4
<1>4. PICK b : b = [status |-> "previewed", export |-> e, files |-> files,
                    source |-> TRUE, report |-> None, seenBefore |-> before]
  OBVIOUS
<1>5. b \in Batch /\ b.status = "previewed" /\ b.export = e /\ b.files = files
      /\ b.source = TRUE
  BY <1>4 DEF Batch
<1>6. b # None
  BY <1>5, ImportAssumption
<1>7. Batches
  BY BatchesAre
<1>8. /\ batch'[c] = b /\ batch' \in [Runs -> Batch \cup {None}]
      /\ \A d \in Runs : d # c => batch'[d] = batch[d]
  <2>1. batch' = [batch EXCEPT ![c] = b]
    BY <1>2, <1>3, <1>4
  <2> HIDE DEF Batch
  <2> QED
    BY <1>5, <1>7, <2>1 DEF Batches
<1>9. Batches'
  <2>1. ASSUME NEW d \in Runs, batch'[d] # None
        PROVE  batch'[d].files # {} /\ batch'[d].source = (batch'[d].status = "previewed")
    <3>1. CASE d = c
      BY <1>3, <1>5, <1>8, <3>1
    <3>2. CASE d # c
      BY <1>7, <1>8, <2>1, <3>2 DEF Batches
    <3> QED
      BY <3>1, <3>2
  <2> QED
    BY <1>8, <2>1 DEF Batches
<1>10. /\ Start(c, FALSE, c, e, files)
       /\ batch'[c] # None /\ batch'[c].export = e /\ batch'[c].files = files
  BY <1>2, <1>3, <1>5, <1>6, <1>8
<1> QED
  BY <1>1, <1>3, <1>8, <1>9, <1>10, StartsWith


LEMMA CommitStarts ==
  ASSUME ImportInv, NEW c \in Runs, CommitImport(c)
  PROVE  ImportInv'
<1>1. call[c].at = "idle" /\ UNCHANGED <<tables, ledger, trail>> /\ batch' = batch
  BY DEF CommitImport, Admitted
<1>2. PICK b \in Runs : Shown(b) /\ Start(c, TRUE, b, batch[b].export, batch[b].files)
  BY DEF CommitImport
<1>3. PICK e, files : e = batch[b].export /\ files = batch[b].files
  OBVIOUS
<1>4. /\ e \in Exports /\ files \in SUBSET FileName /\ files # {}
      /\ batch'[b] # None /\ batch'[b].export = e /\ batch'[b].files = files
  BY <1>1, <1>2, <1>3 DEF ImportInv, Batched, Shown
<1>5. Batches'
  <2>1. Batches
    BY BatchesAre
  <2> QED
    BY <1>1, <2>1 DEF Batches
<1>6. Start(c, TRUE, b, e, files) /\ \A d \in Runs : d # c => batch'[d] = batch[d]
  BY <1>1, <1>2, <1>3
<1> QED
  BY <1>1, <1>4, <1>5, <1>6, StartsWith

Refused(b) == [Blank EXCEPT !.at = "failed", !.commit = TRUE, !.batch = b]

LEMMA RefusedIs ==
  ASSUME NEW b
  PROVE  LET q == Refused(b) IN
         /\ Shaped(q)
         /\ q.at = "failed" /\ q.entity = 0 /\ q.commit = TRUE /\ q.batch = b
         /\ q.export = None /\ q.todo = <<>> /\ q.says = NoSays /\ q.after = {}
         /\ q.i = 1 /\ q.student = 1 /\ q.known = {} /\ q.fresh = {}
         /\ q.names = <<>> /\ q.emails = <<>> /\ q.busy = {} /\ q.pending = <<>>
BY BlankIs DEF Shaped, Fields, Refused

LEMMA CommitRefused ==
  ASSUME ImportInv, NEW c \in Runs, RefuseCommit(c)
  PROVE  ImportInv'
<1>1. call[c].at = "idle" /\ UNCHANGED <<tables, ledger, trail>> /\ batch' = batch
  BY DEF RefuseCommit, Admitted
<1>2. PICK b \in Runs : Shown(b) /\ Turn(c, Refused(b))
  BY DEF RefuseCommit, Refused
<1>3. PICK q : q = Refused(b)
  OBVIOUS
<1>4. /\ Shaped(q)
      /\ q.at = "failed" /\ q.entity = 0 /\ q.commit = TRUE /\ q.batch = b
      /\ q.export = None /\ q.todo = <<>> /\ q.says = NoSays /\ q.after = {}
      /\ q.i = 1 /\ q.student = 1 /\ q.known = {} /\ q.fresh = {}
      /\ q.names = <<>> /\ q.emails = <<>> /\ q.busy = {} /\ q.pending = <<>>
  BY <1>3, RefusedIs
<1>5. Going(q)
  <2>1. q.todo \in Seq(FileName)
    BY <1>4, EmptySeq
  <2>2. q.at \notin InFile \cup {"report", "event", "idle", "done"} \cup Having
    BY <1>4 DEF InFile, Reading, AtARow, Having
  <2>3. q.at \notin Reading \cup AtARow
    BY <1>4 DEF Reading, AtARow, Having
  <2>4. q.i \in Nat \ {0} /\ q.student \in Nat \ {0}
    BY <1>4
  <2>8. q.commit \in BOOLEAN
    BY <1>4, Zenon
  <2>5. q.at # "status" /\ q.at # "busy" /\ q.at # "attach"
    BY <1>4
  <2>6. q.at \notin {"idle", "report", "event", "done"} /\ q.at \notin InFile
    BY <2>2
  <2>7. q.entity = 0 /\ q.student = 1 /\ q.pending = <<>>
    BY <1>4
  <2> QED
    BY <2>1, <2>3, <2>4, <2>5, <2>6, <2>7, <2>8 DEF Going
<1>6. Batches'
  <2>1. Batches
    BY BatchesAre
  <2> QED
    BY <1>1, <2>1 DEF Batches
<1>7. Turn(c, q) /\ batch'[q.batch] # None
  BY <1>1, <1>2, <1>3, <1>4 DEF Shown
<1>8. /\ q.at \in {"ledger", "failed"} /\ q.batch \in Runs /\ (~q.commit => q.batch = c)
      /\ \A d \in q.after : d \in Runs /\ call[d].at = "done"
      /\ \A d \in Runs : d # c => batch'[d] = batch[d]
      /\ q.at = "ledger" => /\ q.export = batch'[q.batch].export
                            /\ Left(q) = batch'[q.batch].files
  BY <1>1, <1>4
<1> QED
  BY <1>1, <1>4, <1>5, <1>6, <1>7, <1>8, BeginsWith

(* The report of an import goes into its batch.                            *)
LEMMA CountsAre ==
  ASSUME NEW says, \A what \in {"written", "here", "refused"} : IsFiniteSet(says[what])
  PROVE  Counts(says) \in [{"written", "here", "refused"} -> Nat]
BY FS_CardinalityType DEF Counts

LEMMA ReportWritten ==
  ASSUME ImportInv, NEW c \in Runs, call[c].at = "report", UNCHANGED <<tables, ledger>>,
         NEW b \in Runs, batch[b] # None, NEW x \in Batch,
         batch' = [batch EXCEPT ![b] = x],
         x.export = batch[b].export, x.files = batch[b].files,
         x.source = (x.status = "previewed"),
         NEW q, Turn(c, q), Steady(call[c], q), q.at # "idle"
  PROVE  /\ Batches' /\ Grows(c)
         /\ \A d \in Runs : batch[d] = None => batch'[d] = None
         /\ \A d \in Runs : batch[d] # None =>
              /\ batch'[d] # None /\ batch'[d].export = batch[d].export
              /\ batch'[d].files = batch[d].files
         /\ call'[c] = q /\ \A d \in Runs : d # c => call'[d] = call[d]
<1>1. Batches
  BY BatchesAre
<1>2. /\ batch'[b] = x /\ x # None /\ batch' \in [Runs -> Batch \cup {None}]
      /\ \A d \in Runs : d # b => batch'[d] = batch[d]
  <2>1. x # None
    BY BatchIs
  <2> HIDE DEF Batch
  <2> QED
    BY <1>1, <2>1 DEF Batches
<1>3. Batches'
  <2>1. \A d \in Runs : batch'[d] # None =>
          /\ batch'[d].files # {}
          /\ batch'[d].source = (batch'[d].status = "previewed")
    <3>1. ASSUME NEW d \in Runs, batch'[d] # None, d # b
          PROVE  /\ batch'[d].files # {}
                 /\ batch'[d].source = (batch'[d].status = "previewed")
      BY <1>1, <1>2, <3>1 DEF Batches
    <3>2. batch'[b].files # {}
      BY <1>1, <1>2 DEF Batches
    <3>3. batch'[b].source = (batch'[b].status = "previewed")
      BY <1>2
    <3> QED
      BY <3>1, <3>2, <3>3
  <2> HIDE DEF Batch
  <2> QED
    BY <1>2, <2>1 DEF Batches
<1>4. \A d \in Runs : batch[d] # None =>
        /\ batch'[d] # None /\ batch'[d].export = batch[d].export
        /\ batch'[d].files = batch[d].files
  BY <1>2
<1>5. \A d \in Runs : batch[d] = None => batch'[d] = None
  BY <1>2
<1>6. call'[c] = q /\ \A d \in Runs : d # c => call'[d] = call[d]
  BY TurnIs DEF ImportInv
<1>7. /\ users' = users /\ sessions' = sessions /\ series' = series /\ ledger' = ledger
  BY DEF tables
<1>8. TablesGrow
  BY <1>4, <1>7 DEF TablesGrow
<1>9. Grows(c)
  BY <1>6, <1>7, <1>8 DEF Grows, NewBy, RunsStay
<1> QED
  BY <1>3, <1>4, <1>5, <1>6, <1>9

(* A preview says what it foresaw; nothing of it reaches the tables.       *)
LEMMA PreviewFinishes ==
  ASSUME ImportInv, NEW c \in Runs, FinishPreview(c)
  PROVE  ImportInv'
<1> DEFINE k == call[c]
<1>1. /\ k.at = "report" /\ ~k.commit /\ UNCHANGED <<tables, ledger, trail>>
      /\ batch' = [batch EXCEPT ![c].report = Counts(k.says)]
      /\ End(c, "done")
  BY DEF FinishPreview
<1>2. Shaped(k) /\ Going(k) /\ Countable(k) /\ SaysTyped(k)
  BY Stands, TypedSays DEF ImportInv
<1>3. k.batch = c /\ batch[c] # None
  BY <1>1 DEF ImportInv, Batched
<1>4. PICK q : q = Ending(c, "done")
  OBVIOUS
<1>5. /\ Shaped(q)
      /\ q.at = "done" /\ q.entity = k.entity
      /\ q.commit = k.commit /\ q.batch = k.batch
      /\ q.export = k.export /\ q.todo = k.todo
      /\ q.says = k.says /\ q.after = k.after
      /\ q.i = 1 /\ q.student = 1 /\ q.known = {} /\ q.fresh = {}
      /\ q.names = <<>> /\ q.emails = <<>> /\ q.busy = {} /\ q.pending = <<>>
  BY <1>2, <1>4, EndIs
<1>6. Turn(c, q)
  BY <1>1, <1>4 DEF End, Ending
<1>7. k.entity = 0
  BY <1>1, <1>2 DEF Going, Having
<1>8. PICK z : z = Counts(k.says)
  OBVIOUS
<1>9. z \in [{"written", "here", "refused"} -> Nat]
  BY <1>2, <1>8, CountsAre DEF Countable
<1>10. batch[c] \in Batch /\ batch[c].source = (batch[c].status = "previewed")
  <2>1. Batches
    BY BatchesAre
  <2> HIDE DEF Batch
  <2> QED
    BY <1>3, <2>1 DEF Batches
<1>11. PICK x : x = [batch[c] EXCEPT !.report = z]
  OBVIOUS
<1>12. /\ x \in Batch /\ x.export = batch[c].export /\ x.files = batch[c].files
       /\ x.source = (x.status = "previewed")
  BY <1>9, <1>10, <1>11 DEF Batch
<1>13. batch' = [batch EXCEPT ![c] = x]
  BY <1>1, <1>8, <1>11
<1>14. Steady(k, q) /\ q.at # "idle"
  BY <1>5 DEF Steady
<1>15. /\ Batches' /\ Grows(c)
       /\ \A d \in Runs : batch[d] = None => batch'[d] = None
       /\ \A d \in Runs : batch[d] # None =>
            /\ batch'[d] # None /\ batch'[d].export = batch[d].export
            /\ batch'[d].files = batch[d].files
       /\ call'[c] = q
  BY <1>1, <1>3, <1>6, <1>12, <1>13, <1>14, ReportWritten
<1>16. Going(q)
  <2>1. q.at \notin InFile \cup {"idle", "report", "event"}
    BY <1>5 DEF InFile, Reading, AtARow, Having
  <2>2. q.at \notin Reading \cup AtARow
    BY <1>5 DEF Reading, AtARow, Having
  <2>3. q.at # "status" /\ q.at # "busy" /\ q.at # "attach"
    BY <1>5
  <2>4. q.commit \in BOOLEAN /\ q.todo \in Seq(FileName) /\ ~q.commit
    BY <1>1, <1>2, <1>5 DEF Going
  <2> QED
    BY <1>5, <1>7, <2>1, <2>2, <2>3, <2>4 DEF Going
<1>17. SaysTyped(q)
  BY <1>2, <1>5 DEF SaysTyped, Ended, Countable
<1>18. ~call'[c].commit /\ call'[c].at = "done"
  BY <1>1, <1>5, <1>15
<1>19. Believing(c)' /\ Ours(c)' /\ Settling(c)'
  BY <1>18 DEF Believing, Ours, Settling
<1>20. Judged(c)' /\ Holding(c)' /\ Barred(c)'
  BY <1>18 DEF Judged, Holding, Barred, Having
<1>21. \A f \in FileName : \A i \in Made(f) : ~(MadeBy(f, i) = c /\ AtHand(f, i))
  BY <1>7, Nonzero DEF AtHand
<1>22. /\ \A d \in q.after : d \in Runs /\ call[d].at = "done"
       /\ trail' \subseteq Runs
  BY <1>1, <1>5 DEF ImportInv, Called, TypeOK
<1>23. /\ q.batch \in Runs /\ batch'[q.batch] # None /\ (~q.commit => q.batch = c)
       /\ q.says["written"] = call[c].says["written"]
       /\ ~q.commit
       /\ \A p \in q.says["clashed"] : p \in call[c].says["clashed"] /\ call[c].at # "idle"
       /\ \A b \in Runs :
            (b # c \/ call[c].at # "idle") /\ batch[b] = None => batch'[b] = None
  BY <1>1, <1>3, <1>5, <1>15
<1> QED
  BY <1>1, <1>5, <1>6, <1>14, <1>15, <1>16, <1>17, <1>19, <1>20, <1>21, <1>22, <1>23,
     BatchKeeps

(* A commit reports; its batch is committed and its source dropped.        *)
Reported(k) == [k EXCEPT !.at = "event"]
Committed(b, z) == [b EXCEPT !.status = "committed", !.source = FALSE, !.report = z]

LEMMA ReportedIs ==
  ASSUME NEW k, Shaped(k), NEW q, q = Reported(k)
  PROVE  /\ Shaped(q) /\ q.at = "event" /\ \A x \in Fields : x # "at" => q[x] = k[x]
BY DEF Reported, Shaped, Fields

LEMMA CommittedIs ==
  ASSUME NEW b \in Batch, NEW z \in [{"written", "here", "refused"} -> Nat],
         NEW x, x = Committed(b, z)
  PROVE  /\ x \in Batch /\ x.export = b.export /\ x.files = b.files
         /\ x.source = (x.status = "previewed")
BY DEF Batch, Committed

LEMMA CommitFinishes ==
  ASSUME ImportInv, NEW c \in Runs, FinishCommit(c)
  PROVE  ImportInv'
<1> DEFINE k == call[c]
           b == call[c].batch
<1>1. /\ k.at = "report" /\ k.commit /\ UNCHANGED <<tables, ledger, trail>>
      /\ batch' = [batch EXCEPT ![b] = Committed(batch[b], Counts(k.says))]
      /\ Turn(c, Reported(k))
  <2>1. /\ k.at = "report" /\ k.commit /\ UNCHANGED <<tables, ledger, trail>>
        /\ Turn(c, Reported(k))
    BY DEF FinishCommit, Go, Reported
  <2>2. batch' = [batch EXCEPT ![call[c].batch] =
                    [@ EXCEPT !.status = "committed", !.source = FALSE,
                              !.report = Counts(call[c].says)]]
    BY DEF FinishCommit
  <2> QED
    BY <2>1, <2>2 DEF Committed
<1>2. Shaped(k) /\ Going(k) /\ Countable(k) /\ SaysTyped(k)
  BY Stands, TypedSays DEF ImportInv
<1>3. b \in Runs /\ batch[b] # None
  BY <1>1 DEF ImportInv, Batched
<1>4. PICK q : q = Reported(k)
  OBVIOUS
<1>5. /\ Shaped(q) /\ q.at = "event" /\ \A x \in Fields : x # "at" => q[x] = k[x]
  BY <1>2, <1>4, ReportedIs
<1>6. /\ q.commit = k.commit /\ q.batch = k.batch
      /\ q.export = k.export /\ q.todo = k.todo /\ q.i = k.i
      /\ q.known = k.known /\ q.fresh = k.fresh /\ q.names = k.names
      /\ q.emails = k.emails /\ q.busy = k.busy /\ q.pending = k.pending
      /\ q.entity = k.entity /\ q.student = k.student
      /\ q.says = k.says /\ q.after = k.after
  BY <1>5 DEF Fields
<1>7. Turn(c, q)
  BY <1>1, <1>4
<1>8. k.entity = 0 /\ k.todo = <<>>
  BY <1>1, <1>2 DEF Going, Having
<1>9. PICK z : z = Counts(k.says)
  OBVIOUS
<1>10. z \in [{"written", "here", "refused"} -> Nat]
  BY <1>2, <1>9, CountsAre DEF Countable
<1>11. batch[b] \in Batch
  <2>1. Batches
    BY BatchesAre
  <2> HIDE DEF Batch
  <2> QED
    BY <1>3, <2>1 DEF Batches
<1>12. PICK x : x = Committed(batch[b], z)
  OBVIOUS
<1>13. /\ x \in Batch /\ x.export = batch[b].export /\ x.files = batch[b].files
       /\ x.source = (x.status = "previewed")
  BY <1>10, <1>11, <1>12, CommittedIs
<1>14. batch' = [batch EXCEPT ![b] = x]
  BY <1>1, <1>9, <1>12
<1>15. Steady(k, q) /\ q.at # "idle"
  BY <1>5, <1>6 DEF Steady
<1> HIDE DEF b
<1>16. /\ Batches' /\ Grows(c)
       /\ \A d \in Runs : batch[d] = None => batch'[d] = None
       /\ \A d \in Runs : batch[d] # None =>
            /\ batch'[d] # None /\ batch'[d].export = batch[d].export
            /\ batch'[d].files = batch[d].files
       /\ call'[c] = q
  <2>1. call[c].at = "report" /\ UNCHANGED <<tables, ledger>>
    BY <1>1
  <2>2. x \in Batch /\ x.source = (x.status = "previewed")
    BY <1>13
  <2>3. x.export = batch[b].export /\ x.files = batch[b].files
    BY <1>13
  <2>4. Steady(call[c], q) /\ q.at # "idle" /\ Turn(c, q)
    BY <1>7, <1>15
  <2> HIDE DEF k
  <2> QED
    BY <1>3, <1>14, <2>1, <2>2, <2>3, <2>4, ReportWritten
<1>17. Going(q)
  <2>1. q.at \notin InFile \cup {"idle", "done"}
    BY <1>5 DEF InFile, Reading, AtARow, Having
  <2>2. q.at \notin Reading \cup AtARow
    BY <1>5 DEF Reading, AtARow, Having
  <2>3. q.at # "status" /\ q.at # "busy" /\ q.at # "attach"
    BY <1>5
  <2>4. /\ q.commit \in BOOLEAN /\ q.todo \in Seq(FileName) /\ q.i \in Nat \ {0}
        /\ q.student \in Nat \ {0} /\ q.export \in Exports
        /\ q.student = 1 /\ (q.commit => q.pending = <<>>)
    BY <1>1, <1>2, <1>6 DEF Going
  <2> QED
    BY <1>1, <1>6, <1>8, <2>1, <2>2, <2>3, <2>4 DEF Going
<1>18. SaysTyped(q)
  BY <1>2, <1>5, <1>6 DEF SaysTyped, Working, Countable
<1>19. Believing(c)'
  <2>1. k.known \cup k.fresh \subseteq DOMAIN ledger
        /\ \A mail \in DOMAIN k.emails : k.emails[mail] \in DOMAIN users
    BY <1>1 DEF ImportInv, Believing
  <2>2. q.known \cup q.fresh \subseteq DOMAIN ledger'
        /\ \A mail \in DOMAIN q.emails : q.emails[mail] \in DOMAIN users'
    BY <1>1, <1>6, <2>1 DEF tables
  <2>3. TablesGrow
    BY <1>16 DEF Grows
  <2> QED
    BY <1>6, <1>16, <2>2, <2>3, BelievesStill
<1>20. Judged(c)' /\ Holding(c)' /\ Barred(c)' /\ Ours(c)'
  BY <1>5, <1>16 DEF Judged, Holding, Barred, Having, Ours, AtARow
<1>21. Settling(c)'
  <2>1. k.at \in Working
    BY <1>1 DEF Working
  <2>2. /\ k.export = batch[k.batch].export
        /\ Left(k) \subseteq batch[k.batch].files
        /\ \A f \in batch[k.batch].files \ Left(k) : AllSettled(k.export, f)
    BY <1>1, <2>1 DEF ImportInv, Settling
  <2>3. Left(q) = Left(k)
    BY <1>6 DEF Left
  <2>4. \A e, f : AllSettled(e, f) => AllSettled(e, f)'
    BY <1>16, SettledStays DEF AllSettled, Grows
  <2>5. /\ batch'[k.batch].export = batch[k.batch].export
        /\ batch'[k.batch].files = batch[k.batch].files
    BY <1>3, <1>16 DEF b
  <2>6. q.at \notin InFile
    BY <1>5 DEF InFile, Reading, AtARow, Having
  <2> QED
    BY <1>6, <1>16, <2>2, <2>3, <2>4, <2>5, <2>6 DEF Settling
<1>22. \A f \in FileName : \A i \in Made(f) : ~(MadeBy(f, i) = c /\ AtHand(f, i))
  BY <1>8, Nonzero DEF AtHand
<1>23. /\ \A d \in q.after : d \in Runs /\ call[d].at = "done"
       /\ trail' \subseteq Runs
  BY <1>1, <1>6 DEF ImportInv, Called, TypeOK
<1>24. /\ q.batch \in Runs /\ batch'[q.batch] # None /\ (~q.commit => q.batch = c)
       /\ q.says["written"] = call[c].says["written"]
       /\ q.export = call[c].export /\ call[c].commit
       /\ \A p \in q.says["clashed"] : p \in call[c].says["clashed"] /\ call[c].at # "idle"
       /\ \A d \in Runs :
            (d # c \/ call[c].at # "idle") /\ batch[d] = None => batch'[d] = None
  BY <1>1, <1>3, <1>6, <1>16 DEF b
<1> QED
  BY <1>1, <1>5, <1>7, <1>15, <1>16, <1>17, <1>18, <1>19, <1>20, <1>21, <1>22,
     <1>23, <1>24, BatchKeeps

-----------------------------------------------------------------------------
(* What other people do, and nothing.                                      *)

LEMMA NotARun == None \notin Runs
BY ImportAssumption

LEMMA OutsideKeeps ==
  ASSUME ImportInv, UNCHANGED <<ledger, batch, trail, call>>, TablesGrow, TablesTyped',
         NewBy(None),
         \A f \in FileName : \A i \in Made(f)' : i \in Made(f)
  PROVE  ImportInv'
<1>1. Grows(None)
  BY NotARun DEF Grows, RunsStay
<1>2. \A d \in Runs : Own(d)'
  BY <1>1, NotARun, OthersKeep
<1>3. TypeOK'
  <2>1. \A d \in Runs : SaysTyped(call[d])'
    <3>1. \A d \in Runs : SaysTyped(call[d])
      BY TypedSays
    <3> QED
      BY <3>1 DEF SaysTyped, Countable
  <2>2. /\ batch' \in [Runs -> Batch \cup {None}]
        /\ \A b \in Runs : batch'[b] # None =>
             batch'[b].source = (batch'[b].status = "previewed")
        /\ trail' \subseteq Runs
    BY DEF ImportInv, TypeOK
  <2> HIDE DEF User, Session, Template
  <2> QED
    BY <2>1, <2>2 DEF TypeOK, SaysTyped, TablesTyped
<1>4. Called'
  BY DEF ImportInv, Called, Shaped, Going, RowOf, Countable
<1>5. Batched'
  BY DEF ImportInv, Batched
<1>6. Tables'
  <2>1. ASSUME NEW f \in FileName, NEW i \in Made(f)'
        PROVE  MadeBy(f, i)' \in Runs /\ call'[MadeBy(f, i)'].at # "idle"
    <3>1. i \in Made(f)
      BY <2>1
    <3>2. MadeBy(f, i) \in Runs /\ call[MadeBy(f, i)].at # "idle"
      BY <3>1 DEF ImportInv, Tables
    <3>3. MadeBy(f, i)' = MadeBy(f, i)
      BY <3>1, MadeStays
    <3> QED
      BY <3>2, <3>3
  <2> QED
    BY <2>1 DEF Tables, TablesTyped
<1>7. CountedOnce' /\ WholeUnlessStopped' /\ ConstraintOnlyForOthers' /\ SecondWritesNothing'
  <2>1. \A f \in FileName : \A i \in Made(f) :
          MadeBy(f, i) = None /\ AtHand(f, i) => WholeAt(f, i)'
    BY NotARun DEF ImportInv, Tables
  <2>2. \A f \in FileName : \A i \in Made(f)' :
          i \notin Made(f) =>
            None \in Runs /\ WholeAt(f, i)' /\ call[None].at # "idle" /\ ~Repeating(None)
    OBVIOUS
  <2>3. /\ None \in Runs /\ call'[None].commit =>
             \A key \in WrittenKeys(None)' :
               \/ key \in WrittenKeys(None) /\ call[None].commit
               \/ key \notin DOMAIN ledger
        /\ None \in Runs => \A p \in call'[None].says.clashed :
             \/ ClashedAt(None, p)'
             \/ p \in call[None].says.clashed /\ call[None].at # "idle"
    BY NotARun
  <2> QED
    BY <1>1, <1>3, <2>1, <2>2, <2>3, GlobalsKeep
<1>8. \A d \in Runs : /\ Believing(d)' /\ Entered(d)' /\ Judged(d)' /\ Holding(d)'
                      /\ Ours(d)' /\ Settling(d)' /\ Barred(d)'
  BY <1>2 DEF Own
<1> QED
  BY <1>3, <1>4, <1>5, <1>6, <1>7, <1>8 DEF ImportInv

LEMMA Invites ==
  ASSUME ImportInv, NEW x, Invite(x)
  PROVE  ImportInv'
<1> DEFINE n == Len(users) + 1
           u == [name |-> x.name, email |-> x.email,
                 account |-> "invited", from |-> None, by |-> None]
<1>1. /\ x \in Invited /\ users' = Append(users, u)
      /\ UNCHANGED <<sessions, series, ledger, batch, trail, call>>
  BY DEF Invite
<1>2. u \in User /\ u.by = None /\ u.from = None
  <2>1. x \in [name : STRING, email : STRING \cup {None}]
    BY <1>1, ImportAssumption
  <2> QED
    BY <2>1 DEF User, Account
<1> HIDE DEF u
<1>3. /\ users' \in Seq(User) /\ DOMAIN users' = DOMAIN users \cup {n}
      /\ \A i \in DOMAIN users : users'[i] = users[i]
      /\ users'[n] = u /\ n \notin DOMAIN users
  <2> HIDE DEF User
  <2>1. users \in Seq(User)
    BY DEF ImportInv, TypeOK
  <2> QED
    BY <1>1, <1>2, <2>1, AppendIs
<1> HIDE DEF n
<1>4. TablesGrow
  BY <1>1, <1>3 DEF TablesGrow
<1>5. NewBy(None)
  BY <1>1, <1>2, <1>3 DEF NewBy
<1>6. TablesTyped'
  <2>1. TablesTyped
    BY AreTyped
  <2>2. \A key \in DOMAIN ledger' : ledger'[key] \in DOMAIN Entity(key[1])'
    <3>1. \A key \in DOMAIN ledger :
            key[1] \in FileName /\ ledger[key] \in DOMAIN Entity(key[1])
      BY <2>1, KeyFile DEF TablesTyped
    <3> QED
      BY <1>1, <1>4, <3>1, EntityGrows
  <2> HIDE DEF User, Session, Template
  <2> QED
    BY <1>1, <1>3, <2>1, <2>2 DEF TablesTyped
<1>7. ASSUME NEW f \in FileName, NEW i \in Made(f)' PROVE i \in Made(f)
  <2>1. CASE f = "people"
    BY <1>2, <1>3, <1>7, <2>1, MadeIs, MadeThenIs
  <2>2. CASE f = "sessions" \/ f = "series"
    BY <1>1, <1>7, <2>2, MadeIs, MadeThenIs
  <2> QED
    BY <2>1, <2>2, FileNames
<1> QED
  BY <1>1, <1>4, <1>5, <1>6, <1>7, OutsideKeeps

LEMMA Books ==
  ASSUME ImportInv, NEW x, Book(x)
  PROVE  ImportInv'
<1> DEFINE n == Len(sessions) + 1
           s == [who |-> x.who, from |-> x.from, to |-> x.to,
                 status |-> "blocking", roster |-> {}, source |-> None, by |-> None]
<1>1. /\ x \in Booked /\ x.who \in DOMAIN users /\ sessions' = Append(sessions, s)
      /\ UNCHANGED <<users, series, ledger, batch, trail, call>>
  BY DEF Book
<1>2. /\ s \in Session /\ s.by = None /\ s.source = None /\ s.who = x.who
      /\ s.roster = {}
  <2>1. x \in [who : Nat, from : Int, to : Int]
    BY <1>1, ImportAssumption
  <2> QED
    BY <2>1 DEF Session
<1> HIDE DEF s
<1>3. /\ sessions' \in Seq(Session) /\ DOMAIN sessions' = DOMAIN sessions \cup {n}
      /\ \A i \in DOMAIN sessions : sessions'[i] = sessions[i]
      /\ sessions'[n] = s /\ n \notin DOMAIN sessions
  <2> HIDE DEF Session
  <2>1. sessions \in Seq(Session)
    BY DEF ImportInv, TypeOK
  <2> QED
    BY <1>1, <1>2, <2>1, AppendIs
<1> HIDE DEF n
<1>4. TablesGrow
  BY <1>1, <1>3 DEF TablesGrow
<1>5. NewBy(None)
  BY <1>1, <1>2, <1>3 DEF NewBy
<1>6. TablesTyped'
  <2>1. TablesTyped
    BY AreTyped
  <2>2. \A key \in DOMAIN ledger' : ledger'[key] \in DOMAIN Entity(key[1])'
    <3>1. \A key \in DOMAIN ledger :
            key[1] \in FileName /\ ledger[key] \in DOMAIN Entity(key[1])
      BY <2>1, KeyFile DEF TablesTyped
    <3> QED
      BY <1>1, <1>4, <3>1, EntityGrows
  <2>3. \A i \in DOMAIN sessions' :
          /\ sessions'[i].who # None => sessions'[i].who \in DOMAIN users'
          /\ sessions'[i].roster \subseteq DOMAIN users'
          /\ sessions'[i].by \in Runs => sessions'[i].source # None
    <3>1. \A i \in DOMAIN sessions :
            /\ sessions'[i].who # None => sessions'[i].who \in DOMAIN users'
            /\ sessions'[i].roster \subseteq DOMAIN users'
            /\ sessions'[i].by \in Runs => sessions'[i].source # None
      BY <1>1, <1>3, <2>1 DEF TablesTyped
    <3>2. /\ sessions'[n].who # None => sessions'[n].who \in DOMAIN users'
          /\ sessions'[n].roster \subseteq DOMAIN users'
          /\ sessions'[n].by \notin Runs
      BY <1>1, <1>2, <1>3, NotARun
    <3> QED
      BY <1>3, <3>1, <3>2
  <2> HIDE DEF User, Session, Template
  <2> QED
    BY <1>1, <1>3, <2>1, <2>2, <2>3 DEF TablesTyped
<1>7. ASSUME NEW f \in FileName, NEW i \in Made(f)' PROVE i \in Made(f)
  <2>1. CASE f = "sessions"
    BY <1>2, <1>3, <1>7, <2>1, MadeIs, MadeThenIs
  <2>2. CASE f = "people" \/ f = "series"
    BY <1>1, <1>7, <2>2, MadeIs, MadeThenIs
  <2> QED
    BY <2>1, <2>2, FileNames
<1> QED
  BY <1>1, <1>4, <1>5, <1>6, <1>7, OutsideKeeps

LEMMA Rests ==
  ASSUME ImportInv, UNCHANGED vars
  PROVE  ImportInv'
<1>1. /\ UNCHANGED <<ledger, batch, trail, call>>
      /\ UNCHANGED <<users, sessions, series>>
  BY DEF vars
<1>2. TablesGrow /\ NewBy(None)
  BY <1>1 DEF TablesGrow, NewBy
<1>3. \A f \in FileName : \A i \in Made(f)' : i \in Made(f)
  BY <1>1, MadeIs, MadeThenIs, FileNames
<1>4. TablesTyped'
  <2>1. TablesTyped
    BY AreTyped
  <2>2. \A f : Entity(f)' = Entity(f)
    BY <1>1 DEF Entity
  <2> HIDE DEF User, Session, Template
  <2> QED
    BY <1>1, <2>1, <2>2 DEF TablesTyped
<1> QED
  BY <1>1, <1>2, <1>3, <1>4, OutsideKeeps

-----------------------------------------------------------------------------
(* From the first state on.                                                *)

LEMMA ResidentsAre ==
  ASSUME Init
  PROVE  users \in Seq(User) /\ \A i \in DOMAIN users : users[i].from = None
<1> DEFINE R == [name : STRING, email : STRING \cup {None}]
           u(i) == [name |-> Residents[i].name, email |-> Residents[i].email,
                    account |-> "other", from |-> None, by |-> None]
<1>1. users = [i \in DOMAIN Residents |-> u(i)]
  BY DEF Init
<1>2. Residents \in Seq(R)
  BY ImportAssumption
<1>3. DOMAIN Residents = 1 .. Len(Residents) /\ Len(Residents) \in Nat
  <2> HIDE DEF R
  <2> QED
    BY <1>2, LenProperties
<1>4. \A i \in DOMAIN Residents : Residents[i] \in R
  <2> HIDE DEF R
  <2> QED
    BY <1>2, <1>3, ElementOfSeq
<1>5. \A i \in DOMAIN Residents : u(i) \in User /\ u(i).from = None
  BY <1>4 DEF User, Account
<1> HIDE DEF u, User
<1>6. users \in [1 .. Len(Residents) -> User]
  BY <1>1, <1>3, <1>5
<1>7. users \in Seq(User)
  BY <1>3, <1>6, SeqDef
<1> QED
  BY <1>1, <1>5, <1>7

LEMMA StartsIn ==
  ASSUME Init
  PROVE  ImportInv
<1>1. /\ sessions = <<>> /\ series = <<>> /\ ledger = <<>> /\ trail = {}
      /\ batch = [c \in Runs |-> None] /\ call = [c \in Runs |-> Blank]
  BY DEF Init
<1>2. users \in Seq(User) /\ \A i \in DOMAIN users : users[i].from = None
  BY ResidentsAre
<1>3. DOMAIN <<>> = {}
  OBVIOUS
<1>4. \A c \in Runs : /\ call[c] = Blank /\ call[c].at = "idle"
                      /\ call[c].commit = FALSE /\ call[c].known = {}
                      /\ call[c].fresh = {} /\ call[c].says = NoSays
                      /\ call[c].after = {}
  BY <1>1, BlankIs
<1>5. \A word \in Sayings : NoSays[word] = {}
  BY NowhereSaid
<1>6. /\ NoSays["written"] = {} /\ NoSays["here"] = {} /\ NoSays["refused"] = {}
      /\ NoSays["clashed"] = {}
  BY <1>5 DEF Sayings
<1>7. /\ DOMAIN sessions = {} /\ DOMAIN series = {} /\ DOMAIN ledger = {}
  BY <1>1, <1>3
<1>8. \A f \in FileName : Made(f) = {}
  BY <1>2, <1>7, MadeIs, FileNames
<1>9. TypeOK
  <2>1. sessions \in Seq(Session) /\ series \in Seq(Template)
    <3> HIDE DEF Session, Template
    <3> QED
      BY <1>1, EmptySeq
  <2>2. \A c \in Runs :
          /\ call[c].at \in {"idle"} \cup Working \cup Ended
          /\ call[c].known \cup call[c].fresh \subseteq Keys
          /\ \A what \in {"written", "here", "refused", "clashed"} :
               call[c].says[what] \subseteq Position
    BY <1>4, <1>6
  <2> HIDE DEF User, Session, Template, Batch
  <2>3. batch \in [Runs -> Batch \cup {None}]
    BY <1>1
  <2>4. \A b \in Runs : batch[b] = None
    BY <1>1
  <2> QED
    BY <1>1, <1>2, <1>7, <2>1, <2>2, <2>3, <2>4 DEF TypeOK
<1>10. Called
  <2>1. Countable(Blank)
    BY <1>6, BlankIs, FS_EmptySet DEF Countable
  <2> QED
    BY <1>1, <1>4, <2>1, BlankIs DEF Called
<1>11. Batched
  <2>1. \A b \in Runs : batch[b] = None
    BY <1>1
  <2> QED
    BY <1>1, <1>4, <2>1 DEF Batched
<1>12. Tables
  BY <1>7, <1>8 DEF Tables
<1>13. \A c \in Runs : Entered(c) /\ Believing(c) /\ Ours(c) /\ Settling(c)
  BY <1>4 DEF Entered, Believing, Ours, Settling
<1>14. \A c \in Runs : Judged(c) /\ Holding(c) /\ Barred(c)
  BY <1>4 DEF Judged, Holding, Barred, Having
<1>15. CountedOnce /\ SecondWritesNothing /\ WholeUnlessStopped
  BY <1>4, <1>8 DEF CountedOnce, SecondWritesNothing, WholeUnlessStopped
<1>16. ConstraintOnlyForOthers
  BY <1>4, <1>6 DEF ConstraintOnlyForOthers
<1> QED
  BY <1>9, <1>10, <1>11, <1>12, <1>13, <1>14, <1>15, <1>16 DEF ImportInv

LEMMA StepsKeep ==
  ASSUME ImportInv, NEW c \in Runs, Step(c)
  PROVE  ImportInv'
<1>1. CASE PreviewImport(c)
  BY <1>1, PreviewStarts
<1>2. CASE CommitImport(c)
  BY <1>2, CommitStarts
<1>3. CASE RefuseCommit(c)
  BY <1>3, CommitRefused
<1>4. CASE LedgerFor(c)
  BY <1>4, LooksUpLedger
<1>5. CASE ReadPeople(c)
  BY <1>5, ReadsPeople
<1>6. CASE ReadBusy(c)
  BY <1>6, ReadsBusy
<1>7. CASE LeaveAlone(c)
  BY <1>7, LeavesAlone
<1>8. CASE RefuseRow(c)
  BY <1>8, RefusesRow
<1>9. CASE MatchPerson(c)
  BY <1>9, Matches, ForeseesMatch
<1>10. CASE Foresee(c)
  BY <1>10, Foresees
<1>11. CASE Attempt(c)
  BY <1>11, Attempts
<1>12. CASE CreatePerson(c)
  BY <1>12, CreatesPerson
<1>13. CASE RefusePerson(c)
  BY <1>13, RefusesPerson
<1>14. CASE CarryStatus(c)
  BY <1>14, CarriesStatus
<1>15. CASE CreateSession(c)
  BY <1>15, CreatesSession
<1>16. CASE InsertClashes(c)
  BY <1>16, InsertsClash
<1>17. CASE CreateSeries(c)
  BY <1>17, CreatesSeries
<1>18. CASE Remember(c)
  BY <1>18, Remembers
<1>19. CASE RememberLoses(c)
  BY <1>19, LosesKey
<1>20. CASE RememberMatch(c)
  BY <1>20, RemembersMatch
<1>21. CASE AttachStudent(c)
  BY <1>21, AttachesStudent
<1>22. CASE NextFile(c)
  BY <1>22, FileEnds
<1>23. CASE FinishPreview(c)
  BY <1>23, PreviewFinishes
<1>24. CASE FinishCommit(c)
  BY <1>24, CommitFinishes
<1>25. CASE RecordCommit(c) \/ Stop(c) \/ MatchFails(c)
  BY <1>25, Ends
<1> QED
  BY <1>1, <1>2, <1>3, <1>4, <1>5, <1>6, <1>7, <1>8, <1>9, <1>10, <1>11, <1>12,
     <1>13, <1>14, <1>15, <1>16, <1>17, <1>18, <1>19, <1>20, <1>21, <1>22, <1>23,
     <1>24, <1>25 DEF Step

LEMMA NextKeeps == ImportInv /\ [Next]_vars => ImportInv'
<1> SUFFICES ASSUME ImportInv, [Next]_vars PROVE ImportInv'
  OBVIOUS
<1>1. CASE \E c \in Runs : Step(c)
  BY <1>1, StepsKeep
<1>2. CASE \E u \in Invited : Invite(u)
  BY <1>2, Invites
<1>3. CASE \E s \in Booked : Book(s)
  BY <1>3, Books
<1>4. CASE UNCHANGED vars
  BY <1>4, Rests
<1> QED
  BY <1>1, <1>2, <1>3, <1>4 DEF Next, Rest

LEMMA ImportInvAlways == Spec => []ImportInv
<1>1. Init => ImportInv
  BY StartsIn
<1> QED
  BY <1>1, NextKeeps, PTL DEF Spec

-----------------------------------------------------------------------------
(* The results.                                                            *)

(* Tables, the ledger, batches and requests keep their shape; the ledger   *)
(* names entities that are there; a committed batch has no source left.    *)
THEOREM ImportTypeCorrect == Spec => []TypeOK
<1>1. ImportInv => TypeOK
  BY DEF ImportInv
<1> QED
  BY <1>1, ImportInvAlways, PTL

(* However many imports run, of whatever exports, and wherever they stop,  *)
(* a row is counted as written by one of them at most: the primary key of  *)
(* import_record is what decides, and who loses it says "refused".         *)
THEOREM CountedOnceAlways == Spec => []CountedOnce
<1>1. ImportInv => CountedOnce
  BY DEF ImportInv
<1> QED
  BY <1>1, ImportInvAlways, PTL

(* What an import wrote is in the ledger under the key of its row, with    *)
(* the students of the row that could be found, unless its import is still *)
(* at it, stopped at it, or lost the key and says so.                      *)
THEOREM WholeUnlessStoppedAlways == Spec => []WholeUnlessStopped
<1>1. ImportInv => WholeUnlessStopped
  BY DEF ImportInv
<1> QED
  BY <1>1, ImportInvAlways, PTL

(* The exclusion constraint refuses an import's insert only for a session  *)
(* made by somebody else, or one it made and lost the key of: what it      *)
(* holds in memory answers for all it wrote.                               *)
THEOREM ConstraintOnlyForOthersAlways == Spec => []ConstraintOnlyForOthers
<1>1. ImportInv => ConstraintOnlyForOthers
  BY DEF ImportInv
<1> QED
  BY <1>1, ImportInvAlways, PTL

(* A commit of an export that was committed to the end before it began     *)
(* makes no user, no session and no series, whatever happened in between.  *)
THEOREM SecondWritesNothingAlways == Spec => []SecondWritesNothing
<1>1. ImportInv => SecondWritesNothing
  BY DEF ImportInv
<1> QED
  BY <1>1, ImportInvAlways, PTL
=============================================================================
