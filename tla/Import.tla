------------------------------- MODULE Import -------------------------------
(***************************************************************************)
(* lib/services/import: another system's export, previewed and committed.  *)
(* A row of an export has no identifier; what it became is remembered in   *)
(* import_record under a key made from its content and its ordinal among   *)
(* the rows like it, and a row whose key is there is left alone.  One pass *)
(* serves both: a preview is the pass with nothing written.                *)
(*                                                                         *)
(* Each statement commits by itself: another import or a booking may run   *)
(* between two of them, and a commit that stops leaves what it has written *)
(* and a batch that can be committed again.                                *)
(*                                                                         *)
(* Abstracted: CSV parsing and the vocabulary of the export (a row is what *)
(* the readers of pearl.ts make of it), texts of refusals, and what of an  *)
(* entity no later import looks at.                                        *)
(***************************************************************************)
EXTENDS Integers, Sequences, FiniteSets

CONSTANTS
  Runs,        \* requests of the import screen, each a preview or a commit
  Exports,     \* the exports there are
  Uploads,     \* which of them are uploaded, and which of the files
  PeopleRows,  \* the rows of each export's three files
  SessionRows,
  SeriesRows,
  Residents,   \* the users who are here before
  Invited,     \* users somebody may create by hand meanwhile
  Booked,      \* sessions somebody may book meanwhile
  MaxInFlight, \* how many imports run at a time
  MaxDisturbed, \* how many requests stop, users are created by hand, sessions booked
  None

Files == <<"people", "sessions", "series">>
FileName == {Files[i] : i \in 1 .. 3}
Rows(e, f) == CASE f = "people"   -> PeopleRows[e]
                [] f = "sessions" -> SessionRows[e]
                [] f = "series"   -> SeriesRows[e]

VARIABLES
  users,    \* user_account, in the order of their creation
  sessions, \* session_occurrence with its participants
  series,   \* session_series
  ledger,   \* import_record: the entity a key became
  batch,    \* import_batch, by the preview that made it
  trail,    \* the commits that audit_event tells of
  call      \* where each request stands

vars == <<users, sessions, series, ledger, batch, trail, call>>
tables == <<users, sessions, series>>

-----------------------------------------------------------------------------
(* Keys.                                                                   *)

Base(f, r) == CASE f = "people" /\ r.email # None -> <<r.email>>
                [] f = "people" /\ r.email = None -> <<"name", r.name>>
                [] f = "sessions" -> <<r.instructor, r.from, r.title, r.students>>
                [] f = "series"   -> <<r.title, r.instructor, r.from>>

Ordinal(e, f, i) ==
  Cardinality({j \in 1 .. i - 1 :
                 Base(f, Rows(e, f)[j]) = Base(f, Rows(e, f)[i])})
Key(e, f, i) == <<f, Base(f, Rows(e, f)[i]), Ordinal(e, f, i)>>
Keys == UNION {{Key(e, f, i) : i \in DOMAIN Rows(e, f)} :
                 e \in Exports, f \in FileName}

(* The rows there may be: what the readers make of a line of each file.    *)
Account == {"invited", "other"}
PersonRow == [name : STRING, shown : STRING, email : STRING \cup {None},
              roles : BOOLEAN, valid : BOOLEAN, account : Account]
SessionRow == [title : STRING, instructor : STRING, students : Seq(STRING),
               from : Int \cup {None}, minutes : Int,
               status : {"blocking", "free", None}]
SeriesRow == [title : STRING, instructor : STRING, from : Int \cup {None},
              minutes : Int]

Batch == [status : {"previewed", "committed"}, export : Exports,
          files : SUBSET FileName, source : BOOLEAN, seenBefore : BOOLEAN,
          report : {None} \cup [{"written", "here", "refused"} -> Nat]]

ASSUME ImportAssumption ==
  /\ PeopleRows \in [Exports -> Seq(PersonRow)]
  /\ SessionRows \in [Exports -> Seq(SessionRow)]
  /\ SeriesRows \in [Exports -> Seq(SeriesRow)]
  /\ \A u \in Uploads : u[1] \in Exports /\ u[2] \in (SUBSET FileName) \ {{}}
  /\ Residents \in Seq([name : STRING, email : STRING \cup {None}])
  /\ Invited \subseteq [name : STRING, email : STRING \cup {None}]
  /\ Booked \subseteq [who : Nat, from : Int, to : Int]
  /\ {MaxInFlight, MaxDisturbed} \subseteq Nat
  /\ None \notin Keys \cup Runs \cup Int \cup Batch

(* What a row has to have to reach the database at all.                    *)
Readable(f, r) == CASE f = "people"   -> r.roles
                    [] f = "sessions" -> /\ r.from # None /\ r.minutes > 0
                                         /\ r.status # None
                    [] f = "series"   -> r.from # None /\ r.minutes > 0

-----------------------------------------------------------------------------
(* Tables.                                                                 *)

Entity(f) == CASE f = "people" -> users [] f = "sessions" -> sessions
               [] f = "series" -> series

(* The first user of a name; stand-ins are negative.                       *)
Named(us, name) == CHOOSE i \in DOMAIN us : /\ us[i].name = name
                                            /\ \A j \in 1 .. i - 1 : us[j].name # name
ByName(us) == [name \in {us[i].name : i \in DOMAIN us} |-> Named(us, name)]
StandIns(pending, names) ==
  LET new == {pending[j] : j \in DOMAIN pending} \ DOMAIN names
  IN [name \in DOMAIN names \cup new |->
        IF name \in DOMAIN names THEN names[name]
        ELSE -(CHOOSE j \in DOMAIN pending : pending[j] = name)]

ByEmail(us) ==
  [mail \in {us[i].email : i \in DOMAIN us} \ {None} |->
     CHOOSE i \in DOMAIN us : us[i].email = mail]

Span(who, r) == [who |-> who, from |-> r.from, to |-> r.from + r.minutes]
Clash(s, t) == s.who = t.who /\ s.from < t.to /\ t.from < s.to
Holds(who, status) == who # None /\ status = "blocking"
BusyByInstructor(ss) ==
  {[who |-> ss[i].who, from |-> ss[i].from, to |-> ss[i].to] :
     i \in {j \in DOMAIN ss : Holds(ss[j].who, ss[j].status)}}

User == [name : STRING, email : STRING \cup {None}, account : Account,
         from : Keys \cup {None}, by : Runs \cup {None}]
Session == [who : Nat \cup {None}, from : Int, to : Int,
            status : {"blocking", "free"}, roster : SUBSET Nat,
            source : Keys \cup {None}, by : Runs \cup {None}]
Template == [source : Keys, by : Runs]

-----------------------------------------------------------------------------
(* A request: what it works on (export, files left, row), what it has read *)
(* (known, names, emails, busy) or foreseen (pending), the entity at hand, *)
(* and what it has to say of the rows so far.                              *)

Position == UNION {{<<f, i>> : i \in DOMAIN Rows(e, f)} :
                     e \in Exports, f \in FileName}
NoSays == [written |-> {}, here |-> {}, refused |-> {}, clashed |-> {},
           unknown |-> {}]
Blank == [at |-> "idle", commit |-> FALSE, batch |-> None, export |-> None,
          todo |-> <<>>, i |-> 1, known |-> {}, fresh |-> {},
          names |-> <<>>, emails |-> <<>>, busy |-> {}, pending |-> <<>>,
          entity |-> 0, student |-> 1, says |-> NoSays, after |-> {}]

Working == {"ledger", "lookup", "busy", "rows", "match", "create", "status",
            "remember", "attach", "report", "event"}
Ended == {"done", "failed", "dead"}

Init ==
  /\ users = [i \in DOMAIN Residents |-> [name |-> Residents[i].name,
                email |-> Residents[i].email, account |-> "other",
                from |-> None, by |-> None]]
  /\ sessions = <<>> /\ series = <<>>
  /\ ledger = <<>>
  /\ batch = [c \in Runs |-> None]
  /\ trail = {}
  /\ call = [c \in Runs |-> Blank]

Active(c) == call[c].at \in Working
Turn(c, k) == call' = [call EXCEPT ![c] = k]
Go(c, at) == Turn(c, [call[c] EXCEPT !.at = at])
File(c) == Head(call[c].todo)
TheRow(c) == Rows(call[c].export, File(c))[call[c].i]
TheKey(c) == Key(call[c].export, File(c), call[c].i)
AtRow(c) == /\ call[c].at = "rows"
            /\ call[c].i <= Len(Rows(call[c].export, File(c)))
AtNew(c) == AtRow(c) /\ TheKey(c) \notin call[c].known \cup call[c].fresh

(* On to the next row, with something to say of this one.                  *)
Say(k, what) == [k EXCEPT !.at = "rows", !.i = @ + 1, !.entity = 0,
                          !.student = 1,
                          !.says[what] = @ \cup {<<Head(k.todo), k.i>>}]
On(k) == [k EXCEPT !.at = "rows", !.i = @ + 1, !.entity = 0, !.student = 1]
End(c, at) == Turn(c, [Blank EXCEPT
                 !.at = at, !.commit = call[c].commit, !.batch = call[c].batch,
                 !.export = call[c].export, !.entity = call[c].entity,
                 !.todo = call[c].todo, !.says = call[c].says,
                 !.after = call[c].after])

Admitted(c) == /\ call[c].at = "idle"
               /\ Cardinality({d \in Runs : Active(d)}) < MaxInFlight
Order(files) == LET only(f) == IF f \in files THEN <<f>> ELSE <<>>
                IN only(Files[1]) \o only(Files[2]) \o only(Files[3])
Start(c, commit, b, e, files) ==
  Turn(c, [Blank EXCEPT !.at = "ledger", !.commit = commit, !.batch = b,
             !.export = e, !.todo = Order(files),
             !.after = {d \in Runs : call[d].at = "done"}])

(* previewImport, up to the pass.  seenBefore is a remark of the report.   *)
(* Previews change nothing anybody else reads but the list of batches, and *)
(* are begun while no import runs (a bound).                               *)
PreviewImport(c) ==
  /\ Admitted(c) /\ \A d \in Runs : ~Active(d)
  /\ \E u \in Uploads : LET e == u[1]
                            files == u[2] IN
       /\ batch' = [batch EXCEPT ![c] =
                      [status |-> "previewed", export |-> e, files |-> files,
                       source |-> TRUE, report |-> None,
                       seenBefore |-> \E d \in Runs :
                         /\ batch[d] # None /\ batch[d].status = "committed"
                         /\ batch[d].export = e /\ batch[d].files = files]]
       /\ Start(c, FALSE, c, e, files)
  /\ UNCHANGED <<tables, ledger, trail>>

(* commitImport: the screen has the batch's ref from the preview's report. *)
Shown(b) == batch[b] # None /\ batch[b].report # None
CommitImport(c) ==
  /\ Admitted(c)
  /\ \E b \in Runs :
       /\ Shown(b) /\ batch[b].status = "previewed"
       /\ Start(c, TRUE, b, batch[b].export, batch[b].files)
  /\ UNCHANGED <<tables, ledger, batch, trail>>

(* That import has already been run.                                       *)
RefuseCommit(c) ==
  /\ Admitted(c)
  /\ \E b \in Runs :
       /\ Shown(b) /\ batch[b].status = "committed"
       /\ Turn(c, [Blank EXCEPT !.at = "failed", !.commit = TRUE, !.batch = b])
  /\ UNCHANGED <<tables, ledger, batch, trail>>

-----------------------------------------------------------------------------
(* Reading, at the start of a file.                                        *)

LedgerButSeries(c) ==
  /\ call[c].at = "ledger"
  /\ Turn(c, [call[c] EXCEPT !.at = "lookup", !.fresh = {},
                 !.known = {key \in DOMAIN ledger :
                              key[1] = File(c) /\ key[1] # "series"}])
  /\ UNCHANGED <<tables, ledger, batch, trail>>

LedgerFor(c) ==
  /\ call[c].at = "ledger"
  /\ Turn(c, [call[c] EXCEPT !.at = "lookup", !.fresh = {},
                 !.known = {key \in DOMAIN ledger : key[1] = File(c)}])
  /\ UNCHANGED <<tables, ledger, batch, trail>>

ReadPeople(c) ==
  /\ call[c].at = "lookup"
  /\ Turn(c, [call[c] EXCEPT
       !.at = IF File(c) = "sessions" THEN "busy" ELSE "rows",
       !.emails = IF File(c) = "people" THEN ByEmail(users) ELSE <<>>,
       !.names = IF File(c) = "people" THEN <<>>
                 ELSE IF File(c) = "sessions"
                 THEN StandIns(call[c].pending, ByName(users))
                 ELSE ByName(users)])
  /\ UNCHANGED <<tables, ledger, batch, trail>>

ReadBusy(c) ==
  /\ call[c].at = "busy"
  /\ Turn(c, [call[c] EXCEPT !.at = "rows", !.busy = BusyByInstructor(sessions)])
  /\ UNCHANGED <<tables, ledger, batch, trail>>

-----------------------------------------------------------------------------
(* The rows, judged in memory.                                             *)

Instructor(c) == LET r == TheRow(c) IN
  IF r.instructor \in DOMAIN call[c].names THEN call[c].names[r.instructor]
                                           ELSE None
Blocking(c) == Holds(Instructor(c), TheRow(c).status)
Busy(c) == /\ Blocking(c)
           /\ \E s \in call[c].busy : Clash(s, Span(Instructor(c), TheRow(c)))
HoldNothing(c, k) == k
Hold(c, k) == IF File(c) = "sessions" /\ Blocking(c)
              THEN [k EXCEPT !.busy = @ \cup {Span(Instructor(c), TheRow(c))}]
              ELSE k
Matched(c) == /\ File(c) = "people" /\ TheRow(c).email # None
              /\ TheRow(c).email \in DOMAIN call[c].emails

LeaveAlone(c) ==
  /\ AtRow(c) /\ ~AtNew(c)
  /\ Turn(c, Say(call[c], "here"))
  /\ UNCHANGED <<tables, ledger, batch, trail>>

RefuseRow(c) ==
  /\ AtNew(c)
  /\ \/ ~Readable(File(c), TheRow(c))
     \/ /\ Readable(File(c), TheRow(c))
        /\ File(c) = "sessions" /\ Busy(c)
  /\ Turn(c, Say(call[c], "refused"))
  /\ UNCHANGED <<tables, ledger, batch, trail>>

MatchPerson(c) ==
  /\ AtNew(c) /\ Readable(File(c), TheRow(c)) /\ Matched(c)
  /\ IF call[c].commit THEN Go(c, "match") ELSE Turn(c, Say(call[c], "here"))
  /\ UNCHANGED <<tables, ledger, batch, trail>>

Writable(c) == /\ AtNew(c) /\ Readable(File(c), TheRow(c)) /\ ~Matched(c)
               /\ File(c) = "sessions" => ~Busy(c)

(* A preview foresees what the row would become.                           *)
Foresee(c) ==
  LET k == Hold(c, call[c]) IN
  /\ Writable(c) /\ ~call[c].commit
  /\ Turn(c, Say([k EXCEPT
       !.fresh = @ \cup {TheKey(c)},
       !.pending = IF File(c) = "people" THEN Append(@, TheRow(c).shown) ELSE @],
       "written"))
  /\ UNCHANGED <<tables, ledger, batch, trail>>

Attempt(c) ==
  /\ Writable(c) /\ call[c].commit
  /\ Go(c, "create")
  /\ UNCHANGED <<tables, ledger, batch, trail>>

-----------------------------------------------------------------------------
(* The rows, written.                                                      *)

(* createPerson, and the index on the address behind it.                   *)
Acceptable(r) == /\ r.valid
                 /\ r.email # None => \A i \in DOMAIN users : users[i].email # r.email
CreatePerson(c) ==
  LET r == TheRow(c) IN
  /\ call[c].at = "create" /\ File(c) = "people" /\ Acceptable(r)
  /\ users' = Append(users, [name |-> r.shown, email |-> r.email,
                             account |-> "invited", from |-> TheKey(c), by |-> c])
  /\ Turn(c, [call[c] EXCEPT !.entity = Len(users) + 1,
                 !.at = IF r.account = "invited" THEN "remember" ELSE "status"])
  /\ UNCHANGED <<sessions, series, ledger, batch, trail>>

RefusePerson(c) ==
  /\ call[c].at = "create" /\ File(c) = "people" /\ ~Acceptable(TheRow(c))
  /\ Turn(c, Say(call[c], "refused"))
  /\ UNCHANGED <<tables, ledger, batch, trail>>

CarryStatus(c) ==
  /\ call[c].at = "status"
  /\ users' = [users EXCEPT ![call[c].entity].account = TheRow(c).account]
  /\ Go(c, "remember")
  /\ UNCHANGED <<sessions, series, ledger, batch, trail>>

(* The exclusion constraint judges the insert.                             *)
Excluded(c) ==
  /\ Blocking(c)
  /\ \E s \in BusyByInstructor(sessions) : Clash(s, Span(Instructor(c), TheRow(c)))
CreateSession(c) ==
  LET r == TheRow(c) IN
  /\ call[c].at = "create" /\ File(c) = "sessions" /\ ~Excluded(c)
  /\ sessions' = Append(sessions,
       [who |-> Instructor(c), from |-> r.from, to |-> r.from + r.minutes,
        status |-> r.status, roster |-> {}, source |-> TheKey(c), by |-> c])
  /\ Turn(c, [call[c] EXCEPT !.at = "remember", !.entity = Len(sessions) + 1])
  /\ UNCHANGED <<users, series, ledger, batch, trail>>

InsertClashes(c) ==
  /\ call[c].at = "create" /\ File(c) = "sessions" /\ Excluded(c)
  /\ Turn(c, [Say(call[c], "refused") EXCEPT
                !.says.clashed = @ \cup {<<"sessions", call[c].i>>}])
  /\ UNCHANGED <<tables, ledger, batch, trail>>

CreateSeries(c) ==
  /\ call[c].at = "create" /\ File(c) = "series"
  /\ series' = Append(series, [source |-> TheKey(c), by |-> c])
  /\ Turn(c, [call[c] EXCEPT !.at = "remember", !.entity = Len(series) + 1])
  /\ UNCHANGED <<users, sessions, ledger, batch, trail>>

Enter(key, id) ==
  ledger' = [x \in DOMAIN ledger \cup {key} |-> IF x = key THEN id ELSE ledger[x]]

(* What follows a remembered row.                                          *)
Kept(c) ==
  LET k == [call[c] EXCEPT !.fresh = @ \cup {TheKey(c)}]
      r == TheRow(c)
  IN IF File(c) = "people"
     THEN Say([k EXCEPT !.emails = IF r.email = None THEN @
                 ELSE [m \in DOMAIN @ \cup {r.email} |->
                         IF m = r.email THEN k.entity ELSE @[m]]], "written")
     ELSE IF File(c) = "sessions" /\ r.students # <<>>
     THEN [Hold(c, k) EXCEPT !.at = "attach",
             !.says.written = @ \cup {<<"sessions", k.i>>}]
     ELSE Say(Hold(c, k), "written")

RememberOver(c) ==
  /\ call[c].at = "remember"
  /\ Enter(TheKey(c), call[c].entity)
  /\ Turn(c, Kept(c))
  /\ UNCHANGED <<tables, batch, trail>>

Remember(c) ==
  /\ call[c].at = "remember" /\ TheKey(c) \notin DOMAIN ledger
  /\ Enter(TheKey(c), call[c].entity)
  /\ Turn(c, Kept(c))
  /\ UNCHANGED <<tables, batch, trail>>

(* Another import was first: the entity stays, the row counts as refused.  *)
RememberLoses(c) ==
  /\ call[c].at = "remember" /\ TheKey(c) \in DOMAIN ledger
  /\ Turn(c, Say(call[c], "refused"))
  /\ UNCHANGED <<tables, ledger, batch, trail>>

RememberMatch(c) ==
  /\ call[c].at = "match" /\ TheKey(c) \notin DOMAIN ledger
  /\ Enter(TheKey(c), call[c].emails[TheRow(c).email])
  /\ Turn(c, Say([call[c] EXCEPT !.fresh = @ \cup {TheKey(c)}], "here"))
  /\ UNCHANGED <<tables, batch, trail>>

(* For a person who was here nothing catches that: the commit ends.        *)
MatchFails(c) ==
  /\ call[c].at = "match" /\ TheKey(c) \in DOMAIN ledger
  /\ End(c, "failed")
  /\ UNCHANGED <<tables, ledger, batch, trail>>

(* The students of a session, one by one.                                  *)
AttachFirst(c) ==
  LET k == call[c]
      name == TheRow(c).students[1]
      fits == name \in DOMAIN k.names
  IN
  /\ k.at = "attach"
  /\ sessions' = IF fits
       THEN [sessions EXCEPT ![k.entity].roster = @ \cup {k.names[name]}]
       ELSE sessions
  /\ Turn(c, On(k))
  /\ UNCHANGED <<users, series, ledger, batch, trail>>

AttachStudent(c) ==
  LET k == call[c]
      name == TheRow(c).students[k.student]
      spot == <<"sessions", k.i, k.student>>
      known == name \in DOMAIN k.names
      fits == known /\ k.names[name] \notin sessions[k.entity].roster
      said == IF fits THEN k ELSE [k EXCEPT !.says.unknown = @ \cup {spot}]
  IN
  /\ k.at = "attach"
  /\ sessions' = IF fits
       THEN [sessions EXCEPT ![k.entity].roster = @ \cup {k.names[name]}]
       ELSE sessions
  /\ Turn(c, IF k.student < Len(TheRow(c).students)
             THEN [said EXCEPT !.student = @ + 1] ELSE On(said))
  /\ UNCHANGED <<users, series, ledger, batch, trail>>

-----------------------------------------------------------------------------
(* The end of a file, of a preview, of a commit.                           *)

NextFile(c) ==
  /\ call[c].at = "rows" /\ call[c].i > Len(Rows(call[c].export, File(c)))
  /\ Turn(c, [call[c] EXCEPT !.todo = Tail(@), !.i = 1,
                 !.at = IF Len(call[c].todo) > 1 THEN "ledger" ELSE "report"])
  /\ UNCHANGED <<tables, ledger, batch, trail>>

Counts(says) == [what \in {"written", "here", "refused"} |->
                   Cardinality(says[what])]

FinishPreview(c) ==
  /\ call[c].at = "report" /\ ~call[c].commit
  /\ batch' = [batch EXCEPT ![c].report = Counts(call[c].says)]
  /\ End(c, "done")
  /\ UNCHANGED <<tables, ledger, trail>>

FinishKeepingSource(c) ==
  /\ call[c].at = "report" /\ call[c].commit
  /\ batch' = [batch EXCEPT ![call[c].batch] =
                 [@ EXCEPT !.status = "committed", !.report = Counts(call[c].says)]]
  /\ Go(c, "event")
  /\ UNCHANGED <<tables, ledger, trail>>

FinishCommit(c) ==
  /\ call[c].at = "report" /\ call[c].commit
  /\ batch' = [batch EXCEPT ![call[c].batch] =
                 [@ EXCEPT !.status = "committed", !.source = FALSE,
                           !.report = Counts(call[c].says)]]
  /\ Go(c, "event")
  /\ UNCHANGED <<tables, ledger, trail>>

RecordCommit(c) ==
  /\ call[c].at = "event"
  /\ trail' = trail \cup {c}
  /\ End(c, "done")
  /\ UNCHANGED <<tables, ledger, batch>>

(* The bound on what disturbs the imports.                                 *)
Disturbable ==
  Cardinality({c \in Runs : call[c].at = "dead"})
  + Cardinality({i \in DOMAIN users : users[i].from = None}) - Len(Residents)
  + Cardinality({i \in DOMAIN sessions : sessions[i].by = None}) < MaxDisturbed

Stop(c) ==
  /\ Active(c) /\ Disturbable
  /\ End(c, "dead")
  /\ UNCHANGED <<tables, ledger, batch, trail>>

-----------------------------------------------------------------------------
(* Other people: somebody is created by hand, a session is booked.         *)

Invite(u) ==
  /\ u \in Invited /\ Disturbable
  /\ \A i \in DOMAIN users : users[i].email # u.email
  /\ users' = Append(users, [name |-> u.name, email |-> u.email,
                             account |-> "invited", from |-> None, by |-> None])
  /\ UNCHANGED <<sessions, series, ledger, batch, trail, call>>

Book(s) ==
  LET span == [who |-> s.who, from |-> s.from, to |-> s.to] IN
  /\ s \in Booked /\ s.who \in DOMAIN users /\ Disturbable
  /\ \A t \in BusyByInstructor(sessions) : ~Clash(t, span)
  /\ sessions' = Append(sessions, [who |-> s.who, from |-> s.from, to |-> s.to,
                   status |-> "blocking", roster |-> {}, source |-> None,
                   by |-> None])
  /\ UNCHANGED <<users, series, ledger, batch, trail, call>>

Rest == (\A c \in Runs : ~Active(c)) /\ UNCHANGED vars

Step(c) ==
  \/ PreviewImport(c) \/ CommitImport(c) \/ RefuseCommit(c)
  \/ LedgerFor(c) \/ ReadPeople(c) \/ ReadBusy(c)
  \/ LeaveAlone(c) \/ RefuseRow(c) \/ MatchPerson(c) \/ Foresee(c) \/ Attempt(c)
  \/ CreatePerson(c) \/ RefusePerson(c) \/ CarryStatus(c)
  \/ CreateSession(c) \/ InsertClashes(c) \/ CreateSeries(c)
  \/ Remember(c) \/ RememberLoses(c) \/ RememberMatch(c) \/ MatchFails(c)
  \/ AttachStudent(c) \/ NextFile(c)
  \/ FinishPreview(c) \/ FinishCommit(c) \/ RecordCommit(c) \/ Stop(c)

(* Between two statements a request is not interrupted: the loop over the  *)
(* rows runs on to the next await before anybody else moves.               *)
Waiting(c) == call[c].at # "rows"
Next ==
  \/ Rest
  \/ \E c \in Runs : (\A d \in Runs \ {c} : Waiting(d)) /\ Step(c)
  \/ \E u \in Invited : (\A d \in Runs : Waiting(d)) /\ Invite(u)
  \/ \E s \in Booked : (\A d \in Runs : Waiting(d)) /\ Book(s)

Spec == Init /\ [][Next]_vars

-----------------------------------------------------------------------------
(* Properties.                                                             *)

TypeOK ==
  /\ users \in Seq(User) /\ sessions \in Seq(Session) /\ series \in Seq(Template)
  /\ DOMAIN ledger \subseteq Keys
  /\ \A key \in DOMAIN ledger : ledger[key] \in DOMAIN Entity(key[1])
  /\ batch \in [Runs -> Batch \cup {None}]
  /\ \A b \in Runs : batch[b] # None =>
       batch[b].source = (batch[b].status = "previewed")
  /\ trail \subseteq Runs
  /\ \A c \in Runs :
       /\ call[c].at \in {"idle"} \cup Working \cup Ended
       /\ call[c].known \cup call[c].fresh \subseteq Keys
       /\ \A what \in {"written", "here", "refused", "clashed"} :
            call[c].says[what] \subseteq Position

(* Made from a row, in the file f: what the ledger should name.            *)
Made(f) == {i \in DOMAIN Entity(f) :
              IF f = "people" THEN users[i].from # None
              ELSE Entity(f)[i].source # None}
SourceOf(f, i) == IF f = "people" THEN users[i].from ELSE Entity(f)[i].source
MadeBy(f, i) == Entity(f)[i].by

(* Everything an import wrote is whole: the ledger names it under the key  *)
(* of its row, and a session has every student of the row it could find.   *)
(* Otherwise its import is at it, stopped at it, or lost the key to        *)
(* another import and says so.                                             *)
AtHand(f, i) == LET k == call[MadeBy(f, i)] IN
  k.at \notin {"done"} /\ k.todo # <<>> /\ Head(k.todo) = f /\ k.entity = i
LostTheKey(f, i) ==
  /\ SourceOf(f, i) \in DOMAIN ledger /\ ledger[SourceOf(f, i)] # i
  /\ \E p \in call[MadeBy(f, i)].says.refused :
       p[1] = f /\ Key(call[MadeBy(f, i)].export, f, p[2]) = SourceOf(f, i)
Students(f, i) == IF f = "sessions" THEN SourceOf(f, i)[2][4] ELSE <<>>
WholeUnlessStopped ==
  \A f \in FileName : \A i \in Made(f) :
    \/ AtHand(f, i) \/ LostTheKey(f, i)
    \/ /\ SourceOf(f, i) \in DOMAIN ledger /\ ledger[SourceOf(f, i)] = i
       /\ \A n \in DOMAIN Students(f, i) :
            \/ \E p \in call[MadeBy(f, i)].says.unknown :
                 /\ p[3] = n
                 /\ Key(call[MadeBy(f, i)].export, f, p[2]) = SourceOf(f, i)
            \/ \E u \in sessions[i].roster : users[u].name = Students(f, i)[n]

(* However many imports of whatever exports run at once, a row is counted  *)
(* as written by one of them at most.                                      *)
WrittenKeys(c) == {Key(call[c].export, p[1], p[2]) : p \in call[c].says.written}
CountedOnce ==
  \A c, d \in Runs : c # d /\ call[c].commit /\ call[d].commit =>
    WrittenKeys(c) \cap WrittenKeys(d) = {}

(* The check in memory answers for the constraint: an insert is refused    *)
(* only for a session this import could not know of, because another made  *)
(* it, or because it lost the key of it.                                   *)
ConstraintOnlyForOthers ==
  \A c \in Runs : \A p \in call[c].says.clashed :
    LET r == SessionRows[call[c].export][p[2]] IN
    \E i \in DOMAIN sessions :
      /\ sessions[i].status = "blocking" /\ sessions[i].who # None
      /\ users[sessions[i].who].name = r.instructor
      /\ Clash([sessions[i] EXCEPT !.who = 0], Span(0, r))
      /\ sessions[i].by = c => LostTheKey("sessions", i)

(* Importing what was imported to the end adds nothing, whatever else      *)
(* happened in between: no user, no session, no series.                    *)
Again(c, d) ==
  /\ call[c].commit /\ call[d].commit /\ c \in call[d].after
  /\ batch[call[c].batch].export = batch[call[d].batch].export
  /\ batch[call[d].batch].files \subseteq batch[call[c].batch].files
SecondWritesNothing ==
  \A c, d \in Runs : Again(c, d) =>
    \A f \in FileName : \A i \in Made(f) : MadeBy(f, i) # d

(* What the documentation says: with nobody else about, what the preview   *)
(* counts as written is what its commit writes.                            *)
PreviewForecasts ==
  \A c \in Runs : call[c].at = "done" /\ call[c].commit =>
    call[c].says.written = call[call[c].batch].says.written
=============================================================================
