------------------------------- MODULE Lists -------------------------------
(***************************************************************************)
(* What the three list screens find: sessionQuery.ts and peopleQuery.ts.   *)
(*                                                                         *)
(* A query's `where` is a set of clauses, each a name and the rows it      *)
(* admits, and a row is found when every clause admits it.  A clause given *)
(* twice is the one given last, as a key of an object is; the code's       *)
(* several clauses on the same relation go under one name here exactly     *)
(* where they go under one key there.                                      *)
(*                                                                         *)
(* Abstracted: money, places and subjects of a row, its attendance rate,   *)
(* login dates, and the texts of the file (a line of it is its values).    *)
(***************************************************************************)
EXTENDS Access, Filters

CONSTANTS
  Titled,      \* a text searched for -> the titles that contain it
  Named,       \* a text searched for -> the people it finds
  Directory,   \* people, in the order of their names
  PAGE_SIZE, PAGE_LIMIT, EXPORT_LIMIT

ASSUME PageSizeAssumption == {PAGE_SIZE, PAGE_LIMIT} \subseteq Nat \ {0}

Clause(name, given, admitted) == When(given, {<<name, admitted>>})
Replacing(where, clauses) ==
  clauses \cup {old \in where : \A clause \in clauses : clause[1] # old[1]}
Meets(rows, where) == {row \in rows : \A clause \in where : row \in clause[2]}
InOrder(rows, Before(_, _)) ==
  [i \in 1 .. Cardinality(rows) |->
     CHOOSE row \in rows : Cardinality({r \in rows : Before(r, row)}) = i - 1]

-----------------------------------------------------------------------------
(* Sessions.                                                               *)

Mine(p) == {p.user} \cup People[p.user].guards

VisibleSessions(sessions, p) ==
  LET any == Has(p, "session.view_any")
  IN  Clause("or", ~any, {s \in sessions : Owns(p, s) \/ OnSession(s) \cap Mine(p) # {}})
      \cup Clause("participants", any /\ SchoolScope(p) # None,
                  {s \in sessions : AtSchools(s, SchoolScope(p))})

TitlesAndStatuses(sessions, filters) ==
  Clause("title", filters.search # None, {s \in sessions : s.title \in Titled[filters.search]})
  \cup Clause("status", filters.statuses # {}, {s \in sessions : s.status \in filters.statuses})

(* Days are the viewer's own; a session that runs on past the first        *)
(* midnight is in.                                                         *)
ApplyFilters(sessions, where, filters, zone) ==
  where \cup TitlesAndStatuses(sessions, filters)
  \cup Clause("scheduledEnd", filters.dateFrom # None,
              {s \in sessions : s.end > At(filters.dateFrom, 0, zone)})
  \cup Clause("scheduledStart", filters.dateTo # None,
              {s \in sessions : s.start < At(filters.dateTo + 1, 0, zone)})

(* A name that is nobody's narrows to nothing.  A student and a school     *)
(* together are two clauses, since they may be two people's; either alone  *)
(* takes the key the viewer's own schools are under.                       *)
NarrowByRefs(sessions, where, filters) ==
  LET ofStudent == {s \in sessions : filters.studentRef \in s.students}
      ofSchool == {s \in sessions : AtSchools(s, {filters.schoolRef})}
      student == filters.studentRef # None
      school == filters.schoolRef # None
  IN  Replacing(where,
        Clause("instructorId", filters.instructorRef # None,
               {s \in sessions : s.who = filters.instructorRef})
        \cup Clause("programId", filters.programRef # None,
                    {s \in sessions : s.program = filters.programRef})
        \cup Clause("and", student /\ school, ofStudent \cap ofSchool)
        \cup Clause("participants", student /\ ~school, ofStudent)
        \cup Clause("participants", school /\ ~student, ofSchool))

Decorate(sessions, p, s) ==
  [session |-> s, names |-> NamesFor(p, s), count |-> Cardinality(s.students),
   involved |-> ViewerInvolved(p, s),
   position |-> IF s.series = None \/ s.position = None THEN None
                ELSE <<s.position, Cardinality({t \in sessions : t.series = s.series})>>]

Decorated(sessions, p, found) == [i \in DOMAIN found |-> Decorate(sessions, p, found[i])]

PageOf(list, page, size) ==
  SubSeq(list, (page - 1) * size + 1,
         IF page * size < Len(list) THEN page * size ELSE Len(list))

ListSessions(sessions, p, filters, limit) ==
  LET where == NarrowByRefs(sessions,
                 ApplyFilters(sessions, VisibleSessions(sessions, p), filters, p.zone), filters)
      Later(a, b) == a.start > b.start \/ (a.start = b.start /\ a.id > b.id)
      found == InOrder(Meets(sessions, where), Later)
  IN  [rows |-> Decorated(sessions, p, PageOf(found, filters.page, limit)), total |-> Len(found)]

(* By the day each begins on where the viewer is; of two that begin        *)
(* together the database may put either first, and here it is the older.   *)
CalendarRange(sessions, p, window, filters) ==
  LET begins == {s \in sessions : /\ At(window.first, 0, p.zone) <= s.start
                                  /\ s.start < At(window.last + 1, 0, p.zone)}
      asked == VisibleSessions(sessions, p) \cup {<<"scheduledStart", begins>>}
               \cup TitlesAndStatuses(sessions, filters)
      where == NarrowByRefs(sessions, asked, filters)
      Earlier(a, b) == a.start < b.start \/ (a.start = b.start /\ a.id < b.id)
  IN  Decorated(sessions, p, InOrder(Meets(sessions, where), Earlier))

Bucket(rows, day, zone) ==
  SelectSeq(rows, LAMBDA row : CivilDate(row.session.start, zone) = day)

(* What the dialog over a calendar entry offers.                           *)
PeekOf(row, p, now) ==
  Over(row, [actions |-> AvailableActions(p, row.session, now, row.involved),
             start |-> CanStartMeeting(p, row.session)])

-----------------------------------------------------------------------------
(* The file.                                                               *)

Line(row, columns) ==
  LET s == row.session
      values == [title |-> s.title, instructor |-> s.who, students |-> row.names,
                 status |-> s.status, scheduled_start |-> s.start,
                 scheduled_duration |-> s.end - s.start]
  IN  [values |-> [c \in columns \cap DOMAIN values |-> values[c]], ref |-> s.id]

ToCsv(rows, columns) == [i \in DOMAIN rows |-> Line(rows[i], columns)]

-----------------------------------------------------------------------------
(* People.                                                                 *)

PeopleWhere(p, options) ==
  LET Admits(Good(_)) == {who \in DOMAIN People : Good(People[who])}
      scope == SchoolScope(p)
      own == Clause("schools", scope # None, Admits(LAMBDA x : x.schools \cap scope # {}))
      rest ==
        {<<"archivedAt", Admits(LAMBDA x : ~x.archived)>>}
        \cup Clause("region", options.regionRef # None,
                    Admits(LAMBDA x : options.regionRef \in x.regions))
        \cup Clause("district", options.districtRef # None,
                    Admits(LAMBDA x : options.districtRef \in x.districts))
        \cup Clause("or", options.search # None, Named[options.search])
        \cup Clause("roles", options.roles # {},
                    Admits(LAMBDA x : x.roles \cap options.roles # {}))
        \cup Clause("status", options.statuses # {},
                    Admits(LAMBDA x : x.status \in options.statuses))
  IN  Replacing(own \cup rest,
                Clause("schools", options.schoolRef # None,
                       Admits(LAMBDA x : options.schoolRef \in x.schools)))

FoundPeople(p, options) ==
  SelectSeq(Directory, LAMBDA who : who \in Meets(DOMAIN People, PeopleWhere(p, options)))

CountPeople(p, options) == Len(FoundPeople(p, options))

(* A row tells who its person guards, is guarded by, teaches and is taught *)
(* by, and the groups they are in.                                         *)
PersonRow(links, who) ==
  [who |-> who,
   guardianOf |-> People[who].guards,
   guardians |-> {g \in DOMAIN People : who \in People[g].guards},
   teaches |-> {s \in DOMAIN People : <<who, s>> \in links},
   instructors |-> {i \in DOMAIN People : <<i, who>> \in links},
   groups |-> {g \in Groups : who \in Members[g]}]

ListPeople(links, p, options) ==
  LET page == PageOf(FoundPeople(p, options), options.page, PAGE_LIMIT)
  IN  [i \in DOMAIN page |-> PersonRow(links, page[i])]

-----------------------------------------------------------------------------
(* Where a page is in its list.                                            *)

PageCount(total, size) == IF total = 0 THEN 1 ELSE (total + size - 1) \div size
HasPrevious(page) == page > 1
HasNext(page, total, size) == page < PageCount(total, size)
=============================================================================
