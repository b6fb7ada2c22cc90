-------------------------------- MODULE Desk --------------------------------
(***************************************************************************)
(* Somebody at work: the three list screens, the booking form among them,  *)
(* and the cookie each list keeps its filter in.                           *)
(*                                                                         *)
(* A screen is drawn from its cookie, the rows and the clock as they were  *)
(* when it was asked for (`display`) and goes stale: other people book,    *)
(* the day changes, and another tab writes the same cookie.  Every control *)
(* of a screen is a form that posts the whole filter, put together from    *)
(* what was drawn; the server parses it, stores its one spelling in the    *)
(* cookie and draws the screen again.                                      *)
(*                                                                         *)
(* Composes Lists and Filters with BookingForm: what a booking writes is   *)
(* what the lists find next.  The form is left only while nothing of it is *)
(* under way.  Bounds: BookingForm's clicks and changes of others are      *)
(* shared by all screens, and the controls offer the values of the         *)
(* constants below.                                                        *)
(***************************************************************************)
EXTENDS BookingForm, Lists

CONSTANTS
  SignedIn,      \* who may be at the desk
  Booker,        \* whose booking Viewer describes
  Regions, Districts,
  MONTH_CELL_LIMIT,
  Links,         \* addresses that may be followed: screen and query
  Remembered,    \* what the cookies may hold to begin with
  TabWrites,     \* what another tab may write into them
  DrawerPicks,   \* fields that may be changed in the drawer at one go
  Texts,         \* searches that may be typed in the toolbar
  Ticks,         \* sets of boxes that may be left ticked in a menu
  PressedDays,   \* days that may be pressed
  Rows0,         \* the rows to begin with
  HalfFilled     \* a booking form part of the way through

VARIABLES
  me,            \* who is signed in
  cookies,       \* screen -> query
  at,            \* a screen, or "book", or "record" after a booking
  display,       \* state, today, rows, people, total: the screen as it was drawn
  file           \* the last export: lines and columns

deskVars == <<me, cookies, at, display, file>>
vars == <<formVars, deskVars>>

Screens == {"calendar", "sessions", "people"}
Principal == LoadPrincipal(me)
TodayFor(p) == CivilDate(world.now, p.zone)

-----------------------------------------------------------------------------
(* What each screen draws.                                                 *)

ViewOf(query) == ParseView(Get(query, "view"))
AnchorOf(query, today) == ParseAnchor(Get(query, "date"), today)
WindowOf(query, today) == BuildWindow(ViewOf(query), AnchorOf(query, today))

(* Nothing stored is the five the calendar opens with; on the session grid *)
(* it is every status.                                                     *)
CalendarFilters(query) ==
  IF "status" \in DOMAIN query THEN ParseFilters(query)
  ELSE [ParseFilters(query) EXCEPT !.statuses = CALENDAR_INITIAL_STATUSES]

Blank == [state |-> NothingSet, today |-> 0, rows |-> <<>>, people |-> <<>>, total |-> 0]

CalendarPage(p, query) ==
  LET found == CalendarRange(world.sessions, p, WindowOf(query, TodayFor(p)),
                             CalendarFilters(query))
  IN  [Blank EXCEPT !.rows = [i \in DOMAIN found |-> PeekOf(found[i], p, world.now)],
                    !.total = Len(found)]

SessionsPage(p, query) ==
  LET results == ListSessions(world.sessions, p, ParseFilters(query), PAGE_SIZE)
  IN  [Blank EXCEPT !.rows = results.rows, !.total = results.total]

PeoplePage(p, query) ==
  LET filters == ParseDirectoryFilters(query)
  IN  [Blank EXCEPT !.people = ListPeople(world.links, p, filters),
                    !.total = CountPeople(p, filters)]

Paint(screen, query) ==
  LET p == Principal
      drawn == CASE screen = "calendar" -> CalendarPage(p, query)
                 [] screen = "sessions" -> SessionsPage(p, query)
                 [] screen = "people"   -> PeoplePage(p, query)
  IN  [drawn EXCEPT !.state = query, !.today = TodayFor(p)]

(* The directory is for those who may see people.                          *)
MayOpen(screen) == screen = "people" => Has(Principal, "user.view")

-----------------------------------------------------------------------------
(* The server's side of a control.                                         *)

(* A move outranks the range the form carries.                             *)
CalendarRangeAsked(params, today) ==
  LET goto == Get(params, "goto_at")
      Chosen(moved, key) == Setting(moved, Get(params, key))
  IN  IF goto # None
      THEN [view |-> ParseView(goto[1]), anchor |-> goto[2]]
      ELSE [view |-> ParseView(Chosen(Get(params, "goto_view"), "view")),
            anchor |-> ParseAnchor(Chosen(Get(params, "goto_date"), "date"), today)]

Canonical(screen, params, today) ==
  CASE screen = "people"   -> DirectoryQuery(ParseDirectoryFilters(params))
    [] screen = "sessions" -> ToQuery(ParseFilters(params))
    [] screen = "calendar" ->
         LET range == CalendarRangeAsked(params, today)
         IN  QueryString(ParseFilters(params), range.view, range.anchor, today)

(* The cookie is replaced and the screen drawn again.                      *)
Apply(query) ==
  /\ Click
  /\ cookies' = [cookies EXCEPT ![at] = query]
  /\ display' = Paint(at, query)
  /\ UNCHANGED <<form, me, at, file>>

Submitted(params) == Apply(Canonical(at, params, TodayFor(Principal)))

-----------------------------------------------------------------------------
(* The forms, as the screen drew them.                                     *)

StateFields(query, omit) == Without(query, omit)
Only(key, value) == [k \in {key} |-> value]
Boxes(selected, offered) == {value \in offered : Ticked(selected, value)}

(* The range, unless it is what its absence means.                         *)
RangeFields ==
  LET anchor == AnchorOf(display.state, display.today)
  IN  [view |-> IF ViewOf(display.state) = "month" THEN None ELSE ViewOf(display.state),
       date |-> IF anchor = display.today THEN None ELSE anchor]

PersonOptions(role) ==
  {who \in DOMAIN People : ~People[who].archived /\ role \in People[who].roles}
Programs == {s.program : s \in Rows0.sessions} \ {None}
OfferedSchools ==
  IF at = "people" /\ SchoolScope(Principal) # None THEN SchoolScope(Principal) ELSE Schools

SelectOptions ==
  [instructor |-> PersonOptions("INSTRUCTOR"), student |-> PersonOptions("STUDENT"),
   program |-> Programs, school |-> OfferedSchools, region |-> Regions,
   district |-> Districts]

WhoFields(filters) ==
  [instructor |-> Shown(filters.instructorRef, SelectOptions.instructor),
   student |-> Shown(filters.studentRef, SelectOptions.student),
   school |-> Shown(filters.schoolRef, SelectOptions.school)]

DrawerFields ==
  LET filters == IF at = "calendar" THEN CalendarFilters(display.state)
                 ELSE ParseFilters(display.state)
      asked == ParseDirectoryFilters(display.state)
      common == [q |-> filters.search, status |-> Boxes(filters.statuses, STATUS_FILTER_ORDER)]
  IN  CASE at = "calendar" -> Over(RangeFields, Over(common, WhoFields(filters)))
        [] at = "sessions" ->
             Over([from |-> filters.dateFrom, to |-> filters.dateTo,
                   program |-> Shown(filters.programRef, Programs),
                   columns |-> filters.columns \cap ColumnsFor],
                  Over(common, WhoFields(filters)))
        [] at = "people" ->
             [q |-> asked.search, role |-> Boxes(asked.roles, ROLE_FILTER_ORDER),
              status |-> Boxes(asked.statuses, USER_STATUS_FILTER_ORDER),
              region |-> Shown(asked.regionRef, Regions),
              district |-> Shown(asked.districtRef, Districts),
              school |-> Shown(asked.schoolRef, OfferedSchools)]

(* The toolbar has the search box and one menu, and carries what the       *)
(* drawer set; the session grid and the directory go back to page one.     *)
Menu ==
  IF at = "people"
  THEN [key |-> "role", offered |-> ROLE_FILTER_ORDER,
        selected |-> ParseDirectoryFilters(display.state).roles]
  ELSE [key |-> "status", offered |-> STATUS_FILTER_ORDER,
        selected |-> IF at = "calendar" THEN CalendarFilters(display.state).statuses
                     ELSE ParseFilters(display.state).statuses]

ToolbarFields ==
  LET carried ==
        CASE at = "calendar" ->
               Over(Present(RangeFields),
                    StateFields(display.state, {"q", "status", "view", "date"}))
          [] at = "sessions" -> StateFields(ToQuery(ParseFilters(display.state)),
                                            {"q", "status", "page"})
          [] at = "people"   -> StateFields(display.state, {"q", "role", "page"})
      typed == Present([q |-> Get(display.state, "q")])
  IN  Over(Only(Menu.key, Boxes(Menu.selected, Menu.offered)), Over(typed, carried))

-----------------------------------------------------------------------------
(* What the person does at a screen.                                       *)

Open(screen) ==
  /\ Click
  /\ MayOpen(screen)
  /\ at' = screen /\ display' = Paint(screen, cookies[screen])
  /\ UNCHANGED <<me, cookies, file>>

Visit(screen) == at # "book" /\ Open(screen) /\ UNCHANGED form
LeaveForm(screen) == at = "book" /\ ~Waiting /\ Open(screen) /\ OpenForm

(* What each screen reads off an address; a link that says nothing else    *)
(* clears the filter.                                                      *)
AddressKeys ==
  [people   |-> {"q", "role", "status", "region", "district", "school"},
   sessions |-> {"q", "status", "from", "to", "instructor", "program", "page", "columns"},
   calendar |-> {"view", "date", "q", "status", "instructor", "student"}]

Address(link) == Without(link.query, DOMAIN link.query \ AddressKeys[link.screen])
FollowLink(link) ==
  LET kept == Address(link)
  IN  /\ Click
      /\ at \in Screens \cup {"record"} /\ MayOpen(link.screen)
      /\ at' = link.screen
      /\ cookies' = [cookies EXCEPT ![link.screen] = kept]
      /\ display' = Paint(link.screen, kept)
      /\ UNCHANGED <<form, me, file>>

ApplyDrawer(picked) ==
  /\ at \in Screens
  /\ DOMAIN picked \subseteq DOMAIN DrawerFields
  /\ \A key \in DOMAIN picked \cap DOMAIN SelectOptions :
       picked[key] \in SelectOptions[key] \cup {None}
  /\ Submitted(Present(Over(picked, DrawerFields)))

Search(text) ==
  /\ at \in Screens
  /\ Submitted(Over(Present([q |-> text]), Without(ToolbarFields, {"q"})))

(* Closing the menu applies it, if it says something else than before.     *)
CloseMenu(ticks) ==
  /\ at \in Screens /\ ticks \subseteq Menu.offered
  /\ WhenNarrows(ticks, Menu.offered) # WhenNarrows(Menu.selected, Menu.offered)
  /\ Submitted(Over(Only(Menu.key, ticks), ToolbarFields))

Reset ==
  /\ at \in Screens
  /\ Apply(IF at # "calendar" THEN NothingSet
           ELSE LET range == CalendarRangeAsked(Present(RangeFields), TodayFor(Principal))
                IN  QueryString(EMPTY_FILTERS, range.view, range.anchor, TodayFor(Principal)))

(* The arrows, the views, Today, each day and each "+N more".              *)
GoToMoves ==
  LET w == WindowOf(display.state, display.today)
      zone == Principal.zone
      Holds(day, n) == Len(Bucket(display.rows, day, zone)) > n
      days == {day \in w.first .. w.last : w.view = "list" => Holds(day, 0)}
      pressed == {w.previous, w.following} \cup (days \cap PressedDays)
                 \cup (IF w.view = "day" THEN {display.today} ELSE {})
      hidden == {day \in days : w.view = "month" /\ Holds(day, MONTH_CELL_LIMIT)}
  IN  {[goto_date |-> day] : day \in pressed} \cup {[goto_view |-> v] : v \in Views}
      \cup {[goto_at |-> <<"day", day>>] : day \in hidden}

GoTo(move) == at = "calendar" /\ Submitted(Over(move, StateFields(display.state, {})))

PageAt == ParsePage(Get(display.state, "page"))
Turns ==
  LET size == IF at = "people" THEN PAGE_LIMIT ELSE PAGE_SIZE
      drawn == IF at = "people" THEN display.total > 0 ELSE display.rows # <<>>
  IN  {n \in {PageAt - 1, PageAt + 1} :
         drawn /\ IF n < PageAt THEN HasPrevious(PageAt)
                  ELSE HasNext(PageAt, display.total, size)}

TurnPage(n) ==
  /\ at \in {"sessions", "people"}
  /\ Submitted(Over(Only("page", n), StateFields(Canonical(at, display.state, 0), {"page"})))

(* The file takes the filter as the page wrote it into the address.        *)
ExportedFilters == ParseFilters(ToQuery(ParseFilters(display.state)))

Export ==
  LET results == ListSessions(world.sessions, Principal, ExportedFilters, EXPORT_LIMIT)
      columns == ExportedFilters.columns \cap ColumnsFor
  IN  /\ Click
      /\ at = "sessions" /\ Has(Principal, "export.sessions")
      /\ file' = [lines |-> ToCsv(results.rows, columns), columns |-> columns,
                  audited |-> Len(results.rows)]
      /\ UNCHANGED <<form, me, cookies, at, display>>

OpenBooking ==
  /\ Click
  /\ at \in {"calendar", "sessions", "record"} /\ Has(Principal, "session.book")
  /\ at' = "book" /\ display' = Blank
  /\ OpenForm
  /\ UNCHANGED <<me, cookies, file>>

AtScreen ==
  \/ \E screen \in Screens : Visit(screen) \/ LeaveForm(screen)
  \/ \E link \in Links : FollowLink(link)
  \/ \E picked \in DrawerPicks : ApplyDrawer(picked)
  \/ \E text \in Texts : Search(text)
  \/ \E ticks \in Ticks : CloseMenu(ticks)
  \/ Reset
  \/ \E move \in GoToMoves : GoTo(move)
  \/ \E n \in Turns : TurnPage(n)
  \/ Export \/ OpenBooking

-----------------------------------------------------------------------------
(* The form, and everybody else.                                           *)

AtForm ==
  /\ at = "book"
  /\ PersonActs \/ TimerFires \/ Serve
  /\ UNCHANGED deskVars

(* A booking goes to its record, and the lists find it from then on.       *)
Wrote(new) == new # {} /\ world' = [world EXCEPT !.sessions = @ \cup new]

FinishBooking ==
  /\ at = "book" /\ Waiting /\ Head(queue).step = "confirm"
  /\ Wrote(ServerAnswer.written)
  /\ at' = "record" /\ display' = Blank
  /\ OpenForm
  /\ UNCHANGED <<me, cookies, file, clicks, elsewhere>>

OtherPeople == (\E other \in Others : Elsewhere(other)) /\ UNCHANGED deskVars

OtherTab(screen, query) ==
  /\ elsewhere < MaxElsewhere /\ elsewhere' = elsewhere + 1
  /\ cookies[screen] # query
  /\ cookies' = [cookies EXCEPT ![screen] = query]
  /\ UNCHANGED <<form, world, clicks, me, at, display, file>>

(* At a list with what an earlier day left in the cookies, or in the form. *)
Init ==
  /\ world = Rows0 /\ clicks = 0 /\ elsewhere = 0 /\ file = None
  /\ me \in SignedIn /\ MayLoad(me)
  /\ \/ /\ \E held \in Remembered :
             /\ at = held.screen /\ MayOpen(at)
             /\ cookies = [screen \in Screens |-> IF screen = at THEN held.query
                                                  ELSE NothingSet]
        /\ display = Paint(at, cookies[at])
        /\ InitForm(AtRest(FirstPaint(world)))
     \/ /\ at = "book" /\ me = Booker
        /\ cookies = [screen \in Screens |-> NothingSet]
        /\ display = Blank
        /\ InitForm(AtRest(BookingStep(world, HalfFilled)))

Next ==
  \/ AtScreen \/ AtForm \/ FinishBooking \/ OtherPeople
  \/ \E held \in TabWrites : OtherTab(held.screen, held.query)

Spec == Init /\ [][Next]_vars

-----------------------------------------------------------------------------
(* The booking rules ask the booker's own permissions.                     *)
ASSUME ViewerAssumption ==
  LET p == LoadPrincipal(Booker)
  IN  /\ Viewer.zone = p.zone /\ Viewer.scope = SchoolScope(p)
      /\ Viewer.overrides = CanOverrideConflicts(p) /\ Viewer.past = CanBookInPast(p)
      /\ Viewer.approval = NeedsApproval(p)
      /\ Viewer.lead = IF UsesStudentLead(p) THEN Config.studentLead ELSE Config.lead
      /\ \A who \in SignedIn \ {Booker} : ~Has(LoadPrincipal(who), "session.book")

(* Rows are numbered as they are inserted, and whoever inserts one does    *)
(* not choose its number.                                                  *)
Numbered(sessions) ==
  /\ IsFiniteSet(sessions)
  /\ \A s \in sessions : s.id \in 1 .. Cardinality(sessions)
  /\ \A s, t \in sessions : s.id = t.id => s = t

ASSUME RowsAssumption ==
  /\ Rows0.now \in Int /\ \A s \in Rows0.sessions : Lasts(s)
  /\ Numbered(Rows0.sessions)
  /\ \A other \in Others :
       /\ Len(other.sessions) \in Nat /\ DOMAIN other.sessions = 1 .. Len(other.sessions)
       /\ \A i \in DOMAIN other.sessions : "id" \notin DOMAIN other.sessions[i]

(* What a cookie holds, another tab writes or a link says is a query as    *)
(* the serialisers write it: its keys are of the screen, dates are dates,  *)
(* and the ticks of the calendar are not all unknown.                      *)
QueryKeys ==
  [people   |-> {"q", "role", "status", "region", "district", "school", "page"},
   sessions |-> {"q", "status", "from", "to", "instructor", "program", "student", "school",
                 "page", "columns"},
   calendar |-> {"view", "date", "q", "status", "instructor", "student", "school"}]

Spelled(screen, query) ==
  /\ DOMAIN query \subseteq QueryKeys[screen]
  /\ \A key \in {"from", "to", "date", "page"} \cap DOMAIN query : query[key] \in Int
  /\ screen = "calendar" /\ "status" \in DOMAIN query => query.status \cap Status # {}

ASSUME QueriesAssumption ==
  /\ \A held \in Remembered \cup TabWrites :
       held.screen \in Screens /\ Spelled(held.screen, held.query)
  /\ \A link \in Links : link.screen \in Screens /\ Spelled(link.screen, Address(link))
  /\ \A picked \in DrawerPicks : \A key \in {"from", "to", "date"} \cap DOMAIN picked :
       picked[key] \in Int \cup {None}
  /\ \A who \in SignedIn : LoadPrincipal(who).zone \in Zones

(* A form left half filled is one the panel can have built.                *)
ASSUME HalfFilledAssumption ==
  /\ HalfFilled.count \in Nat /\ HalfFilled.school \in MySchools \cup {None}
  /\ HalfFilled.rows \in Seq([weekday : 1 .. 7, length : Nat, time : 0 .. DayLen - 1])
  /\ HalfFilled.date \in Int \cup {None} /\ RealCivilTime(HalfFilled.time)
  /\ HalfFilled.duration \in Int
  /\ ~RowsRepeat(HalfFilled.rows)
  /\ HalfFilled.count > 1 => Len(HalfFilled.rows) \in 1 .. MaxRepeatDays(HalfFilled.count)

-----------------------------------------------------------------------------
(* Properties.                                                             *)

(* What a screen asks, whichever range or page of it is on view: the       *)
(* filters, a list of ticks as the boxes it draws.                         *)
Question(query) ==
  LET filters == IF at = "calendar" THEN CalendarFilters(query) ELSE ParseFilters(query)
      FirstPage(f) == [f EXCEPT !.page = 1]
      WithBoxes(f, offered) == [f EXCEPT !.statuses = Boxes(@, offered)]
      asked == WithBoxes(FirstPage(ParseDirectoryFilters(query)), USER_STATUS_FILTER_ORDER)
  IN  IF at = "people" THEN [asked EXCEPT !.roles = Boxes(@, ROLE_FILTER_ORDER)]
      ELSE WithBoxes(FirstPage(filters), STATUS_FILTER_ORDER)

Fits(s, query, today) ==
  LET f == IF at' = "calendar" THEN CalendarFilters(query) ELSE ParseFilters(query)
      w == WindowOf(query, today)
      day == CivilDate(s.start, Principal.zone)
  IN  /\ f.search # None => s.title \in Titled[f.search]
      /\ Ticked(f.statuses, s.status)
      /\ f.instructorRef \in {None, s.who} /\ f.programRef \in {None, s.program}
      /\ f.studentRef \in s.students \cup {None}
      /\ f.schoolRef # None => AtSchools(s, {f.schoolRef})
      /\ at' = "calendar" => day \in w.first .. w.last
      /\ at' = "sessions" /\ f.dateTo # None => day <= f.dateTo
      /\ at' = "sessions" /\ f.dateFrom # None =>
           CivilDate(s.end - 1, Principal.zone) >= f.dateFrom

(* Whose sessions a person sees: everybody's or their own, and of          *)
(* everybody's, placed at schools, those with a student of those schools.  *)
MineOrAny(s) ==
  Has(Principal, "session.view_any") \/ OnSession(s) \cap Mine(Principal) # {}
InScope(s) ==
  MineOrAny(s) /\ (Has(Principal, "session.view_any") /\ SchoolScope(Principal) # None =>
                     AtSchools(s, SchoolScope(Principal)))

(* One of a student and a school asked for, and not the other, is a clause *)
(* under the key the viewer's own schools are under, and replaces them.    *)
ScopeGivesWay(query) ==
  LET f == IF at' = "calendar" THEN CalendarFilters(query) ELSE ParseFilters(query)
  IN  (f.studentRef # None) # (f.schoolRef # None)

MayBeDrawn(s, query) == IF ScopeGivesWay(query) THEN MineOrAny(s) ELSE InScope(s)

(* Everything drawn fits the question and, unless the scope gives way, is  *)
(* in the viewer's scope; where it does, it is one of theirs, if they do   *)
(* not see all.  A screen that draws its whole answer leaves out no        *)
(* session in scope that fits.                                             *)
AnswersItsQuestion ==
  LET drawn == {display'.rows[i].session : i \in DOMAIN display'.rows}
      fitting == {s \in world.sessions : Fits(s, display'.state, display'.today)}
  IN  /\ \A s \in drawn : s \in fitting /\ MayBeDrawn(s, display'.state)
      /\ Len(display'.rows) = display'.total => {s \in fitting : InScope(s)} \subseteq drawn

(* Moving the calendar or turning a page never changes what was asked, on  *)
(* a screen however stale, and every screen answers what it shows as asked:*)
(* the controls, the cookie, the query and the clauses of the database     *)
(* agree, but for the viewer's schools where one clause replaces them      *)
(* (DrawnInScope).                                                         *)
MovingKeepsTheFilter ==
  [][ /\ (\/ \E move \in GoToMoves : GoTo(move)
          \/ \E n \in Turns : TurnPage(n))
           => Question(display'.state) = Question(display.state)
      /\ (display' # display /\ at' \in {"calendar", "sessions"}) => AnswersItsQuestion ]_vars

(* Who is placed at schools is bounded by them (policies/schoolScope.ts):  *)
(* whatever is asked, what a list draws is in the viewer's scope.          *)
DrawnInScope ==
  at \in {"calendar", "sessions"} =>
    \A i \in DOMAIN display.rows : InScope(display.rows[i].session)
=============================================================================
