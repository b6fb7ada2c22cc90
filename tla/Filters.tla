------------------------------ MODULE Filters ------------------------------
(***************************************************************************)
(* What the three list screens remember of how somebody is looking at      *)
(* them, and its one spelling: the query string that is kept in a cookie.  *)
(* sessionQuery.ts, peopleQuery.ts, calendar.ts and selection.ts each hold *)
(* a parser, a serialiser and a rule for what an untouched filter is.      *)
(*                                                                         *)
(* A query string is a function from the keys present to their values: a   *)
(* set for a list of ticks, a number or a name for the rest.  A field left *)
(* empty is a key that is absent, which every parser reads the same way.   *)
(* Abstracted: trimming, the bound on a text's length, the order and the   *)
(* repetition of the values in a list.                                     *)
(***************************************************************************)
EXTENDS Availability

CONSTANTS
  MonthStarts,   \* the first days of months, as civil dates
  MaxPage,       \* the highest page an address may ask for
  Billing        \* the tenant charges for something

-----------------------------------------------------------------------------
(* Query strings.                                                          *)

ASSUME PagesAssumption == MaxPage \in Nat \ {0}

Get(params, key) == IF key \in DOMAIN params THEN params[key] ELSE None
GetAll(params, key) == IF key \in DOMAIN params THEN params[key] ELSE {}
Present(fields) == [key \in {k \in DOMAIN fields : fields[k] # None} |-> fields[key]]
Without(params, keys) == [key \in DOMAIN params \ keys |-> params[key]]
NothingSet == Present([none |-> None])

(* A set of ticks: none at all means no narrowing, and so does every one   *)
(* the control offers.                                                     *)
Ticked(selected, value) == selected = {} \/ value \in selected
Narrows(selected, offered) == selected # {} /\ ~(offered \subseteq selected)
WhenNarrows(selected, offered) == IF Narrows(selected, offered) THEN selected ELSE None

STATUS_FILTER_ORDER == Status \ {"IN_PROGRESS"}
ROLE_FILTER_ORDER == {"INSTRUCTOR", "STUDENT", "PARENT", "ADMIN", "SCHOOL_ADMIN", "PRINCIPAL"}
AllRoles == ROLE_FILTER_ORDER \cup {"REGIONAL_ADMIN", "PAYER"}
USER_STATUS_FILTER_ORDER == {"ACTIVE", "INVITED", "PENDING_INVITE", "BOUNCED", "DISABLED"}

ParsePage(raw) == IF raw = None \/ raw < 1 THEN 1 ELSE IF raw > MaxPage THEN MaxPage ELSE raw
WrittenPage(page) == IF page = 1 THEN None ELSE page

-----------------------------------------------------------------------------
(* The session grid.                                                       *)

MONEY_COLUMNS == {"billable", "payment", "invoice"}
DEFAULT_COLUMNS == {"title", "instructor", "students", "status", "scheduled_start",
                    "scheduled_duration", "attendance"}
AVAILABLE_COLUMNS == DEFAULT_COLUMNS \cup MONEY_COLUMNS
                     \cup {"location", "actual_duration", "subject", "grade"}

(* None is no list of ticks.                                               *)
ASSUME TicksAssumption ==
  \A offered \in {Status, AllRoles, USER_STATUS_FILTER_ORDER, AVAILABLE_COLUMNS} :
    \A ticks \in SUBSET offered : ticks # None

ColumnsFor == IF Billing THEN AVAILABLE_COLUMNS ELSE AVAILABLE_COLUMNS \ MONEY_COLUMNS

ParseFilters(params) ==
  LET requested == GetAll(params, "columns") \cap AVAILABLE_COLUMNS
  IN  [search |-> Get(params, "q"), statuses |-> GetAll(params, "status") \cap Status,
       dateFrom |-> Get(params, "from"), dateTo |-> Get(params, "to"),
       instructorRef |-> Get(params, "instructor"), programRef |-> Get(params, "program"),
       studentRef |-> Get(params, "student"), schoolRef |-> Get(params, "school"),
       page |-> ParsePage(Get(params, "page")),
       columns |-> IF requested = {} THEN DEFAULT_COLUMNS ELSE requested]

EMPTY_FILTERS == ParseFilters(NothingSet)

NarrowsByStatus(statuses) == Narrows(statuses, STATUS_FILTER_ORDER)

ToQuery(filters) ==
  Present([q |-> filters.search,
           status |-> WhenNarrows(filters.statuses, STATUS_FILTER_ORDER),
           from |-> filters.dateFrom, to |-> filters.dateTo,
           instructor |-> filters.instructorRef, program |-> filters.programRef,
           student |-> filters.studentRef, school |-> filters.schoolRef,
           page |-> WrittenPage(filters.page),
           columns |-> IF filters.columns = DEFAULT_COLUMNS THEN None ELSE filters.columns])

(* How many filters are set; the page is where one is in the answer.       *)
ActiveSessionFilters(filters) == Cardinality(DOMAIN ToQuery(filters) \ {"page"})

-----------------------------------------------------------------------------
(* The directory.                                                          *)

ParseDirectoryFilters(params) ==
  [search |-> Get(params, "q"), roles |-> GetAll(params, "role") \cap AllRoles,
   statuses |-> GetAll(params, "status") \cap USER_STATUS_FILTER_ORDER,
   regionRef |-> Get(params, "region"), districtRef |-> Get(params, "district"),
   schoolRef |-> Get(params, "school"), page |-> ParsePage(Get(params, "page"))]

DirectoryQuery(filters) ==
  Present([q |-> filters.search, role |-> WhenNarrows(filters.roles, ROLE_FILTER_ORDER),
           status |-> WhenNarrows(filters.statuses, USER_STATUS_FILTER_ORDER),
           region |-> filters.regionRef, district |-> filters.districtRef,
           school |-> filters.schoolRef, page |-> WrittenPage(filters.page)])

ActiveDirectoryFilters(filters) == Cardinality(DOMAIN DirectoryQuery(filters) \ {"page"})

-----------------------------------------------------------------------------
(* The calendar.                                                           *)

Views == {"month", "week", "day", "list"}
CALENDAR_INITIAL_STATUSES == {"SCHEDULED", "COMPLETED", "REQUESTED", "REJECTED", "MISSED"}

(* Nothing stored, or exactly what it opens with.                          *)
CalendarStatusIsDefault(statuses) == statuses \in {{}, CALENDAR_INITIAL_STATUSES}

ParseView(raw) == IF raw \in Views THEN raw ELSE "month"
ParseAnchor(raw, today) == IF raw = None THEN today ELSE raw

(* Mutant: written before the calendar could be narrowed by a school.      *)
QueryStringUnschooled(filters, view, anchor, today) ==
  Present([view |-> IF view = "month" THEN None ELSE view,
           date |-> IF anchor = today THEN None ELSE anchor,
           q |-> filters.search,
           status |-> IF CalendarStatusIsDefault(filters.statuses) THEN None
                      ELSE filters.statuses,
           instructor |-> filters.instructorRef, student |-> filters.studentRef])

QueryString(filters, view, anchor, today) ==
  Present([view |-> IF view = "month" THEN None ELSE view,
           date |-> IF anchor = today THEN None ELSE anchor,
           q |-> filters.search,
           status |-> IF CalendarStatusIsDefault(filters.statuses) THEN None
                      ELSE filters.statuses,
           instructor |-> filters.instructorRef, student |-> filters.studentRef,
           school |-> filters.schoolRef])

ActiveCalendarFilters(filters) ==
  Cardinality(DOMAIN QueryString(filters, "month", 0, 0))

FirstOfMonth(day) ==
  CHOOSE d \in MonthStarts : d <= day /\ \A e \in MonthStarts : e <= day => e <= d
NextMonth(day) ==
  CHOOSE d \in MonthStarts : day < d /\ \A e \in MonthStarts : day < e => d <= e

(* Weeks start on Sunday.                                                  *)
Sunday(day) == day - (IsoWeekday(day) % 7)

(* The month is padded to whole weeks.                                     *)
BuildWindow(view, anchor) ==
  LET monthStart == FirstOfMonth(anchor)
      monthEnd == NextMonth(anchor) - 1
      Span(first, last, previous, following) ==
        [view |-> view, anchor |-> anchor, first |-> first, last |-> last,
         previous |-> previous, following |-> following]
      Month(first, last) ==
        Span(first, last, FirstOfMonth(monthStart - 1), monthEnd + 1)
  IN  CASE view = "day"   -> Span(anchor, anchor, anchor - 1, anchor + 1)
        [] view = "week"  -> Span(Sunday(anchor), Sunday(anchor) + 6,
                                   Sunday(anchor) - 7, Sunday(anchor) + 7)
        [] view = "list"  -> Month(monthStart, monthEnd)
        [] view = "month" -> Month(Sunday(monthStart), Sunday(monthEnd) + 6)
=============================================================================
