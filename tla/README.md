# Verification of the TopTutorsForUs management system

TLA+ models of the tutoring management system in `src/`, checked with TLC on
small instances, and theorems about them checked by TLAPS for every instance.

The system is a Next.js application on Postgres (through Prisma): instructors,
students and rooms are booked into sessions, sessions of a series are edited
together, attendance is kept, and a copy of every session is handed to a second
application, the school's, which marks attendance and hands the marks back.

One fact of the code shapes every model. Nothing in the production code opens a
transaction: `$transaction` occurs in comments only, and the server actions hand the
services the plain client (`app/actions/sessions.ts:142`). **Each statement
commits by itself.** A handler is therefore a sequence of steps, any other
request may run between two of them, and a request that throws or whose process
stops leaves behind what it has written. The one real transaction is the
delivery of a change into the school's database (`schoolSync.ts:171-173`).

## 1. Inventory

| Component (code under `src/src/lib` unless said) | State it keeps | Operations | Interacts with |
|---|---|---|---|
| Session operations (`services/sessionOps.ts`, `app/actions/sessions.ts`) | `session_occurrence`, defaults of `session_series`, `session_participant` | reschedule, edit, cancel, restore, complete, mark missed, approve, reject, actual times, attendance | policy, conflicts, audit, notices, shared copy, for each row it writes |
| Session policy (`policies/sessions.ts`) | none: a table | which action a status admits, who may ask | asked by every operation on the row it loaded |
| Conflicts (`conflicts.ts`, `availability.ts`) | none | the clashes a proposed slot would cause | reads the calendar; the EXCLUDE constraints of the schema repeat two of its rules |
| Audit (`audit.ts`) | `audit_event`, append-only by database rules | record | called after each change |
| Notices (`services/localNotices.ts`) | `captured_message` | capture, retire reminders, credit sweep | the sweep cancels sessions itself |
| Shared copy (`services/sharedSession.ts`) | `shared_*`, `outbound_change`, `applied_inbound` | publish, apply an inbound mark | called inside session operations and by the sync |
| School sync (`services/schoolSync.ts`, `tools/sync-local.ts`) | `delivered_at`; the school's `Session`, `SessionAttendance`, `AttendanceOutbound` | deliver, collect, acknowledge | both databases |
| School linking (`tools/link-local-schools.ts`) | people and links on both sides | link the cast | decides the ids publishing uses |
| Booking (`services/booking.ts`, `web/booking.ts`, `app/actions/booking.ts`) | series, occurrences, participants | what the form is answered, plan, create, detach, scope of an edit | recurrence, time, availability, eligibility, conflicts, meetings, shared copy |
| Booking form (`components/booking/*`) | React state, the fields of the page, replies under way | fill in, chips, count, repeat days, grids, preview, book | one server action, answered one submission after another |
| Recurrence, time (`recurrence.ts`, `time.ts`, `timegrid.ts`) | none | dates of a rule; wall clock to instant | booking, availability |
| Availability, eligibility (`availability.ts`, `services/instructorEligibility.ts`) | rules, exceptions | free intervals, who can teach a slot | booking, conflicts |
| Import (`services/import/*`, `tools/import-pearl.ts`) | `import_batch`, `import_record`, imported rows | read, preview, commit | creates people, groups, sessions |
| Enrolment, structure, people (`services/enrolment.ts`, `structure.ts`, `personAdmin.ts`, `people.ts`) | placements, groups, schools, roles, people | attach, replace, create, delete | booking reads groups and people |
| Permissions and scoping (`policies/*`) | none | refuse, filter | everything |
| List screens (`services/sessionQuery.ts`, `peopleQuery.ts`, `calendar.ts`, `selection.ts`, pages of `app/(app)/`) | a cookie per screen with its filter | draw, narrow, search, move, turn a page, export | permissions; the rows everybody writes |
| Meetings (`meetings/*`) | an outside service | make, move, cancel a meeting | booking, session operations |
| Sign-in, presentation, other pages (`security.ts`, `presentation.ts`, `app/`, `components/`) | a signed cookie | read only | |

Hard behaviours, and where they bite (the full list, line by line, is
`hazards` in `PROJECT.json`):

* *Stale judgement.* Every handler judges the row it loaded and later updates by
  id alone, with no condition on what it judged (`sessionOps.ts:200`,
  `localNotices.ts:207`).
* *Check, then write.* The conflict check and the update are two statements;
  only the EXCLUDE constraints stand behind the check, for instructors and rooms,
  and nothing for students.
* *Half a series.* A series edit goes session by session; a refusal in the middle
  throws, and what was moved stays moved.
* *History beside the change.* The audit event is a statement of its own.
* *Half a booking.* Meetings, series, sessions and participants are written one
  after another, and only an error (not a stop) takes anything back: the meetings.
* *The sheet that was read.* An attendance form and the bulk button decide on
  marks read once and write by id.
* *Read, then replace.* Placements are read, and written back as three deletions and
  several inserts; a group's members are counted and then one is added.
* *The same file twice.* An import looks a row's key up in its ledger long before it
  enters it there, and a preview is the same pass with nothing written.
* *A screen that has grown old.* A list or a form is drawn from rows and a clock that
  move on, replies come back to a form that has been edited since, and every control
  posts a filter put together from what was drawn.
* *A clock that jumps.* A wall-clock time may name two instants, or none.
* *Two systems.* A copy made and linked by two statements, a queue delivered at
  least once, marks that come back while other marks are made here.

What makes the parts correct, in one line each: the calendar is exclusive;
a status follows its life; every row is accounted for in the audit trail; the
published copy and the reminders follow the session; one session is one session
at the school; the school never goes back to older content; nothing is ticked off
undone; attendance somebody recorded is not lost; a booking answered with success is
whole, and a refused one has taken its meetings back; a plan is the rule that was
asked for; no grid promises what the check denies; a form at rest shows its own
answer; moving through a list changes what is seen and not what is asked; a row of an
export is imported once; placements name each other's districts and regions.

## 2. Modules

| Module | Models | Composed with |
|---|---|---|
| `SessionPolicy` | the status tables | extended by `SessionOps`, `Booking`, `Availability` |
| `SlotBook` | the abstract calendar: what `session_occurrence` and its constraints promise | implemented by `SessionOps` and by `Booking` |
| `SessionOps` | every change to an existing session, statement by statement, any number of requests at once | |
| `Courier` | the abstract queue: oldest first, perhaps twice, ticked off once held | implemented by `SchoolSync`, one run at a time |
| `SchoolSync` | publication, queue, delivery, marks, linking | implements `Courier` |
| `Attendance` | the attendance of one session: the form, the bulk button, the school's marks in between | |
| `Booking` | bookings from plan to last notice, statement by statement, several at once | extends `SessionPolicy`, implements `SlotBook` |
| `Requests` | what a request of the directory is: a judgement, then its statements | |
| `Enrolment` | accounts, placements, guardians, assignments, archiving | extends `Requests` |
| `Structure` | groups, locations, regions, districts, schools; and the directory as a whole | extends `Enrolment` |
| `Import` | another system's export, previewed and committed, row by row | |
| `CivilTime` | wall clocks, zones, instants | |
| `Recurrence` | the expansion of a rule, and the rule said without a walk | extends `CivilTime` |
| `Availability` | layers, windows, the three grids, the check of one slot | extends `Recurrence`, `SessionPolicy` |
| `BookingPage` | what the server answers to the booking form | extends `Availability` |
| `BookingForm` | the form in the browser and its round trips | extends `BookingPage` |
| `Access` | permissions of roles, scopes, what may be done to one session | extends `BookingPage` |
| `Filters` | the query strings of the lists, their parsers and serialisers | extends `Availability` |
| `Lists` | what the lists find | extends `Access`, `Filters` |
| `Desk` | a person at the lists and at the form, other people, another tab | extends `BookingForm`, `Lists` |
| `MC...` | the small instances TLC checks | |
| `..._proofs` | the theorems | extend the module they are about |

### SessionOps

| Variable | Code |
|---|---|
| `row[o]` | the row of `session_occurrence`: status, slot, detached, title, actual times |
| `seriesTitle[s]` | the default of `session_series` that a series edit rewrites last |
| `trail[o]` | the after-images whose fields `audit_event` recorded |
| `shared[o]` | the published copy (what of it the school shows) |
| `notices[o][k]` | the time an open notice of kind k names |
| `call[c]` | a request: where it stands (`at`), what it loaded (`anchor`), the rows still to be dealt with as it read them (`todo`), the one at hand (`cur`) |

`Load` is `loadSession` with the policy's decision; `List` is
`occurrencesInScope`; `CheckRefuses`/`CheckPasses` are the conflict check;
one action per operation is its update (a violated constraint makes it fail);
`PublishRead`, `PublishWrite`, `RetireReminders`, `Record`, `Notify`, `Capture`
and `SeriesDefaults` are the statements after it, in the order each operation has
them. `SweepLoad`, `SweepCancel` and `SweepWarn` are the credit sweep. `Crash`
ends a request between any two statements.

A request's choice of operation, target, scope and argument is free within what
the action accepts. Left out: permissions and the notice window (a refusal writes
nothing), free text, meeting calls, and time zones (a slot is a pair of instants
on days of length `Day`; `NewSlot` keeps the wall-clock time as `reschedule` does).

### Attendance

| Variable | Code |
|---|---|
| `mark[p]` | the attendance columns of a `session_participant` and who set them |
| `apart` | none: which rows were in one hand at a time so far, for the properties |
| `trail[p]` | the `audit_event`s of its marks, before and after |
| `call[c]` | a form or a press of the bulk button: what was sent, the rows as read, whom it has still to mark |

`Save` is the reading half of `recordAttendance` (a form is sent whole, an
unknown value is passed over), `MarkAllPresent` that of `markAllPresent`;
`MarkOne` and `Record` are the two statements of `markAttendance` for one
participant. `Inbound` is a mark of the school (`applyInboundAttendance`: no
event). `Counted` and `Attended` are `attendanceRate`; `RateAtMost` compares two
rates as `rateOf` makes them.

### Booking

| Variable | Code |
|---|---|
| `call[b]` | where a booking stands (`at`, position `i`), its roster as resolved, what the check found, how many meetings it made |
| `series[b]`, `row[<<b, i>>]` | `session_series`, `session_occurrence` with its participants |
| `follow`, `shared` | event and notices of a session; the roster of its copy |
| `zoom` | the meetings the provider holds |
| `group`, `mayTeach` | group members and eligibility, which others change meanwhile |

The stages follow the code: `ResolveStudents`, `AssertEligible`, `Check` per
session, `Confirm` (the judgement of the plan and the second `assertEligible`),
`CreateMeeting` per session, then `writePlan`: `WriteSeries`, `WriteOccurrence`,
`AttachInstructor`/`AttachStudent`, `RecordSeries`/`RecordOccurrence`, `Publish`,
`CaptureBooking`, `SweepCredits`. `WriteClashes` and `Throw` are an insert refused
by a constraint and any other statement that fails; both go to `Discard`.
A booking's plan is a constant of the instance; which are made, and when, is free.
How a form becomes a plan is `BookingPage`, whose write is one step; this module is
that write, statement by statement.

### SlotBook

`SlotBook` is the calendar as a reader of the schema would state it: an
occurrence holds a slot or nothing, contending occurrences never hold
overlapping ones, one changes at a time. The refinement mapping is `Held` in both
modules: a live row holds its slot.

### Courier and SchoolSync

| Variable | Code |
|---|---|
| `version[o]` | how often the session was written: stands for its content |
| `copies[k]`, `link[k]` | `shared_session`/`shared_pod` rows made for a session or pod, and which one `shared_link` names |
| `person[p]` | the `shared_user` row of a person and its link, by where its id comes from |
| `outbound` | `outbound_change`, in id order |
| `known`, `school`, `marked` | the school's `User`, `Session` with attendance, `AttendanceOutbound` |
| `applied` | `applied_inbound` |
| `mark[o]` | attendance on `session_participant` and who set it |
| `publish[c]`, `sync[y]` | where a publication and a run of sync:local stand |

The actions of a publication are the statements of `publishOccurrence`:
`Read`, one of `FindPerson`/`CreatePerson`+`LinkPerson` per person, `Refresh` or
`Create`+`Link` for pod and session, `EnsureAttendance`, `Queue`. Those of a run
are the statements of `syncLocal`: `Waiting`, `Deliver` (a transaction),
`DeliveredAt`, `Collect`, `Seen`, `StoreShared`, `StoreOps`, `Remember`,
`Acknowledge`. Around them `Change` (an operation that publishes), `HandMark`,
`SchoolMarks` (external: modelled from what the sync reads and writes there) and
the two statements of the link tool. Where a find and a create of one row are
one step, the loser of the race would throw at the unique constraint, which
leaves what `StopPublish` leaves. An insert into `outbound_change` takes its id and
becomes visible in one step: that of two inserts at the same moment the later id can be
committed first, with a run looking in between, is not modelled.

`Courier` is the queue as `syncLocal` means it to be: whatever is posted is handed
over oldest first, the one message that is due perhaps several times, and is ticked
off only while the other side holds what it says. Its variables are read off the
rows: `Posted` is the queue without its ticks, `Ticked` the ids with a `deliveredAt`,
`Held` what the school's session row says. With two runs side by side it does not
hold: the second can hand over a change the first has gone past.

### The directory: Requests, Enrolment, Structure

| Variable | Code |
|---|---|
| `user[p]` | `user_account`, its `user_role` rows (a role and the region that bounds it), `archived_at` |
| `placed[p]` | `user_school`, `user_district`, `user_region` |
| `guardians`, `teaches` | `guardian_student`, `instructor_student` |
| `row`, `member` | `student_group`, `location`, `region`, `district`, `school`; `group_member` |
| `told`, `history` | `audit_event` of people, of structure |
| `call[r]` | a form that was sent: the statements it still has to run (`todo`), whom it has met |

A server action here reads, judges, and then writes without judging again, so a
request is a judgement (`Judged`, `Creating`, `Archiving`) that fixes the list of
statements to run, and one action per kind of statement. The lists are the
services': `StudentScript`, `GuardianScript` and `StaffScript` are `createStudent`,
`createGuardian` and `createStaff`; `PlacementScript` is `setPlacements` with
`attachLocations`. What the code asks once more inside the writing (a named
instructor who has no such role) is a `throw` in the list, with the account made
before it. A row that is there already makes its insert throw; where the code
uses an upsert it does not. `enrolment.ts:9-11` says that all of it happens in one
transaction; it is handed the plain client.

A person stands for an address. Students with a guardian have none of their own;
a second account for the same person is refused here for them too, which leaves
out only a second student of the same name, whom nothing compares with the first.

### Import

| Variable | Code |
|---|---|
| `users`, `sessions`, `series` | the rows an import looks at or makes, in the order they were made |
| `ledger` | `import_record`: which entity a key became |
| `batch[b]` | `import_batch`, named by the preview that made it |
| `trail` | the commits that `audit_event` tells of |
| `call[c]` | a preview or commit: files and rows left, what it read (`known`, `names`, `emails`, `busy`), what it foresees (`pending`), what it says of the rows so far |

`PreviewImport` and `CommitImport` start a pass, `RefuseCommit` is the check of
`batch.status`. Per file: `LedgerFor`, `ReadPeople`, `ReadBusy`. Per row:
`LeaveAlone` (its key is known), `RefuseRow`, `MatchPerson` (an address that is
here), in a preview `Foresee`, in a commit `Attempt` and then the statements of
`createPerson`, `createSession`, `createSeries`: account or its refusal, the status
carried over, `InsertClashes` (the constraint), `Remember` or `RememberLoses` (the
ledger's unique key), the students one by one. At the end `FinishPreview`, or
`FinishCommit` and `RecordCommit`. The rows judged in memory between two awaits are
not interrupted (`Waiting`). The reading of the files is given: a row is what the
readers of `pearl.ts` make of it.

### CivilTime, Recurrence, Availability

Operators only. A day has `DayLen` units for the code's 1440 minutes, and the rest
is the code's integer arithmetic. A zone has at most one change of offset, which
is what `resolveCivil` itself counts on when it probes a day to either side.
`ResolvesAsPromised` says what the head of `time.ts` promises of a time that is
skipped or that comes twice, without the algorithm. `Expand` is the walk of
`expand`, a function of how many days it has looked at, with its four reasons to stop;
`DatesOfRule` and
`ExpandsAsWritten` are the reference: the weeks of the rule as a set.
`Availability` has the layers of `availability.ts` in the code's order (closure,
opening hours, exception, weekly rule, time off), the rule made of them, the three
grids, and `Check`, the conflicts of one interval (`conflicts.ts`).

### BookingPage and BookingForm

`BookingStep(world, form)` is the server action: a refresh answers with
`BookingContext` only, a preview adds `PlanBooking` or the first complaint of
`PlanError` (in the order of the code), a confirm writes `WrittenBy` unless
`CreateError` has something against the plan. `world` is the rows and the clock as
they are when the request is served.

| Variable of `BookingForm` | Code |
|---|---|
| `dom` | the uncontrolled fields, which the page puts back after every answer to what it echoes (`Restored`) |
| `students`, `counted`, `sentCount`, `rows`, `matrixDays` | React state (and the ref `sentCount`), which survives an answer |
| `timer` | the wait of `REFRESH_DELAY_MS`: a burst of changes asks once |
| `queue` | submissions under way, each with the fields as they were when it was sent |
| `state` | the answer that is painted |

`Commit` is what one painted answer does: `Restored`, `Kept` (chips of people not
offered go), `CountAfter` (the count comes back only if the echo is not that of
the refresh), `Reconcile` (the repeat days follow the date, the length and the
time). How React serves submissions is external: one after another, and an answer
is painted when none is left under way. Left out: title, description and link
beyond travelling with the rest, and the wording of a complaint except where it
tells two complaints apart.

### Access, Filters, Lists, Desk

`Access` translates `lib/policies`: which permissions a set of roles has under the
tenant's settings (`Resolve`, never beyond `CodeDefault`), school scope, guardians,
who may be named, and what may be done to a session by whom and until when
(`AvailableActions`). `Filters` has the parser, the serialiser and the meaning of
"untouched" of each list; a query string is a function from the keys present to
values. `Lists` has the clauses of each query, where a clause written twice is the
one written last, as a key of an object literal is.

| Variable of `Desk` | Code |
|---|---|
| `me` | who is signed in |
| `cookies[screen]` | the cookie that holds a list's filter (`web/filterState.ts`) |
| `at`, `display` | the screen, and what it was drawn from: filter, today, rows |
| `file` | the last export |
| `world` and the form | of `BookingForm`: a booking shows up in the lists |

Every control is one form that posts the whole filter: `ApplyDrawer`, `Search`,
`CloseMenu`, `Reset`, `GoTo` (arrows, views, Today, days, "+N more") and `TurnPage`
differ in the fields they post, all go through `Canonical`, into the cookie, and to
`Paint`. `FollowLink` is the proxy that turns an address into a cookie; `OtherTab`
writes the same cookie elsewhere; `Elsewhere` are other people's bookings,
withdrawn assignments, an instructor gone, hours that pass. The form is left only
when nothing of it is under way.

## 3. Runs

| Run | Instance | Shows |
|---|---|---|
| `ops_concurrent` | a series of two, a session in the same room and one of the same instructor; two requests in flight, every operation, a request may stop anywhere | calendar exclusive, refinement of `SlotBook`, no session in progress moves, audit witness, off-path only when stale |
| `ops_sequential` | the third session shares the student instead; three requests one after another | what a series edit may touch, copy and reminders follow, student clashes only by approval or restoration |
| `sync_concurrent` | one session, two racing publications, two overlapping runs, one stop, nobody linked | one copy, nothing skipped, marks kept |
| `sync_ordered` | two publications in turn, one run at a time, two marks, one stop, all linked | refinement of `Courier`, never back, ends up to date, queue drains, marks arrive |
| `attendance` | two students, two requests, the school marks absent, either may stop | every mark made here has its event or is at hand; of a row in one hand at a time, bulk fills a gap and the events connect; excusing never lowers the rate |
| `booking_racing` | five bookings of which any two are made, contending for an instructor, a room or a student; throws, stops, a growing group, a withdrawn assignment | success is whole, student clashes are flagged, refused bookings keep no meeting, refinement of `SlotBook` |
| `booking_partial` (violated) | the same, nothing throws but a constraint | half a series is left |
| `import_overlapping` | two exports that share rows, four requests of which two at a time; one of: a stop, a person invited by hand, a session booked | what an import wrote is whole unless it stopped or says it lost the key, a row counted once, the constraint refuses only for others, a second run writes nothing |
| `import_forecast` (violated) | one export with two spellings of a person and a bad address, nobody else about | the preview promises more than is written |
| `directory` | thirty-six forms in eleven mixes, up to three of a mix, two at a time, one stop | placements cohere, a regional administrator is bounded, whoever is created is whole, a group overshoots by what ran at once, like names only by meeting |
| `desk_day` | four people, five remembered filters or a half-filled form; two things the person does and one change by others | a quiet form is answered, repeat days always accepted, an edited count survives, no cell promises what the check denies, a plan is its rule, moving keeps the filter and a screen answers what it asks |
| `desk_scope` (violated) | the same | filtered by one student, a list draws a session outside the viewer's schools |

Why the bounds are enough to be interesting. Two requests are the smallest number
that interleave, and every race in the list above needs two; a series of two has
a first and a later session, and the third session supplies the contender; four
slots of half a day let a session be moved onto, beside and away from another,
on its own day and the next. One stop reaches every half-done state, and another
request or run after it meets it. With two marks one can be older than the other.
Two bookings of five are every pair of contenders. Four requests of an import are
two previews and their two commits, or one batch committed twice. In the directory
a mix holds the forms about one person, one group or one name, so three of them
are a first, one that meets it and one that comes after.

`desk_day` starts in the middle of a day's work, which is what makes two clicks
enough: a list with a filter left from before (a stale date, a page past the first,
ticks), or a form already filled to a run of three on two days and previewed. Every
reply, timer and refresh that follows the two clicks is free of charge. A day of
four units still has a morning, an afternoon and an evening, one change of clocks
falls inside the plan's days and another at midnight of the first; an organisation
that closes one weekday, opens another part of the day, a time off, rules in two
zones. A page holds two rows, and there are four sessions and seven people.
Bounds named in the modules: `MaxInFlight`, `Calls`, `Wanted`, `MaxMarks`,
`MaxStops`, `MayCrash`, `MaxMade`, `MayOrphan`, `MaxRequests`, `Mixes`,
`MaxDisturbed`, `MaxClicks`, `MaxElsewhere`, `MaxPage`, `MaxCandidateDays`, and the
values the controls offer (`Patches`, `Counts`, `Times`, `Texts`, `Ticks`, `Links`,
`DrawerPicks`, `PressedDays`, `TabWrites`, `Remembered`).

Inputs are what the screens can send. Links of `Desk` name a status and people that
exist; cookies, other tabs and links hold queries as the serialisers spell them
(`QueriesAssumption`: keys of the screen, dates that are dates, of the calendar's ticks
at least one it knows); `Viewer`, the constants `BookingPage` asks of the booker, is by
`ViewerAssumption` what `Access` computes for that person.

`Rest` in `SessionOps`, `Attendance`, `Booking`, `Import` and `Structure`, and
`HandMark` in `SchoolSync`, keep the checks for deadlock meaningful: no request may
get stuck, but none has to come. Only the two `desk` runs switch the check off: the
person's clicks are a budget, and when it is spent and nothing is under way the day
is over.

**Fairness** is assumed only in `SchoolSync!FairSpec`, and the code schedules
nothing there: both tools are run by hand. It says that somebody runs sync:local
and db:link-schools again and again, and that a run which has begun goes on
unless it stops. Stops are bounded by `MaxStops`: a run that is stopped every time
delivers nothing, with any code.

Symmetry: requests, runs and the two students of `attendance` are interchangeable; used in runs with
safety properties only.

## 4. Findings

Three runs show the code doing other than what the repository says of it (quoted in
`findings`): a booking refused by a constraint half-way leaves the sessions
before it, where a comment counts on a transaction; the preview of an import
counts rows its commit cannot write; and a person bounded by the schools they
are placed at (`policies/schoolScope.ts:4-6`), who filters by a student or by a school
but not by both, is drawn sessions of other schools: `visibleSessions` puts the bound
under the key `participants` of the query (`sessionQuery.ts:361-364`) and `narrowByRefs`
spreads its own clause over that key (498, 503). `desk_scope` asks whether whatever a
list draws is in scope (`DrawnInScope`). `MovingKeepsTheFilter` asks the same of every
other question (`MayBeDrawn`): where the clause gives way (`ScopeGivesWay`), only that a
person who does not see everybody's sessions is drawn their own.

Smaller disagreements, met while modelling and kept in the models as the code has
them:

* An export begun on a later page of the grid leaves out sessions the filter finds: the
  page hands on its own number (`sessions/page.tsx:131`), and the route skips that many
  pages of its own limit (`export.csv/route.ts:29`), where its head speaks of the whole
  list. `Export` does so too; no property is about what a file holds.
* Time off is looked for only up to the end of the window that starts last
  (`availability.ts:215-219`), not over the whole range the head of the file speaks of.
* A list on a page that no longer exists says that nothing matches, shows no
  pagination, and the page stays in the cookie (`sessions/page.tsx:430-437`).
* Unticking every status on the calendar comes back as its opening five, not as all
  (`selection.ts:17-20`); a stored status nobody knows shows all of them until the
  next move.
* The grid of a day reads other bookings up to the viewer's midnight
  (`web/booking.ts:461-472`): `GridNeverOverpromises` is about sessions that end
  before it.
* The week of the repeat panel is that of the painted answer, and an answer that
  moves the head row does not ask for another; `QuietFormIsAnswered` leaves it out.
* A field that does not refresh (the title) can be edited between Preview and Book,
  so that what is written was not on the screen in this respect
  (`BookingForm.tsx:8-9`). A Preview within 200 ms of a change is painted over by
  the refresh that follows it.
* Clearing the date makes the number of sessions one, at the answer after the next.
* The proxy drops `student` and `school` from a link to the session grid.
* Stored columns that are all about money, with billing off, draw a grid of no
  columns.
* A session that runs past midnight is in the grid's range but not on the calendar
  that opens with its second day.

## 5. What is proved

`SessionOps_proofs`, for any occurrences, requests, slots and people, from
`ConstantsAssumption` alone (a starting slot is a slot, only a session outside a
series starts in progress):

* `TypeCorrect`: `Spec => []TypeOK`. `TypeOK` carries the shape of a request
  (`CallShape`) and is inductive as it stands; the others rest on it.
* `InstructorsExclusive`, `RoomsExclusive`: the inductive invariant is
  `Exclusive`, both together, since both constraints are one condition of an
  update. `Updates` reduces the ten handlers that write a row to one shape.
* `ImplementsBook`: `Spec => Book!Spec`; an update is a `Hold` or a `Release`, a
  step that writes no row a stutter.
* `StartedNeverMoves`: needs `StartedUntouched`: a session in progress belongs to
  no series, and no request that moves sessions has it among its targets. Only
  an import makes a session in progress, so `row'` in progress implies `row` in
  progress, and a request loaded before cannot have had it as movable.
* `AuditHolds`: needs, besides the witness itself, that the sweep's notice follows
  its cancellation (`AuditInv`).
* `PathLeftOnlyWhenStale`: `Judged` says that a request's targets, as it read them, are
  what its operation admits; it depends on nobody else, so it holds for requests side
  by side. Where what was read is what is there, the update is a step of `Lifecycle`.
* `AnchorAloneExempt`, `ReopeningAloneClashes`, under `MaxInFlight = 1`: the invariant
  is `Settled`. With one request (`Alone`), what it read is there (`Current`), and what
  the conflict check passed is clear when it is written (`Clear`).
* `CopiesAlwaysFollow`, `RemindersAlwaysFollow`, under `MaxInFlight = 1`: the
  invariant is `Following`. While one request runs (`Alone`), every session whose copy
  shows something else is the one it is about to publish (`CopyInv`), every session
  whose open reminder names another time is one it moved and has yet to announce or
  is about to retire (`ReminderInv`; `Tells` says what the request knows of its
  targets). The hypothesis is needed: of two publications that overlap the older can
  write last. After a stop nothing is claimed, as in the properties themselves.

`Booking_proofs`, for any bookings of any length made at any time, from
`BookingAssumption` and `RowAssumption` (every plan has slots and an instructor;
no row is the value for no row):

* `BookingTypeCorrect`: the inductive invariant is `PlacedInv`, `TypeOK` with what
  each stage relies on: the position at hand is one of the plan, the meetings made
  are those before it, and past the insert every row of the plan is there.
  Without the last part an attached participant would have no row to go to.
* `BookingImplementsBook`: `Spec => ImplementsSlotBook`. An insert that fits is a
  `Hold` (of a request a stutter), whatever the booking does afterwards holds
  nothing new. The argument needs no check of the plan, only `Fits`: the
  constraints alone keep the calendar exclusive.
* `RefusedTakesMeetingsBack`: with a provider that deletes what it is asked to
  (`~MayOrphan`), no meeting of a refused booking is left. `MeetingsInv` says at
  each stage which meetings may exist: those before the position while they are
  made, those from the position on while they are taken back.
* `DoneIsAlwaysWhole`: `WholeInv` says, of each of the things a booking writes, up to
  which position of the plan it is there at each stage (`SeriesKept`, `MeetingsKept`,
  `RostersKept`, `CopiesKept`, `FollowKept`, `RowsFaithful`), and that no other booking,
  sweep or joining student touches them (`Aside`).
* `ClashesAlwaysFlagged`: `WarnedInv`. Bookings that ended before this one began no
  longer change, so the check sees every clash with one of them, and what it has
  found (`soft`) is marked on the row.

`Recurrence_proofs`, for any zone with one change of offset, from
`DayLenAssumption` and `ZoneAssumption` (an offset, and a change of it, is less than
a day):

* `ClocksResolve`: `resolveCivil` does what the head of `time.ts` says of a time
  that is shown once, twice or never. `OnlyTheProbes` is why: an instant can show a
  wall clock only under an offset in force within a day of it.
* `ClocksRoundTrip`: what is read off the instant is what was typed, unless the
  clock skipped it.
* `RulesExpandAsWritten`: `ExpandsAsWritten` for every rule `buildRule` accepts
  (`SoundRule`) and every bound of a tenant (`SoundOptions`). The walk is a recursive
  function, so what it has done after n days (`Walked`) is shown by induction
  (`SetInduction`, from the least counterexample of the library's well-founded sets):
  its occurrences are open dates in their order, and every open date so far is one of
  them or comes after all of them. That the interval counts calendar weeks is
  `MatchesIs`. One hypothesis is about the zone, `SkipsWithinADay`: where clocks skip
  over midnight (23:30 to 0:30), a time that was skipped moves into the next day and may
  come after that day's own occurrence, so the instants are no longer in order. The zone
  of `Desk_day` meets it (`OfficeChangesAtNight`), as a change in the small hours does.
  `ChangesWithinADay` adds that what clocks show twice is of one day.

`Desk_proofs`, for any rows, settings and offered values and a day of any length. From
`PatchesAssumption` (what is filled in are fields of the form), `ControlsAssumption` (a
select offers its own options, the number of sessions is a number, the page of days has
a least and a largest size), `InputsAssumption` (dates, times of day and settings are what
the parsers let through), `RowsAssumption` (rows say from when to when and are numbered as
they are inserted), `QueriesAssumption` (what cookies and links hold) and
`HalfFilledAssumption` (a form to begin with has rows the panel can have built). The invariant is `FormInv`; every step of the desk is one of
five things to the form (`StepIsOneOfThem`): nothing that matters, a change that has a
refresh waiting, one submission more, one answer, a page opened afresh.

* `FreeIsFree`: `Spec => GridNeverOverpromises`, where the viewer's zone
  `ChangesWithinADay`. The grid reads layers fetched for everyone on offer and a range of
  days, the check layers for one person and the days of one session; `LayersAlike` says
  that hours, exceptions, closures and time off of a day are the same in both, so the
  windows are (`WindowIsAvailable`), and what overlaps a cell overlaps the day it was read
  for (`NobodyIsElsewhere`). That each instant of a day of the grid lies between the
  midnights the bookings are fetched by (`DateBetweenMidnights`) is where the zone comes
  in: a clock set back over midnight shows two days in turn. The invariant is
  `SessionsLast`, that rows say from when to when, through everything others write.
* `TheFilterIsKept`: `Spec => MovingKeepsTheFilter`, where everybody's zone
  `ChangesWithinADay` and `MonthsGoOn` (every day is of a month and another month
  follows, true of any calendar and of no finite `MonthStarts`, so the run has a stretch
  of it). Two halves. What is asked: a query posted, parsed and written again asks the
  same (`SessionsRoundTrip`, `PeopleRoundTrip`, `CalendarRoundTrip`), since ticks that do
  not narrow are the ticks the control draws for none (`TicksRoundTrip`), and the
  calendar's own opening ticks are what its absence means. That needs the calendar's
  stored ticks not to be all unknown, so the invariant `FiltersInv` says that each cookie
  and the screen hold a query as it is spelled, and every control keeps it so. What is
  answered: the clauses of the database admit exactly what fits (`GridFinds`,
  `CalendarFinds`). The bound of the viewer's schools is one of these clauses and holds
  but where exactly one of a student and a school is asked for, whose clause replaces it
  (`RefsAdmit`, `WhoMayBeDrawn`): there the theorem claims only that a person bounded to
  their own sessions is drawn those, and `DrawnInScope` is what fails. And the bounds in instants are the bounds in days
  (`MidnightDivides`, which is where the zones come in); a list put in order holds each
  row it is made of, as rows are numbered (`NumbersHold`, `InOrderHoldsAll`), and a page
  as long as the list is the list (`PageHolds`).
* `CountSurvives`: `Spec => CountEditSurvives`. While the newest submission is a refresh,
  the number it carries is `sentCount` (`CountInv`). A submission that is not a refresh
  may be answered with another number; that is why it speaks of the newest only.
* `QuietAlwaysAnswered`: `QuietFormIsAnswered` is not inductive, as an answer is painted
  over whatever happened since it was asked for. `NewestInv` says what the last answer
  will find: unless a refresh waits, the newest submission carries the chips, the rows
  and the number as they still stand, since every change of one of them sets the timer;
  a remembered number is then the one that stands, so that the echo makes no difference
  (`RestInv`). The rest is about the server alone: asked again with the instructor, the
  school and the length it answered with, the context comes out the same
  (`AskingAgain`); a select that lost its option asks for nothing instead, which must
  not widen the answer, and a school shown is one of the viewer's own.
* `RowsNeverRefused`: `RowsInv` keeps the panel's rows on different days and within the
  number of sessions through every edit and through `Reconcile` (`ReconcileKeeps`; its
  filter is by rank, `OtherDaysOf`), and what is sent is either the panel as it stands
  with the number it goes with, or a single session.
* `PlansAreTheRule`: `Spec => PlanAsWritten`, where the viewer's zone `SkipsWithinADay`.
  `ClockInv` types all a plan can be made of: the fields, the panel's rows, the answer
  painted, the days and times its grids offer, and every submission under way. A form the
  handler has nothing against then asks for a sound rule (`PlannedRuleIsSound`), and
  `RulesExpandAsWritten` does the rest.

`SchoolSync_proofs`, for any occurrences, people, requests and runs of `sync:local`
side by side, stopped anywhere, from `SyncAssumption` (a session has participants,
a pod is no occurrence):

* `SyncTypeCorrect`, `OneCopyAlways`, `NothingSkippedAlways`. `OneCopy` is not
  inductive: that all that is queued is the linked copy needs that a link names a
  row there is and that a request past the links works on the linked copy
  (`Standing`), that what the school has and marks names it too (`TravelsLinked`).
  `NothingSkipped` needs, of a run between two statements, that what stands before
  the statement it is at has been done (`Running`): the `seen`, `ops` and `applied`
  stages are where a stop could leave a tick without the thing ticked.
* `NothingTakenBack`: no step repoints a link, unqueues a change, takes a session
  from the school or forgets a mark (`Grown`). The invariants rest on it: what one
  run has established no other run undoes, so only the run that moves is looked at.
* `SchoolMarkKeptAlways`: no delivery undoes a mark of the school; a step of the
  model, so an action property from the same invariant.
* `SchoolAgreesInTurn`, `NeverGoesBackInTurn`, for requests one after another
  (`MaxInFlight = 1`) and one run at a time (any two members of `Syncs` are the same).
  The invariant adds `OrderInv`: the queue has each occurrence in the order it was
  written, to the last unless the request that wrote it has not queued it
  (`QueueOrdered`, `Represented`); the school is no further than what it still waits
  for and as far as what it was given (`SchoolOrdered`); what came after a run looked
  is younger than all it has to do (`Delivering`). Each hypothesis is needed: a
  publication that overlaps another can queue the older image last, and of two runs
  the one that listed a change first can deliver it last.
* `RunsInTurnCarry`: `Spec => ImplementsCourier`, for one run at a time and requests that
  overlap as they like. Queueing is `Post`, a delivery the school accepts is `Hand`, the
  tick is `Tick`, every other statement changes nothing of the Courier: a mark of the
  school rewrites the row and leaves what it says. The invariant, `CourierInv`, is about
  the run alone: what it has to do waits, what it does not know of is younger, and
  between its two statements the school says what it has just been given (`Taking`).
* `MarksAgreeInTurn`, for one run at a time beside any number of requests: `MarksInv`.
  Marks are acknowledged in the order they were made (`Settled`); of those
  acknowledged, the last of an occurrence is on copy and participant, unless the one
  mark that is at the front is of the same occurrence and on its way: a run that
  stopped half-way may have stored that one on the copy alone.

`Attendance_proofs`, for any participants and forms sent side by side, from
`AttendanceAssumption`:

* `AttendanceTypeCorrect`, `MarksAccountedAlways`: whoever is marked last is at hand
  (`cur`) until the event is there, which carries the mark over a stop.
* `BulkFillsGapsAlways`, `HistoryConnectedAlways` speak of each row by itself, with any
  requests side by side, stopping anywhere: a row is `apart` until somebody writes it
  while another request has it in hand (`Reaching`), the school marks it, or its writer
  stops before the event. They need, of each such row, `Undisturbed` (what a request
  read still stands while it has the row to mark) and `History` (at most one request is
  about to record it; the events end in the mark that stands, or in the one that
  request had read).
* `ExcusingNeverLowersAlways`: no induction over steps; a fact about the rate of
  any marks, by cardinality of who counts.

`Structure_proofs`, about `Enrolment` and `Structure` together, for any number of
people, places, forms and requests, with `MaxInFlight` of them at once, stopped
anywhere. From `RequestAssumption`, `EnrolmentAssumption` and `StructureAssumption`:
forms have the fields their operation reads; places and requests are finitely
many; the rows there at first have distinct names, and no group is overfull. The
invariant is `DirectoryInv` (`DirectoryInvariant`). What every theorem needs:
a request's list of statements is ordered the way the code puts them (`Scripted`,
by `Ordered`: the account first, what is taken away before what is given), requests
that run side by side have met (`Acquainted`), whoever is linked has an account
(`Present`). Then, for each:

* `OvershootAlwaysBounded`: a group's students together with the requests that have
  yet to insert one exceed the capacity by at most `MaxInFlight - 1` (`Roomed`).
* `NamesMeetOnlyByMeeting`: whoever has yet to insert a row has met whoever made one
  of that name (`Naming`).
* `RegionalAlwaysBounded`: of two requests that create the same member of staff one
  goes past the account (`SoleMaker`); what it has granted and has yet to grant are
  together what the form chose (`Bounding`).
* `EnrolledAlwaysWhole`: a link of the form is there, or is still to come, or makes
  the request fail (`Whole`).
* `PlacementsAlwaysCohere`: of requests about a person that do not overlap, the
  placements they will leave once their statements are through are coherent
  (`Cohering`, `Heading`), and a request that may yet fail has not begun to fill.

Dropping from the model the check of a clashing name, `drop_roles`, or the check of a
full group makes the respective proof fail.

`Import_proofs`, for any exports and rows, any number of previews and commits side
by side, stopped anywhere, with people invited and sessions booked meanwhile. From
`ImportAssumption`: the rows are what the readers make of a line, an upload has at
least one file, `None` is no key, request, number or batch. The invariant is
`ImportInv`; of each request it says what it has been told (`Going`: what its stage
implies of its fields), what it believes and is so (`Believing`: its keys are in the
ledger, its names are the first users of that name, its busy intervals are in the
table), what it judged (`Judged`), what it has at hand (`Holding`). On that rest:

* `CountedOnceAlways`: what a commit counts as written the ledger has (`Entered`), and
  nobody counts a key that was there.
* `WholeUnlessStoppedAlways`: the entity at hand was made from the row at hand and no
  key names it yet (`Holding`); of a session, whom it has seated so far (`Seated`).
* `ConstraintOnlyForOthersAlways`: a commit's own sessions are among the intervals it
  holds, or it lost their key (`Ours`).
* `SecondWritesNothingAlways`: at the end of a file every row of it is settled: its key
  is in the ledger, or nothing will ever write it (`Hopeless`: unreadable, an address
  that is taken, an interval that is), and what is settled stays so (`Settling`). So
  whoever commits the same files after that finds each row known or refuses it
  (`Barred`), at whichever statement it is.

What a step of one leaves to the others is one relation (`Grows`: rows keep what is
looked at, the ledger is added to, what is new is of who moves), so each action is
looked at for its own request only.

Model-checked only:

* Liveness and everything under fairness, the runs of two-step leads-to, ENABLED.

## 6. Plan

Done: all the modules of section 2, the runs of section 3, and proofs about `SessionOps`,
`SchoolSync`, `Attendance`, `Import`, `Booking`, `Enrolment` and `Structure`, `Recurrence` and
`Desk`, with both abstract specifications proved to be implemented. Every safety property
of a passing run is a theorem. Next: the actions that write availability rules, exceptions
and time off.

## 7. Not modelled

* The actions that write availability (rules, exceptions, time off): they replace
  rows of one instructor a statement at a time. Their rows are constants of `Desk`.
* Contact details, invitation mail and passwords of `personAdmin.ts`.
* The dialogs of a session record (their operations are `SessionOps` and
  `Attendance`), the screens of settings, structure and a person, the read API.
* The reading of import files: columns, dates and spellings are given as rows.
* Parsing and formatting of dates and times; drawing.
* Meetings' requests and credentials; moving a meeting with its session.
* Seeds, scenarios and one-off tools other than `sync-local` and
  `link-local-schools`.
* The cryptography of sign-in; throttling (state of one process).
* Schools and memberships in the shared database: no step waits for them.
