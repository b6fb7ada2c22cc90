------------------------------- MODULE Access -------------------------------
(***************************************************************************)
(* Who somebody is, what their roles let them do, and what they may do to  *)
(* one session: lib/policies.  A permission is a role's, narrowed by the   *)
(* tenant's settings; a policy asks it together with who teaches the       *)
(* session, who is on it, its status and the hours left before it.         *)
(*                                                                         *)
(* Abstracted: the tenant (there is one) and the sentence a refusal is     *)
(* given in.  Nothing here changes state; the screens ask it of every row  *)
(* they draw.                                                              *)
(***************************************************************************)
EXTENDS BookingPage

CONSTANTS
  People,        \* ref -> roles, status, archived, schools, regions, districts,
                 \*        guards (the students linked to them), zone (or None)
  RoleSettings   \* a role list of the settings -> the roles it names, or None

-----------------------------------------------------------------------------
(* Permissions and the ceiling of each role.                               *)

StaffPermissions ==
  {"user.view", "user.manage", "user.invite", "structure.view", "availability.view_any",
   "availability.edit_any", "session.view_any", "session.book", "session.edit_any",
   "session.cancel_any", "session.edit_series", "session.approve_request",
   "attendance.mark_any", "audit.view", "export.sessions"}

ALL_PERMISSIONS ==
  StaffPermissions \cup
  {"structure.manage", "availability.view_own", "availability.edit_own",
   "session.view_own", "session.book_historical", "session.edit_own",
   "session.cancel_own", "session.delete", "session.override_conflict",
   "attendance.mark_own", "attendance.correct_actuals", "data.import", "org.configure"}

FamilyPermissions ==
  {"session.view_own", "session.book", "session.cancel_own", "availability.view_any"}

ROLE_PERMISSIONS ==
  [ADMIN          |-> ALL_PERMISSIONS,
   SCHOOL_ADMIN   |-> StaffPermissions,
   REGIONAL_ADMIN |-> StaffPermissions,
   PRINCIPAL      |-> {"user.view", "structure.view", "availability.view_any",
                       "session.view_any", "audit.view", "export.sessions"},
   INSTRUCTOR     |-> {"user.view", "structure.view", "availability.view_own",
                       "availability.edit_own", "session.view_own", "session.book",
                       "session.edit_own", "session.cancel_own",
                       "session.approve_request", "attendance.mark_own"},
   STUDENT        |-> FamilyPermissions,
   PARENT         |-> FamilyPermissions,
   PAYER          |-> {"session.view_own"}]

(* A role list of the settings, and what somebody it leaves out loses.     *)
ROLE_LIST_SETTINGS ==
  [who_can_book              |-> {"session.book"},
   who_can_create_historical |-> {"session.book_historical"},
   who_can_delete            |-> {"session.delete"},
   conflict_override_roles   |-> {"session.override_conflict"},
   who_can_edit              |-> {"session.edit_any", "session.edit_own",
                                  "session.edit_series"},
   who_can_cancel            |-> {"session.cancel_any", "session.cancel_own"}]

CodeDefault(roles) == UNION {ROLE_PERMISSIONS[role] : role \in roles}

ListedExcludes(setting, roles) ==
  RoleSettings[setting] # None /\ RoleSettings[setting] \cap roles = {}

(* Configuration only subtracts.                                           *)
Resolve(roles) ==
  CodeDefault(roles) \ UNION {ROLE_LIST_SETTINGS[s] :
                                s \in {t \in DOMAIN ROLE_LIST_SETTINGS : ListedExcludes(t, roles)}}

-----------------------------------------------------------------------------
(* The principal, loaded from live rows with every request.                *)

MayLoad(who) ==
  ~People[who].archived /\ People[who].status = "ACTIVE" /\ People[who].roles # {}

LoadPrincipal(who) ==
  [user |-> who, roles |-> People[who].roles, permissions |-> Resolve(People[who].roles),
   schools |-> People[who].schools,
   zone |-> IF People[who].zone = None THEN OrgZone ELSE People[who].zone]

Has(p, permission) == permission \in p.permissions

(* The schools a person may act in, or None for every school.              *)
SchoolScope(p) == IF "ADMIN" \in p.roles \/ p.schools = {} THEN None ELSE p.schools

AtSchools(s, schools) == \E student \in s.students : People[student].schools \cap schools # {}
PersonAtSchools(who, schools) == People[who].schools \cap schools # {}

-----------------------------------------------------------------------------
(* One session.                                                            *)

Owns(p, s) == s.who = p.user
OnSession(s) == s.students \cup {s.who}

(* Whose names a viewer may be told.                                       *)
MaySeeAll(p, s) == Has(p, "session.view_any") \/ Owns(p, s)
MayName(p, s, who) == MaySeeAll(p, s) \/ who \in {p.user} \cup People[p.user].guards
NamesFor(p, s) == {who \in s.students : MayName(p, s, who)}
ViewerInvolved(p, s) == ~MaySeeAll(p, s) /\ \E who \in OnSession(s) : MayName(p, s, who)

(* Whoever holds the right for any session, or for their own and it is.    *)
AnyOrOwn(p, s, any, own) == Has(p, any) \/ (Has(p, own) /\ Owns(p, s))

CanEdit(p, s) ==
  StatusAllows(s.status, "edit") /\ AnyOrOwn(p, s, "session.edit_any", "session.edit_own")

ExemptFromNotice(p) ==
  Has(p, "session.cancel_any") \/ Has(p, "session.edit_any") \/ "INSTRUCTOR" \in p.roles

(* A window of nothing never closes.                                       *)
NoticeWindow(s, now) == Config.notice <= 0 \/ s.start - now >= Config.notice

CanReschedule(p, s, now, involved) ==
  /\ StatusAllows(s.status, "reschedule")
  /\ \/ Has(p, "session.edit_any")
     \/ /\ \/ Has(p, "session.edit_own") /\ Owns(p, s)
           \/ involved /\ Has(p, "session.cancel_own") /\ "INSTRUCTOR" \notin p.roles
        /\ ExemptFromNotice(p) \/ NoticeWindow(s, now)

CanEditSeries(p, s) == s.series # None /\ Has(p, "session.edit_series")

CanCancel(p, s, now, involved) ==
  /\ StatusAllows(s.status, "cancel")
  /\ \/ Has(p, "session.cancel_any")
     \/ /\ Has(p, "session.cancel_own") /\ (Owns(p, s) \/ involved)
        /\ ExemptFromNotice(p) \/ NoticeWindow(s, now)

CanDelete(p, s) == Has(p, "session.delete") /\ StatusAllows(s.status, "delete")

CanChangeStatus(p, s, action) ==
  StatusAllows(s.status, action) /\ AnyOrOwn(p, s, "session.edit_any", "session.edit_own")

CanMarkAttendance(p, s) ==
  /\ StatusAllows(s.status, "attendance")
  /\ AnyOrOwn(p, s, "attendance.mark_any", "attendance.mark_own")

CanDecideRequest(p, s, action) ==
  /\ StatusAllows(s.status, action) /\ Has(p, "session.approve_request")
  /\ Has(p, "session.view_any") \/ Owns(p, s)

CanStartMeeting(p, s) == Owns(p, s) \/ Has(p, "session.view_any")

(* What a row offers: exactly what each policy allows.                     *)
AvailableActions(p, s, now, involved) ==
  {a \in {"approve", "reject"} : CanDecideRequest(p, s, a)}
  \cup {a \in {"complete", "mark_missed", "restore"} : CanChangeStatus(p, s, a)}
  \cup When(CanEdit(p, s), {"edit"})
  \cup When(CanReschedule(p, s, now, involved), {"reschedule"})
  \cup When(CanEditSeries(p, s), {"edit_series"})
  \cup When(CanCancel(p, s, now, involved), {"cancel"})
  \cup When(CanMarkAttendance(p, s), {"attendance"})
  \cup When(/\ Has(p, "attendance.correct_actuals")
            /\ StatusAllows(s.status, "correct_actuals"), {"correct_actuals"})
  \cup When(CanDelete(p, s), {"delete"})

(* What the booking rules ask of the person booking.                       *)
REQUESTING_ROLES == {"STUDENT", "PARENT"}
CanOverrideConflicts(p) == Has(p, "session.override_conflict")
CanBookInPast(p) == Has(p, "session.book_historical")
UsesStudentLead(p) ==
  /\ "INSTRUCTOR" \notin p.roles
  /\ ~Has(p, "session.view_any") /\ ~Has(p, "session.approve_request")
  /\ p.roles \cap REQUESTING_ROLES # {}
NeedsApproval(p) ==
  /\ Config.requireApproval
  /\ ~Has(p, "session.approve_request") /\ ~Has(p, "session.view_any")
  /\ p.roles \cap REQUESTING_ROLES # {}
=============================================================================
