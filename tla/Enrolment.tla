----------------------------- MODULE Enrolment ------------------------------
(***************************************************************************)
(* services/enrolment, people and personAdmin behind app/actions/people:   *)
(* accounts made with everything they are made with, where people are      *)
(* placed, who looks after whom, who teaches whom, who is archived.        *)
(*                                                                         *)
(* Abstracted: names, addresses (a person is known by the address), phone  *)
(* numbers, grades, zones and their shapes; the tenant (there is one).     *)
(***************************************************************************)
EXTENDS Requests, SequencesExt

CONSTANTS
  Person, School, District, Region,
  DistrictOf, \* the district of a school, or None
  RegionOf,   \* the region of a district, or None
  Staff       \* who is here to begin with: roles and schools

Role == {"admin", "regional_admin", "school_admin", "principal", "instructor",
         "parent", "student", "payer"}
Account == [roles : SUBSET (Role \X (Region \cup {None})), archived : BOOLEAN]

(* A form is drawn from what there is: places, and for the pickers people. *)
WellFormed(f) ==
  CASE f.op = "create_student" ->
         /\ f.guardian \in Person \cup {None} /\ f.instructors \in Seq(DOMAIN Staff)
         /\ f.schools \subseteq School /\ f.regions \subseteq Region
    [] f.op = "create_guardian" -> f.students \in Seq(DOMAIN Staff)
    [] f.op = "create_staff" ->
         f.role \in Role /\ f.schools \subseteq School /\ f.regions \subseteq Region
    [] f.op = "set_placements" -> f.schools \subseteq School /\ f.regions \subseteq Region
    [] f.op \in {"attach_school", "detach_school"} -> f.school \in School
    [] f.op = "assign" -> f.instructor \in Person
    [] f.op \in {"invite", "archive"} -> TRUE
    [] OTHER -> FALSE
EnrolOps == {"create_student", "create_guardian", "create_staff", "set_placements",
             "attach_school", "detach_school", "assign", "invite", "archive"}

ASSUME EnrolmentAssumption ==
  /\ IsFiniteSet(School) /\ IsFiniteSet(District) /\ IsFiniteSet(Region)
  /\ DistrictOf \in [School -> District \cup {None}]
  /\ RegionOf \in [District -> Region \cup {None}]
  /\ DOMAIN Staff \subseteq Person
  /\ \A p \in DOMAIN Staff : Staff[p].role \in Role /\ Staff[p].schools \subseteq School
  /\ None \notin Account
  /\ \A r \in Request : Form[r].by \in Person
  /\ \A r \in Request : Form[r].op \in EnrolOps =>
       Form[r].person \in Person /\ WellFormed(Form[r])

VARIABLES
  user,      \* user_account with its user_role rows
  placed,    \* user_school, user_district, user_region
  guardians, \* guardian_student
  teaches,   \* instructor_student
  told       \* audit_event: what happened to whom

people == <<user, placed, guardians, teaches, told>>

SCHOOL_SCOPED_ROLES == {"school_admin", "principal"}
Privileged == {"admin", "regional_admin"} \cup SCHOOL_SCOPED_ROLES

(* A grant is a role and the region that bounds it.                        *)
Unbounded(role) == <<role, None>>
Roles(p) == {grant[1] : grant \in user[p].roles}
Here(p) == user[p] # None
HasRole(p, role) == Here(p) /\ role \in Roles(p)

Known(ids) == ids \ {None}
DistrictsOf(schools) == Known({DistrictOf[s] : s \in schools})
RegionsOf(districts) == Known({RegionOf[d] : d \in districts})
Nowhere == [schools |-> {}, districts |-> {}, regions |-> {}]
Expanded(schools) ==
  [schools |-> schools, districts |-> DistrictsOf(schools),
   regions |-> RegionsOf(DistrictsOf(schools))]

InitPeople ==
  /\ user = [p \in Person |-> IF p \in DOMAIN Staff
       THEN [roles |-> {Unbounded(Staff[p].role)}, archived |-> FALSE]
       ELSE None]
  /\ placed = [p \in Person |-> IF p \in DOMAIN Staff
                                THEN Expanded(Staff[p].schools) ELSE Nowhere]
  /\ guardians = {} /\ teaches = {} /\ told = {}

-----------------------------------------------------------------------------
(* Who may see and touch whom: an administrator everybody, anybody else    *)
(* placed at a school those at the same schools.                           *)

SchoolScope(by) == IF "admin" \in Roles(by) \/ placed[by].schools = {} THEN None
                   ELSE placed[by].schools
SchoolsInScope(by, schools) ==
  SchoolScope(by) = None \/ schools \subseteq SchoolScope(by)
Visible(by, p) == /\ Here(p)
                  /\ \/ SchoolScope(by) = None
                     \/ placed[p].schools \cap SchoolScope(by) # {}
Loaded(by, p) == Visible(by, p) /\ ~user[p].archived
MayManage(by) == \E role \in {"admin", "school_admin", "regional_admin"} :
                   HasRole(by, role) /\ ~user[by].archived

(* Who a picker resolves to: what it cannot see is dropped.                *)
PickPeople(by, refs) ==
  LET seen == {n \in DOMAIN refs : Visible(by, refs[n])}
      Nth(k) == CHOOSE n \in seen : Cardinality({m \in seen : m <= n}) = k
  IN [k \in 1 .. Cardinality(seen) |-> refs[Nth(k)]]

-----------------------------------------------------------------------------
(* Statements.                                                             *)

EachOf(what, ids) == LET order == SetToSeq(ids)
                     IN [n \in DOMAIN order |-> <<what, order[n]>>]

(* attachLocations: the schools, their districts, and their regions.       *)
AttachOnlySchools(schools, regions) ==
  EachOf("school", schools) \o EachOf("region", regions)
AttachLocations(schools, regions) ==
  LET up == Expanded(schools) IN
  EachOf("school", schools) \o EachOf("district", up.districts)
    \o EachOf("region", regions \cup up.regions)

CreatePerson(roles) == <<<<"account", roles>>, <<"tell", "user.created">>>>

(* Links, each judged just before it is written: whoever does not have the *)
(* role makes the request throw with the account made.                     *)
LinksToFit(what, role, ps) ==
  [n \in DOMAIN SelectSeq(ps, LAMBDA p : HasRole(p, role)) |->
     <<what, SelectSeq(ps, LAMBDA p : HasRole(p, role))[n], n = 1>>]
Links(what, role, ps) ==
  [n \in DOMAIN ps |-> IF HasRole(ps[n], role) THEN <<what, ps[n], n = 1>>
                                               ELSE <<"throw", ps[n], FALSE>>]

StudentScript(r) ==
  CreatePerson({Unbounded("student")})
    \o (IF Form[r].guardian = None THEN <<>> ELSE <<<<"guardian", Form[r].guardian, TRUE>>>>)
    \o Links("instructor", "instructor", PickPeople(Form[r].by, Form[r].instructors))
    \o AttachLocations(Form[r].schools, Form[r].regions)
    \o <<<<"tell", "user.student_enrolled">>>>
GuardianScript(r) ==
  CreatePerson({Unbounded("parent")})
    \o Links("ward", "student", PickPeople(Form[r].by, Form[r].students))
    \o <<<<"tell", "user.guardian_enrolled">>>>
UnboundedScript(r) ==
  CreatePerson({Unbounded(Form[r].role)})
    \o (IF Form[r].role = "regional_admin" THEN EachOf("grant", Form[r].regions) ELSE <<>>)
    \o AttachLocations(Form[r].schools, Form[r].regions) \o <<<<"tell", "user.staff_enrolled">>>>
StaffScript(r) ==
  CreatePerson({Unbounded(Form[r].role)})
    \o (IF Form[r].role = "regional_admin"
        THEN <<<<"drop_roles">>>> \o EachOf("grant", Form[r].regions) ELSE <<>>)
    \o AttachLocations(Form[r].schools, Form[r].regions) \o <<<<"tell", "user.staff_enrolled">>>>
PlacementScript(schools, regions) ==
  <<<<"drop_schools">>, <<"drop_districts">>, <<"drop_regions">>>>
    \o AttachLocations(schools, regions) \o <<<<"tell", "user.placements_set">>>>

-----------------------------------------------------------------------------
(* The actions of the screens, up to their first write.                    *)

Judged(r, ok, script) == IF MayManage(Form[r].by) /\ ok THEN SetOut(r, script)
                                                  ELSE Refuse(r)
OneKindOfPlace(r) == Form[r].schools = {} \/ Form[r].regions = {}
InHisSchool(r) == /\ SchoolsInScope(Form[r].by, Form[r].schools)
                  /\ SchoolScope(Form[r].by) # None => Form[r].schools # {}

CreateStudent(r) ==
  /\ Form[r].op = "create_student"
  /\ Judged(r, /\ Form[r].guardian # None => /\ Loaded(Form[r].by, Form[r].guardian)
                                       /\ HasRole(Form[r].guardian, "parent")
               /\ OneKindOfPlace(r) /\ InHisSchool(r), StudentScript(r))
  /\ UNCHANGED people

CreateGuardian(r) ==
  /\ Form[r].op = "create_guardian"
  /\ Judged(r, TRUE, GuardianScript(r))
  /\ UNCHANGED people

CreateStaff(r) ==
  /\ Form[r].op = "create_staff"
  /\ Judged(r, /\ OneKindOfPlace(r)
               /\ Form[r].role = "regional_admin" => Form[r].regions # {}
               /\ Form[r].role \in SCHOOL_SCOPED_ROLES => Cardinality(Form[r].schools) = 1
               /\ InHisSchool(r)
               /\ Form[r].role \in Privileged => HasRole(Form[r].by, "admin"), StaffScript(r))
  /\ UNCHANGED people

(* The booking screen's box: a student by address, invited if there is none. *)
FindOrInviteStudent(r) ==
  /\ Form[r].op = "invite"
  /\ IF Here(Form[r].person) /\ ~user[Form[r].person].archived
     THEN IF HasRole(Form[r].person, "student") THEN NothingToDo(r) ELSE Refuse(r)
     ELSE Judged(r, TRUE, CreatePerson({Unbounded("student")}))
  /\ UNCHANGED people

Fitting(p, schools, regions) ==
  /\ schools = {} \/ regions = {}
  /\ Roles(p) \cap SCHOOL_SCOPED_ROLES # {} =>
       Cardinality(schools) = 1 /\ regions = {}

SetPlacements(r) ==
  /\ Form[r].op = "set_placements"
  /\ Judged(r, /\ Visible(Form[r].by, Form[r].person)
               /\ Fitting(Form[r].person, Form[r].schools, Form[r].regions)
               /\ SchoolsInScope(Form[r].by, Form[r].schools),
            PlacementScript(Form[r].schools, Form[r].regions))
  /\ UNCHANGED people

AttachSchool(r) ==
  LET now == placed[Form[r].person]
      then == now.schools \cup {Form[r].school}
  IN
  /\ Form[r].op = "attach_school"
  /\ IF /\ Loaded(Form[r].by, Form[r].person) /\ SchoolsInScope(Form[r].by, {Form[r].school})
        /\ Form[r].school \in now.schools
     THEN NothingToDo(r)
     ELSE Judged(r, /\ Loaded(Form[r].by, Form[r].person) /\ SchoolsInScope(Form[r].by, {Form[r].school})
                    /\ now.regions # {} => now.schools # {}
                    /\ Fitting(Form[r].person, then, {})
                    /\ SchoolsInScope(Form[r].by, then), PlacementScript(then, {}))
  /\ UNCHANGED people

DetachSchool(r) ==
  LET rest == placed[Form[r].person].schools \ {Form[r].school} IN
  /\ Form[r].op = "detach_school"
  /\ Judged(r, /\ Loaded(Form[r].by, Form[r].person) /\ SchoolsInScope(Form[r].by, {Form[r].school})
               /\ Fitting(Form[r].person, rest, {})
               /\ SchoolsInScope(Form[r].by, rest), PlacementScript(rest, {}))
  /\ UNCHANGED people

AssignStudent(r) ==
  LET fit == /\ Loaded(Form[r].by, Form[r].instructor) /\ Loaded(Form[r].by, Form[r].person)
             /\ HasRole(Form[r].instructor, "instructor")
             /\ HasRole(Form[r].person, "student")
  IN
  /\ Form[r].op = "assign"
  /\ IF MayManage(Form[r].by) /\ fit /\ <<Form[r].instructor, Form[r].person>> \in teaches
     THEN NothingToDo(r)
     ELSE Judged(r, fit, <<<<"instructor", Form[r].instructor, TRUE>>,
                           <<"tell", "user.student_assigned">>>>)
  /\ UNCHANGED people

(* One button for both directions: the record as it was read decides.      *)
ArchiveOrRestore(r) ==
  /\ Form[r].op = "archive"
  /\ Judged(r, /\ Visible(Form[r].by, Form[r].person)
               /\ ~user[Form[r].person].archived =>
                    /\ Form[r].person # Form[r].by
                    /\ HasRole(Form[r].person, "admin") => HasRole(Form[r].by, "admin"),
            <<<<"archive", Here(Form[r].person) /\ ~user[Form[r].person].archived>>,
              <<"tell", "user.archived">>>>)
  /\ UNCHANGED people

-----------------------------------------------------------------------------
(* The statements, one at a time.  A row that is there already makes the   *)
(* insert throw.                                                           *)

Row(r, kind, id) ==
  IF id \in placed[Form[r].person][kind] THEN Fail(r) /\ UNCHANGED placed
  ELSE /\ placed' = [placed EXCEPT ![Form[r].person][kind] = @ \cup {id}]
       /\ Onward(r)
Emptied(r, kind) == /\ placed' = [placed EXCEPT ![Form[r].person][kind] = {}]
                    /\ Onward(r)

Place(r) ==
  /\ \/ Doing(r, "school") /\ Row(r, "schools", Arg(r, 2))
     \/ Doing(r, "district") /\ Row(r, "districts", Arg(r, 2))
     \/ Doing(r, "region") /\ Row(r, "regions", Arg(r, 2))
  /\ UNCHANGED <<user, guardians, teaches, told>>

Displace(r) ==
  /\ \/ Doing(r, "drop_schools") /\ Emptied(r, "schools")
     \/ Doing(r, "drop_districts") /\ Emptied(r, "districts")
     \/ Doing(r, "drop_regions") /\ Emptied(r, "regions")
  /\ UNCHANGED <<user, guardians, teaches, told>>

OpenAccount(r) ==
  /\ Doing(r, "account")
  /\ IF Here(Form[r].person) THEN Fail(r) /\ UNCHANGED user
     ELSE /\ user' = [user EXCEPT ![Form[r].person] = [roles |-> Arg(r, 2),
                                                 archived |-> FALSE]]
          /\ Onward(r)
  /\ UNCHANGED <<placed, guardians, teaches, told>>

GrantRegions(r) ==
  /\ \/ /\ Doing(r, "drop_roles")
        /\ user' = [user EXCEPT ![Form[r].person].roles = {}]
     \/ /\ Doing(r, "grant")
        /\ user' = [user EXCEPT ![Form[r].person].roles =
                      @ \cup {<<"regional_admin", Arg(r, 2)>>}]
  /\ Onward(r)
  /\ UNCHANGED <<placed, guardians, teaches, told>>

SetArchived(r) ==
  /\ Doing(r, "archive")
  /\ user' = [user EXCEPT ![Form[r].person].archived = Arg(r, 2)]
  /\ Onward(r)
  /\ UNCHANGED <<placed, guardians, teaches, told>>

LinkGuardian(r) ==
  /\ \/ /\ Doing(r, "guardian")
        /\ guardians' = guardians \cup
             {[guardian |-> Arg(r, 2), student |-> Form[r].person, primary |-> Arg(r, 3)]}
     \/ /\ Doing(r, "ward")
        /\ guardians' = guardians \cup
             {[guardian |-> Form[r].person, student |-> Arg(r, 2), primary |-> Arg(r, 3)]}
  /\ Onward(r)
  /\ UNCHANGED <<user, placed, teaches, told>>

LinkInstructor(r) ==
  /\ Doing(r, "instructor")
  /\ IF <<Arg(r, 2), Form[r].person>> \in teaches THEN Fail(r) /\ UNCHANGED teaches
     ELSE teaches' = teaches \cup {<<Arg(r, 2), Form[r].person>>} /\ Onward(r)
  /\ UNCHANGED <<user, placed, guardians, told>>

Throw(r) == Doing(r, "throw") /\ Fail(r) /\ UNCHANGED people

Tell(r) ==
  /\ Doing(r, "tell")
  /\ told' = told \cup {<<Arg(r, 2), Form[r].person>>}
  /\ Onward(r)
  /\ UNCHANGED <<user, placed, guardians, teaches>>

Enrol(r) ==
  \/ CreateStudent(r) \/ CreateGuardian(r) \/ CreateStaff(r)
  \/ FindOrInviteStudent(r) \/ SetPlacements(r) \/ AttachSchool(r)
  \/ DetachSchool(r) \/ AssignStudent(r) \/ ArchiveOrRestore(r)
Write(r) ==
  \/ Place(r) \/ Displace(r) \/ OpenAccount(r) \/ GrantRegions(r)
  \/ SetArchived(r) \/ LinkGuardian(r) \/ LinkInstructor(r)
  \/ Throw(r) \/ Tell(r)

-----------------------------------------------------------------------------
(* Properties.                                                             *)

About(p) == {r \in Request : Form[r].person = p /\ call[r].at # "idle"}

(* Whatever is done to a person by requests that do not meet, each run to  *)
(* its end: the districts and regions are those of the schools, and there  *)
(* are others only where there is no school.                               *)
Untouched(p) ==
  LET about == About(p) IN
  \A r \in about :
    call[r].at \in {"done", "refused", "failed"} /\ call[r].met \cap about = {}
PlacementsCohere ==
  \A p \in Person :
    \/ placed[p] = Expanded(placed[p].schools)
    \/ placed[p].schools = {} /\ placed[p].districts = {}
    \/ ~Untouched(p)

(* A regional administrator is bounded by the regions chosen, once created, *)
(* whatever is done meanwhile and later to where they are placed.          *)
RegionalBounded ==
  \A r \in Sent :
    Form[r].op = "create_staff" /\ Form[r].role = "regional_admin" /\ call[r].at = "done"
      => user[Form[r].person].roles = {<<"regional_admin", g>> : g \in Form[r].regions}

(* Whoever was created to the end has what the form named: the parent, the *)
(* instructors, the wards; a form that names somebody who is not what it   *)
(* says does not end that way.                                             *)
EnrolledWhole ==
  \A r \in Sent : call[r].at = "done" /\ HasRole(Form[r].by, "admin") =>
    CASE Form[r].op = "create_student" ->
           /\ Form[r].guardian # None => \E l \in guardians :
                l.guardian = Form[r].guardian /\ l.student = Form[r].person /\ l.primary
           /\ \A i \in ToSet(Form[r].instructors) : <<i, Form[r].person>> \in teaches
      [] Form[r].op = "create_guardian" ->
           \A s \in ToSet(Form[r].students) : \E l \in guardians :
             l.guardian = Form[r].person /\ l.student = s
      [] OTHER -> TRUE
=============================================================================
