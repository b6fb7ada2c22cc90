----------------------------- MODULE Structure ------------------------------
(***************************************************************************)
(* services/structure behind app/actions/structure: groups and their       *)
(* members, locations, and the hierarchy of regions, districts, schools.   *)
(* Names are compared without their case among what is not archived; the   *)
(* unique index compares them with it, among everything.  Nothing is ever  *)
(* deleted but a membership.                                               *)
(***************************************************************************)
EXTENDS Enrolment

CONSTANTS
  Standing,    \* the rows there are to begin with
  Members      \* and who is in which group

VARIABLES
  row,     \* student_group, location, region, district, school, by id
  member,  \* group_member
  history  \* audit_event of these

structure == <<row, member, history>>

(* A name is a word and how it is spelt.                                   *)
Row_(kind, name, parent, capacity, by) ==
  [kind |-> kind, name |-> name, parent |-> parent, capacity |-> capacity,
   archived |-> FALSE, by |-> by]

Kind == {"group", "location", "region", "district", "school"}
Word == {Form[r].name : r \in {r \in Request : Form[r].op = "create"}}
          \cup {Standing[i].name : i \in DOMAIN Standing}
RowsBy(whom) ==
  [kind : Kind, name : Word, parent : Nat \cup {None}, capacity : Nat \cup {None},
   archived : BOOLEAN, by : whom]
OnARow(f) ==
  CASE f.op = "create" -> f.kind \in Kind /\ f.capacity \in Nat \cup {None}
    [] f.op = "retire" -> f.kind \in Kind /\ f.id \in Nat
    [] f.op \in {"add_member", "remove_member"} ->
         f.group \in Nat /\ f.person \in Person /\ f.role \in Role
    [] OTHER -> FALSE

ASSUME StructureAssumption ==
  /\ Standing \in Seq(RowsBy({None})) /\ None \notin Nat
  /\ \A i, j \in DOMAIN Standing :
       /\ i # j /\ Standing[i].kind = Standing[j].kind
       /\ ~Standing[i].archived /\ ~Standing[j].archived
       => Standing[i].name[1] # Standing[j].name[1]
  /\ Members \subseteq [group : DOMAIN Standing, who : DOMAIN Staff, role : Role]
  /\ IsFiniteSet(Members)
  /\ \A g \in DOMAIN Standing : Standing[g].capacity # None =>
       Cardinality({m \in Members : m.group = g /\ m.role = "student"})
         <= Standing[g].capacity
  /\ \A r \in Request : Form[r].op \notin EnrolOps => OnARow(Form[r])

InitStructure ==
  /\ row = Standing /\ member = Members /\ history = {}

Live(id) == id \in DOMAIN row /\ ~row[id].archived
LiveOf(kind, id) == Live(id) /\ row[id].kind = kind
Clashing(kind, name) ==
  \E id \in DOMAIN row : LiveOf(kind, id) /\ row[id].name[1] = name[1]
Taken(kind, name) ==
  \E id \in DOMAIN row : row[id].kind = kind /\ row[id].name = name
MayShape(by) == HasRole(by, "admin") /\ ~user[by].archived

Wants(r, op, kind) == Form[r].op = op /\ Form[r].kind = kind

(* A parent that is gone by the time the form arrives is left out, but for *)
(* the school of a location, which may be archived.                        *)
Named(r, kind) == IF LiveOf(kind, Form[r].parent) THEN Form[r].parent ELSE None
SchoolOfLocation(r) ==
  IF Form[r].parent \in DOMAIN row /\ row[Form[r].parent].kind = "school"
  THEN Form[r].parent ELSE None
RegionOfDistrict(r) == Named(r, "region")
DistrictOfSchool(r) == Named(r, "district")

Roomy(r) == Form[r].capacity # None => Form[r].capacity >= 1
Creating(r, ok, parent) ==
  /\ IF MayShape(Form[r].by) /\ ok /\ ~Clashing(Form[r].kind, Form[r].name)
     THEN SetOut(r, <<<<"insert", parent>>, <<"record", "created">>>>)
     ELSE Refuse(r)
  /\ UNCHANGED structure

CreateGroup(r) == Wants(r, "create", "group") /\ Creating(r, Roomy(r), None)
CreateLocation(r) ==
  Wants(r, "create", "location") /\ Creating(r, Roomy(r), SchoolOfLocation(r))
CreateRegion(r) == Wants(r, "create", "region") /\ Creating(r, TRUE, None)
CreateDistrict(r) ==
  Wants(r, "create", "district") /\ Creating(r, TRUE, RegionOfDistrict(r))
CreateSchool(r) ==
  Wants(r, "create", "school") /\ Creating(r, TRUE, DistrictOfSchool(r))

(* Archiving asks nobody below: what hangs from the row stays as it is.    *)
Archiving(r) ==
  /\ IF MayShape(Form[r].by) /\ LiveOf(Form[r].kind, Form[r].id)
     THEN SetOut(r, <<<<"retire">>, <<"record", "archived">>>>)
     ELSE Refuse(r)
  /\ UNCHANGED structure

ArchiveGroup(r) == Wants(r, "retire", "group") /\ Archiving(r)
ArchiveLocation(r) == Wants(r, "retire", "location") /\ Archiving(r)
ArchiveRegion(r) == Wants(r, "retire", "region") /\ Archiving(r)
ArchiveDistrict(r) == Wants(r, "retire", "district") /\ Archiving(r)
ArchiveSchool(r) == Wants(r, "retire", "school") /\ Archiving(r)

Students(g) == {m \in member : m.group = g /\ m.role = "student"}
Full(r) == /\ Form[r].role = "student" /\ row[Form[r].group].capacity # None
           /\ Cardinality(Students(Form[r].group)) >= row[Form[r].group].capacity
Membership(r) == [group |-> Form[r].group, who |-> Form[r].person, role |-> Form[r].role]

AddMemberUncounted(r) ==
  /\ Form[r].op = "add_member"
  /\ IF MayShape(Form[r].by) /\ LiveOf("group", Form[r].group) /\ HasRole(Form[r].person, Form[r].role)
     THEN SetOut(r, <<<<"join">>, <<"record", "member_added">>>>)
     ELSE Refuse(r)
  /\ UNCHANGED structure

AddMember(r) ==
  /\ Form[r].op = "add_member"
  /\ IF /\ MayShape(Form[r].by) /\ LiveOf("group", Form[r].group)
        /\ Loaded(Form[r].by, Form[r].person) /\ HasRole(Form[r].person, Form[r].role)
     THEN IF Membership(r) \in member THEN NothingToDo(r)
          ELSE IF Full(r) THEN Refuse(r)
          ELSE SetOut(r, <<<<"join">>, <<"record", "member_added">>>>)
     ELSE Refuse(r)
  /\ UNCHANGED structure

RemoveMember(r) ==
  /\ Form[r].op = "remove_member"
  /\ IF MayShape(Form[r].by) /\ LiveOf("group", Form[r].group) /\ Membership(r) \in member
     THEN SetOut(r, <<<<"record", "member_removed">>, <<"leave">>>>)
     ELSE Refuse(r)
  /\ UNCHANGED structure

-----------------------------------------------------------------------------
(* The statements.                                                         *)

Appended(r) == Append(row, Row_(Form[r].kind, Form[r].name, Arg(r, 2), Form[r].capacity, r))
InsertAnyhow(r) ==
  /\ Doing(r, "insert")
  /\ row' = Appended(r) /\ Onward(r)
  /\ UNCHANGED <<member, history>>

Insert(r) ==
  /\ Doing(r, "insert")
  /\ IF Taken(Form[r].kind, Form[r].name) THEN Fail(r) /\ UNCHANGED row
     ELSE row' = Appended(r) /\ Onward(r)
  /\ UNCHANGED <<member, history>>

Retire(r) ==
  /\ Doing(r, "retire")
  /\ row' = [row EXCEPT ![Form[r].id].archived = TRUE]
  /\ Onward(r)
  /\ UNCHANGED <<member, history>>

Join(r) ==
  /\ Doing(r, "join")
  /\ IF Membership(r) \in member THEN Fail(r) /\ UNCHANGED member
     ELSE member' = member \cup {Membership(r)} /\ Onward(r)
  /\ UNCHANGED <<row, history>>

Leave(r) ==
  /\ Doing(r, "leave")
  /\ IF Membership(r) \in member
     THEN member' = member \ {Membership(r)} /\ Onward(r)
     ELSE Fail(r) /\ UNCHANGED member
  /\ UNCHANGED <<row, history>>

RecordStructure(r) ==
  /\ Doing(r, "record")
  /\ history' = history \cup {<<Arg(r, 2), r>>}
  /\ Onward(r)
  /\ UNCHANGED <<row, member>>

Restructure(r) ==
  \/ CreateGroup(r) \/ CreateLocation(r) \/ CreateRegion(r)
  \/ CreateDistrict(r) \/ CreateSchool(r)
  \/ ArchiveGroup(r) \/ ArchiveLocation(r) \/ ArchiveRegion(r)
  \/ ArchiveDistrict(r) \/ ArchiveSchool(r)
  \/ AddMember(r) \/ RemoveMember(r)
WriteStructure(r) ==
  Insert(r) \/ Retire(r) \/ Join(r) \/ Leave(r) \/ RecordStructure(r)

-----------------------------------------------------------------------------
(* The directory: both on one set of accounts and one stream of requests.  *)

vars == <<call, people, structure>>
Init == InitCalls /\ InitPeople /\ InitStructure
Rest == Running = {} /\ UNCHANGED vars
Next ==
  \/ \E r \in Admissible : \/ Enrol(r) /\ UNCHANGED structure
                           \/ Restructure(r) /\ UNCHANGED people
  \/ \E r \in Running : \/ Write(r) /\ UNCHANGED structure
                        \/ WriteStructure(r) /\ UNCHANGED people
                        \/ Stop(r) /\ UNCHANGED <<people, structure>>
  \/ Rest
Spec == Init /\ [][Next]_vars

-----------------------------------------------------------------------------
(* Properties.                                                             *)

TypeOK ==
  /\ \A r \in Request :
       call[r].at \in {"idle", "running", "done", "refused", "failed", "dead"}
  /\ \A p \in Person : Here(p) =>
       /\ user[p].archived \in BOOLEAN
       /\ \A grant \in user[p].roles : grant[2] \in Region \cup {None}
  /\ placed \in [Person -> [schools : SUBSET School, districts : SUBSET District,
                            regions : SUBSET Region]]
  /\ \A l \in guardians : Here(l.guardian) /\ Here(l.student)
  /\ \A l \in teaches : Here(l[1]) /\ Here(l[2])
  /\ \A m \in member : m.group \in DOMAIN row /\ Here(m.who)

(* Requests that count the same free place all take it, so a group may     *)
(* hold more than its capacity, but by no more than could run at once: it  *)
(* never grows while it is full.                                           *)
OvershootBounded ==
  \A g \in DOMAIN row : row[g].kind = "group" /\ row[g].capacity # None =>
    Cardinality(Students(g)) <= row[g].capacity + MaxInFlight - 1

(* Two rows of a kind, neither archived, have names that differ by their   *)
(* case only if they were created by requests that met.                    *)
SameNameOnlyByMeeting ==
  \A i, j \in DOMAIN row :
    /\ i < j /\ row[i].kind = row[j].kind /\ row[i].name[1] = row[j].name[1]
    /\ ~row[i].archived /\ ~row[j].archived
    => /\ row[i].name # row[j].name
       /\ row[j].by # None /\ row[i].by # None
       /\ row[i].by \in call[row[j].by].met
=============================================================================
