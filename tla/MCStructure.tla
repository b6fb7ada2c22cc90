---------------------------- MODULE MCStructure -----------------------------
(* Two schools in two regions, a third in none; a head of one school, an   *)
(* administrator of the tenant, a teacher, a parent, three students, two   *)
(* people who are yet to come.                                             *)
EXTENDS Structure, TLC

CONSTANTS ada, head, tom, pam, sue, sam, sid, nia, rex

MCDistrictOf == [s \in School |-> CASE s = "s1" -> "d1" [] s = "s2" -> "d2"
                                    [] OTHER -> None]
MCRegionOf == [d \in District |-> CASE d = "d1" -> "g1" [] d = "d2" -> "g2"]
Starting(role, schools) == [role |-> role, schools |-> schools]
MCStaff ==
  (ada :> Starting("admin", {})) @@ (head :> Starting("school_admin", {"s1"}))
  @@ (tom :> Starting("instructor", {"s1"})) @@ (pam :> Starting("parent", {}))
  @@ (sue :> Starting("student", {"s1"})) @@ (sam :> Starting("student", {}))
  @@ (sid :> Starting("student", {}))

About_(op, by, p) == [op |-> op, by |-> by, person |-> p]
At(schools, regions) == [schools |-> schools, regions |-> regions]
Student_(by, p, guardian, instructors, schools, regions) ==
  About_("create_student", by, p) @@ At(schools, regions)
    @@ [guardian |-> guardian, instructors |-> instructors]
Staff_(by, p, role, schools, regions) ==
  About_("create_staff", by, p) @@ At(schools, regions) @@ [role |-> role]
Placing(by, p, schools, regions) ==
  About_("set_placements", by, p) @@ At(schools, regions)
School_(op, by, p, s) == About_(op, by, p) @@ [school |-> s]
Member_(op, p, role) ==
  About_(op, ada, p) @@ [group |-> 1, role |-> role]
New(kind, word, case, parent, capacity) ==
  [op |-> "create", by |-> ada, person |-> None, kind |-> kind,
   name |-> <<word, case>>, parent |-> parent, capacity |-> capacity]
Gone(kind, id) == [op |-> "retire", by |-> ada, person |-> None, kind |-> kind, id |-> id]

MCForm == <<
  Student_(ada, nia, pam, <<tom>>, {"s1", "s2"}, {}),
  Student_(ada, nia, None, <<tom, sue>>, {}, {"g1"}),
  Student_(head, rex, None, <<tom>>, {"s1"}, {}),
  Staff_(head, nia, "principal", {"s1"}, {}),
  About_("invite", ada, nia),
  About_("assign", ada, nia) @@ [instructor |-> tom],
  Member_("add_member", nia, "student"),

  About_("create_guardian", ada, rex) @@ [students |-> <<sue, sam>>],
  Staff_(ada, rex, "regional_admin", {}, {"g1", "g2"}),
  Placing(ada, rex, {"s2"}, {}),
  Placing(ada, head, {"s2"}, {}),
  Placing(head, tom, {"s2"}, {}),

  Placing(ada, sue, {"s1", "s3"}, {}), Placing(ada, sue, {}, {"g2"}),
  School_("attach_school", ada, sue, "s2"), School_("detach_school", ada, sue, "s1"),
  About_("archive", head, sue), About_("archive", ada, sue),
  About_("assign", ada, sue) @@ [instructor |-> tom],

  Member_("add_member", sue, "student"), Member_("add_member", sid, "student"),
  Member_("remove_member", sam, "student"), Member_("add_member", tom, "instructor"),
  Gone("group", 1),

  New("school", "oak", "lower", 2, None), New("school", "oak", "upper", None, None),
  New("school", "oak", "upper", 2, None), Gone("district", 2), Gone("school", 3),
  New("location", "hall", "upper", 3, 0), New("location", "hall", "lower", 3, 9),
  Gone("location", 5), New("district", "north", "lower", 4, None),
  New("region", "coast", "lower", None, None), Gone("region", 4),
  New("group", "choir", "upper", None, 1) >>

(* Whoever is new, rex and the staff, sue, the group, the hierarchy; and   *)
(* sue archived under whatever else is done with her.                      *)
MCMixes ==
  {{1, 2, 4, 5, 6}, {3, 5, 6, 7}, {3, 4, 8}, {9, 10, 11, 12},
   13..16, {13, 15, 17, 18}, {14, 18, 19}, 18..24,
   25..29, {28} \cup 30..35, {24, 36}}

(* A group that is full, a district with a school, a region, a location.   *)
Standing_(kind, word, parent, capacity) ==
  Row_(kind, <<word, "lower">>, parent, capacity, None)
MCStanding ==
  << Standing_("group", "choir", None, 1), Standing_("district", "north", None, None),
     Standing_("school", "elm", 2, None), Standing_("region", "coast", None, None),
     Standing_("location", "attic", None, None) >>
MCMembers == {[group |-> 1, who |-> sam, role |-> "student"]}
=============================================================================
