---------------------------- MODULE MCSessionOps ----------------------------
(***************************************************************************)
(* A small tenant: a two-session series and one or two sessions beside it. *)
(* Times are halves of days: a day is [0, 2).                              *)
(***************************************************************************)
EXTENDS SessionOps, TLC

CONSTANTS o1, o2, o3, o4, i1, i2, r1, s1, p1, p2

At(f) == [from |-> f, to |-> f + 1]

MCInstructor == o1 :> i1 @@ o2 :> i1 @@ o3 :> i2
MCSeries == o1 :> s1 @@ o2 :> s1 @@ o3 :> None
MCStartSlot == o1 :> At(0) @@ o2 :> At(2) @@ o3 :> At(1)
MCWanted == {At(1), At(2), At(3)}

(* Two requests at once: the third session shares the series' room, and    *)
(* the fourth, online, its instructor.                                     *)
RacingInstructor == MCInstructor @@ o4 :> i1
RacingRoom == o1 :> r1 @@ o2 :> r1 @@ o3 :> r1 @@ o4 :> None
RacingStudents == o1 :> {p1} @@ o2 :> {p1} @@ o3 :> {p2} @@ o4 :> {}
RacingSeries == MCSeries @@ o4 :> None
RacingStartSlot == MCStartSlot @@ o4 :> At(3)
RacingStatus == o1 :> {"REQUESTED", "SCHEDULED"} @@ o2 :> {"SCHEDULED", "CANCELLED"}
                  @@ o3 :> {"SCHEDULED", "IN_PROGRESS"} @@ o4 :> {"SCHEDULED"}

(* One request after another: it shares the series' student instead.       *)
NoRoom == [o \in Occ |-> None]
SameStudents == [o \in Occ |-> {p1}]
SequentialStatus == o1 :> {"REQUESTED", "SCHEDULED"} @@ o2 :> {"SCHEDULED"}
                      @@ o3 :> {"REQUESTED", "SCHEDULED", "IN_PROGRESS"}

CallSymmetry == Permutations(Calls)
=============================================================================
