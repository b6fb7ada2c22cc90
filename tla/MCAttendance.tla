---------------------------- MODULE MCAttendance ----------------------------
(***************************************************************************)
(* Two students, whose names do not matter, like those of the requests.    *)
(***************************************************************************)
EXTENDS Attendance

CallSymmetry == Permutations(Calls)
StudentSymmetry == CallSymmetry \cup Permutations(Student)
=============================================================================
