---------------------------- MODULE MCSchoolSync ----------------------------
(***************************************************************************)
(* One or two sessions of one pod, a student and a tutor.                  *)
(***************************************************************************)
EXTENDS SchoolSync, TLC

CONSTANTS pod, student, tutor

MCPodOf == [o \in Occ |-> pod]
MCPeople == [o \in Occ |-> {student, tutor}]
MCPupil == [o \in Occ |-> {student}]

RequestSymmetry == Permutations(Publishers)
RacingSymmetry == RequestSymmetry \cup Permutations(Syncs)
=============================================================================
