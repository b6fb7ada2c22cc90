------------------------------ MODULE SlotBook ------------------------------
(***************************************************************************)
(* What the calendar promises, whatever the services do: every occurrence  *)
(* holds at most one slot, two occurrences that contend for an instructor  *)
(* or for a room never hold overlapping slots, and the calendar changes    *)
(* one occurrence at a time.  SessionOps is shown to implement it.         *)
(***************************************************************************)
EXTENDS Integers

CONSTANTS Occ,     \* occurrences
          Contend, \* the pairs {o, p} sharing an instructor or a room
          Free     \* what an occurrence that keeps no slot holds

VARIABLE held

(* Half-open intervals, as tstzrange(start, end, '[)') has them.           *)
Slot == {s \in [from : Int, to : Int] : s.from < s.to}
Overlap(s, t) == s.from < t.to /\ t.from < s.to

Fits(o, s) ==
  \A p \in Occ \ {o} :
    {o, p} \in Contend /\ held[p] # Free => ~Overlap(s, held[p])

Exclusive ==
  \A o, p \in Occ :
    o # p /\ {o, p} \in Contend /\ held[o] # Free /\ held[p] # Free
      => ~Overlap(held[o], held[p])

Init == /\ held \in [Occ -> Slot \cup {Free}]
        /\ Exclusive

(* Taking a slot, or moving from the one held to another.                  *)
Hold(o) == /\ held'[o] \in Slot
           /\ Fits(o, held'[o])
           /\ held' = [held EXCEPT ![o] = held'[o]]

Release(o) == held' = [held EXCEPT ![o] = Free]

Next == \E o \in Occ : Release(o) \/ Hold(o)

Spec == Init /\ [][Next]_held
=============================================================================
