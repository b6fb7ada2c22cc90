------------------------------- MODULE Courier -------------------------------
(***************************************************************************)
(* What the queue between the two applications promises: messages are      *)
(* handed over oldest first, the one at hand perhaps more than once, and   *)
(* ticked off only while the other side holds what they say; between two   *)
(* of them for one address nothing changes what it holds.  SchoolSync with *)
(* one run of sync:local at a time is shown to implement it.               *)
(***************************************************************************)
EXTENDS Naturals, Sequences

CONSTANT Address

VARIABLES
  posted, \* every message so far, in order
  ticked, \* the positions of those that need not be handed over again
  held    \* what each address holds: nothing yet, or what it was handed last

courier == <<posted, ticked, held>>

Init == posted = <<>> /\ ticked = {} /\ held = [a \in Address |-> {}]

Post == /\ \E n \in DOMAIN posted' : /\ posted'[n].to \in Address
                                     /\ posted' = Append(posted, posted'[n])
        /\ UNCHANGED <<ticked, held>>

(* All that came before is done with, and this is not.                     *)
Due(i) == i \notin ticked /\ \A j \in DOMAIN posted : j < i => j \in ticked

Hand(i) == /\ Due(i)
           /\ held' = [held EXCEPT ![posted[i].to] = {posted[i].says}]
           /\ UNCHANGED <<posted, ticked>>

Tick(i) == /\ Due(i)
           /\ held[posted[i].to] = {posted[i].says}
           /\ ticked' = ticked \cup {i}
           /\ UNCHANGED <<posted, held>>

Next == Post \/ \E i \in DOMAIN posted : Hand(i) \/ Tick(i)

Spec == Init /\ [][Next]_courier
=============================================================================
