---------------------------- MODULE MCBooking ----------------------------
(* A weekly pair with meetings; a session in its second slot with the same *)
(* instructor; one in its first slot with another instructor and the same  *)
(* student, by way of a group, booked over the conflict; a student's       *)
(* request in between, and one whose sessions overlap each other.          *)
EXTENDS Booking

CONSTANTS pair, same, other, request, wrong, ann, ben, i1, i2, hall

At(t) == [from |-> t, to |-> t + 2]
MCBookings == {pair, same, other, request, wrong}
MCSlots == [b \in MCBookings |->
  CASE b = pair    -> <<At(0), At(10)>>
    [] b = same    -> <<At(11)>>
    [] b = other   -> <<At(1)>>
    [] b = request -> <<At(11)>>
    [] b = wrong   -> <<At(0), At(1)>>]
MCInstructor == [b \in MCBookings |-> IF b \in {pair, same} THEN i1 ELSE i2]
MCRoom == [b \in MCBookings |-> IF b \in {pair, wrong} THEN hall ELSE None]
MCChosen == [b \in MCBookings |-> IF b = same THEN {ben}
                                  ELSE IF b = other THEN {} ELSE {ann}]
MCWithdrawn == {<<i2, ann>>}
MCOutside == [b \in MCBookings |-> IF b = other THEN {1} ELSE {}]
=============================================================================
