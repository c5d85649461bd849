--------------------------- MODULE MCTransferQueue ---------------------------
(***************************************************************************)
(* Small instances of TransferQueue: a transfer out (t1) and one back (t2) *)
(* between the two networks, the way out losing a unit to the route's fee, *)
(* with just enough cash that a cost can starve a reservation.             *)
(***************************************************************************)
EXTENDS TransferQueue, TLC

CONSTANTS t1, t2, w1, w2, m1, m2, eth, arc

MCSource == [t \in Transfer |-> IF t = t1 THEN eth ELSE arc]
MCDest   == [t \in Transfer |-> IF t = t1 THEN arc ELSE eth]
MCAmount == [t \in Transfer |-> IF t = t1 THEN 2 ELSE 1]
MCNet    == [t \in Transfer |-> 1]
MCOpening == [f \in Family |-> IF f = eth THEN 2 ELSE 1]

MCCosts(paid, payable, withheld) ==
  [paid |-> [f \in Family |-> IF f = arc THEN paid ELSE 0],
   payable |-> payable, withheld |-> withheld]
Withheld == {MCCosts(0, 0, n) : n \in 0..2}
ArcCosts == {MCCosts(paid, payable, n) : paid \in 0..1, payable \in 0..1, n \in 0..2}

WorkerSymmetry == Permutations(Worker)
MessageSymmetry == Permutations(Message)
=============================================================================
