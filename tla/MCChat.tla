-------------------------------- MODULE MCChat --------------------------------
(***************************************************************************)
(* Instances of Chat for TLC: two users with a device each.                *)
(***************************************************************************)
EXTENDS Chat, TLC

CONSTANTS r1, r2, d1, d2, ann, bob

TwoRequests == {r1, r2}
TwoDevices == {d1, d2}
TwoUsers == {ann, bob}
Symmetry == Permutations(TwoRequests)

\* A send that is repeated for other targets, and one of the other device.
ThreeSends ==
    {[dev |-> d1, cid |-> 1, targets |-> {d2}],
     [dev |-> d1, cid |-> 1, targets |-> {d1, d2}],
     [dev |-> d2, cid |-> 1, targets |-> {d1, d2}]}

OneEach == [d \in TwoDevices |-> IF d = d1 THEN ann ELSE bob]
===============================================================================
