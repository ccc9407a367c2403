---------------------------- MODULE MCScalingLoop ----------------------------
(***************************************************************************)
(* Instances of ScalingLoop for TLC.  Memory is counted in steps of 512 MB *)
(* and the thresholds are the shipped 75 and 30.                           *)
(***************************************************************************)
EXTENDS ScalingLoop

CONSTANTS c1, c2

MCLimits == [cpu |-> [min |-> 1, max |-> 3, step |-> 1, up |-> 75, down |-> 30],
             ram |-> [min |-> 4, max |-> 8, step |-> 2, up |-> 75, down |-> 30]]

Busy == [use |-> [cpu |-> 90, ram |-> 7], confidence |-> 90]
Calm == [use |-> [cpu |-> 10, ram |-> 1], confidence |-> 90]
Snug == [use |-> [cpu |-> 50, ram |-> 5], confidence |-> 90]
Odd  == [use |-> [cpu |-> 90, ram |-> 1], confidence |-> 10]

\* One container inside the limits, one created by hand outside them.
Inside  == [cpu |-> 2, ram |-> 6]
Outside == [cpu |-> 6, ram |-> 1]

OneInside       == {[c \in {c1} |-> Inside]}
EitherBesideOne == {[c \in {c1, c2} |-> IF c = c1 THEN v ELSE Inside] : v \in {Inside, Outside}}

BusyOrCalm == {Busy, Calm}
BandLoads  == {Busy, Snug, Odd}
=============================================================================
