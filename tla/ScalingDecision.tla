--------------------------- MODULE ScalingDecision ---------------------------
(***************************************************************************)
(* The arithmetic of model/scaling_decisions.py: from the load of one      *)
(* container and its current allocation to the absolute target of each     *)
(* axis.  The two axes follow the same rule and differ in how a load       *)
(* becomes a percentage: the monitor reports CPU as one already, memory as *)
(* MB used, divided by the MB allocated (scaling_decisions.py:42).         *)
(*                                                                         *)
(* Percentages are compared by cross-multiplication, so every number is an *)
(* integer.  The IsolationForest prediction is an argument of the function *)
(* but reaches only a log line (scaling_decisions.py:50-51): it has no     *)
(* place in the result and none here.  The documentation gives it one: an  *)
(* axis is scaled up only on an anomaly (-1) and down only on a normal     *)
(* point (docs/components/model.md:88-116), which the code does not ask.   *)
(***************************************************************************)
EXTENDS Integers

CONSTANT Limits  \* per axis: floor, ceiling, step and the two thresholds

Axes == {"cpu", "ram"}

(* What validate_scaling_config accepts for the `scaling` section, all of  *)
(* its keys being set, as they are in the shipped configuration.           *)
LimitRecord == [min: Nat, max: Nat, step: Nat \ {0}, up: 0..100, down: 0..100]

Valid(limits) ==
    /\ limits \in [Axes -> LimitRecord]
    /\ \A a \in Axes : limits[a].min <= limits[a].max /\ limits[a].down < limits[a].up

ASSUME LimitsAssumption == Valid(Limits)

Least(x, y) == IF x <= y THEN x ELSE y
Most(x, y)  == IF x >= y THEN x ELSE y

(* Load strictly above pct percent; an empty allocation counts as 0%. *)
UseAbove(a, use, cur, pct) ==
    IF a = "cpu" THEN use > pct ELSE cur > 0 /\ use * 100 > pct * cur

UseBelow(a, use, cur, pct) ==
    IF a = "cpu" THEN use < pct
                 ELSE IF cur > 0 THEN use * 100 < pct * cur ELSE 0 < pct

Hot(a, use, cur)  == UseAbove(a, use, cur, Limits[a].up)

\* Mutant: everything that is not too much is too little.
IdleWithoutBand(a, use, cur) == ~Hot(a, use, cur)

Idle(a, use, cur) == ~Hot(a, use, cur) /\ UseBelow(a, use, cur, Limits[a].down)

\* Mutant: the ceiling and the floor are not applied.
TargetUnclamped(a, use, cur) ==
    IF Hot(a, use, cur) THEN cur + Limits[a].step
    ELSE IF Idle(a, use, cur) THEN Most(cur - Limits[a].step, 0)
    ELSE cur

(* The allocation the axis should have.  A target equal to cur is the      *)
(* code's "No Scaling" with a target of None: no threshold was crossed, or *)
(* clamping led back to the present value (scaling_decisions.py:92-101).   *)
Target(a, use, cur) ==
    IF Hot(a, use, cur) THEN Least(cur + Limits[a].step, Limits[a].max)
    ELSE IF Idle(a, use, cur) THEN Most(cur - Limits[a].step, Limits[a].min)
    ELSE cur

-----------------------------------------------------------------------------
(* How far an allocation lies outside its configured range. *)
OutBy(a, v) ==
    IF v < Limits[a].min THEN Limits[a].min - v
    ELSE IF v > Limits[a].max THEN v - Limits[a].max
    ELSE 0

InRange(a, v) == Limits[a].min <= v /\ v <= Limits[a].max

(* What one scaling of an axis may do: nothing outside the range gets      *)
(* farther from it, and a value inside moves by at most one step.          *)
AllowedMove(a, cur, new) ==
    /\ OutBy(a, new) <= OutBy(a, cur)
    /\ InRange(a, cur) => /\ new - cur <= Limits[a].step
                          /\ cur - new <= Limits[a].step

(* The thresholds are far enough apart for a memory demand that asks for a *)
(* step up not to ask for it back at the larger size.                      *)
WideBand ==
    Limits["ram"].down * (Limits["ram"].min + Limits["ram"].step)
        <= Limits["ram"].up * Limits["ram"].min
=============================================================================
