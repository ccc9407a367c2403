-------------------------------- MODULE Breaker --------------------------------
(***************************************************************************)
(* What the circuit breaker promises of one container, with nothing of     *)
(* attempts, backoffs, slots and other containers: it counts "consecutive  *)
(* failures before the circuit opens" and keeps calls back as "long as it  *)
(* stays open" (docs/reference/configuration.md:418-419).  A call is one   *)
(* fetch with all its attempts, and earns at most one strike.              *)
(***************************************************************************)
EXTENDS Integers

CONSTANTS
    Closed,     \* no opening to be aged
    Threshold,  \* failure_threshold
    Timeout,    \* timeout_seconds, in ticks
    Gap         \* ticks that pass before the breaker is asked again

VARIABLES
    strikes,    \* failures since the last success
    age,        \* ticks since the circuit opened, or Closed
    call        \* "none", or "on" while a fetch is under way

vars == <<strikes, age, call>>

Init == strikes = 0 /\ age = Closed /\ call = "none"

Older(t) ==
    IF age = Closed THEN Closed ELSE IF age + t <= Timeout THEN age + t ELSE Timeout + 1

Pass == \E t \in {1, Gap} : age' = Older(t) /\ UNCHANGED <<strikes, call>>

(* The circuit is closed, and the call goes ahead. *)
Begin ==
    /\ call = "none"
    /\ age = Closed
    /\ call' = "on"
    /\ UNCHANGED <<strikes, age>>

(* It was open for longer than the timeout: it is closed and forgets. *)
Reset ==
    /\ call = "none"
    /\ age # Closed
    /\ Older(Gap) > Timeout
    /\ strikes' = 0
    /\ age' = Closed
    /\ call' = "on"

Success ==
    /\ call = "on"
    /\ strikes' = 0
    /\ call' = "none"
    /\ UNCHANGED age

(* The last strike opens the circuit. *)
Strike ==
    /\ call = "on"
    /\ strikes' = strikes + 1
    /\ age' = IF strikes + 1 = Threshold THEN 0 ELSE age
    /\ call' = "none"

(* The call ends with nothing recorded. *)
Void == call = "on" /\ call' = "none" /\ UNCHANGED <<strikes, age>>

Next == Pass \/ Begin \/ Reset \/ Success \/ Strike \/ Void

Spec == Init /\ [][Next]_vars
================================================================================
