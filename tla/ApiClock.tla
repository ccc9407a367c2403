------------------------------- MODULE ApiClock -------------------------------
(***************************************************************************)
(* What the routes of the API share: the threads of its one worker         *)
(* (gunicorn_config.py) and the time they read.  time.time and             *)
(* time.monotonic are one clock here; a clock that is set back is not      *)
(* modelled.                                                               *)
(***************************************************************************)
EXTENDS Integers

CONSTANTS
    Threads, \* gunicorn.threads of the one worker
    Wait,    \* longest time from reading the clock to having the lock
    MaxTime  \* bound: the clock

ASSUME ClockAssumption == Wait \in Nat /\ MaxTime \in Nat

VARIABLE now
===============================================================================
