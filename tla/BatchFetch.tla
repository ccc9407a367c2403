------------------------------ MODULE BatchFetch ------------------------------
(***************************************************************************)
(* The batch fetch of model/async_api_client.py together with the circuit  *)
(* breaker of model/lxc_autoscale_ml.py, which outlives the batches.       *)
(*                                                                         *)
(* One batch per cycle.  asyncio.gather starts a task per container; each  *)
(* asks its breaker first, and since no task awaits anything before that,  *)
(* all are asked when the batch starts.  A task then takes a slot of the   *)
(* semaphore, which it keeps while it backs off between attempts.          *)
(*                                                                         *)
(* Time is relative: openFor is how long ago a breaker opened, in ticks,   *)
(* NotOpen when it is closed, and nothing tells apart ages above Timeout.  *)
(* A cycle lasts Interval ticks and as many more as the work takes (Tick). *)
(***************************************************************************)
EXTENDS Integers, FiniteSets

CONSTANTS
    Containers,     \* the containers a batch may ask for
    MaxConcurrent,  \* api.max_concurrent
    RetryCount,     \* retry_logic.max_retries
    Threshold,      \* circuit_breaker.failure_threshold
    Timeout,        \* circuit_breaker.timeout_seconds, in ticks
    Interval,       \* interval_seconds, in ticks
    MaxFaults       \* bound: answers other than a usable 200

ASSUME FetchAssumption ==
    /\ MaxConcurrent \in Nat \ {0}
    /\ RetryCount \in Nat \ {0}
    /\ Threshold \in Nat \ {0}
    /\ Timeout \in Nat
    /\ Interval \in Nat \ {0}
    /\ MaxFaults \in Nat
    /\ IsFiniteSet(Containers)

VARIABLES
    phase,     \* "sleep" or "batch"
    task,      \* the task of each container
    try,       \* the attempt each task is in
    slots,     \* the semaphore's value
    result,    \* what all_configs holds for each container
    failures,  \* CircuitBreaker.failures
    openFor,   \* age of CircuitBreaker.opened_at
    budget     \* faults left

vars == <<phase, task, try, slots, result, failures, openFor, budget>>

breaker == <<failures, openFor>>

NotOpen == -1

Holding == {"asking", "backoff"}

Fault == budget > 0 /\ budget' = budget - 1

\* Mutant: consulting an open breaker opens it anew.
AgedFromNow(age, t) == IF age = NotOpen THEN NotOpen ELSE 0

(* The age of an open breaker after t more ticks; ages above Timeout are one. *)
Aged(age, t) ==
    IF age = NotOpen THEN NotOpen
    ELSE IF age + t <= Timeout THEN age + t ELSE Timeout + 1

Init ==
    /\ phase = "sleep"
    /\ task = [c \in Containers |-> "absent"]
    /\ try = [c \in Containers |-> 1]
    /\ slots = MaxConcurrent
    /\ result = [c \in Containers |-> "none"]
    /\ failures = [c \in Containers |-> 0]
    /\ openFor = [c \in Containers |-> NotOpen]
    /\ budget = MaxFaults

-----------------------------------------------------------------------------
(* The cycle's own work takes time too. *)
Tick ==
    /\ openFor' = [c \in Containers |-> Aged(openFor[c], 1)]
    /\ UNCHANGED <<phase, task, try, slots, result, failures, budget>>

(* The interval has passed; every task of the batch consults its breaker,  *)
(* and is_open resets one whose timeout has passed.                        *)
StartBatch ==
    /\ phase = "sleep"
    /\ phase' = "batch"
    /\ \E ids \in (SUBSET Containers) \ {{}} :
        LET now     == [c \in Containers |-> Aged(openFor[c], Interval)]
            expired == {c \in ids : now[c] > Timeout}
            blocked == {c \in ids \ expired : now[c] # NotOpen}
        IN  /\ failures' = [c \in Containers |-> IF c \in expired THEN 0 ELSE failures[c]]
            /\ openFor' = [c \in Containers |-> IF c \in expired THEN NotOpen ELSE now[c]]
            /\ task' = [c \in Containers |-> IF c \notin ids THEN "absent"
                                             ELSE IF c \in blocked THEN "done"
                                             ELSE "queued"]
            /\ result' = [c \in Containers |-> IF c \in blocked THEN "unknown" ELSE "none"]
    /\ try' = [c \in Containers |-> 1]
    /\ UNCHANGED <<slots, budget>>

(* async with self.semaphore. *)
Acquire(c) ==
    /\ task[c] = "queued"
    /\ slots > 0
    /\ slots' = slots - 1
    /\ task' = [task EXCEPT ![c] = "asking"]
    /\ UNCHANGED <<phase, try, result, breaker, budget>>

(* The task returns r, or raises; either way it leaves the semaphore. *)
Finish(c, r) ==
    /\ task' = [task EXCEPT ![c] = "done"]
    /\ result' = [result EXCEPT ![c] = r]
    /\ slots' = slots + 1
    /\ UNCHANGED <<phase, try>>

\* Mutant: the success is not recorded.
OkUnrecorded(c) ==
    /\ task[c] = "asking"
    /\ Finish(c, "config")
    /\ UNCHANGED <<breaker, budget>>

(* HTTP 200. *)
Ok(c) ==
    /\ task[c] = "asking"
    /\ Finish(c, "config")
    /\ failures' = [failures EXCEPT ![c] = 0]
    /\ openFor' = [openFor EXCEPT ![c] = NotOpen]
    /\ UNCHANGED budget

\* Mutant: opens one failure late.
RecordFailureLate(c) ==
    /\ failures' = [failures EXCEPT ![c] = @ + 1]
    /\ openFor' = IF failures'[c] > Threshold THEN [openFor EXCEPT ![c] = 0] ELSE openFor

(* record_failure. *)
RecordFailure(c) ==
    /\ failures' = [failures EXCEPT ![c] = @ + 1]
    /\ openFor' = IF failures'[c] >= Threshold THEN [openFor EXCEPT ![c] = 0] ELSE openFor

\* Mutant: every failed attempt is recorded, not every failed fetch.
FailRecorded(c) ==
    /\ task[c] = "asking"
    /\ Fault
    /\ RecordFailure(c)
    /\ IF try[c] < RetryCount
       THEN /\ task' = [task EXCEPT ![c] = "backoff"]
            /\ UNCHANGED <<phase, try, slots, result>>
       ELSE Finish(c, "unknown")

(* A 5xx, a timeout or a network error: retry after a backoff, or record. *)
Fail(c) ==
    /\ task[c] = "asking"
    /\ Fault
    /\ IF try[c] < RetryCount
       THEN /\ task' = [task EXCEPT ![c] = "backoff"]
            /\ UNCHANGED <<phase, try, slots, result, breaker>>
       ELSE Finish(c, "unknown") /\ RecordFailure(c)

(* Any other status: no retry, nothing recorded. *)
TurnedAway(c) ==
    /\ task[c] = "asking"
    /\ Fault
    /\ Finish(c, "unknown")
    /\ UNCHANGED breaker

\* Mutant: the exception leaves the slot taken.
GarbledKeepsSlot(c) ==
    /\ task[c] = "asking"
    /\ Fault
    /\ task' = [task EXCEPT ![c] = "done"]
    /\ UNCHANGED <<phase, try, slots, result, breaker>>

(* A 200 whose body does not decode: the exception reaches gather, and the *)
(* container is missing from the result.                                   *)
Garbled(c) ==
    /\ task[c] = "asking"
    /\ Fault
    /\ Finish(c, "none")
    /\ UNCHANGED breaker

(* asyncio.sleep of the backoff ends. *)
Retry(c) ==
    /\ task[c] = "backoff"
    /\ task' = [task EXCEPT ![c] = "asking"]
    /\ try' = [try EXCEPT ![c] = @ + 1]
    /\ UNCHANGED <<phase, slots, result, breaker, budget>>

(* gather has them all; the rest of the cycle follows, then the sleep. *)
EndBatch ==
    /\ phase = "batch"
    /\ \A c \in Containers : task[c] \in {"absent", "done"}
    /\ phase' = "sleep"
    /\ UNCHANGED <<task, try, slots, result, breaker, budget>>

Answer(c) == Ok(c) \/ Fail(c) \/ TurnedAway(c) \/ Garbled(c)

Next ==
    \/ Tick \/ StartBatch \/ EndBatch
    \/ \E c \in Containers : Acquire(c) \/ Answer(c) \/ Retry(c)

Spec == Init /\ [][Next]_vars

(* The model's loop goes on, asyncio runs every ready task, and a request  *)
(* is answered or times out (aiohttp.ClientTimeout).                       *)
FairSpec ==
    /\ Spec
    /\ WF_vars(StartBatch) /\ WF_vars(EndBatch)
    /\ \A c \in Containers :
        WF_vars(Acquire(c)) /\ WF_vars(Answer(c)) /\ WF_vars(Retry(c))

-----------------------------------------------------------------------------
(* Types. *)
TypeOK ==
    /\ phase \in {"sleep", "batch"}
    /\ task \in [Containers -> {"absent", "queued", "done"} \cup Holding]
    /\ try \in [Containers -> 1..RetryCount]
    /\ slots \in 0..MaxConcurrent
    /\ result \in [Containers -> {"none", "config", "unknown"}]
    /\ failures \in [Containers -> Nat]
    /\ openFor \in [Containers -> {NotOpen} \cup 0..(Timeout + 1)]
    /\ budget \in 0..MaxFaults

(* The breaker's two fields agree, although the check and the record lie   *)
(* on either side of the awaits of a whole fetch: it is open exactly when  *)
(* the threshold is reached, and never counts beyond it.                   *)
BreakerConsistent ==
    \A c \in Containers :
        /\ failures[c] <= Threshold
        /\ openFor[c] # NotOpen <=> failures[c] = Threshold

(* An open breaker keeps its container's calls back: while one is open no  *)
(* task of that container waits for a slot, holds one or is to retry.      *)
OpenMeansQuiet ==
    \A c \in Containers :
        openFor[c] # NotOpen => task[c] \in {"absent", "done"}

(* No exit path of a task, return or exception, loses or doubles a slot.   *)
SlotsConserved ==
    slots + Cardinality({c \in Containers : task[c] \in Holding}) = MaxConcurrent

(* A configuration is used only if this batch's last word on it was a 200, *)
(* which also closed its breaker.                                          *)
ConfigMeansHealthy ==
    \A c \in Containers :
        result[c] = "config" => failures[c] = 0 /\ openFor[c] = NotOpen /\ task[c] = "done"

(* The refinement mapping: a call is under way from the moment the breaker *)
(* lets it pass until the task is through.                                 *)
BreakerOf(c) == INSTANCE Breaker WITH
    Closed  <- NotOpen,
    Gap     <- Interval,
    strikes <- failures[c],
    age     <- openFor[c],
    call    <- IF task[c] \in {"queued"} \cup Holding THEN "on" ELSE "none"

(* Each container has a circuit breaker that does what it should: however  *)
(* many attempts a fetch takes it counts once, nothing but the container's *)
(* own fetches touch it, no fetch begins or goes on while it is open.      *)
OneStrikePerFetch ==
    /\ \A c \in Containers : BreakerOf(c)!Init
    /\ [][\A c \in Containers : [BreakerOf(c)!Next]_(BreakerOf(c)!vars)]_vars

(* Every batch ends: no task waits for a slot for ever. *)
BatchEnds == phase = "batch" ~> phase = "sleep"

(* Once the API answers again, a container that keeps being asked for is   *)
(* fetched again and again, whatever its breaker has been through.         *)
Recovers ==
    \A c \in Containers :
        []<>(task[c] # "absent") => []<>(result[c] = "config")
=============================================================================
