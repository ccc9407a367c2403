-------------------------- MODULE BatchFetch_proofs --------------------------
(***************************************************************************)
(* Proofs about BatchFetch, for any containers, limits and faults.         *)
(***************************************************************************)
EXTENDS BatchFetch, FiniteSetTheorems, TLAPS

USE FetchAssumption DEF NotOpen

Holders == {c \in Containers : task[c] \in Holding}

(* The types, the upper bound of the slots left out. *)
Shape ==
    /\ phase \in {"sleep", "batch"}
    /\ task \in [Containers -> {"absent", "queued", "done"} \cup Holding]
    /\ try \in [Containers -> 1..RetryCount]
    /\ slots \in Nat
    /\ result \in [Containers -> {"none", "config", "unknown"}]
    /\ failures \in [Containers -> Nat]
    /\ openFor \in [Containers -> {NotOpen} \cup 0..(Timeout + 1)]
    /\ budget \in 0..MaxFaults

(* Only a task that may ask again is in its backoff, and outside a batch   *)
(* no task is under way.                                                   *)
TasksInBatch ==
    /\ \A c \in Containers : task[c] = "backoff" => try[c] < RetryCount
    /\ phase = "sleep" => \A c \in Containers : task[c] \in {"absent", "done"}

FetchInv ==
    /\ Shape
    /\ TasksInBatch
    /\ BreakerConsistent
    /\ OpenMeansQuiet
    /\ ConfigMeansHealthy

(* Ageing an open breaker leaves it open. *)
LEMMA AgedType ==
    ASSUME NEW age \in {NotOpen} \cup 0..(Timeout + 1), NEW t \in Nat
    PROVE  /\ Aged(age, t) \in {NotOpen} \cup 0..(Timeout + 1)
           /\ Aged(age, t) = NotOpen <=> age = NotOpen
BY DEF Aged

(* The invariant holds at the start and every step keeps it. *)
LEMMA InitFetchInv == Init => FetchInv
BY DEF Init, FetchInv, Shape, TasksInBatch, BreakerConsistent, OpenMeansQuiet,
       ConfigMeansHealthy, Holding

LEMMA StepKeepsFetchInv ==
    ASSUME FetchInv, [Next]_vars
    PROVE  FetchInv'
<1> USE DEF FetchInv, Shape, TasksInBatch, BreakerConsistent, OpenMeansQuiet,
            ConfigMeansHealthy, Holding, Fault, breaker
<1>1. CASE Tick
    BY <1>1, AgedType DEF Tick
<1>2. CASE StartBatch
    <2>1. PICK ids \in (SUBSET Containers) \ {{}} :
            \A c \in Containers :
                LET now == Aged(openFor[c], Interval) IN
                /\ failures'[c] = IF c \in ids /\ now > Timeout THEN 0 ELSE failures[c]
                /\ openFor'[c] = IF c \in ids /\ now > Timeout THEN NotOpen ELSE now
                /\ task'[c] = IF c \notin ids THEN "absent"
                              ELSE IF now > Timeout \/ now = NotOpen THEN "queued" ELSE "done"
                /\ result'[c] \in {"unknown", "none"}
        BY <1>2 DEF StartBatch
    <2>2. \A c \in Containers :
            /\ Aged(openFor[c], Interval) \in {NotOpen} \cup 0..(Timeout + 1)
            /\ Aged(openFor[c], Interval) = NotOpen <=> openFor[c] = NotOpen
        BY AgedType
    <2>3. Shape'
        <3>1. /\ task' \in [Containers -> {"absent", "queued", "done"} \cup Holding]
              /\ result' \in [Containers -> {"none", "config", "unknown"}]
            BY <1>2 DEF StartBatch
        <3>2. failures' \in [Containers -> Nat]
            BY <1>2 DEF StartBatch
        <3>3. openFor' \in [Containers -> {NotOpen} \cup 0..(Timeout + 1)]
            BY <1>2, <2>2 DEF StartBatch
        <3> QED BY <1>2, <3>1, <3>2, <3>3 DEF StartBatch
    <2>4. BreakerConsistent'
        BY <2>1, <2>2
    <2>5. OpenMeansQuiet' /\ ConfigMeansHealthy'
        BY <2>1, <2>2
    <2>6. TasksInBatch'
        BY <1>2, <2>1 DEF StartBatch
    <2> QED BY <2>3, <2>4, <2>5, <2>6
<1>3. CASE EndBatch
    BY <1>3 DEF EndBatch
<1>4. ASSUME NEW c \in Containers, Acquire(c) PROVE FetchInv'
    BY <1>4 DEF Acquire
<1>5. ASSUME NEW c \in Containers, Ok(c) PROVE FetchInv'
    BY <1>5 DEF Ok, Finish
<1>6. ASSUME NEW c \in Containers, Fail(c) PROVE FetchInv'
    <2>1. CASE try[c] < RetryCount BY <1>6, <2>1 DEF Fail
    <2>2. CASE ~(try[c] < RetryCount) BY <1>6, <2>2 DEF Fail, Finish, RecordFailure
    <2> QED BY <2>1, <2>2
<1>7. ASSUME NEW c \in Containers, TurnedAway(c) PROVE FetchInv'
    BY <1>7 DEF TurnedAway, Finish
<1>8. ASSUME NEW c \in Containers, Garbled(c) PROVE FetchInv'
    BY <1>8 DEF Garbled, Finish
<1>9. ASSUME NEW c \in Containers, Retry(c) PROVE FetchInv'
    BY <1>9 DEF Retry
<1>10. CASE UNCHANGED vars
    BY <1>10 DEF vars
<1> QED
    BY <1>1, <1>2, <1>3, <1>4, <1>5, <1>6, <1>7, <1>8, <1>9, <1>10 DEF Next, Answer

(* The breaker is never found half-changed, and keeps calls back exactly   *)
(* while it is open, whatever the threshold and the timeouts.              *)
THEOREM BreakerSound == Spec => [](BreakerConsistent /\ OpenMeansQuiet /\ ConfigMeansHealthy)
<1>1. FetchInv => BreakerConsistent /\ OpenMeansQuiet /\ ConfigMeansHealthy
    BY DEF FetchInv
<1> QED
    BY <1>1, InitFetchInv, StepKeepsFetchInv, PTL DEF Spec

(* No request to a container whose breaker is open is under way.           *)
THEOREM OpenIsQuiet == Spec => []OpenMeansQuiet
<1> QED BY BreakerSound, PTL

(* A configuration comes from this batch's last answer, a 200, which has   *)
(* closed the breaker.                                                     *)
THEOREM ConfigIsHealthy == Spec => []ConfigMeansHealthy
<1> QED BY BreakerSound, PTL

-----------------------------------------------------------------------------
(* A set of containers is finite, and so is that of the slot holders. *)
LEMMA HoldersFinite == IsFiniteSet(Holders) /\ Cardinality(Holders) \in Nat
BY FS_Subset, FS_CardinalityType DEF Holders

(* Taking and leaving the semaphore move one container and one slot. *)
LEMMA StepConserves ==
    ASSUME FetchInv, SlotsConserved, [Next]_vars
    PROVE  SlotsConserved'
<1> USE DEF FetchInv, Shape, TasksInBatch
<1>1. slots + Cardinality(Holders) = MaxConcurrent
    BY DEF SlotsConserved, Holders
<1>2. SUFFICES slots' + Cardinality(Holders') = MaxConcurrent
    BY DEF SlotsConserved, Holders
<1>3. ASSUME slots' = slots, Holders' = Holders
      PROVE  slots' + Cardinality(Holders') = MaxConcurrent
    BY <1>1, <1>3
<1>4. ASSUME NEW c \in Containers, task[c] = "asking", task' = [task EXCEPT ![c] = "done"],
             slots' = slots + 1
      PROVE  slots' + Cardinality(Holders') = MaxConcurrent
    <2>1. c \in Holders /\ Holders' = Holders \ {c}
        BY <1>4 DEF Holders, Holding
    <2>2. Cardinality(Holders \ {c}) = Cardinality(Holders) - 1
        BY <2>1, HoldersFinite, FS_RemoveElement
    <2> QED BY <1>1, <1>4, <2>1, <2>2, HoldersFinite
<1>5. CASE Tick \/ EndBatch \/ UNCHANGED vars
    BY <1>3, <1>5 DEF Tick, EndBatch, vars, Holders
<1>6. CASE StartBatch
    <2>1. Holders = {} /\ Holders' = {}
        BY <1>6 DEF StartBatch, Holders, Holding
    <2> QED BY <1>3, <1>6, <2>1 DEF StartBatch
<1>7. ASSUME NEW c \in Containers, Acquire(c)
      PROVE  slots' + Cardinality(Holders') = MaxConcurrent
    <2>1. c \notin Holders /\ Holders' = Holders \cup {c}
        BY <1>7 DEF Acquire, Holders, Holding
    <2>2. Cardinality(Holders \cup {c}) = Cardinality(Holders) + 1
        BY <2>1, HoldersFinite, FS_AddElement
    <2> QED BY <1>1, <1>7, <2>1, <2>2, HoldersFinite DEF Acquire
<1>8. ASSUME NEW c \in Containers, Ok(c) \/ TurnedAway(c) \/ Garbled(c)
      PROVE  slots' + Cardinality(Holders') = MaxConcurrent
    BY <1>4, <1>8 DEF Ok, TurnedAway, Garbled, Finish
<1>9. ASSUME NEW c \in Containers, Fail(c)
      PROVE  slots' + Cardinality(Holders') = MaxConcurrent
    <2>1. CASE try[c] < RetryCount
        BY <1>3, <1>9, <2>1 DEF Fail, Holders, Holding
    <2>2. CASE ~(try[c] < RetryCount)
        BY <1>4, <1>9, <2>2 DEF Fail, Finish
    <2> QED BY <2>1, <2>2
<1>10. ASSUME NEW c \in Containers, Retry(c)
       PROVE  slots' + Cardinality(Holders') = MaxConcurrent
    BY <1>3, <1>10 DEF Retry, Holders, Holding
<1> QED
    BY <1>5, <1>6, <1>7, <1>8, <1>9, <1>10 DEF Next, Answer

(* No slot of the semaphore is ever lost or doubled. *)
THEOREM SlotsSound == Spec => []SlotsConserved
<1>1. Init => SlotsConserved
    <2> SUFFICES ASSUME Init PROVE SlotsConserved
        OBVIOUS
    <2>1. {c \in Containers : task[c] \in Holding} = {}
        BY DEF Init, Holding
    <2> QED BY <2>1, FS_EmptySet DEF Init, SlotsConserved
<1> QED
    BY <1>1, InitFetchInv, StepKeepsFetchInv, StepConserves, PTL DEF Spec

(* BatchFetch's state is well typed in every reachable state. *)
THEOREM TypeCorrect == Spec => []TypeOK
<1>1. FetchInv /\ SlotsConserved => TypeOK
    <2> SUFFICES ASSUME FetchInv, SlotsConserved PROVE TypeOK
        OBVIOUS
    <2>1. slots + Cardinality(Holders) = MaxConcurrent
        BY DEF SlotsConserved, Holders
    <2> QED BY <2>1, HoldersFinite DEF FetchInv, Shape, TypeOK
<1> QED
    BY <1>1, InitFetchInv, StepKeepsFetchInv, SlotsSound, PTL DEF Spec

-----------------------------------------------------------------------------
(* What a step may do to one container's breaker and call.                 *)
InFlight == {"queued"} \cup Holding

LEMMA BreakerStep ==
    ASSUME FetchInv, [Next]_vars, NEW c \in Containers
    PROVE  [BreakerOf(c)!Next]_(BreakerOf(c)!vars)
<1> USE DEF FetchInv, Shape, BreakerOf!vars, Holding
<1>0. /\ task[c] \in InFlight => openFor[c] = NotOpen /\ failures[c] < Threshold
      /\ failures[c] \in Nat /\ openFor[c] \in {NotOpen} \cup 0..(Timeout + 1)
    BY DEF BreakerConsistent, OpenMeansQuiet, InFlight
<1>1. CASE UNCHANGED <<task, failures, openFor>>
    BY <1>1
<1>2. CASE Tick
    <2>1. openFor'[c] = BreakerOf(c)!Older(1) /\ UNCHANGED <<task, failures>>
        BY <1>2 DEF Tick, Aged, BreakerOf!Older
    <2> QED BY <2>1 DEF BreakerOf!Next, BreakerOf!Pass
<1>3. CASE StartBatch
    <2> DEFINE now == Aged(openFor[c], Interval)
    <2>1. PICK ids \in (SUBSET Containers) \ {{}} :
            /\ failures'[c] = IF c \in ids /\ now > Timeout THEN 0 ELSE failures[c]
            /\ openFor'[c] = IF c \in ids /\ now > Timeout THEN NotOpen ELSE now
            /\ task'[c] = IF c \notin ids THEN "absent"
                          ELSE IF now > Timeout \/ now = NotOpen THEN "queued" ELSE "done"
        BY <1>3 DEF StartBatch
    <2>2. task[c] \in {"absent", "done"}
        BY <1>3 DEF StartBatch, TasksInBatch
    <2>3. now = BreakerOf(c)!Older(Interval) /\ (now = NotOpen <=> openFor[c] = NotOpen)
        BY <1>0, AgedType DEF Aged, BreakerOf!Older
    <2>4. NotOpen <= Timeout
        OBVIOUS
    <2> HIDE DEF now
    <2>5. CASE c \in ids /\ now > Timeout
        <3>1. BreakerOf(c)!Reset
            BY <2>1, <2>2, <2>3, <2>4, <2>5 DEF BreakerOf!Reset
        <3> QED BY <3>1 DEF BreakerOf!Next
    <2>6. CASE c \in ids /\ now = NotOpen
        <3>1. BreakerOf(c)!Begin
            BY <2>1, <2>2, <2>3, <2>4, <2>6 DEF BreakerOf!Begin
        <3> QED BY <3>1 DEF BreakerOf!Next
    <2>7. CASE c \notin ids \/ ~(now > Timeout \/ now = NotOpen)
        <3>1. BreakerOf(c)!Pass
            BY <2>1, <2>2, <2>3, <2>7 DEF BreakerOf!Pass
        <3> QED BY <3>1 DEF BreakerOf!Next
    <2> QED BY <2>5, <2>6, <2>7
<1>4. CASE EndBatch
    BY <1>1, <1>4 DEF EndBatch, breaker
<1>5. ASSUME NEW d \in Containers, d # c, Acquire(d) \/ Answer(d) \/ Retry(d)
      PROVE  UNCHANGED <<task[c], failures[c], openFor[c]>>
    BY <1>5 DEF Acquire, Answer, Ok, Fail, TurnedAway, Garbled, Retry, Finish, RecordFailure, breaker
<1>6. CASE Acquire(c) \/ Retry(c)
    BY <1>6 DEF Acquire, Retry, breaker
<1>7. CASE Ok(c)
    <2>1. BreakerOf(c)!Success
        BY <1>0, <1>7 DEF Ok, Finish, InFlight, BreakerOf!Success
    <2> QED BY <2>1 DEF BreakerOf!Next
<1>8. CASE Fail(c)
    <2>1. CASE try[c] < RetryCount
        BY <1>8, <2>1 DEF Fail, breaker
    <2>2. CASE ~(try[c] < RetryCount)
        <3>1. /\ task[c] = "asking" /\ task'[c] = "done"
              /\ failures'[c] = failures[c] + 1
              /\ openFor' = IF failures'[c] >= Threshold THEN [openFor EXCEPT ![c] = 0]
                                                         ELSE openFor
            BY <1>8, <2>2 DEF Fail, Finish, RecordFailure
        <3>2. openFor'[c] = IF failures[c] + 1 = Threshold THEN 0 ELSE openFor[c]
            BY <1>0, <3>1 DEF InFlight
        <3>3. BreakerOf(c)!Strike
            BY <3>1, <3>2 DEF BreakerOf!Strike
        <3> QED BY <3>3 DEF BreakerOf!Next
    <2> QED BY <2>1, <2>2
<1>9. CASE TurnedAway(c) \/ Garbled(c)
    <2>1. BreakerOf(c)!Void
        BY <1>9 DEF TurnedAway, Garbled, Finish, breaker, BreakerOf!Void
    <2> QED BY <2>1 DEF BreakerOf!Next
<1>10. CASE UNCHANGED vars
    BY <1>1, <1>10 DEF vars
<1>11. ASSUME NEW d \in Containers, Acquire(d) \/ Answer(d) \/ Retry(d)
       PROVE  [BreakerOf(c)!Next]_(BreakerOf(c)!vars)
    <2>1. CASE d # c
        BY <1>5, <1>11, <2>1
    <2>2. CASE d = c
        BY <1>6, <1>7, <1>8, <1>9, <1>11, <2>2 DEF Answer
    <2> QED BY <2>1, <2>2
<1> QED
    BY <1>2, <1>3, <1>4, <1>10, <1>11 DEF Next

(* Every container has a circuit breaker of its own that implements        *)
(* Breaker, whatever the other tasks do and however many attempts a fetch  *)
(* takes (lxc_autoscale_ml.py:28-66, async_api_client.py:86-169).          *)
THEOREM BreakerRefinement == Spec => OneStrikePerFetch
<1> DEFINE Each == \A c \in Containers : [BreakerOf(c)!Next]_(BreakerOf(c)!vars)
<1>1. Init => \A c \in Containers : BreakerOf(c)!Init
    BY DEF Init, BreakerOf!Init, Holding
<1>2. FetchInv /\ [Next]_vars => Each
    BY BreakerStep
<1> QED
    BY <1>1, <1>2, InitFetchInv, StepKeepsFetchInv, PTL DEF Spec, OneStrikePerFetch

-----------------------------------------------------------------------------
(* How many steps the task of c can still take.                            *)
Rank(c) ==
    CASE task[c] = "queued"  -> 2 * RetryCount
      [] task[c] = "asking"  -> 2 * (RetryCount - try[c]) + 1
      [] task[c] = "backoff" -> 2 * (RetryCount - try[c])
      [] OTHER               -> 0

(* One task gets on, no other loses ground.                                *)
Advance ==
    \E c \in Containers :
        /\ Rank(c)' < Rank(c)
        /\ \A d \in Containers \ {c} : Rank(d)' = Rank(d)

(* Within a batch only the time passes, or a task advances.                *)
TasksAdvance == [][phase = "batch" /\ phase' = "batch" /\ ~Tick => Advance]_vars

(* It is finite, and zero for those that are through.                      *)
Ranked ==
    \A c \in Containers :
        Rank(c) \in 0..(2 * RetryCount) /\ (Rank(c) = 0 <=> task[c] \in {"absent", "done"})

(* As long as a batch is not through, some task can take its next step: it *)
(* is asking, sleeps in its backoff, or waits for a slot and there is one. *)
NobodyStarves ==
    phase = "batch" =>
        \/ \A c \in Containers : task[c] \in {"absent", "done"}
        \/ \E c \in Containers : task[c] \in Holding
        \/ slots > 0 /\ \E c \in Containers : task[c] = "queued"

LEMMA RankIs ==
    ASSUME Shape, TasksInBatch, NEW c \in Containers
    PROVE  /\ Rank(c) \in 0..(2 * RetryCount)
           /\ Rank(c) = 0 <=> task[c] \in {"absent", "done"}
<1>1. RetryCount \in Nat \ {0} /\ try[c] \in 1..RetryCount
    BY DEF Shape
<1>2. CASE task[c] \in {"absent", "done"}
    BY <1>1, <1>2 DEF Rank
<1>3. CASE task[c] = "queued"
    BY <1>1, <1>3 DEF Rank
<1>4. CASE task[c] = "asking"
    BY <1>1, <1>4 DEF Rank
<1>5. CASE task[c] = "backoff"
    BY <1>1, <1>5 DEF Rank, TasksInBatch
<1> QED BY <1>2, <1>3, <1>4, <1>5 DEF Shape, Holding

LEMMA TaskStepAdvances ==
    ASSUME FetchInv, FetchInv', NEW c \in Containers, Acquire(c) \/ Answer(c) \/ Retry(c)
    PROVE  Advance
<1> USE DEF FetchInv
<1>0. /\ task \in [Containers -> {"absent", "queued", "done"} \cup Holding]
      /\ try \in [Containers -> 1..RetryCount]
    BY DEF Shape
<1>1. ASSUME NEW d \in Containers \ {c} PROVE Rank(d)' = Rank(d)
    <2>1. task'[d] = task[d] /\ try'[d] = try[d]
        BY <1>0 DEF Acquire, Answer, Ok, Fail, TurnedAway, Garbled, Retry, Finish
    <2> QED BY <2>1 DEF Rank
<1>2. Rank(c)' < Rank(c)
    <2>1. RetryCount \in Nat \ {0} /\ try[c] \in 1..RetryCount
        BY <1>0
    <2>2. CASE Acquire(c)
        <3>1. task[c] = "queued" /\ task'[c] = "asking" /\ try'[c] = try[c]
            BY <1>0, <2>2 DEF Acquire
        <3> QED BY <2>1, <3>1 DEF Rank
    <2>3. CASE Retry(c)
        <3>1. task[c] = "backoff" /\ task'[c] = "asking" /\ try'[c] = try[c] + 1
            BY <1>0, <2>3 DEF Retry
        <3> QED BY <2>1, <3>1 DEF Rank
    <2>4. CASE Answer(c)
        <3>1. task[c] = "asking" /\ try'[c] = try[c] /\ task'[c] \in {"backoff", "done"}
            BY <1>0, <2>4 DEF Answer, Ok, Fail, TurnedAway, Garbled, Finish
        <3> QED BY <2>1, <3>1 DEF Rank
    <2> QED BY <2>2, <2>3, <2>4
<1> QED BY <1>1, <1>2 DEF Advance

(* Every step of a batch that is not the clock's lowers the number of      *)
(* steps one task has left and raises nobody's, so a batch takes at most   *)
(* two steps per attempt and container (async_api_client.py:86-171).       *)
THEOREM BatchAdvances == Spec => TasksAdvance /\ []Ranked
<1>1. FetchInv /\ FetchInv' /\ [Next]_vars
        => [phase = "batch" /\ phase' = "batch" /\ ~Tick => Advance]_vars
    <2> SUFFICES ASSUME FetchInv, FetchInv', Next, phase = "batch", phase' = "batch", ~Tick
                 PROVE  Advance
        OBVIOUS
    <2>1. PICK c \in Containers : Acquire(c) \/ Answer(c) \/ Retry(c)
        BY DEF Next, StartBatch, EndBatch
    <2> QED BY <2>1, TaskStepAdvances
<1>2. FetchInv => Ranked
    BY RankIs DEF FetchInv, Ranked
<1> QED
    BY <1>1, <1>2, InitFetchInv, StepKeepsFetchInv, PTL DEF Spec, TasksAdvance

(* The semaphore never leaves all tasks of a batch waiting: when it is     *)
(* used up, somebody holds a slot and will give it back                    *)
(* (async_api_client.py:93).                                               *)
THEOREM NoStarvation == Spec => []NobodyStarves
<1>1. FetchInv /\ SlotsConserved => NobodyStarves
    <2> SUFFICES ASSUME FetchInv, SlotsConserved, Holders = {}, NEW c \in Containers,
                        task[c] \notin {"absent", "done"}
                 PROVE  slots > 0 /\ task[c] = "queued"
        BY DEF NobodyStarves, Holders
    <2>1. slots = MaxConcurrent
        <3>1. slots + Cardinality(Holders) = MaxConcurrent
            BY DEF SlotsConserved, Holders
        <3> QED BY <3>1, FS_EmptySet DEF FetchInv, Shape
    <2>2. task[c] = "queued"
        BY DEF Holders, FetchInv, Shape
    <2> QED BY <2>1, <2>2
<1> QED
    BY <1>1, InitFetchInv, StepKeepsFetchInv, SlotsSound, PTL DEF Spec
=============================================================================
