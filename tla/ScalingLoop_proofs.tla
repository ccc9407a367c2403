-------------------------- MODULE ScalingLoop_proofs --------------------------
(***************************************************************************)
(* Proofs about the scaling arithmetic (ScalingDecision), for every        *)
(* configuration that validate_scaling_config accepts, and about           *)
(* ScalingLoop, for any containers, limits, loads, retries and faults.     *)
(***************************************************************************)
EXTENDS ScalingLoop, TLAPS

LEMMA LimitTypes ==
    ASSUME NEW a \in Axes
    PROVE  /\ Limits[a].min \in Nat /\ Limits[a].max \in Nat
           /\ Limits[a].step \in Nat /\ Limits[a].step > 0
           /\ Limits[a].up \in Nat /\ Limits[a].down \in Nat
           /\ Limits[a].min <= Limits[a].max
           /\ Limits[a].down < Limits[a].up
BY LimitsAssumption DEF Valid, LimitRecord

(* Whatever the load and wherever the allocation is, inside its range or   *)
(* not, the target never lies farther out, and inside the range it is at   *)
(* most one step away and inside again.                                    *)
THEOREM TargetAllowed ==
    ASSUME NEW a \in Axes, NEW use \in Nat, NEW size \in Nat
    PROVE  /\ Target(a, use, size) \in Nat
           /\ AllowedMove(a, size, Target(a, use, size))
           /\ InRange(a, size) => InRange(a, Target(a, use, size))
<1> DEFINE t == Target(a, use, size)
<1>1. \/ t = Least(size + Limits[a].step, Limits[a].max)
      \/ t = Most(size - Limits[a].step, Limits[a].min)
      \/ t = size
    BY DEF Target
<1> HIDE DEF t
<1>2. t \in Nat /\ AllowedMove(a, size, t) /\ (InRange(a, size) => InRange(a, t))
    <2> USE LimitTypes DEF AllowedMove, OutBy, InRange
    <2>1. CASE t = Least(size + Limits[a].step, Limits[a].max)
        BY <2>1 DEF Least
    <2>2. CASE t = Most(size - Limits[a].step, Limits[a].min)
        BY <2>2 DEF Most
    <2>3. CASE t = size
        BY <2>3
    <2> QED BY <1>1, <2>1, <2>2, <2>3
<1> QED BY <1>2 DEF t

-----------------------------------------------------------------------------
(* A band wide enough at the floor is wide enough everywhere above it. *)
LEMMA WideAbove ==
    ASSUME NEW u \in Nat, NEW d \in Nat, NEW m \in Nat, NEW s \in Nat, NEW c \in Nat,
           d < u, m <= c, d * (m + s) <= u * m
    PROVE  d * (c + s) <= u * c
<1>1. PICK k \in Nat : c = m + k
    <2>1. c - m \in Nat /\ c = m + (c - m)
        OBVIOUS
    <2> QED BY <2>1
<1>2. d * k <= u * k
    <2>1. PICK e \in Nat : u = d + e
        <3>1. u - d \in Nat /\ u = d + (u - d)
            OBVIOUS
        <3> QED BY <3>1
    <2>2. u * k = d * k + e * k /\ e * k \in Nat /\ d * k \in Nat
        BY <2>1
    <2> QED BY <2>2
<1>3. d * (c + s) = d * (m + s) + d * k
    BY <1>1
<1>4. u * c = u * m + u * k
    BY <1>1
<1>5. d * (m + s) \in Nat /\ d * k \in Nat /\ u * m \in Nat /\ u * k \in Nat
    BY <1>1
<1> QED BY <1>2, <1>3, <1>4, <1>5

(* More memory cannot turn a demand that was too high into one too low. *)
LEMMA LargerNotIdle ==
    ASSUME WideBand, NEW use \in Nat, NEW size \in Nat, NEW new \in Nat,
           Limits["ram"].min <= size, size <= new, new <= size + Limits["ram"].step,
           Hot("ram", use, size)
    PROVE  ~Idle("ram", use, new)
<1> DEFINE u == Limits["ram"].up
           d == Limits["ram"].down
           s == Limits["ram"].step
<1>1. u \in Nat /\ d \in Nat /\ s \in Nat /\ Limits["ram"].min \in Nat /\ d < u
    BY LimitTypes DEF Axes
<1>2. size > 0 /\ use * 100 > u * size
    BY DEF Hot, UseAbove
<1>3. d * (size + s) <= u * size
    BY <1>1, WideAbove DEF WideBand
<1>4. d * new <= d * (size + s)
    <2>1. PICK k \in Nat : size + s = new + k
        <3>1. (size + s) - new \in Nat /\ size + s = new + ((size + s) - new)
            BY <1>1
        <3> QED BY <3>1
    <2>2. d * (new + k) = d * new + d * k /\ d * k \in Nat /\ d * new \in Nat
        BY <1>1
    <2> QED BY <2>1, <2>2
<1>5. ~(use * 100 < d * new)
    <2>1. use * 100 \in Nat /\ u * size \in Nat /\ d * new \in Nat /\ d * (size + s) \in Nat
        BY <1>1
    <2> HIDE DEF u, d, s
    <2> QED BY <1>2, <1>3, <1>4, <2>1
<1> QED BY <1>2, <1>5 DEF Idle, UseBelow

(* Scaling never creates the reason to scale back: with the thresholds far *)
(* enough apart a memory demand that stays what it is never asks for the   *)
(* opposite direction after a step, so a container does not flap.          *)
THEOREM NoReversal ==
    ASSUME WideBand, NEW use \in Nat, NEW size \in Nat, InRange("ram", size)
    PROVE  LET t == Target("ram", use, size) IN
           /\ t > size => Target("ram", use, t) >= t
           /\ t < size => Target("ram", use, t) <= t
<1> DEFINE t == Target("ram", use, size)
<1>0. "ram" \in Axes
    BY DEF Axes
<1>1. t \in Nat /\ AllowedMove("ram", size, t) /\ InRange("ram", t)
    BY <1>0, TargetAllowed
<1> HIDE DEF t
<1>2. ASSUME t > size PROVE Target("ram", use, t) >= t
    <2>1. Hot("ram", use, size)
        BY <1>0, <1>2, LimitTypes DEF t, Target, Most, InRange
    <2>2. ~Idle("ram", use, t)
        BY <1>0, <1>1, <1>2, <2>1, LimitTypes, LargerNotIdle DEF AllowedMove, InRange
    <2> QED BY <1>0, <1>1, <2>2, LimitTypes DEF Target, Least, InRange
<1>3. ASSUME t < size PROVE Target("ram", use, t) <= t
    <2>1. Idle("ram", use, size)
        BY <1>0, <1>3, LimitTypes DEF t, Target, Least, InRange
    <2>2. ~Hot("ram", use, t)
        BY <1>0, <1>1, <1>3, <2>1, LimitTypes, LargerNotIdle DEF AllowedMove, InRange
    <2> QED BY <1>0, <1>1, <2>2, LimitTypes DEF Target, Most, InRange
<1> QED BY <1>2, <1>3 DEF t

-----------------------------------------------------------------------------
USE LoopAssumption

(* A snapshot gives each of its containers a load. *)
LEMMA SnapshotLoads ==
    ASSUME NEW r \in Snapshots
    PROVE  /\ DOMAIN r \subseteq Containers
           /\ \A c \in DOMAIN r, a \in Axes : r[c].use[a] \in Nat
BY DEF Snapshots

(* Outside a cycle there is nothing left to evaluate, and no request is    *)
(* pending when one starts.                                                *)
AtRest ==
    /\ pc \in Resting \cup {"load"} => todo = {}
    /\ pc \in {"load", "fetch"} => jobs = {}

(* apply_scaling is at a container the cycle has fetched and may scale. *)
AtRequest ==
    pc \in {"send", "wait"} =>
        /\ cur.c \in todo
        /\ cur.c \in known
        /\ cur.a \in Changes(cur.c)
        /\ ~DryRun

(* A target that follows from the fetched allocation of a fetched container. *)
Proper(j) ==
    /\ j.c \in known
    /\ ~DryRun
    /\ j.to # seen[j.c][j.a]
    /\ AllowedMove(j.a, seen[j.c][j.a], j.to)
    /\ alloc[j.c][j.a] \in {seen[j.c][j.a], j.to}

JobsProper ==
    \A j \in jobs : Proper(j) /\ \A k \in jobs : k.c = j.c /\ k.a = j.a => k.to = j.to

(* The axis has not been touched in this cycle. *)
Untouched(c, a) ==
    /\ alloc[c][a] = seen[c][a]
    /\ \A j \in jobs : ~(j.c = c /\ j.a = a)

(* What the cycle has not come to yet, and what it is at. *)
TodoUntouched ==
    /\ pc = "eval" => \A c \in todo, a \in Axes : Untouched(c, a)
    /\ pc \in {"send", "wait"} =>
        /\ \A c \in todo \ {cur.c}, a \in Axes : Untouched(c, a)
        /\ cur.a = "cpu" => Untouched(cur.c, "ram")
        /\ alloc[cur.c][cur.a] \in {seen[cur.c][cur.a], Wanted(cur.c, cur.a)}
        /\ \A j \in jobs : j.c = cur.c /\ j.a = cur.a => j.to = Wanted(cur.c, cur.a)

LoopInv == TypeOK /\ AtRest /\ AtRequest /\ JobsProper /\ TodoUntouched

-----------------------------------------------------------------------------
(* The target of a container in the snapshot is a number, and allowed. *)
LEMMA WantedAllowed ==
    ASSUME TypeOK, NEW c \in DOMAIN rows, NEW a \in Axes
    PROVE  Wanted(c, a) \in Nat /\ AllowedMove(a, seen[c][a], Wanted(c, a))
<1>1. c \in Containers /\ rows[c].use[a] \in Nat
    BY SnapshotLoads DEF TypeOK
<1>2. seen[c][a] \in Nat
    BY <1>1 DEF TypeOK
<1> QED BY <1>1, <1>2, TargetAllowed DEF Wanted

(* The invariant holds at the start. *)
LEMMA InitLoopInv == Init => LoopInv
<1> SUFFICES ASSUME Init PROVE LoopInv
    OBVIOUS
<1> USE DEF Init
<1>1. TypeOK
    BY DEF TypeOK, Resting, Axes
<1>2. AtRest /\ AtRequest /\ JobsProper /\ TodoUntouched
    BY DEF AtRest, AtRequest, JobsProper, TodoUntouched, Resting
<1> QED BY <1>1, <1>2 DEF LoopInv

-----------------------------------------------------------------------------
(* How apply_scaling proceeds from one attempt to whatever comes next. *)
LEMMA Advance ==
    ASSUME LoopInv, pc \in {"send", "wait"}, NextRequest \/ RetryOrGiveUp
    PROVE  /\ todo' \subseteq todo
           /\ cur' \in [c: Containers, a: Axes, try: 1..MaxRetries]
           /\ \/ /\ pc' = "send" /\ todo' = todo /\ cur'.c = cur.c
                 /\ \/ cur'.a = cur.a
                    \/ cur.a = "cpu" /\ cur'.a = "ram" /\ "ram" \in Changes(cur.c)
              \/ pc' = "eval" /\ todo' = todo \ {cur.c} /\ cur' = cur
<1>1. cur \in [c: Containers, a: Axes, try: 1..MaxRetries] /\ MaxRetries \in Nat \ {0}
    BY DEF LoopInv, TypeOK
<1>2. CASE NextRequest /\ cur.a = "cpu" /\ "ram" \in Changes(cur.c)
    <2>1. cur' = [cur EXCEPT !.a = "ram", !.try = 1] /\ pc' = "send" /\ todo' = todo
        BY <1>2 DEF NextRequest
    <2>2. cur' = [c |-> cur.c, a |-> "ram", try |-> 1]
        BY <2>1, <1>1
    <2>3. "ram" \in Axes /\ 1 \in 1..MaxRetries /\ cur.c \in Containers
        BY <1>1 DEF Axes
    <2>4. cur' \in [c: Containers, a: Axes, try: 1..MaxRetries] /\ cur'.c = cur.c /\ cur'.a = "ram"
        BY <2>2, <2>3
    <2> QED BY <1>2, <2>1, <2>4
<1>3. CASE NextRequest /\ ~(cur.a = "cpu" /\ "ram" \in Changes(cur.c))
    BY <1>1, <1>3 DEF NextRequest
<1>4. CASE RetryOrGiveUp /\ cur.try < MaxRetries
    <2>1. cur' = [cur EXCEPT !.try = @ + 1] /\ pc' = "send" /\ todo' = todo
        BY <1>4 DEF RetryOrGiveUp
    <2>2. cur.try + 1 \in 1..MaxRetries
        BY <1>1, <1>4
    <2>3. cur' = [c |-> cur.c, a |-> cur.a, try |-> cur.try + 1]
        BY <1>1, <2>1
    <2>4. cur' \in [c: Containers, a: Axes, try: 1..MaxRetries] /\ cur'.c = cur.c /\ cur'.a = cur.a
        BY <1>1, <2>2, <2>3
    <2> QED BY <2>1, <2>4
<1>5. RetryOrGiveUp /\ ~(cur.try < MaxRetries) => NextRequest
    BY DEF RetryOrGiveUp
<1> QED BY <1>2, <1>3, <1>4, <1>5

(* What the end of a pending request does to the allocations. *)
LEMMA JobEffect ==
    ASSUME LoopInv, NEW j \in jobs, jobs' = jobs \ {j},
           alloc' = alloc \/ alloc' = [alloc EXCEPT ![j.c][j.a] = j.to],
           UNCHANGED <<file, known, seen>>
    PROVE  /\ alloc' \in [Containers -> [Axes -> Nat]]
           /\ jobs' \subseteq Job
           /\ JobsProper'
           /\ \A c \in Containers, a \in Axes : Untouched(c, a) => Untouched(c, a)'
           /\ pc \in {"send", "wait"} =>
                alloc'[cur.c][cur.a] \in {seen[cur.c][cur.a], Wanted(cur.c, cur.a)}
<1>1. /\ alloc \in [Containers -> [Axes -> Nat]] /\ jobs \subseteq Job
      /\ cur.c \in Containers /\ cur.a \in Axes
    BY DEF LoopInv, TypeOK
<1>2. j.c \in Containers /\ j.a \in Axes /\ j.to \in Nat
    BY <1>1 DEF Job
<1>3. alloc' \in [Containers -> [Axes -> Nat]]
    BY <1>1, <1>2
<1>4. \A c \in Containers, a \in Axes :
        alloc'[c][a] = alloc[c][a] \/ (c = j.c /\ a = j.a /\ alloc'[c][a] = j.to)
    BY <1>1, <1>2
<1>5. JobsProper'
    <2>1. SUFFICES ASSUME NEW i \in jobs' PROVE Proper(i)'
        BY DEF LoopInv, JobsProper
    <2>2. i \in jobs /\ i.c \in Containers /\ i.a \in Axes /\ Proper(i)
        BY <1>1 DEF Job, LoopInv, JobsProper
    <2>3. alloc'[i.c][i.a] \in {seen[i.c][i.a], i.to}
        BY <1>4, <2>2 DEF LoopInv, JobsProper, Proper
    <2> QED BY <2>2, <2>3 DEF Proper
<1>6. \A c \in Containers, a \in Axes : Untouched(c, a) => Untouched(c, a)'
    BY <1>4 DEF Untouched
<1>7. pc \in {"send", "wait"} =>
        alloc'[cur.c][cur.a] \in {seen[cur.c][cur.a], Wanted(cur.c, cur.a)}
    BY <1>1, <1>4 DEF LoopInv, TodoUntouched
<1> QED BY <1>1, <1>3, <1>5, <1>6, <1>7

(* Once an attempt is over, apply_scaling is again in order. *)
LEMMA AfterAttempt ==
    ASSUME LoopInv, pc \in {"send", "wait"}, NextRequest \/ RetryOrGiveUp,
           UNCHANGED <<file, known, seen>>, jobs' \subseteq jobs,
           \A c \in Containers, a \in Axes : Untouched(c, a) => Untouched(c, a)',
           alloc'[cur.c][cur.a] \in {seen[cur.c][cur.a], Wanted(cur.c, cur.a)}
    PROVE  AtRest' /\ AtRequest' /\ TodoUntouched'
<1>1. /\ \A c, a : Wanted(c, a)' = Wanted(c, a)
      /\ \A c : Changes(c)' = Changes(c)
      /\ seen' = seen /\ known' = known
    BY DEF file, Wanted, Changes
<1>2. /\ cur.c \in Containers /\ cur.a \in Axes /\ todo \subseteq Containers
      /\ cur.c \in todo /\ cur.c \in known /\ cur.a \in Changes(cur.c) /\ ~DryRun
      /\ \A c \in todo \ {cur.c}, a \in Axes : Untouched(c, a)
      /\ cur.a = "cpu" => Untouched(cur.c, "ram")
      /\ \A j \in jobs : j.c = cur.c /\ j.a = cur.a => j.to = Wanted(cur.c, cur.a)
    BY SnapshotLoads DEF LoopInv, TypeOK, AtRequest, TodoUntouched
<1>3. \A c \in todo \ {cur.c}, a \in Axes : Untouched(c, a)'
    BY <1>2
<1>4. CASE pc' = "send" /\ todo' = todo /\ cur'.c = cur.c /\ cur'.a = cur.a
    <2>1. AtRest' /\ AtRequest'
        BY <1>1, <1>2, <1>4 DEF AtRest, AtRequest, Resting
    <2>2. TodoUntouched'
        BY <1>1, <1>2, <1>3, <1>4 DEF TodoUntouched, Axes
    <2> QED BY <2>1, <2>2
<1>5. CASE /\ pc' = "send" /\ todo' = todo /\ cur'.c = cur.c
           /\ cur.a = "cpu" /\ cur'.a = "ram" /\ "ram" \in Changes(cur.c)
    <2>1. AtRest' /\ AtRequest'
        BY <1>1, <1>2, <1>5 DEF AtRest, AtRequest, Resting
    <2>2. Untouched(cur.c, "ram")'
        BY <1>2, <1>5 DEF Axes
    <2>3. TodoUntouched'
        BY <1>1, <1>2, <1>3, <1>5, <2>2 DEF TodoUntouched, Untouched
    <2> QED BY <2>1, <2>3
<1>6. CASE pc' = "eval" /\ todo' = todo \ {cur.c} /\ cur' = cur
    BY <1>3, <1>6 DEF AtRest, AtRequest, TodoUntouched, Resting
<1> QED BY <1>4, <1>5, <1>6, Advance

-----------------------------------------------------------------------------
(* The steps before and between the requests. *)
LEMMA QuietStep ==
    ASSUME LoopInv,
           \/ NewSnapshot \/ Wake \/ SkipCycle \/ EndCycle \/ Crash \/ Restart
           \/ \E c \in Containers : LeaveAlone(c)
           \/ UNCHANGED vars
    PROVE  LoopInv'
<1> USE DEF LoopInv
<1>1. CASE NewSnapshot
    <2>1. TypeOK'
        BY <1>1 DEF NewSnapshot, TypeOK, AtRest
    <2>2. AtRest' /\ AtRequest' /\ JobsProper' /\ TodoUntouched'
        BY <1>1 DEF NewSnapshot, AtRest, AtRequest, JobsProper, Proper, TodoUntouched, Resting
    <2> QED BY <2>1, <2>2
<1>2. CASE Wake
    <2>1. age' \in 0..(MaxAge + 1)
        BY <1>2 DEF Wake, TypeOK, Least
    <2>2. TypeOK'
        BY <1>2, <2>1 DEF Wake, TypeOK
    <2>3. AtRest' /\ AtRequest' /\ JobsProper' /\ TodoUntouched'
        BY <1>2 DEF Wake, AtRest, AtRequest, JobsProper, TodoUntouched, Resting
    <2> QED BY <2>2, <2>3
<1>3. CASE SkipCycle
    <2>1. TypeOK'
        BY <1>3 DEF SkipCycle, Fault, NoFault, file, TypeOK, Resting
    <2>2. AtRest' /\ AtRequest' /\ JobsProper' /\ TodoUntouched'
        BY <1>3 DEF SkipCycle, file, AtRest, AtRequest, JobsProper, TodoUntouched, Resting
    <2> QED BY <2>1, <2>2
<1>4. CASE EndCycle
    <2>1. TypeOK'
        BY <1>4 DEF EndCycle, file, TypeOK, Resting
    <2>2. AtRest' /\ AtRequest' /\ JobsProper' /\ TodoUntouched'
        BY <1>4 DEF EndCycle, file, AtRest, AtRequest, JobsProper, Proper, TodoUntouched, Resting
    <2> QED BY <2>1, <2>2
<1>5. CASE Crash
    <2>1. TypeOK'
        BY <1>5 DEF Crash, Fault, file, TypeOK, Resting
    <2>2. AtRest' /\ AtRequest' /\ JobsProper' /\ TodoUntouched'
        BY <1>5 DEF Crash, file, AtRest, AtRequest, JobsProper, Proper, TodoUntouched, Resting
    <2> QED BY <2>1, <2>2
<1>6. CASE Restart
    <2>1. TypeOK'
        BY <1>6 DEF Restart, file, TypeOK, Resting
    <2>2. AtRest' /\ AtRequest' /\ JobsProper' /\ TodoUntouched'
        BY <1>6 DEF Restart, file, AtRest, AtRequest, JobsProper, TodoUntouched, Resting
    <2> QED BY <2>1, <2>2
<1>7. CASE \E c \in Containers : LeaveAlone(c)
    <2>1. PICK c \in Containers : LeaveAlone(c)
        BY <1>7
    <2>2. TypeOK'
        BY <2>1 DEF LeaveAlone, Fault, NoFault, file, TypeOK
    <2>3. AtRest' /\ AtRequest' /\ JobsProper'
        BY <2>1 DEF LeaveAlone, file, AtRest, AtRequest, JobsProper, Proper, Resting
    <2>4. TodoUntouched'
        BY <2>1 DEF LeaveAlone, file, TodoUntouched, Untouched
    <2> QED BY <2>2, <2>3, <2>4
<1>8. CASE UNCHANGED vars
    <2>1. TypeOK'
        BY <1>8 DEF vars, TypeOK
    <2>2. AtRest' /\ AtRequest' /\ JobsProper'
        BY <1>8 DEF vars, AtRest, AtRequest, JobsProper, Proper, Changes, Wanted
    <2>3. TodoUntouched'
        BY <1>8 DEF vars, TodoUntouched, Untouched, Wanted
    <2> QED BY <2>1, <2>2, <2>3
<1> QED BY <1>1, <1>2, <1>3, <1>4, <1>5, <1>6, <1>7, <1>8

(* The steps that gather what a cycle needs. *)
LEMMA GatherStep ==
    ASSUME LoopInv, Load \/ Fetch
    PROVE  LoopInv'
<1> USE DEF LoopInv
<1>1. CASE Load
    <2>1. TypeOK'
        BY <1>1 DEF Load, file, TypeOK, Resting
    <2>2. AtRest' /\ AtRequest' /\ JobsProper' /\ TodoUntouched'
        BY <1>1 DEF Load, file, AtRest, AtRequest, JobsProper, TodoUntouched, Resting
    <2> QED BY <2>1, <2>2
<1>2. CASE Fetch
    <2>1. DOMAIN rows \subseteq Containers
        BY SnapshotLoads DEF TypeOK
    <2>2. known' \subseteq todo /\ jobs = {} /\ jobs' = {} /\ pc' = "eval"
        BY <1>2 DEF Fetch, AtRest
    <2>3. TypeOK'
        BY <1>2, <2>1, <2>2 DEF Fetch, Fault, NoFault, file, TypeOK, Resting
    <2>4. AtRest' /\ AtRequest' /\ JobsProper' /\ TodoUntouched'
        BY <1>2, <2>2 DEF Fetch, AtRest, AtRequest, JobsProper, TodoUntouched, Untouched, Resting
    <2> QED BY <2>3, <2>4
<1> QED BY <1>1, <1>2

-----------------------------------------------------------------------------
(* apply_scaling starts at a container the cycle has not touched. *)
LEMMA StartStep ==
    ASSUME LoopInv, NEW c \in Containers, StartApply(c)
    PROVE  LoopInv'
<1> USE DEF LoopInv
<1> DEFINE first == IF "cpu" \in Changes(c) THEN "cpu" ELSE "ram"
<1>1. /\ cur' = [c |-> c, a |-> first, try |-> 1] /\ pc = "eval" /\ pc' = "send"
      /\ c \in todo /\ c \in known /\ Changes(c) # {} /\ ~DryRun
      /\ UNCHANGED <<alloc, file, todo, known, seen, jobs, budget, uses>>
    BY DEF StartApply, Applies
<1>2. first \in Changes(c) /\ first \in Axes
    BY <1>1 DEF Changes, Axes
<1>3. \A x, a : Wanted(x, a)' = Wanted(x, a) /\ Changes(x)' = Changes(x)
    BY <1>1 DEF file, Wanted, Changes
<1>4. cur' \in [c: Containers, a: Axes, try: 1..MaxRetries]
    BY <1>1, <1>2
<1>5. TypeOK'
    BY <1>1, <1>4 DEF file, TypeOK
<1>6. AtRest' /\ AtRequest'
    BY <1>1, <1>2, <1>3 DEF AtRest, AtRequest, Resting
<1>7. JobsProper'
    BY <1>1 DEF JobsProper, Proper
<1>8. TodoUntouched'
    BY <1>1, <1>2, <1>3 DEF TodoUntouched, Untouched, Axes
<1> QED BY <1>5, <1>6, <1>7, <1>8

(* A request that is sent asks for the one target of its axis. *)
LEMMA SendStep ==
    ASSUME LoopInv, Send
    PROVE  LoopInv'
<1> USE DEF LoopInv
<1>1. /\ cur \in [c: Containers, a: Axes, try: 1..MaxRetries] /\ jobs \subseteq Job
      /\ cur.c \in todo /\ cur.c \in known /\ cur.a \in Changes(cur.c) /\ ~DryRun
      /\ cur.c \in DOMAIN rows
      /\ alloc[cur.c][cur.a] \in {seen[cur.c][cur.a], Wanted(cur.c, cur.a)}
      /\ \A j \in jobs : j.c = cur.c /\ j.a = cur.a => j.to = Wanted(cur.c, cur.a)
    BY DEF Send, TypeOK, AtRequest, TodoUntouched
<1>2. /\ Wanted(cur.c, cur.a) \in Nat
      /\ AllowedMove(cur.a, seen[cur.c][cur.a], Wanted(cur.c, cur.a))
      /\ Wanted(cur.c, cur.a) # seen[cur.c][cur.a]
    BY <1>1, WantedAllowed DEF Changes
<1>3. /\ jobs' = jobs \cup {Request} /\ pc = "send" /\ pc' = "wait"
      /\ UNCHANGED <<alloc, file, todo, known, seen, cur, budget, uses>>
    BY DEF Send
<1>4. Request \in Job
    BY <1>1, <1>2 DEF Request, Job
<1>5. TypeOK'
    BY <1>3, <1>4 DEF file, TypeOK
<1>6. \A x, a : Wanted(x, a)' = Wanted(x, a) /\ Changes(x)' = Changes(x)
    BY <1>3 DEF file, Wanted, Changes
<1>7. AtRest' /\ AtRequest'
    BY <1>1, <1>3, <1>6 DEF AtRest, AtRequest, Resting
<1>8. Request.c = cur.c /\ Request.a = cur.a /\ Request.to = Wanted(cur.c, cur.a)
    BY DEF Request
<1>9. JobsProper'
    <2>1. \A j \in jobs' : Proper(j)'
        BY <1>1, <1>2, <1>3, <1>8 DEF JobsProper, Proper
    <2>2. \A j, k \in jobs' : k.c = j.c /\ k.a = j.a => k.to = j.to
        BY <1>1, <1>3, <1>8 DEF JobsProper
    <2> QED BY <2>1, <2>2 DEF JobsProper
<1>10. TodoUntouched'
    <2>1. \A x, a : ~(x = cur.c /\ a = cur.a) /\ Untouched(x, a) => Untouched(x, a)'
        BY <1>3, <1>8 DEF Untouched
    <2>2. \A j \in jobs' : j.c = cur.c /\ j.a = cur.a => j.to = Wanted(cur.c, cur.a)
        BY <1>1, <1>3, <1>8
    <2> QED BY <1>1, <1>3, <1>6, <2>1, <2>2 DEF TodoUntouched
<1> QED BY <1>5, <1>7, <1>9, <1>10

(* An attempt that ends without an answer from `pct`. *)
LEMMA LostStep ==
    ASSUME LoopInv, Refused \/ TimeOut
    PROVE  LoopInv'
<1> USE DEF LoopInv
<1>1. /\ pc \in {"send", "wait"}
      /\ NextRequest \/ RetryOrGiveUp
      /\ UNCHANGED <<alloc, file, known, seen, jobs, uses>>
      /\ budget' = budget - 1 /\ budget > 0
    BY DEF Refused, TimeOut, Fault
<1>2. /\ \A c \in Containers, a \in Axes : Untouched(c, a) => Untouched(c, a)'
      /\ alloc'[cur.c][cur.a] \in {seen[cur.c][cur.a], Wanted(cur.c, cur.a)}
    BY <1>1 DEF Untouched, TodoUntouched
<1>3. AtRest' /\ AtRequest' /\ TodoUntouched'
    BY <1>1, <1>2, AfterAttempt
<1>4. TypeOK'
    BY <1>1, Advance DEF file, TypeOK
<1>5. JobsProper'
    BY <1>1 DEF JobsProper, Proper
<1> QED BY <1>3, <1>4, <1>5

(* A request that ends, with its client waiting for it or long gone. *)
LEMMA AnswerStep ==
    ASSUME LoopInv, NEW j \in jobs, Apply(j) \/ FailJob(j)
    PROVE  LoopInv'
<1> USE DEF LoopInv
<1>1. /\ jobs' = jobs \ {j} /\ UNCHANGED <<file, known, seen, uses>>
      /\ alloc' = alloc \/ alloc' = [alloc EXCEPT ![j.c][j.a] = j.to]
      /\ budget' = budget \/ (budget > 0 /\ budget' = budget - 1)
      /\ (pc = "wait" /\ NextRequest) \/ UNCHANGED <<pc, cur, todo>>
    BY DEF Apply, FailJob, Fault
<1>2. /\ alloc' \in [Containers -> [Axes -> Nat]]
      /\ jobs' \subseteq Job
      /\ JobsProper'
      /\ \A c \in Containers, a \in Axes : Untouched(c, a) => Untouched(c, a)'
      /\ pc \in {"send", "wait"} =>
            alloc'[cur.c][cur.a] \in {seen[cur.c][cur.a], Wanted(cur.c, cur.a)}
    BY <1>1, JobEffect
<1>3. CASE pc = "wait" /\ NextRequest
    <2>1. AtRest' /\ AtRequest' /\ TodoUntouched'
        BY <1>1, <1>2, <1>3, AfterAttempt
    <2>2. TypeOK'
        BY <1>1, <1>2, <1>3, Advance DEF file, TypeOK
    <2> QED BY <1>2, <2>1, <2>2
<1>4. CASE UNCHANGED <<pc, cur, todo>>
    <2>1. \A x, a : Wanted(x, a)' = Wanted(x, a) /\ Changes(x)' = Changes(x)
        BY <1>1 DEF file, Wanted, Changes
    <2>2. TypeOK'
        BY <1>1, <1>2, <1>4 DEF file, TypeOK
    <2>3. AtRest' /\ AtRequest'
        BY <1>1, <1>4, <2>1 DEF AtRest, AtRequest
    <2>4. todo \subseteq Containers
        BY SnapshotLoads DEF TypeOK
    <2>5. TodoUntouched'
        BY <1>1, <1>2, <1>4, <2>1, <2>4 DEF TodoUntouched, AtRequest, Axes
    <2> QED BY <1>2, <2>2, <2>3, <2>5
<1> QED BY <1>1, <1>3, <1>4

-----------------------------------------------------------------------------
(* LoopInv is inductive. *)
LEMMA StepLoopInv == LoopInv /\ [Next]_vars => LoopInv'
BY QuietStep, GatherStep, StartStep, SendStep, LostStep, AnswerStep DEF Next, Cycle, Api

(* It holds in every state. *)
LEMMA LoopInvariant == Spec => []LoopInv
BY InitLoopInv, StepLoopInv, PTL DEF Spec

(* Every variable keeps its type. *)
THEOREM TypeCorrect == Spec => []TypeOK
<1>1. LoopInv => TypeOK
    BY DEF LoopInv
<1> QED BY <1>1, LoopInvariant, PTL

(* Whatever is retried, late or lost: one target per axis and cycle. *)
THEOREM OneTarget == Spec => []OneTargetPerCycle
<1>1. LoopInv => OneTargetPerCycle
    BY DEF LoopInv, JobsProper, Proper, OneTargetPerCycle
<1> QED BY <1>1, LoopInvariant, PTL

-----------------------------------------------------------------------------
(* What a step may do to the allocations: nothing, or the one move a       *)
(* request on its way asks for, from where the cycle found the axis.       *)
LEMMA StepMoves ==
    ASSUME LoopInv, [Next]_vars
    PROVE  \/ alloc' = alloc
           \/ \E j \in jobs :
                /\ j.c \in known /\ j.c \in Containers \ Ignored /\ ~DryRun
                /\ j.a \in Axes /\ j.to \in Nat
                /\ alloc' = [alloc EXCEPT ![j.c][j.a] = j.to]
                /\ alloc[j.c][j.a] = seen[j.c][j.a] /\ j.to # seen[j.c][j.a]
                /\ AllowedMove(j.a, alloc[j.c][j.a], j.to)
                /\ seen' = seen
<1>1. CASE \E j \in jobs : Apply(j) \/ FailJob(j)
    <2>1. PICK j \in jobs : Apply(j) \/ FailJob(j)
        BY <1>1
    <2>2. /\ alloc' = alloc \/ alloc' = [alloc EXCEPT ![j.c][j.a] = j.to]
          /\ seen' = seen
        BY <2>1 DEF Apply, FailJob
    <2>3. /\ j \in Job /\ known \subseteq Containers \ Ignored
          /\ alloc \in [Containers -> [Axes -> Nat]]
        BY DEF LoopInv, TypeOK
    <2>4. j.c \in Containers /\ j.a \in Axes /\ j.to \in Nat
        BY <2>3 DEF Job
    <2>5. Proper(j)
        BY DEF LoopInv, JobsProper
    <2>6. alloc[j.c][j.a] = j.to => [alloc EXCEPT ![j.c][j.a] = j.to] = alloc
        BY <2>3, <2>4
    <2>7. CASE alloc[j.c][j.a] = j.to
        BY <2>2, <2>6, <2>7
    <2>8. CASE alloc[j.c][j.a] # j.to
        BY <2>2, <2>3, <2>4, <2>5, <2>8 DEF Proper
    <2> QED BY <2>7, <2>8
<1>2. CASE ~(\E j \in jobs : Apply(j) \/ FailJob(j))
    BY <1>2 DEF Next, Cycle, Api, vars, NewSnapshot, Wake, SkipCycle, Load, Fetch, EndCycle,
                LeaveAlone, StartApply, Send, Refused, TimeOut, Crash, Restart
<1> QED BY <1>1, <1>2

(* Staying put is an allowed move. *)
LEMMA StayingIsAllowed ==
    ASSUME NEW a \in Axes, NEW v \in Nat
    PROVE  AllowedMove(a, v, v)
BY LimitTypes DEF AllowedMove, OutBy, InRange

(* No step moves an allocation farther out of its range, nor one inside it *)
(* by more than a step.                                                    *)
THEOREM NeverFartherAway == Spec => NeverAway
<1>1. LoopInv /\ [Next]_vars =>
        [\A c \in Containers, a \in Axes : AllowedMove(a, alloc[c][a], alloc'[c][a])]_vars
    <2> SUFFICES ASSUME LoopInv, [Next]_vars, NEW c \in Containers, NEW a \in Axes
                 PROVE  AllowedMove(a, alloc[c][a], alloc'[c][a])
        OBVIOUS
    <2>1. alloc \in [Containers -> [Axes -> Nat]]
        BY DEF LoopInv, TypeOK
    <2>2. alloc[c][a] \in Nat
        BY <2>1
    <2>3. CASE alloc'[c][a] = alloc[c][a]
        BY <2>2, <2>3, StayingIsAllowed
    <2>4. CASE alloc'[c][a] # alloc[c][a]
        <3>1. PICK j \in jobs : /\ j.c \in Containers /\ j.a \in Axes
                                /\ alloc' = [alloc EXCEPT ![j.c][j.a] = j.to]
                                /\ AllowedMove(j.a, alloc[j.c][j.a], j.to)
            BY <2>4, StepMoves
        <3>2. c = j.c /\ a = j.a /\ alloc'[c][a] = j.to
            BY <2>1, <2>4, <3>1
        <3> QED BY <3>1, <3>2
    <2> QED BY <2>3, <2>4
<1> QED BY <1>1, LoopInvariant, PTL DEF Spec, NeverAway

(* Only containers the cycle fetched, outside ignore_lxc and dry_run, are  *)
(* ever resized.                                                           *)
THEOREM InformedMoves == Spec => MovesAreInformed
<1>1. LoopInv /\ [Next]_vars =>
        [\A c \in Containers :
            alloc'[c] # alloc[c] => c \in known /\ c \notin Ignored /\ ~DryRun]_vars
    <2> SUFFICES ASSUME LoopInv, [Next]_vars, NEW c \in Containers, alloc'[c] # alloc[c]
                 PROVE  c \in known /\ c \notin Ignored /\ ~DryRun
        OBVIOUS
    <2>1. alloc \in [Containers -> [Axes -> Nat]]
        BY DEF LoopInv, TypeOK
    <2>2. PICK j \in jobs : /\ j.c \in known /\ j.c \in Containers \ Ignored /\ ~DryRun
                            /\ alloc' = [alloc EXCEPT ![j.c][j.a] = j.to]
        BY StepMoves
    <2>3. c = j.c
        BY <2>1, <2>2
    <2> QED BY <2>2, <2>3
<1> QED BY <1>1, LoopInvariant, PTL DEF Spec, MovesAreInformed

-----------------------------------------------------------------------------
(* The abstract specification's decision operators are these. *)
LEMMA SameDecision ==
    /\ Promise!Axes = Axes
    /\ \A a, x, y : Promise!AllowedMove(a, x, y) <=> AllowedMove(a, x, y)
    /\ \A a, x : Promise!OutBy(a, x) = OutBy(a, x)
BY DEF Promise!Axes, Axes, Promise!AllowedMove, AllowedMove, Promise!OutBy, OutBy,
       Promise!InRange, InRange

(* An allowed move ends no higher than IncrementalScaling looks. *)
LEMMA MoveIsBounded ==
    ASSUME NEW a \in Axes, NEW v \in Nat, NEW new \in Nat, AllowedMove(a, v, new)
    PROVE  new \in 0..(Limits[a].max + OutBy(a, v))
BY LimitTypes DEF AllowedMove, OutBy

(* A request that takes effect is the axis's one move of its round. *)
LEMMA MoveRefines ==
    ASSUME LoopInv, NEW j \in jobs,
           j.c \in Containers \ Ignored, j.a \in Axes, j.to \in Nat,
           alloc' = [alloc EXCEPT ![j.c][j.a] = j.to],
           alloc[j.c][j.a] = seen[j.c][j.a], j.to # seen[j.c][j.a],
           AllowedMove(j.a, alloc[j.c][j.a], j.to), seen' = seen
    PROVE  Promise!Next
<1>1. alloc \in [Containers -> [Axes -> Nat]] /\ alloc[j.c][j.a] \in Nat
    BY DEF LoopInv, TypeOK
<1>2. j.to \in 0..Promise!Highest(j.c, j.a)
    BY <1>1, MoveIsBounded, SameDecision DEF Promise!Highest
<1>3. \A c \in Containers, a \in Axes :
        alloc'[c][a] = IF c = j.c /\ a = j.a THEN j.to ELSE alloc[c][a]
    BY <1>1
<1>4. Moved' = Moved \cup {<<j.c, j.a>>}
    <2>1. ASSUME NEW m \in Containers \X Axes
          PROVE  m \in Moved' <=> m \in Moved \/ m = <<j.c, j.a>>
        BY <1>3 DEF Moved
    <2>2. Moved \subseteq Containers \X Axes /\ Moved' \subseteq Containers \X Axes
        BY DEF Moved
    <2> QED BY <2>1, <2>2
<1>5. <<j.c, j.a>> \notin Moved
    BY DEF Moved
<1>6. Promise!Move(j.c, j.a, j.to)
    BY <1>4, <1>5, SameDecision DEF Promise!Move
<1> QED BY <1>2, <1>6, SameDecision DEF Promise!Next

(* The loop implements IncrementalScaling. *)
THEOREM Refinement == Spec => KeepsPromise
<1>1. Init => Promise!Init
    BY DEF Init, Moved, Promise!Init
<1>2. LoopInv /\ [Next]_vars => [Promise!Next]_(Promise!vars)
    <2> SUFFICES ASSUME LoopInv, [Next]_vars
                 PROVE  Promise!Next \/ UNCHANGED <<alloc, Moved>>
        BY DEF Promise!vars
    <2>1. CASE alloc' = alloc /\ seen' = seen
        BY <2>1 DEF Moved
    <2>2. CASE alloc' = alloc /\ seen' # seen
        <3>1. seen' = alloc
            BY <2>2 DEF Next, Cycle, Api, vars, NewSnapshot, Wake, SkipCycle, Load, Fetch,
                        EndCycle, LeaveAlone, StartApply, Send, Refused, TimeOut, Crash,
                        Restart, Apply, FailJob
        <3>2. Moved' = {}
            BY <2>2, <3>1 DEF Moved
        <3> QED BY <2>2, <3>2 DEF Promise!Next, Promise!NewRound
    <2>3. CASE alloc' # alloc
        BY <2>3, StepMoves, MoveRefines
    <2> QED BY <2>1, <2>2, <2>3
<1> QED BY <1>1, <1>2, LoopInvariant, PTL DEF Spec, KeepsPromise, Promise!Spec

-----------------------------------------------------------------------------
(* Cycles scaled on the snapshot, beyond the first and beyond one for each *)
(* fault, in units of time.                                                *)
Spent == (uses - 1 - (MaxFaults - budget)) * Interval

(* Such a cycle takes an interval out of the snapshot's life; when the     *)
(* next one may load the snapshot, the one before has been paid for too.   *)
Paid ==
    /\ Spent <= MaxAge
    /\ Spent <= age
    /\ pc \in {"load", "down"} /\ age <= MaxAge => Spent + Interval <= age

(* How the product moves with its factor. *)
LEMMA OneMore ==
    ASSUME NEW x \in Int, NEW i \in Nat
    PROVE  /\ (x + 1) * i = x * i + i
           /\ (x - 1) * i = x * i - i
           /\ (0 - 1) * i = 0 - i
           /\ x <= -1 => x * i + i <= 0
<1>1. (x + 1) * i = x * i + i /\ (x - 1) * i = x * i - i /\ (0 - 1) * i = 0 - i
    BY SMT
<1>2. ASSUME x <= -1 PROVE x * i + i <= 0
    <2>1. (x + 1) * i = x * i + i
        BY SMT
    <2>2. \A d, e \in Nat : d * e \in Nat
        BY SMT
    <2>3. 0 - (x + 1) \in Nat /\ (0 - (x + 1)) * i = 0 - (x + 1) * i
        BY <1>2, SMT
    <2>4. (x + 1) * i \in Int /\ x * i \in Int
        BY SMT
    <2> QED BY <2>1, <2>2, <2>3, <2>4
<1> QED BY <1>1, <1>2

(* A product with a natural number grows with its factor. *)
LEMMA ProductMonotone ==
    ASSUME NEW x \in Int, NEW y \in Int, NEW i \in Nat, x <= y
    PROVE  x * i <= y * i
<1>1. y * i = x * i + (y - x) * i
    BY SMT
<1>2. y - x \in Nat
    OBVIOUS
<1>3. \A d \in Nat : d * i \in Nat
    BY SMT
<1>4. (y - x) * i \in Nat /\ x * i \in Int
    BY <1>2, <1>3
<1> QED BY <1>1, <1>4

(* What fits m times is no more than any q that m stays below. *)
LEMMA FitsBelow ==
    ASSUME NEW x \in Int, NEW q \in Int, NEW i \in Nat, NEW m \in Nat,
           x * i <= m, m < (q + 1) * i
    PROVE  x <= q
<1>1. (q + 1) * i \in Int /\ x * i \in Int /\ q + 1 \in Int
    BY SMT
<1>2. q + 1 <= x => (q + 1) * i <= x * i
    BY <1>1, ProductMonotone
<1> QED BY <1>1, <1>2

(* Nothing is spent at the start. *)
LEMMA InitPaid == Init => Paid
<1> SUFFICES ASSUME Init PROVE Paid
    OBVIOUS
<1>1. uses = 0 /\ budget = MaxFaults /\ age = 0 /\ Interval \in Nat /\ MaxFaults \in Nat
    BY DEF Init
<1>2. Spent = 0 - Interval
    BY <1>1, OneMore DEF Spent
<1> QED BY <1>1, <1>2 DEF Paid

(* Every step keeps the account. *)
LEMMA StepPaid ==
    ASSUME LoopInv, Paid, [Next]_vars
    PROVE  Paid'
<1> DEFINE extra == uses - 1 - (MaxFaults - budget)
<1>1. /\ uses \in Nat /\ budget \in 0..MaxFaults /\ age \in 0..(MaxAge + 1)
      /\ Interval \in Nat \ {0} /\ MaxAge \in Nat /\ MaxFaults \in Nat
      /\ Spent = extra * Interval /\ extra \in Int /\ Spent \in Int
    BY DEF LoopInv, TypeOK, Spent
<1>2. /\ (extra + 1) * Interval = Spent + Interval
      /\ (extra - 1) * Interval = Spent - Interval
    BY <1>1, OneMore
<1>3. CASE NewSnapshot
    <2>1. age' = 0 /\ uses' = 0 /\ budget' = budget
        BY <1>3 DEF NewSnapshot
    <2>2. 0 - 1 - (MaxFaults - budget) <= -1 /\ 0 - 1 - (MaxFaults - budget) \in Int
        BY <1>1
    <2>3. Spent' + Interval <= 0 /\ Spent' \in Int
        BY <1>1, <2>1, <2>2, OneMore DEF Spent
    <2>4. Interval \in Nat /\ MaxAge \in Nat
        BY <1>1
    <2>5. \A s \in Int, i, m \in Nat : s + i <= 0 => s <= 0 /\ s <= m
        OBVIOUS
    <2>6. Spent' <= 0
        BY <2>3, <2>4, <2>5
    <2>7. Spent' <= MaxAge
        BY <2>3, <2>4, <2>5
    <2> QED BY <2>1, <2>3, <2>6, <2>7 DEF Paid
<1>4. CASE Wake
    <2>1. /\ pc = "asleep" /\ age' = Least(age + Interval, MaxAge + 1) /\ pc' = "load"
          /\ uses' = uses /\ budget' = budget
        BY <1>4 DEF Wake
    <2>2. Spent' = Spent
        BY <2>1 DEF Spent
    <2> QED BY <1>1, <2>1, <2>2 DEF Paid, Least
<1>5. CASE Load
    <2>1. /\ pc = "load" /\ age <= MaxAge /\ pc' \in {"asleep", "fetch"}
          /\ age' = age /\ uses' = uses + 1 /\ budget' = budget
        BY <1>1, <1>5 DEF Load, Stale, file
    <2>2. uses' - 1 - (MaxFaults - budget') = extra + 1
        BY <1>1, <2>1
    <2>3. Spent' = Spent + Interval
        BY <1>2, <2>2 DEF Spent
    <2> QED BY <1>1, <2>1, <2>3 DEF Paid
<1>6. CASE ~(NewSnapshot \/ Wake \/ Load)
    <2>1. /\ age' = age /\ uses' = uses
          /\ budget' = budget \/ budget' = budget - 1
          /\ pc' \in {"load", "down"} =>
                pc' = pc \/ budget' = budget - 1 \/ pc = "down"
        BY <1>1, <1>6 DEF Next, Cycle, Api, vars, file, Fault, NoFault, SkipCycle, Fetch,
                EndCycle, LeaveAlone, StartApply, Send, Refused, TimeOut, Crash, Restart,
                Apply, FailJob, RetryOrGiveUp, NextRequest
    <2>2. CASE budget' = budget
        <3>1. Spent' = Spent
            BY <2>1, <2>2 DEF Spent
        <3>2. pc' \in {"load", "down"} => pc \in {"load", "down"}
            BY <1>1, <2>1, <2>2
        <3> QED BY <1>1, <2>1, <3>1, <3>2 DEF Paid
    <2>3. CASE budget' = budget - 1
        <3>1. uses' - 1 - (MaxFaults - budget') = extra - 1
            BY <1>1, <2>1, <2>3
        <3>2. Spent' = Spent - Interval
            BY <1>2, <3>1 DEF Spent
        <3> QED BY <1>1, <2>1, <3>2 DEF Paid
    <2> QED BY <2>1, <2>2, <2>3
<1> QED BY <1>3, <1>4, <1>5, <1>6

(* One snapshot is scaled on at most MaxAge / Interval + 1 times, and once *)
(* more for every crash.                                                   *)
THEOREM FrozenFileIsHarmless == Spec => []NoRatchet
<1>1. ASSUME LoopInv, Paid PROVE NoRatchet
    <2> DEFINE extra == uses - 1 - (MaxFaults - budget)
    <2>1. /\ extra \in Int /\ extra * Interval <= MaxAge
          /\ Interval \in Nat \ {0} /\ MaxAge \in Nat
          /\ uses \in Nat /\ budget \in Nat /\ MaxFaults \in Nat
        BY <1>1 DEF LoopInv, TypeOK, Paid, Spent
    <2>2. extra <= MaxAge \div Interval
        <3> HIDE DEF extra
        <3> DEFINE q == MaxAge \div Interval
        <3>1. q \in Int /\ MaxAge < (q + 1) * Interval
            BY <2>1, SMTT(30)
        <3> HIDE DEF q
        <3>2. extra <= q
            BY <2>1, <3>1, FitsBelow
        <3> QED BY <3>2 DEF q
    <2> QED BY <2>1, <2>2 DEF NoRatchet
<1>2. Spec => []Paid
    BY InitPaid, StepPaid, LoopInvariant, PTL DEF Spec
<1> QED BY <1>1, <1>2, LoopInvariant, PTL

-----------------------------------------------------------------------------
(* What is on its way while a cycle runs is what the cycle wants.          *)
JobsWanted ==
    pc \notin Resting => \A j \in jobs : j.c \in DOMAIN rows /\ j.to = Wanted(j.c, j.a)

(* Every step keeps it: a cycle starts with nothing on its way, and what   *)
(* it wants does not change before it ends.                                *)
LEMMA StepWanted ==
    ASSUME LoopInv, JobsWanted, [Next]_vars
    PROVE  JobsWanted'
<1> SUFFICES ASSUME pc' \notin Resting, NEW j \in jobs'
             PROVE  j.c \in DOMAIN rows' /\ j.to = Wanted(j.c, j.a)'
    BY DEF JobsWanted
<1>1. CASE NewSnapshot \/ Wake \/ SkipCycle \/ Load \/ Fetch \/ EndCycle \/ Crash \/ Restart
    <2>1. jobs' = {}
        BY <1>1 DEF LoopInv, AtRest, NewSnapshot, Wake, SkipCycle, Load, Fetch, EndCycle, Crash,
                    Restart, Resting
    <2> QED BY <2>1
<1>2. CASE Send
    <2>1. /\ pc = "send" /\ jobs' = jobs \cup {Request} /\ rows' = rows /\ seen' = seen
          /\ cur.c \in DOMAIN rows
        BY <1>2 DEF Send, file, LoopInv, AtRequest, TypeOK
    <2>2. Request.c = cur.c /\ Request.a = cur.a /\ Request.to = Wanted(cur.c, cur.a)
        BY DEF Request
    <2>3. j.c \in DOMAIN rows /\ j.to = Wanted(j.c, j.a)
        BY <2>1, <2>2 DEF JobsWanted, Resting
    <2> QED BY <2>1, <2>3 DEF Wanted
<1>3. CASE ~(\/ NewSnapshot \/ Wake \/ SkipCycle \/ Load \/ Fetch \/ EndCycle \/ Crash
             \/ Restart \/ Send)
    <2>1. jobs' \subseteq jobs /\ rows' = rows /\ seen' = seen /\ pc \notin Resting
        BY <1>3 DEF Next, Cycle, Api, vars, file, LeaveAlone, StartApply, Refused, TimeOut, Apply,
                    FailJob, Resting
    <2> QED BY <2>1 DEF JobsWanted, Wanted
<1> QED BY <1>1, <1>2, <1>3

(* A decision reaches its container as it was taken, however late: between *)
(* the fetch and the move the axis stayed where the fetch found it, and    *)
(* the load is the cycle's (lxc_autoscale_ml.py:127-301,                   *)
(* scaling_decisions.py:109-194).                                          *)
THEOREM Decided == Spec => MovesAreDecided
<1>1. Spec => []JobsWanted
    <2>1. Init => JobsWanted
        BY DEF Init, JobsWanted
    <2> QED BY <2>1, StepWanted, LoopInvariant, PTL DEF Spec
<1>2. LoopInv /\ JobsWanted /\ [Next]_vars =>
        [pc \notin Resting =>
          \A c \in Containers, a \in Axes : alloc'[c][a] # alloc[c][a] =>
              c \in DOMAIN rows /\ alloc'[c][a] = Target(a, rows[c].use[a], alloc[c][a])]_vars
    <2> SUFFICES ASSUME LoopInv, JobsWanted, [Next]_vars, pc \notin Resting,
                        NEW c \in Containers, NEW a \in Axes, alloc'[c][a] # alloc[c][a]
                 PROVE  c \in DOMAIN rows /\ alloc'[c][a] = Target(a, rows[c].use[a], alloc[c][a])
        OBVIOUS
    <2>1. alloc \in [Containers -> [Axes -> Nat]]
        BY DEF LoopInv, TypeOK
    <2>2. PICK j \in jobs : /\ j.c \in Containers /\ j.a \in Axes
                            /\ alloc' = [alloc EXCEPT ![j.c][j.a] = j.to]
                            /\ alloc[j.c][j.a] = seen[j.c][j.a]
        BY StepMoves
    <2>3. c = j.c /\ a = j.a /\ alloc'[c][a] = j.to
        BY <2>1, <2>2
    <2>4. c \in DOMAIN rows /\ j.to = Wanted(c, a)
        BY <2>3 DEF JobsWanted
    <2> QED BY <2>2, <2>3, <2>4 DEF Wanted
<1> QED BY <1>1, <1>2, LoopInvariant, PTL DEF Spec, MovesAreDecided

(* Nobody is starved by a neighbour's or its own late requests: while a    *)
(* cycle runs, an axis that its load presses at its present size does not  *)
(* shrink, unless it lies above the ceiling.                               *)
HotNeverShrinks ==
    [][pc \notin Resting =>
          \A c \in DOMAIN rows, a \in Axes :
              Hot(a, rows[c].use[a], alloc[c][a]) /\ alloc[c][a] <= Limits[a].max
                  => alloc'[c][a] >= alloc[c][a]]_vars

(* The rule for a load above the threshold: scaling_decisions.py:54-86.    *)
THEOREM HotIsKept == Spec => HotNeverShrinks
<1>1. LoopInv /\ [pc \notin Resting =>
          \A c \in Containers, a \in Axes : alloc'[c][a] # alloc[c][a] =>
              c \in DOMAIN rows /\ alloc'[c][a] = Target(a, rows[c].use[a], alloc[c][a])]_vars
        => [pc \notin Resting =>
              \A c \in DOMAIN rows, a \in Axes :
                  Hot(a, rows[c].use[a], alloc[c][a]) /\ alloc[c][a] <= Limits[a].max
                      => alloc'[c][a] >= alloc[c][a]]_vars
    <2> SUFFICES ASSUME LoopInv, NEW c \in DOMAIN rows, NEW a \in Axes,
                        Hot(a, rows[c].use[a], alloc[c][a]), alloc[c][a] <= Limits[a].max,
                        \/ alloc'[c][a] = alloc[c][a]
                        \/ alloc'[c][a] = Target(a, rows[c].use[a], alloc[c][a])
                 PROVE  alloc'[c][a] >= alloc[c][a]
        BY SnapshotLoads DEF LoopInv, TypeOK
    <2>1. c \in Containers
        BY SnapshotLoads DEF LoopInv, TypeOK
    <2>2. alloc[c][a] \in Nat
        BY <2>1 DEF LoopInv, TypeOK
    <2> QED BY <2>2, LimitTypes DEF Target, Least
<1> QED BY <1>1, LoopInvariant, Decided, PTL DEF MovesAreDecided, HotNeverShrinks

-----------------------------------------------------------------------------
(* The CPU load is a percentage already: its rule does not reverse either. *)
LEMMA NoReversalAnywhere ==
    ASSUME WideBand, NEW a \in Axes, NEW use \in Nat, NEW size \in Nat, InRange(a, size)
    PROVE  LET t == Target(a, use, size) IN
           /\ t > size => Target(a, use, t) >= t
           /\ t < size => Target(a, use, t) <= t
<1>1. CASE a = "ram"
    BY <1>1, NoReversal
<1>2. CASE a = "cpu"
    <2> DEFINE t == Target("cpu", use, size)
    <2>1. t \in Nat /\ InRange("cpu", t)
        BY <1>2, TargetAllowed
    <2>2. (Hot("cpu", use, t) <=> Hot("cpu", use, size)) /\ (Idle("cpu", use, t) <=> Idle("cpu", use, size))
        BY DEF Hot, Idle, UseAbove, UseBelow
    <2>3. CASE Hot("cpu", use, size)
        <3>1. Target("cpu", use, t) = Least(t + Limits["cpu"].step, Limits["cpu"].max)
            BY <2>2, <2>3 DEF Target
        <3>2. t = Least(size + Limits["cpu"].step, Limits["cpu"].max)
            BY <2>3 DEF Target
        <3> HIDE DEF t
        <3> QED BY <1>2, <2>1, <3>1, <3>2, LimitTypes DEF Least, InRange, t
    <2>4. CASE Idle("cpu", use, size)
        <3>1. Target("cpu", use, t) = Most(t - Limits["cpu"].step, Limits["cpu"].min)
            BY <2>2, <2>4 DEF Target, Idle
        <3>2. t = Most(size - Limits["cpu"].step, Limits["cpu"].min)
            BY <2>4 DEF Target, Idle
        <3> HIDE DEF t
        <3> QED BY <1>2, <2>1, <3>1, <3>2, LimitTypes DEF Most, InRange, t
    <2>5. CASE ~Hot("cpu", use, size) /\ ~Idle("cpu", use, size)
        BY <1>2, <2>5 DEF Target
    <2> QED BY <2>3, <2>4, <2>5
<1> QED BY <1>1, <1>2 DEF Axes

(* What its load asks for where the axis is now. *)
Asked(c, a) == Target(a, rows[c].use[a], alloc[c][a])

(* Under one snapshot an axis within its range does not turn round: once   *)
(* nothing asks it to shrink nothing will, and once nothing asks it to     *)
(* grow nothing will, wherever the moves of the cycle take it.             *)
DirectionKept ==
    [][pc \notin Resting /\ rows' = rows =>
          \A c \in DOMAIN rows, a \in Axes : InRange(a, alloc[c][a]) =>
              /\ Asked(c, a) >= alloc[c][a] => Asked(c, a)' >= alloc'[c][a]
              /\ Asked(c, a) <= alloc[c][a] => Asked(c, a)' <= alloc'[c][a]]_vars

(* No flapping (scaling_decisions.py:54-101), if the memory thresholds are *)
(* far enough apart: with the bounded range this leaves an axis only       *)
(* finitely many moves under a demand that does not change.                *)
THEOREM NoTurningRound == WideBand => (Spec => DirectionKept)
<1> SUFFICES ASSUME WideBand PROVE Spec => DirectionKept
    OBVIOUS
<1> DEFINE D == pc \notin Resting =>
                  \A c \in Containers, a \in Axes : alloc'[c][a] # alloc[c][a] =>
                      c \in DOMAIN rows /\ alloc'[c][a] = Target(a, rows[c].use[a], alloc[c][a])
<1>1. LoopInv /\ [D]_vars =>
        [pc \notin Resting /\ rows' = rows =>
          \A c \in DOMAIN rows, a \in Axes : InRange(a, alloc[c][a]) =>
              /\ Asked(c, a) >= alloc[c][a] => Asked(c, a)' >= alloc'[c][a]
              /\ Asked(c, a) <= alloc[c][a] => Asked(c, a)' <= alloc'[c][a]]_vars
    <2> SUFFICES ASSUME LoopInv, D, pc \notin Resting, rows' = rows,
                        NEW c \in DOMAIN rows, NEW a \in Axes, InRange(a, alloc[c][a])
                 PROVE  /\ Asked(c, a) >= alloc[c][a] => Asked(c, a)' >= alloc'[c][a]
                        /\ Asked(c, a) <= alloc[c][a] => Asked(c, a)' <= alloc'[c][a]
        OBVIOUS
    <2>1. c \in Containers /\ rows[c].use[a] \in Nat
        BY SnapshotLoads DEF LoopInv, TypeOK
    <2>2. alloc[c][a] \in Nat
        BY <2>1 DEF LoopInv, TypeOK
    <2>3. Asked(c, a)' = Target(a, rows[c].use[a], alloc'[c][a])
        BY DEF Asked
    <2>4. alloc'[c][a] = alloc[c][a] \/ alloc'[c][a] = Asked(c, a)
        BY <2>1 DEF Asked
    <2>5. Asked(c, a) \in Nat
        BY <2>1, <2>2, TargetAllowed DEF Asked
    <2>6. /\ Asked(c, a) > alloc[c][a] => Target(a, rows[c].use[a], Asked(c, a)) >= Asked(c, a)
          /\ Asked(c, a) < alloc[c][a] => Target(a, rows[c].use[a], Asked(c, a)) <= Asked(c, a)
        BY <2>1, <2>2, NoReversalAnywhere DEF Asked
    <2>7. CASE alloc'[c][a] = alloc[c][a]
        BY <2>3, <2>7 DEF Asked
    <2>8. CASE alloc'[c][a] = Asked(c, a) /\ alloc'[c][a] # alloc[c][a]
        <3>1. CASE Asked(c, a) > alloc[c][a]
            BY <2>2, <2>3, <2>5, <2>6, <2>8, <3>1
        <3>2. CASE Asked(c, a) < alloc[c][a]
            BY <2>2, <2>3, <2>5, <2>6, <2>8, <3>2
        <3>3. Asked(c, a) # alloc[c][a]
            BY <2>8
        <3>4. Asked(c, a) > alloc[c][a] \/ Asked(c, a) < alloc[c][a]
            BY <2>2, <2>5, <3>3
        <3> QED BY <3>1, <3>2, <3>4
    <2> QED BY <2>4, <2>7, <2>8
<1> QED BY <1>1, LoopInvariant, Decided, PTL DEF MovesAreDecided, DirectionKept

-----------------------------------------------------------------------------
(* How far a cycle is: before the load, before the fetch, or past it.      *)
Phase(where) ==
    CASE where \in Resting -> 0
      [] where = "load"    -> 3
      [] where = "fetch"   -> 2
      [] OTHER             -> 1

(* The most steps apply_scaling still has at the container it is at: two   *)
(* for each attempt left, and all attempts of the RAM request while it is  *)
(* at the CPU one.                                                         *)
Left(where, at) ==
    IF where = "eval" THEN 4 * MaxRetries + 1
    ELSE 2 * (MaxRetries - at.try) + (IF where = "send" THEN 2 ELSE 1)
            + (IF at.a = "cpu" THEN 2 * MaxRetries ELSE 0)

(* The cycle is nearer to its end: in a later phase, with fewer containers *)
(* to evaluate, or farther with the one it is at.                          *)
Nearer ==
    \/ Phase(pc') < Phase(pc)
    \/ /\ Phase(pc') = 1 /\ Phase(pc) = 1
       /\ \/ todo' \subseteq todo /\ todo' # todo
          \/ todo' = todo /\ Left(pc', cur') < Left(pc, cur)

(* Every step of a running cycle brings it nearer to its end, whatever the *)
(* API answers or does not; what the API and the monitor do meanwhile      *)
(* leaves it where it is or brings it nearer too.                          *)
CycleAdvances ==
    [][pc \notin Resting => (Cycle => Nearer) /\ (UNCHANGED <<pc, todo, cur>> \/ Nearer)]_vars

(* What follows an attempt is nearer than the attempt.                     *)
LEMMA AttemptAdvances ==
    ASSUME LoopInv, pc \in {"send", "wait"}, NextRequest \/ RetryOrGiveUp
    PROVE  Nearer
<1>0. /\ cur \in [c: Containers, a: Axes, try: 1..MaxRetries] /\ MaxRetries \in Nat \ {0}
      /\ cur.try \in 1..MaxRetries /\ cur.a \in Axes /\ cur.c \in todo
      /\ Phase(pc) = 1 /\ Phase("send") = 1 /\ Phase("eval") = 1
    BY DEF LoopInv, TypeOK, AtRequest, Phase, Resting
<1>1. CASE NextRequest /\ cur.a = "cpu" /\ "ram" \in Changes(cur.c)
    <2>1. cur' = [cur EXCEPT !.a = "ram", !.try = 1] /\ pc' = "send" /\ todo' = todo
        BY <1>1 DEF NextRequest
    <2>2. cur' = [c |-> cur.c, a |-> "ram", try |-> 1]
        BY <1>0, <2>1
    <2>3. cur'.a = "ram" /\ cur'.try = 1
        BY <2>2
    <2>4. Left("send", cur') = 2 * (MaxRetries - 1) + 2
        BY <1>0, <2>3 DEF Left
    <2>5. Left(pc, cur) = 2 * (MaxRetries - cur.try) + (IF pc = "send" THEN 2 ELSE 1) + 2 * MaxRetries
        BY <1>0, <1>1 DEF Left
    <2>6. Left("send", cur') < Left(pc, cur)
        BY <1>0, <2>4, <2>5
    <2> QED BY <1>0, <2>1, <2>6 DEF Nearer
<1>2. CASE NextRequest /\ ~(cur.a = "cpu" /\ "ram" \in Changes(cur.c))
    <2>1. todo' = todo \ {cur.c} /\ pc' = "eval"
        BY <1>2 DEF NextRequest
    <2>2. todo' \subseteq todo /\ todo' # todo
        BY <1>0, <2>1
    <2> QED BY <1>0, <2>1, <2>2 DEF Nearer
<1>3. CASE RetryOrGiveUp /\ cur.try < MaxRetries
    <2>1. cur' = [cur EXCEPT !.try = @ + 1] /\ pc' = "send" /\ todo' = todo
        BY <1>3 DEF RetryOrGiveUp
    <2>2. cur'.a = cur.a /\ cur'.try = cur.try + 1
        BY <1>0, <2>1
    <2>3. Left("send", cur') < Left(pc, cur)
        BY <1>0, <2>2 DEF Left
    <2> QED BY <1>0, <2>1, <2>3 DEF Nearer
<1>4. RetryOrGiveUp /\ ~(cur.try < MaxRetries) => NextRequest
    BY DEF RetryOrGiveUp
<1> QED BY <1>1, <1>2, <1>3, <1>4

(* A cycle comes to its end whatever fails in it: with n containers, after *)
(* at most n times two requests of MaxRetries attempts                     *)
(* (lxc_autoscale_ml.py:127-230, scaling_decisions.py:137-172).            *)
THEOREM CycleBounded == Spec => CycleAdvances
<1>1. LoopInv /\ [Next]_vars =>
        [pc \notin Resting => (Cycle => Nearer) /\ (UNCHANGED <<pc, todo, cur>> \/ Nearer)]_vars
    <2> SUFFICES ASSUME LoopInv, Next, pc \notin Resting
                 PROVE  (Cycle => Nearer) /\ (UNCHANGED <<pc, todo, cur>> \/ Nearer)
        OBVIOUS
    <2>0. MaxRetries \in Nat \ {0}
        OBVIOUS
    <2>1. ASSUME SkipCycle \/ Load \/ Fetch \/ EndCycle \/ Crash PROVE Nearer
        <3>1. Phase(pc') < Phase(pc)
            BY <2>1 DEF SkipCycle, Load, Fetch, EndCycle, Crash, Phase, Resting, LoopInv, TypeOK
        <3> QED BY <3>1 DEF Nearer
    <2>2. ASSUME NEW c \in Containers, LeaveAlone(c) PROVE Nearer
        <3>1. todo' \subseteq todo /\ todo' # todo /\ pc = "eval" /\ pc' = "eval"
            BY <2>2 DEF LeaveAlone
        <3> QED BY <3>1 DEF Nearer, Phase, Resting
    <2>3. ASSUME NEW c \in Containers, StartApply(c) PROVE Nearer
        <3>1. /\ todo' = todo /\ pc = "eval" /\ pc' = "send" /\ cur'.try = 1
            BY <2>3 DEF StartApply
        <3>2. Left("send", cur') < Left("eval", cur)
            BY <2>0, <3>1 DEF Left
        <3> QED BY <3>1, <3>2 DEF Nearer, Phase, Resting
    <2>4. ASSUME Send PROVE Nearer
        <3>1. /\ todo' = todo /\ cur' = cur /\ pc = "send" /\ pc' = "wait"
              /\ cur.try \in 1..MaxRetries
            BY <2>4 DEF Send, LoopInv, TypeOK
        <3>2. Left("wait", cur) < Left("send", cur)
            BY <2>0, <3>1 DEF Left
        <3> QED BY <3>1, <3>2 DEF Nearer, Phase, Resting
    <2>5. ASSUME Refused \/ TimeOut PROVE Nearer
        BY <2>5, AttemptAdvances DEF Refused, TimeOut
    <2>6. ASSUME Api PROVE UNCHANGED <<pc, todo, cur>> \/ Nearer
        <3>1. (pc = "wait" /\ NextRequest) \/ UNCHANGED <<pc, todo, cur>>
            BY <2>6 DEF Api, Apply, FailJob
        <3> QED BY <3>1, AttemptAdvances
    <2>7. ASSUME NewSnapshot PROVE UNCHANGED <<pc, todo, cur>>
        BY <2>7 DEF NewSnapshot
    <2>8. ~Wake /\ ~Restart
        BY DEF Wake, Restart, Resting
    <2>9. Cycle => Nearer
        BY <2>1, <2>2, <2>3, <2>4, <2>5, <2>8 DEF Cycle
    <2>10. UNCHANGED <<pc, todo, cur>> \/ Nearer
        BY <2>6, <2>7, <2>9 DEF Next
    <2> QED BY <2>9, <2>10
<1> QED BY <1>1, LoopInvariant, PTL DEF Spec, CycleAdvances
=============================================================================
