----------------------------- MODULE ScalingLoop -----------------------------
(***************************************************************************)
(* The closed loop: model/lxc_autoscale_ml.py (main, run_cycle,            *)
(* evaluate_container), model/scaling_decisions.py (apply_scaling) and the *)
(* API's two scaling routes, which run `pct set`.                          *)
(*                                                                         *)
(* The model process wakes, loads the metrics file, fetches the live       *)
(* allocation of each container, and walks the containers one by one; for  *)
(* each it may send a CPU request and then a RAM request, retrying.  The   *)
(* API answers from its own threads: a request the client gave up on keeps *)
(* running and may be applied later.                                       *)
(*                                                                         *)
(* Abstractions.  Preprocessing and the IsolationForest are reduced to     *)
(* what the loop sees of them: a confidence per container, and failures.   *)
(* The monitor's file matters only when it is loaded, so it changes only   *)
(* while no cycle runs.  Everything that goes wrong (a failed fetch, a     *)
(* refused, failed or timed-out request, a crash) is charged to `budget`.  *)
(***************************************************************************)
EXTENDS ScalingDecision, FiniteSets

CONSTANTS
    Containers,  \* running containers on the node
    Ignored,     \* ignore_lxc
    Poison,      \* containers whose evaluation always raises
    DryRun,      \* scaling.dry_run
    MaxRetries,  \* retry_logic.max_retries
    Interval,    \* interval_seconds, in ticks
    MaxAge,      \* max_metrics_age_seconds, in ticks
    Stamps,      \* the timestamp kinds the metrics file may hold
    Loads,       \* what a snapshot may hold of a container: [use, confidence]
    MinConfidence,  \* scaling.min_confidence
    InitAlloc,   \* the allocations the containers may start with
    MaxFaults    \* bound: how many faults a behaviour has

ASSUME LoopAssumption ==
    /\ Ignored \subseteq Containers
    /\ Poison \subseteq Containers
    /\ DryRun \in BOOLEAN
    /\ MaxRetries \in Nat \ {0}
    /\ Interval \in Nat \ {0}
    /\ MaxAge \in Nat
    /\ Stamps \subseteq {"none", "naive", "aware"}
    /\ Loads \subseteq [use: [Axes -> Nat], confidence: 0..100]
    /\ MinConfidence \in 0..100
    /\ InitAlloc \subseteq [Containers -> [Axes -> Nat]]
    /\ MaxFaults \in Nat

VARIABLES
    alloc,   \* the containers' real allocation, as `pct` knows it
    rows,    \* newest snapshot: the containers in it and their loads
    kind,    \* how that file's timestamps parse ("none": nothing usable)
    age,     \* ticks since that snapshot was taken
    pc,      \* where the model process is
    todo,    \* containers the present cycle still has to evaluate
    known,   \* containers whose allocation the present cycle obtained
    seen,    \* the allocations fetched by the latest fetch
    cur,     \* container, axis and attempt apply_scaling is at
    jobs,    \* requests the API has accepted and not finished
    budget,  \* faults left
    uses     \* history: cycles that scaled on the present snapshot

vars == <<alloc, rows, kind, age, pc, todo, known, seen, cur, jobs, budget, uses>>

file == <<rows, kind, age>>

Job == [c: Containers, a: Axes, to: Nat, try: 1..MaxRetries]

Resting == {"asleep", "down"}

Snapshots == UNION {[S -> Loads] : S \in (SUBSET Containers) \ {{}}}

-----------------------------------------------------------------------------
Fault == budget > 0 /\ budget' = budget - 1

NoFault == UNCHANGED budget

\* Mutant: a step from wherever the container is when the request is sent.
WantedFromLive(c, a) == Target(a, rows[c].use[a], alloc[c][a])

(* What the present snapshot asks for, from the fetched allocation. *)
Wanted(c, a) == Target(a, rows[c].use[a], seen[c][a])

Changes(c) == {a \in Axes : Wanted(c, a) # seen[c][a]}

\* Mutant: an unknown allocation is no reason to stop.
AppliesUninformed(c) ==
    /\ c \notin Poison
    /\ Changes(c) # {}
    /\ rows[c].confidence >= MinConfidence
    /\ ~DryRun

(* evaluate_container reaches apply_scaling. *)
Applies(c) ==
    /\ c \in known
    /\ c \notin Poison
    /\ Changes(c) # {}
    /\ rows[c].confidence >= MinConfidence
    /\ ~DryRun

Request == [c |-> cur.c, a |-> cur.a, to |-> Wanted(cur.c, cur.a), try |-> cur.try]

Init ==
    /\ alloc \in InitAlloc
    /\ rows \in Snapshots
    /\ kind \in Stamps
    /\ age = 0
    /\ pc = "load"
    /\ todo = {} /\ known = {}
    /\ seen = alloc
    /\ cur \in [c: Containers, a: {"cpu"}, try: {1}]
    /\ jobs = {}
    /\ budget = MaxFaults
    /\ uses = 0

-----------------------------------------------------------------------------
(* The monitor replaces the metrics file: a new newest snapshot. *)
NewSnapshot ==
    /\ pc \in Resting \cup {"load"}
    /\ rows' \in Snapshots
    /\ kind' \in Stamps
    /\ age' = 0
    /\ uses' = 0
    /\ UNCHANGED <<alloc, pc, todo, known, seen, cur, jobs, budget>>

\* Mutant: the interval is shorter than a late request.
WakeEarly ==
    /\ pc = "asleep"
    /\ age' = Least(age + Interval, MaxAge + 1)
    /\ pc' = "load"
    /\ UNCHANGED <<alloc, rows, kind, todo, known, seen, cur, jobs, budget, uses>>

(* time.sleep(interval) ends.  The API kills a `pct` after lxc.timeout     *)
(* (10s as shipped), so by then no accepted request is still running.      *)
Wake ==
    /\ pc = "asleep"
    /\ jobs = {}
    /\ age' = Least(age + Interval, MaxAge + 1)
    /\ pc' = "load"
    /\ UNCHANGED <<alloc, rows, kind, todo, known, seen, cur, jobs, budget, uses>>

\* Mutant: any file is fresh.
NeverStale == FALSE

(* metrics_are_stale, for a file it can compare with the clock. *)
Stale == age > MaxAge

(* The cycle ends before the fetch: no usable file, timestamps the clock   *)
(* cannot be subtracted from (metrics_are_stale raises, main logs it), a   *)
(* stale file, or a model that could not be trained.                       *)
SkipCycle ==
    /\ pc = "load"
    /\ \/ (kind # "naive" \/ Stale) /\ NoFault
       \/ kind = "naive" /\ ~Stale /\ Fault
    /\ pc' = "asleep"
    /\ known' = {}
    /\ UNCHANGED <<alloc, file, todo, seen, cur, jobs, uses>>

(* load_data, preprocess_data, metrics_are_stale, train_anomaly_models and *)
(* the selection of the containers of the newest snapshot, ignore_lxc out. *)
Load ==
    /\ pc = "load"
    /\ kind = "naive" /\ ~Stale
    /\ todo' = DOMAIN rows \ Ignored
    /\ known' = {}
    /\ pc' = IF todo' = {} THEN "asleep" ELSE "fetch"
    /\ uses' = uses + 1
    /\ UNCHANGED <<alloc, file, seen, cur, jobs, budget>>

(* The batch fetch: all of them answer, or some do not (no answer, breaker *)
(* open, credentials refused, no `cores` or `memory_mb` in the answer).    *)
Fetch ==
    /\ pc = "fetch"
    /\ \/ known' = todo /\ NoFault
       \/ known' \in (SUBSET todo) \ {todo} /\ Fault
    /\ seen' = alloc
    /\ pc' = "eval"
    /\ UNCHANGED <<alloc, file, todo, cur, jobs, uses>>

(* The loop over container_ids is done. *)
EndCycle ==
    /\ pc = "eval"
    /\ todo = {}
    /\ pc' = "asleep"
    /\ UNCHANGED <<alloc, file, todo, known, seen, cur, jobs, budget, uses>>

\* Mutant: a container that raises ends the cycle.
LeaveAllAlone(c) ==
    /\ pc = "eval"
    /\ c \in todo
    /\ IF Applies(c) THEN Fault ELSE NoFault
    /\ todo' = IF c \in Poison THEN {} ELSE todo \ {c}
    /\ UNCHANGED <<alloc, file, pc, known, seen, cur, jobs, uses>>

(* evaluate_container returns without a request, or raises and the loop    *)
(* goes on: allocation unknown, no prediction (a fault when the container  *)
(* is not poison), nothing to change, confidence too low, dry_run.         *)
LeaveAlone(c) ==
    /\ pc = "eval"
    /\ c \in todo
    /\ IF Applies(c) THEN Fault ELSE NoFault
    /\ todo' = todo \ {c}
    /\ UNCHANGED <<alloc, file, pc, known, seen, cur, jobs, uses>>

(* apply_scaling starts: CPU first when it has a target. *)
StartApply(c) ==
    /\ pc = "eval"
    /\ c \in todo
    /\ Applies(c)
    /\ cur' = [c |-> c, a |-> IF "cpu" \in Changes(c) THEN "cpu" ELSE "ram", try |-> 1]
    /\ pc' = "send"
    /\ UNCHANGED <<alloc, file, todo, known, seen, jobs, budget, uses>>

\* Mutant: the container is not finished with after its last request.
NextRequestAgain ==
    IF cur.a = "cpu" /\ "ram" \in Changes(cur.c)
    THEN /\ cur' = [cur EXCEPT !.a = "ram", !.try = 1]
         /\ pc' = "send"
         /\ UNCHANGED todo
    ELSE /\ pc' = "eval"
         /\ UNCHANGED <<cur, todo>>

(* perform_request returned, True or False: the RAM request follows the    *)
(* CPU one whatever became of it, then the next container.                 *)
NextRequest ==
    IF cur.a = "cpu" /\ "ram" \in Changes(cur.c)
    THEN /\ cur' = [cur EXCEPT !.a = "ram", !.try = 1]
         /\ pc' = "send"
         /\ UNCHANGED todo
    ELSE /\ todo' = todo \ {cur.c}
         /\ pc' = "eval"
         /\ UNCHANGED cur

(* An attempt failed in a way worth repeating. *)
RetryOrGiveUp ==
    IF cur.try < MaxRetries
    THEN /\ cur' = [cur EXCEPT !.try = @ + 1]
         /\ pc' = "send"
         /\ UNCHANGED todo
    ELSE NextRequest

(* requests.post reaches the route handler. *)
Send ==
    /\ pc = "send"
    /\ jobs' = jobs \cup {Request}
    /\ pc' = "wait"
    /\ UNCHANGED <<alloc, file, todo, known, seen, cur, budget, uses>>

(* It is turned away before `pct` runs: no connection or a 4xx is retried, *)
(* 401 and 403 are not.                                                    *)
Refused ==
    /\ pc = "send"
    /\ Fault
    /\ RetryOrGiveUp \/ NextRequest
    /\ UNCHANGED <<alloc, file, known, seen, jobs, uses>>

(* `pct set` takes effect; a client still waiting gets its 200. *)
Apply(j) ==
    /\ j \in jobs
    /\ jobs' = jobs \ {j}
    /\ alloc' = [alloc EXCEPT ![j.c][j.a] = j.to]
    /\ IF pc = "wait" /\ j = Request
       THEN NextRequest
       ELSE UNCHANGED <<pc, cur, todo>>
    /\ UNCHANGED <<file, known, seen, budget, uses>>

(* `pct set` fails or is killed by the API's timeout, before or after it   *)
(* took effect; a client still waiting gets a 500 and does not retry.      *)
FailJob(j) ==
    /\ j \in jobs
    /\ Fault
    /\ jobs' = jobs \ {j}
    /\ \/ UNCHANGED alloc
       \/ alloc' = [alloc EXCEPT ![j.c][j.a] = j.to]
    /\ IF pc = "wait" /\ j = Request
       THEN NextRequest
       ELSE UNCHANGED <<pc, cur, todo>>
    /\ UNCHANGED <<file, known, seen, uses>>

(* The client's timeout (5s) is shorter than the API's: the job lives on.  *)
TimeOut ==
    /\ pc = "wait"
    /\ Fault
    /\ RetryOrGiveUp
    /\ UNCHANGED <<alloc, file, known, seen, jobs, uses>>

(* The model process dies anywhere; the API does not. *)
Crash ==
    /\ pc # "down"
    /\ Fault
    /\ pc' = "down"
    /\ todo' = {}
    /\ UNCHANGED <<alloc, file, known, seen, cur, jobs, uses>>

(* systemd starts it again after RestartSec (15s), longer than lxc.timeout. *)
Restart ==
    /\ pc = "down"
    /\ jobs = {}
    /\ pc' = "load"
    /\ UNCHANGED <<alloc, file, todo, known, seen, cur, jobs, budget, uses>>

Cycle ==
    \/ Wake \/ SkipCycle \/ Load \/ Fetch \/ EndCycle
    \/ \E c \in Containers : LeaveAlone(c) \/ StartApply(c)
    \/ Send \/ Refused \/ TimeOut
    \/ Crash \/ Restart

Api == \E j \in jobs : Apply(j) \/ FailJob(j)

Next == NewSnapshot \/ Cycle \/ Api

Spec == Init /\ [][Next]_vars

(* The process runs while it can and the API finishes what it accepted;    *)
(* faults are never owed.  The monitor is a service of its own and writes  *)
(* between any two cycles (60s against 600s as shipped); it is strong      *)
(* fairness only because the model lets the file change at rest.           *)
Fairness ==
    /\ WF_vars(Wake) /\ WF_vars(SkipCycle \/ Load) /\ WF_vars(Fetch)
    /\ WF_vars(\E c \in Containers : LeaveAlone(c) \/ StartApply(c))
    /\ WF_vars(EndCycle) /\ WF_vars(Send) /\ WF_vars(Restart)
    /\ WF_vars(\E j \in jobs : Apply(j))
    /\ SF_vars(NewSnapshot)

FairSpec == Spec /\ Fairness

-----------------------------------------------------------------------------
(* Types. *)
TypeOK ==
    /\ alloc \in [Containers -> [Axes -> Nat]]
    /\ rows \in Snapshots
    /\ kind \in Stamps
    /\ age \in 0..(MaxAge + 1)
    /\ pc \in Resting \cup {"load", "fetch", "eval", "send", "wait"}
    /\ todo \subseteq DOMAIN rows \ Ignored
    /\ known \subseteq Containers \ Ignored
    /\ seen \in [Containers -> [Axes -> Nat]]
    /\ cur \in [c: Containers, a: Axes, try: 1..MaxRetries]
    /\ jobs \subseteq Job
    /\ budget \in 0..MaxFaults
    /\ uses \in Nat

(* Retries, late requests, a lost answer, a crash in the middle: within    *)
(* one cycle an axis is either where the fetch found it or at the one      *)
(* target computed from that, and every request still on its way asks for  *)
(* exactly that target (apply_scaling sends absolute values).              *)
OneTargetPerCycle ==
    \A j \in jobs :
        /\ alloc[j.c][j.a] \in {seen[j.c][j.a], j.to}
        /\ AllowedMove(j.a, seen[j.c][j.a], j.to)
        /\ \A k \in jobs : k.c = j.c /\ k.a = j.a => k.to = j.to

(* An allocation changes only if this cycle fetched it, and never for a    *)
(* container of ignore_lxc or under dry_run (run_cycle,                    *)
(* evaluate_container): no resize from a guessed allocation.               *)
MovesAreInformed ==
    [][\A c \in Containers :
          alloc'[c] # alloc[c] => c \in known /\ c \notin Ignored /\ ~DryRun]_vars

(* A request is decided on what was fetched at the start of the cycle and  *)
(* takes effect several requests later, perhaps after its client gave up   *)
(* and asked again: as long as the cycle runs, every move is the one that  *)
(* the present load asks for from where the axis is at that moment.        *)
MovesAreDecided ==
    [][pc \notin Resting =>
          \A c \in Containers, a \in Axes : alloc'[c][a] # alloc[c][a] =>
              c \in DOMAIN rows /\ alloc'[c][a] = Target(a, rows[c].use[a], alloc[c][a])]_vars

(* Nothing outside its range is ever moved farther out, nothing inside is  *)
(* moved by more than a step or out of it, whatever the load.              *)
NeverAway ==
    [][\A c \in Containers, a \in Axes : AllowedMove(a, alloc[c][a], alloc'[c][a])]_vars

(* A frozen snapshot cannot ratchet an allocation: the cycles that scale   *)
(* on one snapshot are bounded by its permitted age, one more for every    *)
(* crash, since a restart does not wait for the interval                   *)
(* (metrics_are_stale).                                                    *)
NoRatchet == uses <= MaxAge \div Interval + 1 + (MaxFaults - budget)

-----------------------------------------------------------------------------
(* Moved in this round: no longer where the fetch saw it. *)
Moved == {m \in Containers \X Axes : alloc[m[1]][m[2]] # seen[m[1]][m[2]]}

(* The refinement mapping. *)
Promise == INSTANCE IncrementalScaling WITH
    Managed <- Containers \ Ignored,
    Start <- InitAlloc,
    moved <- Moved

(* The loop keeps the promise of IncrementalScaling: one bounded move per  *)
(* axis and cycle, for managed containers only.                            *)
KeepsPromise == Promise!Spec

-----------------------------------------------------------------------------
(* The file shows c above the scale-up threshold of axis a. *)
Pressed(c, a) ==
    /\ kind # "none"
    /\ c \in DOMAIN rows
    /\ rows[c].confidence >= MinConfidence
    /\ Hot(a, rows[c].use[a], alloc[c][a])

(* However its requests fail meanwhile, and whatever its neighbours do, a  *)
(* managed container whose CPU stays hot is brought to the ceiling.  So    *)
(* the code has it, by threshold alone (scaling_decisions.py:53-66): also  *)
(* a container the forest calls normal, which by docs/components/model.md, *)
(* lines 88-91, would stay as it is.                                       *)
HotReachesCeiling ==
    \A c \in Containers \ (Ignored \cup Poison) :
        <>[](Pressed(c, "cpu") /\ kind = "naive")
            => <>(alloc[c]["cpu"] = Limits["cpu"].max)

(* docs/guide/architecture.md:64-68 has the model determine and execute    *)
(* scaling from the metrics the monitor stores.  The code's                *)
(* metrics_are_stale raises on the monitor's timestamps, so it does not.   *)
StoredMetricsDriveScaling ==
    \A c \in Containers \ (Ignored \cup Poison) :
        <>[]Pressed(c, "cpu") => <>(alloc[c]["cpu"] = Limits["cpu"].max)

(* A cycle always ends: run_cycle neither hangs on a container nor on the  *)
(* API, and the process is asleep (or down) again.                         *)
CycleEnds == pc \notin Resting ~> pc \in Resting

(* Under a demand that no longer changes the allocations stop moving:      *)
(* scaling up never creates the reason to scale down again.                *)
SteadyDemandSettles ==
    <>[][UNCHANGED rows]_vars => <>[][UNCHANGED alloc]_vars
=============================================================================
