--------------------------- MODULE MetricsCollection ---------------------------
(***************************************************************************)
(* How the monitor comes by a snapshot (lxc_monitor.py): it lists the      *)
(* running containers, probes each of them in a task of its own, computes  *)
(* the CPU usage from the difference to the previous cycle's counters, and *)
(* keeps those that gave a reading.  The containers meanwhile work, stop,  *)
(* and come up again, or new ones take over their ids.                     *)
(*                                                                         *)
(* A container's life is what it is from one start to the next; its CPU    *)
(* counters start at zero with each.  The probes other than the CPU's only *)
(* take time and fall back to zeros; they are one step here (Stamp), which *)
(* also takes the timestamp.  What becomes of the snapshot is MetricsFile. *)
(***************************************************************************)
EXTENDS Integers, FiniteSets

CONSTANTS
    Containers,
    Flaky,       \* containers in which `pct exec` may go wrong every time
    RetryLimit,  \* monitoring.retry_limit
    MaxTicks,    \* bound: CPU time of one life
    MaxLives,    \* bound: lives of one container
    Once,        \* bound: containers that do not start again
    MaxFaults    \* bound: `pct` calls that go wrong, and crashes

ASSUME CollectionAssumption ==
    /\ IsFiniteSet(Containers)
    /\ Flaky \subseteq Containers /\ Once \subseteq Containers
    /\ RetryLimit \in Nat \ {0}
    /\ MaxTicks \in Nat /\ MaxLives \in Nat \ {0} /\ MaxFaults \in Nat

VARIABLES
    up,       \* containers that run
    count,    \* the counters of each container's present life
    since,    \* history: each container's first life that no listing, by
              \* missing it, has parted from the present or the next one
    prev,     \* _previous_cpu_sample
    pc,       \* where the cycle is
    stage,    \* where the task of each container is
    try,      \* the attempt of its CPU probe
    usage,    \* what the CPU probe returned, and the record's timestamp
    snap,     \* the snapshot on its way to the file: a record per container
    clock,    \* timestamps taken in this cycle
    budget    \* faults left

node == <<up, count>>
vars == <<node, since, prev, pc, stage, try, usage, snap, clock, budget>>

Counters == [life: 1..MaxLives, idle: 0..MaxTicks, total: 0..MaxTicks]

Fresh(life) == [life |-> life, idle |-> 0, total |-> 0]

NoSample == [life |-> 0, idle |-> 0, total |-> 0]

NoUsage == [cpu |-> "none", span |-> "none", busy |-> 0, at |-> 0]

Fault == budget > 0 /\ budget' = budget - 1

(* The percentage get_container_cpu_usage makes of two differences: 0.0    *)
(* when the counters did not advance or all of it was idle, else above     *)
(* zero, for it is a float and not rounded.                                *)
Percent(idle, total) == IF total > 0 /\ idle < total THEN "above 0" ELSE "0"

(* A percentage that does not come from counters: /proc/stat was empty,    *)
(* too short or not of integers (lxc_monitor.py:251-263).                  *)
Unread == [cpu |-> "0", span |-> "unread", busy |-> 0, at |-> 0]

(* What two samples are of: one life, two that no listing has told apart   *)
(* (first is the earliest such life), or two that one has.                 *)
Span(old, new, first) ==
    IF old.life = new.life THEN "one life"
    ELSE IF first <= old.life THEN "overlooked" ELSE "two lives"

(* The percentage of two samples, and what it stands for: what they are of *)
(* and, if that is one life, the CPU time used between them.               *)
Usage(old, new, first) ==
    [cpu  |-> Percent(new.idle - old.idle, new.total - old.total),
     span |-> Span(old, new, first),
     busy |-> IF old.life = new.life
              THEN (new.total - new.idle) - (old.total - old.idle)
              ELSE 0,
     at   |-> 0]

Init ==
    /\ up = Containers
    /\ count = [c \in Containers |-> Fresh(1)]
    /\ since = [c \in Containers |-> 1]
    /\ prev = [c \in Containers |-> NoSample]
    /\ pc = "sleep"
    /\ stage = [c \in Containers |-> "off"]
    /\ try = [c \in Containers |-> 1]
    /\ usage = [c \in Containers |-> NoUsage]
    /\ snap = <<>>
    /\ clock = 0
    /\ budget = MaxFaults

-----------------------------------------------------------------------------
(* A tick of c's CPU, busy or idle. *)
Tick(n, idle) == [life |-> n.life, idle |-> n.idle + idle, total |-> n.total + 1]

Work(c) ==
    /\ c \in up
    /\ count[c].total < MaxTicks
    /\ \E idle \in {0, 1} : count' = [count EXCEPT ![c] = Tick(@, idle)]
    /\ UNCHANGED <<up, since, prev, pc, stage, try, usage, snap, clock, budget>>

Stop(c) ==
    /\ c \in up
    /\ up' = up \ {c}
    /\ UNCHANGED <<count, since, prev, pc, stage, try, usage, snap, clock, budget>>

(* The container again, or another one that was given its id. *)
StartUp(c) ==
    /\ c \notin up \cup Once
    /\ count[c].life < MaxLives
    /\ up' = up \cup {c}
    /\ count' = [count EXCEPT ![c] = Fresh(@.life + 1)]
    /\ UNCHANGED <<since, prev, pc, stage, try, usage, snap, clock, budget>>

-----------------------------------------------------------------------------
\* Mutant: departed containers are not forgotten.
ListAndKeep ==
    /\ pc = "sleep"
    /\ IF up = {}
       THEN UNCHANGED <<since, pc, stage>>
       ELSE /\ since' = [c \in Containers |-> IF c \in up THEN since[c] ELSE count[c].life + 1]
            /\ pc' = "collect"
            /\ stage' = [c \in Containers |-> IF c \in up THEN "cpu" ELSE "off"]
    /\ UNCHANGED <<up, count, prev, try, usage, snap, clock, budget>>

(* `pct list`, and forget_departed_containers, which an empty list never   *)
(* reaches (lxc_monitor.py:459-464).                                       *)
List ==
    /\ pc = "sleep"
    /\ IF up = {}
       THEN UNCHANGED <<since, prev, pc, stage>>
       ELSE /\ since' = [c \in Containers |-> IF c \in up THEN since[c] ELSE count[c].life + 1]
            /\ prev' = [c \in Containers |-> IF c \in up THEN prev[c] ELSE NoSample]
            /\ pc' = "collect"
            /\ stage' = [c \in Containers |-> IF c \in up THEN "cpu" ELSE "off"]
    /\ UNCHANGED <<up, count, try, usage, snap, clock, budget>>

(* `pct list` fails or hangs: an empty list too. *)
ListFails ==
    /\ pc = "sleep"
    /\ Fault
    /\ UNCHANGED <<node, since, prev, pc, stage, try, usage, snap, clock>>

(* get_container_cpu_usage gets the counters. *)
CpuOk(c) ==
    /\ stage[c] = "cpu"
    /\ c \in up
    /\ IF count[c].total = 0
       THEN usage' = [usage EXCEPT ![c] = Usage(count[c], count[c], since[c])] /\ UNCHANGED prev
       ELSE /\ prev' = [prev EXCEPT ![c] = count[c]]
            /\ usage' = [usage EXCEPT ![c] =
                            IF prev[c] = NoSample THEN NoUsage
                                                  ELSE Usage(prev[c], count[c], since[c])]
    /\ stage' = [stage EXCEPT ![c] = "rest"]
    /\ UNCHANGED <<node, since, pc, try, snap, clock, budget>>

(* It gets something else, and returns 0.0 without touching the cache.     *)
CpuUnread(c) ==
    /\ stage[c] = "cpu"
    /\ c \in up
    /\ IF c \in Flaky THEN UNCHANGED budget ELSE Fault
    /\ usage' = [usage EXCEPT ![c] = Unread]
    /\ stage' = [stage EXCEPT ![c] = "rest"]
    /\ UNCHANGED <<node, since, prev, pc, try, snap, clock>>

\* Mutant: a probe that gave up reads as an idle container.
CpuFailsAsIdle(c) ==
    /\ stage[c] = "cpu"
    /\ IF c \in up \ Flaky THEN Fault ELSE UNCHANGED budget
    /\ IF try[c] < RetryLimit
       THEN try' = [try EXCEPT ![c] = @ + 1] /\ UNCHANGED <<stage, usage>>
       ELSE /\ stage' = [stage EXCEPT ![c] = "rest"]
            /\ usage' = [usage EXCEPT ![c] =
                            [Usage(prev[c], count[c], since[c]) EXCEPT !.cpu = "0"]]
            /\ UNCHANGED try
    /\ UNCHANGED <<node, since, prev, pc, snap, clock>>

(* `pct exec` fails or hangs, always when c has stopped; retry_on_failure  *)
(* tries again and in the end returns None.                                *)
CpuFails(c) ==
    /\ stage[c] = "cpu"
    /\ IF c \in up \ Flaky THEN Fault ELSE UNCHANGED budget
    /\ IF try[c] < RetryLimit
       THEN try' = [try EXCEPT ![c] = @ + 1] /\ UNCHANGED stage
       ELSE stage' = [stage EXCEPT ![c] = "rest"] /\ UNCHANGED try
    /\ UNCHANGED <<node, since, prev, pc, usage, snap, clock>>

Stamped(u, now) == [cpu |-> u.cpu, span |-> u.span, busy |-> u.busy, at |-> now]

(* The other probes are through; a container with a CPU reading gets its   *)
(* record, stamped with the time of this very moment.                      *)
Stamp(c) ==
    /\ stage[c] = "rest"
    /\ stage' = [stage EXCEPT ![c] = "done"]
    /\ IF usage[c] = NoUsage
       THEN UNCHANGED <<usage, clock>>
       ELSE clock' = clock + 1 /\ usage' = [usage EXCEPT ![c] = Stamped(@, clock + 1)]
    /\ UNCHANGED <<node, since, prev, pc, try, snap, budget>>

Collected == {c \in Containers : usage[c] # NoUsage}

\* Mutant: one container without a reading discards the cycle.
GatherAllOrNothing ==
    /\ pc = "collect"
    /\ \A c \in Containers : stage[c] \in {"off", "done"}
    /\ IF \E c \in Containers : stage[c] = "done" /\ c \notin Collected
       THEN pc' = "sleep" /\ UNCHANGED snap
       ELSE pc' = "export" /\ snap' = [c \in Collected |-> usage[c]]
    /\ stage' = [c \in Containers |-> "off"]
    /\ try' = [c \in Containers |-> 1]
    /\ usage' = [c \in Containers |-> NoUsage]
    /\ clock' = 0
    /\ UNCHANGED <<node, since, prev, budget>>

(* asyncio.gather has them all. *)
Gather ==
    /\ pc = "collect"
    /\ \A c \in Containers : stage[c] \in {"off", "done"}
    /\ IF Collected = {}
       THEN pc' = "sleep" /\ UNCHANGED snap
       ELSE pc' = "export" /\ snap' = [c \in Collected |-> usage[c]]
    /\ stage' = [c \in Containers |-> "off"]
    /\ try' = [c \in Containers |-> 1]
    /\ usage' = [c \in Containers |-> NoUsage]
    /\ clock' = 0
    /\ UNCHANGED <<node, since, prev, budget>>

(* The snapshot goes to the metrics file, then check_interval passes. *)
Export ==
    /\ pc = "export"
    /\ pc' = "sleep"
    /\ snap' = <<>>
    /\ UNCHANGED <<node, since, prev, stage, try, usage, clock, budget>>

(* The monitor dies, with its samples. *)
Crash ==
    /\ pc # "down"
    /\ Fault
    /\ pc' = "down"
    /\ prev' = [c \in Containers |-> NoSample]
    /\ stage' = [c \in Containers |-> "off"]
    /\ try' = [c \in Containers |-> 1]
    /\ usage' = [c \in Containers |-> NoUsage]
    /\ clock' = 0
    /\ snap' = <<>>
    /\ UNCHANGED <<node, since>>

Restart ==
    /\ pc = "down"
    /\ pc' = "sleep"
    /\ UNCHANGED <<node, since, prev, stage, try, usage, snap, clock, budget>>

Task(c) == CpuOk(c) \/ CpuUnread(c) \/ CpuFails(c) \/ Stamp(c)

Node == \E c \in Containers : Work(c) \/ Stop(c) \/ StartUp(c)

Cycle == List \/ (\E c \in Containers : Task(c)) \/ Gather \/ Export \/ Restart

Next == Node \/ Cycle \/ ListFails \/ Crash

Spec == Init /\ [][Next]_vars

(* The monitor's loop goes on and every command ends (command_timeout).    *)
FairSpec ==
    /\ Spec
    /\ WF_vars(List) /\ WF_vars(Gather) /\ WF_vars(Export) /\ WF_vars(Restart)
    /\ \A c \in Containers : WF_vars(Task(c))

-----------------------------------------------------------------------------
Record ==
    [cpu: {"none", "0", "above 0"},
     span: {"none", "unread", "one life", "overlooked", "two lives"},
     busy: 0..MaxTicks, at: 0..Cardinality(Containers)]

(* Types. *)
TypeOK ==
    /\ up \subseteq Containers
    /\ count \in [Containers -> Counters]
    /\ since \in [Containers -> 1..(MaxLives + 1)]
    /\ prev \in [Containers -> Counters \cup {NoSample}]
    /\ pc \in {"sleep", "collect", "export", "down"}
    /\ stage \in [Containers -> {"off", "cpu", "rest", "done"}]
    /\ try \in [Containers -> 1..RetryLimit]
    /\ usage \in [Containers -> Record]
    /\ DOMAIN snap \subseteq Containers
    /\ \A c \in DOMAIN snap : snap[c] \in Record
    /\ clock \in 0..Cardinality(Containers)
    /\ budget \in 0..MaxFaults

(* "a recycled ID" must not inherit "its predecessor's counters"           *)
(* (lxc_monitor.py:113-115): no recorded usage compares a container with a *)
(* life from which a listing has parted it, whatever was retried, crashed, *)
(* stopped or started meanwhile.  A listing in which nothing runs parts    *)
(* nothing: it returns before the cache is pruned.                         *)
UsageOfOneLife == \A c \in DOMAIN snap : snap[c].span # "two lives"

(* A usage measured over one life is zero exactly if the container used no *)
(* CPU time since its last sample, however many cycles ago that was: no    *)
(* probe that failed or gave up is recorded, as "0.0 would look like an    *)
(* idle container and drive a scale-down" (lxc_monitor.py:425-426).  The   *)
(* zeros the code does record unmeasured are the unread ones, and those of *)
(* an overlooked restart.                                                  *)
ZeroMeansIdle ==
    \A c \in DOMAIN snap :
        /\ snap[c].cpu # "none"
        /\ snap[c].span = "one life" => (snap[c].cpu = "0" <=> snap[c].busy = 0)

(* However the others fail or come and go, a container that keeps running  *)
(* is exported again and again: a broken one costs only its own record.    *)
KeepsReporting ==
    \A c \in Containers \ Flaky :
        <>[](c \in up) => []<>(pc = "export" /\ c \in DOMAIN snap)

-----------------------------------------------------------------------------
(* model/lxc_autoscale_ml.py, current_container_ids: the rows that carry   *)
(* the newest timestamp of the file.  Older snapshots have older ones.     *)
CurrentIds(s) == {c \in DOMAIN s : \A d \in DOMAIN s : s[d].at <= s[c].at}

(* lxc_autoscale_ml.py:96: "Container IDs present in the most recent       *)
(* snapshot", all of them.  Each record has a timestamp of its own, so the *)
(* code finds the last one collected.                                      *)
EveryoneIsCurrent == CurrentIds(snap) = DOMAIN snap
================================================================================
