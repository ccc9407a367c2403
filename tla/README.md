# Verification of LXC AutoScale ML

TLA+ modules for the autoscaler, the TLC runs that check them on small
instances, and TLAPS proofs for every value of the constants. Paths below are
relative to the repository, line numbers refer to the same commit as the map in
`PROJECT.json`.

- [The system](#the-system)
- [Modules and how they correspond to the code](#modules)
- [Runs, bounds, fairness](#runs)
- [Disagreements between code and documentation](#disagreements)
- [What is proved](#proofs)
- [What is not modelled](#not-modelled)
- [Plan](#plan)

## The system

Three services on a Proxmox node, and one file.

```
 containers --pct exec--> monitor --rewrites--> /var/log/lxc_metrics.json --reads--> model
     ^                                                                                |
     +------------ pct set ------------ API (gunicorn, threads) <------ HTTP ---------+
```

| Component | State it keeps | Operations | What is hard about it | What makes it correct |
|---|---|---|---|---|
| Monitor, collection (`monitor/lxc_monitor.py`) | cached CPU counters per container id | list containers, probe each in a task with retries, difference two samples, stamp, gather | containers stop, restart and change hands between list, probe and next cycle; probes fail or hang; ids are recycled | a usage is of one life of one container; idle is recorded only of an idle one; a broken container costs only its own record |
| Metrics file (`lxc_monitor.py`, `model/data_manager.py`) | the last `max_metrics_entries` snapshots | load, append, trim, write aside, fsync, rename; read by the model | crash of process or host between any two calls; failing calls; a reader at any moment | always a complete, ordered list; only the oldest snapshot leaves; snapshots arrive |
| Model loop (`model/lxc_autoscale_ml.py`, `scaling_decisions.py`) | none across cycles but the breaker; within one: snapshot, fetched allocations, position | wake, load, staleness check, train, fetch, evaluate one by one, apply CPU then RAM with retries, sleep | allocation read early and used late; late answers, repeated requests; crash and restart in mid-cycle; one container that raises | one bounded step per axis and cycle from a known allocation; no ratchet on a frozen file; cycles end; demand met; no flapping |
| Batch fetch and breaker (`async_api_client.py`, `CircuitBreaker`) | failures and opening time per container; semaphore | ask, back off, retry, record, expire | many tasks interleave between check and record; slots on all exit paths; window against interval | counter and opening agree; open means quiet; slots conserved; recovery |
| Lock file and signals (`lock_manager.py`, `signal_handler.py`) | the lock file | create exclusively, read, probe, remove, release | other instances between any two calls; crashed owners; reused process ids; two releases per exit | at most one instance; never locked out by the dead; starts end |
| API scaling routes (`api/`) | the containers' allocation | `pct set`, killed after `lxc.timeout` | runs on after its client gave up | as the loop |
| API: clones, snapshots, deletion, storage (`lxc_autoscale_api.py`, `lxc_management.py`) | containers, snapshots, disk size, two counters | sequences of `pct` commands, each with a timeout | one command of several fails or times out with or without effect; two requests on one id; the worker dies | nothing is left behind unasked and untold; a request takes away only what is its own; what is counted is what was gained |
| API: rate limiter (`rate_limiting.py`) | window per client, bounded table | evict, prune, refuse with Retry-After or admit | the time is read before the lock, so stamps are out of order; eviction by one client's request touches the others | limit kept; table bounded; Retry-After true |
| API: health probe (`health_check.py`) | last result and its time | look up, fork `pct list`, store | threads that miss together; a slow probe overwrites a later one | results are recent; forks are bounded |
| Authentication, validation, errors, metrics, configuration, logging | none, or written only | per request | order in front of a handler | - |
| Preprocessing and IsolationForest (`data_manager.py`, `model.py`) | none across cycles | features, fit, score | numerics | - |

The prediction of the forest reaches only a log line
(`scaling_decisions.py:50-51`): decisions depend on the thresholds, and on the
forest through its confidence and its failures. The documentation says
otherwise, see [below](#disagreements).

`PROJECT.json` lists the hazards line by line with the properties that cover
each.

## <a name="modules"></a>Modules and how they correspond to the code

Each module has its constants and their assumption, state, one action per step
of the code, `Next`, `Spec`, `FairSpec`, and its properties. Where a mutant of
a definition lives beside it (marked `\* Mutant:`), it stands for a plausible
bug, and the property it must violate is listed in `PROJECT.json`.

**ScalingDecision** is `determine_scaling_action` as an operator of one axis.
`Target(a, use, cur)` is the absolute target; equal to `cur` is the code's "No
Scaling". CPU load is a percentage, memory load is MB of the MB allocated;
percentages are compared by cross-multiplication. `Limits` is what
`validate_scaling_config` lets through (in integers). `AllowedMove`, `OutBy`,
`WideBand` belong to the properties.

**IncrementalScaling** is the abstract specification: in each round an axis of a
managed container moves at most once, by an allowed move, and nothing else
moves.

**ScalingLoop** is the closed loop. The model process goes through
`load, fetch, eval, send, wait, asleep`, or is `down`. `rows`/`kind`/`age` is
what a load of the metrics file would find: the containers
`current_container_ids` yields (any nonempty set) with their load and
confidence, whether their timestamps parse with or without a zone or not at
all, and how old they are. `seen` is the fetched allocation, `alloc` the real
one, `jobs` the requests the API accepted and has not finished: a request is
applied or fails in the API's own time, whether or not its client still waits.
`LeaveAlone` gathers the early returns of `evaluate_container` and the
exception its caller catches. Everything that goes wrong is charged to
`budget`, except what a constant makes permanent (`Poison`, `Ignored`,
`Stamps`). Assumptions about the surroundings, each from shipped settings:

- no request is under way when a cycle starts: the API kills `pct` after
  `lxc.timeout` = 10s, the model sleeps `interval_seconds` = 600s, and systemd
  restarts it after `RestartSec` = 15s. The client's timeout is 5s, so requests
  do outlive their attempt and the cycle that sent them;
- the file changes only at rest. Within a cycle it is read once, so a change
  during the cycle is seen as one after it;
- `max_retries` is at least 1; systemd's `StartLimitBurst` is not reached
  (behaviours have few crashes).

**BatchFetch** is one batch per cycle over breakers that outlive it. A task is
`absent, queued, asking, backoff` or `done`. All breakers are asked when the
batch starts, because no task awaits anything before it asks. `Fail` is every
failure that is retried (5xx, timeout, network), `TurnedAway` every status
that is not, `Garbled` an exception no handler names, which leaves through
`gather`. Time is the age of each opening, in ticks; `Tick` is the time the cycle
itself takes. A disabled breaker and a 200 whose `data` is null are not
modelled.

**Breaker** is the abstract circuit breaker of one container: a count of
strikes, open or closed, and what a fetch may do to them. It knows neither
attempts nor slots; `OneStrikePerFetch` states that each container's part of a
batch implements it.

**LockFile** has one action per file-system call of `create_lock_file`,
`_clear_if_stale`, `remove_lock_file`, the signal handler and main's `finally`,
of any number of instances at any moment. `met` is history: which of the three
circumstances the lock cannot cope with a behaviour has met so far (`overlap`
of a start with another start or an exit, a lock that is there and `unreadable`,
`reuse` of a dead instance's process id). Properties that need a circumstance
excluded say so (`OneAtATime`, `Undisturbed`); everything else happens in the
same behaviours. A failed write of the id is a `Crash` at `created`. A SIGKILLed
service is restarted by systemd, one that handled SIGTERM exits with 0 and is
not; either is a `Start` that may come at any time. A second signal during the
handler is not modelled.

**MetricsFile** is the life of the export file. `after` is the set of versions
a crash of the host may bring back: a rename is atomic but not forced out, and
data that was not synced may be missing under the new name (`Torn`), which is
what the fsync is for. `LoadData` is the model's read, at any moment.

**SnapshotLog** is the abstract specification of that: a bounded log and what
is settled of it on disk. A cycle appends, a forced write settles, a crash goes
back to a settled log or to the one since; no log is ever half there.
`AtomicLog` states the refinement.

**MetricsCollection** has the node's containers (`Work`, `Stop`, `StartUp`:
a life per start, counters from zero) beside the monitor's cycle. A CPU probe
that fails is tried `RetryLimit` times (`CpuFails`); one whose `/proc/stat` is
empty, short or malformed returns 0.0 at once and leaves the cached sample
(`CpuUnread`); `Stamp` is the rest of the record. A container may stop and start
at any moment, also between two listings and unseen by both, and all may be
down. A snapshot's records carry what the usage stands for, which the code
does not know and the properties ask about: measured over one life (then with
the CPU time really used), over a restart that every listing `overlooked`, over
`two lives` that a listing has parted by missing the container in between, or
`unread`. The history variable `since` tells the last two kinds of lives apart:
it is each container's first life that no listing has parted from its present
(or, while it is down, its next) one. In the containers of `Flaky` the probe may
go wrong every time, without a fault being charged. A percentage (`Percent`) is
nothing, zero or above zero, which is all the properties ask of it.

**LxcRoutes** is every route that changes a container, but for cores and memory:
`/clone/create` (snapshot, clone, start, and in its `finally` the deletion of
the snapshot), `/clone/delete` (stop, destroy), `/snapshot/create`,
`/snapshot/rollback`, `/scale/storage/increase`. A job is one request in one
thread, at one `pct` command. A command runs (`Run`), is refused by `pct`
because its precondition does not hold (`Refused`), or goes wrong on its own
(`GoesWrong`: an error or `lxc.timeout`, with or without its effect); `Onward`
and `Raised` say where that takes the request. `made` is history: which request
made a snapshot or clone or stopped a container, and how that request ended:
as asked (`caller`), with the cleanup error in its answer (`reported`), after a
command's own fault or a killed worker (`fault`), or without a word (`silent`).
`pct` is external: a command is one step, its effect comes before its error,
and one that timed out does not take effect later still. Clones are made of one
`Source`; the temporary snapshot, whose name the code builds from the new id, is
named by that id here, and callers may use the same name; storage grows by one
unit per request.

**ApiClock** is what the next two share: threads, a clock, and the longest time
`Wait` between reading it and having the lock.

**RateLimiter** is `rate_limit` and `_evict_idle_clients`. `Arrive` reads the
time, `Refuse` and `Admit` are the region under the lock: eviction (`Active`,
then `Kept` when they are more than the ceiling), pruning (`Recent`), then the
429 or the append. A window is a set of stamps numbered in the order in which
they were appended, which differs from the order of time. `admitted` and
`promised` are history. A client the hard ceiling dropped starts anew; that is
what the code's bound on memory costs.

**HealthProbe** is `_cached_check_pct`: `Ask` reads the time, `Hit` and `Miss`
are the first region under the lock, `Answers` is `pct`, `Store` the second
region. A result is the time at which it was true.

**MCScalingLoop** and **MCRateLimiter** define what their instances need; the
other modules are run as they are. **ScalingLoop_proofs** (with the scaling
arithmetic), **BatchFetch_proofs, LockFile_proofs, MetricsFile_proofs,
MetricsCollection_proofs, LxcRoutes_proofs, RateLimiter_proofs,
HealthProbe_proofs** hold the theorems.

## <a name="runs"></a>Runs, bounds, fairness

Each configuration starts with a line that says what the instance is. Every
module has a type invariant; all are proved (`TypeCorrect`), and FileSafe also
runs its own, because there it bounds every version's length.

| Run | States | Properties | What it shows |
|---|---|---|---|
| Loop | 306k | `OneTargetPerCycle`, `NoRatchet`, `KeepsPromise`, `NeverAway`, `MovesAreInformed`, `MovesAreDecided`, `HotReachesCeiling`, `CycleEnds`, `SteadyDemandSettles` | a container, in its limits or outside, beside one whose evaluation always raises, with two faults: late, repeated and failed requests and crashes keep to one target and implement IncrementalScaling, a frozen file scales a bounded number of times, nothing is resized from an unknown allocation, and every move is what the present load asks for; cycles end, a hot container is scaled all the way, a steady demand ends in steady allocations |
| Lock | 294k | `OneRunner`, `RunnerIsNamed`, `NoFalseRefusal`, `StartsEnd` | three instances started, stopped and killed at any moment, three faults: starts end; one at a time, at most one runs, the file names it, and what the dead left behind keeps nobody out |
| Fetch | 71k | `BreakerConsistent`, `OpenMeansQuiet`, `SlotsConserved`, `ConfigMeansHealthy`, `OneStrikePerFetch`, `BatchEnds`, `Recovers` | three tasks on two slots, any subset per batch, faults enough for two breakers: each implements Breaker whatever the others do, batches end, breakers close again |
| FileSafe | 40k | `TypeOK`, `NeverTorn`, `HistoryInOrder`, `AtomicLog`, `OnlyTheOldestLeaves`, `SnapshotArrives` | five snapshots into three places, three faults of any kind: the file implements SnapshotLog, and snapshots arrive |
| Collect | 2.55M | `UsageOfOneLife`, `ZeroMeansIdle`, `KeepsReporting` | two containers that stop and start at any moment, one of them with probes that fail or print nothing of use at will, two faults: no usage compares lives a listing has parted, a measured zero is an idle container, and one that keeps running keeps being exported |
| LxcRoutes | 546k | `NothingSilent`, `GrowthAccounted`, `OwnSnapshotOnly`, `OnlyTheStopperDestroys`, `EveryRequestEnds` | four requests of any kind, two at a time, on the same ids and names, two faults: nothing is left behind unasked and untold, nothing is taken away that is another's, every request is answered |
| RateLimiter | 2.6M | `WindowKept`, `TableBounded`, `HonestRetry`, `RefusalsEarned` | two threads whose stamps are out of order, three clients and a table for one: the limit holds in every window, eviction does no harm, and a refusal is earned by as many admissions and ends when it says |
| HealthProbe | 1.03M | `FreshEnough`, `ForksSpaced` | three threads through three expiries: answers are recent, a thread forks at most once per interval |

**Why the bounds are enough.** Two containers are what it takes for one to
disturb another (an exception, a slot, an order); a third adds a queue behind
two slots in Fetch and a bystander in the lock runs. Axes are the code's
two. CPU allocations 1 to 3 with a step of 1 and memory 4 to 8 (units of 512 MB)
with a step of 2 have a floor, a middle and a ceiling; a container at 6 cores
and 1 unit lies outside on both sides. `MaxFaults` is above what the longest
story needs: a request that times out, its repetition that times out, and a
crash. Ages, attempts and entries exceed their limits by at least one, so every
comparison is seen on both sides. Five snapshots overflow a list of three
twice. In LxcRoutes two requests interfere, and four let one pair prepare what
the next pair meets (a clone to be deleted, a name already taken); the proofs
do away with the bound. In RateLimiter a second thread is enough to put stamps
out of order, three clients on a table for one force evictions of the last
client seen and of one that waits, and the clock covers a window and its retry.
Three threads of HealthProbe give a probe that is overtaken by one that is
overtaken. Loop has one container that scales; that several do not disturb each
other, and that an ignored one stays, is proved (`Refinement`,
`InformedMoves`). Two lives and two ticks of CPU time make a container that was
busy, idle or reset between two samples; that the second one does not start
again (`Once`) halves the run, and it still stops, so that listings are empty.
The proofs have no such bound.

**Fairness.** Weak fairness of the steps a running process takes by itself:
Python's loops, asyncio's ready tasks, the API's threads, systemd's restart,
commands that end because they have a timeout (`command_timeout`, aiohttp's and
requests' timeouts, `lxc.timeout`; in LxcRoutes `Progress` of each thread). No fairness for faults,
signals, starts, containers that work or stop. ScalingLoop has strong fairness for `NewSnapshot`: the
monitor is a service of its own and writes ten times per cycle of the model as
shipped, but the model of it may only write at rest. MetricsFile has no
fairness for `Settle`. LockFile asks only that a started process runs on.

RateLimiter and HealthProbe state no liveness and need no fairness; their clock
stops at `MaxTime`, requests go on.

Deadlock is checked everywhere but in LxcRoutes, where the requests run out.

## <a name="disagreements"></a>Disagreements between code and documentation

Each is a run expected to violate one property that states what a comment or a
document says; `PROJECT.json` quotes both sides.

| Run | Property | The code |
|---|---|---|
| LoopAware | `StoredMetricsDriveScaling` | the staleness check subtracts a time with a zone (the monitor's) from one without and raises, in every cycle; the passing loop runs show the loop on timestamps without a zone, as the tests' frames and `tools/generate_metrics.py` have them |
| LockStartRace | `MutualExclusion` | the file is empty between create and write, and a second start removes it |
| CollectNewest | `EveryoneIsCurrent` | only the container stamped last is evaluated |
| ProbeForks | `OneForkPerInterval` | the probe runs outside the lock (`health_check.py:30-38`), so every thread that misses forks |

Their instances are the smallest that show the matter.

One more needs no run, because there is no behaviour of the code to find it in:
the code never looks at the argument.

| Documentation | Code | In the model |
|---|---|---|
| an axis is scaled up only if the IsolationForest reports an anomaly (-1), and down only if it reports a normal point (`docs/components/model.md:88-116`); "Anomaly detection triggers evaluation of scaling thresholds" (`docs/guide/faq.md:170`, and likewise `docs/guide/introduction.md:12`) | `determine_scaling_action` compares the thresholds whatever the prediction, which only decides whether a debug line is written (`scaling_decisions.py:50-66`) | `Target` has no prediction, so `HotReachesCeiling` brings a container that stays hot to its ceiling also if the forest calls it normal, `SteadyDemandSettles` and `MovesAreDecided` count a step down of an anomalous one as right, and so do the theorems about them. By the documentation the first would stay and the second not shrink |

Other properties hold only under a condition, which is a constant of the module
or part of the property, and which the code does not establish:

| Property (run) | Condition | Without it |
|---|---|---|
| `OneRunner`, `RunnerIsNamed`, `NoFalseRefusal` (Lock) | no `overlap` met | two starts: LockStartRace; a start and an exit: a signalled instance removes the lock twice (`lxc_autoscale_ml.py:319` and `337`), the second time perhaps another's |
| | no `unreadable` lock met | a lock that cannot be read is removed under its owner (`lock_manager.py:37`) |
| `NoFalseRefusal` (Lock) | no `reuse` met | a dead instance's id in use by another program blocks every start (`lock_manager.py:49`) |
| `WindowKept` (RateLimiter) | a window shorter by `Wait` | eviction looks at the stamp appended last (`rate_limiting.py:23`), which may be older than one before it: a client is forgotten up to `Wait` too early |
| `WindowKept` (RateLimiter) | `Limit` at least 1 | with 0 the first request takes the minimum of an empty list (`rate_limiting.py:77`) and is answered 500 |
| `TableBounded` (RateLimiter) | one entry above the ceiling | the table is cut before the present client is added (`rate_limiting.py:27`) |
| `OnlyTheOldestLeaves` (FileSafe) | `misreads = 0` | a file that cannot be read once counts as empty and is overwritten (`lxc_monitor.py:529`) |
| `UsageOfOneLife` (Collect) | only a listing in which something runs parts lives | a listing in which nothing runs returns before the samples are dropped (`lxc_monitor.py:459`), and a restart between two listings goes unnoticed: the id's next owner is measured against its predecessor's sample |
| `ZeroMeansIdle` (Collect) | a usage measured over one life | an empty, short or malformed `/proc/stat` is recorded as 0.0 (`lxc_monitor.py:251-263`; `tests/test_monitor.py:171-173` asserts it), although "0.0 would look like an idle container and drive a scale-down" (`lxc_monitor.py:425-426`); and after an overlooked restart counters that went back give 0.0 (`lxc_monitor.py:289`). Both happen in the run, to busy containers |
| `NeverAway` (Loop) | an allocation inside its range | one outside moves to the limit at once, by more than a step (`scaling_decisions.py:78`) |

More differences and observations follow from the actions themselves:
the breaker has no half-open state, an expired one is forgotten and its next
fetch has all its retries (`StartBatch`; `docs/components/model.md:192` says one
request); and a window just above the interval may expire unasked, because the
cycle's own work takes time (`Tick`; `config_manager.py:126`). A temporary
snapshot whose cleanup failed is reported once, blocks every later clone to that
id, and no route deletes it (`Raised`). A container that was stopped and then
not destroyed, or that is stopped for any other reason, cannot be deleted
through the API, because `pct stop` refuses it (`Possible`). A resize that timed
out may have happened and is counted as a failure (`GrowthAccounted` is an
interval for this reason). The documentation allows snapshot names of 100
characters (`docs/components/api.md:105`), the code 40 (`validation.py:126`).

## <a name="proofs"></a>What is proved

Every theorem is for all values of the constants that satisfy the module's
named assumption; what `NoReversal` and `NoTurningRound` need besides is part of
their statement.

**ScalingDecision.** `TargetAllowed`: every target is an allowed move from any
allocation under any load. `NoReversal`: if the two memory thresholds are far
enough apart (`WideBand`; the shipped 75 and 30 are, for a step up to one and a
half times the floor), the demand that caused a step never asks for it back.
Without `WideBand` it can, so flapping is a matter of configuration that `validate_scaling_config` does not check.

**ScalingLoop.** The inductive invariant `LoopInv` strengthens the types by
what the order of the code guarantees. `AtRest`: no requests when a cycle
starts. `AtRequest`: the container being scaled was fetched and has something
to change. `JobsProper`: every request under way is for a fetched container,
goes to an allowed target computed from `seen`, agrees with any other of the
same axis, and the axis is either where it was seen or already there.
`TodoUntouched`: containers not yet evaluated, and the RAM axis while CPU is
being scaled, are still where they were fetched and have no requests. The last
is what makes retries harmless: a repeated or late request asks for a target
computed from an allocation nothing else has moved. `OneTarget` is part of the
invariant; `NeverFartherAway`, `InformedMoves` and `Refinement` follow from it
step by step: only `Apply` and `FailJob` change an allocation, by `JobEffect`.
The refinement mapping keeps `alloc` and takes as moved what differs from
`seen`; `Fetch` is the new round. `FrozenFileIsHarmless` has an invariant of
its own, `Paid`: the cycles used on a snapshot, beyond the first and beyond one
per fault, times the interval, never exceed its age.

While a cycle runs its load does not change, so a request decided several
requests ago is still what the load asks for: `JobsWanted` says so of every
request under way, `Decided` of every move that one makes. From it,
`HotIsKept`: an axis pressed by its load does not shrink, unless it is above the
ceiling; and `NoTurningRound`, for settings with `WideBand`: an axis inside its
range that moved one way is not moved back by the same snapshot. Both speak of
cycles under way: at rest a new snapshot may bring a new load. `CycleBounded`
gives a cycle a rank of its phase (`Phase`) and of the containers, axes and
attempts left (`Left`), which each of its own steps lowers and nothing else
raises; a crash ends the cycle.

**BatchFetch.** `FetchInv` adds to the three breaker properties that a task in
backoff has attempts left and that no task is under way between batches; with
it a failure is recorded at most once per task and batch, so the counter cannot
pass the threshold. `SlotsSound` counts the holders by the library's facts about
cardinalities. `BreakerRefinement` is the implementation of Breaker, step by
step: the abstract strike falls on the last failure of a fetch, and all steps
before it, and all steps of other tasks, are stutters. `BatchAdvances` ranks a
task by what it has left, and `NoStarvation` says that as long as a batch is not
through some task can take its next step: one holds a slot, or a slot is free
for one that queues.

**LockFile.** `TypeCorrect` holds always; `Exclusion` and `RunnerFound` in every
behaviour that met neither `overlap` nor `unreadable` so far, `Refusal` if
besides it met no `reuse`. What was met stays met, so the invariant may assume
the condition before each step as well as after it. `LockInv` ties the
file to its holder in both directions (`HolderNamed`, `NamedHolds`), and says
that what a starter found is still so when it acts on it (`FoundIsTrue`), which is
what an overlapping start breaks. `StartsBounded` holds whatever overlaps: a
start has at most twelve steps left, each of its own takes one away, and no other
instance gives one back, not even by taking the lock it was about to create.

**MetricsFile.** `FileInv` says that what is about to be renamed has been
synced, so neither the file nor any version a crash may bring back is torn
(`CrashSafe`). `HistoryInv` adds that no list holds a snapshot newer than the
monitor has taken, strictly older while one is being added; hence appending
keeps the order whatever version a crash left (`InOrder`). `KeepInv` says that
between the read and the rename what is to be written is the file's own list
plus one; `HistoryKept` follows at the rename. `LogRefinement` shows that file,
temporary file and host cache implement SnapshotLog: the file is the log, and
`after` is what a crash may bring back of it. What happens to the temporary file
maps to a stutter.

**MetricsCollection.** All three theorems hold whatever the containers do.
`OneLife` and `ZeroIsIdle` follow from an invariant that follows a sample from
the cache to the snapshot. `Kin`: no listing has parted a cached sample's life
from the container's, because the listing that would have done so dropped the
sample. `Sampled`: counters of one life only grow, so that a difference of zero
percent means no CPU time. `Truthful`: what was computed from them stays true of
the record while it waits for its stamp, for the others and for the file.

**LxcRoutes.** `IInv` is what one request may rely on between two commands while
others run theirs: its snapshot is there and its own (`Own`); a container it has
cloned or stopped is stopped and in nobody else's hand (`Held`, `Apart`); what it
made, it will answer for (`Mine`, `Told`). The argument is rely-guarantee:
`Gentle` is what any command may do to the rest, `Grasp` what it does for its own
request, and each command is shown to be both. `Silent`, `OwnOnly` and
`StopperOnly` follow. They rest on two preconditions of `pct`: a snapshot is not
made twice under one name, and only a running container is stopped. `Accounted`
compares the growth with the counters and the requests on their way to them, by
the library's facts about cardinalities. `RequestsEnd`: a request has at most
five steps (`Ahead`), each of its own lowers the number, and no other request,
however it interferes, raises it.

**RateLimiter.** The invariant `Sound` speaks of one client's window, its
history and its promises: what was appended later is at most `Wait` older, the
window has no more than `Limit` entries, and whatever of the history is missing
from the window is too old to matter. It is kept by appending, pruning and
eviction, one lemma each. `Bounded` counts the table after the eviction. `Earned` is the
converse of `Limited`: whoever is refused was let through as often as the limit
allows, in the window that ends with the refused request, so neither eviction
nor stamps out of order refuse a client wrongly.

**HealthProbe.** `Fresh` and `Spaced` follow from an invariant that dates the
cache: its result is at most a probe's timeout older than its time, and no
thread's last fork is later than what the thread or the cache knows of it.

**Only model-checked:** liveness, which is out of the prover's reach under
fairness. Every other property of the runs is proved. Of most liveness
properties the safety half is: that each step brings the end nearer and no step
of another takes it back. Fairness then has only to make the steps happen.

| Property (run) | Proved of it | Left to TLC |
|---|---|---|
| `CycleEnds` (Loop) | `CycleBounded` | that the next step is enabled and taken |
| `StartsEnd` (Lock) | `StartsBounded` | the same |
| `BatchEnds` (Fetch) | `BatchAdvances`, `NoStarvation` | the same |
| `EveryRequestEnds` (LxcRoutes) | `RequestsEnd` | the same |
| `HotReachesCeiling` (Loop) | `HotIsKept` | that a hot axis does move |
| `SteadyDemandSettles` (Loop) | `NoTurningRound` | that moves come to an end |
| `Recovers` (Fetch) | - | all: it needs time to pass |
| `SnapshotArrives` (FileSafe), `KeepsReporting` (Collect) | - | all: a cycle that fails is repeated, so no rank falls |

## <a name="not-modelled"></a>What is not modelled

`PROJECT.json` has a note for every component. In short: numerics (features,
IsolationForest) are out of TLC's reach and reach the loop only as confidence
and failure; logging, Prometheus counters, YAML reading, installers and the
documentation site are I/O; authentication and validation are functions of one
request and appear as a request that is refused or never accepted; routes that
only read change nothing; the other counters are incremented and never read.
The memory probe carries no data, so its 0 MB fallback (`lxc_monitor.py:437`) is
listed as a hazard without a property, as is pandas' inference of one timestamp
format for a whole file (`data_manager.py:59`).

## Plan

What is left, in the order of what it is worth:

1. **Pipeline**, composing MetricsCollection, MetricsFile and the load of
   ScalingLoop: which rows of which snapshot a decision is made on (newest
   stamp, stale rows of departed containers, a record whose stamp pandas cannot
   parse). Abstract specification: every decision is on a reading of that
   container's present life no older than the limit. The memory probe joins
   MetricsCollection with its 0 MB fallback.
2. A clone request that is retried by its caller, composed of LxcRoutes and
   RateLimiter; commands that take effect after their timeout.
3. Proofs: a rank for a monitor's cycle, as those of the other components; the
   refinement of the pipeline's abstract specification.
