----------------------- MODULE MetricsCollection_proofs -----------------------
(***************************************************************************)
(* Proofs about MetricsCollection, for any containers, retry limit, lives  *)
(* and faults, whenever containers stop and start.  The invariant follows  *)
(* a CPU sample from the cache to the snapshot: Sampled relates its        *)
(* counters to the container's, Kin its life to what listings have parted. *)
(***************************************************************************)
EXTENDS MetricsCollection, FiniteSetTheorems, TLAPS

USE CollectionAssumption

(* The difference of two samples of one life is one of CPU time used.      *)
Grew(old, new) ==
    /\ old.idle <= new.idle
    /\ old.total - old.idle <= new.total - new.idle

(* A cached sample is not of a later life than the container is in.        *)
Sampled(c) ==
    /\ count[c].idle <= count[c].total
    /\ prev[c].life <= count[c].life
    /\ prev[c].life = count[c].life => Grew(prev[c], count[c])

(* No listing has parted its life from the present or the next one, nor    *)
(* the life of a running container from itself.                            *)
Kin(c) ==
    /\ prev[c] # NoSample => since[c] <= prev[c].life
    /\ since[c] <= count[c].life + 1
    /\ c \in up => since[c] <= count[c].life

(* A record that reached the cycle, or a snapshot, is right.               *)
Right(u) ==
    /\ u.span # "two lives" /\ u.cpu # "none"
    /\ u.span = "one life" => (u.cpu = "0" <=> u.busy = 0)

(* The types of everything but the records.                                *)
Lean ==
    /\ up \subseteq Containers
    /\ count \in [Containers -> Counters]
    /\ since \in [Containers -> 1..(MaxLives + 1)]
    /\ prev \in [Containers -> Counters \cup {NoSample}]
    /\ pc \in {"sleep", "collect", "export", "down"}
    /\ stage \in [Containers -> {"off", "cpu", "rest", "done"}]
    /\ try \in [Containers -> 1..RetryLimit]
    /\ budget \in 0..MaxFaults

(* What is a record.                                                       *)
LEMMA RecordIs ==
    ASSUME NEW cpu \in {"none", "0", "above 0"},
           NEW span \in {"none", "unread", "one life", "overlooked", "two lives"},
           NEW busy \in 0..MaxTicks, NEW at \in 0..Cardinality(Containers)
    PROVE  [cpu |-> cpu, span |-> span, busy |-> busy, at |-> at] \in Record
BY DEF Record

(* What the difference of two samples tells.                               *)
LEMMA UsageIs ==
    ASSUME NEW old \in Counters \cup {NoSample}, NEW new \in Counters, NEW first \in Nat,
           old.life = new.life => Grew(old, new)
    PROVE  /\ Usage(old, new, first) \in Record
           /\ Usage(old, new, first) # NoUsage
           /\ old.life = new.life \/ first <= old.life => Right(Usage(old, new, first))
<1> DEFINE u == Usage(old, new, first)
           more == new.total - old.total
           cpu == Percent(new.idle - old.idle, more)
           busy == IF old.life = new.life
                   THEN (new.total - new.idle) - (old.total - old.idle)
                   ELSE 0
           span == Span(old, new, first)
<1>1. /\ old.total \in 0..MaxTicks /\ old.idle \in 0..MaxTicks
      /\ new.total \in 0..MaxTicks /\ new.idle \in 0..MaxTicks
    BY DEF Counters, NoSample
<1>2. u = [cpu |-> cpu, span |-> span, busy |-> busy, at |-> 0]
    BY DEF Usage
<1>3. cpu \in {"0", "above 0"}
    BY DEF Percent
<1>4. busy \in 0..MaxTicks
    BY <1>1 DEF Grew
<1>5. ASSUME old.life = new.life PROVE cpu = "0" <=> busy = 0
    <2>1. cpu = "0" <=> ~(more > 0 /\ new.idle - old.idle < more)
        BY DEF Percent
    <2>2. busy = more - (new.idle - old.idle)
        BY <1>1, <1>5
    <2> QED BY <1>1, <1>5, <2>1, <2>2 DEF Grew
<1>6. /\ span \in {"one life", "overlooked", "two lives"}
      /\ span = "one life" => old.life = new.life
      /\ old.life = new.life \/ first <= old.life => span # "two lives"
    BY DEF Span
<1> HIDE DEF cpu, busy, span, u
<1>7. u.cpu = cpu /\ u.busy = busy /\ u.span = span
    BY <1>2
<1>8. old.life = new.life \/ first <= old.life => Right(u)
    <2>1. u.cpu # "none"
        BY <1>3, <1>7
    <2>2. u.span = "one life" => (u.cpu = "0" <=> u.busy = 0)
        BY <1>5, <1>6, <1>7
    <2>3. old.life = new.life \/ first <= old.life => u.span # "two lives"
        BY <1>6, <1>7
    <2> QED BY <2>1, <2>2, <2>3 DEF Right
<1>9. u \in Record
    <2>1. 0 \in 0..Cardinality(Containers)
        BY FS_CardinalityType
    <2>2. cpu \in {"none", "0", "above 0"}
        BY <1>3, Zenon
    <2>3. span \in {"none", "unread", "one life", "overlooked", "two lives"}
        BY <1>6, Zenon
    <2> QED BY <1>2, <1>4, <2>1, <2>2, <2>3, RecordIs
<1>10. u # NoUsage
    <2>1. u.cpu # "none"
        BY <1>3, <1>7
    <2> QED BY <2>1 DEF NoUsage
<1> QED BY <1>8, <1>9, <1>10 DEF u

(* Every action keeps the types.                                           *)
LEMMA LeanStep ==
    ASSUME Lean, \A c \in Containers : Sampled(c), [Next]_vars
    PROVE  Lean'
<1> USE DEF Lean
<1>1. ASSUME NEW c \in Containers, Work(c) PROVE Lean'
    <2>1. PICK idle \in {0, 1} : count' = [count EXCEPT ![c] = Tick(count[c], idle)]
        BY <1>1 DEF Work
    <2>2. count[c] \in Counters /\ count[c].total < MaxTicks /\ count[c].idle <= count[c].total
        BY <1>1 DEF Work, Sampled
    <2>3. Tick(count[c], idle) \in Counters
        BY <2>2 DEF Tick, Counters
    <2> QED BY <1>1, <2>1, <2>3 DEF Work
<1>2. ASSUME NEW c \in Containers, Stop(c) PROVE Lean'
    BY <1>2 DEF Stop
<1>3. ASSUME NEW c \in Containers, StartUp(c) PROVE Lean'
    <2>1. Fresh(count[c].life + 1) \in Counters
        BY <1>3 DEF StartUp, Fresh, Counters
    <2> QED BY <1>3, <2>1 DEF StartUp
<1>4. CASE List
    <2>1. \A c \in Containers : count[c].life + 1 \in 1..(MaxLives + 1)
        BY DEF Counters
    <2> QED BY <1>4, <2>1 DEF List
<1>5. ASSUME NEW c \in Containers, CpuOk(c) PROVE Lean'
    BY <1>5 DEF CpuOk, node
<1>6. ASSUME NEW c \in Containers, CpuFails(c) \/ CpuUnread(c) PROVE Lean'
    BY <1>6 DEF CpuFails, CpuUnread, Fault, node
<1>7. ASSUME NEW c \in Containers, Stamp(c) PROVE Lean'
    BY <1>7 DEF Stamp, node
<1>8. CASE Gather
    BY <1>8 DEF Gather, node
<1>9. CASE Export \/ Restart \/ ListFails
    BY <1>9 DEF Export, Restart, ListFails, Fault, node
<1>10. CASE Crash
    BY <1>10 DEF Crash, Fault, node
<1>11. CASE UNCHANGED vars
    BY <1>11 DEF vars, node
<1> QED BY <1>1, <1>2, <1>3, <1>4, <1>5, <1>6, <1>7, <1>8, <1>9, <1>10, <1>11
        DEF Next, Node, Cycle, Task

(* No sample is ever of a life to come, or ahead of the counters.          *)
LEMMA SampledStep ==
    ASSUME Lean, \A c \in Containers : Sampled(c), [Next]_vars
    PROVE  \A c \in Containers : Sampled(c)'
<1> SUFFICES ASSUME NEW c \in Containers PROVE Sampled(c)'
    OBVIOUS
<1>0. /\ count[c] \in Counters /\ prev[c] \in Counters \cup {NoSample} /\ Sampled(c)
      /\ count \in [Containers -> Counters] /\ prev \in [Containers -> Counters \cup {NoSample}]
    BY DEF Lean
<1>1. ASSUME NEW d \in Containers, Work(d) PROVE Sampled(c)'
    <2>1. PICK idle \in {0, 1} : count' = [count EXCEPT ![d] = Tick(count[d], idle)]
        BY <1>1 DEF Work
    <2>2. prev' = prev
        BY <1>1 DEF Work
    <2>3. CASE c = d
        BY <1>0, <2>1, <2>2, <2>3 DEF Sampled, Grew, Tick, Counters, NoSample
    <2>4. CASE c # d
        BY <1>0, <2>1, <2>2, <2>4 DEF Sampled, Grew
    <2> QED BY <2>3, <2>4
<1>2. ASSUME NEW d \in Containers, StartUp(d) PROVE Sampled(c)'
    <2>1. count' = [count EXCEPT ![d] = Fresh(count[d].life + 1)] /\ prev' = prev
        BY <1>2 DEF StartUp
    <2>3. CASE c = d
        BY <1>0, <2>1, <2>3 DEF Sampled, Grew, Fresh, Counters, NoSample
    <2>4. CASE c # d
        BY <1>0, <2>1, <2>4 DEF Sampled, Grew
    <2> QED BY <2>3, <2>4
<1>3. CASE count' = count /\ (prev'[c] = prev[c] \/ prev'[c] = NoSample)
    BY <1>0, <1>3 DEF Sampled, Grew, Counters, NoSample
<1>4. ASSUME NEW d \in Containers, CpuOk(d) PROVE Sampled(c)'
    <2>1. count' = count /\ (prev' = prev \/ prev' = [prev EXCEPT ![d] = count[d]])
        BY <1>4 DEF CpuOk, node
    <2>2. prev'[c] = prev[c] \/ prev'[c] = count[c]
        BY <1>0, <2>1
    <2> QED BY <1>0, <2>1, <2>2 DEF Sampled, Grew, Counters
<1>5. CASE List \/ Crash
    BY <1>3, <1>5 DEF List, Crash, node
<1>6. CASE Gather \/ Export \/ Restart \/ ListFails \/ UNCHANGED vars
    BY <1>3, <1>6 DEF Gather, Export, Restart, ListFails, vars, node
<1>7. ASSUME NEW d \in Containers, Stop(d) \/ CpuFails(d) \/ CpuUnread(d) \/ Stamp(d)
      PROVE  Sampled(c)'
    BY <1>3, <1>7 DEF Stop, CpuFails, CpuUnread, Stamp, node
<1> QED BY <1>1, <1>2, <1>4, <1>5, <1>6, <1>7 DEF Next, Node, Cycle, Task

(* Forgetting the departed keeps lives apart (lxc_monitor.py:110-118).     *)
LEMMA KinStep ==
    ASSUME Lean, \A c \in Containers : Kin(c), [Next]_vars
    PROVE  \A c \in Containers : Kin(c)'
<1> SUFFICES ASSUME NEW c \in Containers PROVE Kin(c)'
    OBVIOUS
<1>0. /\ Kin(c) /\ since \in [Containers -> 1..(MaxLives + 1)] /\ up \subseteq Containers
      /\ count \in [Containers -> Counters] /\ prev \in [Containers -> Counters \cup {NoSample}]
    BY DEF Lean
<1>1. ASSUME NEW d \in Containers, Work(d) PROVE Kin(c)'
    <2>1. PICK idle \in {0, 1} : count' = [count EXCEPT ![d] = Tick(count[d], idle)]
        BY <1>1 DEF Work
    <2>2. count'[c].life = count[c].life
        BY <1>0, <2>1 DEF Tick
    <2> QED BY <1>0, <1>1, <2>2 DEF Kin, Work
<1>2. ASSUME NEW d \in Containers, StartUp(d) PROVE Kin(c)'
    <2>1. /\ count' = [count EXCEPT ![d] = Fresh(count[d].life + 1)] /\ prev' = prev
          /\ since' = since /\ up' = up \cup {d}
        BY <1>2 DEF StartUp
    <2>3. CASE c = d
        BY <1>0, <2>1, <2>3 DEF Kin, Fresh, Counters
    <2>4. CASE c # d
        BY <1>0, <2>1, <2>4 DEF Kin
    <2> QED BY <2>3, <2>4
<1>3. CASE List
    <2>1. CASE up = {}
        BY <1>0, <1>3, <2>1 DEF List, Kin
    <2>2. CASE up # {}
        <3>1. /\ prev' = [d \in Containers |-> IF d \in up THEN prev[d] ELSE NoSample]
              /\ since' = [d \in Containers |-> IF d \in up THEN since[d] ELSE count[d].life + 1]
              /\ up' = up /\ count' = count
            BY <1>3, <2>2 DEF List
        <3>2. CASE c \in up
            BY <1>0, <3>1, <3>2 DEF Kin
        <3>3. CASE c \notin up
            <4>1. prev'[c] = NoSample /\ since'[c] = count'[c].life + 1 /\ c \notin up'
                BY <3>1, <3>3
            <4>2. since'[c] <= count'[c].life + 1
                BY <1>0, <3>1, <4>1 DEF Counters
            <4> QED BY <4>1, <4>2 DEF Kin
        <3> QED BY <3>2, <3>3
    <2> QED BY <2>1, <2>2
<1>4. ASSUME NEW d \in Containers, CpuOk(d) PROVE Kin(c)'
    <2>1. /\ up' = up /\ since' = since /\ count' = count /\ d \in up
          /\ prev' = prev \/ prev' = [prev EXCEPT ![d] = count[d]]
        BY <1>4 DEF CpuOk, node
    <2> QED BY <1>0, <2>1 DEF Kin
<1>5. CASE Crash
    BY <1>0, <1>5 DEF Crash, Kin, node
<1>6. ASSUME NEW d \in Containers, Stop(d) \/ CpuFails(d) \/ CpuUnread(d) \/ Stamp(d)
      PROVE  Kin(c)'
    BY <1>0, <1>6 DEF Stop, CpuFails, CpuUnread, Stamp, node, Kin
<1>7. CASE Gather \/ Export \/ Restart \/ ListFails \/ UNCHANGED vars
    BY <1>0, <1>7 DEF Gather, Export, Restart, ListFails, vars, node, Kin
<1> QED BY <1>1, <1>2, <1>3, <1>4, <1>5, <1>6, <1>7 DEF Next, Node, Cycle, Task
-----------------------------------------------------------------------------
(* The records under way and those of the snapshot.                        *)
Done == {c \in Containers : stage[c] = "done"}

Recorded ==
    /\ usage \in [Containers -> Record]
    /\ DOMAIN snap \subseteq Containers
    /\ \A c \in DOMAIN snap : snap[c] \in Record
    /\ clock \in Nat /\ clock <= Cardinality(Done)
    /\ pc # "collect" => clock = 0 /\ \A c \in Containers : stage[c] = "off"

(* The same, of what they say.                                             *)
Truthful ==
    /\ \A c \in Containers : usage[c] # NoUsage => Right(usage[c])
    /\ \A c \in DOMAIN snap : Right(snap[c])

(* The timestamps of a cycle are as many as the tasks that are through.    *)
LEMMA DoneIs ==
    /\ IsFiniteSet(Done) /\ Cardinality(Done) \in Nat /\ Cardinality(Done) <= Cardinality(Containers)
    /\ IsFiniteSet(Done') /\ Cardinality(Done') \in Nat
<1>1. Done \subseteq Containers /\ Done' \subseteq Containers
    BY DEF Done
<1> QED BY <1>1, FS_Subset, FS_CardinalityType

(* A new reading.                                                          *)
LEMMA CpuOkIs ==
    ASSUME Lean, NEW c \in Containers, Sampled(c), Kin(c), CpuOk(c)
    PROVE  \E u \in Record :
               usage' = [usage EXCEPT ![c] = u] /\ (u # NoUsage => Right(u))
<1>0. /\ count[c] \in Counters /\ prev[c] \in Counters \cup {NoSample} /\ since[c] \in Nat
    BY DEF Lean
<1>1. CASE count[c].total = 0
    <2> DEFINE u == Usage(count[c], count[c], since[c])
    <2>1. Grew(count[c], count[c])
        BY <1>0 DEF Grew, Counters
    <2>2. u \in Record /\ Right(u)
        BY <1>0, <2>1, UsageIs
    <2>3. usage' = [usage EXCEPT ![c] = u]
        BY <1>1 DEF CpuOk
    <2> QED BY <2>2, <2>3
<1>2. CASE count[c].total # 0 /\ prev[c] = NoSample
    <2>1. NoUsage \in Record
        <3>1. 0 \in 0..Cardinality(Containers) /\ 0 \in 0..MaxTicks
            BY FS_CardinalityType
        <3> QED BY <3>1 DEF NoUsage, Record
    <2> QED BY <1>2, <2>1 DEF CpuOk
<1>3. CASE count[c].total # 0 /\ prev[c] # NoSample
    <2> DEFINE u == Usage(prev[c], count[c], since[c])
    <2>1. u \in Record /\ (since[c] <= prev[c].life => Right(u))
        BY <1>0, UsageIs DEF Sampled
    <2>2. usage' = [usage EXCEPT ![c] = u]
        BY <1>3 DEF CpuOk
    <2>3. since[c] <= prev[c].life
        BY <1>3 DEF Kin
    <2> QED BY <2>1, <2>2, <2>3
<1> QED BY <1>1, <1>2, <1>3

(* What could not be read is a record too, and claims no life.             *)
LEMMA UnreadIs == Unread \in Record /\ Right(Unread)
<1>1. 0 \in 0..Cardinality(Containers) /\ 0 \in 0..MaxTicks
    BY FS_CardinalityType
<1> QED BY <1>1 DEF Unread, Record, Right

(* A timestamp changes nothing else.                                       *)
LEMMA StampedIs ==
    ASSUME NEW u \in Record, NEW now \in 0..Cardinality(Containers)
    PROVE  Stamped(u, now) \in Record /\ (Right(u) => Right(Stamped(u, now)))
BY DEF Stamped, Record, Right

(* What a step does to them.                                               *)
LEMMA RecordedStep ==
    ASSUME Lean, \A c \in Containers : Sampled(c) /\ Kin(c), Recorded, [Next]_vars
    PROVE  Recorded'
<1> USE DEF Recorded
<1>0. NoUsage \in Record /\ Cardinality(Containers) \in Nat
    <2>1. Cardinality(Containers) \in Nat
        BY FS_CardinalityType
    <2>2. 0 \in 0..Cardinality(Containers) /\ 0 \in 0..MaxTicks
        BY <2>1
    <2> QED BY <2>1, <2>2 DEF NoUsage, Record
<1>1. CASE UNCHANGED <<pc, stage, usage, snap, clock>>
    BY <1>1 DEF Done
<1>2. CASE List
    <2>1. usage' = usage /\ snap' = snap /\ clock' = clock /\ clock = 0
        BY <1>2 DEF List
    <2>2. CASE up = {}
        BY <1>1, <1>2, <2>1, <2>2 DEF List
    <2>3. CASE up # {}
        BY <1>2, <2>1, <2>3, DoneIs DEF List
    <2> QED BY <2>2, <2>3
<1>3. ASSUME NEW c \in Containers, CpuOk(c) PROVE Recorded'
    <2>0. Sampled(c) /\ Kin(c)
        OBVIOUS
    <2>1. PICK u \in Record : usage' = [usage EXCEPT ![c] = u]
        BY <1>3, <2>0, CpuOkIs
    <2>2. /\ stage[c] = "cpu" /\ stage' = [stage EXCEPT ![c] = "rest"]
          /\ pc' = pc /\ snap' = snap /\ clock' = clock
        BY <1>3 DEF CpuOk
    <2>3. Done' = Done
        BY <2>2 DEF Done, Lean
    <2> QED BY <2>1, <2>2, <2>3
<1>4. ASSUME NEW c \in Containers, CpuFails(c) PROVE Recorded'
    <2>1. /\ stage[c] = "cpu" /\ stage' \in {stage, [stage EXCEPT ![c] = "rest"]}
          /\ pc' = pc /\ snap' = snap /\ clock' = clock /\ usage' = usage
        BY <1>4 DEF CpuFails
    <2>2. Done' = Done
        BY <2>1 DEF Done, Lean
    <2> QED BY <2>1, <2>2
<1>5. ASSUME NEW c \in Containers, CpuUnread(c) PROVE Recorded'
    <2>1. /\ stage[c] = "cpu" /\ stage' = [stage EXCEPT ![c] = "rest"]
          /\ pc' = pc /\ snap' = snap /\ clock' = clock
          /\ usage' = [usage EXCEPT ![c] = Unread]
        BY <1>5 DEF CpuUnread
    <2>2. Done' = Done
        BY <2>1 DEF Done, Lean
    <2> QED BY <2>1, <2>2, UnreadIs
<1>6. ASSUME NEW c \in Containers, Stamp(c) PROVE Recorded'
    <2>1. /\ stage[c] = "rest" /\ stage' = [stage EXCEPT ![c] = "done"]
          /\ pc' = pc /\ snap' = snap
        BY <1>6 DEF Stamp
    <2>2. Done' = Done \cup {c} /\ c \notin Done
        BY <2>1 DEF Done, Lean
    <2>3. Cardinality(Done') = Cardinality(Done) + 1
        BY <2>2, DoneIs, FS_AddElement
    <2>4. Cardinality(Done') <= Cardinality(Containers)
        BY FS_Subset DEF Done
    <2>5. CASE usage[c] = NoUsage
        BY <1>6, <2>1, <2>3, <2>5, DoneIs DEF Stamp
    <2>6. CASE usage[c] # NoUsage
        <3>1. clock + 1 \in 0..Cardinality(Containers)
            BY <1>0, <2>3, <2>4, DoneIs
        <3>2. Stamped(usage[c], clock + 1) \in Record
            BY <3>1, StampedIs
        <3>3. clock' = clock + 1 /\ usage' = [usage EXCEPT ![c] = Stamped(usage[c], clock + 1)]
            BY <1>6, <2>6 DEF Stamp
        <3> QED BY <2>1, <2>3, <3>2, <3>3, DoneIs
    <2> QED BY <2>5, <2>6
<1>7. CASE Gather
    <2>1. snap' = snap \/ (snap' = [c \in Collected |-> usage[c]] /\ Collected \subseteq Containers)
        BY <1>7 DEF Gather, Collected
    <2>2. DOMAIN snap' \subseteq Containers /\ \A c \in DOMAIN snap' : snap'[c] \in Record
        BY <2>1
    <2>3. clock' = 0 /\ usage' = [c \in Containers |-> NoUsage] /\ stage' = [c \in Containers |-> "off"]
        BY <1>7 DEF Gather
    <2> QED BY <1>0, <2>2, <2>3, DoneIs
<1>8. CASE Crash
    <2>1. DOMAIN snap' = {}
        BY <1>8 DEF Crash
    <2> QED BY <1>0, <1>8, <2>1, DoneIs DEF Crash
<1>9. CASE Export \/ Restart
    <2>1. DOMAIN snap' = {} \/ snap' = snap
        BY <1>9 DEF Export, Restart
    <2> QED BY <1>9, <2>1 DEF Export, Restart, Done
<1>10. ASSUME NEW c \in Containers, Work(c) \/ Stop(c) \/ StartUp(c) PROVE Recorded'
    BY <1>1, <1>10 DEF Work, Stop, StartUp
<1>11. CASE ListFails \/ UNCHANGED vars
    BY <1>1, <1>11 DEF ListFails, vars
<1> QED BY <1>2, <1>3, <1>4, <1>5, <1>6, <1>7, <1>8, <1>9, <1>10, <1>11
        DEF Next, Node, Cycle, Task

(* And they tell the truth.                                                *)
LEMMA TruthfulStep ==
    ASSUME Lean, \A c \in Containers : Sampled(c) /\ Kin(c), Recorded, Truthful, [Next]_vars
    PROVE  Truthful'
<1> USE DEF Truthful
<1>0. usage \in [Containers -> Record]
    BY DEF Recorded
<1>1. CASE UNCHANGED <<usage, snap>>
    BY <1>1
<1>2. ASSUME NEW c \in Containers, CpuOk(c) PROVE Truthful'
    <2>0. Sampled(c) /\ Kin(c)
        OBVIOUS
    <2>1. PICK u \in Record : usage' = [usage EXCEPT ![c] = u] /\ (u # NoUsage => Right(u))
        BY <1>2, <2>0, CpuOkIs
    <2>2. snap' = snap
        BY <1>2 DEF CpuOk
    <2> QED BY <1>0, <2>1, <2>2
<1>3. ASSUME NEW c \in Containers, CpuUnread(c) PROVE Truthful'
    BY <1>0, <1>3, UnreadIs DEF CpuUnread
<1>4. ASSUME NEW c \in Containers, Stamp(c) PROVE Truthful'
    <2>1. snap' = snap
        BY <1>4 DEF Stamp
    <2>2. CASE usage[c] = NoUsage
        BY <1>1, <1>4, <2>1, <2>2 DEF Stamp
    <2>3. CASE usage[c] # NoUsage
        <3>1. usage' = [usage EXCEPT ![c] = Stamped(usage[c], clock + 1)]
            BY <1>4, <2>3 DEF Stamp
        <3>2. Right(usage[c]) => Right(Stamped(usage[c], clock + 1))
            BY DEF Right, Stamped
        <3> QED BY <1>0, <2>1, <2>3, <3>1, <3>2
    <2> QED BY <2>2, <2>3
<1>5. CASE Gather
    <2>1. snap' = snap \/ snap' = [c \in Collected |-> usage[c]]
        BY <1>5 DEF Gather
    <2>2. \A c \in Collected : c \in Containers /\ usage[c] # NoUsage
        BY DEF Collected
    <2>3. \A c \in DOMAIN snap' : Right(snap'[c])
        BY <2>1, <2>2
    <2> QED BY <1>5, <2>3 DEF Gather
<1>6. CASE Crash \/ Export
    <2>1. DOMAIN snap' = {}
        BY <1>6 DEF Crash, Export
    <2> QED BY <1>6, <2>1 DEF Crash, Export
<1>7. CASE List \/ Restart \/ ListFails \/ UNCHANGED vars
    BY <1>1, <1>7 DEF List, Restart, ListFails, vars
<1>8. ASSUME NEW c \in Containers, Work(c) \/ Stop(c) \/ StartUp(c) \/ CpuFails(c) PROVE Truthful'
    BY <1>1, <1>8 DEF Work, Stop, StartUp, CpuFails
<1> QED BY <1>2, <1>3, <1>4, <1>5, <1>6, <1>7, <1>8 DEF Next, Node, Cycle, Task

-----------------------------------------------------------------------------
(* The inductive invariant.                                                *)
IInv == Lean /\ (\A c \in Containers : Sampled(c) /\ Kin(c)) /\ Recorded /\ Truthful

(* It holds at first, and a step keeps it.                                 *)
LEMMA IInvAlways == Spec => []IInv
<1>1. Init => IInv
    <2> SUFFICES ASSUME Init PROVE IInv
        OBVIOUS
    <2>1. Fresh(1) \in Counters /\ Fresh(1).idle = 0 /\ Fresh(1).total = 0 /\ Fresh(1).life = 1
          /\ NoSample.life = 0
        BY DEF Fresh, Counters, NoSample
    <2>2. Lean
        BY <2>1 DEF Init, Lean
    <2>3. \A c \in Containers : Sampled(c) /\ Kin(c)
        BY <2>1 DEF Init, Sampled, Kin
    <2>4. DOMAIN snap = {}
        BY DEF Init
    <2>5. NoUsage \in Record
        <3>1. 0 \in 0..Cardinality(Containers) /\ 0 \in 0..MaxTicks
            BY FS_CardinalityType
        <3> QED BY <3>1 DEF NoUsage, Record
    <2>6. Recorded
        BY <2>4, <2>5, DoneIs DEF Init, Recorded
    <2>7. Truthful
        BY <2>4 DEF Init, Truthful
    <2> QED BY <2>2, <2>3, <2>6, <2>7 DEF IInv
<1>2. IInv /\ [Next]_vars => IInv'
    BY LeanStep, SampledStep, KinStep, RecordedStep, TruthfulStep DEF IInv
<1> QED BY <1>1, <1>2, PTL DEF Spec

(* The monitor's state keeps its types.                                    *)
THEOREM TypeCorrect == Spec => []TypeOK
<1>1. IInv => TypeOK
    BY DoneIs, FS_CardinalityType DEF IInv, Lean, Recorded, TypeOK
<1> QED BY <1>1, IInvAlways, PTL

(* Whenever containers stop and start, and whatever fails: no recorded     *)
(* usage compares a container with a life from which a listing has parted  *)
(* it (lxc_monitor.py:110-118, 271-272, 464).                              *)
THEOREM OneLife == Spec => []UsageOfOneLife
<1>1. IInv => UsageOfOneLife
    BY DEF IInv, Truthful, Right, UsageOfOneLife
<1> QED BY <1>1, IInvAlways, PTL

(* A recorded zero of one life is an idle container, and the other way     *)
(* round; a probe that gave up leaves no record (lxc_monitor.py:281-294,   *)
(* 423-430).                                                               *)
THEOREM ZeroIsIdle == Spec => []ZeroMeansIdle
<1>1. IInv => ZeroMeansIdle
    BY DEF IInv, Truthful, Right, ZeroMeansIdle
<1> QED BY <1>1, IInvAlways, PTL
================================================================================
