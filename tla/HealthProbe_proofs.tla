-------------------------- MODULE HealthProbe_proofs --------------------------
(***************************************************************************)
(* Proofs about HealthProbe, for any number of threads and any times.      *)
(***************************************************************************)
EXTENDS HealthProbe, TLAPS

USE ClockAssumption, ProbeAssumption

LEMMA TypeInit == Init => TypeOK
BY DEF Init, TypeOK, Looks, Away, None, Never

LEMMA TypeStep == TypeOK /\ [Next]_vars => TypeOK'
<1> SUFFICES ASSUME TypeOK, [Next]_vars PROVE TypeOK'
    OBVIOUS
<1> USE DEF TypeOK, Looks, Away, None
<1>1. CASE Tick
    BY <1>1 DEF Tick
<1>2. ASSUME NEW t \in Threads, Ask(t) PROVE TypeOK'
    BY <1>2 DEF Ask
<1>3. ASSUME NEW t \in Threads, Hit(t) PROVE TypeOK'
    BY <1>3 DEF Hit
<1>4. ASSUME NEW t \in Threads, Miss(t) PROVE TypeOK'
    BY <1>4 DEF Miss
<1>5. ASSUME NEW t \in Threads, Answers(t) PROVE TypeOK'
    BY <1>5 DEF Answers
<1>6. ASSUME NEW t \in Threads, Store(t) PROVE TypeOK'
    BY <1>6 DEF Store
<1>7. CASE UNCHANGED vars
    BY <1>7 DEF vars
<1> QED BY <1>1, <1>2, <1>3, <1>4, <1>5, <1>6, <1>7 DEF Next

(* The state keeps its types: _cached_check_pct. *)
THEOREM TypeCorrect == Spec => []TypeOK
BY TypeInit, TypeStep, PTL DEF Spec

-----------------------------------------------------------------------------
(* Nothing is dated later than now, and nobody waits or probes too long. *)
InTime ==
    /\ cache.at <= now
    /\ \A t \in Threads :
        /\ look[t].time <= now
        /\ look[t].at = "lock" => now - look[t].time <= Wait
        /\ look[t].at \in {"probe", "store"} => now - look[t].time <= ProbeTimeout
        /\ look[t].at = "store" => look[t].asOf # None /\ look[t].time <= look[t].asOf

(* A result is not older than a probe takes. *)
CacheAge == cache.asOf # None => cache.at - cache.asOf <= ProbeTimeout

(* A thread that has forked, and is not at it, has seen a result stored    *)
(* since: its own, or one stored later.                                    *)
ForkStored ==
    \A t \in Threads :
        look[t].at \in {"away", "lock"} /\ lastFork[t] # Never
            => cache.asOf # None /\ lastFork[t] <= cache.at

ForkPast == \A t \in Threads : lastFork[t] <= now

IInv == TypeOK /\ InTime /\ CacheAge /\ ForkStored /\ ForkPast

LEMMA IInvInit == Init => IInv
BY TypeInit DEF Init, IInv, InTime, CacheAge, ForkStored, ForkPast, Away, Never

LEMMA IInvStep == IInv /\ [Next]_vars => IInv'
<1> SUFFICES ASSUME IInv, [Next]_vars PROVE IInv'
    OBVIOUS
<1>0. TypeOK'
    BY TypeStep DEF IInv
<1> USE DEF IInv, TypeOK, Looks, Away, None, InTime, CacheAge, ForkStored, ForkPast
<1>1. CASE Tick
    <2>1. now' = now + 1 /\ now \in Nat /\ UNCHANGED <<cache, look, lastFork>>
        BY <1>1 DEF Tick
    <2>2. InTime'
        BY <1>1, <2>1 DEF Tick
    <2>3. CacheAge' /\ ForkStored'
        BY <2>1
    <2>4. ForkPast'
        BY <2>1 DEF Never
    <2> QED BY <1>0, <2>2, <2>3, <2>4
<1>2. ASSUME NEW t \in Threads, Ask(t) PROVE IInv'
    BY <1>0, <1>2 DEF Ask
<1>3. ASSUME NEW t \in Threads, Hit(t) PROVE IInv'
    BY <1>0, <1>3 DEF Hit
<1>4. ASSUME NEW t \in Threads, Miss(t) PROVE IInv'
    BY <1>0, <1>4 DEF Miss
<1>5. ASSUME NEW t \in Threads, Answers(t) PROVE IInv'
    BY <1>0, <1>5 DEF Answers
<1>6. ASSUME NEW t \in Threads, Store(t) PROVE IInv'
    BY <1>0, <1>6 DEF Store
<1>7. CASE UNCHANGED vars
    BY <1>0, <1>7 DEF vars
<1> QED BY <1>1, <1>2, <1>3, <1>4, <1>5, <1>6, <1>7 DEF Next

LEMMA IInvAlways == Spec => []IInv
BY IInvInit, IInvStep, PTL DEF Spec

-----------------------------------------------------------------------------
(* The age of a cached answer is the wait for the lock, what the cache     *)
(* allows, and what the probe took: health_check.py:28-38.                 *)
THEOREM Fresh == Spec => FreshEnough
<1> DEFINE A == \A t \in Threads :
                  look[t].at = "lock" /\ look'[t] = Away
                      => now - cache.asOf < CacheTime + ProbeTimeout + Wait
<1>1. IInv /\ [Next]_vars => [A]_vars
    <2> SUFFICES ASSUME IInv, Next, NEW t \in Threads,
                        look[t].at = "lock", look'[t] = Away
                 PROVE  now - cache.asOf < CacheTime + ProbeTimeout + Wait
        OBVIOUS
    <2> USE DEF IInv, TypeOK, Looks, Away, None
    <2>1. Hit(t)
        <3>1. ~Tick /\ look'[t] # look[t]
            BY DEF Tick
        <3>2. PICK u \in Threads : Ask(u) \/ Hit(u) \/ Miss(u) \/ Answers(u) \/ Store(u)
            BY <3>1 DEF Next
        <3>3. u = t
            BY <3>1, <3>2 DEF Ask, Hit, Miss, Answers, Store
        <3>4. ~Ask(t) /\ ~Answers(t) /\ ~Store(t)
            BY DEF Ask, Answers, Store
        <3>5. ~Miss(t)
            BY DEF Miss
        <3> QED BY <3>2, <3>3, <3>4, <3>5
    <2>2. now - look[t].time <= Wait /\ look[t].time - cache.at < CacheTime
          /\ cache.at - cache.asOf <= ProbeTimeout
        BY <2>1 DEF Hit, Cached, InTime, CacheAge
    <2>3. now \in Int /\ look[t].time \in Int /\ cache.at \in Int /\ cache.asOf \in Int
        OBVIOUS
    <2> QED BY <2>2, <2>3
<1> QED BY <1>1, IInvAlways, PTL DEF Spec, FreshEnough

(* A thread that forks has seen nothing stored for the cache's time, and   *)
(* its own last result was: health_check.py:34-37.                         *)
THEOREM Spaced == Spec => ForksSpaced
<1> DEFINE A == \A t \in Threads :
                  lastFork'[t] # lastFork[t] => lastFork'[t] - lastFork[t] >= CacheTime
<1>1. IInv /\ [Next]_vars => [A]_vars
    <2> SUFFICES ASSUME IInv, Next, NEW t \in Threads, lastFork'[t] # lastFork[t]
                 PROVE  lastFork'[t] - lastFork[t] >= CacheTime
        OBVIOUS
    <2> USE DEF IInv, TypeOK, Looks, None
    <2>1. Miss(t)
        BY DEF Next, Tick, Ask, Hit, Miss, Answers, Store
    <2>2. lastFork'[t] = now /\ now \in Int /\ now >= 0
        BY <2>1 DEF Miss
    <2>3. CASE lastFork[t] = Never
        BY <2>2, <2>3 DEF Never
    <2>4. CASE lastFork[t] # Never
        <3>1. cache.asOf # None /\ lastFork[t] <= cache.at
            BY <2>1, <2>4 DEF Miss, ForkStored
        <3>2. look[t].time - cache.at >= CacheTime /\ look[t].time <= now
            BY <2>1, <3>1 DEF Miss, Cached, InTime
        <3>3. lastFork[t] \in Nat /\ cache.at \in Nat /\ look[t].time \in Nat
            BY <2>4
        <3> QED BY <2>2, <3>1, <3>2, <3>3
    <2> QED BY <2>3, <2>4
<1> QED BY <1>1, IInvAlways, PTL DEF Spec, ForksSpaced
===============================================================================
