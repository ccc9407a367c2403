----------------------------- MODULE HealthProbe -----------------------------
(***************************************************************************)
(* health_check.py: the result of `pct list` is cached, looked up under a  *)
(* lock, and refilled after a probe that runs outside it.  A result is     *)
(* represented by the moment at which it was true of `pct`.                *)
(***************************************************************************)
EXTENDS ApiClock

CONSTANTS
    CacheTime,   \* PROBE_CACHE_SECONDS
    ProbeTimeout \* PROBE_TIMEOUT_SECONDS

ASSUME ProbeAssumption == CacheTime \in Nat /\ ProbeTimeout \in Nat

VARIABLES
    cache,   \* _probe_cache
    look,    \* what each thread is doing in _cached_check_pct
    lastFork \* history: when each thread last forked, or Never

vars == <<now, cache, look, lastFork>>

None  == -1
Never == -1 - CacheTime

Away == [at |-> "away", time |-> 0, asOf |-> None]

(* time: the clock as first read, then the time of the fork.               *)
Looks == [at: {"away", "lock", "probe", "store"}, time: Nat, asOf: Nat \cup {None}]

Init ==
    /\ now = 0
    /\ cache = [at |-> 0, asOf |-> None]
    /\ look = [t \in Threads |-> Away]
    /\ lastFork = [t \in Threads |-> Never]

-----------------------------------------------------------------------------
(* health_check asks; the clock is read before the lock. *)
Ask(t) ==
    /\ look[t] = Away
    /\ look' = [look EXCEPT ![t] = [at |-> "lock", time |-> now, asOf |-> None]]
    /\ UNCHANGED <<now, cache, lastFork>>

\* Mutant: a result does not expire.
CachedAny(t) == cache.asOf # None

(* There is a result, and it is recent. *)
Cached(t) == cache.asOf # None /\ look[t].time - cache.at < CacheTime

Hit(t) ==
    /\ look[t].at = "lock"
    /\ Cached(t)
    /\ look' = [look EXCEPT ![t] = Away]
    /\ UNCHANGED <<now, cache, lastFork>>

(* The lock is given back and `pct list` is started. *)
Miss(t) ==
    /\ look[t].at = "lock"
    /\ ~Cached(t)
    /\ look' = [look EXCEPT ![t] = [at |-> "probe", time |-> now, asOf |-> None]]
    /\ lastFork' = [lastFork EXCEPT ![t] = now]
    /\ UNCHANGED <<now, cache>>

(* `pct list` answers, fails, or shows by its silence that it hangs. *)
Answers(t) ==
    /\ look[t].at = "probe"
    /\ look' = [look EXCEPT ![t] = [at |-> "store", time |-> look[t].time, asOf |-> now]]
    /\ UNCHANGED <<now, cache, lastFork>>

\* Mutant: the result is dated by the start of its probe.
StoreBackdated(t) ==
    /\ look[t].at = "store"
    /\ cache' = [at |-> look[t].time, asOf |-> look[t].asOf]
    /\ look' = [look EXCEPT ![t] = Away]
    /\ UNCHANGED <<now, lastFork>>

(* The result is stored, also over one that a faster probe began later.    *)
Store(t) ==
    /\ look[t].at = "store"
    /\ cache' = [at |-> now, asOf |-> look[t].asOf]
    /\ look' = [look EXCEPT ![t] = Away]
    /\ UNCHANGED <<now, lastFork>>

(* Time passes.  Nobody waits longer than Wait for the lock, and no probe  *)
(* outlasts its timeout before its result is stored.                       *)
Tick ==
    /\ now < MaxTime
    /\ \A t \in Threads :
        /\ look[t].at = "lock" => now - look[t].time < Wait
        /\ look[t].at \in {"probe", "store"} => now - look[t].time < ProbeTimeout
    /\ now' = now + 1
    /\ UNCHANGED <<cache, look, lastFork>>

Next ==
    Tick \/ \E t \in Threads : Ask(t) \/ Hit(t) \/ Miss(t) \/ Answers(t) \/ Store(t)

Spec == Init /\ [][Next]_vars

-----------------------------------------------------------------------------
(* Types. *)
TypeOK ==
    /\ now \in 0..MaxTime
    /\ cache \in [at: Nat, asOf: Nat \cup {None}]
    /\ look \in [Threads -> Looks]
    /\ lastFork \in [Threads -> Nat \cup {Never}]

(* What a cached answer says was true of pct within the cache's time, a    *)
(* probe's and a wait for the lock, although a slow probe may overwrite    *)
(* the result of a later one.                                              *)
FreshEnough ==
    [][\A t \in Threads :
          look[t].at = "lock" /\ look'[t] = Away
              => now - cache.asOf < CacheTime + ProbeTimeout + Wait]_vars

(* One thread does not fork again within the cache's time, whatever it is  *)
(* asked and whoever else stores: `pct list` runs at most once per thread  *)
(* and interval.                                                           *)
ForksSpaced ==
    [][\A t \in Threads :
          lastFork'[t] # lastFork[t] => lastFork'[t] - lastFork[t] >= CacheTime]_vars

(* health_check.py:21-22: "Caching bounds that to one fork per interval    *)
(* regardless of request rate."  Threads that miss together all fork.      *)
OneForkPerInterval ==
    \A t, u \in Threads :
        t # u /\ lastFork[t] # Never /\ lastFork[t] <= lastFork[u]
            => lastFork[u] - lastFork[t] >= CacheTime
==============================================================================
