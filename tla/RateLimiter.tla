----------------------------- MODULE RateLimiter -----------------------------
(***************************************************************************)
(* rate_limiting.py: a window of access times per client address, shared   *)
(* by the threads under a lock.  The time is read before the lock is taken *)
(* (line 59 and line 66), so the entries of a window need not be in order. *)
(***************************************************************************)
EXTENDS ApiClock, FiniteSets

CONSTANTS
    Clients, \* addresses the limiter counts
    Local,   \* the exempt address
    Limit,   \* max_requests_per_minute
    Window,  \* time_window_seconds
    Ceiling  \* MAX_TRACKED_CLIENTS

ASSUME LimiterAssumption ==
    /\ Local \notin Clients
    /\ IsFiniteSet(Clients)
    /\ Limit \in Nat \ {0}
    /\ Window \in Nat /\ Wait < Window
    /\ Ceiling \in Nat

VARIABLES
    windows,  \* rate_limit_data; {} for a client that has no entry
    caller,   \* whose request each thread serves, and how far it is
    admitted, \* history: the requests let through since the client was last
              \* dropped to keep the ceiling
    served,   \* history: how many
    promised  \* history: when, by its Retry-After, a client will be let
              \* through; {} after an admission

vars == <<now, windows, caller, admitted, served, promised>>

(* The time of a request and its place in its client's list.               *)
Entry == [at: Nat, no: Nat]

Nobody == [at |-> "nobody", client |-> Local, stamp |-> 0]

Callers == [at: {"nobody", "lock", "view"}, client: Clients \cup {Local}, stamp: Nat]

Init ==
    /\ now = 0
    /\ windows = [c \in Clients |-> {}]
    /\ caller = [t \in Threads |-> Nobody]
    /\ admitted = [c \in Clients |-> {}]
    /\ served = [c \in Clients |-> 0]
    /\ promised = [c \in Clients |-> {}]

-----------------------------------------------------------------------------
(* A request arrives and the time is read; the exempt address, or anyone   *)
(* when rate_limiting.enabled is false, goes straight on.                  *)
Arrive(t) ==
    /\ caller[t] = Nobody
    /\ \E c \in Clients \cup {Local} :
        caller' = [caller EXCEPT ![t] =
            [at |-> IF c = Local THEN "view" ELSE "lock", client |-> c, stamp |-> now]]
    /\ UNCHANGED <<now, windows, admitted, served, promised>>

(* times[-1], the last one appended: not always the newest.                *)
LastOf(c) == CHOOSE e \in windows[c] : \A f \in windows[c] : f.no <= e.no

\* Mutant: the client is idle when its first request is old enough.
ActiveByFirst(x) ==
    {c \in Clients : windows[c] # {} /\ \A e \in windows[c] : x - e.at < Window}

(* The first half of _evict_idle_clients. *)
Active(x) == {c \in Clients : windows[c] # {} /\ x - LastOf(c).at < Window}

\* Mutant: without the hard ceiling.
KeptAll(x) == {Active(x)}

(* The second half: if they are too many, the least recently seen go; of   *)
(* equals either may (the order of the dictionary).                        *)
Kept(x) ==
    IF Cardinality(Active(x)) <= Ceiling THEN {Active(x)}
    ELSE {k \in SUBSET Active(x) :
            /\ Cardinality(k) = Ceiling
            /\ \A c \in k, d \in Active(x) \ k : LastOf(d).at <= LastOf(c).at}

(* The client's window as of x, unless it was just dropped. *)
Recent(c, x, kept) ==
    IF c \in kept THEN {e \in windows[c] : x - e.at < Window} ELSE {}

(* The table after the eviction, with w for client c. *)
Table(c, w, kept) ==
    [d \in Clients |-> IF d = c THEN w ELSE IF d \in kept THEN windows[d] ELSE {}]

(* The history of clients the ceiling dropped starts anew. *)
Starts(d, x, kept) == d \in Active(x) \ kept

ServedSince(x, kept) ==
    [d \in Clients |-> IF Starts(d, x, kept) THEN 0 ELSE served[d]]

AdmittedSince(x, kept) ==
    [d \in Clients |-> IF Starts(d, x, kept) THEN {} ELSE admitted[d]]

Earliest(es) == CHOOSE s \in {e.at : e \in es} : \A e \in es : s <= e.at

(* The moment at which Retry-After ends. *)
RetryAt(es) == Earliest(es) + Window + 1

\* Mutant: a refused request is counted too.
RefusedCounts(c, x, es) == es \cup {[at |-> x, no |-> served[c] + 1]}

(* What is written back for a refused request. *)
Refused(c, x, es) == es

(* The window is full: 429 with Retry-After. *)
Refuse(t) ==
    LET c == caller[t].client
        x == caller[t].stamp
    IN  /\ caller[t].at = "lock"
        /\ \E kept \in Kept(x) :
            LET recent == Recent(c, x, kept)
            IN  /\ Cardinality(recent) >= Limit
                /\ windows' = Table(c, Refused(c, x, recent), kept)
                /\ promised' = [promised EXCEPT ![c] = @ \cup {RetryAt(recent)}]
                /\ served' = ServedSince(x, kept)
                /\ admitted' = AdmittedSince(x, kept)
        /\ caller' = [caller EXCEPT ![t] = Nobody]
        /\ UNCHANGED now

(* There is room: the request is counted, and the view runs outside the    *)
(* lock.                                                                   *)
Admit(t) ==
    LET c == caller[t].client
        x == caller[t].stamp
    IN  /\ caller[t].at = "lock"
        /\ \E kept \in Kept(x) :
            LET recent == Recent(c, x, kept)
                entry  == [at |-> x, no |-> ServedSince(x, kept)[c] + 1]
            IN  /\ Cardinality(recent) < Limit
                /\ windows' = Table(c, recent \cup {entry}, kept)
                /\ served' = [ServedSince(x, kept) EXCEPT ![c] = @ + 1]
                /\ admitted' = [AdmittedSince(x, kept) EXCEPT ![c] = @ \cup {entry}]
        /\ promised' = [promised EXCEPT ![c] = {}]
        /\ caller' = [caller EXCEPT ![t].at = "view"]
        /\ UNCHANGED now

(* The view has returned. *)
Leave(t) ==
    /\ caller[t].at = "view"
    /\ caller' = [caller EXCEPT ![t] = Nobody]
    /\ UNCHANGED <<now, windows, admitted, served, promised>>

(* Time passes; nobody waits longer than Wait for the lock. *)
Tick ==
    /\ now < MaxTime
    /\ \A t \in Threads : caller[t].at = "lock" => now - caller[t].stamp < Wait
    /\ now' = now + 1
    /\ UNCHANGED <<windows, caller, admitted, served, promised>>

Next == Tick \/ \E t \in Threads : Arrive(t) \/ Refuse(t) \/ Admit(t) \/ Leave(t)

Spec == Init /\ [][Next]_vars

-----------------------------------------------------------------------------
(* Types. *)
TypeOK ==
    /\ now \in 0..MaxTime
    /\ windows \in [Clients -> SUBSET Entry]
    /\ caller \in [Threads -> Callers]
    /\ admitted \in [Clients -> SUBSET Entry]
    /\ served \in [Clients -> Nat]
    /\ promised \in [Clients -> SUBSET Nat]

(* However its requests overtake each other between reading the clock and  *)
(* the lock, and whoever's eviction runs in between, no client gets more   *)
(* than Limit requests through in a window; the skew of the stamps costs   *)
(* at most Wait of it.  (A client dropped to keep the ceiling starts anew.) *)
WindowKept ==
    \A c \in Clients :
        Cardinality({e \in admitted[c] : e.at > now - Window + Wait}) <= Limit

(* A scan of addresses cannot grow the table: at most one entry more than  *)
(* its ceiling, the client just served.                                    *)
TableBounded == Cardinality({c \in Clients : windows[c] # {}}) <= Ceiling + 1

(* A client that waits as long as Retry-After told it is let through,      *)
(* unless another request of its own was meanwhile: refusals do not extend *)
(* the window.                                                             *)
HonestRetry ==
    [][\A t \in Threads :
          caller[t].at = "lock" /\ caller'[t] = Nobody
              => \A r \in promised[caller[t].client] : caller[t].stamp < r]_vars

(* Nobody is turned away for nothing: who is refused was let through Limit *)
(* times in the window that ends with its request, however the requests    *)
(* overtook each other.  Refused requests do not count.                    *)
RefusalsEarned ==
    [][\A t \in Threads :
          caller[t].at = "lock" /\ caller'[t] = Nobody
              => LET c == caller[t].client
                 IN  Cardinality({e \in admitted[c] : caller[t].stamp - e.at < Window}) >= Limit]_vars
==============================================================================
