-------------------------- MODULE IncrementalScaling --------------------------
(***************************************************************************)
(* What the autoscaler promises of a container's resources, with nothing   *)
(* of how it keeps the promise: "resources move by a configured step at a  *)
(* time, between a floor and a ceiling you set" (docs/index.md:23).  In    *)
(* each round an axis of a managed container moves at most once, and by an *)
(* AllowedMove; nothing else ever moves.                                   *)
(***************************************************************************)
EXTENDS ScalingDecision

CONSTANTS
    Managed,    \* containers that may be scaled
    Start       \* the initial allocations

VARIABLES
    alloc,      \* allocation per container and axis
    moved       \* the container-axis pairs that moved in this round

vars == <<alloc, moved>>

Init == alloc \in Start /\ moved = {}

Move(c, a, new) ==
    /\ <<c, a>> \notin moved
    /\ new # alloc[c][a]
    /\ AllowedMove(a, alloc[c][a], new)
    /\ alloc' = [alloc EXCEPT ![c][a] = new]
    /\ moved' = moved \cup {<<c, a>>}

NewRound == moved' = {} /\ UNCHANGED alloc

\* No allowed move ends higher than this.
Highest(c, a) == Limits[a].max + OutBy(a, alloc[c][a])

Next == \/ NewRound
        \/ \E c \in Managed, a \in Axes : \E new \in 0..Highest(c, a) : Move(c, a, new)

Spec == Init /\ [][Next]_vars
=============================================================================
