------------------------------- MODULE LxcRoutes -------------------------------
(***************************************************************************)
(* The routes of lxc_autoscale_api.py that change a container or its       *)
(* snapshots, and the `pct` commands of lxc_management.py each consists    *)
(* of.  A request that passed rate limit, authentication and validation    *)
(* runs in a thread of the worker, one command after the other; the        *)
(* commands of several requests, repeated ones too, interleave.            *)
(*                                                                         *)
(* `pct` is external.  A command whose preconditions do not hold exits     *)
(* with an error and changes nothing.  Otherwise it succeeds, or fails for *)
(* reasons of its own, or exceeds lxc.timeout_seconds, by which time it    *)
(* may have done its work; the routes cannot tell these errors apart.      *)
(*                                                                         *)
(* The temporary snapshot of a clone is named after the new id; here its   *)
(* name is the new id.  Every storage increase is by one unit.             *)
(***************************************************************************)
EXTENDS Integers, FiniteSets

CONSTANTS
    Threads,     \* gunicorn.threads of the one worker
    Source,      \* a container that somebody created and that gets cloned
    Clones,      \* ids that are given to clones
    Names,       \* names callers give to snapshots
    MaxRequests, \* bound: requests accepted
    MaxFaults    \* bound: commands that go wrong on their own, and kills

Ids == {Source} \cup Clones

Endings == {"caller", "reported", "fault", "silent"}

ASSUME RoutesAssumption ==
    /\ Source \notin Clones
    /\ IsFiniteSet(Threads) /\ Threads \cap Endings = {}
    /\ Clones \subseteq Names
    /\ MaxRequests \in Nat /\ MaxFaults \in Nat

VARIABLES
    ct,        \* the containers: "none", "stopped" or "running"
    snaps,     \* the snapshots that exist
    grown,     \* growth of Source's root filesystem since the worker started
    actions,   \* scaling_actions_total of its storage increases
    failures,  \* scaling_failures_total of them
    job,       \* what each thread is doing
    made,      \* history: the thread that made a snapshot or a clone, or
               \* stopped a container, or how its request ended
    left,      \* requests still to come
    budget     \* faults left

node == <<ct, snaps, grown>>
counters == <<actions, failures>>
vars == <<node, counters, job, made, left, budget>>

Snapshot == [of: Ids, name: Names]

(* What history keeps: snapshots, clones (by their id), and stops.         *)
Deeds == Snapshot \cup [clone: Clones] \cup [stop: Ids]

Commands == {"snapshot", "clone", "start", "delsnapshot", "stop", "destroy", "rollback", "resize"}

(* A request: the command it is at ("reply" after the last), the route,    *)
(* the container, the name of a snapshot or the id of a clone; whether an  *)
(* exception is on its way to handle_error (failed), whether cleanup_error *)
(* is set (unclean), and, as history, whether a command of this request    *)
(* went wrong on its own (hit).                                            *)
Request(route, ids, names) ==
    [route: {route}, at: Commands \cup {"reply"}, id: ids, name: names,
     failed: 0..1, unclean: 0..1, hit: 0..1]

Jobs ==
    Request("/clone/create", {Source}, Clones)
    \cup Request("/clone/delete", Ids, {Source})
    \cup Request("/snapshot/create", Ids, Names)
    \cup Request("/snapshot/rollback", Ids, Names)
    \cup Request("/scale/storage/increase", {Source}, {Source})

Idle == [route |-> "none", at |-> "idle"]

FirstCommand(route) ==
    CASE route \in {"/clone/create", "/snapshot/create"} -> "snapshot"
      [] route = "/clone/delete"                          -> "stop"
      [] route = "/snapshot/rollback"                     -> "rollback"
      [] route = "/scale/storage/increase"                -> "resize"

Unsettled(j) == j.failed = 0 /\ j.unclean = 0 /\ j.hit = 0

Fault == budget > 0 /\ budget' = budget - 1

Init ==
    /\ ct = [c \in Ids |-> IF c = Source THEN "running" ELSE "none"]
    /\ snaps = {}
    /\ grown = 0 /\ actions = 0 /\ failures = 0
    /\ job = [t \in Threads |-> Idle]
    /\ made = [d \in Deeds |-> "caller"]
    /\ left = MaxRequests
    /\ budget = MaxFaults

-----------------------------------------------------------------------------
(* A request got through to its view. *)
Accept(t) ==
    /\ job[t] = Idle
    /\ left > 0
    /\ left' = left - 1
    /\ \E j \in Jobs :
        /\ j.at = FirstCommand(j.route) /\ Unsettled(j)
        /\ job' = [job EXCEPT ![t] = j]
    /\ UNCHANGED <<node, counters, made, budget>>

Snap(j) == [of |-> j.id, name |-> j.name]

(* pct: the preconditions of the command j is at. *)
Possible(j) ==
    \/ j.at = "snapshot" /\ ct[j.id] # "none" /\ Snap(j) \notin snaps
    \/ j.at = "clone" /\ Snap(j) \in snaps /\ ct[j.name] = "none"
    \/ j.at = "start" /\ ct[j.name] = "stopped"
    \/ j.at = "delsnapshot" /\ Snap(j) \in snaps
    \/ j.at = "stop" /\ ct[j.id] = "running"
    \/ j.at = "destroy" /\ ct[j.id] = "stopped"
    \/ j.at = "rollback" /\ Snap(j) \in snaps
    \/ j.at = "resize" /\ ct[j.id] # "none"

Becomes(c, state) == ct' = [ct EXCEPT ![c] = state]

Records(deeds, who) == made' = [d \in Deeds |-> IF d \in deeds THEN who ELSE made[d]]

(* pct: what the command does.  A rollback stops a running container or    *)
(* leaves it running; what is inside is not part of this model.            *)
TakesEffect(t, j) ==
    \/ /\ j.at = "snapshot"
       /\ snaps' = snaps \cup {Snap(j)}
       /\ Records({Snap(j)}, t)
       /\ UNCHANGED <<ct, grown>>
    \/ /\ j.at = "clone"
       /\ Becomes(j.name, "stopped")
       /\ Records({[clone |-> j.name]}, t)
       /\ UNCHANGED <<snaps, grown>>
    \/ /\ j.at = "start"
       /\ Becomes(j.name, "running")
       /\ UNCHANGED <<snaps, grown, made>>
    \/ /\ j.at = "delsnapshot"
       /\ snaps' = snaps \ {Snap(j)}
       /\ Records({Snap(j)}, "caller")
       /\ UNCHANGED <<ct, grown>>
    \/ /\ j.at = "stop"
       /\ Becomes(j.id, "stopped")
       /\ Records({[stop |-> j.id]}, t)
       /\ UNCHANGED <<snaps, grown>>
    \/ /\ j.at = "destroy"
       /\ Becomes(j.id, "none")
       /\ snaps' = {s \in snaps : s.of # j.id}
       /\ Records({s \in snaps : s.of = j.id} \cup [clone: {j.id} \cap Clones] \cup [stop: {j.id}],
                  "caller")
       /\ UNCHANGED grown
    \/ /\ j.at = "rollback"
       /\ \E state \in {ct[j.id], "stopped"} : Becomes(j.id, state)
       /\ UNCHANGED <<snaps, grown, made>>
    \/ /\ j.at = "resize"
       /\ grown' = grown + 1
       /\ UNCHANGED <<ct, snaps, made>>

To(j, where) == [j EXCEPT !.at = where]
Failed(j)    == [j EXCEPT !.failed = 1]
Unclean(j)   == [j EXCEPT !.unclean = 1]

(* The next command of the route, after one that went well. *)
Onward(j) ==
    CASE j.at = "snapshot" /\ j.route = "/clone/create" -> To(j, "clone")
      [] j.at = "clone" -> To(j, "start")
      [] j.at = "start" -> To(j, "delsnapshot")
      [] j.at = "stop"  -> To(j, "destroy")
      [] OTHER          -> To(j, "reply")

\* Mutant: the snapshot is taken inside the try whose finally deletes it.
RaisedInsideTry(j) ==
    IF j.at = "delsnapshot" THEN To(Unclean(j), "reply")
    ELSE IF j.route = "/clone/create" THEN To(Failed(j), "delsnapshot")
    ELSE To(Failed(j), "reply")

\* Mutant: the cleanup is part of the good path only.
RaisedWithoutFinally(j) == To(Failed(j), "reply")

\* Mutant: the cleanup is repeated until it works.
RaisedUntilClean(j) ==
    CASE j.at \in {"clone", "start"} -> To(Failed(j), "delsnapshot")
      [] j.at = "delsnapshot"        -> j
      [] OTHER                       -> To(Failed(j), "reply")

\* Mutant: `pct stop` and `pct destroy` joined by `;`.
RaisedRegardless(j) ==
    CASE j.at \in {"clone", "start"} -> To(Failed(j), "delsnapshot")
      [] j.at = "delsnapshot"        -> To(Unclean(j), "reply")
      [] j.at = "stop"               -> To(j, "destroy")
      [] OTHER                       -> To(Failed(j), "reply")

\* Mutant: the answer does not tell an error from a result.
RaisedAsDone(j) == Onward(j)

(* After one that raised: create_clone_route still drops its snapshot, and *)
(* an error in that is only noted.                                         *)
Raised(j) ==
    CASE j.at \in {"clone", "start"} -> To(Failed(j), "delsnapshot")
      [] j.at = "delsnapshot"        -> To(Unclean(j), "reply")
      [] OTHER                       -> To(Failed(j), "reply")

(* A command runs and exits with 0. *)
Run(t) ==
    LET j == job[t] IN
    /\ j.at \in Commands
    /\ Possible(j)
    /\ TakesEffect(t, j)
    /\ job' = [job EXCEPT ![t] = Onward(j)]
    /\ UNCHANGED <<counters, left, budget>>

(* pct refuses. *)
Refused(t) ==
    LET j == job[t] IN
    /\ j.at \in Commands
    /\ ~Possible(j)
    /\ job' = [job EXCEPT ![t] = Raised(j)]
    /\ UNCHANGED <<node, counters, made, left, budget>>

(* A command goes wrong on its own, or times out, with or without effect. *)
GoesWrong(t) ==
    LET j == job[t] IN
    /\ j.at \in Commands
    /\ Possible(j)
    /\ Fault
    /\ job' = [job EXCEPT ![t] = [Raised(j) EXCEPT !.hit = 1]]
    /\ \/ TakesEffect(t, j)
       \/ UNCHANGED <<node, made>>
    /\ UNCHANGED <<counters, left>>

(* How a request that made a snapshot answered about it; and one that made *)
(* a clone or stopped a container.                                         *)
SnapshotEnding(j) ==
    CASE j.failed = 0 /\ j.route = "/snapshot/create" -> "caller"
      [] j.failed = 0 /\ j.unclean = 1                -> "reported"
      [] j.failed = 1 /\ j.hit = 1                    -> "fault"
      [] OTHER                                        -> "silent"

OtherEnding(j) ==
    CASE j.failed = 0 -> "caller"
      [] j.failed = 1 /\ j.hit = 1 -> "fault"
      [] OTHER -> "silent"

(* increase_storage counts the outcome by the response's status. *)
Counted(j) ==
    IF j.route = "/scale/storage/increase"
    THEN actions' = actions + (1 - j.failed) /\ failures' = failures + j.failed
    ELSE UNCHANGED counters

(* The response. *)
Reply(t) ==
    LET j == job[t] IN
    /\ j.at = "reply"
    /\ job' = [job EXCEPT ![t] = Idle]
    /\ made' = [d \in Deeds |-> IF made[d] # t THEN made[d]
                                ELSE IF d \in Snapshot THEN SnapshotEnding(j) ELSE OtherEnding(j)]
    /\ Counted(j)
    /\ UNCHANGED <<node, left, budget>>

(* The worker is killed or restarted, with its requests and its counters. *)
Kill ==
    /\ \E t \in Threads : job[t] # Idle
    /\ Fault
    /\ job' = [t \in Threads |-> Idle]
    /\ made' = [d \in Deeds |-> IF made[d] \in Threads THEN "fault" ELSE made[d]]
    /\ grown' = 0 /\ actions' = 0 /\ failures' = 0
    /\ UNCHANGED <<ct, snaps, left>>

Progress(t) == Run(t) \/ Refused(t) \/ Reply(t)

Next == Kill \/ \E t \in Threads : Accept(t) \/ Progress(t) \/ GoesWrong(t)

Spec == Init /\ [][Next]_vars

(* Every command ends, at the latest by its timeout, and threads run on. *)
FairSpec == Spec /\ \A t \in Threads : WF_vars(Progress(t))

-----------------------------------------------------------------------------
(* Types. *)
TypeOK ==
    /\ ct \in [Ids -> {"none", "stopped", "running"}]
    /\ snaps \subseteq Snapshot
    /\ grown \in Nat /\ actions \in Nat /\ failures \in Nat
    /\ job \in [Threads -> Jobs \cup {Idle}]
    /\ made \in [Deeds -> Threads \cup Endings]
    /\ left \in 0..MaxRequests
    /\ budget \in 0..MaxFaults

(* The cleanup of a clone request removes the snapshot this request made,  *)
(* and never one of the same name that a caller or another request made:   *)
(* create_snapshot stands outside the try whose finally deletes.           *)
OwnSnapshotOnly ==
    [][\A s \in snaps \ snaps' : ct'[s.of] # "none" =>
           \E t \in Threads : made[s] = t /\ job[t].at = "delsnapshot" /\ job'[t] # job[t]]_vars

(* Whatever a request leaves behind, its temporary snapshot, a clone, or a *)
(* container it stopped, was asked for, or its answer says that it is      *)
(* there (lxc_autoscale_api.py:272), or a command went wrong on its own or *)
(* the worker died.  Requests that only get into each other's way leave    *)
(* nothing.                                                                *)
NothingSilent ==
    /\ \A s \in snaps : made[s] # "silent"
    /\ \A c \in Clones : ct[c] # "none" => made[[clone |-> c]] # "silent"
    /\ \A c \in Ids : ct[c] = "stopped" => made[[stop |-> c]] # "silent"

(* A container is destroyed only by the request that stopped it: of two    *)
(* deletions of one id, the later one, or one that arrives while the id is *)
(* being cloned anew, destroys nothing.                                    *)
OnlyTheStopperDestroys ==
    [][\A c \in Ids : ct[c] # "none" /\ ct'[c] = "none" =>
           \E t \in Threads : made[[stop |-> c]] = t /\ job[t].at = "destroy"]_vars

(* The storage a container really gained lies between the increases that   *)
(* were counted as done and those plus the ones counted as failed: a       *)
(* success is never counted for nothing, and what a timed-out resize did   *)
(* is hidden by at most its own failure.                                   *)
Resizing(failed) == Cardinality({t \in Threads : LET j == job[t] IN
    j.at = "reply" /\ j.route = "/scale/storage/increase" /\ j.failed = failed})

GrowthAccounted ==
    LET done == actions + Resizing(0) IN
    grown \in done..(done + failures + Resizing(1))

(* Every request is answered, unless the worker dies: no route waits for   *)
(* another, and none repeats a command.                                    *)
EveryRequestEnds == \A t \in Threads : (job[t] # Idle) ~> (job[t] = Idle)
================================================================================
