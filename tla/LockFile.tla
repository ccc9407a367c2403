------------------------------- MODULE LockFile -------------------------------
(***************************************************************************)
(* model/lock_manager.py with its two callers: main() takes the lock once  *)
(* at start, and on SIGINT or SIGTERM the handler of signal_handler.py     *)
(* removes it, after which main's `finally` removes it again.              *)
(*                                                                         *)
(* Each access to the file system is a step of its own, because another    *)
(* instance can act between any two of them.  Process ids: `by` names the  *)
(* process whose id the file holds.  When a process ends, its id, wherever *)
(* it was written or read, becomes Dead; os.kill(pid, 0) finds such an id  *)
(* gone, or, if the kernel has given it away again, somebody else's.       *)
(*                                                                         *)
(* An empty file, one with anything but a number in it and one that cannot *)
(* be read take the same path (lock_manager.py:37-47): text = "none".      *)
(*                                                                         *)
(* Anything may happen at any time; `met` records which of the             *)
(* circumstances the lock cannot cope with a behaviour has met so far, and *)
(* the properties say which of them they exclude.                          *)
(***************************************************************************)
EXTENDS Integers, FiniteSets

CONSTANTS
    Procs,          \* instances of the model service somebody may start
    None,           \* no lock file
    Dead,           \* a process id that belongs to no instance
    MaxFaults       \* bound: crashes and failed system calls

ASSUME LockAssumption ==
    /\ None \notin Procs /\ Dead \notin Procs /\ None # Dead
    /\ MaxFaults \in Nat

MaxAcquireAttempts == 3

VARIABLES
    lock,    \* the lock file: [by, text]
    pc,      \* where each instance is
    tries,   \* the attempt of create_lock_file each instance is in
    saw,     \* the process id each instance read from the file
    met,     \* history: what this behaviour has met
    budget   \* faults left

vars == <<lock, pc, tries, saw, met, budget>>

(* "overlap": an instance started while another was starting or shutting   *)
(* down, or was told to shut down while another was starting.              *)
(* "unreadable": a lock that exists could not be read.                     *)
(* "reuse": a dead instance's process id belonged to another program.      *)
Circumstances == {"overlap", "unreadable", "reuse"}

OneAtATime  == met \subseteq {"reuse"}
Undisturbed == met = {}

Texts == {"none", "pid"}

NoLock == [by |-> None, text |-> "none"]

Idle     == {"off", "refused"}
Starting == {"opening", "created", "reading", "probing", "removing"}
Exiting  == {"handler", "final"}

Fault == budget > 0 /\ budget' = budget - 1

Others(p) == Procs \ {p}

NoneStarting(p) == \A q \in Others(p) : pc[q] \notin Starting
NoneExiting(p)  == \A q \in Others(p) : pc[q] \notin Exiting

Init ==
    /\ lock \in {NoLock} \cup [by: {Dead}, text: Texts]
    /\ pc = [p \in Procs |-> "off"]
    /\ tries = [p \in Procs |-> 1]
    /\ saw = [p \in Procs |-> Dead]
    /\ met = {}
    /\ budget = MaxFaults

Goto(p, where) == pc' = [pc EXCEPT ![p] = where]

(* p ends, leaving the file as it is: its id is nobody's now. *)
Ends(p, where) ==
    /\ Goto(p, where)
    /\ lock' = IF lock.by = p THEN [lock EXCEPT !.by = Dead] ELSE lock
    /\ saw' = [q \in Procs |-> IF q = p \/ saw[q] = p THEN Dead ELSE saw[q]]
    /\ tries' = [tries EXCEPT ![p] = 1]

\* Mutant: the attempts are not counted.
TryForever(p) ==
    /\ Goto(p, "opening")
    /\ saw' = [saw EXCEPT ![p] = Dead]
    /\ UNCHANGED tries

(* `continue`: the next round of create_lock_file, or giving up. *)
TryAgain(p) ==
    IF tries[p] < MaxAcquireAttempts
    THEN /\ Goto(p, "opening")
         /\ tries' = [tries EXCEPT ![p] = @ + 1]
         /\ saw' = [saw EXCEPT ![p] = Dead]
    ELSE /\ Goto(p, "refused")
         /\ tries' = [tries EXCEPT ![p] = 1]
         /\ saw' = [saw EXCEPT ![p] = Dead]

-----------------------------------------------------------------------------
(* systemd or an operator starts the service. *)
Start(p) ==
    /\ pc[p] \in Idle
    /\ Goto(p, "opening")
    /\ met' = IF NoneStarting(p) /\ NoneExiting(p) THEN met ELSE met \cup {"overlap"}
    /\ UNCHANGED <<lock, tries, saw, budget>>

\* Mutant: O_CREAT without O_EXCL.
OpenShared(p) ==
    /\ pc[p] = "opening"
    /\ lock' = [by |-> p, text |-> "none"]
    /\ Goto(p, "created")
    /\ UNCHANGED <<tries, saw, met, budget>>

(* os.open with O_CREAT | O_EXCL. *)
Open(p) ==
    /\ pc[p] = "opening"
    /\ IF lock = NoLock
       THEN lock' = [by |-> p, text |-> "none"] /\ Goto(p, "created")
       ELSE lock' = lock /\ Goto(p, "reading")
    /\ UNCHANGED <<tries, saw, met, budget>>

(* lock.write and close.  The descriptor is p's own file: if that one was  *)
(* unlinked meanwhile, the write changes nothing anybody can see.          *)
Write(p) ==
    /\ pc[p] = "created"
    /\ lock' = IF lock.by = p THEN [lock EXCEPT !.text = "pid"] ELSE lock
    /\ Goto(p, "running")
    /\ tries' = [tries EXCEPT ![p] = 1]
    /\ UNCHANGED <<saw, met, budget>>

(* _clear_if_stale reads the file that made os.open fail. *)
Read(p) ==
    /\ pc[p] = "reading"
    /\ IF lock = NoLock
       THEN TryAgain(p)
       ELSE /\ Goto(p, IF lock.text = "pid" THEN "probing" ELSE "removing")
            /\ saw' = [saw EXCEPT ![p] = IF lock.text = "pid" THEN lock.by ELSE Dead]
            /\ tries' = tries
    /\ UNCHANGED <<lock, met, budget>>

\* Mutant: any error of os.kill, PermissionError too, means a dead process.
ProbeGloomy(p) ==
    /\ pc[p] = "probing"
    /\ \/ Ends(p, "refused")
       \/ Goto(p, "removing") /\ UNCHANGED <<lock, tries, saw>>
    /\ UNCHANGED <<met, budget>>

\* Mutant: a process id in the file is enough, alive or not.
ProbeTrusting(p) ==
    /\ pc[p] = "probing"
    /\ Ends(p, "refused")
    /\ UNCHANGED <<met, budget>>

(* os.kill(old_pid, 0). *)
Probe(p) ==
    /\ pc[p] = "probing"
    /\ \/ saw[p] # Dead /\ Ends(p, "refused") /\ UNCHANGED met
       \/ saw[p] = Dead /\ Ends(p, "refused") /\ met' = met \cup {"reuse"}
       \/ saw[p] = Dead /\ Goto(p, "removing") /\ UNCHANGED <<lock, tries, saw, met>>
    /\ UNCHANGED budget

(* os.remove of whatever now has the lock's name. *)
Remove(p) ==
    /\ pc[p] = "removing"
    /\ lock' = NoLock
    /\ TryAgain(p)
    /\ UNCHANGED <<met, budget>>

(* os.open, the read or os.remove raises OSError.  At a start that ends it *)
(* with exit 1, except that a file that cannot be read is removed like an  *)
(* empty one; at a shutdown it is logged and the file stays.               *)
FileError(p) ==
    /\ Fault
    /\ \/ pc[p] \in {"opening", "removing"} /\ Ends(p, "refused") /\ UNCHANGED met
       \/ /\ pc[p] = "reading"
          /\ Goto(p, "removing")
          /\ met' = met \cup {"unreadable"}
          /\ UNCHANGED <<lock, tries, saw>>
       \/ pc[p] = "handler" /\ Goto(p, "final") /\ UNCHANGED <<lock, tries, saw, met>>
       \/ pc[p] = "final" /\ Ends(p, "off") /\ UNCHANGED met

(* SIGTERM or SIGINT, once the handler is installed. *)
Signal(p) ==
    /\ pc[p] = "running"
    /\ Goto(p, "handler")
    /\ met' = IF NoneStarting(p) THEN met ELSE met \cup {"overlap"}
    /\ UNCHANGED <<lock, tries, saw, budget>>

(* The handler's cleanup, then sys.exit(0) unwinds to main's finally. *)
HandlerRemove(p) ==
    /\ pc[p] = "handler"
    /\ lock' = NoLock
    /\ Goto(p, "final")
    /\ UNCHANGED <<tries, saw, met, budget>>

(* remove_lock_file again, and the process is gone. *)
FinalRemove(p) ==
    /\ pc[p] = "final"
    /\ lock' = NoLock
    /\ Goto(p, "off")
    /\ saw' = [q \in Procs |-> IF q = p \/ saw[q] = p THEN Dead ELSE saw[q]]
    /\ UNCHANGED <<tries, met, budget>>

(* SIGKILL, the OOM killer, or SIGTERM before the handlers are installed. *)
Crash(p) ==
    /\ pc[p] \notin Idle
    /\ Fault
    /\ Ends(p, "off")
    /\ UNCHANGED met

Acquire(p) == Open(p) \/ Write(p) \/ Read(p) \/ Probe(p) \/ Remove(p)

Step(p) ==
    \/ Start(p) \/ Acquire(p) \/ FileError(p)
    \/ Signal(p) \/ HandlerRemove(p) \/ FinalRemove(p) \/ Crash(p)

Next == \E p \in Procs : Step(p)

Spec == Init /\ [][Next]_vars

(* A started process runs on; nobody has to signal or start it. *)
FairSpec ==
    Spec /\ \A p \in Procs : WF_vars(Acquire(p)) /\ WF_vars(HandlerRemove(p) \/ FinalRemove(p))

-----------------------------------------------------------------------------
(* Types. *)
TypeOK ==
    /\ lock \in {NoLock} \cup [by: Procs \cup {Dead}, text: Texts]
    /\ pc \in [Procs -> Idle \cup Starting \cup {"running"} \cup Exiting]
    /\ tries \in [Procs -> 1..MaxAcquireAttempts]
    /\ saw \in [Procs -> Procs \cup {Dead}]
    /\ met \subseteq Circumstances
    /\ budget \in 0..MaxFaults

(* lock_manager.py:76-79: two instances do not both proceed to scale the   *)
(* same containers.                                                        *)
MutualExclusion ==
    \A p, q \in Procs : pc[p] = "running" /\ pc[q] = "running" => p = q

(* It holds as long as nobody starts while another one is starting or      *)
(* shutting down, and every lock can be read.                              *)
OneRunner == OneAtATime => MutualExclusion

(* lock_manager.py:81 and 84: an instance gives up only because another    *)
(* one is alive, or because a system call of its own failed; what a        *)
(* crashed one left behind never keeps it out.                             *)
NoFalseRefusal ==
    [][\A p \in Procs :
          pc[p] # "refused" /\ pc'[p] = "refused" /\ Undisturbed' =>
              (\E q \in Others(p) : pc[q] = "running") \/ budget' < budget]_vars

(* The lock is not lost under a running instance: as long as it runs, the  *)
(* file is there and names it, so that a later start can find it.          *)
RunnerIsNamed ==
    \A p \in Procs :
        pc[p] = "running" /\ OneAtATime => lock = [by |-> p, text |-> "pid"]

(* A start comes to an end, whatever is in the way: MAX_ACQUIRE_ATTEMPTS   *)
(* bounds the loop "removed, recreated by someone else".                   *)
StartsEnd ==
    \A p \in Procs : pc[p] = "opening" ~> pc[p] \notin Starting
=============================================================================
