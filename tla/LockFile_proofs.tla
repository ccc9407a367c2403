--------------------------- MODULE LockFile_proofs ---------------------------
(***************************************************************************)
(* Proofs about LockFile, for any set of instances and any number of       *)
(* faults.                                                                 *)
(***************************************************************************)
EXTENDS LockFile, TLAPS

(* A step of p and the definitions that every action shares. *)
USE LockAssumption DEF NoLock, Goto, Fault, MaxAcquireAttempts

(* Every step keeps the types of LockFile's state. *)
LEMMA StepTypes ==
    ASSUME TypeOK, NEW p \in Procs, Step(p)
    PROVE  TypeOK'
<1> USE DEF TypeOK, Idle, Starting, Exiting, Texts, Circumstances
<1>1. CASE Start(p) BY <1>1 DEF Start
<1>2. CASE Open(p)
    <2>1. CASE lock = NoLock BY <1>2, <2>1 DEF Open
    <2>2. CASE lock # NoLock BY <1>2, <2>2 DEF Open
    <2> QED BY <2>1, <2>2
<1>3. CASE Write(p) BY <1>3 DEF Write
<1>4. CASE Read(p)
    <2>1. CASE lock = NoLock BY <1>4, <2>1 DEF Read, TryAgain
    <2>2. CASE lock # NoLock BY <1>4, <2>2 DEF Read
    <2> QED BY <2>1, <2>2
<1>5. CASE Probe(p) BY <1>5 DEF Probe, Ends
<1>6. CASE Remove(p) BY <1>6 DEF Remove, TryAgain
<1>7. CASE FileError(p) BY <1>7 DEF FileError, Ends
<1>8. CASE Signal(p) BY <1>8 DEF Signal
<1>9. CASE HandlerRemove(p) BY <1>9 DEF HandlerRemove
<1>10. CASE FinalRemove(p) BY <1>10 DEF FinalRemove
<1>11. CASE Crash(p) BY <1>11 DEF Crash, Ends
<1> QED
    BY <1>1, <1>2, <1>3, <1>4, <1>5, <1>6, <1>7, <1>8, <1>9, <1>10, <1>11
    DEF Step, Acquire

(* LockFile's state is well typed in every reachable state. *)
THEOREM TypeCorrect == Spec => []TypeOK
<1>1. Init => TypeOK
    BY DEF Init, TypeOK, Idle, Texts
<1>2. TypeOK /\ [Next]_vars => TypeOK'
    <2> SUFFICES ASSUME TypeOK, [Next]_vars PROVE TypeOK'
        OBVIOUS
    <2>1. CASE Next BY <2>1, StepTypes DEF Next
    <2>2. CASE UNCHANGED vars BY <2>2 DEF TypeOK, vars
    <2> QED BY <2>1, <2>2
<1> QED BY <1>1, <1>2, PTL DEF Spec

-----------------------------------------------------------------------------
(* What a behaviour has met stays met. *)
LEMMA MetGrows ==
    ASSUME NEW p \in Procs, Step(p)
    PROVE  met \subseteq met'
BY DEF Step, Acquire, Start, Open, Write, Read, Probe, Remove, FileError, Signal,
       HandlerRemove, FinalRemove, Crash

(* At most one instance is between Start and the end of create_lock_file,  *)
(* none of them while another shuts down.                                  *)
StartsApart ==
    /\ \A p, q \in Procs : pc[p] \in Starting /\ pc[q] \in Starting => p = q
    /\ \A p, q \in Procs : ~(pc[p] \in Starting /\ pc[q] \in Exiting)
    /\ \A p, q \in Procs : pc[p] = "final" /\ pc[q] = "final" => p = q

(* Whoever passed os.open has its own file under the lock's name.          *)
HolderNamed ==
    \A p \in Procs :
        /\ pc[p] = "created" => lock = [by |-> p, text |-> "none"]
        /\ pc[p] \in {"running", "handler"} => lock = [by |-> p, text |-> "pid"]
        /\ pc[p] = "final" => lock = NoLock \/ lock = [by |-> p, text |-> "pid"]

(* The file names nobody but such an instance, or a dead one.              *)
NamedHolds ==
    lock.by \in Procs => pc[lock.by] \in {"created", "running", "handler", "final"}

(* What an instance found in the file is still true of it, and a file it   *)
(* is about to remove was left behind.                                     *)
FoundIsTrue ==
    \A p \in Procs :
        /\ pc[p] = "probing" => lock = [by |-> saw[p], text |-> "pid"]
        /\ pc[p] = "removing" => lock.by = Dead

LockInv == TypeOK /\ StartsApart /\ HolderNamed /\ NamedHolds /\ FoundIsTrue

(* Every step keeps it, as long as starts and exits do not overlap and the *)
(* lock can be read.                                                       *)
LEMMA StepKeepsLockInv ==
    ASSUME OneAtATime', LockInv, NEW p \in Procs, Step(p)
    PROVE  LockInv'
<1>0. TypeOK'
    BY StepTypes DEF LockInv
<1> USE DEF OneAtATime, LockInv, TypeOK, StartsApart, HolderNamed, NamedHolds, FoundIsTrue,
            Idle, Starting, Exiting, Texts, Others, NoneStarting, NoneExiting
<1>1. CASE Start(p)
    BY <1>0, <1>1 DEF Start
<1>2. CASE Open(p)
    <2>1. CASE lock = NoLock
        <3>1. /\ pc[p] = "opening"
              /\ lock' = [by |-> p, text |-> "none"]
              /\ pc' = [pc EXCEPT ![p] = "created"]
              /\ saw' = saw
            BY <1>2, <2>1 DEF Open
        <3>2. StartsApart'
            BY <3>1
        <3>3. HolderNamed'
            <4>1. \A q \in Procs : q # p => pc[q] \notin {"created", "running", "handler", "final"}
                BY <1>2, <2>1 DEF Open
            <4> QED BY <3>1, <4>1
        <3>4. NamedHolds'
            BY <3>1
        <3>5. FoundIsTrue'
            <4>1. \A q \in Procs : pc'[q] \notin {"probing", "removing"}
                BY <3>1
            <4> QED BY <4>1
        <3> QED BY <1>0, <3>2, <3>3, <3>4, <3>5
    <2>2. CASE lock # NoLock BY <1>0, <1>2, <2>2 DEF Open
    <2> QED BY <2>1, <2>2
<1>3. CASE Write(p)
    BY <1>0, <1>3 DEF Write
<1>4. CASE Read(p)
    <2>1. CASE lock = NoLock BY <1>0, <1>4, <2>1 DEF Read, TryAgain
    <2>2. CASE lock # NoLock BY <1>0, <1>4, <2>2 DEF Read
    <2> QED BY <2>1, <2>2
<1>5. CASE Probe(p)
    BY <1>0, <1>5 DEF Probe, Ends
<1>6. CASE Remove(p)
    BY <1>0, <1>6 DEF Remove, TryAgain
<1>7. CASE FileError(p)
    BY <1>0, <1>7 DEF FileError, Ends
<1>8. CASE Signal(p)
    BY <1>0, <1>8 DEF Signal
<1>9. CASE HandlerRemove(p)
    BY <1>0, <1>9 DEF HandlerRemove
<1>10. CASE FinalRemove(p)
    BY <1>0, <1>10 DEF FinalRemove
<1>11. CASE Crash(p)
    BY <1>0, <1>11 DEF Crash, Ends
<1> QED
    BY <1>1, <1>2, <1>3, <1>4, <1>5, <1>6, <1>7, <1>8, <1>9, <1>10, <1>11
    DEF Step, Acquire

(* It holds at the start, whatever a previous boot left behind. *)
LEMMA InitLockInv == Init => LockInv
<1> SUFFICES ASSUME Init PROVE LockInv
    OBVIOUS
<1> USE DEF Init
<1>1. TypeOK
    BY DEF TypeOK, Idle, Texts
<1>2. StartsApart
    BY DEF StartsApart, Starting, Exiting
<1>3. HolderNamed /\ NamedHolds /\ FoundIsTrue
    BY DEF HolderNamed, NamedHolds, FoundIsTrue, Texts
<1> QED BY <1>1, <1>2, <1>3 DEF LockInv

(* As long as no start overlaps another start or an exit and every lock    *)
(* can be read, no two instances are ever running, whatever crashes and    *)
(* whatever ids are reused; and a running one is named by the lock file.   *)
THEOREM Exclusion == Spec => [](OneRunner /\ RunnerIsNamed)
<1> DEFINE Guarded == OneAtATime => LockInv
<1>1. Init => Guarded
    BY InitLockInv
<1>2. Guarded /\ [Next]_vars => Guarded'
    <2> SUFFICES ASSUME Guarded, [Next]_vars, OneAtATime' PROVE LockInv'
        OBVIOUS
    <2>1. OneAtATime /\ LockInv
        <3>1. met \subseteq met'
            BY MetGrows DEF Next, vars
        <3> QED BY <3>1 DEF OneAtATime
    <2>2. CASE Next BY <2>1, <2>2, StepKeepsLockInv DEF Next
    <2>3. CASE UNCHANGED vars
        BY <2>1, <2>3
        DEF vars, LockInv, TypeOK, StartsApart, HolderNamed, NamedHolds, FoundIsTrue
    <2> QED BY <2>2, <2>3
<1>3. Guarded => OneRunner /\ RunnerIsNamed
    <2> SUFFICES ASSUME LockInv PROVE OneRunner /\ RunnerIsNamed
        BY DEF OneRunner, RunnerIsNamed
    <2> QED BY DEF LockInv, HolderNamed, OneRunner, MutualExclusion, RunnerIsNamed
<1> QED BY <1>1, <1>2, <1>3, PTL DEF Spec

(* The same, of the name in the file: a later start finds the one that     *)
(* runs (lock_manager.py:35-80).                                           *)
THEOREM RunnerFound == Spec => []RunnerIsNamed
<1> QED BY Exclusion, PTL

-----------------------------------------------------------------------------
(* The second attempt always finds the way free, so nobody gets to a third. *)
FirstTry ==
    \A p \in Procs :
        /\ pc[p] \notin {"opening", "created"} => tries[p] = 1
        /\ pc[p] = "opening" => tries[p] = 1 \/ lock = NoLock
        /\ pc[p] \in {"reading", "probing", "removing"} => lock # NoLock

(* Every undisturbed step keeps that, too. *)
LEMMA StepKeepsFirstTry ==
    ASSUME Undisturbed', LockInv, FirstTry, NEW p \in Procs, Step(p)
    PROVE  FirstTry'
<1>0. TypeOK'
    BY StepTypes DEF LockInv
<1> USE DEF Undisturbed, OneAtATime, LockInv, TypeOK, StartsApart, FirstTry,
            Idle, Starting, Exiting, Others, NoneStarting, NoneExiting
<1>1. CASE Start(p)
    BY <1>0, <1>1 DEF Start
<1>2. CASE Open(p)
    <2>1. CASE lock = NoLock BY <1>0, <1>2, <2>1 DEF Open
    <2>2. CASE lock # NoLock BY <1>0, <1>2, <2>2 DEF Open
    <2> QED BY <2>1, <2>2
<1>3. CASE Write(p)
    BY <1>0, <1>3 DEF Write
<1>4. CASE Read(p)
    BY <1>0, <1>4 DEF Read
<1>5. CASE Probe(p)
    BY <1>0, <1>5 DEF Probe, Ends
<1>6. CASE Remove(p)
    BY <1>0, <1>6 DEF Remove, TryAgain
<1>7. CASE FileError(p)
    BY <1>0, <1>7 DEF FileError, Ends
<1>8. CASE Signal(p)
    BY <1>0, <1>8 DEF Signal
<1>9. CASE HandlerRemove(p)
    BY <1>0, <1>9 DEF HandlerRemove
<1>10. CASE FinalRemove(p)
    BY <1>0, <1>10 DEF FinalRemove
<1>11. CASE Crash(p)
    BY <1>0, <1>11 DEF Crash, Ends
<1> QED
    BY <1>1, <1>2, <1>3, <1>4, <1>5, <1>6, <1>7, <1>8, <1>9, <1>10, <1>11
    DEF Step, Acquire

(* Undisturbed, an instance is refused only while another one is running,  *)
(* or because a system call of its own failed.                             *)
LEMMA RefusalIsTrue ==
    ASSUME Undisturbed', LockInv, FirstTry, NEW p \in Procs, Step(p),
           NEW r \in Procs, pc[r] # "refused", pc'[r] = "refused"
    PROVE  (\E q \in Others(r) : pc[q] = "running") \/ budget' < budget
<1> USE DEF LockInv, TypeOK, Idle, Starting, Exiting
<1>0. CASE FileError(p)
    BY <1>0, LockAssumption DEF FileError, Fault
<1> SUFFICES ASSUME ~FileError(p)
             PROVE  \E q \in Others(r) : pc[q] = "running"
    BY <1>0
<1>1. r = p /\ Probe(p) /\ saw[p] # Dead
    <2>2. ~Remove(p) \/ pc'[p] = "opening"
        BY DEF Remove, TryAgain, FirstTry
    <2>3. ~Read(p) \/ pc'[p] # "refused"
        BY DEF Read, FirstTry
    <2>4. r = p
        BY DEF Step, Acquire, Start, Open, Write, Read, Probe, Remove, FileError, Signal,
               HandlerRemove, FinalRemove, Crash, Ends, TryAgain
    <2>5. Probe(p)
        BY <2>2, <2>3, <2>4
        DEF Step, Acquire, Start, Open, Write, Signal, HandlerRemove, FinalRemove, Crash, Ends
    <2>6. saw[p] # Dead
        BY <2>4, <2>5 DEF Probe, Undisturbed
    <2> QED BY <2>4, <2>5, <2>6
<1>2. lock.by = saw[p] /\ lock.text = "pid" /\ saw[p] \in Procs /\ pc[p] = "probing"
    BY <1>1 DEF Probe, FoundIsTrue
<1>3. pc[saw[p]] = "running"
    BY <1>2 DEF NamedHolds, HolderNamed, StartsApart
<1> QED
    BY <1>1, <1>2, <1>3 DEF Others

(* Undisturbed, nothing a crashed instance leaves behind keeps a later one *)
(* from starting.                                                          *)
THEOREM Refusal == Spec => NoFalseRefusal
<1> DEFINE Guarded == Undisturbed => LockInv /\ FirstTry
<1>1. Init => Guarded
    BY InitLockInv DEF Init, FirstTry
<1>2. ASSUME Guarded, [Next]_vars, Undisturbed'
      PROVE  Undisturbed /\ LockInv /\ FirstTry
    <2>1. met \subseteq met'
        BY <1>2, MetGrows DEF Next, vars
    <2> QED BY <1>2, <2>1 DEF Undisturbed
<1>3. Guarded /\ [Next]_vars => Guarded'
    <2> SUFFICES ASSUME Guarded, [Next]_vars, Undisturbed' PROVE LockInv' /\ FirstTry'
        OBVIOUS
    <2>1. CASE Next
        <3>1. OneAtATime'
            BY DEF Undisturbed, OneAtATime
        <3> QED BY <1>2, <2>1, <3>1, StepKeepsLockInv, StepKeepsFirstTry DEF Next
    <2>2. CASE UNCHANGED vars
        BY <1>2, <2>2 DEF vars, FirstTry, LockInv, TypeOK, StartsApart, HolderNamed, NamedHolds,
                          FoundIsTrue
    <2> QED BY <2>1, <2>2
<1>4. Guarded /\ [Next]_vars
        => [\A p \in Procs : pc[p] # "refused" /\ pc'[p] = "refused" /\ Undisturbed' =>
               (\E q \in Others(p) : pc[q] = "running") \/ budget' < budget]_vars
    BY <1>2, RefusalIsTrue DEF Next
<1> QED
    BY <1>1, <1>3, <1>4, PTL DEF Spec, NoFalseRefusal

-----------------------------------------------------------------------------
(* The most steps a start still has before it: four for each further       *)
(* attempt, and what is left of this one.                                  *)
ToGo(p) ==
    4 * (MaxAcquireAttempts - tries[p]) +
        CASE pc[p] = "opening"              -> 4
          [] pc[p] \in {"created", "reading"} -> 3
          [] pc[p] = "probing"              -> 2
          [] OTHER                          -> 1

(* Each step of a start brings its end nearer, and no other process's step *)
(* sets it back, whatever overlaps, fails or crashes.                      *)
StartsAdvance ==
    [][\A p \in Procs : pc[p] \in Starting /\ pc'[p] \in Starting =>
          /\ Acquire(p) \/ FileError(p) => ToGo(p)' < ToGo(p)
          /\ ToGo(p)' = ToGo(p) \/ ToGo(p)' < ToGo(p)]_vars

(* A process moves nobody's start but its own. *)
LEMMA OthersStay ==
    ASSUME TypeOK, NEW p \in Procs, Step(p), NEW q \in Procs, q # p
    PROVE  pc'[q] = pc[q] /\ tries'[q] = tries[q]
<1> USE DEF TypeOK
<1>1. CASE Acquire(p)
    BY <1>1 DEF Acquire, Open, Write, Read, Probe, Remove, Ends, TryAgain
<1>2. CASE FileError(p) \/ Crash(p)
    BY <1>2 DEF FileError, Crash, Ends
<1>3. CASE Start(p) \/ Signal(p) \/ HandlerRemove(p) \/ FinalRemove(p)
    BY <1>3 DEF Start, Signal, HandlerRemove, FinalRemove
<1> QED BY <1>1, <1>2, <1>3 DEF Step

(* A further round is nearer to the end than anything past the first step  *)
(* of this one.                                                            *)
LEMMA AnotherRound ==
    ASSUME TypeOK, NEW p \in Procs, pc[p] \in Starting \ {"opening"}, TryAgain(p),
           pc'[p] \in Starting
    PROVE  ToGo(p)' < ToGo(p)
<1>1. tries[p] \in 1..3 /\ tries'[p] = tries[p] + 1 /\ pc'[p] = "opening"
    BY DEF TypeOK, TryAgain, Starting
<1>2. ToGo(p)' = 4 * (3 - (tries[p] + 1)) + 4
    BY <1>1 DEF ToGo
<1>3. \E n \in 1..3 : ToGo(p) = 4 * (3 - tries[p]) + n
    BY <1>1 DEF ToGo, Starting
<1> QED BY <1>1, <1>2, <1>3

(* A step of a start that goes on. *)
LEMMA StartStep ==
    ASSUME TypeOK, NEW p \in Procs, Acquire(p) \/ FileError(p), pc'[p] \in Starting
    PROVE  ToGo(p)' < ToGo(p)
<1>0. pc \in [Procs -> Idle \cup Starting \cup {"running"} \cup Exiting] /\ tries[p] \in 1..3
    BY DEF TypeOK
<1>1. CASE Open(p)
    BY <1>0, <1>1 DEF Open, ToGo
<1>2. CASE Write(p)
    BY <1>0, <1>2 DEF Write, Starting
<1>3. CASE Read(p)
    <2>1. CASE lock = NoLock
        BY <1>3, <2>1, AnotherRound DEF Read, Starting
    <2>2. CASE lock # NoLock
        BY <1>0, <1>3, <2>2 DEF Read, ToGo
    <2> QED BY <2>1, <2>2
<1>4. CASE Probe(p)
    <2>1. ~Ends(p, "refused")
        BY <1>0 DEF Ends, Starting
    <2> QED BY <1>0, <1>4, <2>1 DEF Probe, ToGo
<1>5. CASE Remove(p)
    BY <1>5, AnotherRound DEF Remove, Starting
<1>6. CASE FileError(p)
    BY <1>0, <1>6 DEF FileError, Ends, ToGo, Starting
<1> QED BY <1>1, <1>2, <1>3, <1>4, <1>5, <1>6 DEF Acquire

(* Whatever the others do to the file, a start takes at most twelve steps: *)
(* lock_manager.py:54-84.                                                  *)
THEOREM StartsBounded == Spec => StartsAdvance
<1> DEFINE A == \A p \in Procs : pc[p] \in Starting /\ pc'[p] \in Starting =>
                  /\ Acquire(p) \/ FileError(p) => ToGo(p)' < ToGo(p)
                  /\ ToGo(p)' = ToGo(p) \/ ToGo(p)' < ToGo(p)
<1>1. TypeOK /\ [Next]_vars => [A]_vars
    <2> SUFFICES ASSUME TypeOK, Next, NEW p \in Procs, pc[p] \in Starting, pc'[p] \in Starting
                 PROVE  /\ Acquire(p) \/ FileError(p) => ToGo(p)' < ToGo(p)
                        /\ ToGo(p)' = ToGo(p) \/ ToGo(p)' < ToGo(p)
        OBVIOUS
    <2>1. PICK q \in Procs : Step(q)
        BY DEF Next
    <2>2. CASE q # p
        <3>1. pc'[p] = pc[p] /\ tries'[p] = tries[p]
            BY <2>1, <2>2, OthersStay
        <3> QED BY <3>1, StartStep DEF ToGo
    <2>3. CASE q = p
        <3>1. pc \in [Procs -> Idle \cup Starting \cup {"running"} \cup Exiting]
            BY DEF TypeOK
        <3>2. ~Start(p) /\ ~Signal(p) /\ ~HandlerRemove(p) /\ ~FinalRemove(p)
            BY DEF Start, Signal, HandlerRemove, FinalRemove, Starting, Idle
        <3>3. ~Crash(p)
            BY <3>1 DEF Crash, Ends, Starting
        <3>4. Acquire(p) \/ FileError(p)
            BY <2>1, <2>3, <3>2, <3>3 DEF Step
        <3> QED BY <3>4, StartStep
    <2> QED BY <2>2, <2>3
<1> QED BY <1>1, TypeCorrect, PTL DEF Spec, StartsAdvance
=============================================================================
