-------------------------- MODULE MetricsFile_proofs --------------------------
(***************************************************************************)
(* Theorems about MetricsFile: its types, that no crash leaves a torn      *)
(* export file, that the history stays in order and is kept, and that all  *)
(* of it implements SnapshotLog.                                           *)
(*                                                                         *)
(* A crash of the host may bring back any version in `after`, so what is   *)
(* claimed of the file must be claimed of all of them, and of the list on  *)
(* its way there: buf, then temp.                                          *)
(***************************************************************************)
EXTENDS MetricsFile, SequenceTheorems, TLAPS

File == [data: Versions, state: {"cached", "synced"}]

(* What is renamed into place has been synced. *)
FileInv ==
    /\ TypeOK
    /\ NeverTorn
    /\ loaded # Torn
    /\ pc \in {"load", "write", "sync", "replace"} => cycle >= 1
    /\ pc \in {"sync", "replace"} => temp \in File
    /\ pc = "replace" => temp.state = "synced"

Upto(list, n) == \A i \in 1..Len(list) : list[i] <= n

(* Between Collect and LoadExisting the file lags behind the cycle. *)
Newest == IF pc = "load" THEN cycle - 1 ELSE cycle

Sound(list, n) == Ordered(list) /\ Upto(list, n)

HistoryInv ==
    /\ \A version \in after \cup {file, loaded} : Sound(AsList(version), Newest)
    /\ pc = "write" => Sound(buf, cycle)
    /\ pc \in {"sync", "replace"} => Sound(temp.data, cycle)

-----------------------------------------------------------------------------
(* A version is neither of the two markers (the model's NoFile and Torn).  *)
LEMMA VersionsAreLists ==
    ASSUME NEW list \in Versions
    PROVE  list \in Seq(Nat) /\ list # NoFile /\ list # Torn
<1>1. list \in Seq(1..MaxCycles)  BY DEF Versions, Lists
<1>2. list \in Seq(Nat)
    <2>1. \A i \in 1..Len(list) : list[i] \in Nat
        <3>1. \A i \in 1..Len(list) : list[i] \in 1..MaxCycles  BY <1>1, ElementOfSeq
        <3> QED  BY <3>1, FileAssumption
    <2>2. list \in [1..Len(list) -> Nat]  BY <1>1, <2>1
    <2> QED  BY <1>1, <2>2
<1> QED  BY <1>2, FileAssumption

(* load_existing_data always yields a list. *)
LEMMA AsListIsList ==
    ASSUME NEW version \in {NoFile, Torn} \cup Versions
    PROVE  AsList(version) \in Lists
<1>1. CASE version \in {NoFile, Torn}  BY <1>1 DEF AsList, Lists
<1>2. CASE version \notin {NoFile, Torn}
    BY <1>2 DEF AsList, Versions
<1> QED  BY <1>1, <1>2

(* The tail of a list. *)
LEMMA TailFrom ==
    ASSUME NEW S, NEW list \in Seq(S), NEW m \in 1..Len(list)
    PROVE  /\ SubSeq(list, m, Len(list)) \in Seq(S)
           /\ Len(SubSeq(list, m, Len(list))) = Len(list) - m + 1
           /\ \A i \in 1..(Len(list) - m + 1) :
                SubSeq(list, m, Len(list))[i] = list[m + i - 1]
<1>1. SubSeq(list, m, Len(list)) \in Seq(S)  OBVIOUS
<1>2. Len(SubSeq(list, m, Len(list))) = Len(list) - m + 1  OBVIOUS
<1>3. \A i \in 1..(Len(list) - m + 1) :
        SubSeq(list, m, Len(list))[i] = list[m + i - 1]
    OBVIOUS
<1> QED  BY <1>1, <1>2, <1>3

(* The rotation (lxc_monitor.py:539-545) yields a list of at most          *)
(* MaxEntries snapshots, in which order and bound are kept.                *)
LEMMA TrimmedIsVersion ==
    ASSUME NEW list \in Lists
    PROVE  Trimmed(list) \in Versions
<1>1. MaxEntries \in Nat \ {0}  BY FileAssumption
<1>2. CASE Len(list) > MaxEntries
    <2> DEFINE m == Len(list) - MaxEntries + 1
    <2>1. list \in Seq(1..MaxCycles) /\ Len(list) \in Nat  BY DEF Lists
    <2>2. m \in 1..(Len(list) + 1) /\ Len(list) \in m - 1..Len(list)
        BY <1>1, <1>2, <2>1
    <2>3. /\ SubSeq(list, m, Len(list)) \in Seq(1..MaxCycles)
          /\ Len(SubSeq(list, m, Len(list))) = Len(list) - m + 1
        <3>1. m \in 1..Len(list)  BY <1>1, <1>2, <2>1
        <3> HIDE DEF m
        <3> QED  BY <2>1, <3>1, TailFrom
    <2>4. Len(list) - m + 1 = MaxEntries  BY <1>1, <2>1
    <2> QED  BY <1>1, <1>2, <2>3, <2>4 DEF Trimmed, Versions, Lists
<1>3. CASE ~(Len(list) > MaxEntries)
    BY <1>1, <1>3 DEF Trimmed, Versions, Lists
<1> QED  BY <1>2, <1>3

LEMMA TrimmedIsSound ==
    ASSUME NEW list \in Lists, NEW n \in Nat, Sound(list, n)
    PROVE  Sound(Trimmed(list), n)
<1>1. MaxEntries \in Nat \ {0}  BY FileAssumption
<1>2. CASE Len(list) > MaxEntries
    <2> DEFINE m == Len(list) - MaxEntries + 1
               s == SubSeq(list, m, Len(list))
    <2>1. list \in Seq(1..MaxCycles) /\ Len(list) \in Nat  BY DEF Lists
    <2>2. m \in 1..(Len(list) + 1) /\ Len(list) \in m - 1..Len(list)
        BY <1>1, <1>2, <2>1
    <2>3. /\ Len(s) = Len(list) - m + 1
          /\ \A i \in 1..(Len(list) - m + 1) : s[i] = list[m + i - 1]
        <3>1. m \in 1..Len(list)  BY <1>1, <1>2, <2>1
        <3> HIDE DEF m
        <3> QED  BY <2>1, <3>1, TailFrom
    <2>4. \A i \in 1..Len(s) : m + i - 1 \in 1..Len(list) /\ s[i] = list[m + i - 1]
        BY <1>1, <1>2, <2>1, <2>3
    <2>5. Upto(s, n)  BY <2>4 DEF Sound, Upto
    <2>6. Ordered(s)
        <3> SUFFICES ASSUME NEW i \in 1..Len(s), NEW j \in 1..Len(s), i < j
                     PROVE  s[i] < s[j]
            BY DEF Ordered
        <3>1. m + i - 1 < m + j - 1  BY <2>2
        <3>2. list[m + i - 1] < list[m + j - 1]  BY <2>4, <3>1 DEF Sound, Ordered
        <3> QED  BY <2>4, <3>2
    <2> QED  BY <1>2, <2>5, <2>6 DEF Sound, Trimmed
<1>3. CASE ~(Len(list) > MaxEntries)  BY <1>3 DEF Trimmed
<1> QED  BY <1>2, <1>3

(* Appending the latest snapshot keeps the order: it is newer than all.    *)
LEMMA AppendIsSound ==
    ASSUME NEW list \in Lists, NEW n \in 1..MaxCycles, Sound(list, n - 1)
    PROVE  Append(list, n) \in Lists /\ Sound(Append(list, n), n)
<1> DEFINE s == Append(list, n)
<1>1. list \in Seq(1..MaxCycles) /\ MaxCycles \in Nat  BY FileAssumption DEF Lists
<1>2. /\ s \in Seq(1..MaxCycles)
      /\ Len(s) = Len(list) + 1
      /\ s[Len(list) + 1] = n
      /\ \A i \in 1..Len(list) : s[i] = list[i]
    BY <1>1, AppendProperties
<1>3. \A i \in 1..Len(list) : list[i] < n /\ list[i] <= n
    <2>1. \A i \in 1..Len(list) : list[i] \in 1..MaxCycles  BY <1>1, ElementOfSeq
    <2> QED  BY <1>1, <2>1 DEF Sound, Upto
<1>4. n \in Int /\ Len(list) \in Nat  BY <1>1
<1> HIDE DEF s
<1>5. Upto(s, n)
    <2> SUFFICES ASSUME NEW i \in 1..Len(s) PROVE s[i] <= n  BY DEF Upto
    <2>1. i \in 1..Len(list) \/ i = Len(list) + 1  BY <1>2, <1>4
    <2> QED  BY <1>2, <1>3, <1>4, <2>1
<1>6. Ordered(s)
    <2> SUFFICES ASSUME NEW i \in 1..Len(s), NEW j \in 1..Len(s), i < j
                 PROVE  s[i] < s[j]
        BY DEF Ordered
    <2>1. /\ i \in 1..Len(list)
          /\ j \in 1..Len(list) \/ j = Len(list) + 1
        BY <1>2, <1>4
    <2>2. CASE j \in 1..Len(list)  BY <1>2, <2>1, <2>2 DEF Sound, Ordered
    <2>3. CASE j = Len(list) + 1  BY <1>2, <1>3, <2>1, <2>3
    <2> QED  BY <2>1, <2>2, <2>3
<1> QED  BY <1>2, <1>5, <1>6 DEF s, Sound, Lists

-----------------------------------------------------------------------------
LEMMA FileInit == Init => FileInv /\ HistoryInv
<1> SUFFICES ASSUME Init PROVE FileInv /\ HistoryInv  OBVIOUS
<1>1. FileInv
    BY FileAssumption DEF Init, FileInv, TypeOK, NeverTorn, Lists
<1>2. Sound(<<>>, 0) /\ AsList(NoFile) = <<>>
    BY DEF Sound, Ordered, Upto, AsList
<1>3. HistoryInv  BY <1>2 DEF Init, HistoryInv, Newest
<1> QED  BY <1>1, <1>3

(* Every step of the monitor, of the model, of a fault, keeps FileInv.     *)
LEMMA FileNext == FileInv /\ [Next]_vars => FileInv'
<1> SUFFICES ASSUME FileInv, [Next]_vars PROVE FileInv'  OBVIOUS
<1> USE FileAssumption DEF FileInv, TypeOK, NeverTorn, File
<1>1. CASE EmptyCycle  BY <1>1 DEF EmptyCycle, vars
<1>2. CASE Collect  BY <1>2 DEF Collect
<1>3. CASE LoadExisting
    <2>1. cycle \in 1..MaxCycles  BY <1>3 DEF LoadExisting
    <2>2. AsList(file) \in Lists  BY AsListIsList
    <2>3. Append(AsList(file), cycle) \in Lists /\ <<cycle>> \in Lists
        BY <2>1, <2>2 DEF Lists
    <2>4. buf' \in {Append(AsList(file), cycle), <<cycle>>}
        BY <1>3, Zenon DEF LoadExisting
    <2>5. /\ budget' \in {budget, budget - 1} /\ (budget' = budget \/ budget > 0)
          /\ misreads' \in {misreads, misreads + 1}
        BY <1>3, Zenon DEF LoadExisting, Fault
    <2>6. budget' \in 0..MaxFaults /\ misreads' \in Nat  BY <2>5
    <2>7. pc' = "write" /\ UNCHANGED <<file, after, temp, cycle, loaded>>
        BY <1>3 DEF LoadExisting
    <2>8. buf' \in Lists  BY <2>3, <2>4
    <2>9. cycle' >= 1  BY <2>1, <2>7
    <2>10. TypeOK'  BY <2>6, <2>7, <2>8
    <2> QED  BY <2>7, <2>9, <2>10
<1>4. CASE WriteTemp
    <2>1. temp' \in File  BY <1>4, TrimmedIsVersion DEF WriteTemp
    <2> QED  BY <1>4, <2>1 DEF WriteTemp
<1>5. CASE Sync
    <2>1. temp' \in File /\ temp'.state = "synced"  BY <1>5 DEF Sync
    <2> QED  BY <1>5, <2>1 DEF Sync
<1>6. CASE Replace
    <2>1. temp.data \in Versions /\ temp.data # Torn /\ temp.state = "synced"
        BY <1>6, VersionsAreLists DEF Replace
    <2>2. file' = temp.data /\ after' = after \cup {temp.data}
        BY <1>6, <2>1 DEF Replace
    <2> QED  BY <1>6, <2>1, <2>2 DEF Replace
<1>7. CASE WriteError  BY <1>7 DEF WriteError, Fault
<1>8. CASE Crash
    <2>1. buf' \in Lists  BY <1>8 DEF Crash, Lists
    <2> QED  BY <1>8, <2>1 DEF Crash, Fault
<1>9. CASE HostCrash
    <2>1. buf' \in Lists  BY <1>9 DEF HostCrash, Lists
    <2> QED  BY <1>9, <2>1 DEF HostCrash, Fault
<1>10. CASE Restart  BY <1>10 DEF Restart
<1>11. CASE Settle  BY <1>11 DEF Settle
<1>12. CASE LoadData  BY <1>12 DEF LoadData
<1>13. CASE UNCHANGED vars  BY <1>13 DEF vars
<1> QED
    BY <1>1, <1>2, <1>3, <1>4, <1>5, <1>6, <1>7, <1>8, <1>9, <1>10, <1>11, <1>12, <1>13
    DEF Next, Monitor

(* No version holds a snapshot the monitor has not taken yet.              *)
LEMMA NoneFromTheFuture ==
    ASSUME FileInv, HistoryInv
    PROVE  \A version \in after \cup {file, loaded} : Sound(AsList(version), cycle)
<1> SUFFICES ASSUME NEW version \in after \cup {file, loaded}
             PROVE  Sound(AsList(version), cycle)
    OBVIOUS
<1>1. cycle \in Nat  BY FileAssumption DEF FileInv, TypeOK
<1>2. AsList(version) \in Seq(1..MaxCycles)
    BY AsListIsList DEF FileInv, TypeOK, Lists
<1>3. \A i \in 1..Len(AsList(version)) : AsList(version)[i] \in 1..MaxCycles
    BY <1>2, ElementOfSeq
<1>4. Sound(AsList(version), Newest)  BY DEF HistoryInv
<1> QED  BY <1>1, <1>3, <1>4 DEF Sound, Upto, Newest

(* And HistoryInv with it.  Whatever the file reverts to, the next         *)
(* snapshot is newer.                                                      *)
LEMMA HistoryNext == FileInv /\ HistoryInv /\ [Next]_vars => HistoryInv'
<1> SUFFICES ASSUME FileInv, HistoryInv, [Next]_vars PROVE HistoryInv'  OBVIOUS
<1>0. /\ cycle \in 0..MaxCycles /\ MaxCycles \in Nat
      /\ pc = "load" => cycle >= 1
      /\ pc \in {"sync", "replace"} => temp \in File
      /\ file \in {NoFile, Torn} \cup Versions
      /\ buf \in Lists
    BY FileAssumption DEF FileInv, TypeOK
<1>1. CASE EmptyCycle  BY <1>1 DEF EmptyCycle, vars, HistoryInv, Newest
<1>2. CASE Collect
    <2>1. Newest' = Newest  BY <1>0, <1>2 DEF Collect, Newest
    <2> QED  BY <1>2, <2>1 DEF Collect, HistoryInv
<1>3. CASE LoadExisting
    <2>1. cycle \in 1..MaxCycles  BY <1>0, <1>3 DEF LoadExisting
    <2>2. Newest = cycle - 1 /\ Newest' = cycle  BY <1>3 DEF LoadExisting, Newest
    <2>3. AsList(file) \in Lists /\ Sound(AsList(file), cycle - 1)
        BY <1>0, <2>2, AsListIsList DEF HistoryInv
    <2>4. Sound(Append(AsList(file), cycle), cycle)
        BY <2>1, <2>3, AppendIsSound
    <2>5. Sound(<<cycle>>, cycle)  BY <2>1 DEF Sound, Ordered, Upto
    <2>6. Sound(buf', cycle)  BY <1>3, <2>4, <2>5 DEF LoadExisting
    <2>7. \A version \in after \cup {file, loaded} : Sound(AsList(version), cycle)
        BY NoneFromTheFuture
    <2> QED  BY <1>3, <2>2, <2>6, <2>7 DEF LoadExisting, HistoryInv
<1>4. CASE WriteTemp
    <2>1. Sound(Trimmed(buf), cycle)
        BY <1>0, <1>4, TrimmedIsSound DEF WriteTemp, HistoryInv
    <2> QED  BY <1>4, <2>1 DEF WriteTemp, HistoryInv, Newest
<1>5. CASE Sync
    <2>1. temp'.data = temp.data  BY <1>0, <1>5 DEF Sync, File
    <2> QED  BY <1>5, <2>1 DEF Sync, HistoryInv, Newest
<1>6. CASE Replace
    <2>1. /\ AsList(temp.data) = temp.data
          /\ temp.state = "synced"
        BY <1>0, <1>6, VersionsAreLists DEF Replace, File, AsList, FileInv
    <2>2. file' = temp.data /\ after' = after \cup {temp.data} /\ loaded' = loaded
        BY <1>6, <2>1 DEF Replace
    <2>3. Sound(AsList(temp.data), cycle) /\ Newest = cycle /\ Newest' = cycle
        BY <1>6, <2>1 DEF Replace, HistoryInv, Newest
    <2> QED  BY <1>6, <2>2, <2>3 DEF Replace, HistoryInv
<1>7. CASE WriteError  BY <1>7 DEF WriteError, HistoryInv, Newest
<1>8. CASE Crash
    <2>1. \A version \in after \cup {file, loaded} : Sound(AsList(version), cycle)
        BY NoneFromTheFuture
    <2> QED  BY <1>8, <2>1 DEF Crash, HistoryInv, Newest
<1>9. CASE HostCrash
    <2>1. \A version \in after \cup {file, loaded} : Sound(AsList(version), cycle)
        BY NoneFromTheFuture
    <2>2. Sound(AsList(NoFile), cycle)
        BY <1>0 DEF AsList, Sound, Ordered, Upto
    <2> QED  BY <1>9, <2>1, <2>2 DEF HostCrash, HistoryInv, Newest
<1>10. CASE Restart  BY <1>10 DEF Restart, HistoryInv, Newest
<1>11. CASE Settle  BY <1>11 DEF Settle, HistoryInv, Newest
<1>12. CASE LoadData  BY <1>12 DEF LoadData, HistoryInv, Newest
<1>13. CASE UNCHANGED vars  BY <1>13 DEF vars, HistoryInv, Newest
<1> QED
    BY <1>1, <1>2, <1>3, <1>4, <1>5, <1>6, <1>7, <1>8, <1>9, <1>10, <1>11, <1>12, <1>13
    DEF Next, Monitor

LEMMA Invariance == Spec => [](FileInv /\ HistoryInv)
<1>1. FileInv /\ HistoryInv /\ [Next]_vars => (FileInv /\ HistoryInv)'
    BY FileNext, HistoryNext
<1> QED  BY <1>1, FileInit, PTL DEF Spec

(* The state of the export file, the temporary file and the monitor stays  *)
(* within its types (write_metrics_to_file, load_existing_data).           *)
THEOREM TypeCorrect == Spec => []TypeOK
BY Invariance, PTL DEF FileInv

(* Wherever the monitor or the host dies, now or later, the export file is *)
(* a complete list: it is synced before it is renamed into place           *)
(* (lxc_monitor.py:547-560).                                               *)
THEOREM CrashSafe == Spec => []NeverTorn
BY Invariance, PTL DEF FileInv

(* Readers always find the snapshots in the order of their collection,     *)
(* none twice, whatever was retried, lost or rolled back.                  *)
THEOREM InOrder == Spec => []HistoryInOrder
<1>1. HistoryInv => HistoryInOrder  BY DEF HistoryInv, HistoryInOrder, Sound
<1> QED  BY <1>1, Invariance, PTL

-----------------------------------------------------------------------------
(* Between the read and the rename nothing but a crash of the host changes *)
(* the file, so what is about to be written is what it holds plus one,     *)
(* unless a read failed once.                                              *)
Renewed == Append(AsList(file), cycle)

KeepInv ==
    /\ pc = "write" => buf = Renewed \/ (misreads > 0 /\ buf = <<cycle>>)
    /\ pc \in {"sync", "replace"} =>
          temp.data = Trimmed(Renewed) \/ (misreads > 0 /\ temp.data = <<cycle>>)

LEMMA KeepNext == FileInv /\ KeepInv /\ [Next]_vars => KeepInv'
<1> SUFFICES ASSUME FileInv, KeepInv, [Next]_vars PROVE KeepInv'  OBVIOUS
<1> USE DEF KeepInv, Renewed
<1>0. /\ misreads \in Nat
      /\ pc \in {"sync", "replace"} => temp \in File
    BY DEF FileInv, TypeOK
<1>1. CASE EmptyCycle  BY <1>1 DEF EmptyCycle, vars
<1>2. CASE Collect  BY <1>2 DEF Collect
<1>3. CASE LoadExisting
    <2>1. \/ buf' = Append(AsList(file), cycle)
          \/ misreads' = misreads + 1 /\ buf' = <<cycle>>
        BY <1>3, Zenon DEF LoadExisting
    <2>2. pc' = "write" /\ file' = file /\ cycle' = cycle
        BY <1>3 DEF LoadExisting
    <2> QED  BY <1>0, <2>1, <2>2
<1>4. CASE WriteTemp
    <2>1. buf = Renewed \/ (misreads > 0 /\ buf = <<cycle>>)  BY <1>4 DEF WriteTemp
    <2>2. Trimmed(<<cycle>>) = <<cycle>>  BY FileAssumption DEF Trimmed
    <2>3. temp'.data = Trimmed(buf) /\ pc' = "sync" /\ UNCHANGED <<file, cycle, misreads>>
        BY <1>4 DEF WriteTemp
    <2> QED  BY <2>1, <2>2, <2>3
<1>5. CASE Sync
    <2>1. temp'.data = temp.data  BY <1>0, <1>5 DEF Sync, File
    <2> QED  BY <1>5, <2>1 DEF Sync
<1>6. CASE Replace  BY <1>6 DEF Replace
<1>7. CASE WriteError  BY <1>7 DEF WriteError
<1>8. CASE Crash  BY <1>8 DEF Crash
<1>9. CASE HostCrash  BY <1>9 DEF HostCrash
<1>10. CASE Restart  BY <1>10 DEF Restart
<1>11. CASE Settle  BY <1>11 DEF Settle
<1>12. CASE LoadData  BY <1>12 DEF LoadData
<1>13. CASE UNCHANGED vars  BY <1>13 DEF vars
<1> QED
    BY <1>1, <1>2, <1>3, <1>4, <1>5, <1>6, <1>7, <1>8, <1>9, <1>10, <1>11, <1>12, <1>13
    DEF Next, Monitor

(* The rotation of a list with one snapshot added, read from its end.      *)
LEMMA RenewedTail ==
    ASSUME NEW list \in Lists, Len(list) <= MaxEntries, NEW n \in 1..MaxCycles,
           NEW new, new = Trimmed(Append(list, n))
    PROVE  /\ Len(new) > Len(list) \/ Len(new) = MaxEntries
           /\ new[Len(new)] = n
           /\ \A i \in 1..(Len(new) - 1) : new[Len(new) - i] = list[Len(list) + 1 - i]
<1> DEFINE s == Append(list, n)
<1>1. /\ list \in Seq(1..MaxCycles) /\ Len(list) \in Nat
      /\ MaxEntries \in Nat \ {0} /\ MaxCycles \in Nat
    BY FileAssumption DEF Lists
<1>2. /\ s \in Seq(1..MaxCycles)
      /\ Len(s) = Len(list) + 1
      /\ s[Len(list) + 1] = n
      /\ \A i \in 1..Len(list) : s[i] = list[i]
    BY <1>1, AppendProperties
<1>3. new = Trimmed(s)  OBVIOUS
<1> HIDE DEF s
<1>4. CASE Len(list) < MaxEntries
    <2>1. new = s  BY <1>1, <1>2, <1>3, <1>4 DEF Trimmed
    <2>2. Len(new) = Len(list) + 1 /\ new[Len(new)] = n
        BY <1>1, <1>2, <2>1
    <2>3. ASSUME NEW i \in 1..(Len(new) - 1)
          PROVE  new[Len(new) - i] = list[Len(list) + 1 - i]
        <3>1. Len(new) - i = Len(list) + 1 - i /\ Len(list) + 1 - i \in 1..Len(list)
            BY <1>1, <2>2
        <3> QED  BY <1>2, <2>1, <3>1
    <2> QED  BY <1>1, <2>2, <2>3
<1>5. CASE Len(list) = MaxEntries
    <2>1. 2 \in 1..Len(s) /\ Len(s) - MaxEntries + 1 = 2 /\ Len(s) > MaxEntries
        BY <1>1, <1>2, <1>5
    <2>2. new = SubSeq(s, 2, Len(s))  BY <1>3, <2>1 DEF Trimmed
    <2>3. /\ Len(new) = Len(s) - 2 + 1
          /\ \A i \in 1..(Len(s) - 2 + 1) : new[i] = s[2 + i - 1]
        BY <1>2, <2>1, <2>2, TailFrom
    <2>4. Len(new) = Len(list)  BY <1>1, <1>2, <2>3
    <2>5. new[Len(new)] = n
        <3>1. Len(new) \in 1..(Len(s) - 2 + 1) /\ 2 + Len(new) - 1 = Len(list) + 1
            BY <1>1, <1>2, <1>5, <2>4
        <3> QED  BY <1>2, <2>3, <3>1
    <2>6. ASSUME NEW i \in 1..(Len(new) - 1)
          PROVE  new[Len(new) - i] = list[Len(list) + 1 - i]
        <3>1. /\ Len(new) - i \in 1..(Len(s) - 2 + 1)
              /\ 2 + (Len(new) - i) - 1 = Len(list) + 1 - i
              /\ Len(list) + 1 - i \in 1..Len(list)
            BY <1>1, <1>2, <2>4
        <3> QED  BY <1>2, <2>3, <3>1
    <2> QED  BY <1>1, <1>5, <2>4, <2>5, <2>6
<1> QED  BY <1>1, <1>4, <1>5

(* As long as the file could be read, a version is the one it replaces     *)
(* with the latest snapshot added and, when full, the oldest dropped,      *)
(* whatever writes failed and processes died before.                       *)
THEOREM HistoryKept == Spec => OnlyTheOldestLeaves
<1> DEFINE Kept ==
        misreads = 0 /\ file' # file /\ pc = "replace" /\ pc' = "sleep" =>
            /\ Len(file') > Len(AsList(file)) \/ Len(file') = MaxEntries
            /\ file'[Len(file')] = cycle
            /\ \A i \in 1..(Len(file') - 1) :
                  file'[Len(file') - i] = AsList(file)[Len(AsList(file)) + 1 - i]
<1>1. FileInv /\ KeepInv /\ [Next]_vars => [Kept]_vars
    <2> SUFFICES ASSUME FileInv, KeepInv, Next, misreads = 0, file' # file,
                        pc = "replace", pc' = "sleep"
                 PROVE  /\ Len(file') > Len(AsList(file)) \/ Len(file') = MaxEntries
                        /\ file'[Len(file')] = cycle
                        /\ \A i \in 1..(Len(file') - 1) :
                             file'[Len(file') - i] = AsList(file)[Len(AsList(file)) + 1 - i]
        OBVIOUS
    <2>1. Replace
        BY DEF Next, Monitor, EmptyCycle, Collect, LoadExisting, WriteTemp, Sync, WriteError,
               Crash, HostCrash, Restart, Settle, LoadData, vars
    <2>2. file' = temp.data /\ temp.data \in Versions
        BY <2>1 DEF Replace, FileInv, File
    <2>3. file' = Trimmed(Append(AsList(file), cycle))
        BY <2>1, <2>2 DEF Replace, KeepInv, Renewed
    <2>4. AsList(file) \in Lists /\ Len(AsList(file)) <= MaxEntries
        <3>1. file \in {NoFile, Torn} \cup Versions  BY DEF FileInv, TypeOK
        <3>2. CASE file \in {NoFile, Torn}
            BY <3>2, FileAssumption DEF AsList, Lists
        <3>3. CASE file \notin {NoFile, Torn}
            BY <3>1, <3>3 DEF AsList, Versions
        <3> QED  BY <3>2, <3>3
    <2>5. cycle \in 1..MaxCycles
        BY FileAssumption DEF FileInv, TypeOK
    <2> QED  BY <2>3, <2>4, <2>5, RenewedTail
<1>2. Init => KeepInv  BY DEF Init, KeepInv
<1>3. Spec => []FileInv  BY Invariance, PTL
<1> QED  BY <1>1, <1>2, <1>3, KeepNext, PTL DEF Spec, OnlyTheOldestLeaves

-----------------------------------------------------------------------------
(* The rotation, said as SnapshotLog says it.                              *)
LEMMA TrimmedIsNewest ==
    ASSUME NEW list \in Lists
    PROVE  Trimmed(list) = Log!Newest(list)
<1>1. CASE Len(list) > MaxEntries  BY <1>1 DEF Trimmed, Log!Newest
<1>2. CASE ~(Len(list) > MaxEntries)
    <2>1. SubSeq(list, 1, Len(list)) = list  BY DEF Lists
    <2> QED  BY <1>2, <2>1 DEF Trimmed, Log!Newest
<1> QED  BY <1>1, <1>2

(* The steps that do not reach the log.                                    *)
LEMMA Hidden ==
    ASSUME UNCHANGED <<file, after, cycle, misreads, loaded>>,
           (pc' \in {"load", "write", "sync", "replace"})
                <=> (pc \in {"load", "write", "sync", "replace"})
    PROVE  UNCHANGED Log!vars
BY DEF Log!vars

(* Each step of the monitor, the model, or a fault is one of the log, or   *)
(* none.                                                                   *)
LEMMA LogStep ==
    ASSUME FileInv, KeepInv, [Next]_vars
    PROVE  [Log!Next]_(Log!vars)
<1>1. CASE EmptyCycle \/ UNCHANGED vars
    BY <1>1 DEF EmptyCycle, vars, Log!vars
<1>2. CASE Collect
    BY <1>2 DEF Collect, Log!Next, Log!Take
<1>3. CASE LoadExisting
    <2>1. pc = "load" /\ pc' = "write" /\ UNCHANGED <<file, after, cycle, loaded>>
        BY <1>3 DEF LoadExisting
    <2>2. CASE misreads' = misreads  BY <2>1, <2>2, Hidden
    <2>3. CASE misreads' = misreads + 1 /\ file # NoFile
        BY <2>1, <2>3 DEF Log!Next, Log!Miss
    <2>4. misreads' = misreads \/ (misreads' = misreads + 1 /\ file # NoFile)
        BY <1>3, Zenon DEF LoadExisting
    <2> QED  BY <2>2, <2>3, <2>4
<1>4. CASE WriteTemp
    BY <1>4, Hidden DEF WriteTemp
<1>5. CASE Sync
    BY <1>5, Hidden DEF Sync
<1>6. CASE Replace
    <2>1. /\ temp.data = Trimmed(Renewed) \/ (misreads > 0 /\ temp.data = <<cycle>>)
          /\ temp.state = "synced"
        BY <1>6 DEF Replace, KeepInv, FileInv
    <2>2. AsList(file) \in Lists /\ file # Torn
        BY AsListIsList DEF FileInv, TypeOK, NeverTorn
    <2>3. AsList(file) = Log!Entries(file)
        BY <2>2 DEF AsList, Log!Entries
    <2>4. Renewed \in Lists
        BY <1>6, <2>2, FileAssumption DEF Replace, Renewed, Lists, FileInv, TypeOK
    <2>5. \/ temp.data = Log!Newest(Append(Log!Entries(file), cycle))
          \/ misreads > 0 /\ temp.data = <<cycle>>
        BY <2>1, <2>3, <2>4, TrimmedIsNewest DEF Renewed
    <2>6. /\ pc = "replace" /\ pc' = "sleep" /\ UNCHANGED <<cycle, misreads, loaded>>
          /\ file' = temp.data /\ after' = after \cup {temp.data}
        BY <1>6, <2>1 DEF Replace
    <2>7. Log!Add  BY <2>5, <2>6 DEF Log!Add
    <2> QED  BY <2>7 DEF Log!Next
<1>7. CASE WriteError
    BY <1>7 DEF WriteError, Log!Next, Log!GiveUp
<1>8. CASE Crash
    BY <1>8 DEF Crash, Log!Next, Log!GiveUp
<1>9. CASE HostCrash
    BY <1>9 DEF HostCrash, Log!Next, Log!Revert
<1>10. CASE Restart
    BY <1>10, Hidden DEF Restart
<1>11. CASE Settle
    BY <1>11 DEF Settle, Log!Next, Log!Settle
<1>12. CASE LoadData
    BY <1>12 DEF LoadData, Log!Next, Log!Read
<1> QED
    BY <1>1, <1>2, <1>3, <1>4, <1>5, <1>6, <1>7, <1>8, <1>9, <1>10, <1>11, <1>12
    DEF Next, Monitor

(* Writing aside, syncing and renaming implement SnapshotLog: whatever     *)
(* fails or crashes in between, the log changes as a whole, by the newest  *)
(* snapshot or back to a version it had (lxc_monitor.py:521-566).          *)
THEOREM LogRefinement == Spec => AtomicLog
<1>1. Init => Log!Init  BY DEF Init, Log!Init
<1>2. FileInv /\ KeepInv /\ [Next]_vars => [Log!Next]_(Log!vars)
    BY LogStep
<1>3. Init => KeepInv  BY DEF Init, KeepInv
<1>4. Spec => []FileInv  BY Invariance, PTL
<1> QED  BY <1>1, <1>2, <1>3, <1>4, KeepNext, PTL DEF Spec, AtomicLog, Log!Spec
=============================================================================
