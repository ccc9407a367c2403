---------------------------- MODULE LxcRoutes_proofs ----------------------------
(***************************************************************************)
(* Proofs about LxcRoutes, for any number of threads, requests and faults, *)
(* any ids and names.                                                      *)
(*                                                                         *)
(* The invariant says what a request under way may rely on: its snapshot   *)
(* is there and its own (Own), the container it works on between two       *)
(* commands is stopped and nobody else has it in hand (Held, Apart), and   *)
(* whatever it made so far it will speak of in its answer (Mine).  That    *)
(* the other requests leave all this alone follows from what one command   *)
(* can do to them (Gentle); that a request keeps it for itself from what   *)
(* the command did for its own sake (Grasp).                               *)
(***************************************************************************)
EXTENDS LxcRoutes, FiniteSetTheorems, TLAPS

(* A snapshot, a clone and a stop are different deeds.                     *)
LEMMA Distinct ==
    /\ \A s \in Snapshot : \A c : s # [clone |-> c] /\ s # [stop |-> c]
    /\ \A c, d : [clone |-> c] # [stop |-> d]
    /\ \A c, d : [clone |-> c] = [clone |-> d] => c = d
    /\ \A c, d : [stop |-> c] = [stop |-> d] => c = d
<1>1. ASSUME NEW s \in Snapshot, NEW c PROVE s # [clone |-> c] /\ s # [stop |-> c]
    BY DEF Snapshot
<1>2. ASSUME NEW c, NEW d PROVE [clone |-> c] # [stop |-> d]
    OBVIOUS
<1>3. ASSUME NEW c, NEW d, [clone |-> c] = [clone |-> d] PROVE c = d
    <2>1. [clone |-> c].clone = [clone |-> d].clone
        BY <1>3
    <2> QED BY <2>1
<1>4. ASSUME NEW c, NEW d, [stop |-> c] = [stop |-> d] PROVE c = d
    <2>1. [stop |-> c].stop = [stop |-> d].stop
        BY <1>4
    <2> QED BY <2>1
<1> QED BY <1>1, <1>2, <1>3, <1>4

(* What every request is like, wherever it has come to.                    *)
LEMMA JobFacts ==
    ASSUME NEW j \in Jobs
    PROVE  /\ j # Idle /\ j.at \in Commands \cup {"reply"} /\ j.id \in Ids
           /\ j.failed \in 0..1 /\ j.unclean \in 0..1 /\ j.hit \in 0..1
           /\ j.route = "/clone/create" => j.id = Source /\ j.name \in Clones
           /\ j.route \in {"/clone/create", "/snapshot/create", "/snapshot/rollback"} => j.name \in Names
<1>1. j.at # "idle"
    BY DEF Jobs, Request, Commands
<1>2. j # Idle
    BY <1>1 DEF Idle
<1> QED BY <1>2, RoutesAssumption DEF Jobs, Request, Ids

(* Moving a request on, or marking it, leaves it a request ...             *)
LEMMA JobsClosed ==
    ASSUME NEW j \in Jobs, NEW x \in Commands \cup {"reply"}
    PROVE  To(j, x) \in Jobs /\ Failed(j) \in Jobs /\ Unclean(j) \in Jobs
           /\ [j EXCEPT !.hit = 1] \in Jobs
<1>1. ASSUME NEW r, NEW I, NEW N, j \in Request(r, I, N)
      PROVE  /\ To(j, x) \in Request(r, I, N)
             /\ Failed(j) \in Request(r, I, N)
             /\ Unclean(j) \in Request(r, I, N)
             /\ [j EXCEPT !.hit = 1] \in Request(r, I, N)
    BY <1>1 DEF Request, To, Failed, Unclean
<1> QED BY <1>1, Zenon DEF Jobs

(* k is j farther on: the same request. *)
Same(k, j) == k \in Jobs /\ k.route = j.route /\ k.id = j.id /\ k.name = j.name

(* The marks of k.                                                         *)
Flags(k, failed, unclean, hit) == k.failed = failed /\ k.unclean = unclean /\ k.hit = hit

(* ... the same one, and changes one thing in it.                          *)
LEMMA Moves ==
    ASSUME NEW j \in Jobs, NEW x \in Commands \cup {"reply"}
    PROVE  /\ Same(To(j, x), j) /\ Flags(To(j, x), j.failed, j.unclean, j.hit) /\ To(j, x).at = x
           /\ Same(Failed(j), j) /\ Flags(Failed(j), 1, j.unclean, j.hit) /\ Failed(j).at = j.at
           /\ Same(Unclean(j), j) /\ Flags(Unclean(j), j.failed, 1, j.hit) /\ Unclean(j).at = j.at
           /\ Same([j EXCEPT !.hit = 1], j) /\ Flags([j EXCEPT !.hit = 1], j.failed, j.unclean, 1)
           /\ [j EXCEPT !.hit = 1].at = j.at
<1>1. /\ Same(To(j, x), j) /\ Flags(To(j, x), j.failed, j.unclean, j.hit) /\ To(j, x).at = x
    BY JobsClosed DEF Same, Flags, To, Jobs, Request
<1>2. /\ Same(Failed(j), j) /\ Flags(Failed(j), 1, j.unclean, j.hit) /\ Failed(j).at = j.at
    BY JobsClosed DEF Same, Flags, Failed, Jobs, Request
<1>3. /\ Same(Unclean(j), j) /\ Flags(Unclean(j), j.failed, 1, j.hit) /\ Unclean(j).at = j.at
    BY JobsClosed DEF Same, Flags, Unclean, Jobs, Request
<1>4. /\ Same([j EXCEPT !.hit = 1], j) /\ Flags([j EXCEPT !.hit = 1], j.failed, j.unclean, 1)
      /\ [j EXCEPT !.hit = 1].at = j.at
    BY JobsClosed DEF Same, Flags, Jobs, Request
<1> QED BY <1>1, <1>2, <1>3, <1>4

(* Where a command that went well leaves its request.                      *)
LEMMA OnwardIs ==
    ASSUME NEW j \in Jobs, j.at \in Commands
    PROVE  LET k == Onward(j) IN
           /\ Same(k, j) /\ Flags(k, j.failed, j.unclean, j.hit)
           /\ k.at = IF j.at = "snapshot" /\ j.route = "/clone/create" THEN "clone"
                     ELSE IF j.at = "clone" THEN "start"
                     ELSE IF j.at = "start" THEN "delsnapshot"
                     ELSE IF j.at = "stop" THEN "destroy" ELSE "reply"
<1> QED BY Moves DEF Onward, Commands

(* Where one that raised leaves it.                                        *)
LEMMA RaisedIs ==
    ASSUME NEW j \in Jobs, j.at \in Commands
    PROVE  LET k == Raised(j) IN
           /\ Same(k, j)
           /\ k.at = IF j.at \in {"clone", "start"} THEN "delsnapshot" ELSE "reply"
           /\ IF j.at = "delsnapshot" THEN Flags(k, j.failed, 1, j.hit)
              ELSE Flags(k, 1, j.unclean, j.hit)
<1>1. /\ Failed(j) \in Jobs /\ Same(Failed(j), j) /\ Flags(Failed(j), 1, j.unclean, j.hit)
      /\ Unclean(j) \in Jobs /\ Same(Unclean(j), j) /\ Flags(Unclean(j), j.failed, 1, j.hit)
    BY Moves DEF Same, Commands
<1>2. ASSUME NEW i \in Jobs, NEW x \in Commands \cup {"reply"}, NEW f, NEW u, NEW h,
             Same(i, j), Flags(i, f, u, h)
      PROVE  Same(To(i, x), j) /\ Flags(To(i, x), f, u, h) /\ To(i, x).at = x
    BY <1>2, Moves DEF Same, Flags
<1>3. CASE j.at \in {"clone", "start"}
    BY <1>1, <1>2, <1>3 DEF Raised, Commands
<1>4. CASE j.at = "delsnapshot"
    BY <1>1, <1>2, <1>4 DEF Raised, Commands
<1>5. CASE j.at \notin {"clone", "start", "delsnapshot"}
    BY <1>1, <1>2, <1>5 DEF Raised, Commands
<1> QED BY <1>3, <1>4, <1>5

(* Where one that went wrong on its own leaves it.                         *)
LEMMA HitIs ==
    ASSUME NEW j \in Jobs, j.at \in Commands
    PROVE  LET k == [Raised(j) EXCEPT !.hit = 1] IN
           /\ Same(k, j)
           /\ k.at = IF j.at \in {"clone", "start"} THEN "delsnapshot" ELSE "reply"
           /\ IF j.at = "delsnapshot" THEN Flags(k, j.failed, 1, 1) ELSE Flags(k, 1, j.unclean, 1)
<1> QED BY RaisedIs, Moves DEF Same, Flags

-----------------------------------------------------------------------------
(* Container c is in t's hand, between two of its commands.                *)
Holds(t, c) ==
    \/ job[t].at = "start" /\ job[t].name = c
    \/ job[t].at = "destroy" /\ job[t].id = c

(* A clone request has its snapshot until it drops it, unless its source   *)
(* is gone.                                                                *)
Own(t) ==
    job[t].at \in {"clone", "start", "delsnapshot"} =>
        /\ job[t].route = "/clone/create"
        /\ ct[Source] # "none" => Snap(job[t]) \in snaps /\ made[Snap(job[t])] = t

(* Only two routes take snapshots and one resizes, and an error ends a     *)
(* request but for its cleanup.                                            *)
Named(t) ==
    /\ job[t].at = "snapshot" => job[t].route \in {"/clone/create", "/snapshot/create"}
    /\ job[t].at \in Commands \ {"delsnapshot"} => job[t].failed = 0
    /\ job[t].at \in Commands =>
        (job[t].at = "resize" <=> job[t].route = "/scale/storage/increase")

(* A container between clone and start, or between stop and destroy, is    *)
(* stopped.                                                                *)
Held(t) ==
    /\ \A c \in Ids : Holds(t, c) => ct[c] = "stopped"
    /\ job[t].at = "destroy" => made[[stop |-> job[t].id]] = t

(* No two requests have the same one in hand.                              *)
Apart(t, u) == \A c \in Ids : Holds(t, c) /\ Holds(u, c) => t = u

(* What a request under way has made so far, and what it knows of it.      *)
SnapshotMine(t, s) ==
    LET j == job[t] IN
    /\ s = Snap(j)
    /\ \/ j.at \in {"clone", "start", "delsnapshot"}
       \/ j.at = "reply" /\ j.failed = 0 /\ (j.unclean = 1 \/ j.route = "/snapshot/create")
       \/ j.at = "reply" /\ j.failed = 1 /\ j.hit = 1
       \/ j.at = "reply" /\ s.of = Source /\ ct[Source] = "none"

(* The same of a clone it made or a container it stopped.                  *)
OtherMine(t, d) ==
    LET j == job[t] IN
    \/ d = [clone |-> j.name] /\ j.at \in {"start", "delsnapshot", "reply"} /\ (j.failed = 0 \/ j.hit = 1)
    \/ d = [stop |-> j.id] /\ j.at \in {"destroy", "reply"} /\ (j.failed = 0 \/ j.hit = 1)

(* All that history has down to t, t will answer for.                      *)
Mine(t) ==
    \A d \in Deeds : made[d] = t =>
        /\ job[t] # Idle
        /\ IF d \in Snapshot THEN SnapshotMine(t, d) ELSE OtherMine(t, d)

(* Snapshots are of containers that exist.                                 *)
Standing == \A s \in snaps : ct[s.of] # "none"

(* The one thing a request may leave unsaid is gone with its source.       *)
Told == \A d \in Deeds : made[d] = "silent" => d \in Snapshot /\ d.of = Source /\ ct[Source] = "none"

(* The inductive invariant.                                                *)
IInv ==
    /\ TypeOK /\ Standing /\ Told
    /\ \A t \in Threads : Own(t) /\ Named(t) /\ Held(t) /\ Mine(t)
    /\ \A t, u \in Threads : Apart(t, u)

(* What a command of t may do to the node, as the others see it.           *)
Gentle(t) ==
    /\ \A c \in Ids : ct[c] = "stopped" =>
           Holds(t, c) \/ (ct'[c] = "stopped" /\ made'[[stop |-> c]] = made[[stop |-> c]])
    /\ ct[Source] = "none" => ct'[Source] = "none"
    /\ \A s \in snaps : ct'[s.of] # "none" =>
           made[s] = t \/ (s \in snaps' /\ made'[s] = made[s])
    /\ \A s \in snaps' : ct'[s.of] # "none"
    /\ \A d \in Deeds : made'[d] \in {made[d], t, "caller"}

(* The types of what commands change.                                      *)
NodeTyped ==
    /\ ct \in [Ids -> {"none", "stopped", "running"}]
    /\ snaps \subseteq Snapshot
    /\ grown \in Nat
    /\ made \in [Deeds -> Threads \cup Endings]


(* Every command is gentle: one case per command of lxc_management.py.     *)
LEMMA GentleEffect ==
    ASSUME IInv, NEW t \in Threads, job[t] \in Jobs, Possible(job[t]), TakesEffect(t, job[t])
    PROVE  Gentle(t) /\ NodeTyped'
<1> DEFINE j == job[t]
           s == Snap(j)
<1>0. /\ j \in Jobs /\ j.id \in Ids /\ Source \in Ids /\ Clones \subseteq Ids /\ Source \notin Clones
      /\ j.route = "/clone/create" => j.id = Source /\ j.name \in Clones
      /\ j.route \in {"/clone/create", "/snapshot/create"} => j.name \in Names
    BY JobFacts, RoutesAssumption DEF Ids
<1>1. /\ ct \in [Ids -> {"none", "stopped", "running"}] /\ snaps \subseteq Snapshot /\ grown \in Nat
      /\ made \in [Deeds -> Threads \cup Endings] /\ Own(t) /\ Named(t) /\ Standing
      /\ \A z \in snaps : z \in Deeds /\ z.of \in Ids
      /\ \A c \in Ids : [stop |-> c] \in Deeds
      /\ "caller" \in Endings
    BY DEF IInv, TypeOK, Deeds, Snapshot, Endings
<1>2. CASE j.at = "snapshot"
    <2>1. s \in Snapshot /\ s.of = j.id /\ s \in Deeds
        BY <1>0, <1>1, <1>2 DEF Named, Snap, Snapshot, Deeds
    <2>2. ct[j.id] # "none" /\ s \notin snaps
        BY <1>2 DEF Possible
    <2>3. /\ snaps' = snaps \cup {s} /\ ct' = ct /\ grown' = grown
          /\ made' = [d \in Deeds |-> IF d \in {s} THEN t ELSE made[d]]
        BY <1>2 DEF TakesEffect, Records
    <2> HIDE DEF s, j
    <2>4. NodeTyped'
        BY <1>1, <2>1, <2>3 DEF NodeTyped
    <2>5. \A c \in Ids : made'[[stop |-> c]] = made[[stop |-> c]]
        BY <1>1, <2>1, <2>3, Distinct
    <2> QED BY <1>1, <2>1, <2>2, <2>3, <2>4, <2>5 DEF Gentle, Standing
<1>3. CASE j.at = "clone"
    <2>1. j.name \in Clones /\ [clone |-> j.name] \in Deeds /\ ct[j.name] = "none"
        BY <1>0, <1>1, <1>3 DEF Own, Deeds, Possible
    <2>2. /\ ct' = [ct EXCEPT ![j.name] = "stopped"] /\ snaps' = snaps /\ grown' = grown
          /\ made' = [d \in Deeds |-> IF d \in {[clone |-> j.name]} THEN t ELSE made[d]]
        BY <1>3 DEF TakesEffect, Records, Becomes
    <2> HIDE DEF s, j
    <2>3. NodeTyped'
        BY <1>0, <1>1, <2>1, <2>2 DEF NodeTyped
    <2>4. \A c \in Ids : made'[[stop |-> c]] = made[[stop |-> c]]
        BY <1>1, <2>2, Distinct
    <2>5. \A z \in snaps : made'[z] = made[z]
        BY <1>1, <2>2, Distinct
    <2>6. \A c \in Ids : ct[c] # "none" => ct'[c] = ct[c]
        BY <1>1, <2>1, <2>2
    <2>7. ct'[Source] = ct[Source]
        BY <1>0, <1>1, <2>1, <2>2
    <2> QED BY <1>1, <2>2, <2>3, <2>4, <2>5, <2>6, <2>7 DEF Gentle, Standing
<1>4. CASE j.at = "start"
    <2>1. j.name \in Clones /\ Holds(t, j.name) /\ ct[j.name] = "stopped"
        BY <1>0, <1>1, <1>4 DEF Own, Holds, Possible
    <2>2. /\ ct' = [ct EXCEPT ![j.name] = "running"] /\ snaps' = snaps /\ grown' = grown
          /\ made' = made
        BY <1>4 DEF TakesEffect, Becomes
    <2> HIDE DEF s, j
    <2>3. NodeTyped'
        BY <1>0, <1>1, <2>1, <2>2 DEF NodeTyped
    <2>4. \A c \in Ids : c # j.name => ct'[c] = ct[c]
        BY <1>1, <2>1, <2>2
    <2>5. ct'[j.name] = "running"
        BY <1>0, <1>1, <2>1, <2>2
    <2> QED BY <1>0, <1>1, <2>1, <2>2, <2>3, <2>4, <2>5 DEF Gentle, Standing
<1>5. CASE j.at = "delsnapshot"
    <2>1. s \in snaps
        BY <1>5 DEF Possible
    <2>2. ct[Source] # "none" => made[s] = t
        BY <1>1, <1>5 DEF Own
    <2>3. s.of = Source
        BY <1>0, <1>1, <1>5 DEF Own, Snap
    <2>4. /\ snaps' = snaps \ {s} /\ ct' = ct /\ grown' = grown
          /\ made' = [d \in Deeds |-> IF d \in {s} THEN "caller" ELSE made[d]]
        BY <1>5 DEF TakesEffect, Records
    <2> HIDE DEF s, j
    <2>5. NodeTyped'
        BY <1>1, <2>1, <2>4 DEF NodeTyped
    <2>6. \A c \in Ids : made'[[stop |-> c]] = made[[stop |-> c]]
        BY <1>1, <2>1, <2>4, Distinct
    <2> QED BY <1>1, <2>1, <2>2, <2>3, <2>4, <2>5, <2>6 DEF Gentle, Standing
<1>6. CASE j.at = "stop"
    <2>1. ct[j.id] = "running"
        BY <1>6 DEF Possible
    <2>2. /\ ct' = [ct EXCEPT ![j.id] = "stopped"] /\ snaps' = snaps /\ grown' = grown
          /\ made' = [d \in Deeds |-> IF d \in {[stop |-> j.id]} THEN t ELSE made[d]]
        BY <1>6 DEF TakesEffect, Records, Becomes
    <2> HIDE DEF s, j
    <2>3. NodeTyped'
        BY <1>0, <1>1, <2>2 DEF NodeTyped
    <2>4. \A c \in Ids : c # j.id => made'[[stop |-> c]] = made[[stop |-> c]] /\ ct'[c] = ct[c]
        BY <1>0, <1>1, <2>2, Distinct
    <2>5. \A z \in snaps : made'[z] = made[z]
        BY <1>1, <2>2, Distinct
    <2>6. ct'[j.id] = "stopped"
        BY <1>0, <1>1, <2>2
    <2>7. \A d \in Deeds : made'[d] \in {made[d], t, "caller"}
        BY <2>2
    <2> QED BY <1>0, <1>1, <2>1, <2>2, <2>3, <2>4, <2>5, <2>6, <2>7 DEF Gentle, Standing
<1>7. CASE j.at = "destroy"
    <2> DEFINE gone == {z \in snaps : z.of = j.id} \cup [clone: {j.id} \cap Clones] \cup [stop: {j.id}]
    <2>1. ct[j.id] = "stopped" /\ Holds(t, j.id)
        BY <1>7 DEF Possible, Holds
    <2>2. /\ ct' = [ct EXCEPT ![j.id] = "none"] /\ snaps' = {z \in snaps : z.of # j.id} /\ grown' = grown
          /\ made' = [d \in Deeds |-> IF d \in gone THEN "caller" ELSE made[d]]
        BY <1>7 DEF TakesEffect, Records, Becomes
    <2>3. \A c \in Ids : c # j.id => [stop |-> c] \notin gone
        BY <1>1, Distinct
    <2>4. \A z \in snaps : z.of # j.id => z \notin gone
        BY <1>1, Distinct
    <2> HIDE DEF s, j, gone
    <2>5. NodeTyped'
        BY <1>0, <1>1, <2>2 DEF NodeTyped
    <2>6. \A c \in Ids : c # j.id => made'[[stop |-> c]] = made[[stop |-> c]] /\ ct'[c] = ct[c]
        BY <1>0, <1>1, <2>2, <2>3
    <2>7. ct'[j.id] = "none"
        BY <1>0, <1>1, <2>2
    <2>8. \A d \in Deeds : made'[d] \in {made[d], t, "caller"}
        BY <2>2
    <2>9. \A z \in snaps : z.of # j.id => z \in snaps' /\ made'[z] = made[z]
        BY <1>1, <2>2, <2>4
    <2> QED BY <1>0, <1>1, <2>1, <2>2, <2>5, <2>6, <2>7, <2>8, <2>9 DEF Gentle, Standing
<1>8. CASE j.at = "rollback"
    <2>1. s \in snaps /\ s.of = j.id
        BY <1>8 DEF Possible, Snap
    <2>2. PICK state \in {ct[j.id], "stopped"} :
            ct' = [ct EXCEPT ![j.id] = state] /\ snaps' = snaps /\ grown' = grown /\ made' = made
        BY <1>8 DEF TakesEffect, Becomes
    <2> HIDE DEF s, j
    <2>3. ct[j.id] # "none"
        BY <1>1, <2>1 DEF Standing
    <2>4. NodeTyped'
        BY <1>0, <1>1, <2>2 DEF NodeTyped
    <2>5. ct'[j.id] \in {ct[j.id], "stopped"} /\ \A c \in Ids : c # j.id => ct'[c] = ct[c]
        BY <1>0, <1>1, <2>2
    <2> QED BY <1>0, <1>1, <2>2, <2>3, <2>4, <2>5 DEF Gentle, Standing
<1>9. CASE j.at = "resize"
    <2>1. ct' = ct /\ snaps' = snaps /\ made' = made /\ grown' = grown + 1
        BY <1>9 DEF TakesEffect
    <2> HIDE DEF s, j
    <2> QED BY <1>1, <2>1 DEF Gentle, Standing, NodeTyped
<1> QED BY <1>2, <1>3, <1>4, <1>5, <1>6, <1>7, <1>8, <1>9 DEF Possible

(* What a command of t does, as t sees it.                                 *)
Grasp(t) ==
    LET j == job[t] s == Snap(j) IN
    /\ \A d \in Deeds : made'[d] = t =>
        \/ /\ made[d] = t
           /\ j.at = "delsnapshot" => d # s
           /\ j.at = "destroy" => d # [stop |-> j.id]
        \/ j.at = "snapshot" /\ d = s
        \/ j.at = "clone" /\ d = [clone |-> j.name]
        \/ j.at = "stop" /\ d = [stop |-> j.id]
    /\ j.at = "snapshot" => s \in snaps' /\ made'[s] = t
    /\ j.at \in {"clone", "start"} => snaps' = snaps /\ made'[s] = made[s]
    /\ j.at = "clone" => ct'[j.name] = "stopped" /\ ct[j.name] # "stopped"
    /\ j.at = "stop" => ct'[j.id] = "stopped" /\ ct[j.id] # "stopped" /\ made'[[stop |-> j.id]] = t

(* Every command serves its own request: one case per command.             *)
LEMMA GraspEffect ==
    ASSUME IInv, NEW t \in Threads, job[t] \in Jobs, Possible(job[t]), TakesEffect(t, job[t])
    PROVE  Grasp(t)
<1> DEFINE j == job[t]
           s == Snap(j)
<1>0. /\ j.id \in Ids /\ [stop |-> j.id] \in Deeds /\ "caller" # t
      /\ j.at \in {"clone", "start"} => j.name \in Clones /\ j.name \in Ids
      /\ j.at \in {"snapshot", "clone", "start"} => s \in Snapshot /\ s \in Deeds
    BY JobFacts, RoutesAssumption DEF Ids, Deeds, IInv, Own, Named, Snap, Snapshot, Endings
<1>1. ct \in [Ids -> {"none", "stopped", "running"}] /\ made \in [Deeds -> Threads \cup Endings]
    BY DEF IInv, TypeOK
<1>2. CASE j.at = "snapshot"
    BY <1>0, <1>1, <1>2 DEF Grasp, TakesEffect, Records
<1>3. CASE j.at = "clone"
    <2>1. s # [clone |-> j.name]
        BY <1>0, <1>3, Distinct
    <2>2. ct[j.name] = "none"
        BY <1>3 DEF Possible
    <2>3. /\ ct' = [ct EXCEPT ![j.name] = "stopped"] /\ snaps' = snaps
          /\ made' = [d \in Deeds |-> IF d \in {[clone |-> j.name]} THEN t ELSE made[d]]
        BY <1>3 DEF TakesEffect, Records, Becomes
    <2> QED BY <1>0, <1>1, <1>3, <2>1, <2>2, <2>3 DEF Grasp
<1>4. CASE j.at = "start"
    BY <1>0, <1>1, <1>4 DEF Grasp, TakesEffect
<1>5. CASE j.at = "delsnapshot"
    BY <1>0, <1>1, <1>5 DEF Grasp, TakesEffect, Records
<1>6. CASE j.at = "stop"
    <2>1. ct[j.id] = "running"
        BY <1>6 DEF Possible
    <2>2. /\ ct' = [ct EXCEPT ![j.id] = "stopped"] /\ snaps' = snaps
          /\ made' = [d \in Deeds |-> IF d \in {[stop |-> j.id]} THEN t ELSE made[d]]
        BY <1>6 DEF TakesEffect, Records, Becomes
    <2> QED BY <1>0, <1>1, <1>6, <2>1, <2>2 DEF Grasp
<1>7. CASE j.at = "destroy"
    <2> DEFINE gone == {z \in snaps : z.of = j.id} \cup [clone: {j.id} \cap Clones] \cup [stop: {j.id}]
    <2>1. made' = [d \in Deeds |-> IF d \in gone THEN "caller" ELSE made[d]]
        BY <1>7 DEF TakesEffect, Records
    <2>2. [stop |-> j.id] \in gone
        OBVIOUS
    <2> HIDE DEF gone
    <2> QED BY <1>0, <1>1, <1>7, <2>1, <2>2 DEF Grasp
<1>8. CASE j.at = "rollback"
    BY <1>0, <1>1, <1>8 DEF Grasp, TakesEffect
<1>9. CASE j.at = "resize"
    BY <1>0, <1>1, <1>9 DEF Grasp, TakesEffect
<1> QED BY <1>2, <1>3, <1>4, <1>5, <1>6, <1>7, <1>8, <1>9 DEF Possible

(* The other requests are not disturbed.                                   *)
LEMMA OthersKeep ==
    ASSUME IInv, NEW t \in Threads, NEW u \in Threads, u # t, Gentle(t), NodeTyped', job'[u] = job[u]
    PROVE  Own(u)' /\ Named(u)' /\ Held(u)' /\ Mine(u)'
<1>0. /\ job \in [Threads -> Jobs \cup {Idle}] /\ Own(u) /\ Named(u) /\ Held(u) /\ Mine(u)
      /\ Apart(t, u) /\ Source \in Ids /\ "caller" # u /\ Idle.at = "idle"
    BY RoutesAssumption DEF IInv, TypeOK, Ids, Endings, Idle
<1>1. Own(u)'
    <2>1. CASE job[u].at \in {"clone", "start", "delsnapshot"} /\ ct'[Source] # "none"
        <3>1. ct[Source] # "none"
            BY <2>1 DEF Gentle
        <3>2. Snap(job[u]) \in snaps /\ made[Snap(job[u])] = u /\ job[u].route = "/clone/create"
            BY <1>0, <2>1, <3>1 DEF Own
        <3>3. job[u] \in Jobs
            BY <1>0, <2>1
        <3>4. Snap(job[u]).of = Source
            BY <3>2, <3>3, JobFacts DEF Snap
        <3>5. Snap(job[u]) \in snaps' /\ made'[Snap(job[u])] = u
            BY <2>1, <3>2, <3>4 DEF Gentle
        <3> QED BY <3>2, <3>5 DEF Own, Snap
    <2>2. CASE ~(job[u].at \in {"clone", "start", "delsnapshot"} /\ ct'[Source] # "none")
        BY <1>0, <2>2 DEF Own
    <2> QED BY <2>1, <2>2
<1>2. Named(u)'
    BY <1>0 DEF Named
<1>3. Held(u)'
    <2>1. \A c \in Ids : Holds(u, c) => ct[c] = "stopped" /\ ~Holds(t, c)
        BY <1>0 DEF Held, Apart
    <2>2. \A c \in Ids : Holds(u, c) => ct'[c] = "stopped" /\ made'[[stop |-> c]] = made[[stop |-> c]]
        BY <2>1 DEF Gentle
    <2>3. job[u].at = "destroy" => job[u].id \in Ids /\ Holds(u, job[u].id)
        BY <1>0, JobFacts DEF Holds
    <2>4. \A c \in Ids : Holds(u, c)' = Holds(u, c)
        BY DEF Holds
    <2> QED BY <1>0, <2>2, <2>3, <2>4 DEF Held
<1>4. Mine(u)'
    <2>1. \A d \in Deeds : made'[d] = u => made[d] = u
        BY <1>0 DEF Gentle
    <2>2. ASSUME NEW d \in Deeds, made'[d] = u
          PROVE  job'[u] # Idle /\ IF d \in Snapshot THEN SnapshotMine(u, d)' ELSE OtherMine(u, d)'
        <3>1. job[u] # Idle /\ IF d \in Snapshot THEN SnapshotMine(u, d) ELSE OtherMine(u, d)
            BY <1>0, <2>1, <2>2 DEF Mine
        <3>2. SnapshotMine(u, d) => SnapshotMine(u, d)'
            BY DEF SnapshotMine, Gentle, Snap
        <3>3. OtherMine(u, d) => OtherMine(u, d)'
            BY DEF OtherMine
        <3> QED BY <3>1, <3>2, <3>3
    <2> QED BY <2>2 DEF Mine
<1> QED BY <1>1, <1>2, <1>3, <1>4

(* t itself: what holds of it before its command.                          *)
Before(t) ==
    /\ job[t] \in Jobs /\ job[t].at \in Commands
    /\ Own(t) /\ Named(t) /\ Held(t) /\ Mine(t)

(* A request that goes on is where its command put it.                     *)
LEMMA SelfWell ==
    ASSUME IInv, NEW t \in Threads, Before(t), Gentle(t), Grasp(t), job'[t] = Onward(job[t])
    PROVE  /\ Own(t)' /\ Named(t)' /\ Held(t)' /\ Mine(t)'
           /\ \A c \in Ids : Holds(t, c)' => ct[c] # "stopped"
<1> DEFINE j == job[t]
           k == Onward(j)
           s == Snap(j)
<1>1. /\ Same(k, j) /\ Flags(k, j.failed, j.unclean, j.hit)
      /\ k.at = IF j.at = "snapshot" /\ j.route = "/clone/create" THEN "clone"
                ELSE IF j.at = "clone" THEN "start"
                ELSE IF j.at = "start" THEN "delsnapshot"
                ELSE IF j.at = "stop" THEN "destroy" ELSE "reply"
    BY OnwardIs DEF Before
<1>2. /\ job'[t] = k /\ k # Idle /\ Snap(k) = s /\ j.id \in Ids /\ [stop |-> j.id] \in Deeds
      /\ j.at \in Commands
      /\ \A c : [clone |-> c] \notin Snapshot /\ [stop |-> c] \notin Snapshot
    BY <1>1, JobFacts, Distinct DEF Same, Snap, Before, Deeds
<1>3. Own(t) /\ Named(t) /\ Held(t) /\ Mine(t) /\ Grasp(t) /\ Gentle(t)
    BY DEF Before
<1>b. j.at = "snapshot" => s \in Snapshot
    BY <1>3, JobFacts DEF Named, Snap, Snapshot, Before
<1> HIDE DEF k, s
<1>4. Own(t)'
    <2>1. CASE k.at = "clone"
        <3>1. j.at = "snapshot" /\ j.route = "/clone/create"
            BY <1>1, <1>2, <2>1 DEF Commands
        <3> QED BY <1>1, <1>2, <1>3, <3>1 DEF Own, Grasp, Same, Snap
    <2>2. CASE k.at = "start"
        <3>1. j.at = "clone"
            BY <1>1, <1>2, <2>2 DEF Commands
        <3> QED BY <1>1, <1>2, <1>3, <3>1 DEF Own, Grasp, Gentle, Same, Snap
    <2>3. CASE k.at = "delsnapshot"
        <3>1. j.at = "start"
            BY <1>1, <1>2, <2>3 DEF Commands
        <3> QED BY <1>1, <1>2, <1>3, <3>1 DEF Own, Grasp, Gentle, Same, Snap
    <2>4. CASE k.at \notin {"clone", "start", "delsnapshot"}
        BY <1>2, <2>4 DEF Own
    <2> QED BY <2>1, <2>2, <2>3, <2>4
<1>5. Named(t)'
    BY <1>1, <1>2, <1>3 DEF Named, Same, Flags, Commands
<1>6. Held(t)' /\ \A c \in Ids : Holds(t, c)' => ct[c] # "stopped"
    <2>1. k.at = "start" => j.at = "clone"
        BY <1>1, <1>2 DEF Commands
    <2>2. k.at = "destroy" => j.at = "stop"
        BY <1>1, <1>2 DEF Commands
    <2> QED BY <1>1, <1>2, <1>3, <2>1, <2>2 DEF Held, Holds, Grasp, Same
<1>7. Mine(t)'
    <2> SUFFICES ASSUME NEW d \in Deeds, made'[d] = t
                 PROVE  IF d \in Snapshot THEN SnapshotMine(t, d)' ELSE OtherMine(t, d)'
        BY <1>2 DEF Mine
    <2>1. CASE j.at = "snapshot" /\ d = s
        BY <1>1, <1>2, <1>3, <1>b, <2>1 DEF Named, SnapshotMine, Same, Flags, Commands
    <2>2. CASE j.at = "clone" /\ d = [clone |-> j.name]
        BY <1>1, <1>2, <1>3, <2>2 DEF Named, Own, OtherMine, Same, Flags, Commands
    <2>3. CASE j.at = "stop" /\ d = [stop |-> j.id]
        BY <1>1, <1>2, <1>3, <2>3 DEF Named, OtherMine, Same, Flags, Commands
    <2>4. CASE /\ made[d] = t
               /\ j.at = "delsnapshot" => d # s
               /\ j.at = "destroy" => d # [stop |-> j.id]
        <3>1. IF d \in Snapshot THEN SnapshotMine(t, d) ELSE OtherMine(t, d)
            BY <1>3, <2>4 DEF Mine
        <3>2. d \in Snapshot => d = s /\ j.at \in {"clone", "start"}
            BY <1>2, <2>4, <3>1 DEF SnapshotMine, Commands, s
        <3>3. CASE d \in Snapshot
            BY <1>1, <1>2, <3>2, <3>3 DEF SnapshotMine, Commands
        <3>4. CASE d \notin Snapshot
            BY <1>1, <1>2, <2>4, <3>1, <3>4 DEF OtherMine, Same, Flags, Commands
        <3> QED BY <3>3, <3>4
    <2> QED BY <1>3, <2>1, <2>2, <2>3, <2>4 DEF Grasp, s
<1> QED BY <1>4, <1>5, <1>6, <1>7

(* A request whose command went wrong has lost nothing it must undo, and    *)
(* knows that something is wrong.                                          *)
LEMMA SelfHit ==
    ASSUME IInv, NEW t \in Threads, Before(t), Gentle(t), job'[t] = [Raised(job[t]) EXCEPT !.hit = 1],
           Grasp(t) \/ UNCHANGED <<node, made>>
    PROVE  /\ Own(t)' /\ Named(t)' /\ Held(t)' /\ Mine(t)'
           /\ \A c \in Ids : ~Holds(t, c)'
<1> DEFINE j == job[t]
           k == [Raised(j) EXCEPT !.hit = 1]
           s == Snap(j)
<1>1. /\ Same(k, j)
      /\ k.at = IF j.at \in {"clone", "start"} THEN "delsnapshot" ELSE "reply"
      /\ IF j.at = "delsnapshot" THEN Flags(k, j.failed, 1, 1) ELSE Flags(k, 1, j.unclean, 1)
    BY HitIs DEF Before
<1>2. /\ job'[t] = k /\ k # Idle /\ Snap(k) = s /\ j.at \in Commands /\ j.failed \in 0..1
      /\ \A c : [clone |-> c] \notin Snapshot /\ [stop |-> c] \notin Snapshot
    BY <1>1, JobFacts, Distinct DEF Same, Snap, Before
<1>3. Own(t) /\ Named(t) /\ Held(t) /\ Mine(t) /\ Gentle(t)
    BY DEF Before
<1>a. UNCHANGED <<node, made>> => snaps' = snaps /\ made' = made
    BY DEF node
<1>b. j.at = "snapshot" => s \in Snapshot
    BY <1>3, JobFacts DEF Named, Snap, Snapshot, Before
<1> HIDE DEF k, s
<1>4. Own(t)'
    <2>1. CASE j.at \in {"clone", "start"}
        <3>1. j.route = "/clone/create" /\ (ct[Source] # "none" => s \in snaps /\ made[s] = t)
            BY <1>3, <2>1 DEF Own, s
        <3>2. snaps' = snaps /\ made'[s] = made[s]
            BY <1>a, <2>1 DEF Grasp, s
        <3>3. ct'[Source] # "none" => ct[Source] # "none"
            BY <1>3 DEF Gentle
        <3> QED BY <1>1, <1>2, <3>1, <3>2, <3>3 DEF Own, Same
    <2>2. CASE j.at \notin {"clone", "start"}
        BY <1>1, <1>2, <2>2 DEF Own
    <2> QED BY <2>1, <2>2
<1>5. Named(t)'
    BY <1>1, <1>2, <1>3 DEF Named, Same, Commands
<1>6. Held(t)' /\ \A c \in Ids : ~Holds(t, c)'
    BY <1>1, <1>2 DEF Held, Holds
<1>7. Mine(t)'
    <2> SUFFICES ASSUME NEW d \in Deeds, made'[d] = t
                 PROVE  IF d \in Snapshot THEN SnapshotMine(t, d)' ELSE OtherMine(t, d)'
        BY <1>2 DEF Mine
    <2>1. CASE j.at = "snapshot" /\ d = s
        BY <1>1, <1>2, <1>b, <2>1 DEF SnapshotMine, Same, Flags, Commands
    <2>2. CASE j.at = "clone" /\ d = [clone |-> j.name]
        BY <1>1, <1>2, <2>2 DEF OtherMine, Same, Flags, Commands
    <2>3. CASE j.at = "stop" /\ d = [stop |-> j.id]
        BY <1>1, <1>2, <2>3 DEF OtherMine, Same, Flags, Commands
    <2>4. CASE made[d] = t
        <3>1. IF d \in Snapshot THEN SnapshotMine(t, d) ELSE OtherMine(t, d)
            BY <1>3, <2>4 DEF Mine
        <3>2. d \in Snapshot => d = s /\ j.at \in {"clone", "start", "delsnapshot"}
            BY <1>2, <3>1 DEF SnapshotMine, Commands, s
        <3>3. CASE d \in Snapshot
            <4>1. CASE j.at = "delsnapshot"
                <5>1. k.at = "reply" /\ k.hit = 1 /\ k.unclean = 1 /\ (k.failed = 0 \/ k.failed = 1)
                    BY <1>1, <1>2, <4>1 DEF Flags
                <5> QED BY <1>2, <3>2, <3>3, <5>1 DEF SnapshotMine
            <4>2. CASE j.at \in {"clone", "start"}
                BY <1>1, <1>2, <3>2, <3>3, <4>2 DEF SnapshotMine
            <4> QED BY <3>2, <3>3, <4>1, <4>2
        <3>4. CASE d \notin Snapshot
            BY <1>1, <1>2, <3>1, <3>4 DEF OtherMine, Same, Flags, Commands
        <3> QED BY <3>3, <3>4
    <2> QED BY <1>a, <2>1, <2>2, <2>3, <2>4 DEF Grasp, s
<1> QED BY <1>4, <1>5, <1>6, <1>7

(* pct refuses: nothing happened, and no clone or stopped container is     *)
(* forgotten, because what a request has in hand cannot be refused it.     *)
LEMMA SelfRefused ==
    ASSUME IInv, NEW t \in Threads, Before(t), ~Possible(job[t]), job'[t] = Raised(job[t]),
           UNCHANGED <<node, made>>
    PROVE  /\ Own(t)' /\ Named(t)' /\ Held(t)' /\ Mine(t)'
           /\ \A c \in Ids : ~Holds(t, c)'
<1> DEFINE j == job[t]
           k == Raised(j)
           s == Snap(j)
<1>1. /\ Same(k, j)
      /\ k.at = IF j.at \in {"clone", "start"} THEN "delsnapshot" ELSE "reply"
      /\ IF j.at = "delsnapshot" THEN Flags(k, j.failed, 1, j.hit) ELSE Flags(k, 1, j.unclean, j.hit)
    BY RaisedIs DEF Before
<1>2. /\ job'[t] = k /\ k # Idle /\ Snap(k) = s /\ j.at \in Commands /\ j.failed \in 0..1
      /\ ct' = ct /\ snaps' = snaps /\ made' = made
    BY <1>1, JobFacts DEF Same, Snap, Before, node
<1>3. Own(t) /\ Named(t) /\ Held(t) /\ Mine(t)
    BY DEF Before
<1>4. j.at # "start" /\ j.at # "destroy"
    <2>1. j.at = "start" => j.name \in Ids /\ Holds(t, j.name)
        BY <1>3, JobFacts DEF Own, Holds, Ids, Before
    <2>2. j.at = "destroy" => j.id \in Ids /\ Holds(t, j.id)
        BY JobFacts DEF Holds, Before
    <2> QED BY <1>3, <2>1, <2>2 DEF Held, Possible
<1>5. j.at = "delsnapshot" => ct[Source] = "none" /\ s.of = Source
    BY <1>3, JobFacts DEF Own, Possible, Snap, Before
<1> HIDE DEF k, s
<1>6. Own(t)'
    BY <1>1, <1>2, <1>3, <1>4 DEF Own, Same, s
<1>7. Named(t)'
    BY <1>1, <1>2, <1>3 DEF Named, Same, Commands
<1>8. Held(t)' /\ \A c \in Ids : ~Holds(t, c)'
    BY <1>1, <1>2 DEF Held, Holds
<1>9. Mine(t)'
    <2> SUFFICES ASSUME NEW d \in Deeds, made[d] = t
                 PROVE  IF d \in Snapshot THEN SnapshotMine(t, d)' ELSE OtherMine(t, d)'
        BY <1>2 DEF Mine
    <2>1. IF d \in Snapshot THEN SnapshotMine(t, d) ELSE OtherMine(t, d)
        BY <1>3 DEF Mine
    <2>2. CASE d \in Snapshot
        <3>1. d = s /\ (j.at = "clone" \/ j.at = "delsnapshot")
            BY <1>2, <1>4, <2>1, <2>2 DEF SnapshotMine, Commands, s
        <3>2. CASE j.at = "delsnapshot"
            BY <1>1, <1>2, <1>5, <2>2, <3>1, <3>2 DEF SnapshotMine
        <3>3. CASE j.at = "clone"
            BY <1>1, <1>2, <2>2, <3>1, <3>3 DEF SnapshotMine
        <3> QED BY <3>1, <3>2, <3>3
    <2>3. CASE d \notin Snapshot
        <3>1. j.at = "delsnapshot"
            BY <1>2, <1>4, <2>1, <2>3 DEF OtherMine, Commands
        <3> QED BY <1>1, <1>2, <2>1, <2>3, <3>1 DEF OtherMine, Same, Flags
    <2> QED BY <2>2, <2>3
<1> QED BY <1>6, <1>7, <1>8, <1>9

-----------------------------------------------------------------------------
(* A step that is gentle to the others and leaves t itself well keeps all  *)
(* of the invariant.                                                       *)
LEMMA CommandStep ==
    ASSUME IInv, NEW t \in Threads, NEW k \in Jobs, Gentle(t), NodeTyped',
           job' = [job EXCEPT ![t] = k], UNCHANGED <<counters, left>>, budget' \in 0..MaxFaults,
           Own(t)', Named(t)', Held(t)', Mine(t)', \A c \in Ids : Holds(t, c)' => ct[c] # "stopped"
    PROVE  IInv'
<1>1. TypeOK /\ Told /\ t \notin Endings /\ "silent" \in Endings
    BY RoutesAssumption DEF IInv, Endings
<1>2. TypeOK'
    BY <1>1 DEF TypeOK, NodeTyped, counters
<1>3. Standing'
    BY DEF Standing, Gentle
<1>4. Told'
    <2> SUFFICES ASSUME NEW d \in Deeds, made'[d] = "silent"
                 PROVE  d \in Snapshot /\ d.of = Source /\ ct'[Source] = "none"
        BY DEF Told
    <2>1. made[d] = "silent"
        BY <1>1 DEF Gentle
    <2> QED BY <1>1, <2>1 DEF Told, Gentle
<1>5. \A u \in Threads : u # t => job'[u] = job[u]
    BY <1>1 DEF TypeOK
<1>6. \A u \in Threads : Own(u)' /\ Named(u)' /\ Held(u)' /\ Mine(u)'
    BY <1>5, OthersKeep
<1>7. ASSUME NEW u \in Threads, NEW v \in Threads
      PROVE  Apart(u, v)'
    <2> SUFFICES ASSUME NEW c \in Ids, Holds(u, c)', Holds(v, c)', u # v
                 PROVE  FALSE
        BY DEF Apart
    <2>1. \A w \in Threads : w # t => (Holds(w, c)' <=> Holds(w, c))
        BY <1>5 DEF Holds
    <2>2. \A w \in Threads : Holds(w, c) => ct[c] = "stopped"
        BY DEF IInv, Held
    <2>3. CASE u = t
        BY <2>1, <2>2, <2>3
    <2>4. CASE v = t
        BY <2>1, <2>2, <2>4
    <2>5. CASE u # t /\ v # t
        BY <2>1, <2>5 DEF IInv, Apart
    <2> QED BY <2>3, <2>4, <2>5
<1> QED BY <1>2, <1>3, <1>4, <1>6, <1>7 DEF IInv

(* A request at a command has its part of the invariant.                   *)
LEMMA Commanding ==
    ASSUME IInv, NEW t \in Threads, job[t].at \in Commands
    PROVE  Before(t)
<1>1. job[t] \in Jobs \cup {Idle} /\ Idle.at = "idle"
    BY DEF IInv, TypeOK, Idle
<1> QED BY <1>1 DEF IInv, Before, Commands

(* Doing nothing is gentle.                                                *)
LEMMA Still ==
    ASSUME IInv, NEW t \in Threads, UNCHANGED <<node, made>>
    PROVE  Gentle(t) /\ NodeTyped'
<1>1. ct' = ct /\ snaps' = snaps /\ grown' = grown /\ made' = made
    BY DEF node
<1> QED BY <1>1 DEF IInv, Gentle, TypeOK, Standing, NodeTyped

(* Each action keeps the invariant.                                        *)
LEMMA RunSound == ASSUME IInv, NEW t \in Threads, Run(t) PROVE IInv'
<1>1. Before(t) /\ Gentle(t) /\ NodeTyped' /\ Grasp(t) /\ job[t] \in Jobs
    BY Commanding, GentleEffect, GraspEffect DEF Run, Before
<1>2. job' = [job EXCEPT ![t] = Onward(job[t])] /\ UNCHANGED <<counters, left>>
      /\ job'[t] = Onward(job[t]) /\ Onward(job[t]) \in Jobs /\ budget' \in 0..MaxFaults
    BY <1>1, OnwardIs DEF Run, IInv, TypeOK, Before, Same
<1> QED BY <1>1, <1>2, SelfWell, CommandStep

LEMMA RefusedSound == ASSUME IInv, NEW t \in Threads, Refused(t) PROVE IInv'
<1>1. Before(t) /\ Gentle(t) /\ NodeTyped'
    BY Commanding, Still DEF Refused
<1>2. job' = [job EXCEPT ![t] = Raised(job[t])] /\ UNCHANGED <<counters, left>>
      /\ job'[t] = Raised(job[t]) /\ Raised(job[t]) \in Jobs /\ budget' \in 0..MaxFaults
    BY <1>1, RaisedIs DEF Refused, IInv, TypeOK, Before, Same
<1>3. ~Possible(job[t]) /\ UNCHANGED <<node, made>>
    BY DEF Refused
<1> QED BY <1>1, <1>2, <1>3, SelfRefused, CommandStep

LEMMA GoesWrongSound == ASSUME IInv, NEW t \in Threads, GoesWrong(t) PROVE IInv'
<1>1. Before(t) /\ job[t] \in Jobs /\ Possible(job[t])
    BY Commanding DEF GoesWrong, Before
<1>2. Gentle(t) /\ NodeTyped' /\ (Grasp(t) \/ UNCHANGED <<node, made>>)
    BY <1>1, Still, GentleEffect, GraspEffect DEF GoesWrong
<1> DEFINE k == [Raised(job[t]) EXCEPT !.hit = 1]
<1>3. job' = [job EXCEPT ![t] = k] /\ UNCHANGED <<counters, left>> /\ k \in Jobs
    BY <1>1, HitIs DEF GoesWrong, Before, Same
<1>4. job'[t] = k
    BY <1>3 DEF IInv, TypeOK
<1>5. budget' \in 0..MaxFaults
    BY RoutesAssumption DEF GoesWrong, Fault, IInv, TypeOK
<1> HIDE DEF k
<1>6. Own(t)' /\ Named(t)' /\ Held(t)' /\ Mine(t)' /\ \A c \in Ids : ~Holds(t, c)'
    BY <1>1, <1>2, <1>4, SelfHit DEF k
<1> QED BY <1>2, <1>3, <1>5, <1>6, CommandStep

LEMMA ReplySound == ASSUME IInv, NEW t \in Threads, Reply(t) PROVE IInv'
<1> DEFINE j == job[t]
<1>1. j.at = "reply" /\ j \in Jobs /\ j.failed \in 0..1
    BY JobFacts DEF Reply, IInv, TypeOK, Idle
<1>2. /\ ct' = ct /\ snaps' = snaps /\ grown' = grown /\ left' = left /\ budget' = budget
      /\ job' = [job EXCEPT ![t] = Idle]
      /\ made' = [d \in Deeds |-> IF made[d] # t THEN made[d]
                   ELSE IF d \in Snapshot THEN SnapshotEnding(j) ELSE OtherEnding(j)]
    BY DEF Reply, node
<1>3. SnapshotEnding(j) \in Endings /\ OtherEnding(j) \in Endings /\ Threads \cap Endings = {}
    BY RoutesAssumption DEF SnapshotEnding, OtherEnding, Endings
<1>4. \A u \in Threads : u # t => job'[u] = job[u]
    BY <1>2 DEF IInv, TypeOK
<1>5. job'[t] = Idle /\ Idle.at = "idle"
    BY <1>2 DEF IInv, TypeOK, Idle
<1>6. TypeOK'
    <2>1. actions' \in Nat /\ failures' \in Nat
        BY <1>1 DEF Reply, Counted, counters, IInv, TypeOK
    <2>2. made' \in [Deeds -> Threads \cup Endings]
        BY <1>2, <1>3 DEF IInv, TypeOK
    <2>3. job' \in [Threads -> Jobs \cup {Idle}]
        BY <1>2 DEF IInv, TypeOK
    <2> QED BY <1>2, <2>1, <2>2, <2>3 DEF IInv, TypeOK
<1> HIDE DEF j
<1>7. \A d \in Deeds, u \in Threads : made'[d] = u => made[d] = u /\ u # t
    BY <1>2, <1>3
<1>8. Told'
    <2> SUFFICES ASSUME NEW d \in Deeds, made[d] = t, made'[d] = "silent"
                 PROVE  d \in Snapshot /\ d.of = Source /\ ct[Source] = "none"
        BY <1>2 DEF Told, IInv
    <2>1. IF d \in Snapshot THEN SnapshotMine(t, d) ELSE OtherMine(t, d)
        BY DEF IInv, Mine
    <2>2. CASE d \in Snapshot
        <3>1. SnapshotEnding(j) = "silent"
            BY <1>2, <2>2
        <3> QED BY <1>1, <2>1, <2>2, <3>1 DEF SnapshotMine, SnapshotEnding, j
    <2>3. CASE d \notin Snapshot
        <3>1. OtherEnding(j) = "silent"
            BY <1>2, <2>3
        <3> QED BY <1>1, <2>1, <2>3, <3>1 DEF OtherMine, OtherEnding, j
    <2> QED BY <2>2, <2>3
<1>9. ASSUME NEW u \in Threads
      PROVE  Own(u)' /\ Named(u)' /\ Held(u)' /\ Mine(u)'
    <2>1. CASE u = t
        BY <1>5, <1>7, <2>1 DEF Own, Named, Held, Holds, Mine, Commands
    <2>2. CASE u # t
        <3>1. Own(u) /\ Named(u) /\ Held(u) /\ Mine(u) /\ job'[u] = job[u]
            BY <1>4, <2>2 DEF IInv
        <3>2. Named(u)'
            BY <3>1 DEF Named
        <3>3. \A d \in Deeds : made[d] = u => made'[d] = u
            BY <1>2, <2>2
        <3>4. Own(u)'
            <4>1. \A z \in snaps : z \in Deeds
                BY DEF IInv, TypeOK, Deeds
            <4> QED BY <1>2, <3>1, <3>3, <4>1 DEF Own, Snap
        <3>5. Held(u)'
            <4>1. job[u].at = "destroy" => job[u] \in Jobs
                BY DEF IInv, TypeOK, Idle
            <4>2. job[u].at = "destroy" => [stop |-> job[u].id] \in Deeds
                BY <4>1, JobFacts DEF Deeds
            <4> QED BY <1>2, <3>1, <3>3, <4>2 DEF Held, Holds
        <3>6. Mine(u)'
            BY <1>2, <1>7, <3>1 DEF Mine, SnapshotMine, OtherMine, Snap
        <3> QED BY <3>2, <3>4, <3>5, <3>6
    <2> QED BY <2>1, <2>2
<1>10. \A u, v \in Threads : Apart(u, v)'
    BY <1>4, <1>5 DEF IInv, Apart, Holds
<1>11. Standing'
    BY <1>2 DEF IInv, Standing
<1> QED BY <1>6, <1>8, <1>9, <1>10, <1>11 DEF IInv

LEMMA AcceptSound == ASSUME IInv, NEW t \in Threads, Accept(t) PROVE IInv'
<1>1. PICK j \in Jobs : /\ j.at = FirstCommand(j.route) /\ Unsettled(j)
                        /\ job' = [job EXCEPT ![t] = j]
    BY DEF Accept
<1>2. ct' = ct /\ snaps' = snaps /\ made' = made /\ grown' = grown /\ UNCHANGED counters
      /\ budget' = budget /\ left' \in 0..MaxRequests /\ job[t] = Idle
    BY RoutesAssumption DEF Accept, node, IInv, TypeOK
<1>3. j.route \in {"/clone/create", "/clone/delete", "/snapshot/create", "/snapshot/rollback",
                   "/scale/storage/increase"}
    BY DEF Jobs, Request
<1>4. /\ j.at \in {"snapshot", "stop", "rollback", "resize"}
      /\ j.at = "snapshot" => j.route \in {"/clone/create", "/snapshot/create"}
      /\ j.at = "resize" <=> j.route = "/scale/storage/increase"
      /\ j.failed = 0
    BY <1>1, <1>3 DEF FirstCommand, Unsettled
<1>5. job'[t] = j /\ \A u \in Threads : u # t => job'[u] = job[u]
    BY <1>1 DEF IInv, TypeOK
<1>6. TypeOK'
    BY <1>1, <1>2 DEF IInv, TypeOK, counters
<1>7. \A d \in Deeds : made[d] # t
    BY <1>2 DEF IInv, Mine
<1>8. ASSUME NEW u \in Threads
      PROVE  Own(u)' /\ Named(u)' /\ Held(u)' /\ Mine(u)'
    <2>1. CASE u = t
        BY <1>2, <1>4, <1>5, <1>7, <2>1 DEF Own, Named, Held, Holds, Mine
    <2>2. CASE u # t
        BY <1>2, <1>5, <2>2
           DEF IInv, Own, Named, Held, Holds, Mine, SnapshotMine, OtherMine, Snap
    <2> QED BY <2>1, <2>2
<1>9. \A u, v \in Threads : Apart(u, v)'
    BY <1>4, <1>5 DEF IInv, Apart, Holds
<1> QED BY <1>2, <1>6, <1>8, <1>9 DEF IInv, Standing, Told

LEMMA KillSound == ASSUME IInv, Kill PROVE IInv'
<1>1. /\ ct' = ct /\ snaps' = snaps /\ left' = left /\ grown' = 0 /\ actions' = 0 /\ failures' = 0
      /\ job' = [t \in Threads |-> Idle]
      /\ made' = [d \in Deeds |-> IF made[d] \in Threads THEN "fault" ELSE made[d]]
      /\ budget' \in 0..MaxFaults
    BY RoutesAssumption DEF Kill, Fault, IInv, TypeOK
<1>2. Idle.at = "idle" /\ \A t \in Threads : job'[t] = Idle
    BY <1>1 DEF Idle
<1>3. TypeOK'
    BY <1>1 DEF IInv, TypeOK, Endings
<1>4. \A t \in Threads : \A d \in Deeds : made'[d] # t
    BY <1>1, RoutesAssumption DEF Endings
<1>5. Told'
    BY <1>1 DEF IInv, Told
<1>6. \A t \in Threads : Own(t)' /\ Named(t)' /\ Held(t)' /\ Mine(t)'
    BY <1>2, <1>4 DEF Own, Named, Held, Holds, Mine, Commands
<1>7. \A t, u \in Threads : Apart(t, u)'
    BY <1>2 DEF Apart, Holds
<1> QED BY <1>1, <1>3, <1>5, <1>6, <1>7 DEF IInv, Standing

(* It holds at first ...                                                   *)
LEMMA IInvInit == Init => IInv
<1> SUFFICES ASSUME Init PROVE IInv
    OBVIOUS
<1>1. Idle.at = "idle" /\ \A t \in Threads : job[t] = Idle
    BY DEF Idle, Init
<1>2. \A t \in Threads : \A d \in Deeds : made[d] # t
    BY RoutesAssumption DEF Endings, Init
<1>3. TypeOK
    BY RoutesAssumption DEF Init, TypeOK, Endings
<1>4. \A t \in Threads : Own(t) /\ Named(t) /\ Held(t) /\ Mine(t)
    BY <1>1, <1>2 DEF Own, Named, Held, Holds, Mine, Commands
<1>5. \A t, u \in Threads : Apart(t, u)
    BY <1>1 DEF Apart, Holds
<1> QED BY <1>3, <1>4, <1>5 DEF IInv, Standing, Told, Init

(* ... and in every step ...                                               *)
LEMMA IInvStep == IInv /\ [Next]_vars => IInv'
<1> SUFFICES ASSUME IInv, [Next]_vars PROVE IInv'
    OBVIOUS
<1>1. CASE Kill
    BY <1>1, KillSound
<1>2. ASSUME NEW t \in Threads, Accept(t) PROVE IInv'
    BY <1>2, AcceptSound
<1>3. ASSUME NEW t \in Threads, Run(t) PROVE IInv'
    BY <1>3, RunSound
<1>4. ASSUME NEW t \in Threads, Refused(t) PROVE IInv'
    BY <1>4, RefusedSound
<1>5. ASSUME NEW t \in Threads, GoesWrong(t) PROVE IInv'
    BY <1>5, GoesWrongSound
<1>6. ASSUME NEW t \in Threads, Reply(t) PROVE IInv'
    BY <1>6, ReplySound
<1>7. CASE UNCHANGED vars
    BY <1>7 DEF vars, node, counters, IInv, TypeOK, Standing, Told, Own, Named, Held, Holds, Apart,
                Mine, SnapshotMine, OtherMine, Snap
<1> QED BY <1>1, <1>2, <1>3, <1>4, <1>5, <1>6, <1>7 DEF Next, Progress

(* ... and so always: what requests of the API's threads rely on between   *)
(* two commands (lxc_autoscale_api.py:231-299) holds in every behaviour.   *)
THEOREM Invariance == Spec => []IInv
<1> QED BY IInvInit, IInvStep, PTL DEF Spec

-----------------------------------------------------------------------------
(* The routes' state keeps its types.                                      *)
THEOREM TypeCorrect == Spec => []TypeOK
<1>1. IInv => TypeOK
    BY DEF IInv
<1> QED BY <1>1, Invariance, PTL

(* Whatever a request leaves behind was asked for, is in its answer, or is *)
(* due to a command that went wrong or to the end of the worker:           *)
(* lxc_autoscale_api.py:239-287, lxc_management.py:82-91.                  *)
THEOREM Silent == Spec => []NothingSilent
<1>1. IInv => NothingSilent
    <2> SUFFICES ASSUME IInv PROVE NothingSilent
        OBVIOUS
    <2>1. \A s \in snaps : s \in Deeds
        BY DEF IInv, TypeOK, Deeds
    <2>2. \A s \in snaps : made[s] # "silent"
        BY <2>1 DEF IInv, Told, Standing
    <2>3. \A c \in Clones : [clone |-> c] \in Deeds /\ [clone |-> c] \notin Snapshot
        BY Distinct DEF Deeds
    <2>4. \A c \in Ids : [stop |-> c] \in Deeds /\ [stop |-> c] \notin Snapshot
        BY Distinct DEF Deeds
    <2> QED BY <2>2, <2>3, <2>4 DEF NothingSilent, IInv, Told
<1> QED BY <1>1, Invariance, PTL

(* Who takes a snapshot away or destroys a container.                      *)
LEMMA Taking ==
    ASSUME IInv, NEW t \in Threads, job[t] \in Jobs, Possible(job[t]), TakesEffect(t, job[t])
    PROVE  /\ \A s \in snaps \ snaps' : ct'[s.of] # "none" => s = Snap(job[t]) /\ job[t].at = "delsnapshot"
           /\ \A c \in Ids : ct[c] # "none" /\ ct'[c] = "none" => c = job[t].id /\ job[t].at = "destroy"
<1> DEFINE j == job[t]
<1>0. ct \in [Ids -> {"none", "stopped", "running"}] /\ j.id \in Ids /\ \A z \in snaps : z.of \in Ids
    BY JobFacts DEF IInv, TypeOK, Snapshot
<1>1. CASE j.at \in {"snapshot", "resize"}
    BY <1>1 DEF TakesEffect
<1>2. CASE j.at = "delsnapshot"
    BY <1>2 DEF TakesEffect
<1>3. CASE j.at \in {"clone", "start", "stop"}
    BY <1>0, <1>3 DEF TakesEffect, Becomes
<1>4. CASE j.at = "destroy"
    <2>1. ct' = [ct EXCEPT ![j.id] = "none"] /\ snaps' = {z \in snaps : z.of # j.id}
        BY <1>4 DEF TakesEffect, Becomes
    <2> QED BY <1>0, <1>4, <2>1
<1>5. CASE j.at = "rollback"
    <2>1. snaps' = snaps /\ \E state \in {ct[j.id], "stopped"} : ct' = [ct EXCEPT ![j.id] = state]
        BY <1>5 DEF TakesEffect, Becomes
    <2> QED BY <1>0, <2>1
<1> QED BY <1>1, <1>2, <1>3, <1>4, <1>5 DEF Possible

(* A step that takes something away is one command of one request.         *)
LEMMA Takes ==
    ASSUME IInv, Next, ct' # ct \/ snaps' # snaps
    PROVE  \E t \in Threads : /\ Before(t) /\ Possible(job[t]) /\ TakesEffect(t, job[t])
                              /\ job'[t] # job[t]
<1>1. PICK t \in Threads : Run(t) \/ GoesWrong(t)
    BY DEF Next, Progress, Kill, Accept, Refused, Reply, node
<1>2. Before(t) /\ Possible(job[t]) /\ TakesEffect(t, job[t])
    BY <1>1, Commanding DEF Run, GoesWrong, node
<1>3. CASE Run(t)
    <2>1. job'[t] = Onward(job[t])
        BY <1>3 DEF Run, IInv, TypeOK
    <2> QED BY <1>2, <2>1, OnwardIs DEF Before, Commands
<1>4. CASE GoesWrong(t)
    <2>1. job'[t] = [Raised(job[t]) EXCEPT !.hit = 1]
        BY <1>4 DEF GoesWrong, IInv, TypeOK
    <2>2. job[t] \in Jobs /\ job[t].at \in Commands
        BY <1>2 DEF Before
    <2>3. job'[t].at = IF job[t].at \in {"clone", "start"} THEN "delsnapshot" ELSE "reply"
        BY <2>1, <2>2, HitIs
    <2>4. job'[t].at # job[t].at
        BY <2>2, <2>3 DEF Commands
    <2> QED BY <1>2, <2>4
<1> QED BY <1>1, <1>2, <1>3, <1>4

(* The cleanup of a clone takes away the snapshot the same request made:   *)
(* lxc_autoscale_api.py:249-264.                                           *)
THEOREM OwnOnly == Spec => OwnSnapshotOnly
<1>1. IInv /\ Next => \A s \in snaps \ snaps' : ct'[s.of] # "none" =>
           \E t \in Threads : made[s] = t /\ job[t].at = "delsnapshot" /\ job'[t] # job[t]
    <2> SUFFICES ASSUME IInv, Next, NEW s \in snaps \ snaps', ct'[s.of] # "none"
                 PROVE  \E t \in Threads : made[s] = t /\ job[t].at = "delsnapshot" /\ job'[t] # job[t]
        OBVIOUS
    <2>1. PICK t \in Threads : Before(t) /\ Possible(job[t]) /\ TakesEffect(t, job[t]) /\ job'[t] # job[t]
        BY Takes
    <2>2. s = Snap(job[t]) /\ job[t].at = "delsnapshot"
        BY <2>1, Taking DEF Before
    <2>3. job[t].route = "/clone/create" /\ job[t].id = Source
        BY <2>1, <2>2, JobFacts DEF Before, Own
    <2>4. ct[Source] # "none"
        BY <2>2, <2>3 DEF Snap, IInv, Standing
    <2> QED BY <2>1, <2>2, <2>4 DEF Before, Own
<1> QED BY <1>1, Invariance, PTL DEF Spec, OwnSnapshotOnly

(* A container is destroyed only by the request that stopped it:           *)
(* lxc_management.py:82-91.                                                *)
THEOREM StopperOnly == Spec => OnlyTheStopperDestroys
<1>1. IInv /\ Next => \A c \in Ids : ct[c] # "none" /\ ct'[c] = "none" =>
           \E t \in Threads : made[[stop |-> c]] = t /\ job[t].at = "destroy"
    <2> SUFFICES ASSUME IInv, Next, NEW c \in Ids, ct[c] # "none", ct'[c] = "none"
                 PROVE  \E t \in Threads : made[[stop |-> c]] = t /\ job[t].at = "destroy"
        OBVIOUS
    <2>1. PICK t \in Threads : Before(t) /\ Possible(job[t]) /\ TakesEffect(t, job[t])
        BY Takes
    <2>2. c = job[t].id /\ job[t].at = "destroy"
        BY <2>1, Taking DEF Before
    <2> QED BY <2>1, <2>2 DEF Before, Held
<1> QED BY <1>1, Invariance, PTL DEF Spec, OnlyTheStopperDestroys

-----------------------------------------------------------------------------
(* Requests about to be counted, one of them more or less.                 *)
Waiting(t, failed) ==
    job[t].at = "reply" /\ job[t].route = "/scale/storage/increase" /\ job[t].failed = failed

(* Requests about to be counted, as a set of threads ...                   *)
LEMMA ResizingIs ==
    ASSUME NEW failed
    PROVE  Resizing(failed) = Cardinality({t \in Threads : Waiting(t, failed)})
<1> QED BY DEF Resizing, Waiting

(* ... are finitely many ...                                               *)
LEMMA ResizingNat ==
    ASSUME NEW failed
    PROVE  /\ Resizing(failed) \in Nat
           /\ Resizing(failed)' \in Nat
<1>1. IsFiniteSet({t \in Threads : Waiting(t, failed)}) /\ IsFiniteSet({t \in Threads : Waiting(t, failed)'})
    BY RoutesAssumption, FS_Subset
<1> QED BY <1>1, FS_CardinalityType DEF Resizing, Waiting

(* ... and a step of one thread makes them one more, one less or as many.  *)
LEMMA ResizingMoves ==
    ASSUME NEW failed, NEW t \in Threads,
           \A u \in Threads : u # t => (Waiting(u, failed)' <=> Waiting(u, failed))
    PROVE  /\ (Waiting(t, failed)' <=> Waiting(t, failed)) => Resizing(failed)' = Resizing(failed)
           /\ ~Waiting(t, failed) /\ Waiting(t, failed)' => Resizing(failed)' = Resizing(failed) + 1
           /\ Waiting(t, failed) /\ ~Waiting(t, failed)' => Resizing(failed)' = Resizing(failed) - 1
<1> DEFINE S == {u \in Threads : Waiting(u, failed)}
           T == {u \in Threads : Waiting(u, failed)'}
<1>1. IsFiniteSet(S) /\ IsFiniteSet(T)
    BY RoutesAssumption, FS_Subset
<1>2. Resizing(failed) = Cardinality(S) /\ Resizing(failed)' = Cardinality(T)
    BY DEF Resizing, Waiting
<1>3. CASE Waiting(t, failed)' <=> Waiting(t, failed)
    <2>1. S = T
        BY <1>3
    <2> QED BY <1>2, <1>3, <2>1
<1>4. CASE ~Waiting(t, failed) /\ Waiting(t, failed)'
    <2>1. T = S \cup {t} /\ t \notin S
        BY <1>4
    <2>2. Cardinality(T) = Cardinality(S) + 1
        BY <1>1, <2>1, FS_AddElement
    <2> QED BY <1>2, <1>4, <2>2
<1>5. CASE Waiting(t, failed) /\ ~Waiting(t, failed)'
    <2>1. T = S \ {t} /\ t \in S
        BY <1>5
    <2>2. Cardinality(T) = Cardinality(S) - 1
        BY <1>1, <2>1, FS_RemoveElement
    <2> QED BY <1>2, <1>5, <2>2
<1> QED BY <1>3, <1>4, <1>5

(* Storage is gained by resizes only.                                      *)
LEMMA Growing ==
    ASSUME IInv, NEW t \in Threads, job[t] \in Jobs, Possible(job[t]), TakesEffect(t, job[t])
    PROVE  grown' = grown + (IF job[t].at = "resize" THEN 1 ELSE 0)
<1>1. grown \in Nat
    BY DEF IInv, TypeOK
<1> QED BY <1>1 DEF TakesEffect, Possible

(* The growth of a container lies between what was counted as done and     *)
(* that plus what was counted as failed: lxc_autoscale_api.py:187-190.     *)
THEOREM Accounted == Spec => []GrowthAccounted
<1>1. Init => GrowthAccounted
    <2> SUFFICES ASSUME Init PROVE GrowthAccounted
        OBVIOUS
    <2>1. \A failed : {t \in Threads : Waiting(t, failed)} = {}
        BY DEF Init, Idle, Waiting
    <2>2. Resizing(0) = 0 /\ Resizing(1) = 0
        BY <2>1, ResizingIs, FS_EmptySet
    <2> QED BY <2>2 DEF GrowthAccounted, Init
<1>2. IInv /\ GrowthAccounted /\ [Next]_vars => GrowthAccounted'
    <2> SUFFICES ASSUME IInv, GrowthAccounted, [Next]_vars PROVE GrowthAccounted'
        OBVIOUS
    <2>0. /\ grown \in Nat /\ actions \in Nat /\ failures \in Nat
          /\ Resizing(0) \in Nat /\ Resizing(1) \in Nat
          /\ job \in [Threads -> Jobs \cup {Idle}]
          /\ grown >= actions + Resizing(0)
          /\ grown <= actions + Resizing(0) + failures + Resizing(1)
        BY ResizingNat DEF IInv, TypeOK, GrowthAccounted
    <2>1. CASE Kill
        <3>1. \A failed : {t \in Threads : Waiting(t, failed)'} = {}
            BY <2>1 DEF Kill, Idle, Waiting
        <3>2. Resizing(0)' = 0 /\ Resizing(1)' = 0
            BY <3>1, FS_EmptySet DEF Resizing, Waiting
        <3> QED BY <2>1, <3>2 DEF GrowthAccounted, Kill
    <2>2. CASE UNCHANGED vars
        BY <2>2 DEF vars, node, counters, GrowthAccounted, Resizing
    <2>3. ASSUME NEW t \in Threads, Accept(t) \/ Run(t) \/ Refused(t) \/ GoesWrong(t) \/ Reply(t)
          PROVE  GrowthAccounted'
        <3> DEFINE j == job[t]
                   k == job'[t]
        <3>1. \A failed : \A u \in Threads : u # t => (Waiting(u, failed)' <=> Waiting(u, failed))
            BY <2>0, <2>3 DEF Accept, Run, Refused, GoesWrong, Reply, Waiting
        <3>2. \A failed \in {0, 1} :
                /\ (Waiting(t, failed)' <=> Waiting(t, failed)) => Resizing(failed)' = Resizing(failed)
                /\ ~Waiting(t, failed) /\ Waiting(t, failed)' => Resizing(failed)' = Resizing(failed) + 1
                /\ Waiting(t, failed) /\ ~Waiting(t, failed)' => Resizing(failed)' = Resizing(failed) - 1
            BY <3>1, ResizingMoves
        <3>3. CASE Accept(t)
            <4>1. ~Waiting(t, 0) /\ ~Waiting(t, 1) /\ ~Waiting(t, 0)' /\ ~Waiting(t, 1)'
                <5>1. PICK i \in Jobs : i.at = FirstCommand(i.route) /\ job'[t] = i
                    BY <2>0, <3>3 DEF Accept
                <5>2. i.at # "reply"
                    BY <5>1 DEF FirstCommand, Jobs, Request
                <5> QED BY <3>3, <5>1, <5>2 DEF Accept, Idle, Waiting
            <4> QED BY <2>0, <3>2, <3>3, <4>1 DEF Accept, node, counters, GrowthAccounted
        <3>4. CASE j.at \in Commands /\ j.route # "/scale/storage/increase"
            <4>1. Before(t)
                BY <3>4, Commanding
            <4>2. j.at # "resize"
                BY <3>4, <4>1 DEF Before, Named
            <4>3. k.route = j.route /\ UNCHANGED counters /\ grown' = grown
                <5>1. j \in Jobs /\ Same(Onward(j), j) /\ Same(Raised(j), j)
                      /\ Same([Raised(j) EXCEPT !.hit = 1], j)
                    BY <3>4, <4>1, OnwardIs, RaisedIs, HitIs DEF Before
                <5>2. CASE Run(t)
                    <6>1. k = Onward(j) /\ UNCHANGED counters /\ grown' = grown + 0
                        BY <2>0, <4>2, <5>1, <5>2, Growing DEF Run
                    <6> QED BY <2>0, <5>1, <6>1 DEF Same
                <5>3. CASE Refused(t)
                    <6>1. k = Raised(j) /\ UNCHANGED counters /\ grown' = grown
                        BY <2>0, <5>3 DEF Refused, node
                    <6> QED BY <5>1, <6>1 DEF Same
                <5>4. CASE GoesWrong(t)
                    <6>1. k = [Raised(j) EXCEPT !.hit = 1] /\ UNCHANGED counters
                        BY <2>0, <5>4 DEF GoesWrong
                    <6>2. grown' = grown + 0 \/ grown' = grown
                        BY <4>2, <5>1, <5>4, Growing DEF GoesWrong, node
                    <6> QED BY <2>0, <5>1, <6>1, <6>2 DEF Same
                <5>5. ~Accept(t) /\ ~Reply(t)
                    BY <3>4 DEF Accept, Reply, Idle, Commands
                <5> QED BY <2>3, <5>2, <5>3, <5>4, <5>5
            <4> QED BY <2>0, <3>2, <3>4, <4>3 DEF counters, GrowthAccounted, Waiting
        <3>5. CASE j.at \in Commands /\ j.route = "/scale/storage/increase"
            <4>1. Before(t) /\ j \in Jobs /\ j.at = "resize" /\ j.failed = 0
                BY <3>5, Commanding DEF Before, Named, Commands
            <4>2. ~Waiting(t, 0) /\ ~Waiting(t, 1)
                BY <4>1 DEF Waiting
            <4>3. CASE Run(t)
                <5>1. k = Onward(j) /\ grown' = grown + 1 /\ UNCHANGED counters
                    BY <2>0, <4>1, <4>3, Growing DEF Run
                <5>2. Waiting(t, 0)' /\ ~Waiting(t, 1)'
                    BY <3>5, <4>1, <5>1, OnwardIs DEF Waiting, Same, Flags
                <5> QED BY <2>0, <3>2, <4>2, <5>1, <5>2 DEF counters, GrowthAccounted
            <4>4. CASE Refused(t)
                <5>1. k = Raised(j) /\ grown' = grown /\ UNCHANGED counters
                    BY <2>0, <4>4 DEF Refused, node
                <5>2. Waiting(t, 1)' /\ ~Waiting(t, 0)'
                    BY <3>5, <4>1, <5>1, RaisedIs DEF Waiting, Same, Flags
                <5> QED BY <2>0, <3>2, <4>2, <5>1, <5>2 DEF counters, GrowthAccounted
            <4>5. CASE GoesWrong(t)
                <5>1. /\ k = [Raised(j) EXCEPT !.hit = 1]
                      /\ grown' = grown + 1 \/ grown' = grown
                      /\ UNCHANGED counters
                    BY <2>0, <4>1, <4>5, Growing DEF GoesWrong, node
                <5>2. Waiting(t, 1)' /\ ~Waiting(t, 0)'
                    BY <3>5, <4>1, <5>1, HitIs DEF Waiting, Same, Flags
                <5> QED BY <2>0, <3>2, <4>2, <5>1, <5>2 DEF counters, GrowthAccounted
            <4> QED BY <2>3, <3>5, <4>1, <4>3, <4>4, <4>5 DEF Accept, Reply, Idle
        <3>6. CASE Reply(t)
            <4>1. j.at = "reply" /\ j.failed \in 0..1 /\ grown' = grown
                BY <2>0, <3>6, JobFacts DEF Reply, Idle, node
            <4>2. ~Waiting(t, 0)' /\ ~Waiting(t, 1)'
                BY <2>0, <3>6 DEF Reply, Idle, Waiting
            <4>3. CASE j.route = "/scale/storage/increase" /\ j.failed = 0
                <5>1. actions' = actions + 1 /\ failures' = failures
                    BY <2>0, <3>6, <4>3 DEF Reply, Counted
                <5>2. Waiting(t, 0) /\ ~Waiting(t, 1)
                    BY <4>1, <4>3 DEF Waiting
                <5> QED BY <2>0, <3>2, <4>1, <4>2, <5>1, <5>2 DEF GrowthAccounted
            <4>4. CASE j.route = "/scale/storage/increase" /\ j.failed = 1
                <5>1. actions' = actions /\ failures' = failures + 1
                    BY <2>0, <3>6, <4>4 DEF Reply, Counted
                <5>2. Waiting(t, 1) /\ ~Waiting(t, 0)
                    BY <4>1, <4>4 DEF Waiting
                <5> QED BY <2>0, <3>2, <4>1, <4>2, <5>1, <5>2 DEF GrowthAccounted
            <4>5. CASE j.route # "/scale/storage/increase"
                <5>1. actions' = actions /\ failures' = failures
                    BY <3>6, <4>5 DEF Reply, Counted, counters
                <5>2. ~Waiting(t, 1) /\ ~Waiting(t, 0)
                    BY <4>5 DEF Waiting
                <5> QED BY <2>0, <3>2, <4>1, <4>2, <5>1, <5>2 DEF GrowthAccounted
            <4> QED BY <4>1, <4>3, <4>4, <4>5
        <3> QED BY <2>3, <3>3, <3>4, <3>5, <3>6 DEF Run, Refused, GoesWrong
    <2> QED BY <2>1, <2>2, <2>3 DEF Next, Progress
<1> QED BY <1>1, <1>2, Invariance, PTL DEF Spec

-----------------------------------------------------------------------------
(* The most steps a request still has before it, its answer among them.    *)
Ahead(j) ==
    CASE j.at = "idle"                                       -> 0
      [] j.at = "reply"                                      -> 1
      [] j.at = "snapshot" /\ j.route = "/clone/create"      -> 5
      [] j.at = "clone"                                      -> 4
      [] j.at \in {"start", "stop"}                          -> 3
      [] OTHER                                               -> 2

(* A step of a thread that serves a request brings the request nearer to   *)
(* its end, whatever the command did; nobody else's step moves it at all,  *)
(* except that the end of the worker ends it.                              *)
RequestsAdvance ==
    [][\A t \in Threads :
          /\ Progress(t) \/ GoesWrong(t) => Ahead(job'[t]) < Ahead(job[t])
          /\ job[t] # Idle /\ job'[t] # job[t] => Ahead(job'[t]) < Ahead(job[t])]_vars

(* A command takes its request on. *)
LEMMA CommandAdvances ==
    ASSUME IInv, NEW t \in Threads, Run(t) \/ Refused(t) \/ GoesWrong(t)
    PROVE  /\ Ahead(job'[t]) < Ahead(job[t])
           /\ \A u \in Threads : u # t => job'[u] = job[u]
<1> DEFINE j == job[t]
<1>0. job \in [Threads -> Jobs \cup {Idle}] /\ j.at \in Commands
    BY DEF IInv, TypeOK, Run, Refused, GoesWrong
<1>1. Before(t) /\ j \in Jobs
    BY <1>0, Commanding DEF Before
<1>2. Ahead(Onward(j)) < Ahead(j)
    <2>1. Onward(j).at = IF j.at = "snapshot" /\ j.route = "/clone/create" THEN "clone"
                         ELSE IF j.at = "clone" THEN "start"
                         ELSE IF j.at = "start" THEN "delsnapshot"
                         ELSE IF j.at = "stop" THEN "destroy" ELSE "reply"
        BY <1>0, <1>1, OnwardIs
    <2> QED BY <1>0, <2>1 DEF Ahead, Commands
<1>3. ASSUME NEW k, k.at = IF j.at \in {"clone", "start"} THEN "delsnapshot" ELSE "reply"
      PROVE  Ahead(k) < Ahead(j)
    BY <1>0, <1>3 DEF Ahead, Commands
<1>4. Ahead(Raised(j)) < Ahead(j) /\ Ahead([Raised(j) EXCEPT !.hit = 1]) < Ahead(j)
    BY <1>0, <1>1, <1>3, RaisedIs, HitIs
<1>5. j = job[t]
    OBVIOUS
<1>6. \/ job' = [job EXCEPT ![t] = Onward(j)]
      \/ job' = [job EXCEPT ![t] = Raised(j)]
      \/ job' = [job EXCEPT ![t] = [Raised(j) EXCEPT !.hit = 1]]
    BY DEF Run, Refused, GoesWrong
<1> HIDE DEF j
<1> QED BY <1>0, <1>2, <1>4, <1>5, <1>6

(* No route repeats a command or waits for another request: each request   *)
(* has at most five steps, whatever goes on beside it                      *)
(* (lxc_autoscale_api.py:231-299, lxc_management.py:27-45).                *)
THEOREM RequestsEnd == Spec => RequestsAdvance
<1> DEFINE A == \A t \in Threads :
                  /\ Progress(t) \/ GoesWrong(t) => Ahead(job'[t]) < Ahead(job[t])
                  /\ job[t] # Idle /\ job'[t] # job[t] => Ahead(job'[t]) < Ahead(job[t])
<1>1. IInv /\ [Next]_vars => [A]_vars
    <2> SUFFICES ASSUME IInv, Next PROVE A
        OBVIOUS
    <2>0. job \in [Threads -> Jobs \cup {Idle}]
        BY DEF IInv, TypeOK
    <2>1. ASSUME NEW t \in Threads, job[t] # Idle
          PROVE  Ahead(Idle) < Ahead(job[t])
        <3>1. job[t].at \in Commands \cup {"reply"}
            BY <2>0, <2>1, JobFacts
        <3> QED BY <3>1 DEF Ahead, Idle, Commands
    <2>2. ASSUME NEW t \in Threads, Reply(t)
          PROVE  /\ Ahead(job'[t]) < Ahead(job[t])
                 /\ \A u \in Threads : u # t => job'[u] = job[u]
        <3>1. job[t] # Idle /\ job' = [job EXCEPT ![t] = Idle]
            BY <2>2 DEF Reply, Idle
        <3> QED BY <2>0, <2>1, <3>1
    <2>3. ASSUME NEW t \in Threads, Progress(t) \/ GoesWrong(t)
          PROVE  /\ Ahead(job'[t]) < Ahead(job[t])
                 /\ \A u \in Threads : u # t => job'[u] = job[u]
        BY <2>2, <2>3, CommandAdvances DEF Progress
    <2>4. ASSUME NEW u \in Threads, job[u] # Idle, job'[u] # job[u]
          PROVE  Ahead(job'[u]) < Ahead(job[u])
        <3>1. CASE Kill
            BY <2>1, <2>4, <3>1 DEF Kill
        <3>2. ASSUME NEW t \in Threads, Accept(t) PROVE FALSE
            BY <2>0, <2>4, <3>2 DEF Accept
        <3>3. ASSUME NEW t \in Threads, Progress(t) \/ GoesWrong(t)
              PROVE  Ahead(job'[u]) < Ahead(job[u])
            BY <2>3, <2>4, <3>3
        <3> QED BY <3>1, <3>2, <3>3 DEF Next
    <2> QED BY <2>3, <2>4
<1> QED BY <1>1, Invariance, PTL DEF Spec, RequestsAdvance
================================================================================
