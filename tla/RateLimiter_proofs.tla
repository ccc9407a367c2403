-------------------------- MODULE RateLimiter_proofs --------------------------
(***************************************************************************)
(* Proofs about RateLimiter, for any threads, clients, limit, window,      *)
(* ceiling and skew of the clock.  The invariant speaks of one client at a *)
(* time: Sound relates its window, its history and its promises, and each  *)
(* lemma below is one thing the code does to a window.                     *)
(***************************************************************************)
EXTENDS RateLimiter, FiniteSetTheorems, TLAPS

USE ClockAssumption, LimiterAssumption

(* w: the client's window, a and s: its history and how much that is,      *)
(* p: what it was promised, n: the time.                                   *)
Typed(w, a, s, p) ==
    /\ w \in SUBSET Entry /\ a \in SUBSET Entry
    /\ s \in Nat /\ p \in SUBSET Nat

Small(w) == IsFiniteSet(w) /\ Cardinality(w) <= Limit

Past(a, s, n) == IsFiniteSet(a) /\ \A e \in a : e.no <= s /\ e.at <= n

(* What was appended later is at most the skew older. *)
Lagging(w) == \A e, f \in w : e.no <= f.no => e.at <= f.at + Wait

HasLast(w) == w # {} => \E e \in w : \A f \in w : f.no <= e.no

After(w, b) == {e \in w : e.at > b}

HasEarliest(w) ==
    \A b \in Int : After(w, b) # {} =>
        \E f \in After(w, b) : \A e \in After(w, b) : f.at <= e.at

(* What was forgotten is older than the window less the skew. *)
Remembered(w, a, n) == w \subseteq a /\ \A e \in a : e.at > n - Window + Wait => e \in w

(* At the promised time the window has room. *)
Room(w, p) == \A r \in p : Cardinality({e \in w : e.at + Window >= r}) < Limit

Sound(w, a, s, p, n) ==
    /\ Typed(w, a, s, p) /\ Small(w) /\ Past(a, s, n) /\ Lagging(w)
    /\ HasLast(w) /\ HasEarliest(w) /\ Remembered(w, a, n) /\ Room(w, p)

-----------------------------------------------------------------------------
(* Time passes. *)
LEMMA SoundLater ==
    ASSUME NEW w, NEW a, NEW s, NEW p, NEW n \in Nat, Sound(w, a, s, p, n)
    PROVE  Sound(w, a, s, p, n + 1)
BY DEF Sound, Typed, Past, Remembered, Entry

(* A set of entries that is part of another is as small, and leaves as     *)
(* much room.                                                              *)
LEMMA Shrinks ==
    ASSUME NEW w \in SUBSET Entry, NEW v \in SUBSET w, NEW p \in SUBSET Nat, Small(w), Room(w, p)
    PROVE  Small(v) /\ Room(v, p)
<1>1. Small(v)
    BY FS_Subset, FS_CardinalityType DEF Small
<1>2. ASSUME NEW r \in p PROVE Cardinality({e \in v : e.at + Window >= r}) < Limit
    <2> DEFINE W == {e \in w : e.at + Window >= r}
               V == {e \in v : e.at + Window >= r}
    <2>1. IsFiniteSet(W) /\ Cardinality(W) < Limit
        BY <1>2, FS_Subset DEF Small, Room
    <2>2. V \in SUBSET W
        OBVIOUS
    <2>3. IsFiniteSet(V) /\ Cardinality(V) <= Cardinality(W)
        BY <2>1, <2>2, FS_Subset
    <2>4. Cardinality(V) \in Nat /\ Cardinality(W) \in Nat
        BY <2>1, <2>3, FS_CardinalityType
    <2> QED BY <2>1, <2>3, <2>4
<1> QED BY <1>1, <1>2 DEF Room

(* An idle client is forgotten: its last request, and with it all of them, *)
(* are out of every window that matters.                                   *)
LEMMA SoundIdle ==
    ASSUME NEW w, NEW a, NEW s, NEW p, NEW n \in Nat, NEW x \in Nat, x <= n,
           Sound(w, a, s, p, n),
           \/ w = {}
           \/ \E l \in w : (\A f \in w : f.no <= l.no) /\ x - l.at >= Window
    PROVE  Sound({}, a, s, p, n)
<1>1. Typed({}, a, s, p) /\ Past(a, s, n) /\ Lagging({}) /\ HasLast({}) /\ HasEarliest({})
    BY DEF Sound, Typed, Lagging, HasLast, HasEarliest, After
<1>2. Small({}) /\ Room({}, p)
    BY Shrinks DEF Sound, Typed
<1>3. Remembered({}, a, n)
    <2> SUFFICES ASSUME NEW e \in a, e.at > n - Window + Wait PROVE FALSE
        BY DEF Remembered
    <2>1. e \in w
        BY DEF Sound, Remembered
    <2>2. PICK l \in w : (\A f \in w : f.no <= l.no) /\ x - l.at >= Window
        BY <2>1
    <2>3. e.at <= l.at + Wait
        BY <2>1, <2>2 DEF Sound, Lagging
    <2>4. e.at \in Nat /\ l.at \in Nat
        BY <2>1, <2>2 DEF Sound, Typed, Entry
    <2> QED BY <2>2, <2>3, <2>4
<1> QED BY <1>1, <1>2, <1>3 DEF Sound

(* A client dropped to keep the ceiling starts anew. *)
LEMMA SoundDropped ==
    ASSUME NEW p \in SUBSET Nat, NEW n \in Nat
    PROVE  Sound({}, {}, 0, p, n)
<1>1. Typed({}, {}, 0, p) /\ Past({}, 0, n) /\ Lagging({}) /\ HasLast({}) /\ HasEarliest({})
      /\ Remembered({}, {}, n)
    BY FS_EmptySet DEF Typed, Past, Lagging, HasLast, HasEarliest, After, Remembered
<1>2. Small({})
    BY FS_EmptySet DEF Small
<1>3. Room({}, p)
    <2>1. \A r \in p : {e \in {} : e.at + Window >= r} = {}
        OBVIOUS
    <2> QED BY <2>1, FS_EmptySet DEF Room
<1> QED BY <1>1, <1>2, <1>3 DEF Sound

(* The window of an active client is pruned. *)
LEMMA SoundPruned ==
    ASSUME NEW w, NEW a, NEW s, NEW p, NEW n \in Nat, NEW x \in Nat, x <= n,
           Sound(w, a, s, p, n),
           NEW l \in w, \A f \in w : f.no <= l.no, x - l.at < Window
    PROVE  Sound({e \in w : x - e.at < Window}, a, s, p, n)
<1> DEFINE v == {e \in w : x - e.at < Window}
<1>0. w \in SUBSET Entry /\ v \in SUBSET w
    BY DEF Sound, Typed
<1>1. Typed(v, a, s, p) /\ Past(a, s, n) /\ Lagging(v)
    BY DEF Sound, Typed, Lagging
<1>2. Small(v) /\ Room(v, p)
    BY <1>0, Shrinks DEF Sound, Typed
<1>3. HasLast(v)
    <2>1. l \in v
        OBVIOUS
    <2> QED BY <2>1 DEF HasLast
<1>4. HasEarliest(v)
    <2> SUFFICES ASSUME NEW b \in Int, After(v, b) # {}
                 PROVE  \E f \in After(v, b) : \A e \in After(v, b) : f.at <= e.at
        BY DEF HasEarliest
    <2>1. PICK m \in Int : m = IF b >= x - Window THEN b ELSE x - Window
        OBVIOUS
    <2>2. \A e \in w : e.at \in Nat /\ (e.at > m <=> x - e.at < Window /\ e.at > b)
        BY <1>0, <2>1 DEF Entry
    <2>3. After(v, b) = After(w, m)
        BY <2>2 DEF After
    <2> QED BY <2>3 DEF Sound, HasEarliest
<1>5. Remembered(v, a, n)
    BY <1>0 DEF Sound, Typed, Remembered, Entry
<1> QED BY <1>1, <1>2, <1>3, <1>4, <1>5 DEF Sound

(* A request is let through. *)
LEMMA SoundAppended ==
    ASSUME NEW w, NEW a, NEW s, NEW p, NEW n \in Nat, NEW x \in Nat, x <= n, n <= x + Wait,
           Sound(w, a, s, p, n), Cardinality(w) < Limit
    PROVE  Sound(w \cup {[at |-> x, no |-> s + 1]}, a \cup {[at |-> x, no |-> s + 1]}, s + 1, {}, n)
<1> DEFINE g == [at |-> x, no |-> s + 1]
           v == w \cup {g}
<1>0. s \in Nat /\ g \in Entry /\ g.at = x /\ g.no = s + 1
    BY DEF Sound, Typed, Entry
<1>1. w \in SUBSET Entry /\ \A e \in w : e.no <= s /\ e.at <= n /\ e.no \in Nat /\ e.at \in Nat
    BY DEF Sound, Typed, Past, Remembered, Entry
<1> HIDE DEF g
<1>2. Typed(v, a \cup {g}, s + 1, {})
    BY <1>0, <1>1 DEF Sound, Typed
<1>3. Small(v)
    <2>0. IsFiniteSet(w)
        BY DEF Sound, Small
    <2>1. /\ IsFiniteSet(v)
          /\ Cardinality(v) = IF g \in w THEN Cardinality(w) ELSE Cardinality(w) + 1
        BY <2>0, FS_AddElement
    <2>2. Cardinality(w) \in Nat
        BY <2>0, FS_CardinalityType
    <2> QED BY <2>1, <2>2 DEF Small
<1>4. Past(a \cup {g}, s + 1, n)
    <2>1. IsFiniteSet(a)
        BY DEF Sound, Past
    <2>2. IsFiniteSet(a \cup {g})
        BY <2>1, FS_AddElement
    <2> QED BY <1>0, <2>2 DEF Sound, Typed, Past, Entry
<1>5. Lagging(v)
    <2> SUFFICES ASSUME NEW e \in v, NEW f \in v, e.no <= f.no PROVE e.at <= f.at + Wait
        BY DEF Lagging
    <2>1. CASE e \in w /\ f \in w
        BY <2>1 DEF Sound, Lagging
    <2>2. CASE f = g
        BY <1>0, <1>1, <2>2
    <2>3. CASE e = g /\ f \in w
        BY <1>0, <1>1, <2>3
    <2> QED BY <2>1, <2>2, <2>3
<1>6. HasLast(v)
    BY <1>0, <1>1 DEF HasLast
<1>7. HasEarliest(v)
    <2> SUFFICES ASSUME NEW b \in Int, After(v, b) # {}
                 PROVE  \E f \in After(v, b) : \A e \in After(v, b) : f.at <= e.at
        BY DEF HasEarliest
    <2>1. CASE After(w, b) = {}
        BY <1>0, <2>1 DEF After
    <2>2. CASE After(w, b) # {}
        <3>1. PICK f \in After(w, b) : \A e \in After(w, b) : f.at <= e.at
            BY <2>2 DEF Sound, HasEarliest
        <3>2. CASE x > b /\ x < f.at
            BY <1>0, <1>1, <3>1, <3>2 DEF After
        <3>3. CASE ~(x > b /\ x < f.at)
            BY <1>0, <1>1, <3>1, <3>3 DEF After
        <3> QED BY <3>2, <3>3
    <2> QED BY <2>1, <2>2
<1>8. Remembered(v, a \cup {g}, n)
    BY DEF Sound, Remembered
<1>9. Room(v, {})
    BY DEF Room
<1> QED BY <1>2, <1>3, <1>4, <1>5, <1>6, <1>7, <1>8, <1>9 DEF Sound, g

(* The earliest of a client's entries is one of them. *)
LEMMA EarliestIs ==
    ASSUME NEW w \in SUBSET Entry, HasEarliest(w), w # {}
    PROVE  \E f \in w : f.at = Earliest(w)
<1>1. After(w, -1) = w
    BY DEF After, Entry
<1>2. PICK f \in w : \A e \in w : f.at <= e.at
    BY <1>1 DEF HasEarliest
<1>3. f.at \in {e.at : e \in w} /\ \A e \in w : f.at <= e.at
    BY <1>2
<1>4. Earliest(w) \in {e.at : e \in w}
    BY <1>3 DEF Earliest
<1> QED BY <1>4

(* A full window is refused, with the time at which its oldest entry is    *)
(* out.                                                                    *)
LEMMA SoundPromised ==
    ASSUME NEW w, NEW a, NEW s, NEW p, NEW n \in Nat,
           Sound(w, a, s, p, n), Cardinality(w) >= Limit
    PROVE  Sound(w, a, s, p \cup {RetryAt(w)}, n)
<1>1. IsFiniteSet(w) /\ Cardinality(w) \in Nat /\ Cardinality(w) <= Limit /\ w # {}
    BY FS_CardinalityType, FS_EmptySet DEF Sound, Small
<1>2. PICK f \in w : f.at = Earliest(w)
    BY <1>1, EarliestIs DEF Sound, Typed
<1>3. f.at \in Nat /\ RetryAt(w) = f.at + Window + 1 /\ RetryAt(w) \in Nat
    BY <1>2 DEF RetryAt, Sound, Typed, Entry
<1>4. Cardinality({e \in w : e.at + Window >= RetryAt(w)}) < Limit
    <2> DEFINE V == {e \in w : e.at + Window >= RetryAt(w)}
    <2>1. f \notin V
        BY <1>3
    <2>2. V \in SUBSET (w \ {f})
        BY <2>1
    <2>3. IsFiniteSet(w \ {f}) /\ Cardinality(w \ {f}) = Cardinality(w) - 1
        BY <1>1, <1>2, FS_RemoveElement
    <2>4. IsFiniteSet(V) /\ Cardinality(V) <= Cardinality(w \ {f})
        BY <2>2, <2>3, FS_Subset
    <2>5. Cardinality(V) \in Nat
        BY <2>4, FS_CardinalityType
    <2> QED BY <1>1, <2>3, <2>4, <2>5
<1>5. Room(w, p \cup {RetryAt(w)})
    BY <1>4 DEF Sound, Room
<1>6. Typed(w, a, s, p \cup {RetryAt(w)})
    BY <1>3 DEF Sound, Typed
<1> QED BY <1>5, <1>6 DEF Sound

-----------------------------------------------------------------------------
(* Who holds a stamp read it within Wait of now. *)
Waiting ==
    \A t \in Threads : caller[t].at = "lock" =>
        /\ caller[t].client \in Clients
        /\ caller[t].stamp <= now /\ now <= caller[t].stamp + Wait

AllSound == \A c \in Clients : Sound(windows[c], admitted[c], served[c], promised[c], now)

IInv == TypeOK /\ Waiting /\ AllSound

LEMMA LastIs ==
    ASSUME AllSound, NEW c \in Clients, windows[c] # {}
    PROVE  LastOf(c) \in windows[c] /\ \A f \in windows[c] : f.no <= LastOf(c).no
<1>1. \E e \in windows[c] : \A f \in windows[c] : f.no <= e.no
    BY DEF AllSound, Sound, HasLast
<1> QED BY <1>1 DEF LastOf

(* What the eviction keeps. *)
LEMMA KeptIs ==
    ASSUME NEW x \in Nat, NEW kept \in Kept(x)
    PROVE  /\ kept \subseteq Active(x) /\ Active(x) \subseteq Clients
           /\ IsFiniteSet(kept) /\ Cardinality(kept) \in Nat /\ Cardinality(kept) <= Ceiling
<1>1. Active(x) \in SUBSET Clients
    BY DEF Active
<1>2. IsFiniteSet(Active(x)) /\ Cardinality(Active(x)) \in Nat
    BY <1>1, FS_Subset, FS_CardinalityType
<1>3. kept \in SUBSET Active(x) /\ Cardinality(kept) <= Ceiling
    <2>1. CASE Cardinality(Active(x)) <= Ceiling
        BY <2>1 DEF Kept
    <2>2. CASE ~(Cardinality(Active(x)) <= Ceiling)
        BY <2>2 DEF Kept
    <2> QED BY <2>1, <2>2
<1>4. IsFiniteSet(kept) /\ Cardinality(kept) \in Nat
    BY <1>2, <1>3, FS_Subset, FS_CardinalityType
<1> QED BY <1>1, <1>3, <1>4

(* After the eviction every client is sound, kept or not. *)
LEMMA SoundEvicted ==
    ASSUME IInv, NEW x \in Nat, x <= now, NEW kept \in Kept(x), NEW d \in Clients
    PROVE  Sound(IF d \in kept THEN windows[d] ELSE {},
                 AdmittedSince(x, kept)[d], ServedSince(x, kept)[d], promised[d], now)
<1>0. /\ Sound(windows[d], admitted[d], served[d], promised[d], now)
      /\ now \in Nat /\ promised[d] \in SUBSET Nat
    BY DEF IInv, AllSound, TypeOK
<1>1. kept \subseteq Active(x)
    BY KeptIs
<1>2. CASE d \in kept
    <2>1. AdmittedSince(x, kept)[d] = admitted[d] /\ ServedSince(x, kept)[d] = served[d]
        BY <1>2 DEF AdmittedSince, ServedSince, Starts
    <2> QED BY <1>0, <1>2, <2>1
<1>3. CASE d \in Active(x) \ kept
    <2>1. AdmittedSince(x, kept)[d] = {} /\ ServedSince(x, kept)[d] = 0
        BY <1>3 DEF AdmittedSince, ServedSince, Starts
    <2> QED BY <1>0, <1>3, <2>1, SoundDropped
<1>4. CASE d \notin Active(x)
    <2>1. AdmittedSince(x, kept)[d] = admitted[d] /\ ServedSince(x, kept)[d] = served[d]
        BY <1>4 DEF AdmittedSince, ServedSince, Starts
    <2>2. \/ windows[d] = {}
          \/ \E l \in windows[d] : (\A f \in windows[d] : f.no <= l.no) /\ x - l.at >= Window
        <3>1. CASE windows[d] = {}
            BY <3>1
        <3>2. CASE windows[d] # {}
            <4>1. LastOf(d) \in windows[d] /\ \A f \in windows[d] : f.no <= LastOf(d).no
                BY <3>2, LastIs DEF IInv
            <4>2. LastOf(d).at \in Nat
                BY <4>1, <1>0 DEF Sound, Typed, Entry
            <4>3. x - LastOf(d).at >= Window
                BY <1>4, <3>2, <4>2 DEF Active
            <4> QED BY <4>1, <4>3
        <3> QED BY <3>1, <3>2
    <2> QED BY <1>0, <1>1, <1>4, <2>1, <2>2, SoundIdle
<1> QED BY <1>2, <1>3, <1>4

(* And so is the present client after its window was pruned. *)
LEMMA SoundRecent ==
    ASSUME IInv, NEW x \in Nat, x <= now, NEW kept \in Kept(x), NEW c \in Clients
    PROVE  Sound(Recent(c, x, kept),
                 AdmittedSince(x, kept)[c], ServedSince(x, kept)[c], promised[c], now)
<1>1. CASE c \notin kept
    BY <1>1, SoundEvicted DEF Recent
<1>2. CASE c \in kept
    <2>1. Sound(windows[c], AdmittedSince(x, kept)[c], ServedSince(x, kept)[c], promised[c], now)
        BY <1>2, SoundEvicted
    <2>2. windows[c] # {} /\ x - LastOf(c).at < Window
        BY <1>2, KeptIs DEF Active
    <2>3. LastOf(c) \in windows[c] /\ \A f \in windows[c] : f.no <= LastOf(c).no
        BY <2>2, LastIs DEF IInv
    <2>4. now \in Nat
        BY DEF IInv, TypeOK
    <2> QED BY <1>2, <2>1, <2>2, <2>3, <2>4, SoundPruned DEF Recent
<1> QED BY <1>1, <1>2

-----------------------------------------------------------------------------
LEMMA IInvInit == Init => IInv
<1> SUFFICES ASSUME Init PROVE IInv
    OBVIOUS
<1>1. TypeOK /\ Waiting
    BY DEF Init, TypeOK, Waiting, Nobody, Callers
<1>2. AllSound
    BY SoundDropped DEF Init, AllSound
<1> QED BY <1>1, <1>2 DEF IInv

(* The types of the clients' part follow from their soundness. *)
LEMMA TypesOfSound ==
    ASSUME AllSound', now' \in 0..MaxTime, caller' \in [Threads -> Callers],
           windows' = [c \in Clients |-> windows'[c]],
           admitted' = [c \in Clients |-> admitted'[c]],
           served' = [c \in Clients |-> served'[c]],
           promised' = [c \in Clients |-> promised'[c]]
    PROVE  TypeOK'
BY DEF AllSound, Sound, Typed, TypeOK

LEMMA RefuseSound ==
    ASSUME IInv, NEW t \in Threads, Refuse(t)
    PROVE  IInv'
<1> DEFINE c == caller[t].client
           x == caller[t].stamp
<1>1. /\ caller[t].at = "lock" /\ c \in Clients /\ x \in Nat /\ x <= now /\ now \in Nat
      /\ caller \in [Threads -> Callers]
    BY DEF Refuse, IInv, Waiting, TypeOK, Callers
<1>2. PICK kept \in Kept(x) :
        /\ Cardinality(Recent(c, x, kept)) >= Limit
        /\ windows' = Table(c, Recent(c, x, kept), kept)
        /\ promised' = [promised EXCEPT ![c] = @ \cup {RetryAt(Recent(c, x, kept))}]
        /\ served' = ServedSince(x, kept)
        /\ admitted' = AdmittedSince(x, kept)
    BY DEF Refuse, Refused
<1>3. caller' = [caller EXCEPT ![t] = Nobody] /\ now' = now
    BY DEF Refuse
<1> HIDE DEF c, x
<1>4. ASSUME NEW d \in Clients
      PROVE  Sound(windows'[d], admitted'[d], served'[d], promised'[d], now')
    <2>1. CASE d = c
        <3>1. windows'[d] = Recent(c, x, kept) /\ promised'[d] = promised[d] \cup {RetryAt(Recent(c, x, kept))}
            BY <1>2, <2>1 DEF Table, IInv, TypeOK
        <3>2. Sound(Recent(c, x, kept), admitted'[d], served'[d], promised[d], now)
            BY <1>1, <1>2, <2>1, SoundRecent
        <3> QED BY <1>1, <1>2, <1>3, <3>1, <3>2, SoundPromised
    <2>2. CASE d # c
        <3>1. /\ windows'[d] = IF d \in kept THEN windows[d] ELSE {}
              /\ promised'[d] = promised[d]
            BY <1>2, <2>2 DEF Table, IInv, TypeOK
        <3>2. Sound(IF d \in kept THEN windows[d] ELSE {}, admitted'[d], served'[d], promised[d], now)
            BY <1>1, <1>2, SoundEvicted
        <3> QED BY <1>3, <3>1, <3>2
    <2> QED BY <2>1, <2>2
<1>5. AllSound'
    BY <1>4 DEF AllSound
<1>6. caller' \in [Threads -> Callers] /\ Waiting'
    BY <1>1, <1>3 DEF Callers, Nobody, Waiting, IInv
<1>7. TypeOK'
    <2>1. /\ windows' = [d \in Clients |-> windows'[d]]
          /\ promised' = [d \in Clients |-> promised'[d]]
        BY <1>2 DEF Table, IInv, TypeOK
    <2>2. /\ served' = [d \in Clients |-> served'[d]]
          /\ admitted' = [d \in Clients |-> admitted'[d]]
        BY <1>2 DEF ServedSince, AdmittedSince
    <2> QED BY <1>3, <1>5, <1>6, <2>1, <2>2, TypesOfSound DEF IInv, TypeOK
<1> QED BY <1>5, <1>6, <1>7 DEF IInv

LEMMA AdmitSound ==
    ASSUME IInv, NEW t \in Threads, Admit(t)
    PROVE  IInv'
<1> DEFINE c == caller[t].client
           x == caller[t].stamp
<1>1. /\ caller[t].at = "lock" /\ c \in Clients /\ x \in Nat /\ x <= now /\ now \in Nat
      /\ now <= x + Wait /\ caller \in [Threads -> Callers]
    BY DEF Admit, IInv, Waiting, TypeOK, Callers
<1>2. PICK kept \in Kept(x) :
        LET entry == [at |-> x, no |-> ServedSince(x, kept)[c] + 1] IN
        /\ Cardinality(Recent(c, x, kept)) < Limit
        /\ windows' = Table(c, Recent(c, x, kept) \cup {entry}, kept)
        /\ served' = [ServedSince(x, kept) EXCEPT ![c] = @ + 1]
        /\ admitted' = [AdmittedSince(x, kept) EXCEPT ![c] = @ \cup {entry}]
    BY DEF Admit
<1>3. /\ promised' = [promised EXCEPT ![c] = {}]
      /\ caller' = [caller EXCEPT ![t].at = "view"] /\ now' = now
    BY DEF Admit
<1> HIDE DEF c, x
<1> DEFINE entry == [at |-> x, no |-> ServedSince(x, kept)[c] + 1]
<1>4. ASSUME NEW d \in Clients
      PROVE  Sound(windows'[d], admitted'[d], served'[d], promised'[d], now')
    <2>1. CASE d = c
        <3>1. /\ windows'[d] = Recent(c, x, kept) \cup {entry}
              /\ admitted'[d] = AdmittedSince(x, kept)[c] \cup {entry}
              /\ served'[d] = ServedSince(x, kept)[c] + 1
              /\ promised'[d] = {}
            BY <1>2, <1>3, <2>1 DEF Table, AdmittedSince, ServedSince, IInv, TypeOK
        <3>2. Sound(Recent(c, x, kept), AdmittedSince(x, kept)[c], ServedSince(x, kept)[c],
                    promised[c], now)
            BY <1>1, <2>1, SoundRecent
        <3>3. Cardinality(Recent(c, x, kept)) < Limit
            BY <1>2
        <3>4. Sound(Recent(c, x, kept) \cup {entry}, AdmittedSince(x, kept)[c] \cup {entry},
                    ServedSince(x, kept)[c] + 1, {}, now)
            BY <1>1, <3>2, <3>3, SoundAppended
        <3> HIDE DEF entry
        <3> QED BY <1>3, <3>1, <3>4
    <2>2. CASE d # c
        <3>1. /\ windows'[d] = IF d \in kept THEN windows[d] ELSE {}
              /\ admitted'[d] = AdmittedSince(x, kept)[d]
              /\ served'[d] = ServedSince(x, kept)[d]
              /\ promised'[d] = promised[d]
            BY <1>2, <1>3, <2>2 DEF Table, AdmittedSince, ServedSince, IInv, TypeOK
        <3> QED BY <1>1, <1>3, <3>1, SoundEvicted
    <2> QED BY <2>1, <2>2
<1>5. AllSound'
    BY <1>4 DEF AllSound
<1>6. caller' \in [Threads -> Callers] /\ Waiting'
    <2>1. caller' \in [Threads -> Callers]
        BY <1>1, <1>3 DEF Callers
    <2>2. \A u \in Threads : caller'[u].at = "lock" => caller'[u] = caller[u]
        BY <1>1, <1>3
    <2> QED BY <1>3, <2>1, <2>2 DEF Waiting, IInv
<1>7. TypeOK'
    <2>1. /\ windows' = [d \in Clients |-> windows'[d]]
          /\ promised' = [d \in Clients |-> promised'[d]]
        BY <1>2, <1>3 DEF Table, IInv, TypeOK
    <2>2. /\ served' = [d \in Clients |-> served'[d]]
          /\ admitted' = [d \in Clients |-> admitted'[d]]
        BY <1>2 DEF ServedSince, AdmittedSince
    <2> QED BY <1>3, <1>5, <1>6, <2>1, <2>2, TypesOfSound DEF IInv, TypeOK
<1> QED BY <1>5, <1>6, <1>7 DEF IInv

LEMMA IInvStep == IInv /\ [Next]_vars => IInv'
<1> SUFFICES ASSUME IInv, [Next]_vars PROVE IInv'
    OBVIOUS
<1>1. CASE Tick
    <2>1. /\ now' = now + 1 /\ now' \in 0..MaxTime /\ now \in Nat
          /\ UNCHANGED <<windows, caller, admitted, served, promised>>
        BY <1>1 DEF Tick, IInv, TypeOK
    <2>2. AllSound'
        BY <2>1, SoundLater DEF IInv, AllSound
    <2>3. TypeOK'
        BY <2>1 DEF IInv, TypeOK
    <2>4. Waiting'
        BY <1>1, <2>1 DEF Tick, IInv, Waiting, TypeOK, Callers
    <2> QED BY <2>2, <2>3, <2>4 DEF IInv
<1>2. ASSUME NEW t \in Threads, Arrive(t) PROVE IInv'
    <2>1. TypeOK'
        BY <1>2 DEF Arrive, IInv, TypeOK, Callers
    <2>2. Waiting'
        BY <1>2 DEF Arrive, IInv, TypeOK, Callers, Waiting
    <2>3. AllSound'
        BY <1>2 DEF Arrive, IInv, AllSound
    <2> QED BY <2>1, <2>2, <2>3 DEF IInv
<1>3. ASSUME NEW t \in Threads, Leave(t) PROVE IInv'
    <2>1. TypeOK' /\ Waiting'
        BY <1>3 DEF Leave, IInv, TypeOK, Callers, Nobody, Waiting
    <2>2. AllSound'
        BY <1>3 DEF Leave, IInv, AllSound
    <2> QED BY <2>1, <2>2 DEF IInv
<1>4. CASE UNCHANGED vars
    BY <1>4 DEF vars, IInv, TypeOK, Waiting, AllSound
<1> QED BY <1>1, <1>2, <1>3, <1>4, RefuseSound, AdmitSound DEF Next

LEMMA IInvAlways == Spec => []IInv
BY IInvInit, IInvStep, PTL DEF Spec

-----------------------------------------------------------------------------
(* The limiter's state keeps its types. *)
THEOREM TypeCorrect == Spec => []TypeOK
<1>1. IInv => TypeOK
    BY DEF IInv
<1> QED BY <1>1, IInvAlways, PTL

(* A client's admissions of a window, less the skew, are all still in its  *)
(* list, and that is never longer than the limit: rate_limiting.py:66-83.  *)
THEOREM Limited == Spec => []WindowKept
<1>1. IInv => WindowKept
    <2> SUFFICES ASSUME IInv, NEW c \in Clients
                 PROVE  Cardinality({e \in admitted[c] : e.at > now - Window + Wait}) <= Limit
        BY DEF WindowKept
    <2> DEFINE S == {e \in admitted[c] : e.at > now - Window + Wait}
    <2>1. Sound(windows[c], admitted[c], served[c], promised[c], now)
        BY DEF IInv, AllSound
    <2>2. S \in SUBSET windows[c]
        BY <2>1 DEF Sound, Remembered
    <2>3. IsFiniteSet(windows[c]) /\ Cardinality(windows[c]) <= Limit
        BY <2>1 DEF Sound, Small
    <2>4. IsFiniteSet(S) /\ Cardinality(S) <= Cardinality(windows[c])
        BY <2>2, <2>3, FS_Subset
    <2>5. Cardinality(S) \in Nat /\ Cardinality(windows[c]) \in Nat
        BY <2>3, <2>4, FS_CardinalityType
    <2> QED BY <2>3, <2>4, <2>5
<1> QED BY <1>1, IInvAlways, PTL

(* A thread that holds a stamp goes back to its client only with a refusal. *)
LEMMA OnlyRefusals ==
    ASSUME IInv, Next, NEW t \in Threads, caller[t].at = "lock", caller'[t] = Nobody
    PROVE  Refuse(t)
<1>1. caller'[t] # caller[t] /\ ~Tick
    BY DEF Tick, Nobody
<1>2. PICK u \in Threads : Arrive(u) \/ Refuse(u) \/ Admit(u) \/ Leave(u)
    BY <1>1 DEF Next
<1>3. caller \in [Threads -> Callers]
    BY DEF IInv, TypeOK
<1>4. u = t
    BY <1>1, <1>2, <1>3 DEF Arrive, Refuse, Admit, Leave
<1>5. ~Arrive(t) /\ ~Leave(t)
    BY DEF Arrive, Leave, Nobody
<1>6. ~Admit(t)
    BY <1>3 DEF Admit, Nobody
<1> QED BY <1>2, <1>4, <1>5, <1>6

(* A refusal that follows a promise comes before the promised time:        *)
(* rate_limiting.py:75-79.                                                 *)
THEOREM Honest == Spec => HonestRetry
<1> DEFINE A == \A t \in Threads :
                  caller[t].at = "lock" /\ caller'[t] = Nobody
                      => \A r \in promised[caller[t].client] : caller[t].stamp < r
<1>1. IInv /\ [Next]_vars => [A]_vars
    <2> SUFFICES ASSUME IInv, Next, NEW t \in Threads,
                        caller[t].at = "lock", caller'[t] = Nobody,
                        NEW r \in promised[caller[t].client]
                 PROVE  caller[t].stamp < r
        OBVIOUS
    <2> DEFINE c == caller[t].client
               x == caller[t].stamp
    <2>1. Refuse(t)
        BY OnlyRefusals
    <2>2. c \in Clients /\ x \in Nat /\ x <= now /\ r \in Nat
        BY DEF IInv, Waiting, TypeOK, Callers
    <2>3. PICK kept \in Kept(x) : Cardinality(Recent(c, x, kept)) >= Limit
        BY <2>1 DEF Refuse
    <2> HIDE DEF c, x
    <2>4. Sound(Recent(c, x, kept), AdmittedSince(x, kept)[c], ServedSince(x, kept)[c], promised[c], now)
        BY <2>2, SoundRecent
    <2>5. ASSUME x >= r PROVE FALSE
        <3> DEFINE R == Recent(c, x, kept)
                   V == {e \in R : e.at + Window >= r}
        <3>1. \A e \in R : e.at \in Nat /\ x - e.at < Window
            BY <2>4 DEF Recent, Sound, Typed, Entry
        <3>2. V = R
            BY <2>2, <2>5, <3>1
        <3>3. Cardinality(V) < Limit
            BY <2>4 DEF Sound, Room, c
        <3>4. IsFiniteSet(R) /\ Cardinality(R) \in Nat
            BY <2>4, FS_CardinalityType DEF Sound, Small
        <3>5. Cardinality(R) >= Limit /\ Cardinality(R) < Limit
            BY <2>3, <3>2, <3>3
        <3> HIDE DEF R
        <3> QED BY <3>4, <3>5, LimiterAssumption
    <2> QED BY <2>2, <2>5 DEF x
<1> QED BY <1>1, IInvAlways, PTL DEF Spec, HonestRetry

(* The clients an eviction keeps, and the one just served:                 *)
(* rate_limiting.py:27-31.                                                 *)
THEOREM Bounded == Spec => []TableBounded
<1> DEFINE Known == {c \in Clients : windows[c] # {}}
<1>1. Init => TableBounded
    <2> SUFFICES ASSUME Init PROVE TableBounded
        OBVIOUS
    <2>1. Known = {}
        BY DEF Init
    <2> QED BY <2>1, FS_EmptySet DEF TableBounded
<1>2. ASSUME IInv, TableBounded, NEW t \in Threads, Refuse(t) \/ Admit(t) PROVE TableBounded'
    <2> DEFINE c == caller[t].client
               x == caller[t].stamp
    <2>1. c \in Clients /\ x \in Nat
        BY <1>2 DEF Refuse, Admit, IInv, Waiting, TypeOK, Callers
    <2>2. PICK kept \in Kept(x) : \E w : windows' = Table(c, w, kept)
        BY <1>2 DEF Refuse, Admit
    <2> HIDE DEF c, x
    <2>3. Known' \in SUBSET (kept \cup {c})
        BY <2>2 DEF Table
    <2>4. IsFiniteSet(kept) /\ Cardinality(kept) \in Nat /\ Cardinality(kept) <= Ceiling
        BY <2>1, KeptIs
    <2>5. /\ IsFiniteSet(kept \cup {c})
          /\ Cardinality(kept \cup {c}) = IF c \in kept THEN Cardinality(kept) ELSE Cardinality(kept) + 1
        BY <2>4, FS_AddElement
    <2>6. IsFiniteSet(Known') /\ Cardinality(Known') <= Cardinality(kept \cup {c})
        BY <2>3, <2>5, FS_Subset
    <2>7. Cardinality(Known') \in Nat
        BY <2>6, FS_CardinalityType
    <2>8. Cardinality(Known') <= Ceiling + 1
        BY <2>4, <2>5, <2>6, <2>7
    <2> QED BY <2>8 DEF TableBounded
<1>3. IInv /\ TableBounded /\ [Next]_vars => TableBounded'
    <2> SUFFICES ASSUME IInv, TableBounded, [Next]_vars PROVE TableBounded'
        OBVIOUS
    <2>1. CASE UNCHANGED windows
        BY <2>1 DEF TableBounded
    <2> QED BY <1>2, <2>1 DEF Next, Tick, Arrive, Leave, vars
<1> QED BY <1>1, <1>3, IInvAlways, PTL DEF Spec

(* What a refused request found in its client's list, the client was       *)
(* really let through: rate_limiting.py:66-81.                             *)
THEOREM Earned == Spec => RefusalsEarned
<1> DEFINE A == \A t \in Threads :
                  caller[t].at = "lock" /\ caller'[t] = Nobody
                      => LET c == caller[t].client
                         IN  Cardinality({e \in admitted[c] : caller[t].stamp - e.at < Window}) >= Limit
<1>1. IInv /\ [Next]_vars => [A]_vars
    <2> SUFFICES ASSUME IInv, Next, NEW t \in Threads,
                        caller[t].at = "lock", caller'[t] = Nobody,
                        NEW c, c = caller[t].client, NEW x, x = caller[t].stamp
                 PROVE  Cardinality({e \in admitted[c] : x - e.at < Window}) >= Limit
        OBVIOUS
    <2> DEFINE S == {e \in admitted[c] : x - e.at < Window}
    <2>1. PICK kept \in Kept(x) : Cardinality(Recent(c, x, kept)) >= Limit
        BY OnlyRefusals DEF Refuse
    <2>2. c \in Clients
        BY DEF IInv, Waiting
    <2>3. Sound(windows[c], admitted[c], served[c], promised[c], now)
        BY <2>2 DEF IInv, AllSound
    <2>4. windows[c] \subseteq admitted[c] /\ IsFiniteSet(admitted[c])
        BY <2>3 DEF Sound, Remembered, Past
    <2>5. Recent(c, x, kept) \in SUBSET S
        BY <2>4 DEF Recent
    <2>6. IsFiniteSet(S)
        BY <2>4, FS_Subset
    <2>7. /\ IsFiniteSet(Recent(c, x, kept))
          /\ Cardinality(Recent(c, x, kept)) <= Cardinality(S)
        BY <2>5, <2>6, FS_Subset
    <2>8. Cardinality(S) \in Nat /\ Cardinality(Recent(c, x, kept)) \in Nat
        BY <2>6, <2>7, FS_CardinalityType
    <2> QED BY <2>1, <2>7, <2>8
<1> QED BY <1>1, IInvAlways, PTL DEF Spec, RefusalsEarned
===============================================================================
