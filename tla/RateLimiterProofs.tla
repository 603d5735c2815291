--------------------------- MODULE RateLimiterProofs ---------------------------
(***************************************************************************)
(* For any number of threads, any limits and any windows: although the     *)
(* test and the append of the limiter are two steps without a lock, and    *)
(* threads prune for each other with readings of the clock out of order,   *)
(* the places handed out exceed the limit of a window by at most one for   *)
(* every other thread, and a thread is refused only by a window that is    *)
(* full up to the same margin.  Where no thread switch fits between a test *)
(* and its popleft() (~bottom, CPython 3.13 and later), nothing in a       *)
(* window is pruned from it, and its admissions have the same bound.       *)
(***************************************************************************)
EXTENDS RateLimiter, FiniteSetTheorems, WellFoundedInduction, TLAPS

(* Limits are numbers, windows have lengths (rate_limit.py:8-12). *)
LEMMA WindowTypes ==
  \A w \in Windows : Limit(w) \in Nat /\ Length(w) \in Nat \ {0}
  BY RateLimiterAssumption DEF Windows, Limit, Length

(* A deque that is popped or extended stays a sequence of times. *)
LEMMA DequeTypes ==
  ASSUME NEW s \in Seq(Nat)
  PROVE  /\ Len(s) \in Nat
         /\ \A n \in Nat : Append(s, n) \in Seq(Nat) /\ Len(Append(s, n)) = Len(s) + 1
         /\ s # <<>> => Tail(s) \in Seq(Nat) /\ Len(Tail(s)) = Len(s) - 1
  OBVIOUS

(* A set of numbers that has any has a least one. *)
LEMMA Least ==
  ASSUME NEW T \in SUBSET Nat, T # {}
  PROVE  \E i \in T : \A j \in T : i <= j
<1> DEFINE Less == {p \in Nat \X Nat : p[1] < p[2]}
<1>1. IsWellFoundedOn(Less, Nat)
  BY NatLessThanWellFounded DEF OpToRel
<1>2. ASSUME NEW i \in T, NEW j \in T, ~(i <= j) PROVE <<j, i>> \in Less
  BY <1>2
<1>3. \E i \in T : \A j \in T : ~(<<j, i>> \in Less)
  <2> HIDE DEF Less
  <2> QED BY <1>1, WFMin
<1> QED BY <1>2, <1>3

(* A trimmed log is empty, or what follows some entry of it. *)
LEMMA TrimmedFacts ==
  ASSUME NEW s \in Seq(Nat), NEW m \in Int
  PROVE  /\ Trimmed(s, m) \in Seq(Nat)
         /\ \E k \in Nat : \A i \in DOMAIN Trimmed(s, m) :
              i + k \in DOMAIN s /\ s[i + k] = Trimmed(s, m)[i]
<1>1. CASE After(s, m) = {}
  BY <1>1 DEF Trimmed
<1>2. CASE After(s, m) # {}
  <2> DEFINE n == CHOOSE i \in After(s, m) : \A j \in After(s, m) : i <= j
  <2>1. n \in 1..Len(s)
    <3>1. After(s, m) \in SUBSET Nat /\ After(s, m) \subseteq 1..Len(s)
      BY DEF After
    <3>2. \E i \in After(s, m) : \A j \in After(s, m) : i <= j
      BY <1>2, <3>1, Least
    <3> QED BY <3>1, <3>2
  <2>2. Trimmed(s, m) = SubSeq(s, n, Len(s))
    BY <1>2 DEF Trimmed
  <2> HIDE DEF n
  <2>3. /\ SubSeq(s, n, Len(s)) \in Seq(Nat)
        /\ DOMAIN SubSeq(s, n, Len(s)) = 1..(Len(s) - n + 1)
        /\ \A i \in 1..(Len(s) - n + 1) : SubSeq(s, n, Len(s))[i] = s[i + n - 1]
    BY <2>1
  <2>4. \A i \in 1..(Len(s) - n + 1) : i + (n - 1) = i + n - 1 /\ i + (n - 1) \in 1..Len(s)
    BY <2>1
  <2>5. n - 1 \in Nat /\ DOMAIN s = 1..Len(s)
    BY <2>1
  <2> QED BY <2>2, <2>3, <2>4, <2>5
<1> QED BY <1>1, <1>2

(* Wherever a thread goes on to, it keeps no claim on a place. *)
LEMMA GoOnType ==
  ASSUME TypeOK, NEW t \in Threads, NEW ws \in SUBSET Windows, NEW n \in Nat,
         GoOn(t, ws, n)
  PROVE  /\ pc' \in [Threads -> Steps]
         /\ at' \in [Threads -> Windows]
         /\ now' \in [Threads -> Nat]
         /\ pc'[t] # "append"
         /\ \A u \in Threads \ {t} : pc'[u] = pc[u] /\ at'[u] = at[u]
<1>1. FirstOf(ws) \in Windows /\ "minute" \in Windows
  BY DEF FirstOf, Windows
<1>2. CASE Return(t)
  BY <1>1, <1>2 DEF Return, TypeOK, Steps
<1>3. CASE /\ pc' = [pc EXCEPT ![t] = "window"]
           /\ at' = [at EXCEPT ![t] = FirstOf(ws)]
           /\ now' = [now EXCEPT ![t] = n]
  BY <1>1, <1>3 DEF TypeOK, Steps
<1> QED BY <1>2, <1>3 DEF GoOn

(* A step of the pruning loop. *)
Loop(t) == Prune(t) \/ Test(t) \/ Pop(t)

LEMMA LoopFacts ==
  ASSUME TypeOK, NEW t \in Threads, Loop(t)
  PROVE  /\ pc[t] \in {"window", "again", "pop"} /\ pc' \in [Threads -> Steps]
         /\ pc'[t] # "append"
         /\ pc'[t] = "idle" \/ (at'[t] = at[t] /\ now'[t] = now[t])
         /\ at' \in [Threads -> Windows] /\ now' \in [Threads -> Nat]
         /\ now'[t] \in {0, now[t]} /\ clock' = clock /\ log' = log
         /\ \A u \in Threads \ {t} : pc'[u] = pc[u] /\ at'[u] = at[u] /\ now'[u] = now[u]
         /\ values' \in [Windows -> Seq(Nat)]
         /\ \A w \in Windows :
              /\ values[w] \in Seq(Nat)
              /\ \/ values'[w] = values[w]
                 \/ w = at[t] /\ values[w] # <<>> /\ values'[w] = Tail(values[w])
<1>1. at[t] \in Windows /\ values[at[t]] \in Seq(Nat) /\ "minute" \in Windows /\ pc[t] \in Steps
  BY DEF TypeOK, Windows
<1>2. values[at[t]] # <<>> => Tail(values[at[t]]) \in Seq(Nat)
  BY <1>1, DequeTypes
<1>3. CASE Prune(t)
  <2>1. values[at[t]] # <<>>
    BY <1>3 DEF Prune, Stale
  <2>2. (IF bottom THEN "again" ELSE "window") \in Steps \ {"append"}
    BY DEF Steps
  <2> QED BY <1>1, <1>2, <1>3, <2>1, <2>2 DEF Prune, Popped, TypeOK
<1>b. pc[t] \in {"again", "pop"} => {"again", "pop"} \subseteq Steps
  BY <1>1 DEF Steps
<1>4. CASE Test(t)
  <2>1. "pop" \in Steps
    BY <1>4, <1>b DEF Test
  <2> QED BY <1>1, <1>4, <2>1 DEF Test, TypeOK
<1>5. CASE Pop(t)
  <2>a. "again" \in Steps /\ "idle" \in Steps
    BY <1>5, <1>b DEF Pop, Steps
  <2>1. CASE values[at[t]] # <<>>
    <3>1. /\ pc' = [pc EXCEPT ![t] = "again"] /\ UNCHANGED <<at, now, clock, log>> /\ pc[t] = "pop"
          /\ values' = [values EXCEPT ![at[t]] = Tail(@)]
      BY <1>5, <2>1 DEF Pop, Popped
    <3> QED BY <1>1, <1>2, <2>a, <2>1, <3>1 DEF TypeOK
  <2>2. CASE values[at[t]] = <<>>
    <3>1. /\ pc' = [pc EXCEPT ![t] = "idle"] /\ at' = [at EXCEPT ![t] = "minute"]
          /\ now' = [now EXCEPT ![t] = 0] /\ UNCHANGED <<values, clock, log>> /\ pc[t] = "pop"
      BY <1>5, <2>2 DEF Pop, Return
    <3> QED BY <1>1, <2>a, <3>1 DEF TypeOK
  <2> QED BY <2>1, <2>2
<1> QED BY <1>3, <1>4, <1>5 DEF Loop

(* The interpreter stays the same, and with it the steps of a thread. *)
LEMMA BottomKept == [Next]_vars => bottom' = bottom /\ Steps' = Steps
<1> SUFFICES ASSUME [Next]_vars PROVE bottom' = bottom
  BY DEF Steps
<1> QED BY DEF Next, Allow, Start, Prune, Test, Pop, Refuse, Measure, Add, Tick, vars

LEMMA NextTypeOK == TypeOK /\ [Next]_vars => TypeOK'
<1> SUFFICES ASSUME TypeOK, [Next]_vars PROVE TypeOK'
  OBVIOUS
<1>0. bottom' = bottom /\ Steps' = Steps
  BY BottomKept
<1>1. ASSUME NEW t \in Threads, Start(t) PROVE TypeOK'
  <2>1. clock \in Nat
    BY DEF TypeOK
  <2> QED BY <1>0, <1>1, <2>1, GoOnType DEF Start, TypeOK
<1>2. ASSUME NEW t \in Threads, Loop(t) PROVE TypeOK'
  BY <1>0, <1>2, LoopFacts DEF TypeOK
<1>3. ASSUME NEW t \in Threads, Refuse(t) PROVE TypeOK'
  BY <1>0, <1>3 DEF Refuse, Return, TypeOK, Windows, Steps
<1>4. ASSUME NEW t \in Threads, Measure(t) PROVE TypeOK'
  BY <1>0, <1>4 DEF Measure, TypeOK, Steps
<1>5. ASSUME NEW t \in Threads, Add(t) PROVE TypeOK'
  <2>1. at[t] \in Windows /\ now[t] \in Nat /\ values[at[t]] \in Seq(Nat)
    BY DEF TypeOK
  <2>2. Append(values[at[t]], now[t]) \in Seq(Nat)
    BY <2>1, DequeTypes
  <2>3. values' \in [Windows -> Seq(Nat)]
    BY <1>5, <2>1, <2>2 DEF Add, TypeOK
  <2>4. (IF at[t] = "minute" THEN {"day"} ELSE {}) \in SUBSET Windows
    BY DEF Windows
  <2>5. log' \in [Windows -> Seq(Nat)]
    <3>1. log[at[t]] \in Seq(Nat) /\ Append(log[at[t]], now[t]) \in Seq(Nat)
      BY <2>1, DequeTypes DEF TypeOK
    <3> QED BY <1>5, <2>1, <3>1 DEF Add, TypeOK
  <2>6. GoOn(t, IF at[t] = "minute" THEN {"day"} ELSE {}, now[t]) /\ UNCHANGED clock
    BY <1>5 DEF Add
  <2>7. /\ pc' \in [Threads -> Steps]
        /\ at' \in [Threads -> Windows] /\ now' \in [Threads -> Nat]
    BY <2>1, <2>4, <2>6, GoOnType
  <2> QED BY <1>0, <2>3, <2>5, <2>6, <2>7 DEF TypeOK
<1>6. CASE Tick
  <2>1. clock' \in Nat /\ \A w \in Windows : clock' - Length(w) \in Int
    BY <1>6, WindowTypes DEF Tick, TypeOK
  <2>2. \A w \in Windows : Trimmed(log[w], clock' - Length(w)) \in Seq(Nat)
    BY <2>1, TrimmedFacts DEF TypeOK
  <2> QED BY <1>0, <1>6, <2>1, <2>2 DEF Tick, TypeOK
<1>7. CASE UNCHANGED vars
  BY <1>0, <1>7 DEF vars, TypeOK
<1> QED BY <1>1, <1>2, <1>3, <1>4, <1>5, <1>6, <1>7 DEF Next, Allow, Loop

-------------------------------------------------------------------------------
(* The claims on a window are as many as threads at most. *)
LEMMA PendingBound ==
  \A w \in Windows : /\ IsFiniteSet(Pending(w))
                     /\ Cardinality(Pending(w)) \in Nat
                     /\ Cardinality(Pending(w)) <= Cardinality(Threads)
                     /\ Cardinality(Threads) \in Nat
<1> TAKE w \in Windows
<1>1. Pending(w) \subseteq Threads
  BY DEF Pending
<1> QED BY <1>1, FS_Subset, FS_CardinalityType, RateLimiterAssumption

(* A thread that makes and leaves no claim leaves them all as they are. *)
LEMMA PendingKept ==
  ASSUME NEW t \in Threads, pc[t] # "append", pc'[t] # "append",
         \A u \in Threads \ {t} : pc'[u] = pc[u] /\ at'[u] = at[u],
         NEW w \in Windows
  PROVE  Pending(w)' = Pending(w)
  BY DEF Pending

(* Room(w) is what RoomIsBounded says of one window. *)
Room(w) ==
  Limit(w) # 0 =>
    Len(values[w]) + Cardinality(Pending(w)) <= Limit(w) + Cardinality(Threads) - 1

LEMMA NextRoom == TypeOK /\ RoomIsBounded /\ [Next]_vars => RoomIsBounded'
<1> SUFFICES ASSUME TypeOK, RoomIsBounded, [Next]_vars, NEW w \in Windows
             PROVE  Room(w)'
  BY DEF RoomIsBounded, Room
<1>r. Room(w)
  BY DEF RoomIsBounded, Room
<1>w. Limit(w) \in Nat /\ Limit(w)' = Limit(w) /\ values[w] \in Seq(Nat)
  BY WindowTypes DEF TypeOK, Limit
<1>l. Len(values[w]) \in Nat
  BY <1>w
<1>c. /\ Cardinality(Pending(w)) \in Nat /\ Cardinality(Threads) \in Nat
      /\ IsFiniteSet(Pending(w))
  BY PendingBound
<1>1. ASSUME NEW t \in Threads, Start(t) PROVE Room(w)'
  <2>1. clock \in Nat
    BY DEF TypeOK
  <2>2. Pending(w)' = Pending(w)
    BY <1>1, <2>1, GoOnType, PendingKept DEF Start
  <2> QED BY <1>1, <1>r, <1>w, <2>2 DEF Start, Room
<1>2. ASSUME NEW t \in Threads, Loop(t) PROVE Room(w)'
  <2>1. Pending(w)' = Pending(w)
    <3>1. pc[t] # "append" /\ pc'[t] # "append" /\ \A u \in Threads \ {t} : pc'[u] = pc[u] /\ at'[u] = at[u]
      BY <1>2, LoopFacts
    <3> QED BY <3>1, PendingKept
  <2>2. Len(values[w]') \in Nat /\ Len(values[w]') <= Len(values[w])
    <3>1. CASE values'[w] = values[w]
      BY <3>1, <1>l
    <3>2. CASE values[w] # <<>> /\ values'[w] = Tail(values[w])
      <4>1. Len(Tail(values[w])) = Len(values[w]) - 1 /\ Tail(values[w]) \in Seq(Nat)
        BY <3>2, <1>w, DequeTypes
      <4>2. Len(Tail(values[w])) \in Nat
        BY <4>1, DequeTypes
      <4> QED BY <3>2, <4>1, <4>2, <1>l
    <3> QED BY <1>2, <3>1, <3>2, LoopFacts
  <2> QED BY <1>r, <1>w, <1>l, <1>c, <2>1, <2>2 DEF Room
<1>3. ASSUME NEW t \in Threads, Refuse(t) PROVE Room(w)'
  <2>1. Pending(w)' = Pending(w)
    BY <1>3, PendingKept DEF Refuse, Pruned, Return, TypeOK
  <2> QED BY <1>3, <1>r, <1>w, <2>1 DEF Refuse, Room
<1>4. ASSUME NEW t \in Threads, Measure(t) PROVE Room(w)'
  <2>1. CASE at[t] = w
    <3>1. Len(values[w])' = Len(values[w]) /\ Len(values[w]) < Limit(w)
      BY <1>4, <2>1 DEF Measure
    <3>2. /\ Cardinality(Pending(w)') \in Nat
          /\ Cardinality(Pending(w)') <= Cardinality(Threads)
      <4>1. Pending(w)' \subseteq Threads
        BY DEF Pending
      <4> QED BY <4>1, FS_Subset, FS_CardinalityType, RateLimiterAssumption
    <3> QED BY <1>w, <1>l, <1>c, <3>1, <3>2 DEF Room
  <2>2. CASE at[t] # w
    <3>1. Pending(w)' = Pending(w)
      BY <1>4, <2>2 DEF Measure, Pending, TypeOK
    <3> QED BY <1>4, <1>r, <1>w, <3>1 DEF Measure, Room
  <2> QED BY <2>1, <2>2
<1>5. ASSUME NEW t \in Threads, Add(t) PROVE Room(w)'
  <2>1. at[t] \in Windows /\ now[t] \in Nat
    BY DEF TypeOK
  <2>2. (IF at[t] = "minute" THEN {"day"} ELSE {}) \in SUBSET Windows
    BY DEF Windows
  <2>3. pc'[t] # "append" /\ \A u \in Threads \ {t} : pc'[u] = pc[u] /\ at'[u] = at[u]
    BY <1>5, <2>1, <2>2, GoOnType DEF Add
  <2>4. CASE at[t] = w
    <3>1. t \in Pending(w)
      BY <1>5, <2>4 DEF Add, Pending
    <3>2. Pending(w)' = Pending(w) \ {t}
      BY <2>3 DEF Pending
    <3>3. Cardinality(Pending(w)') = Cardinality(Pending(w)) - 1
      BY <1>c, <3>1, <3>2, FS_RemoveElement
    <3>4. values[w]' = Append(values[w], now[t])
      BY <1>5, <2>4 DEF Add, TypeOK
    <3>5. Len(values[w]') = Len(values[w]) + 1
      BY <1>w, <2>1, <3>4, DequeTypes
    <3> QED BY <1>r, <1>w, <1>l, <1>c, <3>3, <3>5 DEF Room
  <2>5. CASE at[t] # w
    <3>1. Pending(w)' = Pending(w)
      BY <2>3, <2>5 DEF Pending
    <3>2. values[w]' = values[w]
      BY <1>5, <2>5 DEF Add, TypeOK
    <3> QED BY <1>r, <1>w, <3>1, <3>2 DEF Room
  <2> QED BY <2>4, <2>5
<1>6. CASE Tick
  BY <1>6, <1>r, <1>w DEF Tick, Room, Pending
<1>7. CASE UNCHANGED vars
  BY <1>7, <1>r, <1>w DEF vars, Room, Pending
<1> QED BY <1>1, <1>2, <1>3, <1>4, <1>5, <1>6, <1>7 DEF Next, Allow, Loop

-------------------------------------------------------------------------------
(* Counting entries.  Positions of one sequence that map to positions of    *)
(* another by adding a number are not more than those.                      *)
LEMMA Shift ==
  ASSUME NEW P \in SUBSET Int, NEW Q \in SUBSET Int, IsFiniteSet(Q),
         NEW k \in Int, \A i \in P : i + k \in Q
  PROVE  Cardinality(P) <= Cardinality(Q)
<1> DEFINE f == [i \in P |-> i + k]
<1>1. f \in Injection(P, Q)
  BY DEF Injection, IsInjective
<1> QED BY <1>1, FS_Injection

LEMMA SomePositions ==
  ASSUME NEW s \in Seq(Nat), NEW P \in SUBSET (DOMAIN s)
  PROVE  /\ P \in SUBSET Int /\ IsFiniteSet(P)
         /\ Cardinality(P) \in Nat /\ Cardinality(P) <= Len(s)
<1>1. DOMAIN s = 1..Len(s) /\ Len(s) \in Nat
  OBVIOUS
<1>2. IsFiniteSet(1..Len(s)) /\ Cardinality(1..Len(s)) = Len(s)
  <2>1. 1 \in Int /\ Len(s) \in Int /\ Len(s) - 1 + 1 = Len(s)
    BY <1>1
  <2>2. IsFiniteSet(1..Len(s)) /\ Cardinality(1..Len(s)) = (IF 1 > Len(s) THEN 0 ELSE Len(s) - 1 + 1)
    BY <2>1, FS_Interval
  <2> QED BY <1>1, <2>1, <2>2
<1> QED BY <1>1, <1>2, FS_Subset, FS_CardinalityType

LEMMA SubsetCount ==
  ASSUME NEW S, NEW T, IsFiniteSet(T), S \subseteq T
  PROVE  /\ IsFiniteSet(S) /\ Cardinality(S) \in Nat /\ Cardinality(T) \in Nat
         /\ Cardinality(S) <= Cardinality(T)
  BY FS_Subset, FS_CardinalityType

(* The positions of s that hold a number of V. *)
Positions(s, V) == {i \in DOMAIN s : s[i] \in V}

LEMMA PositionsAppend ==
  ASSUME NEW s \in Seq(Nat), NEW x \in Nat, NEW V
  PROVE  /\ Cardinality(Positions(s, V)) \in Nat
         /\ Cardinality(Positions(Append(s, x), V))
              = Cardinality(Positions(s, V)) + (IF x \in V THEN 1 ELSE 0)
<1> DEFINE n == Len(s) + 1
<1>1. /\ DOMAIN Append(s, x) = DOMAIN s \cup {n} /\ n \notin DOMAIN s
      /\ \A i \in DOMAIN s : Append(s, x)[i] = s[i]
      /\ Append(s, x)[n] = x
  OBVIOUS
<1>2. IsFiniteSet(Positions(s, V)) /\ Cardinality(Positions(s, V)) \in Nat
  BY SomePositions DEF Positions
<1>3. CASE x \in V
  <2>1. Positions(Append(s, x), V) = Positions(s, V) \cup {n} /\ n \notin Positions(s, V)
    BY <1>1, <1>3 DEF Positions
  <2> QED BY <1>2, <1>3, <2>1, FS_AddElement
<1>4. CASE x \notin V
  <2>1. Positions(Append(s, x), V) = Positions(s, V)
    BY <1>1, <1>4 DEF Positions
  <2> QED BY <1>2, <1>4, <2>1
<1> QED BY <1>2, <1>3, <1>4

LEMMA TailFacts ==
  ASSUME NEW s \in Seq(Nat), s # <<>>
  PROVE  /\ Tail(s) \in Seq(Nat) /\ 1 \in DOMAIN s /\ s[1] = Head(s)
         /\ \A i \in DOMAIN Tail(s) : i + 1 \in DOMAIN s /\ s[i + 1] = Tail(s)[i]
         /\ \A i \in DOMAIN s : i = 1 \/ (i - 1 \in DOMAIN Tail(s) /\ Tail(s)[i - 1] = s[i])
<1>1. /\ Tail(s) \in Seq(Nat) /\ Len(s) \in Nat \ {0} /\ Len(Tail(s)) = Len(s) - 1
      /\ DOMAIN s = 1..Len(s) /\ DOMAIN Tail(s) = 1..(Len(s) - 1) /\ s[1] = Head(s)
  OBVIOUS
<1>2. \A i \in 1..(Len(s) - 1) : Tail(s)[i] = s[i + 1]
  OBVIOUS
<1>3. \A i \in 1..Len(s) : i = 1 \/ (i - 1 \in 1..(Len(s) - 1) /\ (i - 1) + 1 = i)
  BY <1>1
<1> QED BY <1>1, <1>2, <1>3

LEMMA PositionsTail ==
  ASSUME NEW s \in Seq(Nat), s # <<>>, NEW V, Head(s) \notin V
  PROVE  Cardinality(Positions(s, V)) <= Cardinality(Positions(Tail(s), V))
<1>1. Positions(s, V) \in SUBSET Int
  BY SomePositions DEF Positions
<1>2. Tail(s) \in Seq(Nat)
  BY TailFacts
<1>3. Positions(Tail(s), V) \in SUBSET Int /\ IsFiniteSet(Positions(Tail(s), V))
  BY <1>2, SomePositions DEF Positions
<1>4. ASSUME NEW i \in Positions(s, V) PROVE i + (0 - 1) \in Positions(Tail(s), V)
  <2>1. i \in DOMAIN s /\ i # 1 /\ i + (0 - 1) = i - 1
    BY <1>1, TailFacts DEF Positions
  <2> QED BY <2>1, TailFacts DEF Positions
<1> QED BY <1>1, <1>3, <1>4, Shift

LEMMA PositionsTrimmed ==
  ASSUME NEW s \in Seq(Nat), NEW m \in Int, NEW V
  PROVE  /\ Cardinality(Positions(Trimmed(s, m), V)) \in Nat
         /\ Cardinality(Positions(Trimmed(s, m), V)) <= Cardinality(Positions(s, V))
<1>1. Trimmed(s, m) \in Seq(Nat)
  BY TrimmedFacts
<1>2. PICK k \in Nat : \A i \in DOMAIN Trimmed(s, m) :
                         i + k \in DOMAIN s /\ s[i + k] = Trimmed(s, m)[i]
  BY TrimmedFacts
<1>3. Positions(Trimmed(s, m), V) \in SUBSET Int /\ Cardinality(Positions(Trimmed(s, m), V)) \in Nat
  BY <1>1, SomePositions DEF Positions
<1>4. Positions(s, V) \in SUBSET Int /\ IsFiniteSet(Positions(s, V))
  BY SomePositions DEF Positions
<1>5. \A i \in Positions(Trimmed(s, m), V) : i + k \in Positions(s, V)
  BY <1>2 DEF Positions
<1>6. k \in Int
  BY <1>2
<1>7. Cardinality(Positions(Trimmed(s, m), V)) <= Cardinality(Positions(s, V))
  <2> HIDE DEF Positions
  <2> QED BY <1>3, <1>4, <1>5, <1>6, Shift
<1> QED BY <1>3, <1>7
-------------------------------------------------------------------------------
(* Where a thread goes on to, the others staying where they are. *)
LEMMA GoOnFacts ==
  ASSUME TypeOK, NEW t \in Threads, NEW ws \in SUBSET Windows, NEW n \in Nat,
         GoOn(t, ws, n)
  PROVE  /\ \/ pc'[t] = "idle"
            \/ /\ pc'[t] = "window" /\ now'[t] = n
               /\ at'[t] = FirstOf(ws) /\ FirstOf(ws) \in ws
         /\ now'[t] \in {0, n}
         /\ \A u \in Threads \ {t} : pc'[u] = pc[u] /\ at'[u] = at[u] /\ now'[u] = now[u]
  BY DEF GoOn, Return, TypeOK

LEMMA AddFacts ==
  ASSUME TypeOK, NEW t \in Threads, Add(t)
  PROVE  /\ at[t] \in Windows /\ now[t] \in Nat /\ pc[t] = "append"
         /\ pc'[t] = "idle" \/ /\ pc'[t] = "window" /\ now'[t] = now[t]
                               /\ at[t] = "minute" /\ at'[t] = "day"
         /\ now'[t] \in {0, now[t]} /\ clock' = clock
         /\ \A u \in Threads \ {t} : pc'[u] = pc[u] /\ at'[u] = at[u] /\ now'[u] = now[u]
         /\ \A w \in Windows :
              /\ values[w] \in Seq(Nat) /\ log[w] \in Seq(Nat)
              /\ w = at[t] => /\ values'[w] = Append(values[w], now[t])
                              /\ log'[w] = Append(log[w], now[t])
              /\ w # at[t] => values'[w] = values[w] /\ log'[w] = log[w]
<1> DEFINE ws == IF at[t] = "minute" THEN {"day"} ELSE {}
<1>1. at[t] \in Windows /\ now[t] \in Nat /\ ws \in SUBSET Windows
  BY DEF TypeOK, Windows
<1>2. GoOn(t, ws, now[t])
  BY DEF Add
<1>3. /\ \/ pc'[t] = "idle"
         \/ /\ pc'[t] = "window" /\ now'[t] = now[t]
            /\ at'[t] = FirstOf(ws) /\ FirstOf(ws) \in ws
      /\ now'[t] \in {0, now[t]}
      /\ \A u \in Threads \ {t} : pc'[u] = pc[u] /\ at'[u] = at[u] /\ now'[u] = now[u]
  <2> HIDE DEF ws
  <2> QED BY <1>1, <1>2, GoOnFacts
<1>4. FirstOf(ws) \in ws => at[t] = "minute" /\ FirstOf(ws) = "day"
  BY DEF FirstOf
<1>5. \A w \in Windows :
        /\ values[w] \in Seq(Nat) /\ log[w] \in Seq(Nat)
        /\ w = at[t] => /\ values'[w] = Append(values[w], now[t])
                        /\ log'[w] = Append(log[w], now[t])
        /\ w # at[t] => values'[w] = values[w] /\ log'[w] = log[w]
  BY DEF Add, TypeOK
<1>6. pc[t] = "append" /\ clock' = clock
  BY DEF Add
<1> QED BY <1>1, <1>3, <1>4, <1>5, <1>6

(* Without a thread switch between a test and its popleft(), what a step of *)
(* the loop removes is out of the window.                                   *)
LEMMA PruneFacts ==
  ASSUME TypeOK, NEW t \in Threads, Loop(t), ~bottom
  PROVE  /\ \A w \in Windows :
              /\ values[w] \in Seq(Nat)
              /\ w = at[t] => /\ values[w] # <<>> /\ values'[w] = Tail(values[w])
                              /\ Head(values[w]) <= now[t] - Length(w)
              /\ w # at[t] => values'[w] = values[w]
         /\ UNCHANGED <<clock, pc, at, now, log>>
<1>1. pc[t] \in {"idle", "window", "append"}
  BY DEF TypeOK, Steps
<1>2. Prune(t)
  BY <1>1 DEF Loop, Test, Pop
<1> QED BY <1>2 DEF Prune, Popped, Stale, TypeOK

(* No reading of the clock is ahead of it. *)
NoneAhead ==
  /\ \A t \in Threads : now[t] <= clock
  /\ \A w \in Windows : \A i \in DOMAIN values[w] : values[w][i] <= clock

LEMMA NextNoneAhead == TypeOK /\ NoneAhead /\ [Next]_vars => NoneAhead'
<1> SUFFICES ASSUME TypeOK, NoneAhead, [Next]_vars PROVE NoneAhead'
  OBVIOUS
<1>t. clock \in Nat /\ \A t \in Threads : now[t] \in Nat
  BY DEF TypeOK
<1>1. ASSUME NEW t \in Threads, Start(t) PROVE NoneAhead'
  <2>1. GoOn(t, Windows, clock) /\ Windows \in SUBSET Windows /\ UNCHANGED <<clock, values>>
    BY <1>1 DEF Start
  <2>2. now'[t] \in {0, clock} /\ \A u \in Threads \ {t} : now'[u] = now[u]
    BY <1>t, <2>1, GoOnFacts
  <2> QED BY <1>t, <2>1, <2>2 DEF NoneAhead
<1>2. ASSUME NEW t \in Threads, Loop(t) PROVE NoneAhead'
  <2>1. clock' = clock /\ \A u \in Threads : now'[u] \in {0, now[u]}
    BY <1>2, LoopFacts
  <2>2. ASSUME NEW w \in Windows, NEW i \in DOMAIN values'[w] PROVE values'[w][i] <= clock
    <3>1. CASE values'[w] = values[w]
      BY <2>2, <3>1 DEF NoneAhead
    <3>2. CASE values[w] # <<>> /\ values'[w] = Tail(values[w])
      <4>1. values[w] \in Seq(Nat)
        BY DEF TypeOK
      <4>2. i + 1 \in DOMAIN values[w] /\ values[w][i + 1] = values'[w][i]
        BY <2>2, <3>2, <4>1, TailFacts
      <4> QED BY <4>2 DEF NoneAhead
    <3> QED BY <1>2, <3>1, <3>2, LoopFacts
  <2>3. \A u \in Threads : now'[u] <= clock'
    BY <1>t, <2>1 DEF NoneAhead
  <2> QED BY <2>1, <2>2, <2>3 DEF NoneAhead
<1>3. ASSUME NEW t \in Threads, Refuse(t) PROVE NoneAhead'
  <2>1. UNCHANGED <<clock, values>> /\ \A u \in Threads : now'[u] \in {0, now[u]}
    BY <1>3 DEF Refuse, Return, TypeOK
  <2> QED BY <1>t, <2>1 DEF NoneAhead
<1>4. ASSUME NEW t \in Threads, Add(t) PROVE NoneAhead'
  <2>1. clock' = clock /\ \A u \in Threads : now'[u] \in {0, now[u]}
    BY <1>4, AddFacts
  <2>2. ASSUME NEW w \in Windows, NEW i \in DOMAIN values'[w] PROVE values'[w][i] <= clock
    <3>1. CASE w = at[t]
      <4>1. values[w] \in Seq(Nat) /\ now[t] \in Nat /\ values'[w] = Append(values[w], now[t])
        BY <1>4, <3>1, AddFacts
      <4>2. values'[w][i] = now[t] \/ (i \in DOMAIN values[w] /\ values'[w][i] = values[w][i])
        BY <2>2, <4>1
      <4> QED BY <4>2 DEF NoneAhead
    <3>2. CASE w # at[t]
      BY <1>4, <2>2, <3>2, AddFacts DEF NoneAhead
    <3> QED BY <3>1, <3>2
  <2>3. \A u \in Threads : now'[u] <= clock'
    BY <1>t, <2>1 DEF NoneAhead
  <2> QED BY <2>1, <2>2, <2>3 DEF NoneAhead
<1>5. CASE Tick
  <2>1. clock' = clock + 1 /\ UNCHANGED <<values, now>>
    BY <1>5 DEF Tick
  <2>2. \A w \in Windows : \A i \in DOMAIN values[w] : values[w][i] \in Nat
    BY DEF TypeOK
  <2> QED BY <1>t, <2>1, <2>2 DEF NoneAhead
<1>6. ASSUME UNCHANGED <<clock, values, now>> PROVE NoneAhead'
  BY <1>6 DEF NoneAhead
<1> QED BY <1>1, <1>2, <1>3, <1>4, <1>5, <1>6 DEF Next, Allow, Loop, Measure, vars
-------------------------------------------------------------------------------
(* Where a test and its popleft() are one step, pruning takes away nothing  *)
(* that is in the window by the clock: what was admitted later than a       *)
(* moment of the window is still in its deque.                              *)
Later(m) == {x \in Nat : x > m}

LEMMA AfterPositions ==
  ASSUME NEW s \in Seq(Nat), NEW m \in Int
  PROVE  After(s, m) = Positions(s, Later(m))
  BY DEF After, Positions, Later

Admitted(w, V) == Cardinality(Positions(log[w], V)) <= Cardinality(Positions(values[w], V))

Held == \A w \in Windows : \A m \in Int : m >= clock - Length(w) => Admitted(w, Later(m))

LEMMA NextHeld == ~bottom /\ TypeOK /\ NoneAhead /\ Held /\ [Next]_vars => Held'
<1> SUFFICES ASSUME ~bottom, TypeOK, NoneAhead, Held, [Next]_vars,
                    NEW w \in Windows, NEW m \in Int, m >= clock' - Length(w)
             PROVE  Admitted(w, Later(m))'
  BY DEF Held, Length
<1>t. clock \in Nat /\ Length(w) \in Nat /\ values[w] \in Seq(Nat) /\ log[w] \in Seq(Nat)
  BY WindowTypes DEF TypeOK
<1>c. clock' \in Nat
  BY NextTypeOK DEF TypeOK
<1>h. ASSUME clock' >= clock PROVE Admitted(w, Later(m))
  <2>1. m >= clock - Length(w)
    BY <1>t, <1>c, <1>h
  <2> QED BY <2>1 DEF Held
<1>s. ASSUME UNCHANGED <<clock, values, log>> PROVE Admitted(w, Later(m))'
  BY <1>t, <1>h, <1>s DEF Admitted, Positions
<1>1. ASSUME NEW t \in Threads, Loop(t) PROVE Admitted(w, Later(m))'
  <2>1. clock' = clock /\ log' = log /\ now[t] <= clock /\ now[t] \in Nat
    BY <1>1, PruneFacts DEF NoneAhead, TypeOK
  <2>2. CASE w = at[t]
    <3>1. values[w] # <<>> /\ values'[w] = Tail(values[w]) /\ Head(values[w]) <= now[t] - Length(w)
      BY <1>1, <2>2, PruneFacts
    <3>2. Head(values[w]) \in Nat
      BY <1>t, <3>1
    <3>3. Head(values[w]) \notin Later(m)
      BY <1>t, <2>1, <3>1, <3>2 DEF Later
    <3>4. Cardinality(Positions(values[w], Later(m))) <= Cardinality(Positions(Tail(values[w]), Later(m)))
      BY <1>t, <3>1, <3>3, PositionsTail
    <3>5. /\ Cardinality(Positions(values[w], Later(m))) \in Nat
          /\ Cardinality(Positions(Tail(values[w]), Later(m))) \in Nat
          /\ Cardinality(Positions(log[w], Later(m))) \in Nat
      BY <1>t, <3>1, TailFacts, SomePositions DEF Positions
    <3>6. Cardinality(Positions(log[w], Later(m))) <= Cardinality(Positions(values[w], Later(m)))
      BY <1>t, <1>h, <2>1 DEF Admitted
    <3>7. Cardinality(Positions(log[w], Later(m))) <= Cardinality(Positions(Tail(values[w]), Later(m)))
      BY <3>4, <3>5, <3>6
    <3> QED BY <2>1, <3>1, <3>7 DEF Admitted, Positions, Later
  <2>3. CASE w # at[t]
    <3>1. values'[w] = values[w]
      BY <1>1, <2>3, PruneFacts
    <3> QED BY <1>t, <1>h, <2>1, <3>1 DEF Admitted, Positions, Later
  <2> QED BY <2>2, <2>3
<1>2. ASSUME NEW t \in Threads, Add(t) PROVE Admitted(w, Later(m))'
  <2>1. clock' = clock /\ now[t] \in Nat
    BY <1>2, AddFacts
  <2>a. Cardinality(Positions(log[w], Later(m))) <= Cardinality(Positions(values[w], Later(m)))
    BY <1>t, <1>h, <2>1 DEF Admitted
  <2>2. CASE w = at[t]
    <3>1. values'[w] = Append(values[w], now[t]) /\ log'[w] = Append(log[w], now[t])
      BY <1>2, <2>2, AddFacts
    <3>2. /\ Cardinality(Positions(values[w], Later(m))) \in Nat
          /\ Cardinality(Positions(Append(values[w], now[t]), Later(m)))
               = Cardinality(Positions(values[w], Later(m))) + (IF now[t] \in Later(m) THEN 1 ELSE 0)
      BY <1>t, <2>1, PositionsAppend
    <3>3. /\ Cardinality(Positions(log[w], Later(m))) \in Nat
          /\ Cardinality(Positions(Append(log[w], now[t]), Later(m)))
               = Cardinality(Positions(log[w], Later(m))) + (IF now[t] \in Later(m) THEN 1 ELSE 0)
      BY <1>t, <2>1, PositionsAppend
    <3>4. Cardinality(Positions(Append(log[w], now[t]), Later(m)))
            <= Cardinality(Positions(Append(values[w], now[t]), Later(m)))
      BY <2>a, <3>2, <3>3
    <3> QED BY <3>1, <3>4 DEF Admitted, Positions, Later
  <2>3. CASE w # at[t]
    <3>1. values'[w] = values[w] /\ log'[w] = log[w]
      BY <1>2, <2>3, AddFacts
    <3> QED BY <2>a, <3>1 DEF Admitted, Positions, Later
  <2> QED BY <2>2, <2>3
<1>3. CASE Tick
  <2> DEFINE c == clock' - Length(w)
  <2>1. c \in Int /\ clock' = clock + 1 /\ values' = values /\ log'[w] = Trimmed(log[w], c)
    BY <1>3, <1>t DEF Tick, Length
  <2>2. Cardinality(Positions(log[w], Later(m))) <= Cardinality(Positions(values[w], Later(m)))
    BY <1>t, <1>h, <2>1 DEF Admitted
  <2>3. /\ Cardinality(Positions(Trimmed(log[w], c), Later(m))) \in Nat
        /\ Cardinality(Positions(Trimmed(log[w], c), Later(m))) <= Cardinality(Positions(log[w], Later(m)))
    BY <1>t, <2>1, PositionsTrimmed
  <2>4. Cardinality(Positions(log[w], Later(m))) \in Nat /\ Cardinality(Positions(values[w], Later(m))) \in Nat
    BY <1>t, SomePositions DEF Positions
  <2>5. Cardinality(Positions(Trimmed(log[w], c), Later(m))) <= Cardinality(Positions(values[w], Later(m)))
    BY <2>2, <2>3, <2>4
  <2> QED BY <2>1, <2>5 DEF Admitted, Positions, Later
<1> QED BY <1>s, <1>1, <1>2, <1>3 DEF Next, Allow, Loop, Start, Refuse, Measure, vars

-------------------------------------------------------------------------------
(* Whoever is on the way to the day has an entry of its own in the minute,  *)
(* and so has every admission of the day, as long as the minute lasts.      *)
Going(v) == {t \in Threads : pc[t] # "idle" /\ at[t] = "day" /\ now[t] = v}

BothHold(v) ==
  Cardinality(Positions(log["day"], {v})) + Cardinality(Going(v))
    <= Cardinality(Positions(values["minute"], {v}))

Both == PerMinute # 0 => \A v \in Nat : v > clock - Minute => BothHold(v)

LEMMA GoingCount ==
  \A v : IsFiniteSet(Going(v)) /\ Cardinality(Going(v)) \in Nat
  BY SubsetCount, RateLimiterAssumption DEF Going

(* A step after which no one else is on the way, and no entry is gone.      *)
LEMMA FewerGoing ==
  ASSUME TypeOK, NEW v \in Nat, BothHold(v), Going(v)' \subseteq Going(v),
         NEW s \in Seq(Nat), log'["day"] = s,
         Cardinality(Positions(s, {v})) <= Cardinality(Positions(log["day"], {v})),
         values'["minute"] = values["minute"]
  PROVE  BothHold(v)'
<1>1. Cardinality(Going(v)') <= Cardinality(Going(v)) /\ Cardinality(Going(v)') \in Nat
      /\ Cardinality(Going(v)) \in Nat
  BY GoingCount, SubsetCount
<1>2. log["day"] \in Seq(Nat) /\ values["minute"] \in Seq(Nat)
  BY DEF TypeOK, Windows
<1>3. /\ Cardinality(Positions(s, {v})) \in Nat /\ Cardinality(Positions(log["day"], {v})) \in Nat
      /\ Cardinality(Positions(values["minute"], {v})) \in Nat
  BY <1>2, SomePositions DEF Positions
<1>4. Positions(log["day"], {v})' = Positions(s, {v})
      /\ Positions(values["minute"], {v})' = Positions(values["minute"], {v})
  BY DEF Positions
<1> QED BY <1>1, <1>3, <1>4 DEF BothHold

LEMMA NextBoth == ~bottom /\ TypeOK /\ NoneAhead /\ Both /\ [Next]_vars => Both'
<1> SUFFICES ASSUME ~bottom, TypeOK, NoneAhead, Both, [Next]_vars, PerMinute # 0,
                    NEW v \in Nat, v > clock' - Minute
             PROVE  BothHold(v)'
  BY DEF Both
<1>c. clock' \in Nat /\ clock \in Nat /\ Minute \in Nat
  BY NextTypeOK, RateLimiterAssumption DEF TypeOK
<1>w. "minute" \in Windows /\ "day" \in Windows /\ Windows \in SUBSET Windows /\ Length("minute") = Minute
  BY DEF Windows, Length
<1>t. values["minute"] \in Seq(Nat) /\ log["day"] \in Seq(Nat)
  BY <1>w DEF TypeOK
<1>h. ASSUME clock' >= clock PROVE BothHold(v)
  <2>1. \A a, b, m \in Nat : v > b - m /\ b >= a => v > a - m
    OBVIOUS
  <2>2. v > clock - Minute
    BY <1>c, <1>h, <2>1
  <2> QED BY <2>2 DEF Both
<1>e. ASSUME clock' >= clock, UNCHANGED values, log'["day"] = log["day"], Going(v)' \subseteq Going(v)
      PROVE  BothHold(v)'
  <2>1. Cardinality(Positions(log["day"], {v})) <= Cardinality(Positions(log["day"], {v}))
    BY <1>t, SomePositions DEF Positions
  <2> QED BY <1>t, <1>h, <1>e, <2>1, FewerGoing
<1>n. /\ Cardinality(Positions(values["minute"], {v})) \in Nat
      /\ Cardinality(Positions(log["day"], {v})) \in Nat
      /\ IsFiniteSet(Going(v)) /\ Cardinality(Going(v)) \in Nat
  BY <1>t, SomePositions, GoingCount DEF Positions
<1>1. ASSUME NEW t \in Threads, Start(t) PROVE BothHold(v)'
  <2>1. GoOn(t, Windows, clock) /\ UNCHANGED <<clock, values, log>>
    BY <1>1 DEF Start
  <2>2. /\ pc'[t] = "idle" \/ at'[t] = FirstOf(Windows)
        /\ \A u \in Threads \ {t} : pc'[u] = pc[u] /\ at'[u] = at[u] /\ now'[u] = now[u]
    BY <1>c, <1>w, <2>1, GoOnFacts
  <2>3. FirstOf(Windows) = "minute"
    BY <1>w DEF FirstOf
  <2>4. Going(v)' \subseteq Going(v)
    BY <2>2, <2>3 DEF Going
  <2> QED BY <1>c, <1>e, <2>1, <2>4
<1>2. ASSUME NEW t \in Threads, Loop(t) PROVE BothHold(v)'
  <2>1. UNCHANGED <<clock, pc, at, now, log>> /\ now[t] <= clock /\ now[t] \in Nat
    BY <1>2, PruneFacts DEF NoneAhead, TypeOK
  <2>2. CASE at[t] = "minute"
    <3>1. /\ values["minute"] # <<>> /\ values'["minute"] = Tail(values["minute"])
          /\ Head(values["minute"]) <= now[t] - Minute
      BY <1>2, <1>w, <2>2, PruneFacts
    <3>2. Head(values["minute"]) \in Nat
      BY <1>t, <3>1
    <3>3. Head(values["minute"]) \notin {v}
      BY <1>c, <2>1, <3>1, <3>2
    <3>4. Cardinality(Positions(values["minute"], {v})) <= Cardinality(Positions(Tail(values["minute"]), {v}))
      BY <1>t, <3>1, <3>3, PositionsTail
    <3>5. Cardinality(Positions(Tail(values["minute"]), {v})) \in Nat
      BY <1>t, <3>1, TailFacts, SomePositions DEF Positions
    <3>6. BothHold(v)
      BY <1>c, <1>h, <2>1
    <3>7. /\ Positions(values["minute"], {v})' = Positions(Tail(values["minute"]), {v})
          /\ Positions(log["day"], {v})' = Positions(log["day"], {v}) /\ Going(v)' = Going(v)
      BY <2>1, <3>1 DEF Positions, Going
    <3> QED BY <1>n, <3>4, <3>5, <3>6, <3>7 DEF BothHold
  <2>3. CASE at[t] # "minute"
    <3>1. values'["minute"] = values["minute"]
      BY <1>2, <1>w, <2>3, PruneFacts
    <3>2. /\ Positions(values["minute"], {v})' = Positions(values["minute"], {v})
          /\ Positions(log["day"], {v})' = Positions(log["day"], {v}) /\ Going(v)' = Going(v)
      BY <2>1, <3>1 DEF Positions, Going
    <3> QED BY <1>c, <1>h, <2>1, <3>2 DEF BothHold
  <2> QED BY <2>2, <2>3
<1>3. ASSUME NEW t \in Threads, Refuse(t) \/ Measure(t) PROVE BothHold(v)'
  <2>1. UNCHANGED <<clock, values, log>> /\ Going(v)' \subseteq Going(v)
    BY <1>3 DEF Refuse, Measure, Pruned, Return, Going, TypeOK
  <2> QED BY <1>c, <1>e, <2>1
<1>4. ASSUME NEW t \in Threads, Add(t) PROVE BothHold(v)'
  <2>1. /\ at[t] \in Windows /\ now[t] \in Nat /\ pc[t] = "append" /\ clock' = clock
        /\ \A u \in Threads \ {t} : pc'[u] = pc[u] /\ at'[u] = at[u] /\ now'[u] = now[u]
        /\ pc'[t] = "idle" \/ /\ pc'[t] = "window" /\ now'[t] = now[t]
                              /\ at[t] = "minute" /\ at'[t] = "day"
    BY <1>4, AddFacts
  <2>2. BothHold(v)
    BY <1>c, <1>h, <2>1
  <2>3. CASE at[t] = "minute"
    <3>1. values'["minute"] = Append(values["minute"], now[t]) /\ log'["day"] = log["day"]
      BY <1>4, <1>w, <2>3, AddFacts
    <3>2. /\ Cardinality(Positions(Append(values["minute"], now[t]), {v}))
               = Cardinality(Positions(values["minute"], {v})) + (IF now[t] \in {v} THEN 1 ELSE 0)
      BY <1>t, <2>1, PositionsAppend
    <3>3. /\ Positions(values["minute"], {v})' = Positions(Append(values["minute"], now[t]), {v})
          /\ Positions(log["day"], {v})' = Positions(log["day"], {v})
      BY <3>1 DEF Positions
    <3>4. CASE now[t] = v
      <4>1. Going(v)' \subseteq Going(v) \cup {t} /\ t \notin Going(v)
        BY <2>1, <2>3 DEF Going
      <4>2. Cardinality(Going(v) \cup {t}) = Cardinality(Going(v)) + 1 /\ IsFiniteSet(Going(v) \cup {t})
        BY <1>n, <4>1, FS_AddElement
      <4>3. Cardinality(Going(v)') \in Nat /\ Cardinality(Going(v)') <= Cardinality(Going(v)) + 1
        BY <4>1, <4>2, SubsetCount
      <4> QED BY <1>n, <2>2, <3>2, <3>3, <3>4, <4>3 DEF BothHold
    <3>5. CASE now[t] # v
      <4>1. Going(v)' \subseteq Going(v)
        BY <2>1, <3>5 DEF Going
      <4>2. Cardinality(Going(v)') \in Nat /\ Cardinality(Going(v)') <= Cardinality(Going(v))
        BY <1>n, <4>1, SubsetCount
      <4> QED BY <1>n, <2>2, <3>2, <3>3, <3>5, <4>2 DEF BothHold
    <3> QED BY <3>4, <3>5
  <2>4. CASE at[t] = "day"
    <3>1. log'["day"] = Append(log["day"], now[t]) /\ values'["minute"] = values["minute"]
      BY <1>4, <1>w, <2>4, AddFacts
    <3>2. Cardinality(Positions(Append(log["day"], now[t]), {v}))
            = Cardinality(Positions(log["day"], {v})) + (IF now[t] \in {v} THEN 1 ELSE 0)
      BY <1>t, <2>1, PositionsAppend
    <3>3. /\ Positions(log["day"], {v})' = Positions(Append(log["day"], now[t]), {v})
          /\ Positions(values["minute"], {v})' = Positions(values["minute"], {v})
      BY <3>1 DEF Positions
    <3>4. Going(v)' = Going(v) \ {t} /\ (t \in Going(v) <=> now[t] = v)
      BY <2>1, <2>4 DEF Going
    <3>5. Cardinality(Going(v)') = Cardinality(Going(v)) - (IF now[t] \in {v} THEN 1 ELSE 0)
      <4>1. CASE now[t] = v
        BY <1>n, <3>4, <4>1, FS_RemoveElement
      <4>2. CASE now[t] # v
        <5>1. Going(v)' = Going(v)
          BY <3>4, <4>2
        <5> QED BY <1>n, <4>2, <5>1
      <4> QED BY <4>1, <4>2
    <3> QED BY <1>n, <2>2, <3>2, <3>3, <3>5 DEF BothHold
  <2> QED BY <2>1, <2>3, <2>4 DEF Windows
<1>5. CASE Tick
  <2> DEFINE c == clock' - Length("day")
  <2>1. c \in Int
    BY <1>c, <1>w, WindowTypes
  <2>2. clock' = clock + 1 /\ UNCHANGED <<values, pc, at, now>> /\ log'["day"] = Trimmed(log["day"], c)
    BY <1>5, <1>w DEF Tick, Length
  <2>3. Cardinality(Positions(Trimmed(log["day"], c), {v})) <= Cardinality(Positions(log["day"], {v}))
    BY <1>t, <2>1, PositionsTrimmed
  <2>4. Trimmed(log["day"], c) \in Seq(Nat)
    BY <1>t, <2>1, TrimmedFacts
  <2>5. Going(v)' \subseteq Going(v)
    BY <2>2 DEF Going
  <2>6. BothHold(v)
    BY <1>c, <1>h, <2>2
  <2> HIDE DEF c
  <2> QED BY <2>2, <2>3, <2>4, <2>5, <2>6, FewerGoing
<1>6. CASE UNCHANGED vars
  <2>1. UNCHANGED <<clock, values, log>> /\ Going(v)' \subseteq Going(v)
    BY <1>6 DEF vars, Going
  <2> QED BY <1>c, <1>e, <2>1
<1> QED BY <1>1, <1>2, <1>3, <1>4, <1>5, <1>6 DEF Next, Allow, Loop

-------------------------------------------------------------------------------
(* Entries behind a later one, which pruning from the front does not reach.  *)
(* Each is of another thread, that read the clock before the later one did  *)
(* and appended after it; a thread that may still do so is slow.            *)
Behind(s, i) == {j \in DOMAIN s : j > i /\ s[j] < s[i]}

ToAdd(t, w) == pc[t] # "idle" /\ (at[t] = w \/ (at[t] = "minute" /\ w = "day"))
Slow(w, x) == {t \in Threads : ToAdd(t, w) /\ now[t] < x}

LateAt(s, i, slow) == Cardinality(Behind(s, i)) + Cardinality(slow) <= Cardinality(Threads) - 1

Late == \A w \in Windows : \A i \in DOMAIN values[w] :
          LateAt(values[w], i, Slow(w, values[w][i]))

LEMMA LateCounts ==
  /\ Cardinality(Threads) \in Nat
  /\ \A slow \in SUBSET Threads : IsFiniteSet(slow) /\ Cardinality(slow) \in Nat
  /\ \A s \in Seq(Nat) : \A i \in DOMAIN s :
       IsFiniteSet(Behind(s, i)) /\ Cardinality(Behind(s, i)) \in Nat
<1>1. \A s \in Seq(Nat) : \A i \in DOMAIN s : Behind(s, i) \in SUBSET (DOMAIN s)
  BY DEF Behind
<1>2. \A s \in Seq(Nat) : \A i \in DOMAIN s :
        IsFiniteSet(Behind(s, i)) /\ Cardinality(Behind(s, i)) \in Nat
  BY <1>1, SomePositions
<1> QED BY <1>2, SubsetCount, RateLimiterAssumption

(* With fewer slow threads it holds all the more. *)
LEMMA FewerSlow ==
  ASSUME NEW s \in Seq(Nat), NEW i \in DOMAIN s, NEW old \in SUBSET Threads,
         NEW new \in SUBSET old, LateAt(s, i, old)
  PROVE  LateAt(s, i, new)
<1>1. /\ Cardinality(Threads) \in Nat /\ Cardinality(Behind(s, i)) \in Nat
      /\ IsFiniteSet(old) /\ Cardinality(old) \in Nat
  BY LateCounts
<1>2. Cardinality(new) \in Nat /\ Cardinality(new) <= Cardinality(old)
  BY <1>1, SubsetCount
<1> QED BY <1>1, <1>2 DEF LateAt

LEMMA LateTail ==
  ASSUME NEW s \in Seq(Nat), s # <<>>, NEW i \in DOMAIN Tail(s),
         NEW slow \in SUBSET Threads, LateAt(s, i + 1, slow)
  PROVE  LateAt(Tail(s), i, slow)
<1>1. Tail(s) \in Seq(Nat) /\ i \in Int /\ i + 1 \in DOMAIN s /\ s[i + 1] = Tail(s)[i]
  BY TailFacts
<1>2. Behind(Tail(s), i) \in SUBSET Int /\ Behind(s, i + 1) \in SUBSET Int
  BY <1>1, SomePositions DEF Behind
<1>3. \A j \in Behind(Tail(s), i) : j + 1 \in Behind(s, i + 1)
  BY <1>1, <1>2, TailFacts DEF Behind
<1>4. /\ IsFiniteSet(Behind(s, i + 1)) /\ Cardinality(Behind(s, i + 1)) \in Nat
      /\ Cardinality(Behind(Tail(s), i)) \in Nat
      /\ Cardinality(Threads) \in Nat /\ Cardinality(slow) \in Nat
  BY <1>1, LateCounts
<1>5. Cardinality(Behind(Tail(s), i)) <= Cardinality(Behind(s, i + 1))
  <2> DEFINE P == Behind(Tail(s), i)
             Q == Behind(s, i + 1)
  <2>1. P \in SUBSET Int /\ Q \in SUBSET Int /\ IsFiniteSet(Q) /\ \A j \in P : j + 1 \in Q
    BY <1>2, <1>3, <1>4
  <2> HIDE DEF P, Q
  <2>2. 1 \in Int
    OBVIOUS
  <2>3. Cardinality(P) <= Cardinality(Q)
    BY <2>1, <2>2, Shift
  <2> QED BY <2>3 DEF P, Q
<1> QED BY <1>4, <1>5 DEF LateAt

(* A late append adds an entry behind a later one, and its thread is slow   *)
(* no more.                                                                 *)
LEMMA LateAppend ==
  ASSUME NEW s \in Seq(Nat), NEW x \in Nat, NEW t \in Threads,
         NEW i \in DOMAIN s, NEW slow \in SUBSET Threads, LateAt(s, i, slow),
         t \in slow <=> x < s[i]
  PROVE  LateAt(Append(s, x), i, slow \ {t})
<1> DEFINE n == Len(s) + 1
<1>1. /\ DOMAIN Append(s, x) = DOMAIN s \cup {n} /\ n \notin DOMAIN s /\ n > i
      /\ \A j \in DOMAIN s : Append(s, x)[j] = s[j]
      /\ Append(s, x)[n] = x
  OBVIOUS
<1>2. /\ IsFiniteSet(Behind(s, i)) /\ Cardinality(Behind(s, i)) \in Nat
      /\ IsFiniteSet(slow) /\ Cardinality(slow) \in Nat /\ Cardinality(Threads) \in Nat
  BY LateCounts
<1>3. CASE x < s[i]
  <2>1. Behind(Append(s, x), i) = Behind(s, i) \cup {n} /\ n \notin Behind(s, i)
    BY <1>1, <1>3 DEF Behind
  <2>2. Cardinality(Behind(Append(s, x), i)) = Cardinality(Behind(s, i)) + 1
    BY <1>2, <2>1, FS_AddElement
  <2>3. Cardinality(slow \ {t}) = Cardinality(slow) - 1
    BY <1>2, <1>3, FS_RemoveElement
  <2> QED BY <1>2, <2>2, <2>3 DEF LateAt
<1>4. CASE ~(x < s[i])
  <2>1. Behind(Append(s, x), i) = Behind(s, i)
    BY <1>1, <1>4 DEF Behind
  <2>2. slow \ {t} = slow
    BY <1>4
  <2> QED BY <2>1, <2>2 DEF LateAt
<1> QED BY <1>3, <1>4

(* Nothing is behind the newest entry, and its own thread is not slow. *)
LEMMA LateNewest ==
  ASSUME NEW s \in Seq(Nat), NEW x \in Nat, NEW t \in Threads, NEW slow \in SUBSET (Threads \ {t})
  PROVE  LateAt(Append(s, x), Len(s) + 1, slow)
<1>1. Behind(Append(s, x), Len(s) + 1) = {}
  BY DEF Behind
<1>2. IsFiniteSet(Threads) /\ Cardinality(Threads) \in Nat
  BY LateCounts, RateLimiterAssumption
<1>3. Cardinality(Threads \ {t}) = Cardinality(Threads) - 1 /\ IsFiniteSet(Threads \ {t})
  BY <1>2, FS_RemoveElement
<1>4. Cardinality(slow) \in Nat /\ Cardinality(slow) <= Cardinality(Threads) - 1
  BY <1>3, SubsetCount
<1>5. Cardinality(Behind(Append(s, x), Len(s) + 1)) = 0
  BY <1>1, FS_EmptySet
<1> QED BY <1>2, <1>4, <1>5 DEF LateAt

LEMMA NextLate == TypeOK /\ NoneAhead /\ Late /\ [Next]_vars => Late'
<1> SUFFICES ASSUME TypeOK, NoneAhead, Late, [Next]_vars PROVE Late'
  OBVIOUS
<1> DEFINE Still(w, x) == {u \in Threads : /\ pc'[u] # "idle"
                                           /\ at'[u] = w \/ (at'[u] = "minute" /\ w = "day")
                                           /\ now'[u] < x}
<1>e. ASSUME \A w \in Windows : \A i \in DOMAIN values'[w] :
               LateAt(values'[w], i, Still(w, values'[w][i]))
      PROVE  Late'
  BY <1>e DEF Late, LateAt, Slow, ToAdd, Behind
<1>t. /\ clock \in Nat /\ \A w \in Windows : values[w] \in Seq(Nat)
      /\ \A w \in Windows : \A i \in DOMAIN values[w] : values[w][i] \in Nat
      /\ \A u \in Threads : now[u] \in Nat
  BY DEF TypeOK
<1>s. ASSUME NEW w \in Windows, values'[w] = values[w],
             \A i \in DOMAIN values[w] : Still(w, values[w][i]) \subseteq Slow(w, values[w][i])
      PROVE  \A i \in DOMAIN values'[w] : LateAt(values'[w], i, Still(w, values'[w][i]))
  <2> SUFFICES ASSUME NEW i \in DOMAIN values[w]
               PROVE  LateAt(values[w], i, Still(w, values[w][i]))
    BY <1>s
  <2>1. LateAt(values[w], i, Slow(w, values[w][i])) /\ Slow(w, values[w][i]) \in SUBSET Threads
    BY DEF Late, Slow
  <2>2. Still(w, values[w][i]) \in SUBSET Slow(w, values[w][i])
    BY <1>s
  <2> HIDE DEF Still
  <2> QED BY <1>t, <2>1, <2>2, FewerSlow
<1>1. ASSUME NEW t \in Threads, Start(t) PROVE Late'
  <2>1. GoOn(t, Windows, clock) /\ Windows \in SUBSET Windows /\ UNCHANGED <<clock, values, log>>
    BY <1>1 DEF Start
  <2>2. /\ pc'[t] = "idle" \/ now'[t] = clock
        /\ \A u \in Threads \ {t} : pc'[u] = pc[u] /\ at'[u] = at[u] /\ now'[u] = now[u]
    BY <1>t, <2>1, GoOnFacts
  <2>3. ASSUME NEW w \in Windows, NEW i \in DOMAIN values[w]
        PROVE  Still(w, values[w][i]) \subseteq Slow(w, values[w][i])
    <3>1. values[w][i] <= clock /\ values[w][i] \in Nat
      BY <1>t DEF NoneAhead
    <3>2. t \notin Still(w, values[w][i])
      BY <1>t, <2>2, <3>1
    <3> QED BY <2>2, <3>2 DEF Slow, ToAdd
  <2> HIDE DEF Still
  <2> QED BY <1>e, <1>s, <2>1, <2>3
<1>2. ASSUME NEW t \in Threads, Loop(t) PROVE Late'
  <2>1. \A w \in Windows : \A x \in Nat : Still(w, x) \subseteq Slow(w, x)
    <3>1. /\ pc[t] # "idle" /\ (pc'[t] = "idle" \/ (at'[t] = at[t] /\ now'[t] = now[t]))
          /\ \A u \in Threads \ {t} : pc'[u] = pc[u] /\ at'[u] = at[u] /\ now'[u] = now[u]
      BY <1>2, LoopFacts
    <3> QED BY <3>1 DEF Slow, ToAdd
  <2> HIDE DEF Still
  <2>2. ASSUME NEW w \in Windows, values[w] # <<>>, values'[w] = Tail(values[w]),
               NEW i \in DOMAIN values'[w]
        PROVE  LateAt(values'[w], i, Still(w, values'[w][i]))
    <3>1. values[w] \in Seq(Nat) /\ values'[w] \in Seq(Nat)
      BY <1>2, LoopFacts
    <3>2. i + 1 \in DOMAIN values[w] /\ values[w][i + 1] = values'[w][i]
      BY <2>2, <3>1, TailFacts
    <3>3. Still(w, values'[w][i]) \in SUBSET Slow(w, values[w][i + 1])
      BY <1>t, <2>1, <3>2
    <3>4. LateAt(values[w], i + 1, Slow(w, values[w][i + 1])) /\ Slow(w, values[w][i + 1]) \in SUBSET Threads
      BY <3>2 DEF Late, Slow
    <3>5. LateAt(values'[w], i, Slow(w, values[w][i + 1]))
      BY <2>2, <3>1, <3>4, LateTail
    <3> QED BY <2>2, <3>1, <3>3, <3>4, <3>5, FewerSlow
  <2>3. ASSUME NEW w \in Windows, values'[w] = values[w]
        PROVE  \A i \in DOMAIN values'[w] : LateAt(values'[w], i, Still(w, values'[w][i]))
    BY <1>s, <1>t, <2>1, <2>3
  <2>4. \A w \in Windows : values'[w] = values[w] \/ (values[w] # <<>> /\ values'[w] = Tail(values[w]))
    BY <1>2, LoopFacts
  <2> QED BY <1>e, <2>2, <2>3, <2>4
<1>3. ASSUME NEW t \in Threads, Add(t) PROVE Late'
  <2>1. /\ at[t] \in Windows /\ now[t] \in Nat /\ pc[t] = "append"
        /\ \A u \in Threads \ {t} : pc'[u] = pc[u] /\ at'[u] = at[u] /\ now'[u] = now[u]
        /\ pc'[t] = "idle" \/ /\ pc'[t] = "window" /\ now'[t] = now[t]
                              /\ at[t] = "minute" /\ at'[t] = "day"
    BY <1>3, AddFacts
  <2>2. ASSUME NEW w \in Windows, w = at[t], NEW i \in DOMAIN values'[w]
        PROVE  LateAt(values'[w], i, Still(w, values'[w][i]))
    <3>1. values[w] \in Seq(Nat) /\ values'[w] = Append(values[w], now[t])
      BY <1>3, <2>2, AddFacts
    <3>2. \A x : t \notin Still(w, x)
      BY <2>1, <2>2
    <3>3. \A x : Still(w, x) \subseteq Slow(w, x) \ {t}
      BY <2>1, <3>2 DEF Slow, ToAdd
    <3>4. CASE i \in DOMAIN values[w]
      <4>1. values'[w][i] = values[w][i]
        BY <3>1, <3>4
      <4>2. LateAt(values[w], i, Slow(w, values[w][i])) /\ Slow(w, values[w][i]) \in SUBSET Threads
        BY <3>4 DEF Late, Slow
      <4>3. t \in Slow(w, values[w][i]) <=> now[t] < values[w][i]
        BY <2>1, <2>2 DEF Slow, ToAdd
      <4>4. LateAt(values'[w], i, Slow(w, values[w][i]) \ {t})
        <5> DEFINE slow == Slow(w, values[w][i])
                   s == values[w]
        <5>1. /\ s \in Seq(Nat) /\ i \in DOMAIN s /\ slow \in SUBSET Threads /\ LateAt(s, i, slow)
              /\ (t \in slow <=> now[t] < s[i])
          BY <3>1, <3>4, <4>2, <4>3
        <5> HIDE DEF slow, s
        <5>2. LateAt(Append(s, now[t]), i, slow \ {t})
          BY <2>1, <5>1, LateAppend
        <5> QED BY <3>1, <5>2 DEF slow, s
      <4>5. Still(w, values[w][i]) \in SUBSET (Slow(w, values[w][i]) \ {t})
        BY <3>3
      <4>6. values'[w] \in Seq(Nat) /\ Slow(w, values[w][i]) \ {t} \in SUBSET Threads
        BY <2>1, <3>1, <4>2
      <4> HIDE DEF Still
      <4> QED BY <2>2, <4>1, <4>4, <4>5, <4>6, FewerSlow
    <3>5. CASE i \notin DOMAIN values[w]
      <4>1. i = Len(values[w]) + 1
        BY <2>2, <3>1, <3>5
      <4>2. Still(w, values'[w][i]) \in SUBSET (Threads \ {t})
        BY <3>2
      <4> HIDE DEF Still
      <4> QED BY <2>1, <3>1, <4>1, <4>2, LateNewest
    <3> QED BY <3>4, <3>5
  <2>3. ASSUME NEW w \in Windows, w # at[t]
        PROVE  \A i \in DOMAIN values'[w] : LateAt(values'[w], i, Still(w, values'[w][i]))
    <3>1. values'[w] = values[w]
      BY <1>3, <2>3, AddFacts
    <3>2. \A x : Still(w, x) \subseteq Slow(w, x)
      BY <2>1, <2>3 DEF Slow, ToAdd
    <3> HIDE DEF Still
    <3> QED BY <1>s, <3>1, <3>2
  <2> HIDE DEF Still
  <2> QED BY <1>e, <2>2, <2>3
<1>4. ASSUME NEW t \in Threads, Refuse(t) \/ Measure(t) PROVE Late'
  <2>1. values' = values
    BY <1>4 DEF Refuse, Measure
  <2>2. \A w \in Windows : \A x \in Nat : Still(w, x) \subseteq Slow(w, x)
    BY <1>4 DEF Refuse, Measure, Pruned, Return, TypeOK, Slow, ToAdd
  <2> HIDE DEF Still
  <2> QED BY <1>e, <1>s, <1>t, <2>1, <2>2
<1>5. CASE Tick \/ UNCHANGED vars
  <2>1. UNCHANGED <<values, pc, at, now>>
    BY <1>5 DEF Tick, vars
  <2>2. \A w \in Windows : \A x \in Nat : Still(w, x) \subseteq Slow(w, x)
    BY <2>1 DEF Slow, ToAdd
  <2> HIDE DEF Still
  <2> QED BY <1>e, <1>s, <1>t, <2>1, <2>2
<1> QED BY <1>1, <1>2, <1>3, <1>4, <1>5 DEF Next, Allow, Loop

-------------------------------------------------------------------------------
IInv ==
  /\ TypeOK
  /\ RoomIsBounded
  /\ NoneAhead
  /\ ~bottom => Held /\ Both
  /\ Late

LEMMA InitIInv == Init => IInv
<1> SUFFICES ASSUME Init PROVE IInv
  OBVIOUS
<1>1. TypeOK
  BY DEF Init, TypeOK, Windows, Steps
<1>2. /\ \A w \in Windows : values[w] = <<>> /\ log[w] = <<>> /\ DOMAIN values[w] = {}
      /\ \A w \in Windows : Len(values[w]) = 0
  BY DEF Init
<1>3. RoomIsBounded
  <2>1. \A w \in Windows : Pending(w) = {}
    BY DEF Init, Pending
  <2>2. \A w \in Windows : Cardinality(Pending(w)) = 0
    BY <2>1, FS_EmptySet
  <2>3. \A w \in Windows : Cardinality(Threads) \in Nat /\ Limit(w) \in Nat
    BY PendingBound, WindowTypes
  <2> QED BY <1>2, <2>2, <2>3 DEF RoomIsBounded
<1>4. NoneAhead /\ Late
  BY <1>2 DEF Init, NoneAhead, Late
<1>5. \A V : \A w \in Windows : /\ Cardinality(Positions(log[w], V)) = 0
                               /\ Cardinality(Positions(values[w], V)) = 0
  <2>1. \A V : Positions(<<>>, V) = {}
    BY DEF Positions
  <2> QED BY <1>2, <2>1, FS_EmptySet
<1>6. Held
  BY <1>5 DEF Held, Admitted
<1>7. Both
  <2>1. \A v : Going(v) = {}
    BY DEF Init, Going
  <2>2. \A v : Cardinality(Going(v)) = 0
    BY <2>1, FS_EmptySet
  <2> QED BY <1>5, <2>2 DEF Both, BothHold, Windows
<1> QED BY <1>1, <1>3, <1>4, <1>6, <1>7 DEF IInv

LEMMA Invariance == Spec => []IInv
<1>1. IInv /\ [Next]_vars => IInv'
  BY BottomKept, NextTypeOK, NextRoom, NextNoneAhead, NextHeld, NextBoth, NextLate DEF IInv
<1> QED BY <1>1, InitIInv, PTL DEF Spec

(* The deques hold times, and every thread is at a step of allow().        *)
THEOREM TypeCorrect == Spec => []TypeOK
<1>1. IInv => TypeOK
  BY DEF IInv
<1> QED BY <1>1, Invariance, PTL

(* The entries of a window, with the places found and not taken yet, exceed *)
(* its limit by the number of the other threads at most: the deques cannot  *)
(* grow without bound, and a single thread respects the limit.              *)
THEOREM RoomBounded == Spec => []RoomIsBounded
<1>1. IInv => RoomIsBounded
  BY DEF IInv
<1> QED BY <1>1, Invariance, PTL

(* The admissions of any sliding window exceed the quota by the number of   *)
(* the other threads at most, whichever thread pruned for whom              *)
(* (rate_limit.py:14-30), on an interpreter that switches no thread between *)
(* a test and its popleft().                                                *)
THEOREM QuotaBounded == Spec => []QuotaUpToThreads
<1>1. IInv => QuotaUpToThreads
  <2> SUFFICES ASSUME IInv, ~bottom, NEW w \in Windows, Limit(w) # 0
               PROVE  Cardinality(After(log[w], clock - Length(w)))
                        <= Limit(w) + Cardinality(Threads) - 1
    BY DEF QuotaUpToThreads
  <2> DEFINE m == clock - Length(w)
  <2>1. /\ m \in Int /\ values[w] \in Seq(Nat) /\ log[w] \in Seq(Nat) /\ Len(values[w]) \in Nat
        /\ Limit(w) \in Nat
    BY WindowTypes DEF IInv, TypeOK
  <2>2. Admitted(w, Later(m))
    BY <2>1 DEF IInv, Held
  <2> HIDE DEF m
  <2>3. /\ Cardinality(Positions(values[w], Later(m))) \in Nat
        /\ Cardinality(Positions(values[w], Later(m))) <= Len(values[w])
        /\ Cardinality(Positions(log[w], Later(m))) \in Nat
    BY <2>1, SomePositions DEF Positions
  <2>4. Len(values[w]) + Cardinality(Pending(w)) <= Limit(w) + Cardinality(Threads) - 1
    BY DEF IInv, RoomIsBounded
  <2>5. Cardinality(Pending(w)) \in Nat /\ Cardinality(Threads) \in Nat
    BY PendingBound
  <2>6. After(log[w], m) = Positions(log[w], Later(m))
    BY <2>1, AfterPositions
  <2>7. Cardinality(Positions(log[w], Later(m))) <= Limit(w) + Cardinality(Threads) - 1
    BY <2>1, <2>2, <2>3, <2>4, <2>5 DEF Admitted
  <2> QED BY <2>6, <2>7 DEF m
<1> QED BY <1>1, Invariance, PTL

(* Each admission of the day has an entry of its own in the minute, as long *)
(* as the minute lasts (rate_limit.py:16-18), on such an interpreter.       *)
THEOREM BothCounted == Spec => []CountedInBoth
<1>1. IInv => CountedInBoth
  <2> SUFFICES ASSUME IInv, ~bottom, PerMinute # 0, NEW v \in 0..clock, v > clock - Minute
               PROVE  Cardinality({i \in DOMAIN log["day"] : log["day"][i] = v})
                        <= Cardinality({i \in DOMAIN values["minute"] : values["minute"][i] = v})
    BY DEF CountedInBoth
  <2>1. v \in Nat /\ values["minute"] \in Seq(Nat) /\ log["day"] \in Seq(Nat)
    BY DEF IInv, TypeOK, Windows
  <2>2. BothHold(v)
    BY <2>1 DEF IInv, Both
  <2>3. /\ {i \in DOMAIN log["day"] : log["day"][i] = v} = Positions(log["day"], {v})
        /\ {i \in DOMAIN values["minute"] : values["minute"][i] = v} = Positions(values["minute"], {v})
    BY DEF Positions
  <2>4. /\ Cardinality(Positions(values["minute"], {v})) \in Nat
        /\ Cardinality(Positions(log["day"], {v})) \in Nat /\ Cardinality(Going(v)) \in Nat
    BY <2>1, SomePositions, GoingCount DEF Positions
  <2>5. Cardinality(Positions(log["day"], {v})) <= Cardinality(Positions(values["minute"], {v}))
    BY <2>2, <2>4 DEF BothHold
  <2> QED BY <2>3, <2>5
<1> QED BY <1>1, Invariance, PTL

(* A refusal finds a window that is full up to the entries which other      *)
(* threads appended late, behind a newer one (rate_limit.py:24-28), on any  *)
(* interpreter.                                                             *)
THEOREM RefusalsDue == Spec => RefusedWhenFull
<1>1. ASSUME IInv, NEW t \in Threads, Refuse(t)
      PROVE  Cardinality(After(values[at[t]], now[t] - Length(at[t])))
               >= Limit(at[t]) - (Cardinality(Threads) - 1)
  <2> DEFINE s == values[at[t]]
             c == now[t] - Length(at[t])
  <2>1. at[t] \in Windows /\ s \in Seq(Nat) /\ c \in Int /\ Limit(at[t]) \in Nat /\ Len(s) \in Nat
    BY <1>1, WindowTypes DEF IInv, TypeOK
  <2>2. Len(s) >= Limit(at[t]) /\ (s = <<>> \/ ~(Head(s) <= c))
    BY <1>1 DEF Refuse, Pruned, Stale
  <2>3. \A i \in DOMAIN s : LateAt(s, i, Slow(at[t], s[i])) /\ Slow(at[t], s[i]) \in SUBSET Threads
    BY <1>1, <2>1 DEF IInv, Late, Slow
  <2> HIDE DEF s, c
  <2>4. Cardinality(Threads) \in Nat /\ Cardinality(Threads) >= 1
    <3>1. Cardinality({t}) = 1 /\ {t} \subseteq Threads
      BY FS_Singleton
    <3> QED BY <3>1, SubsetCount, RateLimiterAssumption
  <2>5. Cardinality(After(s, c)) \in Nat /\ IsFiniteSet(After(s, c))
    BY <2>1, SomePositions DEF After
  <2>6. CASE s = <<>>
    <3>1. Len(s) = 0
      BY <2>6
    <3>2. Cardinality(After(s, c)) >= Limit(at[t]) - (Cardinality(Threads) - 1)
      BY <2>1, <2>2, <2>4, <2>5, <3>1
    <3> QED BY <3>2 DEF s, c
  <2>7. CASE s # <<>>
    <3>1. 1 \in DOMAIN s /\ s[1] = Head(s) /\ \A j \in DOMAIN s : s[j] \in Nat /\ (j = 1 \/ j > 1)
      BY <2>1, <2>7
    <3>2. \A j \in DOMAIN s : j \in After(s, c) \/ j \in Behind(s, 1)
      BY <2>1, <2>2, <2>7, <3>1 DEF After, Behind
    <3>3. DOMAIN s \subseteq After(s, c) \cup Behind(s, 1)
      BY <3>2
    <3>4. /\ IsFiniteSet(Behind(s, 1)) /\ Cardinality(Behind(s, 1)) \in Nat
          /\ Cardinality(Slow(at[t], s[1])) \in Nat
          /\ Cardinality(Behind(s, 1)) + Cardinality(Slow(at[t], s[1])) <= Cardinality(Threads) - 1
      BY <2>1, <2>3, <3>1, LateCounts DEF LateAt
    <3>5. /\ IsFiniteSet(After(s, c) \cup Behind(s, 1))
          /\ Cardinality(After(s, c) \cup Behind(s, 1)) <= Cardinality(After(s, c)) + Cardinality(Behind(s, 1))
      <4>1. After(s, c) \cap Behind(s, 1) \subseteq Behind(s, 1)
        OBVIOUS
      <4>2. Cardinality(After(s, c) \cap Behind(s, 1)) \in Nat
        BY <3>4, <4>1, SubsetCount
      <4>3. /\ IsFiniteSet(After(s, c) \cup Behind(s, 1))
            /\ Cardinality(After(s, c) \cup Behind(s, 1))
                 = Cardinality(After(s, c)) + Cardinality(Behind(s, 1))
                     - Cardinality(After(s, c) \cap Behind(s, 1))
        <5>1. IsFiniteSet(After(s, c)) /\ IsFiniteSet(Behind(s, 1))
          BY <2>5, <3>4
        <5> QED BY <5>1, FS_Union
      <4> QED BY <2>5, <3>4, <4>2, <4>3
    <3>6. Cardinality(DOMAIN s) = Len(s)
      <4>1. DOMAIN s = 1..Len(s) /\ Len(s) \in Nat
        BY <2>1
      <4>2. Len(s) \in Int /\ 1 \in Int
        BY <4>1
      <4>3. Cardinality(1..Len(s)) = (IF 1 > Len(s) THEN 0 ELSE Len(s) - 1 + 1)
        BY <4>2, FS_Interval
      <4> QED BY <4>1, <4>3
    <3>7. /\ Cardinality(After(s, c) \cup Behind(s, 1)) \in Nat
          /\ Len(s) <= Cardinality(After(s, c) \cup Behind(s, 1))
      BY <3>3, <3>5, <3>6, SubsetCount
    <3>8. Cardinality(After(s, c)) >= Limit(at[t]) - (Cardinality(Threads) - 1)
      BY <2>1, <2>2, <2>4, <2>5, <3>4, <3>5, <3>7
    <3> QED BY <3>8 DEF s, c
  <2> QED BY <2>6, <2>7
<1>2. IInv => [\A t \in Threads :
                 Refuse(t) =>
                   Cardinality(After(values[at[t]], now[t] - Length(at[t])))
                     >= Limit(at[t]) - (Cardinality(Threads) - 1)]_vars
  BY <1>1
<1> QED BY <1>2, Invariance, PTL DEF RefusedWhenFull
===============================================================================
