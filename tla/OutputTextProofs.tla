-------------------------- MODULE OutputTextProofs --------------------------
(***************************************************************************)
(* Theorems about the output as text, for every text, ring and limit: the  *)
(* recent lines are those that an unbounded record would show              *)
(* (RecentLines), and reads piece by piece lose nothing (OutputReader).    *)
(*                                                                         *)
(* Both fold over sequences, so most of this is induction over data.  It   *)
(* rests on NatSetInduction: the library's induction theorems take an      *)
(* operator as a parameter, a set serves as well.                          *)
(***************************************************************************)
EXTENDS RecentLines, OutputReader, FiniteSetTheorems, SequenceTheorems,
        WellFoundedInduction, TLAPS

-----------------------------------------------------------------------------
(* A set that has 0, and with every number the next, has them all.         *)
LEMMA NatSetInduction ==
  ASSUME NEW S, 0 \in S, \A n \in Nat : n \in S => n + 1 \in S
  PROVE  \A n \in Nat : n \in S
<1> DEFINE T == Nat \ S
<1>1. SUFFICES ASSUME T # {} PROVE FALSE
  OBVIOUS
<1>2. PICK x \in T : \A y \in T : ~ (<<y, x>> \in OpToRel(<, Nat))
  <2>1. T \subseteq Nat
    OBVIOUS
  <2> HIDE DEF T
  <2> QED
    BY <1>1, <2>1, NatLessThanWellFounded, WFMin, Zenon
<1>3. \A y \in T : ~(y < x)
  BY <1>2 DEF OpToRel
<1> QED
  BY <1>3

(* Every function of one step, over a choice that takes elements out of a  *)
(* finite set one by one, is iterated by some function.                    *)
Iterates(iter, D, base, choice, step) ==
    \A T \in D :
        iter[T] = IF T = {} THEN base ELSE step[<<choice[T], iter[T \ {choice[T]}]>>]

LEMMA IterationExists ==
  ASSUME NEW S, IsFiniteSet(S), NEW Y, NEW base \in Y, NEW step \in [S \X Y -> Y],
         NEW choice, \A T \in SUBSET S : T # {} => choice[T] \in T
  PROVE  \E iter \in [SUBSET S -> Y] : Iterates(iter, SUBSET S, base, choice, step)
<1> DEFINE Small(k) == {T \in SUBSET S : Cardinality(T) <= k}
           Sizes == {k \in Nat : \E iter \in [Small(k) -> Y] :
                        Iterates(iter, Small(k), base, choice, step)}
<1>1. \A T \in SUBSET S : IsFiniteSet(T) /\ Cardinality(T) \in Nat
  BY FS_Subset, FS_CardinalityType
<1>2. 0 \in Sizes
  <2> DEFINE iter == [T \in Small(0) |-> base]
  <2>1. \A T \in Small(0) : T = {}
    BY <1>1, FS_EmptySet
  <2>2. Iterates(iter, Small(0), base, choice, step)
    BY <2>1 DEF Iterates
  <2>3. iter \in [Small(0) -> Y]
    OBVIOUS
  <2> QED
    BY <2>2, <2>3
<1>3. ASSUME NEW k \in Nat, k \in Sizes PROVE k + 1 \in Sizes
  <2>1. PICK g \in [Small(k) -> Y] : Iterates(g, Small(k), base, choice, step)
    BY <1>3
  <2> DEFINE iter == [T \in Small(k + 1) |->
                         IF T = {} THEN base ELSE step[<<choice[T], g[T \ {choice[T]}]>>]]
  <2>2. ASSUME NEW T \in Small(k + 1), T # {}
        PROVE  choice[T] \in T /\ choice[T] \in S /\ T \ {choice[T]} \in Small(k)
    <3>1. choice[T] \in T /\ choice[T] \in S
      BY <2>2
    <3>2. Cardinality(T \ {choice[T]}) = Cardinality(T) - 1
      BY <1>1, <3>1, FS_RemoveElement
    <3> QED
      BY <1>1, <3>1, <3>2
  <2>3. iter \in [Small(k + 1) -> Y]
    BY <2>1, <2>2
  <2>4. ASSUME NEW T \in Small(k) PROVE T \in Small(k + 1) /\ iter[T] = g[T]
    <3>1. T \in Small(k + 1)
      BY <1>1
    <3> QED
      BY <2>1, <3>1 DEF Iterates
  <2>5. Iterates(iter, Small(k + 1), base, choice, step)
    BY <2>2, <2>4 DEF Iterates
  <2>6. \E h \in [Small(k + 1) -> Y] : Iterates(h, Small(k + 1), base, choice, step)
    <3> HIDE DEF iter, Small
    <3> QED
      BY <2>3, <2>5
  <2> QED
    <3> HIDE DEF Small
    <3> QED
      BY <2>6
<1>4. \A k \in Nat : k \in Sizes
  <2> HIDE DEF Sizes
  <2> QED
    BY <1>2, <1>3, NatSetInduction
<1>5. Cardinality(S) \in Sizes
  BY <1>1, <1>4
<1>6. Small(Cardinality(S)) = SUBSET S
  BY FS_Subset
<1>7. \E iter \in [Small(Cardinality(S)) -> Y] :
         Iterates(iter, Small(Cardinality(S)), base, choice, step)
  BY <1>5
<1> HIDE DEF Small
<1> QED
  BY <1>6, <1>7

(* The least of a set of numbers, and the greatest of a bounded one.       *)
LEMMA MinOfNats ==
  ASSUME NEW T \in SUBSET Nat, T # {}
  PROVE  Min(T) \in T /\ \A y \in T : Min(T) <= y
<1>1. PICK x \in T : \A y \in T : ~ (<<y, x>> \in OpToRel(<, Nat))
  BY NatLessThanWellFounded, WFMin, Zenon
<1>2. x \in Nat /\ \A y \in T : y \in Nat /\ ~(y < x)
  BY <1>1 DEF OpToRel
<1>3. \A y \in T : x <= y
  BY <1>2
<1> QED
  BY <1>3 DEF Min

LEMMA MaxOfBounded ==
  ASSUME NEW n \in Nat, NEW T \in SUBSET (1 .. n), T # {}
  PROVE  Max(T) \in T /\ \A y \in T : y <= Max(T)
<1> DEFINE U == {n - y : y \in T}
<1>0. \A y \in T : y \in 1 .. n
  OBVIOUS
<1>1. U \in SUBSET Nat /\ U # {}
  <2>1. PICK y \in T : TRUE
    OBVIOUS
  <2>2. n - y \in U
    OBVIOUS
  <2>3. \A u \in U : u \in Nat
    BY <1>0
  <2> QED
    BY <2>2, <2>3
<1>2. Min(U) \in U /\ \A u \in U : Min(U) <= u
  <2> HIDE DEF U
  <2> QED
    BY <1>1, MinOfNats
<1>3. PICK x \in T : n - x = Min(U)
  BY <1>2
<1>4. ASSUME NEW y \in T PROVE y <= x
  <2>1. n - y \in U
    OBVIOUS
  <2>2. n - x <= n - y
    BY <1>2, <1>3, <2>1
  <2> QED
    BY <1>0, <2>2
<1>5. \A y \in T : x >= y
  BY <1>0, <1>4
<1> DEFINE m == Max(T)
<1>6. m \in T /\ \A y \in T : m >= y
  BY <1>5 DEF Max
<1> QED
  BY <1>0, <1>6

(* What a fold from the left and one from the right come down to: the      *)
(* greatest index, or the least one, is the last to be taken.              *)
MaxIterates(iter, n, base, step) ==
    /\ iter[{}] = base
    /\ \A t \in SUBSET (1 .. n) : t # {} =>
          /\ Max(t) \in t
          /\ iter[t] = step[<<Max(t), iter[t \ {Max(t)}]>>]

MinIterates(iter, n, base, step) ==
    /\ iter[{}] = base
    /\ \A t \in SUBSET (1 .. n) : t # {} =>
          /\ Min(t) \in t
          /\ iter[t] = step[<<Min(t), iter[t \ {Min(t)}]>>]


LEMMA MaxIteration ==
  ASSUME NEW n \in Nat, NEW Y, NEW base \in Y, NEW step \in [(1 .. n) \X Y -> Y]
  PROVE  \E iter \in [SUBSET (1 .. n) -> Y] : MaxIterates(iter, n, base, step)
<1> DEFINE choice == [T \in SUBSET (1 .. n) |-> Max(T)]
           S == 1 .. n
<1>1. \A T \in SUBSET S : T # {} => Max(T) \in T
  BY MaxOfBounded
<1>2. \A T \in SUBSET S : T # {} => choice[T] \in T
  BY <1>1
<1>3. IsFiniteSet(S) /\ step \in [S \X Y -> Y]
  BY FS_Interval
<1>4. PICK iter \in [SUBSET S -> Y] : Iterates(iter, SUBSET S, base, choice, step)
  <2> HIDE DEF choice, S
  <2> QED
    BY <1>2, <1>3, IterationExists
<1>5. iter[{}] = base
  BY <1>4 DEF Iterates
<1>6. ASSUME NEW t \in SUBSET S, t # {}
      PROVE  /\ Max(t) \in t
             /\ iter[t] = step[<<Max(t), iter[t \ {Max(t)}]>>]
  <2>1. Max(t) \in t /\ choice[t] = Max(t)
    BY <1>1, <1>6
  <2>2. iter[t] = step[<<choice[t], iter[t \ {choice[t]}]>>]
    BY <1>4, <1>6 DEF Iterates
  <2> QED
    BY <2>1, <2>2
<1> QED
  BY <1>4, <1>5, <1>6 DEF MaxIterates


LEMMA MinIteration ==
  ASSUME NEW n \in Nat, NEW Y, NEW base \in Y, NEW step \in [(1 .. n) \X Y -> Y]
  PROVE  \E iter \in [SUBSET (1 .. n) -> Y] : MinIterates(iter, n, base, step)
<1> DEFINE choice == [T \in SUBSET (1 .. n) |-> Min(T)]
           S == 1 .. n
<1>1. \A T \in SUBSET S : T # {} => Min(T) \in T
  <2>1. \A T \in SUBSET S : T \in SUBSET Nat
    OBVIOUS
  <2> QED
    BY <2>1, MinOfNats
<1>2. \A T \in SUBSET S : T # {} => choice[T] \in T
  BY <1>1
<1>3. IsFiniteSet(S) /\ step \in [S \X Y -> Y]
  BY FS_Interval
<1>4. PICK iter \in [SUBSET S -> Y] : Iterates(iter, SUBSET S, base, choice, step)
  <2> HIDE DEF choice, S
  <2> QED
    BY <1>2, <1>3, IterationExists
<1>5. iter[{}] = base
  BY <1>4 DEF Iterates
<1>6. ASSUME NEW t \in SUBSET S, t # {}
      PROVE  /\ Min(t) \in t
             /\ iter[t] = step[<<Min(t), iter[t \ {Min(t)}]>>]
  <2>1. Min(t) \in t /\ choice[t] = Min(t)
    BY <1>1, <1>6
  <2>2. iter[t] = step[<<choice[t], iter[t \ {choice[t]}]>>]
    BY <1>4, <1>6 DEF Iterates
  <2> QED
    BY <2>1, <2>2
<1> QED
  BY <1>4, <1>5, <1>6 DEF MinIterates

LEMMA FirstNumbers ==
  ASSUME NEW n \in Nat, NEW k \in 1 .. n
  PROVE  /\ 1 .. k \in SUBSET (1 .. n) /\ 1 .. k # {}
         /\ Max(1 .. k) = k /\ (1 .. k) \ {k} = 1 .. k - 1
<1> DEFINE t == 1 .. k
<1>1. t \in SUBSET (1 .. n) /\ k \in t /\ \A y \in t : y \in Nat /\ y <= k
  OBVIOUS
<1>2. t # {} /\ Max(t) \in t /\ k <= Max(t)
  BY <1>1, MaxOfBounded
<1>3. Max(t) = k
  <2> HIDE DEF t
  <2>1. Max(t) \in Nat /\ Max(t) <= k
    BY <1>1, <1>2
  <2> QED
    BY <1>2, <2>1
<1>4. t \ {k} = 1 .. k - 1
  OBVIOUS
<1> QED
  BY <1>1, <1>2, <1>3, <1>4

LEMMA LastNumbers ==
  ASSUME NEW n \in Nat, NEW k \in 1 .. n
  PROVE  /\ k .. n \in SUBSET (1 .. n) /\ k .. n # {}
         /\ Min(k .. n) = k /\ (k .. n) \ {k} = k + 1 .. n
<1> DEFINE t == k .. n
<1>1. t \in SUBSET (1 .. n) /\ t \in SUBSET Nat /\ k \in t /\ \A y \in t : y \in Nat /\ k <= y
  OBVIOUS
<1>2. t # {} /\ Min(t) \in t /\ Min(t) <= k
  BY <1>1, MinOfNats
<1>3. Min(t) = k
  <2> HIDE DEF t
  <2>1. Min(t) \in Nat /\ k <= Min(t)
    BY <1>1, <1>2
  <2> QED
    BY <1>2, <2>1
<1>4. t \ {k} = k + 1 .. n
  OBVIOUS
<1> QED
  BY <1>1, <1>2, <1>3, <1>4

-----------------------------------------------------------------------------
(* The ring holds the last of the lines, the oldest of them at its start.  *)
Rings == [buffer : [0 .. Capacity - 1 -> Segments \cup {NoLine}],
          head   : 0 .. Capacity - 1,
          size   : 0 .. Capacity]

Slot(r, d) == ((IF r.size < Capacity THEN 0 ELSE r.head) + d - 1) % Capacity

RingHolds(r, lines) ==
    /\ r \in Rings /\ lines \in Seq(Segments)
    /\ r.size <= Len(lines)
    /\ r.size < Capacity => r.size = Len(lines) /\ r.head = r.size
    /\ \A d \in 1 .. r.size : r.buffer[Slot(r, d)] = lines[Len(lines) - r.size + d]

LEMMA RingTyped ==
  ASSUME NEW r \in Rings
  PROVE  /\ r.buffer \in [0 .. Capacity - 1 -> Segments \cup {NoLine}]
         /\ r.head \in 0 .. Capacity - 1 /\ r.size \in 0 .. Capacity
         /\ Capacity \in Nat \ {0}
  BY RingAssumption DEF Rings

LEMMA AddType ==
  ASSUME NEW r \in Rings, NEW item \in Segments
  PROVE  Add(r, item) \in Rings
<1>1. (r.head + 1) % Capacity \in 0 .. Capacity - 1
  BY RingTyped
<1> QED
  BY <1>1, RingTyped DEF Rings, Add

(* One step around the ring, without the remainder.                        *)
LEMMA SlotOf ==
  ASSUME NEW c \in Nat \ {0}, NEW h \in 0 .. c - 1, NEW d \in 1 .. c
  PROVE  /\ (h + 1) % c = IF h + 1 < c THEN h + 1 ELSE 0
         /\ (h + d - 1) % c = IF h + d - 1 < c THEN h + d - 1 ELSE h + d - 1 - c
         /\ (0 + d - 1) % c = d - 1
<1>1. (h + 1) % c = IF h + 1 < c THEN h + 1 ELSE 0
  OBVIOUS
<1>2. (h + d - 1) % c = IF h + d - 1 < c THEN h + d - 1 ELSE h + d - 1 - c
  OBVIOUS
<1>3. (0 + d - 1) % c = d - 1
  OBVIOUS
<1> QED
  BY <1>1, <1>2, <1>3

LEMMA SlotIs ==
  ASSUME NEW r \in Rings, NEW d \in 1 .. Capacity
  PROVE  Slot(r, d) = IF r.size < Capacity THEN d - 1
                      ELSE IF r.head + d - 1 < Capacity THEN r.head + d - 1
                      ELSE r.head + d - 1 - Capacity
<1> DEFINE h == r.head
<1>1. h \in 0 .. Capacity - 1 /\ Capacity \in Nat \ {0}
  BY RingTyped
<1> HIDE DEF h
<1>2. /\ (h + d - 1) % Capacity = IF h + d - 1 < Capacity THEN h + d - 1 ELSE h + d - 1 - Capacity
      /\ (0 + d - 1) % Capacity = d - 1
  BY <1>1, SlotOf
<1> QED
  BY <1>2 DEF Slot, h

LEMMA AddHolds ==
  ASSUME NEW r, NEW lines, NEW item \in Segments, RingHolds(r, lines)
  PROVE  RingHolds(Add(r, item), Append(lines, item))
<1> DEFINE C == Capacity
<1>1. PICK s : s = Add(r, item)
  OBVIOUS
<1>2. PICK new : new = Append(lines, item)
  OBVIOUS
<1>3. PICK n : n = r.size
  OBVIOUS
<1>4. PICK h : h = r.head
  OBVIOUS
<1>5. PICK L : L = Len(lines)
  OBVIOUS
<1>6. r \in Rings /\ lines \in Seq(Segments) /\ s \in Rings /\ new \in Seq(Segments)
  BY <1>1, <1>2, AddType DEF RingHolds
<1>7. /\ n \in 0 .. C /\ h \in 0 .. C - 1 /\ C \in Nat \ {0} /\ L \in Nat /\ n <= L
      /\ n < C => n = L /\ h = n
  BY <1>3, <1>4, <1>5, <1>6, RingTyped DEF RingHolds
<1>8. /\ Len(new) = L + 1 /\ new[L + 1] = item
      /\ \A i \in 1 .. L : new[i] = lines[i]
  BY <1>2, <1>5, <1>6
<1>9. /\ s.size = (IF n < C THEN n + 1 ELSE n)
      /\ s.head = (IF h + 1 < C THEN h + 1 ELSE 0)
      /\ s.buffer[h] = item
      /\ \A i \in 0 .. C - 1 : i # h => s.buffer[i] = r.buffer[i]
  <2>1. (h + 1) % C = IF h + 1 < C THEN h + 1 ELSE 0
    BY <1>7
  <2>2. r.buffer \in [0 .. C - 1 -> Segments \cup {NoLine}]
    BY <1>6, RingTyped
  <2> QED
    BY <1>1, <1>3, <1>4, <1>7, <2>1, <2>2 DEF Add
<1>10. ASSUME NEW d \in 1 .. n PROVE r.buffer[Slot(r, d)] = lines[L - n + d]
  BY <1>3, <1>5 DEF RingHolds
<1>11. ASSUME NEW d \in 1 .. s.size
       PROVE  s.buffer[Slot(s, d)] = new[L + 1 - s.size + d]
  <2>1. CASE n < C
    <3>1. s.size = n + 1 /\ L = n /\ h = n /\ d \in 1 .. n + 1 /\ d \in 1 .. C
      BY <1>7, <1>9, <2>1
    <3>2. Slot(s, d) = d - 1
      <4>1. s.size < C \/ (s.head = 0 /\ d - 1 < C)
        BY <1>7, <1>9, <2>1, <3>1
      <4>2. 0 + d - 1 = d - 1 /\ d \in Int
        BY <3>1
      <4> QED
        BY <1>6, <3>1, <4>1, <4>2, SlotIs
    <3>3. L + 1 - s.size + d = d
      BY <1>7, <3>1
    <3>4. CASE d = n + 1
      <4>1. d - 1 = h /\ d = L + 1
        BY <1>7, <3>1, <3>4
      <4> QED
        BY <1>8, <1>9, <3>2, <3>3, <4>1
    <3>5. CASE d # n + 1
      <4>1. d \in 1 .. n /\ d - 1 \in 0 .. C - 1 /\ d - 1 # h /\ d \in 1 .. L /\ L - n + d = d
        BY <1>7, <3>1, <3>5, <2>1
      <4>2. Slot(r, d) = d - 1
        BY <1>3, <1>6, <2>1, <3>1, SlotIs
      <4> QED
        BY <1>8, <1>9, <1>10, <3>2, <3>3, <4>1, <4>2
    <3> QED
      BY <3>4, <3>5
  <2>2. CASE n = C
    <3>1. s.size = C /\ L >= C /\ d \in 1 .. C
      BY <1>7, <1>9, <2>2
    <3>2. Slot(s, d) = IF h + d < C THEN h + d ELSE h + d - C
      <4>1. Slot(s, d) = IF s.head + d - 1 < C THEN s.head + d - 1 ELSE s.head + d - 1 - C
        BY <1>6, <1>7, <3>1, SlotIs
      <4> QED
        BY <1>7, <1>9, <3>1, <4>1
    <3>3. CASE d = C
      <4>1. Slot(s, d) = h /\ L + 1 - s.size + d = L + 1
        BY <1>7, <3>1, <3>2, <3>3
      <4> QED
        BY <1>8, <1>9, <4>1
    <3>4. CASE d # C
      <4>1. d + 1 \in 1 .. n /\ d + 1 \in 1 .. C
        BY <1>7, <2>2, <3>1, <3>4
      <4>2. Slot(r, d + 1) = IF h + d < C THEN h + d ELSE h + d - C
        <5>1. PICK e : e = d + 1
          OBVIOUS
        <5>2. Slot(r, e) = IF h + e - 1 < C THEN h + e - 1 ELSE h + e - 1 - C
          <6>1. e \in 1 .. Capacity
            BY <4>1, <5>1
          <6>2. ~(r.size < Capacity)
            BY <1>3, <1>7, <2>2
          <6> QED
            BY <1>4, <1>6, <6>1, <6>2, SlotIs
        <5>3. h + e - 1 = h + d
          BY <1>7, <3>1, <5>1
        <5> QED
          BY <5>1, <5>2, <5>3
      <4>3. Slot(s, d) = Slot(r, d + 1) /\ Slot(s, d) \in 0 .. C - 1 /\ Slot(s, d) # h
        BY <1>7, <3>1, <3>2, <3>4, <4>1, <4>2
      <4>4. s.buffer[Slot(s, d)] = lines[L - n + (d + 1)]
        BY <1>9, <1>10, <4>1, <4>3
      <4>5. L - n + (d + 1) \in 1 .. L /\ L + 1 - s.size + d = L - n + (d + 1)
        BY <1>7, <2>2, <3>1, <4>1
      <4> QED
        BY <1>8, <4>4, <4>5
    <3> QED
      BY <3>3, <3>4
  <2> QED
    BY <1>7, <2>1, <2>2
<1>12. s.size <= L + 1 /\ (s.size < C => s.size = L + 1 /\ s.head = s.size)
  BY <1>7, <1>9
<1>13. RingHolds(s, new)
  <2>1. ASSUME NEW d \in 1 .. s.size
        PROVE  s.buffer[Slot(s, d)] = new[Len(new) - s.size + d]
    <3>1. Len(new) - s.size + d = L + 1 - s.size + d
      <4>1. s.size \in Nat /\ Len(new) \in Nat /\ d \in Nat
        BY <1>6, RingTyped
      <4> QED
        BY <1>7, <1>8, <4>1
    <3> QED
      BY <1>11, <3>1
  <2>2. s.size <= Len(new) /\ (s.size < C => s.size = Len(new) /\ s.head = s.size)
    BY <1>8, <1>12
  <2> QED
    BY <1>6, <2>1, <2>2 DEF RingHolds
<1> QED
  BY <1>1, <1>2, <1>13

LEMMA FoldLeftAdd ==
  ASSUME NEW r \in Rings, NEW s \in Seq(Segments)
  PROVE  \E iter : /\ iter[{}] = r
                   /\ \A k \in 1 .. Len(s) : iter[1 .. k] = Add(iter[1 .. k - 1], s[k])
                   /\ FoldLeft(Add, r, s) = iter[1 .. Len(s)]
<1> DEFINE n == Len(s)
           step == [p \in (1 .. n) \X Rings |-> Add(p[2], s[p[1]])]
<1>1. DOMAIN s = 1 .. n /\ n \in Nat /\ \A i \in 1 .. n : s[i] \in Segments
  OBVIOUS
<1>2. step \in [(1 .. n) \X Rings -> Rings]
  <2>1. ASSUME NEW p \in (1 .. n) \X Rings PROVE Add(p[2], s[p[1]]) \in Rings
    BY <1>1, AddType
  <2> QED
    BY <2>1
<1>3. PICK f \in [SUBSET (1 .. n) -> Rings] : MaxIterates(f, n, r, step)
  <2> HIDE DEF step, n
  <2> QED
    BY <1>1, <1>2, MaxIteration
<1>4. \A i \in 1 .. n, q \in Rings : step[<<i, q>>] = Add(q, s[i])
  OBVIOUS
<1> HIDE DEF step
<1>5. f = [t \in SUBSET DOMAIN s |-> IF t = {} THEN r ELSE Add(f[t \ {Max(t)}], s[Max(t)])]
  <2>1. ASSUME NEW t \in SUBSET DOMAIN s
        PROVE  f[t] = IF t = {} THEN r ELSE Add(f[t \ {Max(t)}], s[Max(t)])
    <3>1. CASE t = {}
      BY <1>3, <3>1 DEF MaxIterates
    <3>2. CASE t # {}
      <4>1. /\ Max(t) \in 1 .. n /\ t \ {Max(t)} \in SUBSET (1 .. n)
            /\ f[t] = step[<<Max(t), f[t \ {Max(t)}]>>]
        BY <1>1, <1>3, <3>2 DEF MaxIterates
      <4>2. f[t \ {Max(t)}] \in Rings
        BY <4>1
      <4>3. f[t] = Add(f[t \ {Max(t)}], s[Max(t)])
        BY <1>4, <4>1, <4>2
      <4> QED
        BY <3>2, <4>3
    <3> QED
      BY <3>1, <3>2
  <2>2. f = [t \in SUBSET DOMAIN s |-> f[t]]
    BY <1>1
  <2> QED
    BY <2>1, <2>2
<1>6. PICK iter :
         /\ iter = [t \in SUBSET DOMAIN s |-> IF t = {} THEN r ELSE Add(iter[t \ {Max(t)}], s[Max(t)])]
         /\ FoldLeft(Add, r, s) = iter[DOMAIN s]
  BY <1>5 DEF FoldLeft, MapThenFoldSet
<1>7. iter[{}] = r
  BY <1>6
<1>8. ASSUME NEW k \in 1 .. n PROVE iter[1 .. k] = Add(iter[1 .. k - 1], s[k])
  <2>1. 1 .. k \in SUBSET DOMAIN s /\ 1 .. k # {} /\ Max(1 .. k) = k /\ (1 .. k) \ {k} = 1 .. k - 1
    <3> HIDE DEF n
    <3> QED
      BY <1>1, FirstNumbers
  <2> DEFINE t == 1 .. k
  <2>2. iter[t] = Add(iter[t \ {Max(t)}], s[Max(t)])
    <3> HIDE DEF t
    <3> QED
      BY <1>6, <2>1 DEF t
  <2> QED
    BY <2>1, <2>2
<1> QED
  BY <1>1, <1>6, <1>7, <1>8

LEMMA ConcatAppend ==
  ASSUME NEW T, NEW s \in Seq(T), NEW t \in Seq(T), NEW c \in T
  PROVE  s \o Append(t, c) = Append(s \o t, c)
  OBVIOUS

LEMMA AddsHold ==
  ASSUME NEW r, NEW lines, NEW s \in Seq(Segments), RingHolds(r, lines)
  PROVE  RingHolds(FoldLeft(Add, r, s), lines \o s)
<1>1. r \in Rings /\ lines \in Seq(Segments)
  BY DEF RingHolds
<1>2. PICK iter : /\ iter[{}] = r
                  /\ \A k \in 1 .. Len(s) : iter[1 .. k] = Add(iter[1 .. k - 1], s[k])
                  /\ FoldLeft(Add, r, s) = iter[1 .. Len(s)]
  BY <1>1, FoldLeftAdd
<1> DEFINE first(k) == SubSeq(s, 1, k)
           Good == {k \in Nat : k <= Len(s) => RingHolds(iter[1 .. k], lines \o first(k))}
<1>3. 0 \in Good
  <2>1. lines \o first(0) = lines /\ 1 .. 0 = {}
    BY <1>1, EmptySeq, ConcatEmptySeq
  <2> QED
    BY <1>2, <2>1
<1>4. ASSUME NEW k \in Nat, k \in Good PROVE k + 1 \in Good
  <2>1. SUFFICES ASSUME k + 1 <= Len(s) PROVE RingHolds(iter[1 .. k + 1], lines \o first(k + 1))
    OBVIOUS
  <2>2. k + 1 \in 1 .. Len(s) /\ (k + 1) - 1 = k /\ Len(s) \in Nat /\ k <= Len(s)
    BY <2>1
  <2>3. first(k) \in Seq(Segments) /\ s[k + 1] \in Segments
    BY <2>2
  <2>4. first(k + 1) = Append(first(k), s[k + 1])
    BY <2>2
  <2>5. lines \o first(k + 1) = Append(lines \o first(k), s[k + 1])
    <3>1. PICK c \in Segments, t \in Seq(Segments) : c = s[k + 1] /\ t = first(k)
      BY <2>3
    <3> HIDE DEF first
    <3>2. lines \o Append(t, c) = Append(lines \o t, c)
      BY <1>1, ConcatAppend
    <3> QED
      BY <2>4, <3>1, <3>2
  <2>6. iter[1 .. k + 1] = Add(iter[1 .. k], s[k + 1])
    BY <1>2, <2>2
  <2>7. RingHolds(iter[1 .. k], lines \o first(k))
    BY <1>4, <2>2
  <2> HIDE DEF first
  <2> QED
    BY <2>3, <2>5, <2>6, <2>7, AddHolds
<1>5. Len(s) \in Good
  <2> HIDE DEF Good
  <2> QED
    BY <1>3, <1>4, NatSetInduction
<1>6. first(Len(s)) = s
  OBVIOUS
<1>7. RingHolds(iter[1 .. Len(s)], lines \o first(Len(s)))
  BY <1>5
<1> QED
  BY <1>2, <1>6, <1>7

LEMMA RecentHeld ==
  ASSUME NEW r, NEW lines, NEW count \in 1 .. Capacity, RingHolds(r, lines)
  PROVE  GetRecent(r, count) = Window!LastOf(count, lines)
<1>1. PICK L : L = Len(lines)
  OBVIOUS
<1>2. PICK n : n = r.size
  OBVIOUS
<1>3. PICK m : m = IF count < n THEN count ELSE n
  OBVIOUS
<1>4. /\ n \in 0 .. Capacity /\ L \in Nat /\ n <= L /\ Capacity \in Nat \ {0}
      /\ n < Capacity => n = L
  BY <1>1, <1>2, RingTyped DEF RingHolds
<1>5. m \in 0 .. n /\ m = (IF L > count THEN count ELSE L)
  BY <1>3, <1>4
<1>6. GetRecent(r, count) = [i \in 1 .. m |-> r.buffer[Slot(r, n - m + i)]]
  <2> DEFINE start == IF r.size < Capacity THEN 0 ELSE r.head
  <2>1. GetRecent(r, count) = [i \in 1 .. m |-> r.buffer[(start + n - m + i - 1) % Capacity]]
    BY <1>2, <1>3 DEF GetRecent
  <2>2. ASSUME NEW i \in 1 .. m PROVE Slot(r, n - m + i) = (start + n - m + i - 1) % Capacity
    <3>1. start \in Int
      BY RingTyped DEF RingHolds
    <3> HIDE DEF start
    <3>2. start + (n - m + i) - 1 = start + n - m + i - 1
      BY <1>4, <1>5, <3>1
    <3> QED
      BY <3>2 DEF Slot, start
  <2> HIDE DEF start
  <2> QED
    BY <2>1, <2>2
<1>7. ASSUME NEW i \in 1 .. m PROVE r.buffer[Slot(r, n - m + i)] = lines[L - m + i]
  <2>1. PICK d : d = n - m + i
    OBVIOUS
  <2>2. d \in 1 .. n /\ L - n + d = L - m + i
    BY <1>4, <1>5, <2>1
  <2>3. r.buffer[Slot(r, d)] = lines[L - n + d]
    BY <1>1, <1>2, <2>2 DEF RingHolds
  <2> QED
    BY <2>1, <2>2, <2>3
<1>8. Window!LastOf(count, lines) = [i \in 1 .. m |-> lines[L - m + i]]
  <2>1. PICK b : b = IF L > count THEN L - count + 1 ELSE 1
    OBVIOUS
  <2>2. b \in 1 .. L + 1 /\ b = L - m + 1
    BY <1>4, <1>5, <2>1
  <2>3. Window!LastOf(count, lines) = SubSeq(lines, b, L)
    BY <1>1, <2>1 DEF Window!LastOf
  <2>4. SubSeq(lines, b, L) = [i \in 1 .. m |-> lines[L - m + i]]
    <3>1. SubSeq(lines, b, L) = [i \in 1 .. L - b + 1 |-> lines[b + i - 1]]
      BY <1>1, <1>4, <2>2, SubSeqProperties DEF RingHolds
    <3>2. L - b + 1 = m /\ \A i \in 1 .. m : b + i - 1 = L - m + i
      BY <1>4, <1>5, <2>2
    <3> QED
      BY <3>1, <3>2
  <2> QED
    BY <2>3, <2>4
<1> QED
  BY <1>6, <1>7, <1>8

-----------------------------------------------------------------------------
LEMMA FinitelyMany ==
  ASSUME NEW lines \in Seq(Segments)
  PROVE  \A S \in SUBSET DOMAIN lines : IsFiniteSet(S) /\ Cardinality(S) \in Nat
<1>1. DOMAIN lines = 1 .. Len(lines) /\ Len(lines) \in Nat
  OBVIOUS
<1>2. IsFiniteSet(1 .. Len(lines))
  BY <1>1, FS_Interval
<1> QED
  BY <1>1, <1>2, FS_Subset, FS_CardinalityType

(* The sum over a set, from its recursion: the order is of no account.     *)
Sums(g, D, lines) ==
    \A T \in D : g[T] = IF T = {} THEN 0
                        ELSE Width[lines[CHOOSE x \in T : TRUE]] + g[T \ {CHOOSE x \in T : TRUE}]

LEMMA SumsExist ==
  ASSUME NEW lines \in Seq(Segments), NEW S \in SUBSET DOMAIN lines
  PROVE  \E g \in [SUBSET S -> Nat] : Sums(g, SUBSET S, lines)
<1> DEFINE choice == [T \in SUBSET S |-> CHOOSE x \in T : TRUE]
           step == [p \in S \X Nat |-> Width[lines[p[1]]] + p[2]]
<1>1. \A i \in S : Width[lines[i]] \in Nat
  BY WidthAssumption
<1>2. step \in [S \X Nat -> Nat]
  BY <1>1
<1>3. \A T \in SUBSET S : T # {} => choice[T] \in T
  OBVIOUS
<1>4. IsFiniteSet(S)
  BY FinitelyMany
<1>5. PICK g \in [SUBSET S -> Nat] : Iterates(g, SUBSET S, 0, choice, step)
  <2> HIDE DEF choice, step
  <2> QED
    BY <1>2, <1>3, <1>4, IterationExists
<1>6. ASSUME NEW T \in SUBSET S, T # {}
      PROVE  g[T] = Width[lines[CHOOSE x \in T : TRUE]] + g[T \ {CHOOSE x \in T : TRUE}]
  <2>1. PICK c : c = CHOOSE x \in T : TRUE
    OBVIOUS
  <2>2. c \in S /\ c = choice[T] /\ g[T \ {c}] \in Nat
    BY <1>3, <1>6, <2>1
  <2>3. g[T] = step[<<c, g[T \ {c}]>>]
    BY <1>5, <1>6, <2>2 DEF Iterates
  <2> QED
    BY <2>1, <2>2, <2>3
<1> QED
  BY <1>5, <1>6 DEF Iterates, Sums

LEMMA SumsAgree ==
  ASSUME NEW lines \in Seq(Segments), NEW g, Sums(g, SUBSET DOMAIN lines, lines),
         NEW S \in SUBSET DOMAIN lines, NEW f, Sums(f, SUBSET S, lines)
  PROVE  f[S] = g[S]
<1> DEFINE E == SUBSET S
           Same == {k \in Nat : \A T \in E : Cardinality(T) = k => f[T] = g[T]}
<1>0. \A T \in E : IsFiniteSet(T) /\ Cardinality(T) \in Nat
  BY FinitelyMany, FS_Subset, FS_CardinalityType
<1>1. 0 \in Same
  BY <1>0, FS_EmptySet DEF Sums
<1>2. ASSUME NEW k \in Nat, k \in Same PROVE k + 1 \in Same
  <2>1. SUFFICES ASSUME NEW T \in E, Cardinality(T) = k + 1 PROVE f[T] = g[T]
    OBVIOUS
  <2>2. PICK c : c = CHOOSE x \in T : TRUE
    OBVIOUS
  <2>3. T # {}
    BY <1>0, <2>1, FS_EmptySet
  <2>4. c \in T /\ T \ {c} \in E
    BY <2>2, <2>3
  <2>5. Cardinality(T \ {c}) = k
    <3>1. Cardinality(T \ {c}) = Cardinality(T) - 1
      BY <1>0, <2>4, FS_RemoveElement
    <3> QED
      BY <2>1, <3>1
  <2>6. f[T \ {c}] = g[T \ {c}]
    BY <1>2, <2>4, <2>5
  <2>7. f[T] = Width[lines[c]] + f[T \ {c}] /\ g[T] = Width[lines[c]] + g[T \ {c}]
    BY <2>2, <2>3 DEF Sums
  <2> QED
    BY <2>6, <2>7
<1>3. \A k \in Nat : k \in Same
  <2> HIDE DEF Same
  <2> QED
    BY <1>1, <1>2, NatSetInduction
<1> QED
  BY <1>0, <1>3

LEMMA WeightIsSum ==
  ASSUME NEW lines \in Seq(Segments), NEW g, Sums(g, SUBSET DOMAIN lines, lines),
         NEW S \in SUBSET DOMAIN lines
  PROVE  Weight(lines, S) = g[S]
<1>1. PICK h \in [SUBSET S -> Nat] : Sums(h, SUBSET S, lines)
  BY SumsExist
<1>2. h = [T \in SUBSET S |-> IF T = {} THEN 0
            ELSE Width[lines[CHOOSE x \in T : TRUE]] + h[T \ {CHOOSE x \in T : TRUE}]]
  BY <1>1 DEF Sums
<1>3. PICK f : /\ f = [T \in SUBSET S |-> IF T = {} THEN 0
                         ELSE Width[lines[CHOOSE x \in T : TRUE]] + f[T \ {CHOOSE x \in T : TRUE}]]
               /\ Weight(lines, S) = f[S]
  BY <1>2 DEF Weight, MapThenSumSet, MapThenFoldSet
<1>4. Sums(f, SUBSET S, lines)
  BY <1>3 DEF Sums
<1>5. f[S] = g[S]
  BY <1>4, SumsAgree
<1> QED
  BY <1>3, <1>5

LEMMA SumsRemove ==
  ASSUME NEW lines \in Seq(Segments), NEW g \in [SUBSET DOMAIN lines -> Nat],
         Sums(g, SUBSET DOMAIN lines, lines)
  PROVE  \A T \in SUBSET DOMAIN lines, x \in DOMAIN lines :
            x \in T => g[T] = Width[lines[x]] + g[T \ {x}]
<1> DEFINE w(i) == Width[lines[i]]
           Good == {k \in Nat : \A T \in SUBSET DOMAIN lines, x \in DOMAIN lines :
                       Cardinality(T) = k /\ x \in T => g[T] = w(x) + g[T \ {x}]}
<1>1. \A T \in SUBSET DOMAIN lines : IsFiniteSet(T) /\ Cardinality(T) \in Nat
  BY FinitelyMany
<1>2. 0 \in Good
  BY <1>1, FS_EmptySet
<1>3. ASSUME NEW k \in Nat, k \in Good PROVE k + 1 \in Good
  <2>1. SUFFICES ASSUME NEW T \in SUBSET DOMAIN lines, NEW x \in T, Cardinality(T) = k + 1
                 PROVE  g[T] = w(x) + g[T \ {x}]
    OBVIOUS
  <2>2. PICK c : c = CHOOSE y \in T : TRUE
    OBVIOUS
  <2>3. c \in T /\ T # {}
    BY <2>2
  <2>4. g[T] = w(c) + g[T \ {c}]
    BY <2>2, <2>3 DEF Sums
  <2>5. CASE c = x
    BY <2>4, <2>5
  <2>6. CASE c # x
    <3>1. Cardinality(T \ {c}) = k /\ Cardinality(T \ {x}) = k
      <4>1. \A y \in T : Cardinality(T \ {y}) = Cardinality(T) - 1
        BY <1>1, FS_RemoveElement
      <4> QED
        BY <2>1, <2>3, <4>1
    <3>2. x \in T \ {c} /\ c \in T \ {x} /\ (T \ {c}) \ {x} = (T \ {x}) \ {c}
      BY <2>3, <2>6
    <3>3. g[T \ {c}] = w(x) + g[(T \ {c}) \ {x}]
      BY <1>3, <3>1, <3>2
    <3>4. g[T \ {x}] = w(c) + g[(T \ {x}) \ {c}]
      BY <1>3, <2>3, <3>1, <3>2
    <3>5. w(c) \in Nat /\ w(x) \in Nat /\ g[(T \ {c}) \ {x}] \in Nat
      BY <2>3, WidthAssumption
    <3>6. PICK rest : rest = g[(T \ {c}) \ {x}]
      OBVIOUS
    <3>7. /\ g[T] = w(c) + (w(x) + rest) /\ g[T \ {x}] = w(c) + rest
          /\ rest \in Nat /\ w(c) \in Nat /\ w(x) \in Nat
      BY <2>4, <3>2, <3>3, <3>4, <3>5, <3>6
    <3> HIDE DEF w
    <3> QED
      BY <3>7
  <2> QED
    BY <2>5, <2>6
<1>4. \A k \in Nat : k \in Good
  <2> HIDE DEF Good
  <2> QED
    BY <1>2, <1>3, NatSetInduction
<1> QED
  BY <1>1, <1>4

(* What Weight comes down to.                                              *)
LEMMA WeightLaws ==
  ASSUME NEW lines \in Seq(Segments)
  PROVE  /\ Weight(lines, {}) = 0
         /\ \A S \in SUBSET DOMAIN lines : Weight(lines, S) \in Nat
         /\ \A S \in SUBSET DOMAIN lines, x \in DOMAIN lines :
               x \notin S => Weight(lines, S \cup {x}) = Width[lines[x]] + Weight(lines, S)
<1>1. PICK g \in [SUBSET DOMAIN lines -> Nat] : Sums(g, SUBSET DOMAIN lines, lines)
  BY SumsExist
<1>2. \A S \in SUBSET DOMAIN lines : Weight(lines, S) = g[S]
  BY <1>1, WeightIsSum
<1>3. g[{}] = 0
  BY <1>1 DEF Sums
<1>4. ASSUME NEW S \in SUBSET DOMAIN lines, NEW x \in DOMAIN lines, x \notin S
      PROVE  g[S \cup {x}] = Width[lines[x]] + g[S]
  <2>1. PICK T \in SUBSET DOMAIN lines : T = S \cup {x}
    OBVIOUS
  <2>2. x \in T /\ T \ {x} = S
    BY <1>4, <2>1
  <2>3. g[T] = Width[lines[x]] + g[T \ {x}]
    BY <1>1, <2>2, SumsRemove
  <2> QED
    BY <2>1, <2>2, <2>3
<1> QED
  BY <1>2, <1>3, <1>4

Founds == [lines : Seq(Segments), bytes : Nat]

LEMMA ExtractType ==
  ASSUME NEW segment \in Segments, NEW found \in Founds
  PROVE  Extract(segment, found) \in Founds
  BY WidthAssumption DEF Founds, Extract

Nothing == [lines |-> <<>>, bytes |-> 0]

LEMMA FoldRightExtract ==
  ASSUME NEW s \in Seq(Segments)
  PROVE  \E iter : /\ iter[{}] = Nothing
                   /\ \A k \in 1 .. Len(s) : iter[k .. Len(s)] = Extract(s[k], iter[k + 1 .. Len(s)])
                   /\ FoldRight(Extract, s, Nothing) = iter[1 .. Len(s)]
<1> DEFINE n == Len(s)
           step == [p \in (1 .. n) \X Founds |-> Extract(s[p[1]], p[2])]
<1>1. DOMAIN s = 1 .. n /\ n \in Nat /\ (\A i \in 1 .. n : s[i] \in Segments) /\ Nothing \in Founds
  BY DEF Nothing, Founds
<1>2. step \in [(1 .. n) \X Founds -> Founds]
  <2>1. ASSUME NEW p \in (1 .. n) \X Founds PROVE Extract(s[p[1]], p[2]) \in Founds
    BY <1>1, ExtractType
  <2> QED
    BY <2>1
<1>3. PICK f \in [SUBSET (1 .. n) -> Founds] : MinIterates(f, n, Nothing, step)
  <2> HIDE DEF step, n
  <2> QED
    BY <1>1, <1>2, MinIteration
<1>4. \A i \in 1 .. n, q \in Founds : step[<<i, q>>] = Extract(s[i], q)
  OBVIOUS
<1> HIDE DEF step
<1>5. f = [t \in SUBSET DOMAIN s |-> IF t = {} THEN Nothing ELSE Extract(s[Min(t)], f[t \ {Min(t)}])]
  <2>1. ASSUME NEW t \in SUBSET DOMAIN s
        PROVE  f[t] = IF t = {} THEN Nothing ELSE Extract(s[Min(t)], f[t \ {Min(t)}])
    <3>1. CASE t = {}
      BY <1>3, <3>1 DEF MinIterates
    <3>2. CASE t # {}
      <4>1. /\ Min(t) \in 1 .. n /\ t \ {Min(t)} \in SUBSET (1 .. n)
            /\ f[t] = step[<<Min(t), f[t \ {Min(t)}]>>]
        BY <1>1, <1>3, <3>2 DEF MinIterates
      <4>2. f[t \ {Min(t)}] \in Founds
        BY <4>1
      <4>3. f[t] = Extract(s[Min(t)], f[t \ {Min(t)}])
        BY <1>4, <4>1, <4>2
      <4> QED
        BY <3>2, <4>3
    <3> QED
      BY <3>1, <3>2
  <2>2. f = [t \in SUBSET DOMAIN s |-> f[t]]
    BY <1>1
  <2> QED
    BY <2>1, <2>2
<1>6. PICK iter :
         /\ iter = [t \in SUBSET DOMAIN s |-> IF t = {} THEN Nothing ELSE Extract(s[Min(t)], iter[t \ {Min(t)}])]
         /\ FoldRight(Extract, s, Nothing) = iter[DOMAIN s]
  BY <1>5 DEF FoldRight, MapThenFoldSet
<1>7. iter[{}] = Nothing
  BY <1>6
<1>8. ASSUME NEW k \in 1 .. n PROVE iter[k .. n] = Extract(s[k], iter[k + 1 .. n])
  <2>1. k .. n \in SUBSET DOMAIN s /\ k .. n # {} /\ Min(k .. n) = k /\ (k .. n) \ {k} = k + 1 .. n
    <3> HIDE DEF n
    <3> QED
      BY <1>1, LastNumbers
  <2> DEFINE t == k .. n
  <2>2. iter[t] = Extract(s[Min(t)], iter[t \ {Min(t)}])
    <3> HIDE DEF t
    <3> QED
      BY <1>6, <2>1 DEF t
  <2> QED
    BY <2>1, <2>2
<1> QED
  BY <1>1, <1>6, <1>7, <1>8

(* What has been found of the lines from k on is what is due of them.      *)
DueFrom(lines, k, d, found) ==
    /\ d \in SUBSET (k .. Len(lines))
    /\ \A i \in k .. Len(lines) : i \in d <=> lines[i] \notin Blank /\ Fits(lines, i, d)
    /\ found \in Founds
    /\ found.bytes = Weight(lines, d) /\ Len(found.lines) = Cardinality(d)
    /\ \A m \in 1 .. Cardinality(d) : \E i \in d :
          Cardinality(After(i, d)) = Cardinality(d) - m /\ found.lines[m] = lines[i]

LEMMA ExtractDue ==
  ASSUME NEW lines \in Seq(Segments), NEW k \in 1 .. Len(lines), NEW d, NEW found,
         DueFrom(lines, k + 1, d, found)
  PROVE  \E e : DueFrom(lines, k, e, Extract(lines[k], found))
<1>1. PICK n : n = Len(lines)
  OBVIOUS
<1>2. PICK c : c = Cardinality(d)
  OBVIOUS
<1>3. /\ n \in Nat /\ k \in 1 .. n /\ DOMAIN lines = 1 .. n /\ lines[k] \in Segments
      /\ d \in SUBSET (k + 1 .. n) /\ k \notin d
  BY <1>1 DEF DueFrom
<1>4. d \in SUBSET DOMAIN lines /\ IsFiniteSet(d) /\ c \in Nat
  <2>1. d \in SUBSET DOMAIN lines
    BY <1>3
  <2> QED
    BY <1>2, <2>1, FinitelyMany
<1>5. /\ found \in Founds /\ found.bytes = Weight(lines, d) /\ Len(found.lines) = c
      /\ \A m \in 1 .. c : \E i \in d :
            Cardinality(After(i, d)) = c - m /\ found.lines[m] = lines[i]
      /\ \A i \in k + 1 .. n : i \in d <=> lines[i] \notin Blank /\ Fits(lines, i, d)
  BY <1>1, <1>2 DEF DueFrom
<1>6. After(k, d) = d
  <2>1. \A j \in d : j > k
    BY <1>3
  <2> QED
    BY <2>1 DEF After
<1>7. Records(lines[k], found) <=> lines[k] \notin Blank /\ Fits(lines, k, d)
  <2>1. /\ Width[lines[k]] \in Nat /\ Weight(lines, d) \in Nat /\ MaxProgress \in Nat
        /\ (lines[k] \notin Blank => Width[lines[k]] >= 1)
    BY <1>3, <1>4, WidthAssumption, ProgressAssumption, WeightLaws
  <2>2. Fits(lines, k, d) <=> c < MaxRecorded /\ Width[lines[k]] + Weight(lines, d) <= MaxProgress
    BY <1>2, <1>6 DEF Fits
  <2>3. PICK w, b : w = Width[lines[k]] /\ b = Weight(lines, d)
    OBVIOUS
  <2>4. lines[k] \notin Blank => (b < MaxProgress /\ w \in 1 .. MaxProgress - b <=> w + b <= MaxProgress)
    BY <2>1, <2>3
  <2> QED
    BY <1>5, <2>2, <2>3, <2>4 DEF Records
<1>8. CASE Records(lines[k], found)
  <2> DEFINE e == d \cup {k}
             f == [lines |-> <<lines[k]>> \o found.lines, bytes |-> found.bytes + Width[lines[k]]]
  <2>1. Extract(lines[k], found) = f
    BY <1>8 DEF Extract
  <2>2. e \in SUBSET (k .. n) /\ After(k, e) = d /\ \A i \in k + 1 .. n : After(i, e) = After(i, d)
    <3>1. \A j \in d : j > k
      BY <1>3
    <3>2. After(k, e) = d
      <4>1. ~(k > k)
        BY <1>3
      <4> QED
        BY <3>1, <4>1 DEF After
    <3>3. ASSUME NEW i \in k + 1 .. n PROVE After(i, e) = After(i, d)
      <4>1. ~(k > i)
        BY <1>3
      <4> QED
        BY <4>1 DEF After
    <3>4. e \in SUBSET (k .. n)
      BY <1>3
    <3> QED
      BY <3>2, <3>3, <3>4
  <2>3. Cardinality(e) = c + 1
    BY <1>2, <1>3, <1>4, FS_AddElement
  <2>4. ASSUME NEW i \in k .. n PROVE i \in e <=> lines[i] \notin Blank /\ Fits(lines, i, e)
    <3>1. CASE i = k
      BY <1>6, <1>7, <1>8, <2>2, <3>1 DEF Fits
    <3>2. CASE i # k
      <4>1. i \in k + 1 .. n /\ (i \in e <=> i \in d)
        BY <1>3, <3>2
      <4>2. Fits(lines, i, e) <=> Fits(lines, i, d)
        BY <2>2, <4>1 DEF Fits
      <4> QED
        BY <1>5, <4>1, <4>2
    <3> QED
      BY <3>1, <3>2
  <2>5. f.bytes = Weight(lines, e)
    <3>1. Weight(lines, e) = Width[lines[k]] + Weight(lines, d)
      BY <1>3, <1>4, WeightLaws
    <3>2. Width[lines[k]] \in Nat /\ Weight(lines, d) \in Nat
      BY <1>3, <1>4, WeightLaws, WidthAssumption
    <3>3. f.bytes = Weight(lines, d) + Width[lines[k]]
      BY <1>5
    <3> HIDE DEF e, f
    <3> QED
      BY <3>1, <3>2, <3>3
  <2>6. /\ f.lines \in Seq(Segments) /\ Len(f.lines) = c + 1 /\ f.lines[1] = lines[k]
        /\ \A m \in 1 .. c : f.lines[m + 1] = found.lines[m]
    <3>1. PICK s \in Seq(Segments), x \in Segments : s = found.lines /\ x = lines[k]
      BY <1>3, <1>5 DEF Founds
    <3>2. PICK g : g = <<x>> \o s
      OBVIOUS
    <3>3. /\ g \in Seq(Segments) /\ Len(g) = Len(s) + 1 /\ g[1] = x
          /\ \A m \in 1 .. Len(s) : g[m + 1] = s[m]
      BY <3>1, <3>2
    <3>4. f.lines = g /\ Len(s) = c
      BY <1>5, <3>1, <3>2
    <3> HIDE DEF f
    <3> QED
      BY <3>1, <3>3, <3>4
  <2>7. f \in Founds
    BY <1>3, <1>5, <2>6, WidthAssumption DEF Founds
  <2>8. ASSUME NEW m \in 1 .. c + 1
        PROVE  \E i \in e : Cardinality(After(i, e)) = c + 1 - m /\ f.lines[m] = lines[i]
    <3>1. CASE m = 1
      <4>1. Cardinality(After(k, e)) = c + 1 - m /\ k \in e
        BY <1>2, <1>4, <2>2, <3>1
      <4> QED
        BY <2>6, <3>1, <4>1
    <3>2. CASE m # 1
      <4>1. m - 1 \in 1 .. c /\ (m - 1) + 1 = m /\ c + 1 - m = c - (m - 1)
        BY <1>4, <3>2
      <4>2. PICK i \in d : Cardinality(After(i, d)) = c - (m - 1) /\ found.lines[m - 1] = lines[i]
        BY <1>5, <4>1
      <4>3. f.lines[m] = lines[i]
        BY <2>6, <4>1, <4>2
      <4>4. i \in e /\ After(i, e) = After(i, d)
        BY <1>3, <2>2
      <4> HIDE DEF f, e
      <4> QED
        BY <4>1, <4>2, <4>3, <4>4
    <3> QED
      BY <3>1, <3>2
  <2> HIDE DEF e, f
  <2>9. DueFrom(lines, k, e, f)
    <3>1. Len(f.lines) = Cardinality(e)
      BY <2>3, <2>6
    <3>2. ASSUME NEW m \in 1 .. Cardinality(e)
          PROVE  \E i \in e : Cardinality(After(i, e)) = Cardinality(e) - m /\ f.lines[m] = lines[i]
      <4>1. m \in 1 .. c + 1 /\ Cardinality(e) - m = c + 1 - m
        BY <1>4, <2>3
      <4> QED
        BY <2>8, <4>1
    <3> QED
      BY <1>1, <2>2, <2>4, <2>5, <2>7, <3>1, <3>2 DEF DueFrom
  <2> QED
    BY <2>1, <2>9
<1>9. CASE ~Records(lines[k], found)
  <2>1. Extract(lines[k], found) = found
    BY <1>9 DEF Extract
  <2>2. ASSUME NEW i \in k .. n PROVE i \in d <=> lines[i] \notin Blank /\ Fits(lines, i, d)
    <3>1. CASE i = k
      BY <1>3, <1>7, <1>9, <3>1
    <3>2. CASE i # k
      <4>1. i \in k + 1 .. n
        BY <1>3, <3>2
      <4> QED
        BY <1>5, <4>1
    <3> QED
      BY <3>1, <3>2
  <2>3. d \in SUBSET (k .. n)
    BY <1>3
  <2>4. DueFrom(lines, k, d, found)
    BY <1>1, <1>2, <1>5, <2>2, <2>3 DEF DueFrom
  <2> QED
    BY <2>1, <2>4
<1> QED
  BY <1>8, <1>9

(* Of the due lines one is the last but one, and so on: no two have the    *)
(* same number of them after them.                                         *)
LEMMA FewerAfter ==
  ASSUME NEW lines \in Seq(Segments), NEW d \in SUBSET DOMAIN lines, NEW i \in d, NEW j \in d,
         Cardinality(After(i, d)) = Cardinality(After(j, d))
  PROVE  i = j
<1>1. /\ DOMAIN lines = 1 .. Len(lines) /\ Len(lines) \in Nat
      /\ \A x \in d : x \in Nat
  OBVIOUS
<1>2. ASSUME NEW x \in d, NEW y \in d, x < y
      PROVE  Cardinality(After(y, d)) < Cardinality(After(x, d))
  <2>1. After(x, d) \in SUBSET DOMAIN lines /\ After(y, d) \in SUBSET DOMAIN lines
    BY DEF After
  <2>2. After(y, d) \cup {y} \subseteq After(x, d) /\ y \notin After(y, d)
    <3>1. \A z \in d : z > y => z > x
      BY <1>1, <1>2
    <3>2. ~(y > y) /\ y > x
      BY <1>1, <1>2
    <3> QED
      BY <3>1, <3>2 DEF After
  <2>3. /\ IsFiniteSet(After(x, d)) /\ Cardinality(After(x, d)) \in Nat
        /\ IsFiniteSet(After(y, d)) /\ Cardinality(After(y, d)) \in Nat
    BY <2>1, FinitelyMany
  <2>4. Cardinality(After(y, d) \cup {y}) = Cardinality(After(y, d)) + 1
    BY <2>2, <2>3, FS_AddElement
  <2>5. Cardinality(After(y, d) \cup {y}) <= Cardinality(After(x, d))
    BY <2>2, <2>3, FS_Subset
  <2> QED
    BY <2>3, <2>4, <2>5
<1>3. ~(i < j) /\ ~(j < i)
  <2>1. After(i, d) \in SUBSET DOMAIN lines
    BY DEF After
  <2>2. Cardinality(After(i, d)) \in Nat
    BY <2>1, FinitelyMany
  <2> QED
    BY <1>2, <2>2
<1> QED
  BY <1>1, <1>3

LEMMA DueUnique ==
  ASSUME NEW lines \in Seq(Segments), NEW d \in SUBSET DOMAIN lines, IsDue(lines, d),
         NEW e \in SUBSET DOMAIN lines, IsDue(lines, e)
  PROVE  d = e
<1>1. PICK n : n = Len(lines)
  OBVIOUS
<1>2. n \in Nat /\ DOMAIN lines = 1 .. n
  BY <1>1
<1> DEFINE Same == {k \in Nat : \A i \in 1 .. n : i > n - k => (i \in d <=> i \in e)}
<1>3. 0 \in Same
  BY <1>2
<1>4. ASSUME NEW k \in Nat, k \in Same PROVE k + 1 \in Same
  <2>1. SUFFICES ASSUME NEW i \in 1 .. n, i > n - (k + 1) PROVE i \in d <=> i \in e
    OBVIOUS
  <2>2. \A j \in 1 .. n : j > i => (j \in d <=> j \in e)
    <3>1. \A j \in 1 .. n : j > i => j > n - k
      BY <1>2, <2>1
    <3> QED
      BY <1>4, <3>1
  <2>3. After(i, d) = After(i, e)
    BY <1>2, <2>2 DEF After
  <2>4. Fits(lines, i, d) <=> Fits(lines, i, e)
    BY <2>3 DEF Fits
  <2> QED
    BY <1>2, <2>4 DEF IsDue
<1>5. n \in Same
  <2> HIDE DEF Same
  <2> QED
    BY <1>2, <1>3, <1>4, NatSetInduction
<1>6. \A i \in 1 .. n : i \in d <=> i \in e
  BY <1>2, <1>5
<1> QED
  BY <1>2, <1>6

(* The search finds what is due.                                           *)
LEMMA ExtractedIsDue ==
  ASSUME NEW chunk, Tail(chunk) \in Seq(Segments)
  PROVE  Extracted(chunk) = Due(chunk) /\ Extracted(chunk) \in Seq(Segments)
<1>1. PICK lines \in Seq(Segments) : lines = Tail(chunk)
  OBVIOUS
<1>2. PICK n : n = Len(lines)
  OBVIOUS
<1>3. n \in Nat /\ DOMAIN lines = 1 .. n
  BY <1>2
<1>4. PICK iter : /\ iter[{}] = Nothing
                  /\ \A k \in 1 .. n : iter[k .. n] = Extract(lines[k], iter[k + 1 .. n])
                  /\ FoldRight(Extract, lines, Nothing) = iter[1 .. n]
  BY <1>2, FoldRightExtract
<1> DEFINE Good == {j \in Nat : j <= n => \E d : DueFrom(lines, n - j + 1, d, iter[n - j + 1 .. n])}
<1>5. 0 \in Good
  <2>1. n - 0 + 1 = n + 1 /\ n + 1 .. n = {}
    BY <1>3
  <2>2. Cardinality({}) = 0 /\ Weight(lines, {}) = 0
    BY FS_EmptySet, WeightLaws
  <2>3. DueFrom(lines, n + 1, {}, Nothing)
    BY <1>2, <2>1, <2>2 DEF DueFrom, Nothing, Founds
  <2> QED
    BY <1>4, <2>1, <2>3
<1>6. ASSUME NEW j \in Nat, j \in Good PROVE j + 1 \in Good
  <2>1. SUFFICES ASSUME j + 1 <= n
                 PROVE  \E d : DueFrom(lines, n - (j + 1) + 1, d, iter[n - (j + 1) + 1 .. n])
    OBVIOUS
  <2>2. PICK k : k = n - j
    OBVIOUS
  <2>3. k \in 1 .. n /\ n - (j + 1) + 1 = k /\ n - j + 1 = k + 1
    BY <1>3, <2>1, <2>2
  <2>4. PICK d : DueFrom(lines, k + 1, d, iter[k + 1 .. n])
    BY <1>3, <1>6, <2>1, <2>3
  <2>5. \E e : DueFrom(lines, k, e, Extract(lines[k], iter[k + 1 .. n]))
    BY <1>2, <2>3, <2>4, ExtractDue
  <2> QED
    BY <1>4, <2>3, <2>5
<1>7. n \in Good
  <2> HIDE DEF Good
  <2> QED
    BY <1>3, <1>5, <1>6, NatSetInduction
<1>8. PICK found : found = iter[1 .. n]
  OBVIOUS
<1>9. PICK d : DueFrom(lines, 1, d, found)
  <2>1. n - n + 1 = 1
    BY <1>3
  <2> QED
    BY <1>3, <1>7, <1>8, <2>1
<1>10. d \in SUBSET DOMAIN lines /\ IsDue(lines, d)
  BY <1>2, <1>3, <1>9 DEF DueFrom, IsDue
<1>11. d = CHOOSE e \in SUBSET DOMAIN lines : IsDue(lines, e)
  BY <1>10, DueUnique
<1>12. PICK c : c = Cardinality(d)
  OBVIOUS
<1>13. /\ c \in Nat /\ found.lines \in Seq(Segments) /\ Len(found.lines) = c
       /\ \A m \in 1 .. c : \E i \in d : Cardinality(After(i, d)) = c - m /\ found.lines[m] = lines[i]
  BY <1>9, <1>10, <1>12, FinitelyMany DEF DueFrom, Founds
<1>14. Due(chunk) = [m \in 1 .. c |-> lines[CHOOSE i \in d : Cardinality(After(i, d)) = c - m]]
  BY <1>1, <1>11, <1>12 DEF Due
<1>15. ASSUME NEW m \in 1 .. c
       PROVE  found.lines[m] = lines[CHOOSE i \in d : Cardinality(After(i, d)) = c - m]
  <2>1. PICK i \in d : Cardinality(After(i, d)) = c - m /\ found.lines[m] = lines[i]
    BY <1>13
  <2>2. PICK o : o = CHOOSE x \in d : Cardinality(After(x, d)) = c - m
    OBVIOUS
  <2>3. o \in d /\ Cardinality(After(o, d)) = c - m
    BY <2>1, <2>2
  <2>4. o = i
    BY <1>10, <2>1, <2>3, FewerAfter
  <2> QED
    BY <2>1, <2>2, <2>4
<1>16. Due(chunk) = found.lines
  <2>1. found.lines = [m \in 1 .. c |-> found.lines[m]]
    BY <1>13
  <2> QED
    BY <1>14, <1>15, <2>1
<1>17. Extracted(chunk) = found.lines
  BY <1>1, <1>4, <1>8 DEF Extracted, Nothing
<1> QED
  BY <1>13, <1>16, <1>17

-----------------------------------------------------------------------------
(* The ring is what it should be, whatever the chunks were.                *)
LinesIInv == RingHolds(ring, recorded) /\ onProgress \in BOOLEAN

LEMMA EmptyHolds == RingHolds(EmptyRing, <<>>)
<1>1. EmptyRing \in Rings
  BY RingAssumption DEF EmptyRing, Rings
<1>2. EmptyRing.size = 0 /\ EmptyRing.head = 0 /\ 0 < Capacity
  BY RingAssumption DEF EmptyRing
<1> QED
  BY <1>1, <1>2 DEF RingHolds

LEMMA EmptyWindow == GetRecent(EmptyRing, Capacity) = <<>>
<1>1. EmptyRing.size = 0 /\ 0 < Capacity /\ Capacity \in Nat
  BY RingAssumption DEF EmptyRing
<1> QED
  BY <1>1 DEF GetRecent

LEMMA LinesInitEstablishes == LinesInit => LinesIInv /\ Window!Init
  BY EmptyHolds, EmptyWindow DEF LinesInit, LinesIInv, Window!Init

LEMMA ChunkTail ==
  ASSUME NEW n \in 1 .. MaxSegments, NEW chunk \in [1 .. n -> Segments]
  PROVE  Tail(chunk) \in Seq(Segments)
<1>1. n \in Nat /\ n >= 1
  OBVIOUS
<1>2. chunk \in Seq(Segments) /\ chunk # <<>>
  BY <1>1
<1> QED
  BY <1>2

LEMMA UpdateRecords ==
  ASSUME LinesIInv, NEW n \in 1 .. MaxSegments, NEW chunk \in [1 .. n -> Segments],
         UpdateProgress(chunk)
  PROVE  /\ LinesIInv'
         /\ Window!Record \/ UNCHANGED <<recorded, GetRecent(ring, Capacity), shownLines, onProgress>>
<1>1. PICK found \in Seq(Segments) : found = Extracted(chunk) /\ found = Due(chunk)
  BY ChunkTail, ExtractedIsDue
<1>2. /\ ring' = FoldLeft(Add, ring, found) /\ recorded' = recorded \o found
      /\ shownLines' = (IF onProgress /\ found # <<>> THEN GetRecent(ring', Recent) ELSE shownLines)
      /\ onProgress' = onProgress
  BY <1>1 DEF UpdateProgress
<1>3. RingHolds(ring, recorded) /\ recorded \in Seq(Segments) /\ ring \in Rings
  BY DEF LinesIInv, RingHolds
<1>4. RingHolds(ring', recorded')
  BY <1>2, <1>3, AddsHold
<1>5. LinesIInv'
  BY <1>2, <1>4 DEF LinesIInv
<1>6. CASE found = <<>>
  <2>1. FoldLeft(Add, ring, found) = ring
    <3>1. PICK iter : /\ iter[{}] = ring
                      /\ \A k \in 1 .. Len(found) : iter[1 .. k] = Add(iter[1 .. k - 1], found[k])
                      /\ FoldLeft(Add, ring, found) = iter[1 .. Len(found)]
      BY <1>3, FoldLeftAdd
    <3>2. 1 .. Len(found) = {}
      BY <1>6
    <3> QED
      BY <3>1, <3>2
  <2>2. recorded' = recorded
    BY <1>2, <1>3, <1>6
  <2> QED
    BY <1>2, <1>5, <1>6, <2>1, <2>2
<1>7. CASE found # <<>>
  <2>1. recorded' \in Seq(Segments)
    BY <1>4 DEF RingHolds
  <2>2. Window!IsStrictPrefix(recorded, recorded')
    <3>1. PICK s \in Seq(Segments) : s = recorded
      BY <1>3
    <3>2. PICK t : t = s \o found
      OBVIOUS
    <3>3. Len(s) <= Len(t) /\ s # t
      BY <1>7, <3>2
    <3>4. SubSeq(s, 1, Len(s)) = SubSeq(t, 1, Len(s))
      BY <3>2
    <3>5. Window!IsStrictPrefix(s, t)
      BY <3>3, <3>4 DEF Window!IsStrictPrefix, Window!IsPrefix
    <3> QED
      BY <1>2, <3>1, <3>2, <3>5
  <2>3. GetRecent(ring', Capacity) = Window!LastOf(Capacity, recorded')
    BY <1>4, RecentHeld, RingAssumption
  <2>4. GetRecent(ring', Recent) = Window!LastOf(Recent, recorded')
    BY <1>4, RecentHeld, RingAssumption
  <2>5. Window!Record
    BY <1>2, <1>7, <2>1, <2>2, <2>3, <2>4 DEF Window!Record
  <2> QED
    BY <1>5, <2>5
<1> QED
  BY <1>6, <1>7

LEMMA ClearClears ==
  ASSUME ClearLines PROVE LinesIInv' /\ Window!Clear
<1>1. ring' = EmptyRing /\ recorded' = <<>> /\ onProgress' = FALSE /\ shownLines' = shownLines
  BY DEF ClearLines
<1> QED
  BY <1>1, EmptyHolds, EmptyWindow DEF LinesIInv, Window!Clear

(* However chunks fill the ring and wrap around in it, and although they   *)
(* are searched backwards under two limits, the ring holds the last of all *)
(* lines that were due and the callback sees their end.                    *)
THEOREM RecentLinesRefine == LinesSpec => ImplementsRecent
<1>1. LinesInit => LinesIInv /\ Window!Init
  BY LinesInitEstablishes
<1>2. ASSUME LinesIInv, [LinesNext]_linesVars
      PROVE  /\ LinesIInv'
             /\ [Window!Record \/ Window!Clear]_<<recorded, GetRecent(ring, Capacity), shownLines, onProgress>>
  <2>1. CASE ClearLines
    BY <2>1, ClearClears
  <2>2. CASE \E n \in 1 .. MaxSegments : \E chunk \in [1 .. n -> Segments] : UpdateProgress(chunk)
    BY <1>2, <2>2, UpdateRecords
  <2>3. CASE UNCHANGED linesVars
    <3>1. ring' = ring /\ recorded' = recorded /\ shownLines' = shownLines /\ onProgress' = onProgress
      BY <2>3 DEF linesVars
    <3> QED
      BY <1>2, <3>1 DEF LinesIInv
  <2> QED
    BY <1>2, <2>1, <2>2, <2>3 DEF LinesNext
<1> QED
  BY <1>1, <1>2, PTL DEF LinesSpec, ImplementsRecent, Window!Spec

-----------------------------------------------------------------------------
(* The first and the last byte of a character.                             *)
LEMMA FoldSum ==
  ASSUME NEW s \in Seq(Nat)
  PROVE  \E iter : /\ iter[{}] = 0
                   /\ \A k \in 1 .. Len(s) : iter[1 .. k] = iter[1 .. k - 1] + s[k]
                   /\ FoldLeft(+, 0, s) = iter[1 .. Len(s)]
<1> DEFINE n == Len(s)
           step == [p \in (1 .. n) \X Nat |-> s[p[1]] + p[2]]
<1>1. DOMAIN s = 1 .. n /\ n \in Nat /\ \A i \in 1 .. n : s[i] \in Nat
  OBVIOUS
<1>2. step \in [(1 .. n) \X Nat -> Nat]
  BY <1>1
<1>3. PICK f \in [SUBSET (1 .. n) -> Nat] : MaxIterates(f, n, 0, step)
  <2> HIDE DEF step, n
  <2> QED
    BY <1>1, <1>2, MaxIteration
<1>4. \A i \in 1 .. n, q \in Nat : step[<<i, q>>] = q + s[i]
  BY <1>1
<1> HIDE DEF step
<1>5. f = [t \in SUBSET DOMAIN s |-> IF t = {} THEN 0 ELSE f[t \ {Max(t)}] + s[Max(t)]]
  <2>1. ASSUME NEW t \in SUBSET DOMAIN s
        PROVE  f[t] = IF t = {} THEN 0 ELSE f[t \ {Max(t)}] + s[Max(t)]
    <3>1. CASE t = {}
      BY <1>3, <3>1 DEF MaxIterates
    <3>2. CASE t # {}
      <4>1. /\ Max(t) \in 1 .. n /\ t \ {Max(t)} \in SUBSET (1 .. n)
            /\ f[t] = step[<<Max(t), f[t \ {Max(t)}]>>]
        BY <1>1, <1>3, <3>2 DEF MaxIterates
      <4>2. f[t \ {Max(t)}] \in Nat
        BY <4>1
      <4>3. f[t] = f[t \ {Max(t)}] + s[Max(t)]
        BY <1>4, <4>1, <4>2
      <4> QED
        BY <3>2, <4>3
    <3> QED
      BY <3>1, <3>2
  <2>2. f = [t \in SUBSET DOMAIN s |-> f[t]]
    BY <1>1
  <2> QED
    BY <2>1, <2>2
<1>6. PICK iter :
         /\ iter = [t \in SUBSET DOMAIN s |-> IF t = {} THEN 0 ELSE iter[t \ {Max(t)}] + s[Max(t)]]
         /\ FoldLeft(+, 0, s) = iter[DOMAIN s]
  BY <1>5 DEF FoldLeft, MapThenFoldSet
<1>7. iter[{}] = 0
  BY <1>6
<1>8. ASSUME NEW k \in 1 .. n PROVE iter[1 .. k] = iter[1 .. k - 1] + s[k]
  <2>1. 1 .. k \in SUBSET DOMAIN s /\ 1 .. k # {} /\ Max(1 .. k) = k /\ (1 .. k) \ {k} = 1 .. k - 1
    <3> HIDE DEF n
    <3> QED
      BY <1>1, FirstNumbers
  <2> DEFINE t == 1 .. k
  <2>2. iter[t] = iter[t \ {Max(t)}] + s[Max(t)]
    <3> HIDE DEF t
    <3> QED
      BY <1>6, <2>1 DEF t
  <2> QED
    BY <2>1, <2>2
<1> QED
  BY <1>1, <1>6, <1>7, <1>8

LEMMA EndLaws ==
  /\ Characters = 1 .. Len(Widths) /\ Len(Widths) \in Nat
  /\ \A c \in Characters :
        /\ Start(c) \in Nat \ {0} /\ End(c) \in Nat /\ Start(c) <= End(c)
        /\ \A d \in Characters : c < d => End(c) < Start(d)
<1> DEFINE n == Len(Widths)
           cut(c) == SubSeq(Widths, 1, c)
<1>1. Widths \in Seq(Nat) /\ n \in Nat /\ Characters = 1 .. n /\ \A c \in 1 .. n : Widths[c] \in 1 .. 4
  <2>1. Widths \in Seq(1 .. 4)
    BY TextAssumption
  <2>2. \A c \in 1 .. n : Widths[c] \in 1 .. 4 /\ Widths[c] \in Nat
    BY <2>1
  <2>3. Widths \in Seq(Nat)
    BY <2>1, <2>2, SeqMonotonic
  <2> QED
    BY <2>1, <2>2, <2>3 DEF Characters
<1>2. PICK sum : /\ sum[{}] = 0
                 /\ \A k \in 1 .. n : sum[1 .. k] = sum[1 .. k - 1] + Widths[k]
                 /\ FoldLeft(+, 0, Widths) = sum[1 .. n]
  BY <1>1, FoldSum
<1>3. ASSUME NEW c \in 0 .. n PROVE End(c) = sum[1 .. c]
  <2>1. cut(c) \in Seq(Nat) /\ Len(cut(c)) = c /\ \A k \in 1 .. c : cut(c)[k] = Widths[k]
    BY <1>1
  <2>2. PICK iter : /\ iter[{}] = 0
                    /\ \A k \in 1 .. Len(cut(c)) : iter[1 .. k] = iter[1 .. k - 1] + cut(c)[k]
                    /\ FoldLeft(+, 0, cut(c)) = iter[1 .. Len(cut(c))]
    BY <2>1, FoldSum
  <2> DEFINE Same == {k \in Nat : k <= c => iter[1 .. k] = sum[1 .. k]}
  <2>3. 0 \in Same
    <3>1. 1 .. 0 = {}
      OBVIOUS
    <3> QED
      BY <1>2, <2>2, <3>1
  <2>4. ASSUME NEW k \in Nat, k \in Same PROVE k + 1 \in Same
    <3>1. SUFFICES ASSUME k + 1 <= c PROVE iter[1 .. k + 1] = sum[1 .. k + 1]
      OBVIOUS
    <3>2. k + 1 \in 1 .. c /\ k + 1 \in 1 .. n /\ (k + 1) - 1 = k /\ k <= c
      BY <1>1, <3>1
    <3>3. iter[1 .. k + 1] = iter[1 .. k] + Widths[k + 1]
      BY <2>1, <2>2, <3>2
    <3>4. sum[1 .. k + 1] = sum[1 .. k] + Widths[k + 1]
      BY <1>2, <3>2
    <3> QED
      BY <2>4, <3>2, <3>3, <3>4
  <2>5. \A k \in Nat : k \in Same
    <3> HIDE DEF Same
    <3> QED
      BY <2>3, <2>4, NatSetInduction
  <2>6. FoldLeft(+, 0, cut(c)) = sum[1 .. c]
    <3>1. c \in Nat
      BY <1>1
    <3>2. iter[1 .. c] = sum[1 .. c]
      BY <2>5, <3>1
    <3>3. FoldLeft(+, 0, cut(c)) = iter[1 .. c]
      BY <2>1, <2>2
    <3> QED
      BY <3>2, <3>3
  <2> QED
    BY <2>6 DEF End
<1>4. ASSUME NEW c \in 1 .. n PROVE End(c) = End(c - 1) + Widths[c]
  <2>1. c \in 0 .. n /\ c - 1 \in 0 .. n
    BY <1>1
  <2> QED
    BY <1>2, <1>3, <2>1
<1>5. End(0) = 0
  <2>1. 1 .. 0 = {} /\ 0 \in 0 .. n
    BY <1>1
  <2> QED
    BY <1>2, <1>3, <2>1
<1> HIDE DEF cut
<1> DEFINE Good == {k \in Nat : k <= n =>
                       End(k) \in Nat /\ \A c \in 0 .. k : End(c) \in Nat /\ End(c) <= End(k)}
<1>6. 0 \in Good
  BY <1>5
<1>7. ASSUME NEW k \in Nat, k \in Good PROVE k + 1 \in Good
  <2>1. SUFFICES ASSUME k + 1 <= n
                 PROVE  End(k + 1) \in Nat /\ \A c \in 0 .. k + 1 : End(c) \in Nat /\ End(c) <= End(k + 1)
    OBVIOUS
  <2>2. k + 1 \in 1 .. n /\ (k + 1) - 1 = k /\ k <= n
    BY <1>1, <2>1
  <2>3. End(k + 1) = End(k) + Widths[k + 1] /\ Widths[k + 1] \in 1 .. 4
    BY <1>1, <1>4, <2>2
  <2>4. End(k) \in Nat /\ \A c \in 0 .. k : End(c) \in Nat /\ End(c) <= End(k)
    BY <1>7, <2>2
  <2>5. \A c \in 0 .. k + 1 : c \in 0 .. k \/ c = k + 1
    OBVIOUS
  <2>6. End(k + 1) \in Nat /\ End(k) <= End(k + 1)
    BY <2>3, <2>4
  <2> QED
    BY <2>4, <2>5, <2>6
<1>8. \A k \in Nat : k \in Good
  <2> HIDE DEF Good
  <2> QED
    BY <1>6, <1>7, NatSetInduction
<1>9. \A k \in 0 .. n : End(k) \in Nat /\ \A c \in 0 .. k : End(c) <= End(k)
  BY <1>1, <1>8
<1>10. ASSUME NEW c \in 1 .. n
       PROVE  Start(c) = End(c - 1) + 1 /\ End(c - 1) \in Nat /\ End(c) \in Nat /\ Start(c) <= End(c)
  <2>1. c - 1 \in 0 .. n /\ c \in 0 .. n
    BY <1>1
  <2>2. End(c - 1) \in Nat /\ End(c) \in Nat /\ Widths[c] \in 1 .. 4
    BY <1>1, <1>9, <2>1
  <2> QED
    BY <1>4, <2>2 DEF Start
<1>11. ASSUME NEW c \in 1 .. n, NEW d \in 1 .. n, c < d PROVE End(c) < Start(d)
  <2>1. d - 1 \in 0 .. n /\ c \in 0 .. d - 1
    BY <1>1, <1>11
  <2>2. End(c) <= End(d - 1)
    BY <1>9, <2>1
  <2> QED
    BY <1>10, <2>2
<1> QED
  BY <1>1, <1>10, <1>11

(* What FlattenSeq comes down to.                                          *)
Flattens(g, n, seqs) ==
    /\ g[0] = <<>>
    /\ \A k \in 1 .. n : g[k] = g[k - 1] \o seqs[k]
    /\ FlattenSeq(seqs) = g[n]

LEMMA FlattenSteps ==
  ASSUME NEW T, NEW n \in Nat \ {0}, NEW seqs \in [1 .. n -> Seq(T)]
  PROVE  \E g : Flattens(g, n, seqs)
<1> DEFINE step == [p \in (1 .. n) \X Seq(T) |-> p[2] \o seqs[p[1]]]
<1>1. step \in [(1 .. n) \X Seq(T) -> Seq(T)] /\ <<>> \in Seq(T) /\ n \in Nat
  <2>1. ASSUME NEW p \in (1 .. n) \X Seq(T) PROVE p[2] \o seqs[p[1]] \in Seq(T)
    <3>1. p[2] \in Seq(T) /\ seqs[p[1]] \in Seq(T)
      OBVIOUS
    <3> QED
      BY <3>1, ConcatProperties
  <2> QED
    BY <2>1
<1>2. PICK f \in [SUBSET (1 .. n) -> Seq(T)] : MaxIterates(f, n, <<>>, step)
  <2> HIDE DEF step
  <2> QED
    BY <1>1, MaxIteration
<1>3. \A i \in 1 .. n, q \in Seq(T) : step[<<i, q>>] = q \o seqs[i]
  OBVIOUS
<1> HIDE DEF step
<1> DEFINE h == [k \in 0 .. n |-> f[1 .. k]]
<1>4. h[0] = <<>>
  <2>1. 1 .. 0 = {}
    OBVIOUS
  <2> QED
    BY <1>2, <2>1 DEF MaxIterates
<1>5. ASSUME NEW k \in 1 .. n PROVE h[k] = h[k - 1] \o seqs[k] /\ h[k - 1] \in Seq(T) /\ h[k] \in Seq(T)
  <2>1. 1 .. k \in SUBSET (1 .. n) /\ 1 .. k # {} /\ Max(1 .. k) = k /\ (1 .. k) \ {k} = 1 .. k - 1
    BY FirstNumbers
  <2>2. f[1 .. k] = step[<<k, f[1 .. k - 1]>>]
    BY <1>2, <2>1 DEF MaxIterates
  <2>3. f[1 .. k - 1] \in Seq(T) /\ f[1 .. k] \in Seq(T)
    <3>1. 1 .. k - 1 \in SUBSET (1 .. n)
      OBVIOUS
    <3> QED
      BY <1>2, <2>1, <3>1
  <2>4. h[k] = f[1 .. k] /\ h[k - 1] = f[1 .. k - 1]
    OBVIOUS
  <2> HIDE DEF h
  <2> QED
    BY <1>3, <2>2, <2>3, <2>4
<1> HIDE DEF h
<1>6. Len(seqs) = n
  OBVIOUS
<1> DEFINE r == [i \in 1 .. n |-> h[i]]
<1>7. r = [i \in 1 .. Len(seqs) |-> IF i = 1 THEN seqs[i] ELSE r[i - 1] \o seqs[i]]
  <2>1. ASSUME NEW i \in 1 .. n PROVE r[i] = IF i = 1 THEN seqs[i] ELSE r[i - 1] \o seqs[i]
    <3>1. CASE i = 1
      <4>1. seqs[i] \in Seq(T) /\ i - 1 = 0
        BY <3>1
      <4>2. <<>> \o seqs[i] = seqs[i]
        BY <4>1, ConcatEmptySeq
      <4>3. r[i] = h[i - 1] \o seqs[i]
        BY <1>5
      <4> QED
        BY <1>4, <3>1, <4>1, <4>2, <4>3
    <3>2. CASE i # 1
      <4>1. i - 1 \in 1 .. n
        BY <3>2
      <4> QED
        BY <1>5, <3>2, <4>1
    <3> QED
      BY <3>1, <3>2
  <2> HIDE DEF r
  <2>2. r = [i \in 1 .. n |-> r[i]]
    BY DEF r
  <2> QED
    BY <1>6, <2>1, <2>2
<1> HIDE DEF r
<1>8. PICK g : /\ g = [i \in 1 .. Len(seqs) |-> IF i = 1 THEN seqs[i] ELSE g[i - 1] \o seqs[i]]
               /\ FlattenSeq(seqs) = g[Len(seqs)]
  BY <1>6, <1>7 DEF FlattenSeq
<1> DEFINE Same == {k \in Nat : k + 1 <= n => g[k + 1] = h[k + 1]}
<1>9. 0 \in Same
  <2>1. g[1] = seqs[1]
    BY <1>6, <1>8
  <2>2. h[1] = seqs[1]
    <3>1. 1 \in 1 .. n
      OBVIOUS
    <3>2. r[1] = seqs[1]
      BY <1>6, <1>7, <3>1
    <3> QED
      BY <3>1, <3>2 DEF r
  <2> QED
    BY <2>1, <2>2
<1>10. ASSUME NEW k \in Nat, k \in Same PROVE k + 1 \in Same
  <2>1. SUFFICES ASSUME (k + 1) + 1 <= n PROVE g[(k + 1) + 1] = h[(k + 1) + 1]
    OBVIOUS
  <2>2. PICK i : i = (k + 1) + 1
    OBVIOUS
  <2>3. i \in 1 .. n /\ i # 1 /\ i - 1 = k + 1 /\ k + 1 <= n
    BY <2>1, <2>2
  <2>4. g[i] = g[i - 1] \o seqs[i]
    BY <1>6, <1>8, <2>3
  <2>5. h[i] = h[i - 1] \o seqs[i]
    BY <1>5, <2>3
  <2>6. g[i - 1] = h[i - 1]
    BY <1>10, <2>3
  <2> QED
    BY <2>2, <2>4, <2>5, <2>6
<1>11. g[n] = h[n]
  <2> HIDE DEF Same
  <2>1. \A k \in Nat : k \in Same
    BY <1>9, <1>10, NatSetInduction
  <2>2. PICK m \in Nat : n = m + 1
    <3>1. n - 1 \in Nat /\ n = (n - 1) + 1
      OBVIOUS
    <3> QED
      BY <3>1
  <2>3. g[m + 1] = h[m + 1]
    <3>1. m + 1 <= n
      BY <2>2
    <3> QED
      BY <2>1, <3>1 DEF Same
  <2> QED
    BY <2>2, <2>3
<1>12. FlattenSeq(seqs) = h[n]
  BY <1>6, <1>8, <1>11
<1>13. Flattens(h, n, seqs)
  BY <1>4, <1>5, <1>12 DEF Flattens
<1> QED
  BY <1>13

LEMMA InPlaceConcat ==
  ASSUME NEW a \in Seq(Nat), NEW b \in Seq(Nat), InPlace(a), InPlace(b),
         \A x \in Shown(a), y \in Shown(b) : x < y
  PROVE  InPlace(a \o b) /\ Shown(a \o b) = Shown(a) \cup Shown(b)
<1> DEFINE m == Len(a)  n == Len(b)
<1>1. m \in Nat /\ n \in Nat /\ DOMAIN a = 1 .. m /\ DOMAIN b = 1 .. n
  OBVIOUS
<1>2. PICK t : t = a \o b
  OBVIOUS
<1>3. /\ DOMAIN t = 1 .. m + n
      /\ \A i \in 1 .. m : t[i] = a[i]
      /\ \A i \in 1 .. n : t[m + i] = b[i]
  BY <1>2
<1> HIDE DEF m, n
<1>4. ASSUME NEW i \in 1 .. m + n
      PROVE  i \in 1 .. m \/ (i - m \in 1 .. n /\ i = m + (i - m))
  BY <1>1
<1>5. ASSUME NEW i \in DOMAIN t, NEW j \in DOMAIN t, i < j, t[i] # 0, t[j] # 0
      PROVE  t[i] < t[j]
  <2>1. CASE i \in 1 .. m /\ j \in 1 .. m
    BY <1>1, <1>3, <1>5, <2>1 DEF InPlace
  <2>2. CASE i \in 1 .. m /\ j \notin 1 .. m
    <3>1. j - m \in 1 .. n /\ j = m + (j - m)
      BY <1>3, <1>4, <2>2
    <3>2. t[j] = b[j - m] /\ t[i] = a[i]
      BY <1>3, <2>2, <3>1
    <3>3. t[i] \in Shown(a) /\ t[j] \in Shown(b)
      BY <1>1, <1>5, <2>2, <3>1, <3>2 DEF Shown, ToSet
    <3> QED
      BY <3>3
  <2>3. CASE i \notin 1 .. m
    <3>1. j \notin 1 .. m
      BY <1>1, <1>3, <1>5, <2>3
    <3>2. /\ i - m \in 1 .. n /\ i = m + (i - m)
          /\ j - m \in 1 .. n /\ j = m + (j - m)
      BY <1>3, <1>4, <2>3, <3>1
    <3>3. t[i] = b[i - m] /\ t[j] = b[j - m]
      BY <1>3, <3>2
    <3>4. i - m < j - m
      BY <1>1, <1>3, <1>5
    <3> QED
      BY <1>1, <1>5, <3>2, <3>3, <3>4 DEF InPlace
  <2> QED
    BY <2>1, <2>2, <2>3
<1>6. Shown(t) = Shown(a) \cup Shown(b)
  <2>1. ASSUME NEW x \in Shown(t) PROVE x \in Shown(a) \cup Shown(b)
    <3>1. x # 0
      BY DEF Shown
    <3>2. PICK i \in DOMAIN t : x = t[i]
      BY DEF Shown, ToSet
    <3>3. CASE i \in 1 .. m
      BY <1>1, <1>3, <3>1, <3>2, <3>3 DEF Shown, ToSet
    <3>4. CASE i \notin 1 .. m
      <4>1. i - m \in 1 .. n /\ i = m + (i - m)
        BY <1>3, <1>4, <3>4
      <4>2. x = b[i - m]
        BY <1>3, <3>2, <4>1
      <4> QED
        BY <1>1, <3>1, <4>1, <4>2 DEF Shown, ToSet
    <3> QED
      BY <3>3, <3>4
  <2>2. ASSUME NEW x \in Shown(a) PROVE x \in Shown(t)
    <3>1. PICK i \in 1 .. m : x = a[i] /\ x # 0
      BY <1>1 DEF Shown, ToSet
    <3>2. i \in DOMAIN t /\ t[i] = x
      BY <1>1, <1>3, <3>1
    <3> QED
      BY <3>1, <3>2 DEF Shown, ToSet
  <2>3. ASSUME NEW x \in Shown(b) PROVE x \in Shown(t)
    <3>1. PICK i \in 1 .. n : x = b[i] /\ x # 0
      BY <1>1 DEF Shown, ToSet
    <3>2. m + i \in DOMAIN t /\ t[m + i] = x
      BY <1>1, <1>3, <3>1
    <3> QED
      BY <3>1, <3>2 DEF Shown, ToSet
  <2> QED
    BY <2>1, <2>2, <2>3
<1> QED
  BY <1>2, <1>5, <1>6 DEF InPlace

LEMMA OneCharacter ==
  ASSUME NEW c \in Characters, NEW first \in Nat, NEW last \in Nat,
         NEW d, d = DecodeCharacter(c, first, last)
  PROVE  /\ d \in Seq(Nat) /\ \A i \in DOMAIN d : d[i] \in {0, c}
         /\ InPlace(d)
         /\ Shown(d) = IF first <= Start(c) /\ End(c) <= last THEN {c} ELSE {}
         /\ first <= Start(c) /\ Start(c) <= last => Len(d) >= 1
<1>1. PICK s, e : s = Start(c) /\ e = End(c)
  OBVIOUS
<1>2. s \in Nat \ {0} /\ e \in Nat /\ s <= e /\ c \in Nat \ {0}
  BY <1>1, EndLaws
<1>3. CASE last < s \/ e < first
  <2>1. d = <<>>
    <3>1. ~(first <= s /\ e <= last) /\ ~(s \in first .. last /\ last < e)
      BY <1>2, <1>3
    <3> QED
      BY <1>1, <1>3, <3>1 DEF DecodeCharacter
  <2>2. Shown(d) = {} /\ InPlace(d)
    BY <2>1 DEF Shown, ToSet, InPlace
  <2>3. ~(first <= s /\ e <= last) /\ ~(first <= s /\ s <= last)
    BY <1>2, <1>3
  <2> QED
    BY <1>1, <2>1, <2>2, <2>3
<1>4. CASE ~(last < s \/ e < first) /\ first <= s /\ e <= last
  <2>1. d = <<c>>
    <3>1. ~(s \in first .. last /\ last < e)
      BY <1>2, <1>4
    <3> QED
      BY <1>1, <1>4, <3>1 DEF DecodeCharacter
  <2>2. DOMAIN d = {1} /\ d[1] = c /\ Len(d) = 1
    BY <2>1
  <2>3. Shown(d) = {c}
    BY <1>2, <2>2 DEF Shown, ToSet
  <2>4. InPlace(d)
    BY <2>2 DEF InPlace
  <2> QED
    BY <1>1, <1>2, <1>4, <2>1, <2>2, <2>3, <2>4
<1>5. CASE ~(last < s \/ e < first) /\ first <= s /\ ~(e <= last)
  <2>1. last < e /\ s \in first .. last
    BY <1>2, <1>5
  <2>2. d = <<0>>
    BY <1>1, <1>5, <2>1 DEF DecodeCharacter
  <2>3. DOMAIN d = {1} /\ d[1] = 0 /\ Len(d) = 1
    BY <2>2
  <2>4. Shown(d) = {} /\ InPlace(d)
    BY <2>3 DEF Shown, ToSet, InPlace
  <2> QED
    BY <1>1, <1>5, <2>2, <2>3, <2>4
<1>6. CASE ~(last < s \/ e < first) /\ ~(first <= s)
  <2>1. PICK n : n = (IF last < e THEN last ELSE e) - first + 1
    OBVIOUS
  <2>2. PICK m \in Nat : 1 .. n = 1 .. m
    <3>1. n \in Int
      BY <1>2, <2>1
    <3>2. CASE n >= 0
      BY <3>1, <3>2
    <3>3. CASE ~(n >= 0)
      <4>1. 1 .. n = 1 .. 0
        BY <3>1, <3>3
      <4> QED
        BY <4>1
    <3> QED
      BY <3>2, <3>3
  <2>3. d = [i \in 1 .. m |-> 0]
    BY <1>1, <1>6, <2>1, <2>2 DEF DecodeCharacter
  <2>4. d \in Seq(Nat) /\ DOMAIN d = 1 .. m /\ \A i \in DOMAIN d : d[i] = 0
    BY <2>2, <2>3
  <2>5. Shown(d) = {} /\ InPlace(d)
    BY <2>4 DEF Shown, ToSet, InPlace
  <2> QED
    BY <1>1, <1>6, <2>4, <2>5
<1> QED
  BY <1>3, <1>4, <1>5, <1>6

LEMMA CharactersAreFinite ==
  \A S \in SUBSET Characters : IsFiniteSet(S) /\ Cardinality(S) \in Nat
<1>1. IsFiniteSet(1 .. Len(Widths)) /\ Characters = 1 .. Len(Widths)
  BY EndLaws, FS_Interval
<1> QED
  BY <1>1, FS_Subset, FS_CardinalityType

(* What a read shows of the first k characters.                            *)
Between(k, first, last) ==
    {c \in 1 .. k : c \in Characters /\ first <= Start(c) /\ End(c) <= last}

Begun(k, first, last) ==
    {c \in 1 .. k : c \in Characters /\ first <= Start(c) /\ Start(c) <= last}

Decodes(items, k, first, last) ==
    /\ items \in Seq(Nat) /\ InPlace(items)
    /\ Shown(items) = Between(k, first, last)
    /\ Len(items) >= Cardinality(Begun(k, first, last))

LEMMA DecodesNext ==
  ASSUME NEW items, NEW k \in Nat, NEW first \in Nat, NEW last \in Nat,
         Decodes(items, k, first, last), k + 1 \in Characters,
         NEW d, d = DecodeCharacter(k + 1, first, last)
  PROVE  Decodes(items \o d, k + 1, first, last)
<1>1. PICK c : c = k + 1
  OBVIOUS
<1>2. /\ d \in Seq(Nat) /\ \A i \in DOMAIN d : d[i] \in {0, c}
      /\ InPlace(d)
      /\ Shown(d) = IF first <= Start(c) /\ End(c) <= last THEN {c} ELSE {}
      /\ first <= Start(c) /\ Start(c) <= last => Len(d) >= 1
  BY <1>1, OneCharacter
<1>3. c \in Characters /\ c \in Nat /\ 1 .. c = (1 .. k) \cup {c} /\ c \notin 1 .. k
  BY <1>1
<1>4. items \in Seq(Nat) /\ InPlace(items) /\ Shown(items) = Between(k, first, last)
  BY DEF Decodes
<1>5. \A x \in Shown(items), y \in Shown(d) : x < y
  BY <1>1, <1>2, <1>4 DEF Between
<1>6. InPlace(items \o d) /\ Shown(items \o d) = Shown(items) \cup Shown(d)
  BY <1>2, <1>4, <1>5, InPlaceConcat
<1>7. Between(c, first, last) = Between(k, first, last) \cup Shown(d)
  BY <1>2, <1>3 DEF Between
<1>8. Begun(c, first, last) = Begun(k, first, last)
         \cup (IF first <= Start(c) /\ Start(c) <= last THEN {c} ELSE {})
  BY <1>3 DEF Begun
<1>9. Len(items) + Len(d) >= Cardinality(Begun(c, first, last))
  <2>1. Begun(k, first, last) \in SUBSET Characters /\ c \notin Begun(k, first, last)
    BY <1>3 DEF Begun
  <2>2. PICK n : n = Cardinality(Begun(k, first, last))
    OBVIOUS
  <2>3. /\ IsFiniteSet(Begun(k, first, last)) /\ n \in Nat /\ Len(items) \in Nat
        /\ Len(d) \in Nat /\ Len(items) >= n
    BY <1>2, <1>4, <2>1, <2>2, CharactersAreFinite DEF Decodes
  <2>4. CASE first <= Start(c) /\ Start(c) <= last
    <3>1. Cardinality(Begun(c, first, last)) = n + 1
      BY <1>8, <2>1, <2>2, <2>3, <2>4, FS_AddElement
    <3> QED
      BY <1>2, <2>3, <2>4, <3>1
  <2>5. CASE ~(first <= Start(c) /\ Start(c) <= last)
    <3>1. Begun(c, first, last) = Begun(k, first, last)
      BY <1>8, <2>5
    <3> QED
      BY <2>2, <2>3, <3>1
  <2> QED
    BY <2>4, <2>5
<1>10. items \o d \in Seq(Nat) /\ Len(items \o d) = Len(items) + Len(d)
  BY <1>2, <1>4
<1> QED
  BY <1>1, <1>4, <1>6, <1>7, <1>9, <1>10 DEF Decodes

LEMMA DecodeDecodes ==
  ASSUME NEW first \in Nat, NEW last \in Nat
  PROVE  Decodes(Decode(first, last), Len(Widths), first, last)
<1>1. PICK n : n = Len(Widths)
  OBVIOUS
<1>2. n \in Nat /\ Characters = 1 .. n
  BY <1>1, EndLaws
<1>3. PICK seqs : seqs = [c \in Characters |-> DecodeCharacter(c, first, last)]
  OBVIOUS
<1>4. Decodes(<<>>, 0, first, last)
  <2>1. Between(0, first, last) = {} /\ Begun(0, first, last) = {}
    BY DEF Between, Begun
  <2>2. Shown(<<>>) = {} /\ InPlace(<<>>)
    BY DEF Shown, ToSet, InPlace
  <2>3. Len(<<>>) >= Cardinality({}) /\ <<>> \in Seq(Nat)
    BY FS_EmptySet
  <2> QED
    BY <2>1, <2>2, <2>3 DEF Decodes
<1>5. CASE n = 0
  <2>1. seqs = <<>> /\ Len(seqs) = 0
    BY <1>2, <1>3, <1>5
  <2>2. Decode(first, last) = <<>>
    BY <1>3, <2>1 DEF Decode, FlattenSeq
  <2> QED
    BY <1>1, <1>4, <1>5, <2>2
<1>6. CASE n # 0
  <2>1. seqs \in [1 .. n -> Seq(Nat)]
    BY <1>2, <1>3, OneCharacter
  <2>2. PICK g : Flattens(g, n, seqs)
    BY <1>2, <1>6, <2>1, FlattenSteps
  <2> DEFINE Good == {k \in Nat : k <= n => Decodes(g[k], k, first, last)}
  <2>3. 0 \in Good
    BY <1>4, <2>2 DEF Flattens
  <2>4. ASSUME NEW k \in Nat, k \in Good PROVE k + 1 \in Good
    <3>1. SUFFICES ASSUME k + 1 <= n PROVE Decodes(g[k + 1], k + 1, first, last)
      OBVIOUS
    <3>2. k + 1 \in 1 .. n /\ k + 1 \in Characters /\ (k + 1) - 1 = k /\ k <= n
      BY <1>2, <3>1
    <3>3. Decodes(g[k], k, first, last)
      BY <2>4, <3>2
    <3>4. PICK d : d = DecodeCharacter(k + 1, first, last)
      OBVIOUS
    <3>5. g[k + 1] = g[k] \o d
      BY <1>3, <2>2, <3>2, <3>4 DEF Flattens
    <3>6. Decodes(g[k] \o d, k + 1, first, last)
      BY <3>2, <3>3, <3>4, DecodesNext
    <3> QED
      BY <3>5, <3>6
  <2>5. \A k \in Nat : k \in Good
    <3> HIDE DEF Good
    <3> QED
      BY <2>3, <2>4, NatSetInduction
  <2>6. Decodes(g[n], n, first, last)
    BY <1>2, <2>5
  <2> QED
    BY <1>1, <1>3, <2>2, <2>6 DEF Decode, Flattens
<1> QED
  BY <1>5, <1>6

-----------------------------------------------------------------------------
(* A reader has read up to where its last read ended.                      *)
ReaderIInv ==
    /\ offset \in Nat /\ size \in Nat
    /\ cuts \in SUBSET Nat /\ (\A cut \in cuts : cut <= offset)
    /\ offset > 0 => offset \in cuts
    /\ pieces \in Seq(Nat)
    /\ PiecesIntact

LEMMA NothingShown == Shown(<<>>) = {} /\ InPlace(<<>>)
  BY DEF Shown, ToSet, InPlace

LEMMA ReaderInitEstablishes == ReaderInit => ReaderIInv
<1> SUFFICES ASSUME ReaderInit PROVE ReaderIInv
  OBVIOUS
<1>1. /\ offset = 0 /\ size = 0 /\ pieces = <<>> /\ cuts = {}
      /\ tail.from = 1 /\ tail.to = 0 /\ tail.items = <<>>
  BY DEF ReaderInit
<1>2. ASSUME NEW c \in Characters PROVE ~(End(c) <= 0) /\ ~(Start(c) <= 0)
  BY EndLaws
<1>3. /\ {c \in Characters : End(c) <= offset /\ Uncut(c)} = {}
      /\ {c \in Characters : Start(c) <= offset} = {}
      /\ {c \in Characters : tail.from <= Start(c) /\ End(c) <= tail.to} = {}
  BY <1>1, <1>2
<1>4. PiecesIntact
  <2>1. Len(pieces) >= Cardinality({})
    BY <1>1, FS_EmptySet
  <2> QED
    BY <1>1, <1>3, <2>1, NothingShown DEF PiecesIntact
<1> QED
  BY <1>1, <1>4 DEF ReaderIInv

(* What the old pieces and a new one have between them.                    *)
LEMMA ReadKeeps ==
  ASSUME ReaderIInv, NEW n \in Nat \ {0}, Read(n)
  PROVE  ReaderIInv'
<1>1. PICK o, last, new, L : /\ o = offset /\ last = offset + n /\ L = Len(Widths)
                             /\ new = Decode(offset + 1, offset + n)
  OBVIOUS
<1>2. /\ offset' = last /\ pieces' = pieces \o new /\ cuts' = cuts \cup {last}
      /\ tail' = tail /\ size' = size
  BY <1>1 DEF Read
<1>3. /\ o \in Nat /\ last \in Nat /\ o < last /\ pieces \in Seq(Nat)
      /\ cuts \in SUBSET Nat /\ (\A cut \in cuts : cut <= o) /\ (o > 0 => o \in cuts)
      /\ InPlace(pieces) /\ Shown(pieces) = {c \in Characters : End(c) <= o /\ Uncut(c)}
      /\ Len(pieces) >= Cardinality({c \in Characters : Start(c) <= o})
  BY <1>1 DEF ReaderIInv, PiecesIntact
<1>4. Decodes(new, L, o + 1, last)
  <2>1. o + 1 \in Nat /\ last \in Nat
    BY <1>3
  <2> QED
    BY <1>1, <2>1, DecodeDecodes
<1>5. /\ Characters = 1 .. L /\ L \in Nat
      /\ \A c \in Characters :
            /\ c \in Nat /\ Start(c) \in Nat \ {0} /\ End(c) \in Nat /\ Start(c) <= End(c)
            /\ \A d \in Characters : c < d => End(c) < Start(d)
  BY <1>1, EndLaws
<1>6. /\ new \in Seq(Nat) /\ InPlace(new)
      /\ Shown(new) = {c \in Characters : o + 1 <= Start(c) /\ End(c) <= last}
      /\ Len(new) >= Cardinality({c \in Characters : o + 1 <= Start(c) /\ Start(c) <= last})
  <2>1. Between(L, o + 1, last) = {c \in Characters : o + 1 <= Start(c) /\ End(c) <= last}
    BY <1>5 DEF Between
  <2>2. Begun(L, o + 1, last) = {c \in Characters : o + 1 <= Start(c) /\ Start(c) <= last}
    BY <1>5 DEF Begun
  <2> QED
    BY <1>4, <2>1, <2>2 DEF Decodes
<1>7. ASSUME NEW x \in Shown(pieces), NEW y \in Shown(new) PROVE x < y
  <2>1. x \in Characters /\ y \in Characters /\ End(x) <= o /\ o + 1 <= Start(y)
    BY <1>3, <1>6
  <2>2. ~(y < x) /\ y # x
    BY <1>3, <1>5, <2>1
  <2> QED
    BY <1>5, <2>1, <2>2
<1>8. InPlace(pieces') /\ Shown(pieces') = Shown(pieces) \cup Shown(new)
  BY <1>2, <1>3, <1>6, <1>7, InPlaceConcat
<1>9. ASSUME NEW c \in Characters
      PROVE  c \in Shown(pieces) \cup Shown(new) <=> End(c) <= last /\ Uncut(c)'
  <2>1. Uncut(c)' <=> Uncut(c) /\ (last < Start(c) \/ End(c) <= last)
    BY <1>2 DEF Uncut
  <2>2. Start(c) \in Nat \ {0} /\ End(c) \in Nat /\ Start(c) <= End(c)
    BY <1>5
  <2>3. CASE End(c) <= o
    BY <1>3, <1>6, <2>1, <2>2, <2>3
  <2>4. CASE ~(End(c) <= o)
    <3>1. c \in Shown(pieces) \cup Shown(new) <=> o + 1 <= Start(c) /\ End(c) <= last
      BY <1>3, <1>6, <2>4
    <3>2. Uncut(c) <=> o + 1 <= Start(c)
      <4>1. Uncut(c) => o < Start(c)
        <5>1. CASE o > 0
          BY <1>3, <2>2, <2>4, <5>1 DEF Uncut
        <5>2. CASE ~(o > 0)
          BY <1>3, <2>2, <5>2
        <5> QED
          BY <5>1, <5>2
      <4>2. o < Start(c) => Uncut(c)
        BY <1>3, <2>2 DEF Uncut
      <4> QED
        BY <1>3, <2>2, <4>1, <4>2
    <3> QED
      BY <2>1, <3>1, <3>2
  <2> QED
    BY <2>3, <2>4
<1>10. Shown(pieces') = {c \in Characters : End(c) <= offset' /\ Uncut(c)'}
  <2>1. Shown(pieces) \cup Shown(new) \subseteq Characters
    BY <1>3, <1>6
  <2> QED
    BY <1>2, <1>8, <1>9, <2>1
<1>11. Len(pieces') >= Cardinality({c \in Characters : Start(c) <= offset'})
  <2> DEFINE A == {c \in Characters : Start(c) <= o}
             B == {c \in Characters : o + 1 <= Start(c) /\ Start(c) <= last}
  <2>1. {c \in Characters : Start(c) <= offset'} = A \cup B
    <3>1. \A c \in Characters : Start(c) <= last <=> Start(c) <= o \/ (o + 1 <= Start(c) /\ Start(c) <= last)
      BY <1>3, <1>5
    <3> QED
      BY <1>2, <3>1
  <2>2. A \cap B = {}
    BY <1>3, <1>5
  <2>3. /\ IsFiniteSet(A) /\ Cardinality(A) \in Nat
        /\ IsFiniteSet(B) /\ Cardinality(B) \in Nat
    BY CharactersAreFinite
  <2> HIDE DEF A, B
  <2>4. Cardinality(A \cup B) = Cardinality(A) + Cardinality(B)
    BY <2>2, <2>3, FS_Union, FS_EmptySet
  <2>5. Len(pieces') = Len(pieces) + Len(new) /\ Len(pieces) \in Nat /\ Len(new) \in Nat
    BY <1>2, <1>3, <1>6
  <2>6. Len(pieces) >= Cardinality(A) /\ Len(new) >= Cardinality(B)
    BY <1>3, <1>6 DEF A, B
  <2>7. Len(pieces') >= Cardinality(A \cup B)
    BY <2>3, <2>4, <2>5, <2>6
  <2> QED
    BY <2>1, <2>7
<1>12. PiecesIntact'
  <2>1. /\ InPlace(tail'.items)
        /\ Shown(tail'.items) = {c \in Characters : tail'.from <= Start(c) /\ End(c) <= tail'.to}
    BY <1>2 DEF ReaderIInv, PiecesIntact
  <2> QED
    BY <1>8, <1>10, <1>11, <2>1 DEF PiecesIntact
<1>13. /\ offset' \in Nat /\ size' \in Nat /\ pieces' \in Seq(Nat)
       /\ cuts' \in SUBSET Nat /\ (\A cut \in cuts' : cut <= offset')
       /\ offset' > 0 => offset' \in cuts'
  <2>1. pieces \o new \in Seq(Nat)
    BY <1>3, <1>6, ConcatProperties
  <2>2. size \in Nat
    BY DEF ReaderIInv
  <2> QED
    BY <1>2, <1>3, <2>1, <2>2
<1> QED
  BY <1>12, <1>13 DEF ReaderIInv

LEMMA TailKeeps == ReaderIInv /\ ReadTail => ReaderIInv'
<1> SUFFICES ASSUME ReaderIInv, ReadTail PROVE ReaderIInv'
  OBVIOUS
<1>1. PICK from, to : /\ from = (IF size > MaxBytes THEN size - MaxBytes + 1 ELSE 1)
                      /\ to = (IF there THEN size ELSE 0)
  OBVIOUS
<1>2. /\ tail' = [from |-> from, to |-> to, items |-> Decode(from, to)]
      /\ UNCHANGED <<size, offset, pieces, cuts>>
  BY <1>1 DEF ReadTail
<1>3. from \in Nat /\ to \in Nat
  BY <1>1, TextAssumption DEF ReaderIInv
<1>4. Decodes(Decode(from, to), Len(Widths), from, to)
  BY <1>3, DecodeDecodes
<1>5. Between(Len(Widths), from, to) = {c \in Characters : from <= Start(c) /\ End(c) <= to}
  BY EndLaws DEF Between
<1>6. /\ InPlace(tail'.items)
      /\ Shown(tail'.items) = {c \in Characters : tail'.from <= Start(c) /\ End(c) <= tail'.to}
  BY <1>2, <1>4, <1>5 DEF Decodes
<1>7. \A c \in Characters : Uncut(c)' <=> Uncut(c)
  BY <1>2 DEF Uncut
<1>8. /\ InPlace(pieces')
      /\ Shown(pieces') = {c \in Characters : End(c) <= offset' /\ Uncut(c)'}
      /\ Len(pieces') >= Cardinality({c \in Characters : Start(c) <= offset'})
  BY <1>2, <1>7 DEF ReaderIInv, PiecesIntact
<1>9. PiecesIntact'
  BY <1>6, <1>8 DEF PiecesIntact
<1> QED
  BY <1>2, <1>9 DEF ReaderIInv

LEMMA OthersKeep ==
  ASSUME ReaderIInv, size' \in Nat, UNCHANGED <<offset, pieces, cuts, tail>>
  PROVE  ReaderIInv'
<1>1. \A c \in Characters : Uncut(c)' <=> Uncut(c)
  BY DEF Uncut
<1>2. PiecesIntact'
  BY <1>1 DEF ReaderIInv, PiecesIntact
<1> QED
  BY <1>2 DEF ReaderIInv

LEMMA ReaderNextPreserves == ReaderIInv /\ [ReaderNext]_readerVars => ReaderIInv'
<1> SUFFICES ASSUME ReaderIInv, [ReaderNext]_readerVars PROVE ReaderIInv'
  OBVIOUS
<1>1. size \in Nat /\ offset \in Nat /\ MaxBytes \in Nat \ {0}
  BY TextAssumption DEF ReaderIInv
<1>2. CASE \E n \in 1 .. Total : Write(n)
  <2>1. PICK n \in 1 .. Total : Write(n)
    BY <1>2
  <2>2. size' = size + n /\ n \in Nat
    BY <2>1 DEF Write
  <2> QED
    BY <1>1, <2>1, <2>2, OthersKeep DEF Write
<1>3. CASE ReadDelta
  <2>1. PICK n : n = (IF size - offset < MaxBytes THEN size - offset ELSE MaxBytes)
    OBVIOUS
  <2>2. size > offset /\ Read(n)
    BY <1>3, <2>1 DEF ReadDelta
  <2>3. n \in Nat \ {0}
    BY <1>1, <2>1, <2>2
  <2> QED
    BY <2>2, <2>3, ReadKeeps
<1>4. CASE ReadPipe
  <2>1. PICK n \in 1 .. MaxBytes : Read(n)
    BY <1>4 DEF ReadPipe
  <2>2. n \in Nat \ {0}
    BY <1>1
  <2> QED
    BY <2>1, <2>2, ReadKeeps
<1>5. CASE ReadTail
  BY <1>5, TailKeeps
<1>6. CASE RemoveFile
  BY <1>1, <1>6, OthersKeep DEF RemoveFile
<1>7. CASE UNCHANGED readerVars
  BY <1>1, <1>7, OthersKeep DEF readerVars
<1> QED
  BY <1>2, <1>3, <1>4, <1>5, <1>6, <1>7 DEF ReaderNext

(* Wherever the writes of the command and the limits of the reads fall,    *)
(* the pieces have every character that was not cut between two reads,     *)
(* once and in its place, and something in place of each one that was; and *)
(* the tail has every character that begins in it.                         *)
THEOREM NothingReadIsLost == ReaderSpec => []PiecesIntact
<1>1. ReaderInit => ReaderIInv
  BY ReaderInitEstablishes
<1>2. ReaderIInv /\ [ReaderNext]_readerVars => ReaderIInv'
  BY ReaderNextPreserves
<1>3. ReaderIInv => PiecesIntact
  BY DEF ReaderIInv
<1> QED
  BY <1>1, <1>2, <1>3, PTL DEF ReaderSpec
=============================================================================
