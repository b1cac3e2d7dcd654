----------------------------- MODULE HeapProofs -----------------------------
(***************************************************************************)
(* The heap order holds between operations, for every strict weak order,   *)
(* every set of values and every size.                                     *)
(***************************************************************************)
EXTENDS Heap, TLAPS

-----------------------------------------------------------------------------
(* The operators of the module.                                            *)

\* Swapping two elements of a sequence of values.
LEMMA SwapSeq ==
  ASSUME NEW s \in Seq(Values), NEW i \in 1 .. Len(s), NEW j \in 1 .. Len(s)
  PROVE  /\ Swap(s, i, j) \in Seq(Values)
         /\ Len(Swap(s, i, j)) = Len(s)
         /\ \A p \in 1 .. Len(s) :
              Swap(s, i, j)[p] = IF p = j THEN s[i] ELSE IF p = i THEN s[j] ELSE s[p]
<1>1. Swap(s, i, j) \in [1 .. Len(s) -> Values]
  BY DEF Swap
<1>2. Swap(s, i, j) \in Seq(Values) /\ Len(Swap(s, i, j)) = Len(s)
  BY <1>1
<1> QED
  BY <1>2 DEF Swap

\* The parent of a position, and its children.
LEMMA Parent ==
  ASSUME NEW p \in Nat, p >= 2
  PROVE  /\ p \div 2 \in Nat /\ p \div 2 >= 1 /\ p \div 2 < p
         /\ \A c \in Nat : p \div 2 = c <=> p = 2 * c \/ p = 2 * c + 1
OBVIOUS

\* The child heap_down compares with.
LEMMA ChildIsChild ==
  ASSUME NEW p \in Nat \ {0}, 2 * p <= Len(heap), heap \in Seq(Values)
  PROVE  /\ Child(p) \in {2 * p, 2 * p + 1}
         /\ Child(p) \in 2 .. Len(heap)
BY DEF Child

-----------------------------------------------------------------------------
(* Type correctness.                                                       *)

LEMMA TypeStep == TypeOK /\ [Next]_vars => TypeOK'
<1> SUFFICES ASSUME TypeOK, [Next]_vars PROVE TypeOK'
  OBVIOUS
<1> USE DEF TypeOK
<1>1. ASSUME NEW v \in Values, Push(v) PROVE TypeOK'
  BY <1>1 DEF Push
<1>2. CASE HeapUp
  <2>1. CASE cur > 1 /\ Less(heap[cur], heap[cur \div 2])
    <3>1. cur \div 2 \in Nat \ {0} /\ cur \div 2 <= Len(heap)
      BY <1>2, <2>1, Parent DEF HeapUp
    <3>2. heap' \in Seq(Values) /\ Len(heap') = Len(heap)
      BY <1>2, <2>1, <3>1, SwapSeq DEF HeapUp
    <3> QED
      BY <1>2, <2>1, <3>1, <3>2 DEF HeapUp
  <2>2. CASE ~(cur > 1 /\ Less(heap[cur], heap[cur \div 2]))
    BY <1>2, <2>2 DEF HeapUp
  <2> QED
    BY <2>1, <2>2
<1>3. CASE Pop
  <2>1. Swap(heap, 1, Len(heap)) \in Seq(Values) /\ Len(Swap(heap, 1, Len(heap))) = Len(heap)
    BY <1>3, SwapSeq DEF Pop
  <2> QED
    BY <1>3, <2>1 DEF Pop
<1>4. CASE HeapDown
  <2>1. CASE 2 * cur <= Len(heap) /\ Less(heap[Child(cur)], heap[cur])
    <3>1. Child(cur) \in 1 .. Len(heap) /\ cur \in 1 .. Len(heap)
      BY <2>1, ChildIsChild
    <3>2. Swap(heap, cur, Child(cur)) \in Seq(Values)
      BY <3>1, SwapSeq
    <3> QED
      BY <1>4, <2>1, <3>1, <3>2 DEF HeapDown
  <2>2. CASE ~(2 * cur <= Len(heap) /\ Less(heap[Child(cur)], heap[cur]))
    BY <1>4, <2>2 DEF HeapDown, DownReturns
  <2> QED
    BY <2>1, <2>2
<1>5. CASE Clear
  BY <1>5 DEF Clear
<1>6. CASE UNCHANGED vars
  BY <1>6 DEF vars
<1> QED
  BY <1>1, <1>2, <1>3, <1>4, <1>5, <1>6 DEF Next

\* The values the variables take.
THEOREM TypeCorrect == Spec => []TypeOK
<1>1. Init => TypeOK
  BY HeapAssumption DEF Init, TypeOK
<1> QED
  BY <1>1, TypeStep, PTL DEF Spec

-----------------------------------------------------------------------------
(* The heap order.                                                         *)

\* "Does not come before" is transitive and follows from "comes before".
LEMMA Order ==
  ASSUME NEW a \in Values, NEW b \in Values
  PROVE  /\ Less(a, b) => ~Less(b, a)
         /\ \A c \in Values : ~Less(b, a) /\ ~Less(c, b) => ~Less(c, a)
BY HeapAssumption

\* No child of a position comes before the one heap_down compares with.
LEMMA ChildIsFirst ==
  ASSUME heap \in Seq(Values), NEW q \in Nat \ {0},
         NEW p \in 2 .. Len(heap), p \div 2 = q
  PROVE  ~Less(heap[p], heap[Child(q)])
<1>1. p \in {2 * q, 2 * q + 1} /\ 2 * q <= Len(heap)
  BY Parent
<1>2. heap[p] \in Values /\ heap[2 * q] \in Values
  BY <1>1
<1> QED
  BY <1>1, <1>2, Order, HeapAssumption DEF Child

\* HeapInv is inductive: the order between operations, and what is left of it
\* inside heap_up and heap_down.

\* A level of heap_up moves the only disorder one level up, or ends it.
LEMMA HeapUpStep == TypeOK /\ HeapInv /\ HeapUp => HeapInv'
<1> SUFFICES ASSUME TypeOK, HeapInv, HeapUp PROVE HeapInv'
  OBVIOUS
<1> USE DEF TypeOK, HeapInv, HeapOrder, SiftInv, UpInv, DownInv
<1> DEFINE q == cur \div 2
<1>1. CASE cur > 1 /\ Less(heap[cur], heap[q])
  <2>1. /\ q \in Nat \ {0} /\ q < cur /\ q <= Len(heap) /\ q \div 2 < q
        /\ pc = "up" /\ pc' = "up" /\ cur' = q /\ heap' = Swap(heap, cur, q)
    BY <1>1, Parent DEF HeapUp
  <2>2. /\ Len(heap') = Len(heap)
        /\ \A p \in 1 .. Len(heap) : heap[p] \in Values
        /\ \A p \in 1 .. Len(heap) :
             heap'[p] = IF p = q THEN heap[cur] ELSE IF p = cur THEN heap[q] ELSE heap[p]
    <3>1. cur \in 1 .. Len(heap) /\ q \in 1 .. Len(heap)
      BY <2>1
    <3>2. heap \in Seq(Values) /\ \A p \in 1 .. Len(heap) : heap[p] \in Values
      OBVIOUS
    <3> HIDE DEF q, TypeOK, HeapInv, HeapOrder, SiftInv, UpInv, DownInv
    <3>3. /\ Len(Swap(heap, cur, q)) = Len(heap)
          /\ \A p \in 1 .. Len(heap) : Swap(heap, cur, q)[p] =
               IF p = q THEN heap[cur] ELSE IF p = cur THEN heap[q] ELSE heap[p]
      BY <3>1, <3>2, SwapSeq
    <3> QED
      BY <2>1, <3>2, <3>3
  <2>3. ASSUME NEW p \in 2 .. Len(heap), p # q
        PROVE  ~Less(heap'[p], heap'[p \div 2])
    <3> DEFINE r == p \div 2
    <3>1. r \in 1 .. Len(heap) /\ r < p
      BY Parent
    <3>2. CASE p = cur
      BY <2>1, <2>2, <3>1, <3>2, <1>1, Order
    <3>3. CASE r = cur
      BY <2>1, <2>2, <2>3, <3>1, <3>3, <1>1
    <3>4. CASE r = q /\ p # cur
      <4>1. ~Less(heap[p], heap[q]) /\ ~Less(heap[q], heap[cur])
        BY <2>1, <2>2, <3>4, <1>1, Order
      <4>2. ~Less(heap[p], heap[cur])
        BY <4>1, <2>1, <2>2, Order
      <4> QED
        BY <4>2, <2>1, <2>2, <2>3, <3>1, <3>4
    <3>5. CASE r # q /\ r # cur /\ p # cur
      BY <2>1, <2>2, <2>3, <3>1, <3>5
    <3> QED
      BY <3>2, <3>3, <3>4, <3>5
  <2>4. ASSUME NEW p \in 2 .. Len(heap), p \div 2 = q, q > 1
        PROVE  ~Less(heap'[p], heap'[q \div 2])
    <3>1. /\ q \div 2 \in 1 .. Len(heap) /\ q \div 2 < q
          /\ ~Less(heap[q], heap[q \div 2])
      BY <2>1, <2>4, Parent
    <3>2. heap'[q \div 2] = heap[q \div 2] /\ p # q
      BY <2>1, <2>2, <3>1, <2>4, Parent
    <3>3. CASE p = cur
      BY <2>2, <3>1, <3>2, <3>3
    <3>4. CASE p # cur
      <4>1. ~Less(heap[p], heap[q]) /\ heap'[p] = heap[p] /\ heap'[q \div 2] = heap[q \div 2]
        BY <2>1, <2>2, <2>4, <3>2, <3>4
      <4>2. heap[p] \in Values /\ heap[q] \in Values /\ heap[q \div 2] \in Values
        BY <2>1, <2>2, <3>1
      <4> HIDE DEF q
      <4> QED
        BY <4>1, <4>2, <3>1, Order
    <3> QED
      BY <3>3, <3>4
  <2> QED
    BY <2>1, <2>2, <2>3, <2>4
<1>2. CASE ~(cur > 1 /\ Less(heap[cur], heap[q]))
  BY <1>2 DEF HeapUp
<1> QED
  BY <1>1, <1>2

\* pop() puts the last element at the root: below it the order still holds.
LEMMA PopStep == TypeOK /\ HeapInv /\ Pop => HeapInv'
<1> SUFFICES ASSUME TypeOK, HeapInv, Pop PROVE HeapInv'
  OBVIOUS
<1> USE DEF TypeOK, HeapInv, HeapOrder, SiftInv, UpInv, DownInv
<1> DEFINE n == Len(heap)
<1>1. n \in Nat \ {0} /\ pc' = "down" /\ cur' = 1 /\ root' = 1
  BY DEF Pop
<1>2. Len(heap') = n - 1 /\ \A p \in 2 .. n - 1 : heap'[p] = heap[p]
  <2>1. /\ Swap(heap, 1, n) \in Seq(Values) /\ Len(Swap(heap, 1, n)) = n
        /\ \A p \in 2 .. n - 1 : Swap(heap, 1, n)[p] = heap[p]
    <3>1. 1 \in 1 .. n /\ n \in 1 .. n
      BY <1>1
    <3>2. heap \in Seq(Values)
      OBVIOUS
    <3> HIDE DEF TypeOK, HeapInv, HeapOrder, SiftInv, UpInv, DownInv
    <3>3. /\ Swap(heap, 1, n) \in Seq(Values) /\ Len(Swap(heap, 1, n)) = n
          /\ \A p \in 1 .. n : Swap(heap, 1, n)[p] =
               IF p = n THEN heap[1] ELSE IF p = 1 THEN heap[n] ELSE heap[p]
      <4> DEFINE first == 1  last == Len(heap)
      <4>1. first \in 1 .. Len(heap) /\ last \in 1 .. Len(heap)
        BY <3>1
      <4> HIDE DEF first, last
      <4>2. /\ Swap(heap, first, last) \in Seq(Values)
            /\ Len(Swap(heap, first, last)) = Len(heap)
            /\ \A p \in 1 .. Len(heap) : Swap(heap, first, last)[p] =
                 IF p = last THEN heap[first] ELSE IF p = first THEN heap[last] ELSE heap[p]
        BY <3>2, <4>1, SwapSeq
      <4> QED
        BY <4>2 DEF first, last
    <3> QED
      BY <1>1, <3>3
  <2> QED
    BY <1>1, <2>1 DEF Pop
<1>3. ASSUME NEW p \in 2 .. Len(heap'), p \div 2 # 1
      PROVE  ~Less(heap'[p], heap'[p \div 2])
  <2>1. p \div 2 \in 2 .. n - 1 /\ p \in 2 .. n
    BY <1>1, <1>2, <1>3, Parent
  <2>2. ~Less(heap[p], heap[p \div 2])
    BY <2>1 DEF Pop
  <2> QED
    BY <1>2, <2>1, <2>2
<1>4. cur' \div 2 = 0
  BY <1>1
<1> QED
  BY <1>1, <1>3, <1>4

\* A level of heap_down moves the only disorder one level down, or ends it and
\* lets the constructor go on.
LEMMA HeapDownStep == TypeOK /\ HeapInv /\ HeapDown => HeapInv'
<1> SUFFICES ASSUME TypeOK, HeapInv, HeapDown PROVE HeapInv'
  OBVIOUS
<1> USE DEF TypeOK, HeapInv, HeapOrder, SiftInv, UpInv, DownInv
<1> DEFINE c == Child(cur)
<1>1. CASE 2 * cur <= Len(heap) /\ Less(heap[c], heap[cur])
  <2>1. /\ c \in {2 * cur, 2 * cur + 1} /\ c \in 2 .. Len(heap) /\ c \div 2 = cur
        /\ cur \in 1 .. Len(heap)
    <3>1. c \in {2 * cur, 2 * cur + 1} /\ c \in 2 .. Len(heap)
      BY <1>1, ChildIsChild
    <3> HIDE DEF c
    <3> QED
      BY <3>1, <1>1, Parent
  <2>2. /\ pc = "down" /\ pc' = "down" /\ cur' = c /\ root' = root
        /\ heap' = Swap(heap, cur, c)
    BY <1>1 DEF HeapDown
  <2>3. /\ Len(heap') = Len(heap)
        /\ \A p \in 1 .. Len(heap) : heap[p] \in Values
        /\ \A p \in 1 .. Len(heap) :
             heap'[p] = IF p = c THEN heap[cur] ELSE IF p = cur THEN heap[c] ELSE heap[p]
    <3> HIDE DEF c
    <3>1. c \in 1 .. Len(heap) /\ cur \in 1 .. Len(heap)
      BY <2>1
    <3>2. heap \in Seq(Values) /\ \A p \in 1 .. Len(heap) : heap[p] \in Values
      OBVIOUS
    <3> HIDE DEF TypeOK, HeapInv, HeapOrder, SiftInv, UpInv, DownInv
    <3>3. /\ Len(Swap(heap, cur, c)) = Len(heap)
          /\ \A p \in 1 .. Len(heap) : Swap(heap, cur, c)[p] =
               IF p = c THEN heap[cur] ELSE IF p = cur THEN heap[c] ELSE heap[p]
      <4>1. \A s \in Seq(Values) : \A i, j \in 1 .. Len(s) :
              /\ Len(Swap(s, i, j)) = Len(s)
              /\ \A p \in 1 .. Len(s) :
                   Swap(s, i, j)[p] = IF p = j THEN s[i] ELSE IF p = i THEN s[j] ELSE s[p]
        BY SwapSeq
      <4> QED
        BY <3>1, <3>2, <4>1
    <3> QED
      BY <2>2, <3>2, <3>3
  <2> HIDE DEF c
  <2>4. ASSUME NEW p \in 2 .. Len(heap), p \div 2 >= root, p \div 2 # c
        PROVE  ~Less(heap'[p], heap'[p \div 2])
    <3> DEFINE r == p \div 2
    <3>1. r \in 1 .. Len(heap) /\ r < p
      BY Parent
    <3>2. CASE p = c
      BY <2>1, <2>3, <3>1, <3>2, <1>1, Order
    <3>3. CASE r = cur /\ p # c
      <4>1. ~Less(heap[p], heap[c])
        BY <3>3, ChildIsFirst DEF c
      <4> QED
        BY <4>1, <2>1, <2>3, <3>1, <3>3
    <3>4. CASE p = cur
      <4>1. ~Less(heap[c], heap[r])
        BY <2>1, <2>2, <2>4, <3>4
      <4> QED
        BY <4>1, <2>1, <2>3, <2>4, <3>1, <3>4
    <3>5. CASE r # cur /\ p # c /\ p # cur
      BY <2>1, <2>2, <2>3, <2>4, <3>1, <3>5
    <3> QED
      BY <3>2, <3>3, <3>4, <3>5
  <2>5. ASSUME NEW p \in 2 .. Len(heap), p \div 2 = c
        PROVE  ~Less(heap'[p], heap'[c \div 2])
    <3>1. p # c /\ p # cur /\ c >= root /\ c # cur
      BY <2>1, <2>2, <2>5, Parent
    <3>2. ~Less(heap[p], heap[c])
      BY <2>2, <2>5, <3>1
    <3> QED
      BY <2>1, <2>3, <2>5, <3>1, <3>2
  <2>6. c >= root /\ root >= 1
    BY <2>1, <2>2
  <2> QED
    BY <2>2, <2>3, <2>4, <2>5, <2>6
<1>2. CASE ~(2 * cur <= Len(heap) /\ Less(heap[c], heap[cur]))
  <2>1. /\ pc = "down" /\ root >= 1 /\ heap' = heap
        /\ IF root > 1 THEN pc' = pc /\ root' = root - 1 /\ cur' = root - 1
           ELSE pc' = "idle"
    BY <1>2 DEF HeapDown, DownReturns
  <2>2. ASSUME NEW p \in 2 .. Len(heap), p \div 2 >= root
        PROVE  ~Less(heap[p], heap[p \div 2])
    <3>1. CASE p \div 2 # cur
      BY <2>1, <2>2, <3>1
    <3>2. CASE p \div 2 = cur
      <4>1. 2 * cur <= Len(heap) /\ cur \in 1 .. Len(heap)
        BY <3>2, Parent
      <4>2. c \in 1 .. Len(heap) /\ ~Less(heap[c], heap[cur])
        BY <1>2, <4>1, ChildIsChild
      <4>3. ~Less(heap[p], heap[c])
        BY <3>2, ChildIsFirst
      <4> HIDE DEF c
      <4> QED
        BY <3>2, <4>1, <4>2, <4>3, Order
    <3> QED
      BY <3>1, <3>2
  <2>3. CASE root > 1
    <3>1. root - 1 \in Nat \ {0} /\ (root - 1) \div 2 < root - 1
      BY <2>3
    <3> QED
      BY <2>1, <2>2, <2>3, <3>1, Parent
  <2>4. CASE ~(root > 1)
    <3>1. root = 1 /\ \A p \in 2 .. Len(heap) : p \div 2 >= 1
      BY <2>1, <2>4, Parent
    <3> QED
      BY <2>1, <2>2, <2>4, <3>1
  <2> QED
    BY <2>3, <2>4
<1> QED
  BY <1>1, <1>2

\* Between two operations no element comes before its parent, and inside of
\* heap_up and heap_down one place at most is out of order.
THEOREM HeapOrderHolds == Spec => []HeapInv
<1>1. Init => HeapInv
  <2> SUFFICES ASSUME Init PROVE HeapInv
    OBVIOUS
  <2> USE DEF Init, HeapInv, HeapOrder, SiftInv, UpInv, DownInv
  <2>1. Len(heap) \in Nat
    OBVIOUS
  <2>2. CASE root = 0
    <3>1. Len(heap) < 2
      BY <2>1, <2>2
    <3> QED
      BY <2>1, <2>2, <3>1
  <2>3. CASE root # 0
    <3>1. /\ root \in Nat \ {0} /\ cur = root /\ cur \div 2 < root
          /\ Len(heap) <= 2 * root + 1
      BY <2>1, <2>3
    <3>2. ASSUME NEW p \in 2 .. Len(heap), p \div 2 >= root PROVE p \div 2 = cur
      BY <2>1, <3>1, <3>2
    <3> QED
      BY <2>3, <3>1, <3>2
  <2> QED
    BY <2>2, <2>3
<1>2. TypeOK /\ HeapInv /\ [Next]_vars => HeapInv'
  <2> SUFFICES ASSUME TypeOK, HeapInv, [Next]_vars PROVE HeapInv'
    OBVIOUS
  <2> USE DEF HeapInv, HeapOrder, SiftInv, UpInv, DownInv
  <2>1. ASSUME NEW v \in Values, Push(v) PROVE HeapInv'
    <3>1. /\ Len(heap') = Len(heap) + 1 /\ cur' = Len(heap') /\ pc' = "up"
          /\ \A p \in 1 .. Len(heap) : heap'[p] = heap[p]
      BY <2>1 DEF Push, TypeOK
    <3>2. ASSUME NEW p \in 2 .. Len(heap'), p # cur'
          PROVE  ~Less(heap'[p], heap'[p \div 2])
      <4>1. p \in 2 .. Len(heap) /\ p \div 2 \in 1 .. Len(heap)
        BY <3>1, <3>2, Parent DEF TypeOK
      <4> QED
        BY <2>1, <3>1, <4>1 DEF Push
    <3>3. ASSUME NEW p \in 2 .. Len(heap') PROVE p \div 2 # cur'
      BY <3>1, Parent DEF TypeOK
    <3> QED
      BY <3>1, <3>2, <3>3
  <2>2. CASE HeapUp
    BY <2>2, HeapUpStep
  <2>3. CASE Pop
    BY <2>3, PopStep
  <2>4. CASE HeapDown
    BY <2>4, HeapDownStep
  <2>5. CASE Clear
    BY <2>5 DEF Clear
  <2>6. CASE UNCHANGED vars
    BY <2>6 DEF vars
  <2> QED
    BY <2>1, <2>2, <2>3, <2>4, <2>5, <2>6 DEF Next
<1> QED
  BY <1>1, <1>2, TypeCorrect, PTL DEF Spec
=============================================================================
