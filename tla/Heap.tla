-------------------------------- MODULE Heap --------------------------------
(***************************************************************************)
(* yu::data::Heap: a binary heap in a vector, ordered by Compare.  The     *)
(* recursion of heap_up and heap_down is one step per level, so that the   *)
(* invariant each level re-establishes can be stated.  Positions count     *)
(* from 1: the element heap_[i] of the code is heap[i + 1], its parent     *)
(* (i - 1) / 2 is p \div 2 and its children are 2 p and 2 p + 1.           *)
(***************************************************************************)
EXTENDS Naturals, Sequences

CONSTANTS Values,       \* the elements
          Less(_, _),   \* Compare
          MaxSize       \* bound: elements held at once

\* Compare is a strict weak order, as the standard asks of it.
ASSUME HeapAssumption ==
  /\ MaxSize \in Nat
  /\ \A a, b \in Values : Less(a, b) \in BOOLEAN
  /\ \A a, b \in Values : Less(a, b) => ~Less(b, a)
  /\ \A a, b, c \in Values : Less(a, b) => Less(a, c) \/ Less(c, b)

VARIABLES
  heap,     \* heap_
  pc,       \* "idle" between operations, "up" or "down" in one
  cur,      \* the position heap_up or heap_down is called with
  root,     \* the position the constructor's loop is at, 1 for pop()
  values    \* what pop() returned since the last push: drain()'s result

vars == <<heap, pc, cur, root, values>>

TypeOK ==
  /\ heap \in Seq(Values)
  /\ pc \in {"idle", "up", "down"}
  /\ cur \in Nat \ {0} /\ (pc = "up" => cur <= Len(heap))
  /\ root \in Nat
  /\ values \in Seq(Values)

\* The constructor from a vector: heap_down from the last parent to the first.
Init ==
  /\ \E n \in 0 .. MaxSize : heap \in [1 .. n -> Values]
  /\ root = Len(heap) \div 2
  /\ IF root = 0 THEN pc = "idle" /\ cur = 1 ELSE pc = "down" /\ cur = root
  /\ values = <<>>

-----------------------------------------------------------------------------
Swap(s, i, j) == [s EXCEPT ![i] = s[j], ![j] = s[i]]

Push(v) ==
  /\ pc = "idle" /\ Len(heap) < MaxSize
  /\ heap' = Append(heap, v)
  /\ pc' = "up" /\ cur' = Len(heap) + 1
  /\ values' = <<>>
  /\ UNCHANGED root

\* heap_up(child), and its recursive call in the next step.
HeapUp ==
  LET parent == cur \div 2 IN
  /\ pc = "up"
  /\ IF cur > 1 /\ Less(heap[cur], heap[parent])
     THEN /\ heap' = Swap(heap, cur, parent)
          /\ cur' = parent
          /\ UNCHANGED pc
     ELSE pc' = "idle" /\ UNCHANGED <<heap, cur>>
  /\ UNCHANGED <<root, values>>

\* Mutant of Pop: the first element is returned and the last one removed.
PopUnswapped ==
  /\ pc = "idle" /\ heap # <<>>
  /\ values' = Append(values, heap[1])
  /\ heap' = SubSeq(heap, 1, Len(heap) - 1)
  /\ pc' = "down" /\ cur' = 1 /\ root' = 1

\* pop() of a heap that is not empty; drain() is pop() until it is.
Pop ==
  LET n == Len(heap) IN
  /\ pc = "idle" /\ n > 0
  /\ values' = Append(values, heap[1])
  /\ heap' = SubSeq(Swap(heap, 1, n), 1, n - 1)
  /\ pc' = "down" /\ cur' = 1 /\ root' = 1

\* Mutant of Child: always the left one.
LeftChild(p) == 2 * p

\* The child heap_down compares with: the right one if it comes first.
Child(p) ==
  IF 2 * p + 1 <= Len(heap) /\ Less(heap[2 * p + 1], heap[2 * p])
  THEN 2 * p + 1 ELSE 2 * p

\* Mutant of DownReturns: the constructor's loop does not count down.
DownReturnsAgain == cur' = root /\ UNCHANGED <<heap, pc, root>>

\* heap_down(parent) ends: the constructor goes on with the parent before.
DownReturns ==
  /\ IF root > 1
     THEN root' = root - 1 /\ cur' = root - 1 /\ UNCHANGED pc
     ELSE pc' = "idle" /\ UNCHANGED <<root, cur>>
  /\ UNCHANGED heap

\* heap_down(parent), and its recursive call in the next step.
HeapDown ==
  /\ pc = "down"
  /\ IF 2 * cur <= Len(heap) /\ Less(heap[Child(cur)], heap[cur])
     THEN /\ heap' = Swap(heap, cur, Child(cur))
          /\ cur' = Child(cur)
          /\ UNCHANGED <<pc, root>>
     ELSE DownReturns
  /\ UNCHANGED values

Clear ==
  /\ pc = "idle" /\ heap # <<>>
  /\ heap' = <<>>
  /\ values' = <<>>
  /\ UNCHANGED <<pc, cur, root>>

Next == (\E v \in Values : Push(v)) \/ HeapUp \/ Pop \/ HeapDown \/ Clear

Spec == Init /\ [][Next]_vars

\* A call of push() or pop() runs to its end.
FairSpec == Spec /\ WF_vars(HeapUp \/ HeapDown)

-----------------------------------------------------------------------------
(* Properties.                                                             *)

\* Between two operations no element comes before its parent, whatever pushes,
\* pops, constructions and clears came before.
HeapOrder ==
  pc = "idle" => \A p \in 2 .. Len(heap) : ~Less(heap[p], heap[p \div 2])

\* Inside heap_up the order holds everywhere but between cur and its parent,
\* and the children of cur do not come before that parent either.
UpInv ==
  pc = "up" =>
    /\ \A p \in 2 .. Len(heap) : p # cur => ~Less(heap[p], heap[p \div 2])
    /\ \A p \in 2 .. Len(heap) :
         p \div 2 = cur /\ cur > 1 => ~Less(heap[p], heap[cur \div 2])

\* Inside heap_down the order holds from root on, but not between cur and its
\* children, which do not come before the parent of cur.
DownInv ==
  pc = "down" =>
    /\ root >= 1 /\ cur >= root
    /\ \A p \in 2 .. Len(heap) :
         p \div 2 >= root /\ p \div 2 # cur => ~Less(heap[p], heap[p \div 2])
    /\ \A p \in 2 .. Len(heap) :
         p \div 2 = cur /\ cur \div 2 >= root => ~Less(heap[p], heap[cur \div 2])

\* Every level of heap_up and heap_down leaves one place out of order at most,
\* the place the next level looks at.
SiftInv == UpInv /\ DownInv

\* The heap order, inside and outside of the operations.
HeapInv == HeapOrder /\ SiftInv

\* Every operation comes to its end.
Returns == pc # "idle" ~> pc = "idle"
=============================================================================
