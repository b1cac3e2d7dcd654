----------------------------- MODULE HeapQueue -----------------------------
(***************************************************************************)
(* The heap implements the priority queue: the steps of heap_up and        *)
(* heap_down change nothing a program can see.                             *)
(***************************************************************************)
EXTENDS Heap, SequencesExt

Queue == INSTANCE PriorityQueue WITH bag <- ToBag(heap)

\* Through every push(), pop(), drain() and clear(), no element of the heap is
\* lost, duplicated or taken out of order.
ImplementsQueue == Queue!Spec
=============================================================================
