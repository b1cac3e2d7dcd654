------------------------------- MODULE MCHeap -------------------------------
(* Instance for TLC of the heap and of the handles, the containers of the  *)
(* library that no other component of the project drives.  A behaviour is  *)
(* of one of the two.  In the heap, values 2k and 2k + 1 are equivalent    *)
(* for the order and yet different, so that ties and losses both show.     *)
EXTENDS HeapQueue, UniqueResource

VARIABLE task

MCLess(a, b) == a \div 2 < b \div 2

\* What the handles at rest start from.
ResourceRest == resource = [o \in Objects |-> CHOOSE r \in Resources : TRUE]

MCInit ==
  /\ Init /\ ResourceInit
  /\ \/ task = "heap" /\ ResourceRest
     \/ task = "handles" /\ heap = <<>>

MCNext ==
  /\ task' = task
  /\ \/ task = "heap" /\ Next /\ UNCHANGED resourceVars
     \/ task = "handles" /\ ResourceNext /\ UNCHANGED vars

MCSpec == MCInit /\ [][MCNext]_<<vars, resourceVars, task>>
          /\ WF_vars(HeapUp \/ HeapDown)
=============================================================================
