--------------------------- MODULE PriorityQueue ---------------------------
(***************************************************************************)
(* What a priority queue promises: it holds a bag of values, and pop()     *)
(* takes out one that none of the others comes before.  Nothing is lost    *)
(* and nothing appears that was not put in.                                *)
(***************************************************************************)
EXTENDS Naturals, Sequences, Bags

CONSTANTS Values,      \* what can be queued
          Less(_, _)   \* the order of the queue

VARIABLES bag,         \* the values held
          values       \* the values popped since the last push

vars == <<bag, values>>

Init == IsABag(bag) /\ BagToSet(bag) \subseteq Values /\ values = <<>>

Push == /\ \E v \in Values : bag' = bag (+) SetToBag({v})
        /\ values' = <<>>

Pop == \E v \in BagToSet(bag) :
         /\ \A w \in BagToSet(bag) : ~Less(w, v)
         /\ bag' = bag (-) SetToBag({v})
         /\ values' = Append(values, v)

Clear == bag' = EmptyBag /\ values' = <<>>

Next == Push \/ Pop \/ Clear

Spec == Init /\ [][Next]_vars
=============================================================================
