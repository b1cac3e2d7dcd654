--------------------------- MODULE UniqueResource ---------------------------
(***************************************************************************)
(* yu::lang::UniqueResource: an RAII owner of a resource with a deleter,   *)
(* which may throw.  A program moves resources between its own hands and   *)
(* a number of UniqueResource objects by every operation of the class.     *)
(***************************************************************************)
EXTENDS Naturals, FiniteSets

CONSTANTS Objects,    \* storage for UniqueResource objects
          Resources   \* descriptors, pointers: what a deleter is called on

ASSUME UniqueResourceAssumption == Objects # {} /\ Resources # {}

VARIABLES
  live,      \* the objects that are constructed and not destroyed
  resource,  \* resource_
  deleted,   \* deleted_
  hands,     \* resources in the hands of the program
  calls,     \* how often the deleter was called on a resource
  lost       \* resources given to a reset(T) whose deleter call threw

resourceVars == <<live, resource, deleted, hands, calls, lost>>

ResourceTypeOK ==
  /\ live \in SUBSET Objects
  /\ resource \in [Objects -> Resources]
  /\ deleted \in [Objects -> BOOLEAN] /\ \A o \in Objects \ live : deleted[o]
  /\ hands \in SUBSET Resources
  /\ calls \in [Resources -> Nat]
  /\ lost \in SUBSET Resources

\* resource means nothing for an object that is not live, and deleted is set.
ResourceInit ==
  /\ live = {}
  /\ resource \in [Objects -> Resources]
  /\ deleted = [o \in Objects |-> TRUE]
  /\ hands = Resources
  /\ calls = [r \in Resources |-> 0]
  /\ lost = {}

\* The object o manages the resource r.
Owns(o, r) == o \in live /\ ~deleted[o] /\ resource[o] = r

\* The calls of the deleter after reset() of o, which marks o first.
CallsAfterReset(o) ==
  IF deleted[o] THEN calls ELSE [calls EXCEPT ![resource[o]] = @ + 1]

-----------------------------------------------------------------------------
Construct(o, r) ==
  /\ o \notin live /\ r \in hands
  /\ live' = live \cup {o}
  /\ resource' = [resource EXCEPT ![o] = r]
  /\ deleted' = [deleted EXCEPT ![o] = FALSE]
  /\ hands' = hands \ {r}
  /\ UNCHANGED <<calls, lost>>

\* The destructor swallows what the deleter throws.
Destroy(o) ==
  /\ o \in live
  /\ live' = live \ {o}
  /\ deleted' = [deleted EXCEPT ![o] = TRUE]
  /\ calls' = CallsAfterReset(o)
  /\ UNCHANGED <<resource, hands, lost>>

\* Mutant of MoveConstruct: a copy.
CopyConstruct(o, other) ==
  /\ o \notin live /\ other \in live
  /\ live' = live \cup {o}
  /\ resource' = [resource EXCEPT ![o] = resource[other]]
  /\ deleted' = [deleted EXCEPT ![o] = deleted[other]]
  /\ UNCHANGED <<hands, calls, lost>>

\* The moved-from resource_ and deleter_ keep their values (a descriptor or a
\* pointer, and a function).
MoveConstruct(o, other) ==
  /\ o \notin live /\ other \in live
  /\ live' = live \cup {o}
  /\ resource' = [resource EXCEPT ![o] = resource[other]]
  /\ deleted' = [deleted EXCEPT ![o] = deleted[other], ![other] = TRUE]
  /\ UNCHANGED <<hands, calls, lost>>

\* Self-assignment does nothing; a deleter that throws here ends the program.
MoveAssign(o, other) ==
  /\ o \in live /\ other \in live /\ o # other
  /\ calls' = CallsAfterReset(o)
  /\ resource' = [resource EXCEPT ![o] = resource[other]]
  /\ deleted' = [deleted EXCEPT ![o] = deleted[other], ![other] = TRUE]
  /\ UNCHANGED <<live, hands, lost>>

\* reset(): the same whether the deleter returns or throws.
Reset(o) ==
  /\ o \in live
  /\ deleted' = [deleted EXCEPT ![o] = TRUE]
  /\ calls' = CallsAfterReset(o)
  /\ UNCHANGED <<live, resource, hands, lost>>

\* reset(resource): if the deleter throws, the new resource is not taken.
ResetTo(o, r) ==
  /\ o \in live /\ r \in hands
  /\ hands' = hands \ {r}
  /\ calls' = CallsAfterReset(o)
  /\ \/ /\ resource' = [resource EXCEPT ![o] = r]
        /\ deleted' = [deleted EXCEPT ![o] = FALSE]
        /\ UNCHANGED lost
     \/ /\ ~deleted[o]
        /\ deleted' = [deleted EXCEPT ![o] = TRUE]
        /\ lost' = lost \cup {r}
        /\ UNCHANGED resource
  /\ UNCHANGED live

\* release() returns resource_ whether it is still managed or not; the program
\* takes it back only if it was.
Release(o) ==
  /\ o \in live
  /\ deleted' = [deleted EXCEPT ![o] = TRUE]
  /\ hands' = IF deleted[o] THEN hands ELSE hands \cup {resource[o]}
  /\ UNCHANGED <<live, resource, calls, lost>>

ResourceNext ==
  \/ \E o \in Objects, r \in Resources : Construct(o, r) \/ ResetTo(o, r)
  \/ \E o \in Objects : Destroy(o) \/ Reset(o) \/ Release(o)
  \/ \E o, other \in Objects : MoveConstruct(o, other) \/ MoveAssign(o, other)

ResourceSpec == ResourceInit /\ [][ResourceNext]_resourceVars

-----------------------------------------------------------------------------
(* Properties.                                                             *)

\* No resource is deleted twice, through any chain of moves, resets and
\* releases, the deleter throwing or not.
DeletedOnce == \A r \in Resources : calls[r] <= 1

\* A resource is never managed by two objects, nor by an object and the
\* program, and what is managed or in hand has not been deleted.
UniqueOwner ==
  /\ \A o, p \in Objects, r \in Resources : Owns(o, r) /\ Owns(p, r) => o = p
  /\ \A o \in Objects, r \in Resources : Owns(o, r) => r \notin hands /\ calls[r] = 0
  /\ \A r \in hands : calls[r] = 0

\* A resource that is neither managed nor in hand has been deleted, except the
\* argument of a reset(T) whose deleter call threw.
NoLeak ==
  \A r \in Resources \ (hands \cup lost) :
    calls[r] = 1 \/ \E o \in Objects : Owns(o, r)

\* The ownership discipline of the class: one owner, one deletion, no leak.
Ownership == UniqueOwner /\ DeletedOnce /\ NoLeak
=============================================================================
