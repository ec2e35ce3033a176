----------------------------- MODULE Containers -----------------------------
(***************************************************************************)
(* The containers of util/datastructure and the LRU cache: one of them,    *)
(* the object obj, under every sequence of its operations, beside want,    *)
(* what it should hold. obj.type tells which container obj is.             *)
(***************************************************************************)
EXTENDS Queues, Heaps, LRUCache

CONSTANTS Stored, Others, Mixed, Capacities, Default,   \* see the modules below
          Bound,         \* bound on the length of the others
          MaxCapacity, MaxSize

ASSUME ContainersAssumption ==
  /\ Mixed \in [Keys \cup Stored -> Nat] /\ 0 \notin Stored
  /\ Capacities \subseteq Nat /\ Default \in Nat \ {0} /\ MaxCapacity \in Nat
  /\ Others \subseteq Seq(Values) /\ Bound \in Nat /\ MaxNodes \in Nat

SL == INSTANCE SinglyLink
DL == INSTANCE DoublyLink WITH MaxNodes <- MaxNodes - 1
LI == INSTANCE SliceList
BT == INSTANCE BSTree WITH Values <- Priorities
HM == INSTANCE HashMap WITH Values <- Stored

ContainersInit ==
  \/ QueuesInit \/ HeapsInit \/ SL!Init \/ DL!Init \/ LI!Init \/ BT!Init \/ HM!Init \/ CacheInit

ContainersNext ==
  \/ QueuesNext \/ HeapsNext \/ SL!Next \/ DL!Next \/ LI!Next \/ BT!Next \/ HM!Next \/ CacheNext

ContainersSpec == ContainersInit /\ [][ContainersNext]_vars

(* Both linked lists are the sequences their insertions, deletions and     *)
(* reversals ask for, up to the panics named in their modules.             *)
LinksAreLists == SL!OneAtATime /\ DL!ChainIsList

(* List edits within its array without losing or doubling a value.         *)
ListEditsInPlace == LI!EditsInPlace

(* List and Set agree on union, intersection and the differences.          *)
ListsAgreeWithSets == LI!AgreesWithSets

(* BSTree stays a search tree of the values put in.                        *)
TreeIsSearchTree == BT!SearchTree

(* HashMap finds the last value of each key until two keys share a slot.   *)
MapFindsLast == HM!LastValueFound
=============================================================================
