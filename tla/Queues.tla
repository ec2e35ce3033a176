------------------------------- MODULE Queues -------------------------------
(***************************************************************************)
(* The queues and stacks of util/datastructure: one of them, the object    *)
(* obj, under every sequence of its operations, beside want, the values    *)
(* that wait in it. obj.type tells which one obj is.                       *)
(***************************************************************************)
EXTENDS Container, Integers, Sequences

CONSTANTS ArrayCapacity,   \* capacity of the ArrayQueue
          RingCapacity,    \* slots of the CircularQueue
          ArraySlots,      \* bound on the slots of an ArrayQueue
          MaxNodes         \* bound on the nodes allocated

(* A slot given back holds Go's zero value, which Contain cannot tell from *)
(* a value stored (circularqueue.go:102-109): the values are other ones.   *)
ASSUME QueuesAssumption == ArrayCapacity \in Nat /\ RingCapacity \in Nat /\ 0 \notin Values

AQ == INSTANCE ArrayQueue WITH Cap <- ArrayCapacity, Bound <- ArraySlots
CQ == INSTANCE CircularQueue WITH Cap <- RingCapacity
LQ == INSTANCE LinkedQueue
ST == INSTANCE Stacks

QueuesInit == AQ!Init \/ CQ!Init \/ LQ!Init \/ ST!Init
QueuesNext == AQ!Next \/ CQ!Next \/ LQ!Next \/ ST!Next
QueuesSpec == QueuesInit /\ [][QueuesNext]_vars

(* Every queue gives back what it accepted in its order, both stacks the   *)
(* newest first: the property of each one's module.                        *)
QueuesKeepOrder == AQ!AcceptedInOrder /\ CQ!WrapsInOrder /\ LQ!ChainInOrder /\ ST!NewestFirst

(***************************************************************************)
(* The inductive invariant: where in its representation each one of them   *)
(* keeps the values that wait.                                             *)
(***************************************************************************)
Typed == want \in Seq(Values) /\ trusted \in BOOLEAN

(* The values that wait are those between head and tail, behind which      *)
(* slots lie once the values have been moved.                              *)
ArrayHolds ==
  obj.type = "ArrayQueue" =>
    /\ obj \in [type : {"ArrayQueue"}, items : Seq(Values), head : Nat, tail : Nat, size : Nat,
                capacity : {ArrayCapacity}]
    /\ obj.head <= obj.tail /\ obj.tail <= obj.capacity /\ obj.tail <= Len(obj.items)
    /\ obj.size = obj.tail - obj.head /\ obj.size = Len(want)
    /\ trusted => /\ obj.tail = Len(obj.items)
                  /\ \A j \in 1 .. Len(want) : want[j] = obj.items[obj.head + j]

(* The place of the j-th value that waits, in a ring read from front. *)
Slot(front, j, capacity) == IF front + j <= capacity THEN front + j ELSE front + j - capacity

(* Every other slot holds the zero value. *)
RingHolds ==
  obj.type = "CircularQueue" =>
    /\ obj \in [type : {"CircularQueue"}, data : Seq(Values \cup {0}), front : Nat, rear : Nat,
                capacity : Nat, panicked : BOOLEAN]
    /\ obj.capacity = Len(obj.data)
    /\ obj.capacity = 0 => obj.front = 0 /\ obj.rear = 0 /\ want = <<>>
    /\ obj.capacity # 0 =>
         /\ obj.capacity = RingCapacity /\ obj.front < obj.capacity /\ ~obj.panicked
         /\ obj.rear = Slot(obj.front, Len(want) + 1, obj.capacity) - 1
         /\ Len(want) < obj.capacity
    /\ \A j \in 1 .. Len(want) : obj.data[Slot(obj.front, j, obj.capacity)] = want[j]
    /\ \A i \in 1 .. obj.capacity :
         obj.data[i] = 0 \/ \E j \in 1 .. Len(want) : i = Slot(obj.front, j, obj.capacity)

(* The nodes in use are the newest ones, in the order of allocation. *)
QueueHolds ==
  obj.type = "LinkedQueue" =>
    /\ obj \in [type : {"LinkedQueue"}, val : Seq(Values), next : Seq(Nat), head : Nat, tail : Nat,
                length : Nat]
    /\ Len(obj.next) = Len(obj.val)
    /\ \A n \in 1 .. Len(obj.next) : obj.next[n] <= Len(obj.next)
    /\ obj.length = Len(want) /\ obj.length <= Len(obj.val)
    /\ obj.length # 0 => obj.tail = Len(obj.val)
    /\ obj.head = IF Len(want) = 0 THEN 0 ELSE Len(obj.val) - Len(want) + 1
    /\ \A i \in Len(obj.val) - Len(want) + 1 .. Len(obj.val) :
         /\ obj.next[i] = IF i = Len(obj.val) THEN 0 ELSE i + 1
         /\ obj.val[i] = want[i - (Len(obj.val) - Len(want))]

SliceHolds ==
  obj.type = "ArrayStack" =>
    /\ obj \in [type : {"ArrayStack"}, data : Seq(Values), length : Nat]
    /\ obj.length = Len(want) /\ Len(obj.data) = Len(want)
    /\ \A j \in 1 .. Len(want) : obj.data[j] = want[Len(want) + 1 - j]

(* Pops leave nodes behind, so the nodes in use may be any of them. *)
StackHolds ==
  obj.type = "LinkedStack" =>
    /\ obj \in [type : {"LinkedStack"}, val : Seq(Values), next : Seq(Nat), top : Nat, length : Nat]
    /\ Len(obj.next) = Len(obj.val)
    /\ \A n \in 1 .. Len(obj.next) : obj.next[n] <= Len(obj.next)
    /\ obj.length = Len(want) /\ obj.length <= Len(obj.val)
    /\ \E nodes \in [1 .. Len(want) -> 1 .. Len(obj.val)] :
         /\ obj.top = IF Len(want) = 0 THEN 0 ELSE nodes[1]
         /\ \A j \in 1 .. Len(want) :
              /\ obj.next[nodes[j]] = IF j = Len(want) THEN 0 ELSE nodes[j + 1]
              /\ obj.val[nodes[j]] = want[Len(want) + 1 - j]

Types == {"ArrayQueue", "CircularQueue", "LinkedQueue", "ArrayStack", "LinkedStack"}

QueuesInv ==
  /\ Typed /\ obj.type \in Types
  /\ ArrayHolds /\ RingHolds /\ QueueHolds /\ SliceHolds /\ StackHolds
=============================================================================
