-------------------------------- MODULE Heaps --------------------------------
(***************************************************************************)
(* queue.PriorityQueue (priorityqueue.go), a binary heap in the slots 1    *)
(* to QueueCapacity of items, of which slot 0 is never used and a free one *)
(* holds 0; and heap.MaxHeap (maxheap.go), whose index i of the Go slice   *)
(* is data[i + 1] here. The comparators are the order of the numbers; want *)
(* is the bag of the values in the heap.                                   *)
(***************************************************************************)
EXTENDS Container, Integers, Sequences, FiniteSets

CONSTANTS Priorities,      \* the values stored
          QueueCapacity,   \* capacity of the PriorityQueue
          HeapSize         \* bound on the number of values in a MaxHeap

ASSUME HeapsAssumption == Priorities \subseteq Int /\ QueueCapacity \in Nat /\ HeapSize \in Nat

swap(s, i, j) == [s EXCEPT ![i] = s[j], ![j] = s[i]]

(* The arrays as long as s, with its values. *)
Arrangements(s) == [DOMAIN s -> {s[i] : i \in DOMAIN s}]

Count(s) == [v \in Priorities |-> Cardinality({i \in DOMAIN s : s[i] = v})]

----------------------------------------------------------------------------
(* PriorityQueue *)

Data == SubSeq(obj.items, 1, obj.size)
IsFull == obj.size = QueueCapacity

(* A value climbs while it is larger than its parent, *)
swim(s, index) ==
  LET Swim[i \in 1 .. Len(s)] ==
        [t \in Arrangements(s) |->
           IF i > 1 /\ t[i \div 2] < t[i] THEN Swim[i \div 2][swap(t, i, i \div 2)] ELSE t]
  IN  Swim[index][s]

(* and descends while it is less than its larger child: the left one       *)
(* unless the right one is larger.                                         *)
LargerChild(s, i, size) == IF 2 * i < size /\ s[2 * i] < s[2 * i + 1] THEN 2 * i + 1 ELSE 2 * i
sink(s, index, size) ==
  LET Sink[i \in 1 .. Len(s)] ==
        [t \in Arrangements(s) |->
           IF 2 * i <= size /\ t[i] < t[LargerChild(t, i, size)]
           THEN Sink[LargerChild(t, i, size)][swap(t, i, LargerChild(t, i, size))]
           ELSE t]
  IN  Sink[index][s]

Enqueue(v) ==
  /\ obj.type = "PriorityQueue" /\ ~IsFull
  /\ obj' = [obj EXCEPT !.size = @ + 1, !.items = swim([@ EXCEPT ![obj.size + 1] = v], obj.size + 1)]
  /\ want' = [want EXCEPT ![v] = @ + 1]
  /\ UNCHANGED trusted

Dequeue ==
  /\ obj.type = "PriorityQueue" /\ obj.size > 0
  /\ obj' = [obj EXCEPT !.size = @ - 1,
                        !.items = [sink(swap(@, 1, obj.size), 1, obj.size - 1) EXCEPT ![obj.size] = 0]]
  /\ want' = [want EXCEPT ![obj.items[1]] = @ - 1]
  /\ UNCHANGED trusted

----------------------------------------------------------------------------
(* MaxHeap *)

parentIndex(i) == IF i = 0 THEN 0 ELSE (i - 1) \div 2
leftChildIndex(i) == 2 * i + 1
rightChildIndex(i) == 2 * i + 2

heapifyUp(d, index) ==
  LET Up[i \in 0 .. Len(d) - 1] ==
        [t \in Arrangements(d) |->
           IF t[parentIndex(i) + 1] < t[i + 1]
           THEN Up[parentIndex(i)][swap(t, parentIndex(i) + 1, i + 1)]
           ELSE t]
  IN  Up[index][d]

(* Mutant: the right child never compared. *)
leftChildOnly(d, i) == leftChildIndex(i)

childToCompare(d, i) ==
  LET l == leftChildIndex(i)
      r == rightChildIndex(i)
  IN  IF l = Len(d) - 1 \/ d[l + 1] > d[r + 1] THEN l ELSE r
heapifyDown(d, index) ==
  LET Down[i \in 0 .. Len(d) - 1] ==
        [t \in Arrangements(d) |->
           IF leftChildIndex(i) > Len(d) - 1 THEN t
           ELSE IF t[i + 1] < t[childToCompare(t, i) + 1]
           THEN Down[childToCompare(t, i)][swap(t, i + 1, childToCompare(t, i) + 1)]
           ELSE t]
  IN  IF d = <<>> THEN d ELSE Down[index][d]

Pushed(d, v) == heapifyUp(Append(d, v), Len(d))
Popped(d) ==
  LET moved == SubSeq([d EXCEPT ![1] = d[Len(d)]], 1, Len(d) - 1) IN heapifyDown(moved, 0)

(* The values of s are pushed one after another. *)
BuildMaxHeap(s) ==
  LET Built[n \in 0 .. Len(s)] == IF n = 0 THEN <<>> ELSE Pushed(Built[n - 1], s[n])
  IN  Built[Len(s)]

Push(v) ==
  /\ obj.type = "MaxHeap" /\ Len(obj.data) < HeapSize
  /\ obj' = [obj EXCEPT !.data = Pushed(@, v)]
  /\ want' = [want EXCEPT ![v] = @ + 1]
  /\ UNCHANGED trusted

Pop ==
  /\ obj.type = "MaxHeap" /\ obj.data # <<>>
  /\ obj' = [obj EXCEPT !.data = Popped(@)]
  /\ want' = [want EXCEPT ![obj.data[1]] = @ - 1]
  /\ UNCHANGED trusted

Peek == obj.data[1]

----------------------------------------------------------------------------
HeapsInit ==
  /\ \/ /\ obj = [type |-> "PriorityQueue", items |-> [i \in 1 .. QueueCapacity |-> 0], size |-> 0]
        /\ want = [v \in Priorities |-> 0]
     \/ \E n \in 0 .. HeapSize : \E s \in [1 .. n -> Priorities] :
          obj = [type |-> "MaxHeap", data |-> BuildMaxHeap(s)] /\ want = Count(s)
  /\ trusted = TRUE

HeapsNext == (\E v \in Priorities : Enqueue(v) \/ Push(v)) \/ Dequeue \/ Pop

HeapsSpec == HeapsInit /\ [][HeapsNext]_vars

(* Priorityqueue.go: whatever was put in and taken out, the slots hold     *)
(* exactly the values that wait, the next one to leave is a largest one,   *)
(* and the slots behind the size are free.                                 *)
LargestNext ==
  obj.type = "PriorityQueue" =>
    /\ Count(Data) = want
    /\ \A v \in Priorities : want[v] > 0 => v <= obj.items[1]
    /\ \A i \in obj.size + 1 .. QueueCapacity : obj.items[i] = 0

(* Maxheap.go: built, pushed to and popped from in any order, the heap     *)
(* keeps exactly the values put in and not taken out, and the first one is *)
(* a largest one.                                                          *)
LargestFirst ==
  obj.type = "MaxHeap" =>
    /\ Count(obj.data) = want
    /\ \A v \in Priorities : want[v] > 0 => v <= Peek

(* The priority queue and the heap hold what was put in, a largest first.  *)
LargestLeads == LargestNext /\ LargestFirst

(***************************************************************************)
(* The inductive invariant: no value is larger than its parent, the one at *)
(* half its place, and each is there as often as it was put in.            *)
(***************************************************************************)
Ordered(s, n) == \A j \in 2 .. n : s[j] <= s[j \div 2]

Holding(s, n) == [v \in Priorities |-> Cardinality({j \in 1 .. n : s[j] = v})]

PriorityQueueHolds ==
  obj.type = "PriorityQueue" =>
    /\ obj \in [type : {"PriorityQueue"}, items : [1 .. QueueCapacity -> Priorities \cup {0}], size : 0 .. QueueCapacity]
    /\ \A i \in 1 .. QueueCapacity : IF i <= obj.size THEN obj.items[i] \in Priorities ELSE obj.items[i] = 0
    /\ Ordered(obj.items, obj.size) /\ want = Holding(obj.items, obj.size)

MaxHeapHolds ==
  obj.type = "MaxHeap" =>
    /\ obj \in [type : {"MaxHeap"}, data : Seq(Priorities)]
    /\ Ordered(obj.data, Len(obj.data)) /\ want = Holding(obj.data, Len(obj.data))

HeapsInv == obj.type \in {"PriorityQueue", "MaxHeap"} /\ PriorityQueueHolds /\ MaxHeapHolds
=============================================================================
