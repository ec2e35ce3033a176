----------------------------- MODULE ArrayQueue -----------------------------
(***************************************************************************)
(* queue.ArrayQueue (arrayqueue.go) beside want, the sequence of values it *)
(* has accepted and not yet given back. Indexes are Go's: slot i of items  *)
(* is items[i + 1] here.                                                   *)
(***************************************************************************)
EXTENDS Integers, Sequences

CONSTANTS Values,   \* the values stored
          Cap,      \* the capacity asked for
          Bound     \* bound on the slots of items

VARIABLES obj, want,
          trusted   \* no Enqueue has moved the values yet

vars == <<obj, want, trusted>>

Empty == [type |-> "ArrayQueue", items |-> <<>>, head |-> 0, tail |-> 0, size |-> 0, capacity |-> Cap]

Init == obj = Empty /\ want = <<>> /\ trusted = TRUE

Live == obj.type = "ArrayQueue"

Data == SubSeq(obj.items, obj.head + 1, obj.tail)
Full == obj.size = obj.capacity
Front == obj.items[1]
Back == obj.items[obj.size]
Contain(v) == \E i \in DOMAIN obj.items : obj.items[i] = v

(* At the end of the array the values in use are moved to its start; the   *)
(* slots behind them keep what they held.                                  *)
Shifted ==
  IF obj.tail # obj.capacity THEN obj
  ELSE [obj EXCEPT !.items = [i \in DOMAIN @ |-> IF i + obj.head <= obj.tail THEN @[i + obj.head] ELSE @[i]],
                   !.tail = @ - obj.head, !.head = 0]

Enqueue(v) ==
  /\ Live /\ Len(obj.items) < Bound
  /\ ~(obj.head = 0 /\ obj.tail = obj.capacity)
  /\ obj' = [Shifted EXCEPT !.items = Append(@, v), !.tail = @ + 1, !.size = @ + 1]
  /\ want' = Append(want, v)
  /\ trusted' = (trusted /\ Shifted = obj)

Dequeue ==
  /\ Live /\ obj.head # obj.tail
  /\ obj' = [obj EXCEPT !.head = @ + 1, !.size = @ - 1]
  /\ want' = Tail(want)
  /\ UNCHANGED trusted

Clear ==
  /\ Live
  /\ obj' = Empty /\ want' = <<>> /\ trusted' = TRUE

Next == (\E v \in Values : Enqueue(v)) \/ Dequeue \/ Clear

Spec == Init /\ [][Next]_vars

(* Arrayqueue.go: a queue refuses exactly when Cap values wait, its size   *)
(* counts them, and until an Enqueue has moved the values (which leaves    *)
(* slots behind the tail, so that the appended value lies beyond it) Data, *)
(* Front, Back and Contain answer for the values that wait: Front and Back *)
(* only while nothing was dequeued since the last Clear.                   *)
AcceptedInOrder ==
  obj.type = "ArrayQueue" =>
    /\ obj.size = Len(want) /\ Len(want) <= Cap
    /\ Full <=> obj.head = 0 /\ obj.tail = obj.capacity
    /\ trusted =>
         /\ Data = want
         /\ \A i \in DOMAIN want : Contain(want[i])
         /\ obj.head = 0 /\ want # <<>> => Front = Head(want) /\ Back = want[Len(want)]
=============================================================================
