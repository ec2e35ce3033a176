--------------------------- MODULE CircularQueue ---------------------------
(***************************************************************************)
(* queue.CircularQueue (circularqueue.go): a ring of Cap slots of which    *)
(* one stays free. A slot given back holds the zero value 0.               *)
(***************************************************************************)
EXTENDS Integers, Sequences

CONSTANTS Values, Cap

VARIABLES obj, want, trusted

vars == <<obj, want, trusted>>

Init ==
  /\ obj = [type |-> "CircularQueue", data |-> [i \in 1 .. Cap |-> 0], front |-> 0, rear |-> 0,
            capacity |-> Cap, panicked |-> FALSE]
  /\ want = <<>> /\ trusted = TRUE

Live == obj.type = "CircularQueue" /\ ~obj.panicked

Data == IF obj.front <= obj.rear THEN SubSeq(obj.data, obj.front + 1, obj.rear)
        ELSE SubSeq(obj.data, obj.front + 1, Len(obj.data)) \o SubSeq(obj.data, 1, obj.rear)
Size == IF obj.capacity = 0 THEN 0 ELSE (obj.rear - obj.front + obj.capacity) % obj.capacity
IsEmpty == obj.front = obj.rear
(* Mutant: the wrap of the rear forgotten. *)
IsFullUnwrapped == obj.rear + 1 = obj.front
IsFull == (obj.rear + 1) % obj.capacity = obj.front
Front == obj.data[obj.front + 1]
Back == IF obj.rear >= 1 THEN obj.data[obj.rear] ELSE obj.data[obj.capacity]
Contain(v) == \E i \in DOMAIN obj.data : obj.data[i] = v

(* IsFull divides by the capacity, which Clear sets to 0: a panic. *)
EnqueueCleared ==
  /\ Live /\ obj.capacity = 0
  /\ obj' = [obj EXCEPT !.panicked = TRUE]
  /\ UNCHANGED <<want, trusted>>

Enqueue(v) ==
  /\ Live /\ obj.capacity # 0 /\ ~IsFull
  /\ obj' = [obj EXCEPT !.data[obj.rear + 1] = v, !.rear = (@ + 1) % obj.capacity]
  /\ want' = Append(want, v)
  /\ UNCHANGED trusted

Dequeue ==
  /\ Live /\ ~IsEmpty
  /\ obj' = [obj EXCEPT !.data[obj.front + 1] = 0, !.front = (@ + 1) % obj.capacity]
  /\ want' = Tail(want)
  /\ UNCHANGED trusted

Clear ==
  /\ Live
  /\ obj' = [obj EXCEPT !.data = <<>>, !.front = 0, !.rear = 0, !.capacity = 0]
  /\ want' = <<>>
  /\ UNCHANGED trusted

Next == EnqueueCleared \/ (\E v \in Values : Enqueue(v)) \/ Dequeue \/ Clear

Spec == Init /\ [][Next]_vars

(* Circularqueue.go: around any number of wraps the queue gives back what  *)
(* it accepted, in order, accepts Cap - 1 values, and answers Front, Back  *)
(* and Contain for the values that wait; only a cleared queue panics.      *)
WrapsInOrder ==
  obj.type = "CircularQueue" =>
    /\ Data = want /\ Size = Len(want) /\ (IsEmpty <=> want = <<>>)
    /\ obj.capacity # 0 => (IsFull <=> Len(want) = Cap - 1)
    /\ want # <<>> => Front = Head(want) /\ Back = want[Len(want)]
    /\ \A v \in Values : Contain(v) <=> \E i \in DOMAIN want : want[i] = v
    /\ obj.panicked => obj.capacity = 0
=============================================================================
