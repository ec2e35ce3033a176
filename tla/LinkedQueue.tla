---------------------------- MODULE LinkedQueue ----------------------------
(***************************************************************************)
(* queue.LinkedQueue (linkedqueue.go). Dequeue leaves the tail pointing at *)
(* a node that is gone when the queue becomes empty, and every method      *)
(* asks the length, never the pointers, whether it is empty.               *)
(***************************************************************************)
EXTENDS Loops

CONSTANTS Values,
          MaxNodes   \* bound on the nodes allocated

VARIABLES obj, want, trusted

vars == <<obj, want, trusted>>

Init ==
  /\ obj = [type |-> "LinkedQueue", val |-> <<>>, next |-> <<>>, head |-> Nil, tail |-> Nil, length |-> 0]
  /\ want = <<>> /\ trusted = TRUE

Live == obj.type = "LinkedQueue"

Data == ValuesOf(obj.val, Walk(obj.next, obj.head))
IsEmpty == obj.length = 0
Front == obj.val[obj.head]
Back == obj.val[obj.tail]
Contain(v) == \E n \in DOMAIN Data : Data[n] = v

Enqueue(v) ==
  LET new == Len(obj.val) + 1
      grown == [obj EXCEPT !.val = Append(@, v), !.next = Append(@, Nil), !.tail = new, !.length = @ + 1]
  IN  /\ Live /\ new <= MaxNodes
      /\ obj' = IF IsEmpty THEN [grown EXCEPT !.head = new]
                ELSE [grown EXCEPT !.next[obj.tail] = new]
      /\ want' = Append(want, v)
      /\ UNCHANGED trusted

Dequeue ==
  /\ Live /\ ~IsEmpty
  /\ obj' = [obj EXCEPT !.head = obj.next[@], !.length = @ - 1]
  /\ want' = Tail(want)
  /\ UNCHANGED trusted

Clear ==
  /\ Live
  /\ obj' = [obj EXCEPT !.head = Nil, !.tail = Nil, !.length = 0]
  /\ want' = <<>>
  /\ UNCHANGED trusted

Next == (\E v \in Values : Enqueue(v)) \/ Dequeue \/ Clear

Spec == Init /\ [][Next]_vars

(* Linkedqueue.go: through emptying, refilling and clearing, the chain     *)
(* from the head is the queue, ends at the tail, and has length nodes.     *)
ChainInOrder ==
  obj.type = "LinkedQueue" =>
    /\ Data = want /\ obj.length = Len(want)
    /\ want # <<>> => Front = Head(want) /\ Back = want[Len(want)]
    /\ \A v \in Values : Contain(v) <=> \E i \in DOMAIN want : want[i] = v
=============================================================================
