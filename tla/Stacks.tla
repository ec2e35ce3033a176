------------------------------- MODULE Stacks -------------------------------
(***************************************************************************)
(* stack.ArrayStack and stack.LinkedStack (arraystack.go, linkedstack.go): *)
(* the newest value first in a slice, or at the top of a chain of nodes.   *)
(***************************************************************************)
EXTENDS Loops

CONSTANTS Values, MaxNodes

VARIABLES obj, want, trusted

vars == <<obj, want, trusted>>

Init ==
  /\ obj \in {[type |-> "ArrayStack", data |-> <<>>, length |-> 0],
              [type |-> "LinkedStack", val |-> <<>>, next |-> <<>>, top |-> Nil, length |-> 0]}
  /\ want = <<>> /\ trusted = TRUE

ArrayPush(v) ==
  /\ obj.type = "ArrayStack" /\ obj.length < MaxNodes
  /\ obj' = [obj EXCEPT !.data = <<v>> \o @, !.length = @ + 1]
  /\ want' = Append(want, v)
  /\ UNCHANGED trusted

ArrayPop ==
  /\ obj.type = "ArrayStack" /\ obj.length # 0
  /\ obj' = [obj EXCEPT !.data = Tail(@), !.length = @ - 1]
  /\ want' = SubSeq(want, 1, Len(want) - 1)
  /\ UNCHANGED trusted

ArrayClear ==
  /\ obj.type = "ArrayStack"
  /\ obj' = [obj EXCEPT !.data = <<>>, !.length = 0]
  /\ want' = <<>>
  /\ UNCHANGED trusted

LinkedData == ValuesOf(obj.val, Walk(obj.next, obj.top))
LinkedPeak == obj.val[obj.top]

(* The new node points at the old top, nil for the first one. *)
LinkedPush(v) ==
  /\ obj.type = "LinkedStack" /\ Len(obj.val) < MaxNodes
  /\ obj' = [obj EXCEPT !.val = Append(@, v), !.next = Append(@, obj.top),
                        !.top = Len(obj.val) + 1, !.length = @ + 1]
  /\ want' = Append(want, v)
  /\ UNCHANGED trusted

LinkedPop ==
  /\ obj.type = "LinkedStack" /\ obj.length # 0
  /\ obj' = [obj EXCEPT !.top = obj.next[@], !.length = @ - 1]
  /\ want' = SubSeq(want, 1, Len(want) - 1)
  /\ UNCHANGED trusted

LinkedClear ==
  /\ obj.type = "LinkedStack"
  /\ obj' = [obj EXCEPT !.top = Nil, !.length = 0]
  /\ want' = <<>>
  /\ UNCHANGED trusted

Next ==
  \/ \E v \in Values : ArrayPush(v) \/ LinkedPush(v)
  \/ ArrayPop \/ ArrayClear \/ LinkedPop \/ LinkedClear

Spec == Init /\ [][Next]_vars

Backwards(s) == [i \in DOMAIN s |-> s[Len(s) + 1 - i]]

(* Stack: whatever was pushed, popped and cleared, both stacks hold the    *)
(* values that wait with the newest on top, and length counts them, so     *)
(* that Pop and Peak, which ask the length, never follow a nil pointer.    *)
NewestFirst ==
  /\ obj.type = "ArrayStack" => obj.data = Backwards(want) /\ obj.length = Len(want)
  /\ obj.type = "LinkedStack" =>
       /\ LinkedData = Backwards(want) /\ obj.length = Len(want)
       /\ want # <<>> => LinkedPeak = want[Len(want)]
=============================================================================
