---------------------------- MODULE SinglyLink ----------------------------
(***************************************************************************)
(* link.SinglyLink (singlylink.go). No node is reachable on two ways, so   *)
(* the chain of nodes is the sequence of their values. The methods are     *)
(* operators on the link, because the deletions call one another.          *)
(***************************************************************************)
EXTENDS Loops

CONSTANTS Values,
          Bound   \* bound on the length

VARIABLES obj, want, trusted

vars == <<obj, want, trusted>>

Init ==
  /\ obj = [type |-> "SinglyLink", chain |-> <<>>, length |-> 0, panicked |-> FALSE]
  /\ want = <<>> /\ trusted = TRUE

Live == obj.type = "SinglyLink" /\ ~obj.panicked

Without(s, i) == SubSeq(s, 1, i - 1) \o SubSeq(s, i + 1, Len(s))
With(s, i, v) == SubSeq(s, 1, i - 1) \o <<v>> \o SubSeq(s, i, Len(s))

InsertAtHead(l, v) == [l EXCEPT !.chain = <<v>> \o @, !.length = @ + 1]
InsertAtTail(l, v) == IF l.chain = <<>> THEN InsertAtHead(l, v)
                      ELSE [l EXCEPT !.chain = Append(@, v), !.length = @ + 1]
InsertAt(l, i, v) ==
  IF i < 0 \/ i > l.length THEN l
  ELSE IF i = 0 THEN InsertAtHead(l, v)
  ELSE IF i = l.length THEN InsertAtTail(l, v)
  ELSE [l EXCEPT !.chain = With(@, i + 1, v), !.length = @ + 1]

DeleteAtHead(l) == IF l.chain = <<>> THEN l ELSE [l EXCEPT !.chain = Tail(@), !.length = @ - 1]

(* After deleting the only node the method goes on with it and follows its *)
(* nil Next.                                                               *)
DeleteAtTail(l) ==
  CASE l.chain = <<>>     -> l
    [] Len(l.chain) = 1   -> [DeleteAtHead(l) EXCEPT !.panicked = TRUE]
    [] OTHER              -> [l EXCEPT !.chain = Without(@, Len(@)), !.length = @ - 1]

(* The deletions at both ends do not return: the conditions that follow    *)
(* are asked again, of the shorter list. The last loop starts at the old   *)
(* head, so that it finds nothing to delete after a deletion at the head.  *)
DeleteAt(l, i) ==
  LET h == IF Len(l.chain) = 1 \/ i = 0 THEN DeleteAtHead(l) ELSE l
      t == IF i = h.length - 1 THEN DeleteAtTail(h) ELSE h
  IN  IF l.chain = <<>> THEN l
      ELSE IF t.panicked \/ i < 1 \/ i > t.length - 1 THEN t
      ELSE [t EXCEPT !.chain = Without(@, i + 1), !.length = @ - 1]

DeleteValue(l, v) ==
  LET kept == Kept(l.chain, Values \ {v})
  IN  [l EXCEPT !.chain = kept, !.length = @ - (Len(l.chain) - Len(kept))]

Reverse(l) == [l EXCEPT !.chain = [i \in DOMAIN @ |-> @[Len(@) + 1 - i]]]
Clear(l) == [l EXCEPT !.chain = <<>>, !.length = 0]

(* GetMiddleNode: fast takes two steps for each one of slow; the position  *)
(* of slow when fast has left the chain.                                   *)
Middle(n) ==
  While(n, [fast |-> 1, slow |-> 1], LAMBDA t : t.fast <= n /\ t.fast + 1 <= n,
        LAMBDA t : [fast |-> t.fast + 2, slow |-> t.slow + 1]).slow

Change(l, s) == /\ Live /\ Len(l.chain) <= Bound
                /\ obj' = l /\ want' = s
                /\ UNCHANGED trusted

Indexes == -1 .. Bound + 1

Insert == \E v \in Values, i \in Indexes :
            Change(InsertAt(obj, i, v), IF i \in 0 .. Len(want) THEN With(want, i + 1, v) ELSE want)
AddFirst == \E v \in Values : Change(InsertAtHead(obj, v), <<v>> \o want)
AddLast == \E v \in Values : Change(InsertAtTail(obj, v), Append(want, v))
RemoveFirst == Change(DeleteAtHead(obj), IF want = <<>> THEN want ELSE Tail(want))
RemoveLast == Change(DeleteAtTail(obj), IF want = <<>> THEN want ELSE Without(want, Len(want)))
Remove == \E i \in Indexes :
            Change(DeleteAt(obj, i), IF i + 1 \in DOMAIN want THEN Without(want, i + 1)
                                     ELSE IF Len(want) = 1 THEN <<>> ELSE want)
RemoveValue == \E v \in Values : Change(DeleteValue(obj, v), Kept(want, Values \ {v}))
Turn == Change(Reverse(obj), [i \in DOMAIN want |-> want[Len(want) + 1 - i]])
Empty == Change(Clear(obj), <<>>)

Next == Insert \/ AddFirst \/ AddLast \/ RemoveFirst \/ RemoveLast \/ Remove \/ RemoveValue \/ Turn \/ Empty

Spec == Init /\ [][Next]_vars

(* What every step keeps. *)
Inv ==
  /\ obj \in [type : {"SinglyLink"}, chain : Seq(Values), length : Nat, panicked : BOOLEAN]
  /\ want \in Seq(Values)
  /\ ~obj.panicked => obj.chain = want /\ obj.length = Len(want)
  /\ obj.panicked => obj.chain = <<>> /\ Len(want) <= 1

(* Singlylink.go: the conditions of DeleteAt that are asked again after a  *)
(* deletion at an end never delete twice, the length counts the nodes, a   *)
(* list of one node loses it whatever the index given, and a panic is left *)
(* only by deleting the last of one node or the first of two.              *)
OneAtATime ==
  obj.type = "SinglyLink" =>
    /\ ~obj.panicked => obj.chain = want /\ obj.length = Len(want)
    /\ obj.panicked => obj.chain = <<>> /\ Len(want) <= 1
    /\ want # <<>> => Middle(Len(want)) = Len(want) \div 2 + 1
=============================================================================
