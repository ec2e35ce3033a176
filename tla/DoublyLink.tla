---------------------------- MODULE DoublyLink ----------------------------
(***************************************************************************)
(* link.DoublyLink (doublylink.go) over nodes with both pointers. Only     *)
(* Reverse follows Pre, which an insertion or a deletion in the middle     *)
(* leaves pointing past the new or at the removed node.                    *)
(***************************************************************************)
EXTENDS Loops

CONSTANTS Values,
          MaxNodes   \* bound on the nodes allocated

VARIABLES obj, want,
          trusted    \* no Reverse has met a node with a stale Pre

vars == <<obj, want, trusted>>

Init ==
  /\ obj = [type |-> "DoublyLink", val |-> <<>>, next |-> <<>>, pre |-> <<>>,
            head |-> Nil, length |-> 0, panicked |-> FALSE]
  /\ want = <<>> /\ trusted = TRUE

Live == obj.type = "DoublyLink" /\ ~obj.panicked

Nodes(l) == Walk(l.next, l.head)
Content(l) == ValuesOf(l.val, Nodes(l))
Last(l) == Nodes(l)[Len(Nodes(l))]

New(l) == Len(l.val) + 1
Alloc(l, v, next, pre) == [l EXCEPT !.val = Append(@, v), !.next = Append(@, next), !.pre = Append(@, pre),
                                    !.length = @ + 1]

InsertAtHead(l, v) ==
  LET new == [Alloc(l, v, IF l.length = 0 THEN Nil ELSE l.head, Nil) EXCEPT !.head = New(l)]
  IN  IF l.length = 0 THEN new ELSE [new EXCEPT !.pre[l.head] = New(l)]

InsertAtTail(l, v) == IF l.head = Nil THEN InsertAtHead(l, v)
                      ELSE [Alloc(l, v, Nil, Last(l)) EXCEPT !.next[Last(l)] = New(l)]

(* The node behind the new one keeps its Pre. *)
InsertAt(l, i, v) ==
  IF i < 0 \/ i > l.length THEN l
  ELSE IF i = 0 THEN InsertAtHead(l, v)
  ELSE IF i = l.length THEN InsertAtTail(l, v)
  ELSE LET current == Nodes(l)[i]
       IN  [Alloc(l, v, l.next[current], current) EXCEPT !.next[current] = New(l)]

(* The new head's Pre is cleared without asking whether there is one. *)
DeleteAtHead(l) ==
  IF l.head = Nil THEN l
  ELSE IF l.next[l.head] = Nil THEN [l EXCEPT !.head = Nil, !.panicked = TRUE]
  ELSE [l EXCEPT !.head = l.next[@], !.pre[l.next[l.head]] = Nil, !.length = @ - 1]

DeleteAtTail(l) ==
  IF l.head = Nil \/ l.next[l.head] = Nil THEN DeleteAtHead(l)
  ELSE [l EXCEPT !.next[Nodes(l)[Len(Nodes(l)) - 1]] = Nil, !.length = @ - 1]

(* Like SinglyLink's; the node behind the removed one keeps its Pre. *)
DeleteAt(l, i) ==
  LET h == IF l.next[l.head] = Nil \/ i = 0 THEN DeleteAtHead(l) ELSE l
      t == IF ~h.panicked /\ i = h.length - 1 THEN DeleteAtTail(h) ELSE h
      current == Nodes(t)[i]
  IN  IF l.head = Nil THEN l
      ELSE IF t.panicked \/ i < 1 \/ i > t.length - 1 THEN t
      ELSE [t EXCEPT !.next[current] = t.next[t.next[current]], !.length = @ - 1]

(* Mutant: the head becomes the last node's old Pre, not the last node. *)
ReverseShort(l) ==
  LET on == {Nodes(l)[i] : i \in DOMAIN Nodes(l)}
      turned == [l EXCEPT !.next = [n \in DOMAIN @ |-> IF n \in on THEN l.pre[n] ELSE @[n]],
                          !.pre = [n \in DOMAIN @ |-> IF n \in on THEN l.next[n] ELSE @[n]]]
  IN  IF l.head = Nil \/ l.pre[Last(l)] = Nil THEN turned ELSE [turned EXCEPT !.head = l.pre[Last(l)]]

(* The loop exchanges Pre and Next of each node and goes on to its old     *)
(* Next; temp, the old Pre of the last one, leads to the new head.         *)
Reverse(l) ==
  LET on == {Nodes(l)[i] : i \in DOMAIN Nodes(l)}
      turned == [l EXCEPT !.next = [n \in DOMAIN @ |-> IF n \in on THEN l.pre[n] ELSE @[n]],
                          !.pre = [n \in DOMAIN @ |-> IF n \in on THEN l.next[n] ELSE @[n]]]
  IN  IF l.head = Nil \/ l.pre[Last(l)] = Nil THEN turned
      ELSE [turned EXCEPT !.head = turned.pre[l.pre[Last(l)]]]

Clear(l) == [l EXCEPT !.head = Nil, !.length = 0]

(* Every node of the chain points back at the one before it. *)
PreRight(l) == \A i \in DOMAIN Nodes(l) :
                 l.pre[Nodes(l)[i]] = IF i = 1 THEN Nil ELSE Nodes(l)[i - 1]

(* GetMiddleNode: fast takes two steps for each one of slow. *)
Middle(l) ==
  While(Len(l.val), [fast |-> l.head, slow |-> l.head], LAMBDA t : t.fast # Nil /\ l.next[t.fast] # Nil,
        LAMBDA t : [fast |-> l.next[l.next[t.fast]], slow |-> l.next[t.slow]]).slow

Without(s, i) == SubSeq(s, 1, i - 1) \o SubSeq(s, i + 1, Len(s))
With(s, i, v) == SubSeq(s, 1, i - 1) \o <<v>> \o SubSeq(s, i, Len(s))

(* What a list does after it has lost nodes is not followed. *)
Change(l, s) == /\ Live /\ trusted /\ Len(l.val) <= MaxNodes
                /\ obj' = l /\ want' = s

Indexes == -1 .. MaxNodes

Insert == \E v \in Values, i \in Indexes :
            /\ Change(InsertAt(obj, i, v), IF i \in 0 .. Len(want) THEN With(want, i + 1, v) ELSE want)
            /\ UNCHANGED trusted
AddFirst == \E v \in Values : Change(InsertAtHead(obj, v), <<v>> \o want) /\ UNCHANGED trusted
AddLast == \E v \in Values : Change(InsertAtTail(obj, v), Append(want, v)) /\ UNCHANGED trusted
RemoveFirst == Change(DeleteAtHead(obj), IF want = <<>> THEN want ELSE Tail(want)) /\ UNCHANGED trusted
RemoveLast == Change(DeleteAtTail(obj), IF want = <<>> THEN want ELSE Without(want, Len(want))) /\ UNCHANGED trusted
Remove == \E i \in Indexes :
            /\ Change(DeleteAt(obj, i), IF i + 1 \in DOMAIN want THEN Without(want, i + 1) ELSE want)
            /\ UNCHANGED trusted
Turn == /\ Change(Reverse(obj), [i \in DOMAIN want |-> want[Len(want) + 1 - i]])
        /\ trusted' = PreRight(obj)
Empty == Change(Clear(obj), <<>>) /\ UNCHANGED trusted

Next == Insert \/ AddFirst \/ AddLast \/ RemoveFirst \/ RemoveLast \/ Remove \/ Turn \/ Empty

Spec == Init /\ [][Next]_vars

(* Pointers lead to nodes that were allocated, or nowhere. *)
Allocated(l) ==
  LET Pointers == 0 .. Len(l.val)
  IN  l \in [type : {"DoublyLink"}, val : Seq(Values), next : [1 .. Len(l.val) -> Pointers],
             pre : [1 .. Len(l.val) -> Pointers], head : Pointers, length : Nat, panicked : BOOLEAN]

(* The nodes c, no two of them the same, are the chain from the head. *)
Leads(l, c) ==
  /\ c \in Seq(1 .. Len(l.val))
  /\ \A i, j \in DOMAIN c : c[i] = c[j] => i = j
  /\ l.head = IF c = <<>> THEN Nil ELSE c[1]
  /\ \A i \in DOMAIN c : l.next[c[i]] = IF i = Len(c) THEN Nil ELSE c[i + 1]

(* What every step keeps. *)
Inv ==
  /\ want \in Seq(Values) /\ trusted \in BOOLEAN /\ obj.type = "DoublyLink"
  /\ trusted => Allocated(obj)
  /\ trusted /\ ~obj.panicked => /\ Leads(obj, Nodes(obj)) /\ Content(obj) = want
                                /\ obj.length = Len(want)
  /\ obj.panicked => trusted /\ obj.head = Nil /\ Len(want) <= 1

(* Doublylink.go: until a Reverse meets a stale Pre the chain is the list  *)
(* and the length counts it, whatever Pre says, and a Reverse of a list    *)
(* whose Pre pointers are right leaves them right; a panic comes only from *)
(* deleting from a list of one node, or the first of two.                  *)
ChainIsList ==
  obj.type = "DoublyLink" =>
    /\ trusted /\ ~obj.panicked => Content(obj) = want /\ obj.length = Len(want)
    /\ obj.panicked => obj.head = Nil /\ Len(want) <= 1
    /\ trusted /\ ~obj.panicked /\ want # <<>> =>
         Middle(obj) = Nodes(obj)[Len(want) \div 2 + 1]
=============================================================================
