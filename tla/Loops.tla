-------------------------------- MODULE Loops --------------------------------
(***************************************************************************)
(* Go's loops as operators: the state s carried through the body Step; and *)
(* the walk along linked nodes (node.go, lrucache.go), where a node is its *)
(* index in the order of allocation, 0 is nil, and next[n] is the node     *)
(* that n points to.                                                       *)
(***************************************************************************)
EXTENDS Integers, Sequences

(* for i := lo; i <= hi; i++ *)
For(s, lo, hi, Step(_, _)) ==
  LET F[i \in lo - 1 .. hi] == IF i = lo - 1 THEN s ELSE Step(F[i - 1], i)
  IN  IF hi < lo THEN s ELSE F[hi]

(* for i := hi; i >= lo; i-- *)
ForDown(s, hi, lo, Step(_, _)) == For(s, lo, hi, LAMBDA t, i : Step(t, hi + lo - i))

(* for _, x := range items *)
Each(s, items, Step(_, _)) == For(s, 1, Len(items), LAMBDA t, i : Step(t, items[i]))

(* for cond { body }, of at most fuel rounds *)
While(fuel, s, Cond(_), Step(_)) == For(s, 1, fuel, LAMBDA t, i : IF Cond(t) THEN Step(t) ELSE t)

(* The items in keep, appended one after the other as a loop meets them. *)
Kept(items, keep) == Each(<<>>, items, LAMBDA kept, x : IF x \in keep THEN Append(kept, x) ELSE kept)

Nil == 0

(* The nodes a loop "for current != nil { current = current.Next }" visits *)
(* from node p; a cyclic chain is cut off after one node too many.         *)
Walk(next, p) ==
  LET Visit[k \in 0 .. Len(next) + 1] ==
        [n \in 0 .. Len(next) |-> IF k = 0 \/ n = Nil THEN <<>> ELSE <<n>> \o Visit[k - 1][next[n]]]
  IN  Visit[Len(next) + 1][p]

ValuesOf(val, nodes) == [i \in DOMAIN nodes |-> val[nodes[i]]]
=============================================================================
