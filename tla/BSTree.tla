------------------------------- MODULE BSTree -------------------------------
(***************************************************************************)
(* tree.BSTree (bstree.go, tree_internal.go) over nodes with pointers to   *)
(* their children. Delete drops what deleteTreeNode returns for the root,  *)
(* so the root stays ("delete root node failed"), and if it has both       *)
(* children its left subtree then hangs under two nodes. want is the bag   *)
(* of the values of the tree.                                              *)
(***************************************************************************)
EXTENDS Loops, FiniteSets

CONSTANTS Values,
          MaxNodes   \* bound on the nodes allocated

VARIABLES obj, want,
          trusted    \* a root with both children has never been deleted

vars == <<obj, want, trusted>>

Bag(s) == [v \in Values |-> Cardinality({i \in DOMAIN s : s[i] = v})]

Init ==
  /\ \E v \in Values : /\ obj = [type |-> "BSTree", val |-> <<v>>, left |-> <<Nil>>, right |-> <<Nil>>]
                       /\ want = Bag(<<v>>)
  /\ trusted = TRUE

Root == 1

Live == obj.type = "BSTree" /\ trusted

(* The nil child at which a new value ends: left of a greater node, right  *)
(* of the others.                                                          *)
insertTreeNode(t, n, new) ==
  LET Child(m) == IF t.val[new] < t.val[m] THEN t.left[m] ELSE t.right[m]
      Parent[m \in DOMAIN t.val] == IF Child(m) = Nil THEN m ELSE Parent[Child(m)]
  IN  IF t.val[new] < t.val[Parent[n]] THEN [t EXCEPT !.left[Parent[n]] = new] ELSE [t EXCEPT !.right[Parent[n]] = new]

(* Mutant: the leftmost node not looked for. *)
inOrderSuccessorFirst(t, n) == n

inOrderSuccessor(t, n) ==
  LET Leftmost[m \in DOMAIN t.val] == IF t.left[m] = Nil THEN m ELSE Leftmost[t.left[m]] IN Leftmost[n]

Nodes(t) == 0 .. Len(t.val)

(* The tree after the call and the node it returns: for the node m that    *)
(* holds the value, and for n.                                             *)
TakenOut(t, m) ==
  CASE t.left[m] = Nil -> [tree |-> t, node |-> t.right[m]]
    [] t.left[m] # Nil /\ t.right[m] = Nil -> [tree |-> t, node |-> t.left[m]]
    [] OTHER -> [tree |-> [t EXCEPT !.left[inOrderSuccessor(t, t.right[m])] = t.left[m]], node |-> t.right[m]]

deleteTreeNode(t, n, v) ==
  LET D[m \in Nodes(t)] ==
        IF m = Nil THEN [tree |-> t, node |-> Nil]
        ELSE IF v < t.val[m] THEN [tree |-> [D[t.left[m]].tree EXCEPT !.left[m] = D[t.left[m]].node], node |-> m]
        ELSE IF v > t.val[m] THEN [tree |-> [D[t.right[m]].tree EXCEPT !.right[m] = D[t.right[m]].node], node |-> m]
        ELSE TakenOut(t, m)
  IN  D[n]

preOrderTraverse(t, n) ==
  LET T[m \in Nodes(t)] == IF m = Nil THEN <<>> ELSE <<m>> \o T[t.left[m]] \o T[t.right[m]] IN T[n]
inOrderTraverse(t, n) ==
  LET T[m \in Nodes(t)] == IF m = Nil THEN <<>> ELSE T[t.left[m]] \o <<m>> \o T[t.right[m]] IN T[n]

(* The children are traversed in pre order. *)
postOrderTraverse(t, n) ==
  IF n = Nil THEN <<>> ELSE preOrderTraverse(t, t.left[n]) \o preOrderTraverse(t, t.right[n]) \o <<n>>

levelOrderTraverse(t, n) ==
  LET Enqueued(c) == IF c = Nil THEN <<>> ELSE <<c>>
  IN  While(Len(t.val), [queue |-> <<n>>, visited |-> <<>>], LAMBDA s : s.queue # <<>>,
            LAMBDA s : [queue |-> Tail(s.queue) \o Enqueued(t.left[Head(s.queue)]) \o Enqueued(t.right[Head(s.queue)]),
                        visited |-> Append(s.visited, Head(s.queue))]).visited

Larger(a, b) == IF a > b THEN a ELSE b
calculateDepth(t, n, depth) ==
  LET Depth[m \in Nodes(t)] ==
        [d \in Nat |-> IF m = Nil THEN d ELSE Larger(Depth[t.left[m]][d + 1], Depth[t.right[m]][d + 1])]
  IN  Depth[n][depth]
NodeLevel(t, n) ==
  LET Level[m \in Nodes(t)] == IF m = Nil THEN 0 ELSE Larger(Level[t.left[m]], Level[t.right[m]]) + 1 IN Level[n]

isSubTree(t, super, sub) ==
  LET Is[m \in Nodes(t)] == [k \in Nodes(t) |->
        \/ k = Nil
        \/ m # Nil /\ t.val[m] = t.val[k] /\ Is[t.left[m]][t.left[k]] /\ Is[t.right[m]][t.right[k]]]
  IN  Is[super][sub]
hasSubTree(t, super, sub) ==
  LET Has[m \in Nodes(t)] ==
        /\ m # Nil /\ sub # Nil
        /\ \/ t.val[m] = t.val[sub] /\ isSubTree(t, m, sub)
           \/ Has[t.left[m]] \/ Has[t.right[m]]
  IN  Has[super]

Insert(v) ==
  LET new == Len(obj.val) + 1
  IN  /\ Live /\ new <= MaxNodes
      /\ obj' = insertTreeNode([obj EXCEPT !.val = Append(@, v), !.left = Append(@, Nil), !.right = Append(@, Nil)],
                               Root, new)
      /\ want' = [want EXCEPT ![v] = @ + 1]
      /\ UNCHANGED trusted

(* A second deletion of such a root ties the leftmost node to its own      *)
(* ancestor, and nothing ends any more: what follows the first is not      *)
(* modelled.                                                               *)
Delete(v) ==
  /\ Live
  /\ obj' = deleteTreeNode(obj, Root, v).tree
  /\ want' = IF want[v] > 0 /\ v # obj.val[Root] THEN [want EXCEPT ![v] = @ - 1] ELSE want
  /\ trusted' = ~(v = obj.val[Root] /\ obj.left[Root] # Nil /\ obj.right[Root] # Nil)

Next == \E v \in Values : Insert(v) \/ Delete(v)

Spec == Init /\ [][Next]_vars

Under(t, n) == {preOrderTraverse(t, n)[i] : i \in DOMAIN preOrderTraverse(t, n)}
Reached == Under(obj, Root)

(* Children are allocated nodes, or none. *)
Allocated(t) ==
  LET Children == [1 .. Len(t.val) -> 0 .. Len(t.val)]
  IN  t \in [type : {"BSTree"}, val : Seq(Values), left : Children, right : Children] /\ t.val # <<>>

(* No node is its own descendant, the nodes taken out included. *)
Grown(t) ==
  /\ \A n \in Nodes(t) : NodeLevel(t, n) \in Nat
  /\ \A n \in DOMAIN t.val : NodeLevel(t, t.left[n]) < NodeLevel(t, n) /\ NodeLevel(t, t.right[n]) < NodeLevel(t, n)

(* What is left of a node is less, and is not what is right of it. *)
Sorted(t, n) ==
  LET L == Under(t, t.left[n])
      R == Under(t, t.right[n])
  IN  L \cap R = {} /\ (\A m \in L : t.val[m] < t.val[n]) /\ (\A m \in R : t.val[m] >= t.val[n])

(* What every step keeps. *)
Inv ==
  /\ obj.type = "BSTree" /\ trusted \in BOOLEAN /\ want \in [Values -> Nat]
  /\ trusted => /\ Allocated(obj) /\ Grown(obj)
                /\ \A n \in Reached : Sorted(obj, n)
                /\ want = [v \in Values |-> Cardinality({n \in Reached : obj.val[n] = v})]

(* Bstree.go: until a root with both children is deleted, inserting and    *)
(* deleting in any order keep the tree a search tree of exactly the values *)
(* put in and not deleted (the root's cannot be); each traversal visits    *)
(* every node once; the depth is the level of the root; and every node's   *)
(* subtree is found in the tree.                                           *)
SearchTree ==
  obj.type = "BSTree" /\ trusted =>
    LET inorder == ValuesOf(obj.val, inOrderTraverse(obj, Root))
    IN  /\ Bag(inorder) = want
        /\ \A i, j \in DOMAIN inorder : i <= j => inorder[i] <= inorder[j]
        /\ \A s \in {preOrderTraverse(obj, Root), postOrderTraverse(obj, Root), levelOrderTraverse(obj, Root)} :
             Bag(ValuesOf(obj.val, s)) = want
        /\ calculateDepth(obj, Root, 0) = NodeLevel(obj, Root)
        /\ \A n \in Reached : hasSubTree(obj, Root, n)
=============================================================================
