---------------------------- MODULE BSTreeProofs ----------------------------
(***************************************************************************)
(* BSTree stays a search tree of the values inserted and not deleted, for  *)
(* any values and any number of calls, until a root with two children is   *)
(* deleted.                                                                *)
(***************************************************************************)
EXTENDS Containers, QueuesProofs

-----------------------------------------------------------------------------
(* Trees: nodes 1 to N with the children l and r, 0 for none. A rank that  *)
(* falls from each node to its children is what recursions end by.         *)

Falls(N, l, r, rank) ==
  /\ N \in Nat /\ l \in [1 .. N -> 0 .. N] /\ r \in [1 .. N -> 0 .. N] /\ rank \in [0 .. N -> Nat]
  /\ \A m \in 1 .. N : rank[l[m]] < rank[m] /\ rank[r[m]] < rank[m]

LEMMA TreeInduction ==
    ASSUME NEW N, NEW l, NEW r, NEW rank, Falls(N, l, r, rank),
           NEW T, 0 \in T, \A m \in 1 .. N : l[m] \in T /\ r[m] \in T => m \in T
    PROVE  \A m \in 0 .. N : m \in T
<1>0. /\ N \in Nat /\ \A m \in 0 .. N : rank[m] \in Nat
      /\ \A m \in 1 .. N : l[m] \in 0 .. N /\ r[m] \in 0 .. N /\ rank[l[m]] < rank[m] /\ rank[r[m]] < rank[m]
  BY DEF Falls
<1> DEFINE Missing == {k \in Nat : \E m \in 0 .. N : m \notin T /\ rank[m] = k}
<1>1. ASSUME Missing # {}  PROVE FALSE
  <2>1. PICK k \in Missing : \A j \in Missing : k <= j  BY <1>1, Least
  <2>2. PICK m \in 0 .. N : m \notin T /\ rank[m] = k  OBVIOUS
  <2>3. m \in 1 .. N /\ m # 0  BY <1>0, <2>2
  <2>4. ASSUME NEW c \in 0 .. N, rank[c] < k  PROVE c \in T
    <3>1. rank[c] \in Nat  BY <1>0
    <3>2. c \notin T => rank[c] \in Missing  BY <3>1
    <3>3. k \in Nat  OBVIOUS
    <3> HIDE DEF Missing
    <3> QED BY <2>1, <2>4, <3>1, <3>2, <3>3
  <2>5. l[m] \in T /\ r[m] \in T  BY <1>0, <2>2, <2>3, <2>4
  <2> QED BY <2>2, <2>3, <2>5
<1>2. ASSUME NEW m \in 0 .. N, m \notin T  PROVE FALSE
  <2>1. rank[m] \in Missing  BY <1>0, <1>2
  <2> QED BY <1>1, <2>1
<1> QED BY <1>2

(* There is a number no rank is above. *)
LEMMA RanksBounded ==
    ASSUME NEW N \in Nat, NEW rank \in [0 .. N -> Nat]
    PROVE  \E L \in Nat : \A m \in 0 .. N : rank[m] <= L
<1> DEFINE T == {n \in Nat : n <= N => \E L \in Nat : \A m \in 0 .. n : rank[m] <= L}
<1>1. 0 \in T
  <2>1. rank[0] \in Nat /\ \A m \in 0 .. 0 : rank[m] <= rank[0]  OBVIOUS
  <2> QED BY <2>1
<1>2. ASSUME NEW n \in Nat, n \in T, n < N  PROVE n + 1 \in T
  <2>1. PICK L \in Nat : \A m \in 0 .. n : rank[m] <= L  BY <1>2
  <2>2. n + 1 \in 0 .. N /\ rank[n + 1] \in Nat /\ \A m \in 0 .. n : rank[m] \in Nat  BY <1>2
  <2>3. L + rank[n + 1] \in Nat /\ \A m \in 0 .. n + 1 : rank[m] <= L + rank[n + 1]
    <3>1. \A m : m \in 0 .. n + 1 => m \in 0 .. n \/ m = n + 1  BY <1>2
    <3> QED BY <2>1, <2>2, <3>1
  <2> QED BY <2>3
<1>3. N \in T
  <2> HIDE DEF T
  <2>1. \A n \in Nat : n \in T /\ n < N => n + 1 \in T  BY <1>2
  <2>2. \A n \in 0 .. N : n \in T  BY <1>1, <2>1, Induction
  <2> QED BY <2>2
<1> QED BY <1>3

(* F and G are the same at a node if they are at its children. *)
Follows(N, l, r, F, G) ==
  G[0] = F[0] /\ \A m \in 1 .. N : G[l[m]] = F[l[m]] /\ G[r[m]] = F[r[m]] => G[m] = F[m]

(* Two recursions with the same steps have the same values. *)
LEMMA TreeSame ==
    ASSUME NEW N, NEW l, NEW r, NEW rank, Falls(N, l, r, rank), NEW F, NEW G, Follows(N, l, r, F, G)
    PROVE  \A m \in 0 .. N : G[m] = F[m]
<1> DEFINE T == {m \in 0 .. N : G[m] = F[m]}
<1>1. N \in Nat  BY DEF Falls
<1>2. 0 \in T  BY <1>1 DEF Follows
<1>3. \A m \in 1 .. N : l[m] \in T /\ r[m] \in T => m \in T  BY <1>1 DEF Follows
<1>4. \A m \in 0 .. N : m \in T
  <2> HIDE DEF T
  <2> QED BY <1>2, <1>3, TreeInduction
<1> QED BY <1>4

(* What a recursion on the children computes, z where there is no node. *)
Computed(N, l, r, A, z, step) ==
  {F \in [0 .. N -> A] : F[0] = z /\ \A m \in 1 .. N : F[m] = step[m][<<F[l[m]], F[r[m]]>>]}

LEMMA TreeExists ==
    ASSUME NEW N, NEW l, NEW r, NEW rank, Falls(N, l, r, rank),
           NEW A, NEW z \in A, NEW step \in [1 .. N -> [A \X A -> A]]
    PROVE  \E F : F \in Computed(N, l, r, A, z, step)
<1>0. /\ N \in Nat /\ rank \in [0 .. N -> Nat] /\ \A m \in 0 .. N : rank[m] \in Nat
      /\ \A m \in 1 .. N : l[m] \in 0 .. N /\ r[m] \in 0 .. N /\ rank[l[m]] < rank[m] /\ rank[r[m]] < rank[m]
  BY DEF Falls
<1>1. PICK L \in Nat : \A m \in 0 .. N : rank[m] <= L  BY <1>0, RanksBounded
<1> DEFINE Row(m, F) == step[m][<<F[l[m]], F[r[m]]>>]
           Good(k, F) == F \in [0 .. N -> A] /\ F[0] = z /\ \A m \in 1 .. N : rank[m] < k => F[m] = Row(m, F)
           T == {k \in Nat : \E F : Good(k, F)}
<1>2. 0 \in T
  <2> DEFINE F == [m \in 0 .. N |-> z]
  <2>1. F \in [0 .. N -> A] /\ F[0] = z  BY <1>0
  <2>2. \A m \in 1 .. N : ~(rank[m] < 0)  BY <1>0
  <2> HIDE DEF F, Row
  <2>3. Good(0, F)  BY <2>1, <2>2
  <2> QED BY <2>3
<1>3. ASSUME NEW k \in Nat, k \in T  PROVE k + 1 \in T
  <2>1. PICK F : Good(k, F)  BY <1>3
  <2> DEFINE G == [m \in 0 .. N |-> IF m # 0 /\ rank[m] = k THEN Row(m, F) ELSE F[m]]
  <2>2. \A m \in 1 .. N : m \in 0 .. N /\ m # 0  BY <1>0
  <2>3. \A m \in 1 .. N : Row(m, F) \in A
    <3> TAKE m \in 1 .. N
    <3>1. F[l[m]] \in A /\ F[r[m]] \in A  BY <1>0, <2>1
    <3>2. <<F[l[m]], F[r[m]]>> \in A \X A  BY <3>1
    <3>3. step[m] \in [A \X A -> A]  OBVIOUS
    <3> HIDE DEF Good
    <3> QED BY <3>2, <3>3
  <2>4. G \in [0 .. N -> A] /\ G[0] = z
    <3>1. \A m \in 0 .. N : m # 0 => m \in 1 .. N  BY SMTT(40), <1>0
    <3> HIDE DEF Row
    <3> QED BY <1>0, <2>1, <2>3, <3>1
  <2>5. ASSUME NEW m \in 1 .. N, rank[m] < k + 1  PROVE G[m] = Row(m, G)
    <3>1. l[m] \in 0 .. N /\ r[m] \in 0 .. N /\ rank[l[m]] # k /\ rank[r[m]] # k  BY <1>0, <2>5
    <3>2. G[l[m]] = F[l[m]] /\ G[r[m]] = F[r[m]]
      <4> HIDE DEF Row
      <4> QED BY <3>1
    <3>3. Row(m, G) = Row(m, F)
      <4> HIDE DEF G
      <4> QED BY <3>2
    <3>4. m \in 0 .. N /\ m # 0  BY <2>2
    <3>5. CASE rank[m] = k
      <4> HIDE DEF Row
      <4>1. G[m] = Row(m, F)  BY <3>4, <3>5
      <4> HIDE DEF G
      <4> QED BY <3>3, <4>1
    <3>6. CASE rank[m] # k
      <4>1. rank[m] < k  BY <1>0, <2>5, <3>4, <3>6
      <4> HIDE DEF Row
      <4>2. G[m] = F[m]  BY <3>4, <3>6
      <4>3. F[m] = Row(m, F)  BY <2>1, <4>1
      <4> HIDE DEF G
      <4> QED BY <3>3, <4>2, <4>3
    <3> QED BY <3>5, <3>6
  <2>6. Good(k + 1, G)
    <3> HIDE DEF G, Row
    <3> QED BY <2>4, <2>5
  <2> HIDE DEF G, Good
  <2> QED BY <2>6
<1>4. L + 1 \in T
  <2> HIDE DEF T
  <2>1. \A k \in Nat : k \in T /\ k < L + 1 => k + 1 \in T  BY <1>3
  <2>2. L + 1 \in Nat /\ L + 1 \in 0 .. L + 1  OBVIOUS
  <2>3. \A k \in 0 .. L + 1 : k \in T  BY <1>2, <2>1, <2>2, Induction
  <2> QED BY <2>2, <2>3
<1>5. PICK F : Good(L + 1, F)
  <2> HIDE DEF Good
  <2> QED BY <1>4
<1>6. \A m \in 1 .. N : rank[m] < L + 1  BY <1>0, <1>1
<1>7. F \in [0 .. N -> A] /\ F[0] = z /\ \A m \in 1 .. N : F[m] = Row(m, F)
  <2> HIDE DEF Row
  <2> QED BY <1>5, <1>6
<1> QED BY <1>7 DEF Computed

-----------------------------------------------------------------------------
(* The binary search tree: what its recursions compute *)

(* Nodes with children from which no path leads back. *)
Grows(t) == BT!Allocated(t) /\ \E rank : Falls(Len(t.val), t.left, t.right, rank)

LEMMA TreeIs ==
    ASSUME NEW t, Grows(t)
    PROVE  /\ BT!Allocated(t) /\ Len(t.val) \in Nat /\ Len(t.val) > 0 /\ t.val \in Seq(Priorities)
           /\ t.left \in [1 .. Len(t.val) -> 0 .. Len(t.val)] /\ t.right \in [1 .. Len(t.val) -> 0 .. Len(t.val)]
           /\ \A m \in 1 .. Len(t.val) : t.val[m] \in Int /\ t.val[m] \in Priorities
           /\ DOMAIN t.val = 1 .. Len(t.val) /\ BT!Nodes(t) = 0 .. Len(t.val)
<1>1. BT!Allocated(t) /\ t.val \in Seq(Priorities) /\ t.val # <<>>  BY DEF Grows, BT!Allocated
<1>2. /\ t.left \in [1 .. Len(t.val) -> 0 .. Len(t.val)] /\ t.right \in [1 .. Len(t.val) -> 0 .. Len(t.val)]
  BY <1>1 DEF BT!Allocated
<1>3. Len(t.val) \in Nat /\ DOMAIN t.val = 1 .. Len(t.val) /\ Len(t.val) > 0
  <2>1. Len(t.val) \in Nat /\ DOMAIN t.val = 1 .. Len(t.val)  BY <1>1, LenProperties
  <2>2. Len(t.val) # 0  BY <1>1, EmptySeq
  <2> QED BY <2>1, <2>2
<1>4. \A m \in 1 .. Len(t.val) : t.val[m] \in Int /\ t.val[m] \in Priorities
  BY <1>1, <1>3, ElementOfSeq, HeapsAssumption DEF HeapsAssumption
<1> QED BY <1>1, <1>2, <1>3, <1>4 DEF BT!Nodes

LEMMA PreOrderUnrolls ==
    ASSUME NEW t, Grows(t)
    PROVE  \E F \in [0 .. Len(t.val) -> Seq(1 .. Len(t.val))] :
             /\ F[0] = <<>> /\ \A m \in 1 .. Len(t.val) : F[m] = <<m>> \o F[t.left[m]] \o F[t.right[m]]
             /\ \A n : BT!preOrderTraverse(t, n) = F[n]
<1> DEFINE N == Len(t.val)
           l == t.left
           r == t.right
           A == Seq(1 .. N)
           z == <<>>
           Body(m, a, b) == <<m>> \o a \o b
           Row(m, G) == IF m = 0 THEN <<>> ELSE <<m>> \o G[l[m]] \o G[r[m]]
           W == CHOOSE G : G = [m \in 0 .. N |-> Row(m, G)]
           step == [m \in 1 .. N |-> [p \in A \X A |-> Body(m, p[1], p[2])]]
<1>1. PICK rank : Falls(N, l, r, rank)  BY DEF Grows
<1>2. N \in Nat /\ \A m \in 1 .. N : l[m] \in 0 .. N /\ r[m] \in 0 .. N /\ m # 0 /\ m \in 0 .. N  BY TreeIs
<1>3. \A n : BT!preOrderTraverse(t, n) = W[n]
  <2>1. BT!Nodes(t) = 0 .. N  BY DEF BT!Nodes
  <2> HIDE DEF N
  <2> QED BY <2>1, Zenon DEF BT!preOrderTraverse, BT!Nil
<1> HIDE DEF N, l, r
<1>4. z \in A /\ \A m \in 1 .. N : \A a \in A, b \in A : Body(m, a, b) \in A
  <2>1. z \in A  BY EmptySeq
  <2>2. ASSUME NEW m \in 1 .. N, NEW a \in A, NEW b \in A  PROVE Body(m, a, b) \in A
    <3>1. <<m>> \in A  OBVIOUS
    <3> HIDE DEF A
    <3> QED BY <3>1, ConcatProperties DEF A
  <2> QED BY <2>1, <2>2
<1>5. (\A G : Row(0, G) = z) /\ \A m \in 1 .. N : \A G : Row(m, G) = Body(m, G[l[m]], G[r[m]])
  BY <1>2
<1> HIDE DEF A, z, Body, Row
<1>6. PICK F \in [0 .. N -> A] : F[0] = z /\ \A m \in 1 .. N : F[m] = step[m][<<F[l[m]], F[r[m]]>>]
  <2>1. step \in [1 .. N -> [A \X A -> A]]  BY <1>4
  <2> HIDE DEF step
  <2>2. PICK F : F \in Computed(N, l, r, A, z, step)  BY <1>1, <1>4, <2>1, TreeExists
  <2> QED BY <2>2 DEF Computed
<1>7. \A m \in 1 .. N : F[m] = Body(m, F[l[m]], F[r[m]])
  <2> TAKE m \in 1 .. N
  <2>1. F[l[m]] \in A /\ F[r[m]] \in A  BY <1>2
  <2> QED BY <1>6, <2>1
<1>8. W = [m \in 0 .. N |-> Row(m, W)]
  <2>1. \A m \in 0 .. N : F[m] = Row(m, F)
    <3>1. \A m \in 0 .. N : m = 0 \/ m \in 1 .. N  BY <1>2
    <3> QED BY ZenonT(40), <1>5, <1>6, <1>7, <3>1
  <2>2. F = [m \in 0 .. N |-> Row(m, F)]  BY <2>1
  <2> QED BY <2>2
<1> HIDE DEF W
<1>9. \A m \in 0 .. N : W[m] = F[m]
  <2>1. \A m \in 0 .. N : W[m] = Row(m, W)  BY <1>8
  <2>2. W[0] = F[0]
    <3>1. 0 \in 0 .. N  BY <1>2
    <3> QED BY <1>5, <1>6, <2>1, <3>1
  <2>3. \A m \in 1 .. N : W[m] = Body(m, W[l[m]], W[r[m]])  BY <1>2, <1>5, <2>1
  <2>4. \A m \in 1 .. N : W[l[m]] = F[l[m]] /\ W[r[m]] = F[r[m]] => W[m] = F[m]  BY <1>7, <2>3
  <2>5. Follows(N, l, r, F, W)  BY <2>2, <2>4 DEF Follows
  <2>6. ASSUME NEW G, NEW H, Follows(N, l, r, G, H)  PROVE \A m \in 0 .. N : H[m] = G[m]  BY <1>1, <2>6, TreeSame
  <2> QED BY <2>5, <2>6
<1>10. W = F  BY SMTT(40), <1>8, <1>9
<1> HIDE DEF W
<1> QED BY <1>3, <1>6, <1>7, <1>10 DEF N, l, r, A, z, Body

LEMMA InOrderUnrolls ==
    ASSUME NEW t, Grows(t)
    PROVE  \E F \in [0 .. Len(t.val) -> Seq(1 .. Len(t.val))] :
             /\ F[0] = <<>> /\ \A m \in 1 .. Len(t.val) : F[m] = F[t.left[m]] \o <<m>> \o F[t.right[m]]
             /\ \A n : BT!inOrderTraverse(t, n) = F[n]
<1> DEFINE N == Len(t.val)
           l == t.left
           r == t.right
           A == Seq(1 .. N)
           z == <<>>
           Body(m, a, b) == a \o <<m>> \o b
           Row(m, G) == IF m = 0 THEN <<>> ELSE G[l[m]] \o <<m>> \o G[r[m]]
           W == CHOOSE G : G = [m \in 0 .. N |-> Row(m, G)]
           step == [m \in 1 .. N |-> [p \in A \X A |-> Body(m, p[1], p[2])]]
<1>1. PICK rank : Falls(N, l, r, rank)  BY DEF Grows
<1>2. N \in Nat /\ \A m \in 1 .. N : l[m] \in 0 .. N /\ r[m] \in 0 .. N /\ m # 0 /\ m \in 0 .. N  BY TreeIs
<1>3. \A n : BT!inOrderTraverse(t, n) = W[n]
  <2>1. BT!Nodes(t) = 0 .. N  BY DEF BT!Nodes
  <2> HIDE DEF N
  <2> QED BY <2>1, Zenon DEF BT!inOrderTraverse, BT!Nil
<1> HIDE DEF N, l, r
<1>4. z \in A /\ \A m \in 1 .. N : \A a \in A, b \in A : Body(m, a, b) \in A
  <2>1. z \in A  BY EmptySeq
  <2>2. ASSUME NEW m \in 1 .. N, NEW a \in A, NEW b \in A  PROVE Body(m, a, b) \in A
    <3>1. <<m>> \in A  OBVIOUS
    <3> HIDE DEF A
    <3> QED BY <3>1, ConcatProperties DEF A
  <2> QED BY <2>1, <2>2
<1>5. (\A G : Row(0, G) = z) /\ \A m \in 1 .. N : \A G : Row(m, G) = Body(m, G[l[m]], G[r[m]])
  BY <1>2
<1> HIDE DEF A, z, Body, Row
<1>6. PICK F \in [0 .. N -> A] : F[0] = z /\ \A m \in 1 .. N : F[m] = step[m][<<F[l[m]], F[r[m]]>>]
  <2>1. step \in [1 .. N -> [A \X A -> A]]  BY <1>4
  <2> HIDE DEF step
  <2>2. PICK F : F \in Computed(N, l, r, A, z, step)  BY <1>1, <1>4, <2>1, TreeExists
  <2> QED BY <2>2 DEF Computed
<1>7. \A m \in 1 .. N : F[m] = Body(m, F[l[m]], F[r[m]])
  <2> TAKE m \in 1 .. N
  <2>1. F[l[m]] \in A /\ F[r[m]] \in A  BY <1>2
  <2> QED BY <1>6, <2>1
<1>8. W = [m \in 0 .. N |-> Row(m, W)]
  <2>1. \A m \in 0 .. N : F[m] = Row(m, F)
    <3>1. \A m \in 0 .. N : m = 0 \/ m \in 1 .. N  BY <1>2
    <3> QED BY <1>5, <1>6, <1>7, <3>1
  <2>2. F = [m \in 0 .. N |-> Row(m, F)]  BY <2>1
  <2> QED BY <2>2
<1> HIDE DEF W
<1>9. \A m \in 0 .. N : W[m] = F[m]
  <2>1. \A m \in 0 .. N : W[m] = Row(m, W)  BY <1>8
  <2>2. W[0] = F[0]
    <3>1. 0 \in 0 .. N  BY <1>2
    <3> QED BY <1>5, <1>6, <2>1, <3>1
  <2>3. \A m \in 1 .. N : W[m] = Body(m, W[l[m]], W[r[m]])  BY <1>2, <1>5, <2>1
  <2>4. \A m \in 1 .. N : W[l[m]] = F[l[m]] /\ W[r[m]] = F[r[m]] => W[m] = F[m]  BY <1>7, <2>3
  <2>5. Follows(N, l, r, F, W)  BY <2>2, <2>4 DEF Follows
  <2>6. ASSUME NEW G, NEW H, Follows(N, l, r, G, H)  PROVE \A m \in 0 .. N : H[m] = G[m]  BY <1>1, <2>6, TreeSame
  <2> QED BY <2>5, <2>6
<1>10. W = F  BY <1>8, <1>9
<1> HIDE DEF W
<1> QED BY <1>3, <1>6, <1>7, <1>10 DEF N, l, r, A, z, Body

LEMMA LevelUnrolls ==
    ASSUME NEW t, Grows(t)
    PROVE  \E F \in [0 .. Len(t.val) -> Nat] :
             /\ F[0] = 0 /\ \A m \in 1 .. Len(t.val) : F[m] = BT!Larger(F[t.left[m]], F[t.right[m]]) + 1
             /\ \A n : BT!NodeLevel(t, n) = F[n]
<1> DEFINE N == Len(t.val)
           l == t.left
           r == t.right
           A == Nat
           z == 0
           Body(m, a, b) == BT!Larger(a, b) + 1
           Row(m, G) == IF m = 0 THEN 0 ELSE BT!Larger(G[l[m]], G[r[m]]) + 1
           W == CHOOSE G : G = [m \in 0 .. N |-> Row(m, G)]
           step == [m \in 1 .. N |-> [p \in A \X A |-> Body(m, p[1], p[2])]]
<1>1. PICK rank : Falls(N, l, r, rank)  BY DEF Grows
<1>2. N \in Nat /\ \A m \in 1 .. N : l[m] \in 0 .. N /\ r[m] \in 0 .. N /\ m # 0 /\ m \in 0 .. N  BY TreeIs
<1>3. \A n : BT!NodeLevel(t, n) = W[n]
  <2>1. BT!Nodes(t) = 0 .. N  BY DEF BT!Nodes
  <2> HIDE DEF N
  <2> QED BY <2>1, Zenon DEF BT!NodeLevel, BT!Nil
<1> HIDE DEF N, l, r
<1>4. z \in A /\ \A m \in 1 .. N : \A a \in A, b \in A : Body(m, a, b) \in A
  <2>1. z \in A  OBVIOUS
  <2>2. ASSUME NEW m \in 1 .. N, NEW a \in A, NEW b \in A  PROVE Body(m, a, b) \in A
    <3> QED BY DEF BT!Larger
  <2> QED BY <2>1, <2>2
<1>5. (\A G : Row(0, G) = z) /\ \A m \in 1 .. N : \A G : Row(m, G) = Body(m, G[l[m]], G[r[m]])
  BY <1>2
<1> HIDE DEF A, z, Body, Row
<1>6. PICK F \in [0 .. N -> A] : F[0] = z /\ \A m \in 1 .. N : F[m] = step[m][<<F[l[m]], F[r[m]]>>]
  <2>1. step \in [1 .. N -> [A \X A -> A]]  BY <1>4
  <2> HIDE DEF step
  <2>2. PICK F : F \in Computed(N, l, r, A, z, step)  BY <1>1, <1>4, <2>1, TreeExists
  <2> QED BY <2>2 DEF Computed
<1>7. \A m \in 1 .. N : F[m] = Body(m, F[l[m]], F[r[m]])
  <2> TAKE m \in 1 .. N
  <2>1. F[l[m]] \in A /\ F[r[m]] \in A  BY <1>2
  <2> QED BY <1>6, <2>1
<1>8. W = [m \in 0 .. N |-> Row(m, W)]
  <2>1. \A m \in 0 .. N : F[m] = Row(m, F)
    <3>1. \A m \in 0 .. N : m = 0 \/ m \in 1 .. N  BY <1>2
    <3> QED BY <1>5, <1>6, <1>7, <3>1
  <2>2. F = [m \in 0 .. N |-> Row(m, F)]  BY <2>1
  <2> QED BY <2>2
<1> HIDE DEF W
<1>9. \A m \in 0 .. N : W[m] = F[m]
  <2>1. \A m \in 0 .. N : W[m] = Row(m, W)  BY <1>8
  <2>2. W[0] = F[0]
    <3>1. 0 \in 0 .. N  BY <1>2
    <3> QED BY <1>5, <1>6, <2>1, <3>1
  <2>3. \A m \in 1 .. N : W[m] = Body(m, W[l[m]], W[r[m]])  BY <1>2, <1>5, <2>1
  <2>4. \A m \in 1 .. N : W[l[m]] = F[l[m]] /\ W[r[m]] = F[r[m]] => W[m] = F[m]  BY <1>7, <2>3
  <2>5. Follows(N, l, r, F, W)  BY <2>2, <2>4 DEF Follows
  <2>6. ASSUME NEW G, NEW H, Follows(N, l, r, G, H)  PROVE \A m \in 0 .. N : H[m] = G[m]  BY <1>1, <2>6, TreeSame
  <2> QED BY <2>5, <2>6
<1>10. W = F  BY <1>8, <1>9
<1> HIDE DEF W
<1> QED BY <1>3, <1>6, <1>7, <1>10 DEF N, l, r, A, z, Body

LEMMA IsUnrolls ==
    ASSUME NEW t, Grows(t)
    PROVE  \E F \in [0 .. Len(t.val) -> [0 .. Len(t.val) -> BOOLEAN]] :
             /\ F[0][0] /\ \A m \in 1 .. Len(t.val) : \A k \in 0 .. Len(t.val) :
                  F[m][k] <=> k = 0 \/ (t.val[m] = t.val[k] /\ F[t.left[m]][t.left[k]] /\ F[t.right[m]][t.right[k]])
             /\ \A n, k : BT!isSubTree(t, n, k) = F[n][k]
<1> DEFINE N == Len(t.val)
           l == t.left
           r == t.right
           v == t.val
           A == [0 .. N -> BOOLEAN]
           z == [k \in 0 .. N |-> k = 0]
           Body(m, a, b) == [k \in 0 .. N |-> k = 0 \/ (v[m] = v[k] /\ a[l[k]] /\ b[r[k]])]
           Row(m, G) == [k \in 0 .. N |->
                          \/ k = 0
                          \/ m # 0 /\ v[m] = v[k] /\ G[l[m]][l[k]] /\ G[r[m]][r[k]]]
           W == CHOOSE G : G = [m \in 0 .. N |-> Row(m, G)]
           step == [m \in 1 .. N |-> [p \in A \X A |-> Body(m, p[1], p[2])]]
<1>1. PICK rank : Falls(N, l, r, rank)  BY DEF Grows
<1>2. N \in Nat /\ \A m \in 1 .. N : l[m] \in 0 .. N /\ r[m] \in 0 .. N /\ m # 0 /\ m \in 0 .. N  BY TreeIs
<1>3. \A n, k : BT!isSubTree(t, n, k) = W[n][k]
  <2>1. BT!Nodes(t) = 0 .. N  BY DEF BT!Nodes
  <2> HIDE DEF N
  <2> QED BY <2>1, Zenon DEF BT!isSubTree, BT!Nil
<1> HIDE DEF N, l, r, v
<1>4. z \in A /\ \A m \in 1 .. N : \A a \in A, b \in A : Body(m, a, b) \in A
  <2>1. z \in A  OBVIOUS
  <2>2. ASSUME NEW m \in 1 .. N, NEW a \in A, NEW b \in A  PROVE Body(m, a, b) \in A
    <3> QED OBVIOUS
  <2> QED BY <2>1, <2>2
<1>5. (\A G : Row(0, G) = z) /\ \A m \in 1 .. N : \A G : Row(m, G) = Body(m, G[l[m]], G[r[m]])
  BY <1>2
<1> HIDE DEF A, z, Body, Row
<1>6. PICK F \in [0 .. N -> A] : F[0] = z /\ \A m \in 1 .. N : F[m] = step[m][<<F[l[m]], F[r[m]]>>]
  <2>1. step \in [1 .. N -> [A \X A -> A]]  BY <1>4
  <2> HIDE DEF step
  <2>2. PICK F : F \in Computed(N, l, r, A, z, step)  BY <1>1, <1>4, <2>1, TreeExists
  <2> QED BY <2>2 DEF Computed
<1>7. \A m \in 1 .. N : F[m] = Body(m, F[l[m]], F[r[m]])
  <2> TAKE m \in 1 .. N
  <2>1. F[l[m]] \in A /\ F[r[m]] \in A  BY <1>2
  <2> QED BY <1>6, <2>1
<1>8. W = [m \in 0 .. N |-> Row(m, W)]
  <2>1. \A m \in 0 .. N : F[m] = Row(m, F)
    <3>1. \A m \in 0 .. N : m = 0 \/ m \in 1 .. N  BY <1>2
    <3> QED BY <1>5, <1>6, <1>7, <3>1
  <2>2. F = [m \in 0 .. N |-> Row(m, F)]  BY <2>1
  <2> QED BY <2>2
<1> HIDE DEF W
<1>9. \A m \in 0 .. N : W[m] = F[m]
  <2>1. \A m \in 0 .. N : W[m] = Row(m, W)  BY <1>8
  <2>2. W[0] = F[0]
    <3>1. 0 \in 0 .. N  BY <1>2
    <3> QED BY <1>5, <1>6, <2>1, <3>1
  <2>3. \A m \in 1 .. N : W[m] = Body(m, W[l[m]], W[r[m]])  BY <1>2, <1>5, <2>1
  <2>4. \A m \in 1 .. N : W[l[m]] = F[l[m]] /\ W[r[m]] = F[r[m]] => W[m] = F[m]  BY <1>7, <2>3
  <2>5. Follows(N, l, r, F, W)  BY <2>2, <2>4 DEF Follows
  <2>6. ASSUME NEW G, NEW H, Follows(N, l, r, G, H)  PROVE \A m \in 0 .. N : H[m] = G[m]  BY <1>1, <2>6, TreeSame
  <2> QED BY <2>5, <2>6
<1>10. W = F  BY <1>8, <1>9
<1> HIDE DEF W
<1>11. F \in [0 .. N -> [0 .. N -> BOOLEAN]] /\ F[0][0]
  <2>1. 0 \in 0 .. N /\ F[0] = [k \in 0 .. N |-> k = 0]  BY <1>2, <1>6 DEF z
  <2> QED BY <1>6, <2>1 DEF A
<1>12. \A m \in 1 .. N : \A k \in 0 .. N : F[m][k] <=> k = 0 \/ (v[m] = v[k] /\ F[l[m]][l[k]] /\ F[r[m]][r[k]])
  <2> TAKE m \in 1 .. N
  <2> TAKE k \in 0 .. N
  <2>1. F[m] = Body(m, F[l[m]], F[r[m]])  BY <1>7
  <2>2. Body(m, F[l[m]], F[r[m]])[k] <=> k = 0 \/ (v[m] = v[k] /\ F[l[m]][l[k]] /\ F[r[m]][r[k]])  BY DEF Body
  <2> QED BY <2>1, <2>2
<1>13. \A n, k : BT!isSubTree(t, n, k) = F[n][k]  BY <1>3, <1>10
<1> HIDE DEF A, z, Body
<1> QED BY Zenon, <1>11, <1>12, <1>13 DEF N, l, r, v

LEMMA HasUnrolls ==
    ASSUME NEW t, Grows(t), NEW sub
    PROVE  \E F \in [0 .. Len(t.val) -> BOOLEAN] :
             /\ F[0] = FALSE
             /\ \A m \in 1 .. Len(t.val) : F[m] = (sub # 0 /\ ((t.val[m] = t.val[sub] /\ BT!isSubTree(t, m, sub))
                                                            \/ F[t.left[m]] \/ F[t.right[m]]))
             /\ \A n : BT!hasSubTree(t, n, sub) = F[n]
<1> DEFINE N == Len(t.val)
           l == t.left
           r == t.right
           v == t.val
           A == BOOLEAN
           z == FALSE
           Body(m, a, b) == sub # 0 /\ ((v[m] = v[sub] /\ BT!isSubTree(t, m, sub)) \/ a \/ b)
           Row(m, G) == /\ m # 0 /\ sub # 0
                        /\ \/ v[m] = v[sub] /\ BT!isSubTree(t, m, sub)
                           \/ G[l[m]] \/ G[r[m]]
           W == CHOOSE G : G = [m \in 0 .. N |-> Row(m, G)]
           step == [m \in 1 .. N |-> [p \in A \X A |-> Body(m, p[1], p[2])]]
<1>1. PICK rank : Falls(N, l, r, rank)  BY DEF Grows
<1>2. N \in Nat /\ \A m \in 1 .. N : l[m] \in 0 .. N /\ r[m] \in 0 .. N /\ m # 0 /\ m \in 0 .. N  BY TreeIs
<1>3. \A n : BT!hasSubTree(t, n, sub) = W[n]
  <2>1. BT!Nodes(t) = 0 .. N  BY DEF BT!Nodes
  <2> HIDE DEF N
  <2> QED BY <2>1, Zenon DEF BT!hasSubTree, BT!Nil
<1> HIDE DEF N, l, r, v
<1>4. z \in A /\ \A m \in 1 .. N : \A a \in A, b \in A : Body(m, a, b) \in A
  <2>1. z \in A  OBVIOUS
  <2>2. ASSUME NEW m \in 1 .. N, NEW a \in A, NEW b \in A  PROVE Body(m, a, b) \in A
    <3> QED OBVIOUS
  <2> QED BY <2>1, <2>2
<1>5. (\A G : Row(0, G) = z) /\ \A m \in 1 .. N : \A G : Row(m, G) = Body(m, G[l[m]], G[r[m]])
  BY <1>2
<1> HIDE DEF A, z, Body, Row
<1>6. PICK F \in [0 .. N -> A] : F[0] = z /\ \A m \in 1 .. N : F[m] = step[m][<<F[l[m]], F[r[m]]>>]
  <2>1. step \in [1 .. N -> [A \X A -> A]]  BY <1>4
  <2> HIDE DEF step
  <2>2. PICK F : F \in Computed(N, l, r, A, z, step)  BY <1>1, <1>4, <2>1, TreeExists
  <2> QED BY <2>2 DEF Computed
<1>7. \A m \in 1 .. N : F[m] = Body(m, F[l[m]], F[r[m]])
  <2> TAKE m \in 1 .. N
  <2>1. F[l[m]] \in A /\ F[r[m]] \in A  BY <1>2
  <2> QED BY <1>6, <2>1
<1>8. W = [m \in 0 .. N |-> Row(m, W)]
  <2>1. \A m \in 0 .. N : F[m] = Row(m, F)
    <3>1. \A m \in 0 .. N : m = 0 \/ m \in 1 .. N  BY <1>2
    <3> QED BY <1>5, <1>6, <1>7, <3>1
  <2>2. F = [m \in 0 .. N |-> Row(m, F)]  BY <2>1
  <2> QED BY <2>2
<1> HIDE DEF W
<1>9. \A m \in 0 .. N : W[m] = F[m]
  <2>1. \A m \in 0 .. N : W[m] = Row(m, W)  BY <1>8
  <2>2. W[0] = F[0]
    <3>1. 0 \in 0 .. N  BY <1>2
    <3> QED BY <1>5, <1>6, <2>1, <3>1
  <2>3. \A m \in 1 .. N : W[m] = Body(m, W[l[m]], W[r[m]])  BY <1>2, <1>5, <2>1
  <2>4. \A m \in 1 .. N : W[l[m]] = F[l[m]] /\ W[r[m]] = F[r[m]] => W[m] = F[m]  BY <1>7, <2>3
  <2>5. Follows(N, l, r, F, W)  BY <2>2, <2>4 DEF Follows
  <2>6. ASSUME NEW G, NEW H, Follows(N, l, r, G, H)  PROVE \A m \in 0 .. N : H[m] = G[m]  BY <1>1, <2>6, TreeSame
  <2> QED BY <2>5, <2>6
<1>10. W = F  BY <1>8, <1>9
<1> HIDE DEF W
<1> QED BY <1>3, <1>6, <1>7, <1>10 DEF N, l, r, v, A, z, Body

(* S[m] is the nodes of the subtree under m, m among them. *)
Below(t, S) ==
  /\ S \in [0 .. Len(t.val) -> SUBSET (1 .. Len(t.val))] /\ S[0] = {}
  /\ \A m \in 1 .. Len(t.val) : S[m] = {m} \cup S[t.left[m]] \cup S[t.right[m]]

LEMMA BelowExists ==
    ASSUME NEW t, Grows(t)
    PROVE  \E S : Below(t, S)
<1> DEFINE N == Len(t.val)
           l == t.left
           r == t.right
           A == SUBSET (1 .. N)
           step == [m \in 1 .. N |-> [p \in A \X A |-> {m} \cup p[1] \cup p[2]]]
<1>1. PICK rank : Falls(N, l, r, rank)  BY DEF Grows
<1>2. N \in Nat /\ \A m \in 1 .. N : l[m] \in 0 .. N /\ r[m] \in 0 .. N  BY TreeIs
<1> HIDE DEF N, l, r
<1>3. step \in [1 .. N -> [A \X A -> A]]
  <2>1. \A m \in 1 .. N : \A p \in A \X A : {m} \cup p[1] \cup p[2] \in A  OBVIOUS
  <2> HIDE DEF A
  <2> QED BY <2>1
<1>4. {} \in A  OBVIOUS
<1>5. PICK S : S \in Computed(N, l, r, A, {}, step)
  <2> HIDE DEF step, A
  <2> QED BY <1>1, <1>3, <1>4, TreeExists
<1>6. \A m \in 1 .. N : S[m] = {m} \cup S[l[m]] \cup S[r[m]]
  <2> TAKE m \in 1 .. N
  <2>1. S[l[m]] \in A /\ S[r[m]] \in A  BY <1>2, <1>5 DEF Computed
  <2>2. S[m] = step[m][<<S[l[m]], S[r[m]]>>]
    <3> HIDE DEF A, step
    <3> QED BY <1>5 DEF Computed
  <2> HIDE DEF A
  <2> QED BY <2>1, <2>2
<1>7. S \in [0 .. N -> A] /\ S[0] = {}
  <2> HIDE DEF A, step
  <2> QED BY <1>5 DEF Computed
<1>8. Below(t, S)  BY <1>6, <1>7 DEF Below, N, l, r
<1> QED BY <1>8

LEMMA BelowIs ==
    ASSUME NEW t, Grows(t), NEW S, Below(t, S)
    PROVE  /\ \A m \in 0 .. Len(t.val) : S[m] \subseteq 1 .. Len(t.val)
           /\ \A m \in 1 .. Len(t.val) : m \in S[m] /\ S[t.left[m]] \subseteq S[m] /\ S[t.right[m]] \subseteq S[m]
           /\ \A m \in 0 .. Len(t.val) : \A n \in S[m] : S[n] \subseteq S[m]
           /\ \A m \in 1 .. Len(t.val) : m \notin S[t.left[m]] /\ m \notin S[t.right[m]]
<1> DEFINE N == Len(t.val)
           l == t.left
           r == t.right
<1>1. PICK rank : Falls(N, l, r, rank)  BY DEF Grows
<1>2. N \in Nat /\ \A m \in 1 .. N : l[m] \in 0 .. N /\ r[m] \in 0 .. N  BY TreeIs
<1>3. S \in [0 .. N -> SUBSET (1 .. N)] /\ S[0] = {} /\ \A m \in 1 .. N : S[m] = {m} \cup S[l[m]] \cup S[r[m]]
  BY DEF Below
<1> HIDE DEF N, l, r
<1>4. \A m \in 0 .. N : S[m] \subseteq 1 .. N  BY <1>3
<1>5. \A m \in 1 .. N : m \in S[m] /\ S[l[m]] \subseteq S[m] /\ S[r[m]] \subseteq S[m]  BY <1>3
<1>6. \A m \in 0 .. N : \A n \in S[m] : S[n] \subseteq S[m] /\ rank[n] <= rank[m]
  <2> DEFINE T == {m \in 0 .. N : \A n \in S[m] : S[n] \subseteq S[m] /\ rank[n] <= rank[m]}
  <2>1. 0 \in T  BY <1>2, <1>3
  <2>2. ASSUME NEW m \in 1 .. N, l[m] \in T, r[m] \in T  PROVE m \in T
    <3>1. rank[l[m]] < rank[m] /\ rank[r[m]] < rank[m] /\ \A k \in 0 .. N : rank[k] \in Nat
      BY <1>1 DEF Falls
    <3>2. ASSUME NEW n \in S[m]  PROVE S[n] \subseteq S[m] /\ rank[n] <= rank[m]
      <4>0. n \in 0 .. N /\ m \in 0 .. N /\ l[m] \in 0 .. N /\ r[m] \in 0 .. N  BY <1>2, <1>4
      <4>1. CASE n = m  BY <3>1, <4>0, <4>1
      <4>2. CASE n \in S[l[m]]
        <5>1. S[n] \subseteq S[l[m]] /\ rank[n] <= rank[l[m]]  BY <2>2, <4>2
        <5> QED BY <1>5, <3>1, <4>0, <5>1
      <4>3. CASE n \in S[r[m]]
        <5>1. S[n] \subseteq S[r[m]] /\ rank[n] <= rank[r[m]]  BY <2>2, <4>3
        <5> QED BY <1>5, <3>1, <4>0, <5>1
      <4> QED BY <1>3, <4>1, <4>2, <4>3
    <3> QED BY <1>2, <3>2
  <2> HIDE DEF T
  <2>3. \A m \in 0 .. N : m \in T  BY <1>1, <2>1, <2>2, TreeInduction
  <2> QED BY <2>3 DEF T
<1>7. \A m \in 1 .. N : m \notin S[l[m]] /\ m \notin S[r[m]]
  <2> TAKE m \in 1 .. N
  <2>1. rank[l[m]] < rank[m] /\ rank[r[m]] < rank[m] /\ rank[m] \in Nat /\ rank[l[m]] \in Nat /\ rank[r[m]] \in Nat
    <3>1. m \in 0 .. N /\ l[m] \in 0 .. N /\ r[m] \in 0 .. N  BY <1>2
    <3> QED BY <1>1, <3>1 DEF Falls
  <2>2. m \in S[l[m]] => rank[m] <= rank[l[m]]  BY <1>2, <1>6
  <2>3. m \in S[r[m]] => rank[m] <= rank[r[m]]  BY <1>2, <1>6
  <2> QED BY <2>1, <2>2, <2>3
<1> QED BY <1>4, <1>5, <1>6, <1>7 DEF N, l, r

(* The depth is the level: each level adds one to the depth it is given. *)
LEMMA DepthIsLevel ==
    ASSUME NEW t, Grows(t), NEW n \in 0 .. Len(t.val)
    PROVE  BT!calculateDepth(t, n, 0) = BT!NodeLevel(t, n)
<1> DEFINE N == Len(t.val)
           l == t.left
           r == t.right
           Row(m, G) == [d \in Nat |-> IF m = 0 THEN d ELSE BT!Larger(G[l[m]][d + 1], G[r[m]][d + 1])]
           W == CHOOSE G : G = [m \in 0 .. N |-> Row(m, G)]
<1>1. PICK rank : Falls(N, l, r, rank)  BY DEF Grows
<1>2. N \in Nat /\ \A m \in 1 .. N : l[m] \in 0 .. N /\ r[m] \in 0 .. N /\ m # 0 /\ m \in 0 .. N  BY TreeIs
<1>3. BT!calculateDepth(t, n, 0) = W[n][0]
  <2>1. BT!Nodes(t) = 0 .. N  BY DEF BT!Nodes
  <2> HIDE DEF N
  <2> QED BY <2>1, Zenon DEF BT!calculateDepth, BT!Nil
<1>4. PICK L \in [0 .. N -> Nat] :
        /\ L[0] = 0 /\ \A m \in 1 .. N : L[m] = BT!Larger(L[l[m]], L[r[m]]) + 1
        /\ \A k : BT!NodeLevel(t, k) = L[k]
  BY LevelUnrolls
<1>5. n \in 0 .. N  OBVIOUS
<1> HIDE DEF N, l, r
<1> DEFINE F == [m \in 0 .. N |-> [d \in Nat |-> L[m] + d]]
<1>6. F[0] = [d \in Nat |-> d]
  <2>1. 0 \in 0 .. N  BY <1>2
  <2>2. F[0] = [d \in Nat |-> L[0] + d]  BY <2>1
  <2> HIDE DEF F
  <2> QED BY <1>4, <2>2
<1>7. ASSUME NEW m \in 1 .. N, NEW G, G[l[m]] = F[l[m]], G[r[m]] = F[r[m]]  PROVE Row(m, G) = F[m]
  <2>1. l[m] \in 0 .. N /\ r[m] \in 0 .. N /\ m \in 0 .. N /\ m # 0  BY <1>2
  <2>2. L[l[m]] \in Nat /\ L[r[m]] \in Nat /\ L[m] = BT!Larger(L[l[m]], L[r[m]]) + 1  BY <1>4, <2>1
  <2>3. ASSUME NEW d \in Nat  PROVE BT!Larger(G[l[m]][d + 1], G[r[m]][d + 1]) = L[m] + d
    <3>1. d + 1 \in Nat  OBVIOUS
    <3>2. F[l[m]] = [e \in Nat |-> L[l[m]] + e] /\ F[r[m]] = [e \in Nat |-> L[r[m]] + e]  BY <2>1
    <3> HIDE DEF F
    <3>3. G[l[m]][d + 1] = L[l[m]] + (d + 1) /\ G[r[m]][d + 1] = L[r[m]] + (d + 1)  BY <1>7, <3>1, <3>2
    <3>4. \A a, b \in Nat : BT!Larger(a + (d + 1), b + (d + 1)) = (BT!Larger(a, b) + 1) + d  BY DEF BT!Larger
    <3>5. BT!Larger(L[l[m]] + (d + 1), L[r[m]] + (d + 1)) = (BT!Larger(L[l[m]], L[r[m]]) + 1) + d  BY <2>2, <3>4
    <3> QED BY <2>2, <3>3, <3>5
  <2>4. F[m] = [d \in Nat |-> L[m] + d]  BY <2>1
  <2> HIDE DEF F
  <2> QED BY <2>1, <2>3, <2>4
<1>8. W = [m \in 0 .. N |-> Row(m, W)]
  <2>1. \A m \in 0 .. N : F[m] = Row(m, F)
    <3> TAKE m \in 0 .. N
    <3>1. CASE m = 0
      <4> HIDE DEF F
      <4> QED BY <1>6, <3>1
    <3>2. CASE m # 0
      <4>1. m \in 1 .. N  BY <1>2, <3>2
      <4> HIDE DEF F, Row
      <4> QED BY <1>7, <4>1
    <3> QED BY <3>1, <3>2
  <2>2. F = [m \in 0 .. N |-> Row(m, F)]
    <3>1. F = [m \in 0 .. N |-> F[m]]  OBVIOUS
    <3> HIDE DEF F, Row
    <3> QED BY <2>1, <3>1
  <2> HIDE DEF F, Row
  <2> QED BY <2>2
<1> HIDE DEF W
<1>9. \A m \in 0 .. N : W[m] = F[m]
  <2>1. \A m \in 0 .. N : W[m] = Row(m, W)
    <3> HIDE DEF Row
    <3> QED BY <1>8
  <2>2. W[0] = F[0]
    <3>1. 0 \in 0 .. N  BY <1>2
    <3>2. Row(0, W) = [d \in Nat |-> d]  OBVIOUS
    <3> HIDE DEF F, Row
    <3> QED BY <1>6, <2>1, <3>1, <3>2
  <2> HIDE DEF F, Row
  <2>3. Follows(N, l, r, F, W)  BY <1>2, <1>7, <2>1, <2>2 DEF Follows
  <2>4. ASSUME NEW G, NEW H, Follows(N, l, r, G, H)  PROVE \A m \in 0 .. N : H[m] = G[m]  BY <1>1, <2>4, TreeSame
  <2> QED BY <2>3, <2>4
<1>10. F[n][0] = L[n]  BY <1>4, <1>5
<1> HIDE DEF F
<1> QED BY <1>3, <1>4, <1>5, <1>9, <1>10

(* Every node's subtree is found under each node above it. *)
LEMMA SubTreeFound ==
    ASSUME NEW t, Grows(t), NEW S, Below(t, S), NEW m \in 0 .. Len(t.val), NEW n, n \in S[m]
    PROVE  BT!hasSubTree(t, m, n)
<1> DEFINE N == Len(t.val)
           l == t.left
           r == t.right
<1>1. PICK rank : Falls(N, l, r, rank)  BY DEF Grows
<1>2. N \in Nat /\ \A k \in 1 .. N : l[k] \in 0 .. N /\ r[k] \in 0 .. N /\ k # 0
  <2>1. N \in Nat /\ l \in [1 .. N -> 0 .. N] /\ r \in [1 .. N -> 0 .. N]  BY TreeIs
  <2> HIDE DEF N, l, r
  <2> QED BY <2>1
<1>3. S \in [0 .. N -> SUBSET (1 .. N)] /\ S[0] = {} /\ \A k \in 1 .. N : S[k] = {k} \cup S[l[k]] \cup S[r[k]]
  BY DEF Below
<1>4. PICK I \in [0 .. N -> [0 .. N -> BOOLEAN]] :
        /\ I[0][0] /\ \A k \in 1 .. N : \A j \in 0 .. N :
             I[k][j] <=> j = 0 \/ (t.val[k] = t.val[j] /\ I[l[k]][l[j]] /\ I[r[k]][r[j]])
        /\ \A k, j : BT!isSubTree(t, k, j) = I[k][j]
  BY IsUnrolls
<1>5. PICK H \in [0 .. N -> BOOLEAN] :
        /\ H[0] = FALSE
        /\ \A k \in 1 .. N : H[k] = (n # 0 /\ ((t.val[k] = t.val[n] /\ BT!isSubTree(t, k, n)) \/ H[l[k]] \/ H[r[k]]))
        /\ \A k : BT!hasSubTree(t, k, n) = H[k]
  BY HasUnrolls
<1>6. m \in 0 .. N  OBVIOUS
<1> HIDE DEF N, l, r
<1>7. n \in 1 .. N /\ n # 0 /\ n \in 0 .. N  BY <1>2, <1>3, <1>6
<1>8. \A k \in 0 .. N : I[k][k]
  <2> DEFINE T == {k \in 0 .. N : I[k][k]}
  <2>1. 0 \in T
    <3>1. 0 \in 0 .. N  BY <1>2
    <3> QED BY <1>4, <3>1
  <2>2. ASSUME NEW k \in 1 .. N, l[k] \in T, r[k] \in T  PROVE k \in T
    <3>1. k \in 0 .. N  BY <1>2
    <3>2. I[k][k] <=> k = 0 \/ (t.val[k] = t.val[k] /\ I[l[k]][l[k]] /\ I[r[k]][r[k]])  BY <1>4, <3>1
    <3> QED BY <2>2, <3>1, <3>2
  <2> HIDE DEF T
  <2>3. \A k \in 0 .. N : k \in T  BY <1>1, <2>1, <2>2, TreeInduction
  <2> QED BY <2>3 DEF T
<1>9. \A k \in 0 .. N : n \in S[k] => H[k]
  <2> DEFINE T == {k \in 0 .. N : n \in S[k] => H[k]}
  <2>1. 0 \in T  BY <1>2, <1>3
  <2>2. ASSUME NEW k \in 1 .. N, l[k] \in T, r[k] \in T  PROVE k \in T
    <3>1. k \in 0 .. N  BY <1>2
    <3>2. ASSUME n \in S[k]  PROVE (t.val[k] = t.val[n] /\ BT!isSubTree(t, k, n)) \/ H[l[k]] \/ H[r[k]]
      <4>1. n = k \/ n \in S[l[k]] \/ n \in S[r[k]]  BY <1>3, <3>2
      <4>2. CASE n = k
        <5>1. BT!isSubTree(t, k, k) = I[k][k]  BY <1>4
        <5> QED BY <1>8, <3>1, <4>2, <5>1
      <4> QED BY <2>2, <4>1, <4>2
    <3>3. n \in S[k] => H[k]  BY <1>5, <1>7, <3>2
    <3> QED BY <3>1, <3>3
  <2> HIDE DEF T
  <2>3. \A k \in 0 .. N : k \in T  BY <1>1, <2>1, <2>2, TreeInduction
  <2> QED BY <2>3 DEF T
<1>10. H[m]  BY <1>6, <1>9
<1>11. BT!hasSubTree(t, m, n) = H[m]  BY <1>5
<1> QED BY <1>10, <1>11

-----------------------------------------------------------------------------
(* The binary search tree: its traversals *)

(* s has every member of R once. *)
Lists(s, R) ==
  /\ s \in Seq(R) /\ \A x \in R : \E i \in 1 .. Len(s) : s[i] = x
  /\ \A i, j \in 1 .. Len(s) : s[i] = s[j] => i = j

LEMMA ListsNothing == Lists(<<>>, {})
<1>1. <<>> \in Seq({}) /\ Len(<<>>) = 0  BY EmptySeq
<1>2. \A i : i \notin 1 .. Len(<<>>)  BY <1>1
<1> QED BY <1>1, <1>2 DEF Lists

LEMMA ListsOne == ASSUME NEW m  PROVE Lists(<<m>>, {m})
<1>1. <<m>> \in Seq({m}) /\ Len(<<m>>) = 1 /\ <<m>>[1] = m  OBVIOUS
<1>2. \A i : i \in 1 .. Len(<<m>>) <=> i = 1  BY <1>1
<1> QED BY <1>1, <1>2 DEF Lists

LEMMA ListsJoin ==
    ASSUME NEW a, NEW A, Lists(a, A), NEW b, NEW B, Lists(b, B), A \cap B = {}
    PROVE  Lists(a \o b, A \cup B)
<1> DEFINE s == a \o b
           k == Len(a)
           n == Len(b)
<1>1. a \in Seq(A) /\ b \in Seq(B) /\ k \in Nat /\ n \in Nat  BY LenProperties DEF Lists
<1>2. a \in Seq(A \cup B) /\ b \in Seq(A \cup B)
  <2>1. A \subseteq A \cup B /\ B \subseteq A \cup B  OBVIOUS
  <2> QED BY <1>1, <2>1, SeqMonotonic
<1>3. /\ s \in Seq(A \cup B) /\ Len(s) = k + n
      /\ \A i \in 1 .. k + n : s[i] = IF i <= k THEN a[i] ELSE b[i - k]
  BY <1>2, ConcatProperties
<1>4. /\ \A i \in 1 .. k : a[i] \in A
      /\ \A i \in 1 .. n : b[i] \in B
  BY <1>1, ElementOfSeq
<1>5. /\ \A x \in A : \E i \in 1 .. k : a[i] = x
      /\ \A i, j \in 1 .. k : a[i] = a[j] => i = j
      /\ \A x \in B : \E i \in 1 .. n : b[i] = x
      /\ \A i, j \in 1 .. n : b[i] = b[j] => i = j
  BY DEF Lists
<1> HIDE DEF s, k, n
<1>6. \A i \in 1 .. k : i \in 1 .. k + n /\ s[i] = a[i]  BY <1>1, <1>3
<1>7. \A i \in 1 .. n : k + i \in 1 .. k + n /\ s[k + i] = b[i]
  <2> TAKE i \in 1 .. n
  <2>1. k + i \in 1 .. k + n /\ ~(k + i <= k) /\ (k + i) - k = i  BY <1>1
  <2> QED BY <1>3, <2>1
<1>8. \A i \in 1 .. k + n : i \in 1 .. k \/ (i - k \in 1 .. n /\ i = k + (i - k))  BY <1>1
<1>9. \A x \in A \cup B : \E i \in 1 .. k + n : s[i] = x
  <2> TAKE x \in A \cup B
  <2>1. CASE x \in A
    <3>1. PICK i \in 1 .. k : a[i] = x  BY <1>5, <2>1
    <3> QED BY <1>6, <3>1
  <2>2. CASE x \in B
    <3>1. PICK i \in 1 .. n : b[i] = x  BY <1>5, <2>2
    <3> QED BY <1>7, <3>1
  <2> QED BY <2>1, <2>2
<1>10. ASSUME NEW i \in 1 .. k + n, NEW j \in 1 .. k + n, s[i] = s[j]  PROVE i = j
  <2>1. CASE i \in 1 .. k /\ j \in 1 .. k  BY <1>5, <1>6, <1>10, <2>1
  <2>2. CASE i \notin 1 .. k /\ j \notin 1 .. k
    <3>1. s[i] = b[i - k] /\ s[j] = b[j - k] /\ i - k \in 1 .. n /\ j - k \in 1 .. n  BY <1>7, <1>8, <2>2
    <3>2. i - k = j - k  BY <1>5, <1>10, <3>1
    <3> QED BY <1>1, <3>2
  <2>3. CASE i \in 1 .. k /\ j \notin 1 .. k
    <3>1. s[i] \in A /\ s[j] \in B  BY <1>4, <1>6, <1>7, <1>8, <2>3
    <3> QED BY <1>10, <3>1
  <2>4. CASE i \notin 1 .. k /\ j \in 1 .. k
    <3>1. s[j] \in A /\ s[i] \in B  BY <1>4, <1>6, <1>7, <1>8, <2>4
    <3> QED BY <1>10, <3>1
  <2> QED BY <2>1, <2>2, <2>3, <2>4
<1> QED BY <1>3, <1>9, <1>10 DEF Lists, s

LEMMA UnderIs ==
    ASSUME NEW t, Grows(t), NEW S, Below(t, S)
    PROVE  \A n \in 0 .. Len(t.val) : BT!Under(t, n) = S[n]
<1> DEFINE N == Len(t.val)
           l == t.left
           r == t.right
           Items(s) == {s[i] : i \in DOMAIN s}
<1>1. PICK rank : Falls(N, l, r, rank)  BY DEF Grows
<1>2. N \in Nat /\ \A m \in 1 .. N : l[m] \in 0 .. N /\ r[m] \in 0 .. N  BY TreeIs
<1>3. S[0] = {} /\ \A m \in 1 .. N : S[m] = {m} \cup S[l[m]] \cup S[r[m]]
  BY DEF Below
<1>4. PICK F \in [0 .. N -> Seq(1 .. N)] :
        /\ F[0] = <<>> /\ \A m \in 1 .. N : F[m] = <<m>> \o F[l[m]] \o F[r[m]]
        /\ \A n : BT!preOrderTraverse(t, n) = F[n]
  BY PreOrderUnrolls
<1>5. \A n : BT!Under(t, n) = Items(F[n])  BY <1>4 DEF BT!Under
<1> HIDE DEF N, l, r
<1>6. ASSUME NEW a \in Seq(1 .. N), NEW b \in Seq(1 .. N)
      PROVE  a \o b \in Seq(1 .. N) /\ Items(a \o b) = Items(a) \cup Items(b)
  <2> DEFINE s == a \o b
             k == Len(a)
             n == Len(b)
  <2>1. k \in Nat /\ n \in Nat /\ DOMAIN a = 1 .. k /\ DOMAIN b = 1 .. n  BY LenProperties
  <2>2. /\ s \in Seq(1 .. N) /\ Len(s) = k + n
        /\ \A i \in 1 .. k + n : s[i] = IF i <= k THEN a[i] ELSE b[i - k]
    BY ConcatProperties
  <2>3. DOMAIN s = 1 .. k + n  BY <2>2, LenProperties
  <2> HIDE DEF s, k, n
  <2>4. \A i \in 1 .. k : i \in 1 .. k + n /\ s[i] = a[i]  BY <2>1, <2>2
  <2>5. \A i \in 1 .. n : k + i \in 1 .. k + n /\ s[k + i] = b[i]
    <3> TAKE i \in 1 .. n
    <3>1. k + i \in 1 .. k + n /\ ~(k + i <= k) /\ (k + i) - k = i  BY <2>1
    <3> QED BY <2>2, <3>1
  <2>6. \A i \in 1 .. k + n : i \in 1 .. k \/ (i - k \in 1 .. n /\ i = k + (i - k))  BY <2>1
  <2>7. ASSUME NEW x \in Items(s)  PROVE x \in Items(a) \cup Items(b)
    <3>1. PICK i \in 1 .. k + n : x = s[i]  BY <2>3
    <3>2. CASE i \in 1 .. k
      <4>1. x = a[i]  BY <2>4, <3>1, <3>2
      <4> QED BY <2>1, <3>2, <4>1
    <3>3. CASE i - k \in 1 .. n /\ i = k + (i - k)
      <4>1. x = b[i - k]  BY <2>5, <3>1, <3>3
      <4> QED BY <2>1, <3>3, <4>1
    <3> QED BY <2>6, <3>2, <3>3
  <2>8. Items(a) \subseteq Items(s) /\ Items(b) \subseteq Items(s)  BY <2>1, <2>3, <2>4, <2>5
  <2> QED BY <2>2, <2>7, <2>8 DEF s
<1>7. \A m \in 0 .. N : Items(F[m]) = S[m]
  <2> DEFINE T == {m \in 0 .. N : Items(F[m]) = S[m]}
  <2>1. 0 \in T
    <3>1. F[0] = <<>> /\ DOMAIN <<>> = {}  BY <1>4
    <3>2. Items(F[0]) = S[0]  BY <1>3, <3>1
    <3>3. 0 \in 0 .. N  BY <1>2
    <3> QED BY <3>2, <3>3
  <2>2. ASSUME NEW m \in 1 .. N, l[m] \in T, r[m] \in T  PROVE m \in T
    <3>1. F[l[m]] \in Seq(1 .. N) /\ F[r[m]] \in Seq(1 .. N) /\ <<m>> \in Seq(1 .. N)  BY <1>2
    <3>2. Items(<<m>>) = {m}  OBVIOUS
    <3> HIDE DEF Items
    <3>3. <<m>> \o F[l[m]] \in Seq(1 .. N) /\ Items(<<m>> \o F[l[m]]) = {m} \cup Items(F[l[m]])
      BY <1>6, <3>1, <3>2
    <3>4. Items(F[m]) = {m} \cup Items(F[l[m]]) \cup Items(F[r[m]])  BY ZenonT(40), <1>4, <1>6, <3>1, <3>3
    <3>5. m \in 0 .. N  BY <1>2
    <3> QED BY <1>3, <2>2, <3>4, <3>5
  <2> HIDE DEF T
  <2>3. \A m \in 0 .. N : m \in T  BY <1>1, <2>1, <2>2, TreeInduction
  <2> QED BY <2>3 DEF T
<1> HIDE DEF Items
<1>8. \A n \in 0 .. N : BT!Under(t, n) = S[n]  BY <1>5, <1>7
<1> QED BY <1>8 DEF N

(* A node's subtrees share no node; the left one's values are less, the    *)
(* right one's are not.                                                    *)
Orders(t, S, n) ==
  /\ S[t.left[n]] \cap S[t.right[n]] = {}
  /\ (\A x \in S[t.left[n]] : t.val[x] < t.val[n]) /\ (\A x \in S[t.right[n]] : t.val[x] >= t.val[n])

LEMMA PreOrderLists ==
    ASSUME NEW t, Grows(t), NEW S, Below(t, S), NEW m \in 0 .. Len(t.val), \A n \in S[m] : Orders(t, S, n)
    PROVE  Lists(BT!preOrderTraverse(t, m), S[m])
<1> DEFINE N == Len(t.val)
           l == t.left
           r == t.right
<1>1. PICK rank : Falls(N, l, r, rank)  BY DEF Grows
<1>2. N \in Nat /\ \A k \in 1 .. N : l[k] \in 0 .. N /\ r[k] \in 0 .. N  BY TreeIs
<1>3. S[0] = {} /\ \A k \in 1 .. N : S[k] = {k} \cup S[l[k]] \cup S[r[k]]
  BY DEF Below
<1>4. \A k \in 1 .. N : k \in S[k] /\ k \notin S[l[k]] /\ k \notin S[r[k]] /\ S[l[k]] \subseteq S[k] /\ S[r[k]] \subseteq S[k]
  BY BelowIs
<1>5. PICK F \in [0 .. N -> Seq(1 .. N)] :
        /\ F[0] = <<>> /\ \A k \in 1 .. N : F[k] = <<k>> \o F[l[k]] \o F[r[k]]
        /\ \A n : BT!preOrderTraverse(t, n) = F[n]
  BY PreOrderUnrolls
<1>6. \A n : Orders(t, S, n) => S[l[n]] \cap S[r[n]] = {}  BY DEF Orders
<1>7. m \in 0 .. N  OBVIOUS
<1> HIDE DEF N, l, r
<1> DEFINE T == {k \in 0 .. N : (\A n \in S[k] : Orders(t, S, n)) => Lists(F[k], S[k])}
<1>8. 0 \in T
  <2>1. Lists(F[0], S[0])
    <3>1. F[0] = <<>> /\ S[0] = {}  BY <1>3, <1>5
    <3> QED BY <3>1, ListsNothing
  <2> QED BY <1>2, <2>1
<1>9. ASSUME NEW k \in 1 .. N, l[k] \in T, r[k] \in T  PROVE k \in T
  <2>1. ASSUME \A n \in S[k] : Orders(t, S, n)  PROVE Lists(F[k], S[k])
    <3>1. Lists(F[l[k]], S[l[k]]) /\ Lists(F[r[k]], S[r[k]])  BY <1>4, <1>5, <1>9, <2>1
    <3>2. Lists(<<k>> \o F[l[k]], {k} \cup S[l[k]])
      <4>1. {k} \cap S[l[k]] = {} /\ Lists(<<k>>, {k})  BY <1>4, ListsOne
      <4> QED BY <3>1, <4>1, ListsJoin
    <3>3. ({k} \cup S[l[k]]) \cap S[r[k]] = {}  BY <1>4, <1>6, <2>1
    <3>4. Lists((<<k>> \o F[l[k]]) \o F[r[k]], ({k} \cup S[l[k]]) \cup S[r[k]])  BY <3>1, <3>2, <3>3, ListsJoin
    <3> QED BY <1>3, <1>5, <3>4
  <2> QED BY <1>2, <1>5, <2>1
<1>10. m \in T
  <2> HIDE DEF T
  <2>1. \A k \in 0 .. N : k \in T  BY <1>1, <1>8, <1>9, TreeInduction
  <2> QED BY <1>7, <2>1
<1> QED BY <1>5, <1>7, <1>10

Ascends(v, s) == \A i, j \in 1 .. Len(s) : i <= j => v[s[i]] <= v[s[j]]

LEMMA AscendsJoin ==
    ASSUME NEW v, NEW a, NEW A, Lists(a, A), NEW b, NEW B, Lists(b, B), Ascends(v, a), Ascends(v, b),
           \A x \in A, y \in B : v[x] <= v[y]
    PROVE  Ascends(v, a \o b)
<1> DEFINE s == a \o b
           k == Len(a)
           n == Len(b)
<1>1. a \in Seq(A) /\ b \in Seq(B) /\ k \in Nat /\ n \in Nat  BY LenProperties DEF Lists
<1>2. a \in Seq(A \cup B) /\ b \in Seq(A \cup B)
  <2>1. A \subseteq A \cup B /\ B \subseteq A \cup B  OBVIOUS
  <2> QED BY <1>1, <2>1, SeqMonotonic
<1>3. /\ Len(s) = k + n
      /\ \A i \in 1 .. k + n : s[i] = IF i <= k THEN a[i] ELSE b[i - k]
  BY <1>2, ConcatProperties
<1>4. (\A i \in 1 .. k : a[i] \in A) /\ (\A i \in 1 .. n : b[i] \in B)  BY <1>1, ElementOfSeq
<1>5. /\ \A i, j \in 1 .. k : i <= j => v[a[i]] <= v[a[j]]
      /\ \A i, j \in 1 .. n : i <= j => v[b[i]] <= v[b[j]]
  BY DEF Ascends
<1> HIDE DEF s, k, n
<1>6. ASSUME NEW i \in 1 .. k + n, NEW j \in 1 .. k + n, i <= j  PROVE v[s[i]] <= v[s[j]]
  <2>1. CASE j <= k
    <3>1. i \in 1 .. k /\ j \in 1 .. k /\ s[i] = a[i] /\ s[j] = a[j]  BY <1>1, <1>3, <1>6, <2>1
    <3> QED BY <1>5, <1>6, <3>1
  <2>2. CASE i <= k /\ ~(j <= k)
    <3>1. i \in 1 .. k /\ j - k \in 1 .. n /\ s[i] = a[i] /\ s[j] = b[j - k]  BY <1>1, <1>3, <2>2
    <3> QED BY <1>4, <3>1
  <2>3. CASE ~(i <= k)
    <3>1. ~(j <= k)  BY <1>1, <1>6, <2>3
    <3>2. i - k \in 1 .. n /\ j - k \in 1 .. n /\ s[i] = b[i - k] /\ s[j] = b[j - k] /\ i - k <= j - k
      BY <1>1, <1>3, <1>6, <2>3, <3>1
    <3> QED BY <1>5, <3>2
  <2> QED BY <2>1, <2>2, <2>3
<1> QED BY <1>3, <1>6 DEF Ascends, s

LEMMA InOrderLists ==
    ASSUME NEW t, Grows(t), NEW S, Below(t, S), NEW m \in 0 .. Len(t.val), \A n \in S[m] : Orders(t, S, n)
    PROVE  Lists(BT!inOrderTraverse(t, m), S[m]) /\ Ascends(t.val, BT!inOrderTraverse(t, m))
<1> DEFINE N == Len(t.val)
           l == t.left
           r == t.right
           v == t.val
<1>1. PICK rank : Falls(N, l, r, rank)  BY DEF Grows
<1>2. N \in Nat /\ \A k \in 1 .. N : l[k] \in 0 .. N /\ r[k] \in 0 .. N /\ v[k] \in Int  BY TreeIs
<1>3. S[0] = {} /\ \A k \in 1 .. N : S[k] = {k} \cup S[l[k]] \cup S[r[k]]
  BY DEF Below
<1>4. \A k \in 1 .. N : k \in S[k] /\ k \notin S[l[k]] /\ k \notin S[r[k]] /\ S[l[k]] \subseteq S[k] /\ S[r[k]] \subseteq S[k]
  BY BelowIs
<1>5. PICK F \in [0 .. N -> Seq(1 .. N)] :
        /\ F[0] = <<>> /\ \A k \in 1 .. N : F[k] = F[l[k]] \o <<k>> \o F[r[k]]
        /\ \A n : BT!inOrderTraverse(t, n) = F[n]
  BY InOrderUnrolls
<1>6. \A n : Orders(t, S, n) => /\ S[l[n]] \cap S[r[n]] = {}
                                /\ (\A x \in S[l[n]] : v[x] < v[n]) /\ (\A x \in S[r[n]] : v[x] >= v[n])
  BY DEF Orders
<1>7. m \in 0 .. N /\ \A k \in 0 .. N : S[k] \subseteq 1 .. N  BY BelowIs
<1> HIDE DEF N, l, r, v
<1> DEFINE T == {k \in 0 .. N : (\A n \in S[k] : Orders(t, S, n)) => Lists(F[k], S[k]) /\ Ascends(v, F[k])}
<1>8. 0 \in T
  <2>1. F[0] = <<>> /\ S[0] = {}  BY <1>3, <1>5
  <2>2. Lists(F[0], S[0])  BY <2>1, ListsNothing
  <2>3. Ascends(v, F[0])
    <3>1. Len(<<>>) = 0  BY EmptySeq
    <3>2. \A i : i \notin 1 .. Len(<<>>)  BY <3>1
    <3> QED BY <2>1, <3>2 DEF Ascends
  <2> QED BY <1>2, <2>2, <2>3
<1>9. ASSUME NEW k \in 1 .. N, l[k] \in T, r[k] \in T  PROVE k \in T
  <2>1. ASSUME \A n \in S[k] : Orders(t, S, n)  PROVE Lists(F[k], S[k]) /\ Ascends(v, F[k])
    <3>1. Lists(F[l[k]], S[l[k]]) /\ Lists(F[r[k]], S[r[k]]) /\ Ascends(v, F[l[k]]) /\ Ascends(v, F[r[k]])
      BY <1>4, <1>9, <2>1
    <3>2. Orders(t, S, k)  BY <1>4, <2>1
    <3>3. /\ S[l[k]] \cap S[r[k]] = {} /\ S[l[k]] \subseteq 1 .. N /\ S[r[k]] \subseteq 1 .. N
          /\ (\A x \in S[l[k]] : v[x] < v[k]) /\ (\A x \in S[r[k]] : v[x] >= v[k])
      BY <1>2, <1>6, <1>7, <3>2
    <3>4. Lists(<<k>>, {k}) /\ Ascends(v, <<k>>)
      <4>1. Len(<<k>>) = 1 /\ <<k>>[1] = k  OBVIOUS
      <4>2. \A i \in 1 .. Len(<<k>>) : <<k>>[i] = k  BY <4>1
      <4>3. v[k] <= v[k]  BY <1>2
      <4> QED BY <4>2, <4>3, ListsOne DEF Ascends
    <3>5. S[l[k]] \cap {k} = {} /\ (S[l[k]] \cup {k}) \cap S[r[k]] = {}  BY <1>4, <3>3
    <3>6. \A x \in S[l[k]], y \in {k} : v[x] <= v[y]  BY SMTT(40), <1>2, <3>3
    <3>7. \A x \in S[l[k]] \cup {k}, y \in S[r[k]] : v[x] <= v[y]
      <4> TAKE x \in S[l[k]] \cup {k}, y \in S[r[k]]
      <4>1. v[k] \in Int /\ v[y] \in Int /\ v[k] <= v[y]  BY <1>2, <3>3
      <4>2. v[x] \in Int /\ v[x] <= v[k]
        <5>1. CASE x \in S[l[k]]
          <6>1. v[x] < v[k] /\ x \in 1 .. N  BY <3>3, <5>1
          <6>2. v[x] \in Int  BY <1>2, <6>1, Zenon
          <6> QED BY <4>1, <6>1, <6>2
        <5>2. CASE x = k  BY <4>1, <5>2
        <5> QED BY <5>1, <5>2
      <4> QED BY <4>1, <4>2
    <3>8. Lists(F[l[k]] \o <<k>>, S[l[k]] \cup {k})  BY <3>1, <3>4, <3>5, ListsJoin
    <3>9. Ascends(v, F[l[k]] \o <<k>>)  BY <3>1, <3>4, <3>6, AscendsJoin
    <3>10. Lists((F[l[k]] \o <<k>>) \o F[r[k]], (S[l[k]] \cup {k}) \cup S[r[k]])  BY <3>1, <3>5, <3>8, ListsJoin
    <3>11. Ascends(v, (F[l[k]] \o <<k>>) \o F[r[k]])  BY <3>1, <3>7, <3>8, <3>9, AscendsJoin
    <3>12. (S[l[k]] \cup {k}) \cup S[r[k]] = S[k]  BY <1>3
    <3> QED BY <1>5, <3>10, <3>11, <3>12
  <2> QED BY <1>2, <2>1
<1>10. m \in T
  <2> HIDE DEF T
  <2>1. \A k \in 0 .. N : k \in T  BY <1>1, <1>8, <1>9, TreeInduction
  <2> QED BY <1>7, <2>1
<1> QED BY <1>5, <1>7, <1>10 DEF v

LEMMA PostOrderLists ==
    ASSUME NEW t, Grows(t), NEW S, Below(t, S), NEW m \in 1 .. Len(t.val), \A n \in S[m] : Orders(t, S, n)
    PROVE  Lists(BT!postOrderTraverse(t, m), S[m])
<1> DEFINE L == t.left[m]
           R == t.right[m]
<1>1. L \in 0 .. Len(t.val) /\ R \in 0 .. Len(t.val) /\ m # 0  BY TreeIs
<1>2. S[m] = {m} \cup S[L] \cup S[R] /\ m \notin S[L] /\ m \notin S[R] /\ m \in S[m]  BY BelowIs DEF Below
<1>3. S[L] \cap S[R] = {}  BY <1>2 DEF Orders
<1>4. Lists(BT!preOrderTraverse(t, L), S[L]) /\ Lists(BT!preOrderTraverse(t, R), S[R])
  BY <1>1, <1>2, PreOrderLists
<1> HIDE DEF L, R
<1>5. Lists(BT!preOrderTraverse(t, L) \o BT!preOrderTraverse(t, R), S[L] \cup S[R])
  BY <1>3, <1>4, ListsJoin
<1>6. (S[L] \cup S[R]) \cap {m} = {} /\ Lists(<<m>>, {m})  BY <1>2, ListsOne
<1>7. Lists((BT!preOrderTraverse(t, L) \o BT!preOrderTraverse(t, R)) \o <<m>>, (S[L] \cup S[R]) \cup {m})
  BY <1>5, <1>6, ListsJoin
<1>8. (S[L] \cup S[R]) \cup {m} = S[m]  BY <1>2
<1>9. BT!postOrderTraverse(t, m) = (BT!preOrderTraverse(t, L) \o BT!preOrderTraverse(t, R)) \o <<m>>
  BY <1>1 DEF BT!postOrderTraverse, BT!Nil, L, R
<1> QED BY <1>7, <1>8, <1>9

LEMMA TreeCardinality == \A S : BT!Cardinality(S) = Cardinality(S)
  BY Zenon DEF BT!Cardinality, Cardinality

(* The bag of the values of the nodes in R. *)
HeldBy(val, R) == [v \in Priorities |-> Cardinality({n \in R : val[n] = v})]

(* The values of nodes that are listed once are in the bag of the nodes'   *)
(* values.                                                                 *)
LEMMA BagOfListed ==
    ASSUME NEW N \in Nat, NEW val, NEW R, R \subseteq 1 .. N, NEW s, Lists(s, R)
    PROVE  BT!Bag(BT!ValuesOf(val, s)) = HeldBy(val, R)
<1>1. s \in Seq(R) /\ DOMAIN s = 1 .. Len(s) /\ Len(s) \in Nat /\ \A i \in 1 .. Len(s) : s[i] \in R
  BY LenProperties, ElementOfSeq DEF Lists
<1>2. (\A x \in R : \E i \in 1 .. Len(s) : s[i] = x) /\ \A i, j \in 1 .. Len(s) : s[i] = s[j] => i = j
  BY DEF Lists
<1> DEFINE w == BT!ValuesOf(val, s)
<1>3. DOMAIN w = 1 .. Len(s) /\ \A i \in 1 .. Len(s) : w[i] = val[s[i]]  BY <1>1 DEF BT!ValuesOf
<1> HIDE DEF w
<1>4. ASSUME NEW v  PROVE Cardinality({i \in DOMAIN w : w[i] = v}) = Cardinality({n \in R : val[n] = v})
  <2> DEFINE I == {i \in DOMAIN w : w[i] = v}
             U == {n \in R : val[n] = v}
             g == [i \in I |-> s[i]]
  <2>1. \A i \in I : s[i] \in U  BY <1>1, <1>3
  <2>2. \A i, j \in I : g[i] = g[j] => i = j  BY <1>2, <1>3
  <2>3. \A x \in U : \E i \in I : g[i] = x
    <3> TAKE x \in U
    <3>1. PICK i \in 1 .. Len(s) : s[i] = x  BY <1>2
    <3>2. i \in I  BY <1>3, <3>1
    <3> QED BY <3>1, <3>2
  <2>4. g \in [I -> U]  BY <2>1
  <2>5. IsFiniteSet(I)
    <3>1. I \in SUBSET (1 .. Len(s))  BY <1>3
    <3>2. IsFiniteSet(1 .. Len(s))  BY <1>1, FS_Interval
    <3> QED BY <3>1, <3>2, FS_Subset
  <2> HIDE DEF I, U, g
  <2>6. ExistsBijection(I, U)  BY <2>2, <2>3, <2>4, Fun_IsBij, Fun_ExistsBij
  <2>7. Cardinality(U) = Cardinality(I)  BY <2>5, <2>6, FS_Bijection
  <2> QED BY <2>7 DEF I, U
<1>5. BT!Bag(w) = [v \in Priorities |-> BT!Cardinality({i \in DOMAIN w : w[i] = v})]  BY DEF BT!Bag
<1>6. \A v \in Priorities : BT!Cardinality({i \in DOMAIN w : w[i] = v}) = Cardinality({n \in R : val[n] = v})
  BY <1>4, TreeCardinality
<1>7. BT!Bag(w) = [v \in Priorities |-> Cardinality({n \in R : val[n] = v})]  BY <1>5, <1>6
<1> QED BY <1>7 DEF w, HeldBy

LEMMA ListsShort ==
    ASSUME NEW N \in Nat, NEW R, R \subseteq 1 .. N, NEW s, Lists(s, R)
    PROVE  Len(s) <= N
<1> DEFINE m == Len(s)
<1>1. s \in Seq(R) /\ m \in Nat /\ DOMAIN s = 1 .. m /\ \A i \in 1 .. m : s[i] \in R  BY LenProperties, ElementOfSeq DEF Lists
<1>2. \A i, j \in 1 .. m : s[i] = s[j] => i = j  BY DEF Lists
<1> HIDE DEF m
<1>3. s \in [1 .. m -> 1 .. N]
  <2>1. s = [i \in 1 .. m |-> s[i]]  BY <1>1
  <2>2. \A i \in 1 .. m : s[i] \in 1 .. N  BY <1>1
  <2> QED BY <2>1, <2>2
<1>4. s \in Injection(1 .. m, 1 .. N)  BY <1>2, <1>3 DEF Injection, IsInjective
<1>5. IsFiniteSet(1 .. N) /\ Cardinality(1 .. N) = N /\ Cardinality(1 .. m) = m
  <2>1. /\ IsFiniteSet(1 .. N) /\ Cardinality(1 .. N) = IF 1 > N THEN 0 ELSE N - 1 + 1
        /\ Cardinality(1 .. m) = IF 1 > m THEN 0 ELSE m - 1 + 1
    BY <1>1, FS_Interval
  <2> QED BY <1>1, <2>1
<1>6. Cardinality(1 .. m) <= Cardinality(1 .. N)  BY SMTT(40), <1>4, <1>5, FS_Injection
<1> QED BY <1>5, <1>6 DEF m

(* The trees under the nodes of q share no node and are R together. *)
Forest(N, S, q, R) ==
  /\ q \in Seq(1 .. N) /\ \A i, j \in 1 .. Len(q) : i # j => S[q[i]] \cap S[q[j]] = {}
  /\ R = UNION {S[q[i]] : i \in 1 .. Len(q)}

LEMMA ForestNothing == ASSUME NEW N, NEW S  PROVE Forest(N, S, <<>>, {})
<1>1. <<>> \in Seq(1 .. N) /\ Len(<<>>) = 0  BY EmptySeq
<1>2. \A i : i \notin 1 .. Len(<<>>)  BY <1>1
<1>3. {S[<<>>[i]] : i \in 1 .. Len(<<>>)} = {}  BY <1>2
<1>4. UNION {} = {}  OBVIOUS
<1> QED BY <1>1, <1>2, <1>3, <1>4 DEF Forest

LEMMA ForestOne == ASSUME NEW N, NEW S, NEW c \in 1 .. N  PROVE Forest(N, S, <<c>>, S[c])
<1>1. <<c>> \in Seq(1 .. N) /\ Len(<<c>>) = 1 /\ <<c>>[1] = c  OBVIOUS
<1>2. \A i : i \in 1 .. Len(<<c>>) <=> i = 1  BY <1>1
<1>3. {S[<<c>>[i]] : i \in 1 .. Len(<<c>>)} = {S[c]}  BY <1>1, <1>2
<1>4. UNION {S[c]} = S[c]  OBVIOUS
<1>5. \A i, j \in 1 .. Len(<<c>>) : i = j  BY <1>2
<1> QED BY <1>1, <1>3, <1>4, <1>5 DEF Forest

LEMMA ForestJoin ==
    ASSUME NEW N, NEW S, NEW a, NEW A, Forest(N, S, a, A), NEW b, NEW B, Forest(N, S, b, B), A \cap B = {}
    PROVE  Forest(N, S, a \o b, A \cup B)
<1> DEFINE s == a \o b
           k == Len(a)
           n == Len(b)
<1>1. a \in Seq(1 .. N) /\ b \in Seq(1 .. N) /\ k \in Nat /\ n \in Nat  BY LenProperties DEF Forest
<1>2. /\ s \in Seq(1 .. N) /\ Len(s) = k + n
      /\ \A i \in 1 .. k + n : s[i] = IF i <= k THEN a[i] ELSE b[i - k]
  BY <1>1, ConcatProperties
<1>3. /\ \A i, j \in 1 .. k : i # j => S[a[i]] \cap S[a[j]] = {}
      /\ \A i, j \in 1 .. n : i # j => S[b[i]] \cap S[b[j]] = {}
      /\ A = UNION {S[a[i]] : i \in 1 .. k} /\ B = UNION {S[b[i]] : i \in 1 .. n}
  BY DEF Forest
<1> HIDE DEF s, k, n
<1>4. \A i \in 1 .. k : i \in 1 .. k + n /\ s[i] = a[i] /\ S[a[i]] \subseteq A
  <2>1. \A i \in 1 .. k : S[a[i]] \subseteq A  BY <1>3
  <2>2. \A i \in 1 .. k : i \in 1 .. k + n /\ s[i] = a[i]  BY <1>1, <1>2
  <2> QED BY <2>1, <2>2
<1>5. \A i \in 1 .. n : k + i \in 1 .. k + n /\ s[k + i] = b[i] /\ S[b[i]] \subseteq B
  <2>1. \A i \in 1 .. n : S[b[i]] \subseteq B  BY <1>3
  <2>2. ASSUME NEW i \in 1 .. n  PROVE k + i \in 1 .. k + n /\ s[k + i] = b[i]
    <3>1. k + i \in 1 .. k + n /\ ~(k + i <= k) /\ (k + i) - k = i  BY <1>1
    <3> QED BY <1>2, <3>1
  <2> QED BY <2>1, <2>2
<1>6. \A i \in 1 .. k + n : i \in 1 .. k \/ (i - k \in 1 .. n /\ i = k + (i - k))  BY <1>1
<1>7. ASSUME NEW i \in 1 .. k + n, NEW j \in 1 .. k + n, i # j  PROVE S[s[i]] \cap S[s[j]] = {}
  <2>1. CASE i \in 1 .. k /\ j \in 1 .. k  BY <1>3, <1>4, <1>7, <2>1
  <2>2. CASE i \notin 1 .. k /\ j \notin 1 .. k
    <3>1. s[i] = b[i - k] /\ s[j] = b[j - k] /\ i - k \in 1 .. n /\ j - k \in 1 .. n  BY <1>5, <1>6, <2>2
    <3>2. i - k # j - k  BY <1>1, <1>7
    <3> QED BY <1>3, <3>1, <3>2
  <2>3. CASE i \in 1 .. k /\ j \notin 1 .. k
    <3>1. S[s[i]] \subseteq A /\ S[s[j]] \subseteq B  BY <1>4, <1>5, <1>6, <2>3
    <3> QED BY <3>1
  <2>4. CASE i \notin 1 .. k /\ j \in 1 .. k
    <3>1. S[s[j]] \subseteq A /\ S[s[i]] \subseteq B  BY <1>4, <1>5, <1>6, <2>4
    <3> QED BY <3>1
  <2> QED BY <2>1, <2>2, <2>3, <2>4
<1>8. A \cup B = UNION {S[s[i]] : i \in 1 .. k + n}
  <2>1. ASSUME NEW x \in A  PROVE \E i \in 1 .. k + n : x \in S[s[i]]
    <3>1. PICK i \in 1 .. k : x \in S[a[i]]  BY <1>3
    <3> QED BY <1>4, <3>1
  <2>2. ASSUME NEW x \in B  PROVE \E i \in 1 .. k + n : x \in S[s[i]]
    <3>1. PICK i \in 1 .. n : x \in S[b[i]]  BY <1>3
    <3> QED BY <1>5, <3>1
  <2>3. ASSUME NEW i \in 1 .. k + n  PROVE S[s[i]] \subseteq A \cup B
    <3>1. S[s[i]] \subseteq A \/ S[s[i]] \subseteq B  BY <1>4, <1>5, <1>6
    <3> QED BY <3>1
  <2> QED BY <2>1, <2>2, <2>3
<1> QED BY <1>2, <1>7, <1>8 DEF Forest, s

LEMMA ForestHead ==
    ASSUME NEW N, NEW S, NEW q, NEW R, Forest(N, S, q, R), q # <<>>
    PROVE  /\ Head(q) \in 1 .. N /\ Tail(q) \in Seq(1 .. N)
           /\ \E Q : Forest(N, S, Tail(q), Q) /\ S[Head(q)] \cap Q = {} /\ R = S[Head(q)] \cup Q
<1> DEFINE n == Len(q)
           u == Tail(q)
           x == Head(q)
           Q == UNION {S[u[i]] : i \in 1 .. n - 1}
<1>1. /\ q \in Seq(1 .. N) /\ \A i, j \in 1 .. n : i # j => S[q[i]] \cap S[q[j]] = {}
      /\ R = UNION {S[q[i]] : i \in 1 .. n}
  BY DEF Forest
<1>2. n \in Nat /\ n # 0 /\ x \in 1 .. N /\ u \in Seq(1 .. N) /\ Len(u) = n - 1
      /\ x = q[1] /\ \A i \in 1 .. n - 1 : u[i] = q[i + 1]
  <2>1. q \in Seq(1 .. N) /\ q # <<>> /\ n \in Nat  BY <1>1, LenProperties
  <2>2. x \in 1 .. N /\ u \in Seq(1 .. N) /\ Len(u) = n - 1  BY <2>1, HeadTailProperties
  <2>3. n # 0 /\ x = q[1]  BY <2>1, EmptySeq
  <2>4. \A i \in 1 .. n - 1 : u[i] = q[i + 1]  BY <2>1, <2>2
  <2> HIDE DEF n, x, u
  <2> QED BY <2>1, <2>2, <2>3, <2>4
<1> HIDE DEF n, u, x
<1>3. \A i \in 1 .. n - 1 : i + 1 \in 1 .. n /\ i + 1 # 1  BY <1>2
<1>4. 1 \in 1 .. n  BY <1>2
<1>5. ASSUME NEW i \in 1 .. n - 1, NEW j \in 1 .. n - 1, i # j  PROVE S[u[i]] \cap S[u[j]] = {}
  <2>1. i + 1 # j + 1  BY <1>2, <1>5
  <2>2. u[i] = q[i + 1] /\ u[j] = q[j + 1]  BY <1>2
  <2> QED BY <1>1, <1>3, <2>1, <2>2
<1>6. Forest(N, S, u, Q)  BY <1>2, <1>5 DEF Forest
<1>7. S[x] \cap Q = {}
  <2>1. ASSUME NEW i \in 1 .. n - 1  PROVE S[x] \cap S[u[i]] = {}
    <3>1. x = q[1] /\ u[i] = q[i + 1]  BY <1>2
    <3> QED BY <1>1, <1>3, <1>4, <3>1
  <2> QED BY <2>1
<1>8. R = S[x] \cup Q
  <2>1. \A i \in 1 .. n : i = 1 \/ (i - 1 \in 1 .. n - 1 /\ i = (i - 1) + 1)  BY <1>2
  <2>2. ASSUME NEW y \in R  PROVE y \in S[x] \cup Q
    <3>1. PICK i \in 1 .. n : y \in S[q[i]]  BY <1>1
    <3>2. CASE i = 1  BY <1>2, <3>1, <3>2
    <3>3. CASE i - 1 \in 1 .. n - 1 /\ i = (i - 1) + 1
      <4>1. u[i - 1] = q[i]  BY <1>2, <3>3
      <4> QED BY <3>1, <3>3, <4>1
    <3> QED BY <2>1, <3>2, <3>3
  <2>3. S[x] \subseteq R  BY <1>1, <1>2, <1>4
  <2>4. ASSUME NEW y \in Q  PROVE y \in R
    <3>1. PICK i \in 1 .. n - 1 : y \in S[u[i]]  OBVIOUS
    <3>2. i + 1 \in 1 .. n /\ u[i] = q[i + 1]  BY <1>2, <1>3
    <3> QED BY <1>1, <3>1, <3>2
  <2> QED BY <2>2, <2>3, <2>4
<1> QED BY <1>2, <1>6, <1>7, <1>8 DEF u, x

(* The nodes waiting and the nodes visited are the tree's, each once.      *)
Progress(N, S, m, s) ==
  \E V, R : /\ Lists(s.visited, V) /\ V \subseteq 1 .. N /\ s.visited \in Seq(1 .. N)
            /\ Forest(N, S, s.queue, R) /\ V \cap R = {} /\ V \cup R = S[m]

(* What a round does: the first node waiting is visited, and its children  *)
(* wait.                                                                   *)
Waits(c) == IF c = 0 THEN <<>> ELSE <<c>>
Visits(t, s) ==
  IF s.queue # <<>>
  THEN [queue |-> Tail(s.queue) \o Waits(t.left[Head(s.queue)]) \o Waits(t.right[Head(s.queue)]),
        visited |-> Append(s.visited, Head(s.queue))]
  ELSE s

LEMMA ForestWaits ==
    ASSUME NEW t, Grows(t), NEW S, Below(t, S), NEW c \in 0 .. Len(t.val)
    PROVE  Forest(Len(t.val), S, Waits(c), S[c])
<1>1. CASE c = 0
  <2>1. S[c] = {}  BY <1>1 DEF Below
  <2> QED BY <1>1, <2>1, ForestNothing DEF Waits
<1>2. CASE c # 0
  <2>1. c \in 1 .. Len(t.val)  BY <1>2, TreeIs
  <2> QED BY <1>2, <2>1, ForestOne DEF Waits
<1> QED BY <1>1, <1>2

LEMMA VisitsOne ==
    ASSUME NEW t, Grows(t), NEW S, Below(t, S), NEW m \in 0 .. Len(t.val), \A n \in S[m] : Orders(t, S, n),
           NEW s, Progress(Len(t.val), S, m, s), s.queue # <<>>
    PROVE  Progress(Len(t.val), S, m, Visits(t, s)) /\ Len(Visits(t, s).visited) = Len(s.visited) + 1
<1> DEFINE N == Len(t.val)
           x == Head(s.queue)
           L == t.left[x]
           M == t.right[x]
           queue == (Tail(s.queue) \o Waits(L)) \o Waits(M)
           visited == Append(s.visited, x)
<1>1. PICK V, R : /\ Lists(s.visited, V) /\ V \subseteq 1 .. N /\ s.visited \in Seq(1 .. N)
                  /\ Forest(N, S, s.queue, R) /\ V \cap R = {} /\ V \cup R = S[m]
  BY DEF Progress
<1>2. x \in 1 .. N  BY <1>1, ForestHead
<1>3. PICK Q : Forest(N, S, Tail(s.queue), Q) /\ S[x] \cap Q = {} /\ R = S[x] \cup Q  BY SMTT(40), <1>1, ForestHead
<1>4. L \in 0 .. N /\ M \in 0 .. N  BY <1>2, TreeIs
<1>5. S[x] = {x} \cup S[L] \cup S[M]  BY <1>2 DEF Below
<1>6. x \in S[x] /\ x \notin S[L] /\ x \notin S[M]  BY <1>2, BelowIs
<1>7. S[L] \cap S[M] = {}
  <2>1. x \in S[m]  BY <1>1, <1>3, <1>6
  <2> QED BY <2>1 DEF Orders
<1>8. Forest(N, S, Waits(L), S[L]) /\ Forest(N, S, Waits(M), S[M])  BY <1>4, ForestWaits
<1>9. Visits(t, s) = [queue |-> queue, visited |-> visited]  BY Zenon DEF Visits
<1>10. visited = s.visited \o <<x>> /\ Len(visited) = Len(s.visited) + 1 /\ visited \in Seq(1 .. N)
  <2> HIDE DEF x, N
  <2> QED BY <1>1, <1>2, AppendIsConcat, AppendProperties
<1> HIDE DEF N, x, L, M, visited
<1>11. Forest(N, S, Tail(s.queue) \o Waits(L), Q \cup S[L])
  <2>1. Q \cap S[L] = {}  BY <1>3, <1>5
  <2> QED BY <1>3, <1>8, <2>1, ForestJoin
<1>12. Forest(N, S, queue, (Q \cup S[L]) \cup S[M])
  <2>1. (Q \cup S[L]) \cap S[M] = {}  BY <1>3, <1>5, <1>7
  <2> QED BY <1>8, <1>11, <2>1, ForestJoin
<1> HIDE DEF queue
<1>13. Lists(visited, V \cup {x})
  <2>1. V \cap {x} = {}  BY <1>1, <1>3, <1>6
  <2> QED BY <1>1, <1>10, <2>1, ListsJoin, ListsOne
<1>14. /\ V \cup {x} \subseteq 1 .. N /\ (V \cup {x}) \cap ((Q \cup S[L]) \cup S[M]) = {}
       /\ (V \cup {x}) \cup ((Q \cup S[L]) \cup S[M]) = S[m]
  <2>1. V \cup {x} \subseteq 1 .. N  BY <1>1, <1>2
  <2>2. x \notin Q  BY <1>3, <1>6
  <2>3. (V \cup {x}) \cap ((Q \cup S[L]) \cup S[M]) = {}  BY <1>1, <1>3, <1>5, <1>6, <2>2
  <2>4. (V \cup {x}) \cup ((Q \cup S[L]) \cup S[M]) = V \cup R  BY <1>3, <1>5
  <2> QED BY <1>1, <2>1, <2>3, <2>4
<1>15. Visits(t, s).queue = queue /\ Visits(t, s).visited = visited  BY <1>9
<1> HIDE DEF Visits
<1> QED BY ZenonT(40), <1>10, <1>12, <1>13, <1>14, <1>15 DEF Progress, N

LEMMA LevelOrderLists ==
    ASSUME NEW t, Grows(t), NEW S, Below(t, S), NEW m \in 1 .. Len(t.val), \A n \in S[m] : Orders(t, S, n)
    PROVE  Lists(BT!levelOrderTraverse(t, m), S[m])
<1> DEFINE N == Len(t.val)
           A == [queue : Seq(1 .. N), visited : Seq(1 .. N)]
           s0 == [queue |-> <<m>>, visited |-> <<>>]
           step == [i \in 1 .. N |-> [s \in A |-> Visits(t, s)]]
           Row(i, F) == IF i = 1 - 1 THEN s0 ELSE Visits(t, F[i - 1])
           W == CHOOSE F : F = [i \in 1 - 1 .. N |-> Row(i, F)]
<1>1. N \in Nat /\ N > 0 /\ m \in 0 .. N /\ m \in 1 .. N  BY TreeIs
<1>2. BT!levelOrderTraverse(t, m) = W[N].visited
  <2>1. ~(N < 1)
    <3> HIDE DEF N
    <3> QED BY <1>1
  <2> QED BY Zenon, <2>1 DEF BT!levelOrderTraverse, BT!While, BT!For, BT!Nil, Visits, Waits
<1>3. s0 \in A
  <2>1. <<m>> \in Seq(1 .. N) /\ <<>> \in Seq(1 .. N)  BY <1>1, EmptySeq
  <2> HIDE DEF N
  <2> QED BY <2>1
<1>4. \A s \in A : Visits(t, s) \in A
  <2> TAKE s \in A
  <2>1. CASE s.queue = <<>>  BY <2>1 DEF Visits
  <2>2. CASE s.queue # <<>>
    <3> DEFINE x == Head(s.queue)
               a == Tail(s.queue)
               b == Waits(t.left[x])
               c == Waits(t.right[x])
               Q == Seq(1 .. N)
    <3>0. s.queue \in Seq(1 .. N) /\ s.visited \in Seq(1 .. N)  OBVIOUS
    <3>1. x \in 1 .. N /\ a \in Seq(1 .. N)  BY <2>2, <3>0, HeadTailProperties
    <3>2. \A k \in 0 .. N : Waits(k) \in Seq(1 .. N)
      <4> TAKE k \in 0 .. N
      <4>1. CASE k = 0  BY <4>1, EmptySeq DEF Waits
      <4>2. CASE k # 0
        <5>1. k \in 1 .. N  BY <1>1, <4>2
        <5> QED BY <4>2, <5>1 DEF Waits
      <4> QED BY <4>1, <4>2
    <3>3. t.left[x] \in 0 .. N /\ t.right[x] \in 0 .. N  BY <3>1, TreeIs
    <3>4. b \in Seq(1 .. N) /\ c \in Seq(1 .. N)  BY <3>2, <3>3
    <3>5. Append(s.visited, x) \in Seq(1 .. N)  BY <3>0, <3>1, AppendProperties
    <3>6. Visits(t, s) = [queue |-> (a \o b) \o c, visited |-> Append(s.visited, x)]  BY <2>2, Zenon DEF Visits
    <3> HIDE DEF N, x, a, b, c
    <3>7. (a \o b) \o c \in Seq(1 .. N)  BY <3>1, <3>4, ConcatProperties
    <3> QED BY <3>5, <3>6, <3>7
  <2> QED BY <2>1, <2>2
<1> HIDE DEF N
<1>5. PICK F \in [0 .. N -> A] : F[0] = s0 /\ \A i \in 1 .. N : F[i] = step[i][F[i - 1]]
  <2>1. step \in [1 .. N -> [A -> A]]  BY <1>4
  <2> HIDE DEF step, A, s0
  <2>2. PICK F : F \in Runs(A, s0, N, step)  BY <1>1, <1>3, <2>1, Iterates
  <2> QED BY <2>2 DEF Runs
<1>6. F = [i \in 1 - 1 .. N |-> Row(i, F)]
  <2>1. \A i \in 1 .. N : F[i] = Visits(t, F[i - 1])
    <3> TAKE i \in 1 .. N
    <3> HIDE DEF A
    <3>0. i - 1 \in 0 .. N  BY <1>1
    <3>1. F[i - 1] \in A  BY <3>0
    <3> QED BY <1>5, <3>1
  <2> HIDE DEF s0
  <2>2. \A i \in 0 .. N : F[i] = Row(i, F)
    <3> TAKE i \in 0 .. N
    <3>1. CASE i = 0  BY <1>5, <3>1
    <3>2. CASE i # 0
      <4>1. i \in 1 .. N /\ i # 1 - 1  BY <1>1, <3>2
      <4> QED BY <2>1, <4>1
    <3> QED BY <3>1, <3>2
  <2>3. F = [i \in 0 .. N |-> F[i]]  OBVIOUS
  <2> HIDE DEF Row
  <2> QED BY <2>2, <2>3
<1>7. W = [i \in 1 - 1 .. N |-> Row(i, W)]
  <2> HIDE DEF Row
  <2> QED BY <1>6
<1> HIDE DEF W
<1>8. W[0] = s0 /\ \A i \in 1 .. N : W[i] = Visits(t, W[i - 1])
  <2>1. \A i \in 0 .. N : W[i] = Row(i, W)
    <3>1. 1 - 1 .. N = 0 .. N  OBVIOUS
    <3> HIDE DEF Row
    <3>2. W = [i \in 0 .. N |-> Row(i, W)]  BY <1>7, <3>1
    <3> QED BY <3>2
  <2> HIDE DEF s0
  <2> QED BY <1>1, <2>1
<1> HIDE DEF Row
(* As long as a node waits, each round visits one. *)
<1> DEFINE T == {i \in Nat : i <= N => /\ Progress(N, S, m, W[i])
                                       /\ W[i].queue # <<>> => Len(W[i].visited) = i}
<1>9. 0 \in T
  <2>1. W[0].queue = <<m>> /\ W[0].visited = <<>>  BY <1>8
  <2>2. Forest(N, S, <<m>>, S[m]) /\ Lists(<<>>, {}) /\ <<>> \in Seq(1 .. N) /\ Len(<<>>) = 0
    BY <1>1, ForestOne, ListsNothing, EmptySeq
  <2>3. {} \subseteq 1 .. N /\ {} \cap S[m] = {} /\ {} \cup S[m] = S[m]  OBVIOUS
  <2>4. Progress(N, S, m, W[0])  BY <2>1, <2>2, <2>3 DEF Progress
  <2> QED BY <2>1, <2>2, <2>4
<1>10. ASSUME NEW i \in Nat, i \in T, i < N  PROVE i + 1 \in T
  <2>1. i + 1 \in 1 .. N /\ (i + 1) - 1 = i  BY <1>1, <1>10
  <2>2. Progress(N, S, m, W[i]) /\ (W[i].queue # <<>> => Len(W[i].visited) = i)  BY <1>1, <1>10
  <2>3. W[i + 1] = Visits(t, W[i])  BY <1>8, <2>1
  <2>4. CASE W[i].queue = <<>>
    <3>1. W[i + 1] = W[i]  BY <2>3, <2>4 DEF Visits
    <3> QED BY <2>2, <2>4, <3>1
  <2>5. CASE W[i].queue # <<>>
    <3>1. Progress(N, S, m, W[i + 1]) /\ Len(W[i + 1].visited) = Len(W[i].visited) + 1
      BY <1>1, <2>2, <2>3, <2>5, VisitsOne DEF N
    <3> QED BY <2>2, <2>5, <3>1
  <2> QED BY <2>4, <2>5
<1>11. N \in T
  <2> HIDE DEF T
  <2>1. \A i \in Nat : i \in T /\ i < N => i + 1 \in T  BY <1>10
  <2>2. \A i \in 0 .. N : i \in T  BY <1>1, <1>9, <2>1, Induction
  <2> QED BY <1>1, <2>2
<1>12. Progress(N, S, m, W[N]) /\ (W[N].queue # <<>> => Len(W[N].visited) = N)  BY <1>1, <1>11
<1>13. PICK V, R : /\ Lists(W[N].visited, V) /\ V \subseteq 1 .. N /\ W[N].visited \in Seq(1 .. N)
                   /\ Forest(N, S, W[N].queue, R) /\ V \cap R = {} /\ V \cup R = S[m]
  BY <1>12 DEF Progress
<1>14. ASSUME W[N].queue # <<>>  PROVE FALSE
  <2>1. Progress(N, S, m, Visits(t, W[N])) /\ Len(Visits(t, W[N]).visited) = N + 1
    BY <1>1, <1>12, <1>14, VisitsOne DEF N
  <2>2. PICK U : Lists(Visits(t, W[N]).visited, U) /\ U \subseteq 1 .. N  BY <2>1 DEF Progress
  <2>3. N + 1 <= N  BY <1>1, <2>1, <2>2, ListsShort
  <2> QED BY <1>1, <2>3
<1>15. R = {}
  <2>1. W[N].queue = <<>> /\ Len(<<>>) = 0  BY <1>14
  <2>2. R = UNION {S[W[N].queue[i]] : i \in 1 .. Len(W[N].queue)}  BY <1>13 DEF Forest
  <2>3. \A i : i \notin 1 .. Len(W[N].queue)  BY <2>1
  <2> QED BY <2>2, <2>3
<1>16. V = S[m]  BY <1>13, <1>15
<1> QED BY <1>2, <1>13, <1>16

(* The levels are such a rank, and there is none for nodes on a cycle.     *)
LEMMA GrowsIs == ASSUME NEW t  PROVE Grows(t) <=> BT!Allocated(t) /\ BT!Grown(t)
<1> DEFINE N == Len(t.val)
<1>1. ASSUME Grows(t)  PROVE BT!Allocated(t) /\ BT!Grown(t)
  <2>1. N \in Nat /\ (\A m \in 1 .. N : t.left[m] \in 0 .. N /\ t.right[m] \in 0 .. N) /\ BT!Allocated(t)
        /\ DOMAIN t.val = 1 .. N /\ BT!Nodes(t) = 0 .. N
    BY <1>1, TreeIs
  <2>2. PICK F \in [0 .. N -> Nat] :
          /\ F[0] = 0 /\ \A m \in 1 .. N : F[m] = BT!Larger(F[t.left[m]], F[t.right[m]]) + 1
          /\ \A n : BT!NodeLevel(t, n) = F[n]
    BY <1>1, LevelUnrolls
  <2>3. ASSUME NEW m \in 1 .. N  PROVE F[t.left[m]] < F[m] /\ F[t.right[m]] < F[m]
    <3>1. F[t.left[m]] \in Nat /\ F[t.right[m]] \in Nat  BY <2>1
    <3> QED BY <2>2, <3>1 DEF BT!Larger
  <2> HIDE DEF N
  <2> QED BY SMTT(40), <2>1, <2>2, <2>3 DEF BT!Grown
<1>2. ASSUME BT!Allocated(t), BT!Grown(t)  PROVE Grows(t)
  <2> DEFINE rank == [n \in 0 .. N |-> BT!NodeLevel(t, n)]
  <2>1. /\ t.left \in [1 .. N -> 0 .. N] /\ t.right \in [1 .. N -> 0 .. N] /\ t.val \in Seq(Priorities)
    BY <1>2 DEF BT!Allocated
  <2>2. N \in Nat /\ DOMAIN t.val = 1 .. N /\ BT!Nodes(t) = 0 .. N  BY <2>1, LenProperties DEF BT!Nodes
  <2> HIDE DEF N
  <2>3. \A n \in 0 .. N : BT!NodeLevel(t, n) \in Nat  BY <1>2, <2>2 DEF BT!Grown
  <2>4. \A n \in 1 .. N : BT!NodeLevel(t, t.left[n]) < BT!NodeLevel(t, n) /\ BT!NodeLevel(t, t.right[n]) < BT!NodeLevel(t, n)
    BY <1>2, <2>2 DEF BT!Grown
  <2>5. \A n \in 1 .. N : n \in 0 .. N /\ t.left[n] \in 0 .. N /\ t.right[n] \in 0 .. N  BY <2>1, <2>2
  <2>6. rank \in [0 .. N -> Nat] /\ \A n \in 0 .. N : rank[n] = BT!NodeLevel(t, n)  BY <2>3
  <2> HIDE DEF rank
  <2>7. Falls(N, t.left, t.right, rank)  BY <2>1, <2>2, <2>4, <2>5, <2>6 DEF Falls
  <2> QED BY <1>2, <2>7 DEF Grows, N
<1> QED BY <1>1, <1>2

(* A search tree: below its root nothing is twice and all is in order.     *)
Searches(t, S) == Grows(t) /\ Below(t, S) /\ \A n \in S[1] : Orders(t, S, n)

LEMMA SearchesIs ==
    ASSUME NEW t, NEW S, Grows(t), Below(t, S)
    PROVE  /\ BT!Under(t, BT!Root) = S[1]
           /\ \A n \in 1 .. Len(t.val) : BT!Sorted(t, n) <=> Orders(t, S, n)
<1>1. 1 \in 0 .. Len(t.val) /\ \A n \in 1 .. Len(t.val) : t.left[n] \in 0 .. Len(t.val) /\ t.right[n] \in 0 .. Len(t.val)
  BY TreeIs
<1>2. \A n \in 0 .. Len(t.val) : BT!Under(t, n) = S[n]  BY UnderIs
<1>3. \A n \in 1 .. Len(t.val) : BT!Under(t, t.left[n]) = S[t.left[n]] /\ BT!Under(t, t.right[n]) = S[t.right[n]]
  BY <1>1, <1>2
<1> QED BY <1>1, <1>2, <1>3 DEF BT!Sorted, Orders, BT!Root

(* What the readers of a search tree answer. *)
LEMMA TreeReads ==
    ASSUME NEW t, NEW S, Searches(t, S), NEW held, held = HeldBy(t.val, S[1]),
           NEW inorder, inorder = BT!ValuesOf(t.val, BT!inOrderTraverse(t, 1))
    PROVE  /\ BT!Bag(inorder) = held
           /\ \A i, j \in DOMAIN inorder : i <= j => inorder[i] <= inorder[j]
           /\ BT!Bag(BT!ValuesOf(t.val, BT!preOrderTraverse(t, 1))) = held
           /\ BT!Bag(BT!ValuesOf(t.val, BT!postOrderTraverse(t, 1))) = held
           /\ BT!Bag(BT!ValuesOf(t.val, BT!levelOrderTraverse(t, 1))) = held
           /\ BT!calculateDepth(t, 1, 0) = BT!NodeLevel(t, 1)
           /\ \A n \in S[1] : BT!hasSubTree(t, 1, n)
<1> DEFINE s == BT!inOrderTraverse(t, 1)
<1>1. Grows(t) /\ Below(t, S) /\ \A n \in S[1] : Orders(t, S, n)  BY DEF Searches
<1>2. Len(t.val) \in Nat /\ 1 \in 0 .. Len(t.val) /\ 1 \in 1 .. Len(t.val)  BY <1>1, TreeIs
<1>3. S[1] \subseteq 1 .. Len(t.val)  BY <1>1, <1>2, BelowIs
<1>4. Lists(s, S[1]) /\ Ascends(t.val, s)  BY <1>1, <1>2, InOrderLists
<1>5. /\ Lists(BT!preOrderTraverse(t, 1), S[1]) /\ Lists(BT!postOrderTraverse(t, 1), S[1])
      /\ Lists(BT!levelOrderTraverse(t, 1), S[1])
  BY <1>1, <1>2, PreOrderLists, PostOrderLists, LevelOrderLists
<1>6. ASSUME NEW q, Lists(q, S[1])  PROVE BT!Bag(BT!ValuesOf(t.val, q)) = held
  BY <1>2, <1>3, <1>6, BagOfListed
<1>7. \A i, j \in DOMAIN inorder : i <= j => inorder[i] <= inorder[j]
  <2>1. DOMAIN s = 1 .. Len(s)  BY <1>4, LenProperties DEF Lists
  <2>2. DOMAIN inorder = 1 .. Len(s) /\ \A i \in 1 .. Len(s) : inorder[i] = t.val[s[i]]  BY <2>1 DEF BT!ValuesOf
  <2> HIDE DEF s
  <2> QED BY <1>4, <2>2 DEF Ascends
<1>8. BT!calculateDepth(t, 1, 0) = BT!NodeLevel(t, 1)  BY <1>1, <1>2, DepthIsLevel
<1>9. \A n \in S[1] : BT!hasSubTree(t, 1, n)  BY <1>1, <1>2, SubTreeFound
<1>10. BT!Bag(inorder) = held  BY <1>4, <1>6
<1> QED BY <1>5, <1>6, <1>7, <1>8, <1>9, <1>10

LEMMA TreeAnswers == ASSUME BT!Inv  PROVE BT!SearchTree
<1> SUFFICES ASSUME obj.type = "BSTree", trusted  PROVE BT!SearchTree
  BY Zenon DEF BT!SearchTree
<1>1. Grows(obj)  BY GrowsIs DEF BT!Inv
<1>2. PICK S : Below(obj, S)  BY <1>1, BelowExists
<1>3. BT!Reached = S[1]  BY <1>1, <1>2, SearchesIs DEF BT!Reached
<1>4. \A n \in S[1] : Orders(obj, S, n)
  <2>1. S[1] \subseteq 1 .. Len(obj.val)
    <3>1. 1 \in 0 .. Len(obj.val)  BY <1>1, TreeIs
    <3> QED BY <1>1, <1>2, <3>1, BelowIs
  <2>2. \A n \in S[1] : BT!Sorted(obj, n)  BY <1>3 DEF BT!Inv
  <2> QED BY <1>1, <1>2, <2>1, <2>2, SearchesIs
<1>5. Searches(obj, S)  BY <1>1, <1>2, <1>4 DEF Searches
<1>6. want = HeldBy(obj.val, S[1])
  <2>1. want = [v \in Priorities |-> BT!Cardinality({n \in S[1] : obj.val[n] = v})]  BY <1>3 DEF BT!Inv
  <2> QED BY <2>1, TreeCardinality DEF HeldBy
<1> DEFINE inorder == BT!ValuesOf(obj.val, BT!inOrderTraverse(obj, 1))
<1>7. /\ BT!Bag(inorder) = want
      /\ \A i, j \in DOMAIN inorder : i <= j => inorder[i] <= inorder[j]
      /\ BT!Bag(BT!ValuesOf(obj.val, BT!preOrderTraverse(obj, 1))) = want
      /\ BT!Bag(BT!ValuesOf(obj.val, BT!postOrderTraverse(obj, 1))) = want
      /\ BT!Bag(BT!ValuesOf(obj.val, BT!levelOrderTraverse(obj, 1))) = want
      /\ BT!calculateDepth(obj, 1, 0) = BT!NodeLevel(obj, 1)
      /\ \A n \in S[1] : BT!hasSubTree(obj, 1, n)
  BY <1>5, <1>6, TreeReads, Zenon
<1>8. \A s \in {BT!preOrderTraverse(obj, 1), BT!postOrderTraverse(obj, 1), BT!levelOrderTraverse(obj, 1)} :
        BT!Bag(BT!ValuesOf(obj.val, s)) = want
  BY <1>7, Zenon
<1> QED BY <1>3, <1>7, <1>8, Zenon DEF BT!SearchTree, BT!Root

-----------------------------------------------------------------------------
(* The binary search tree: its bag and its paths *)

LEMMA HeldIs ==
    ASSUME NEW N \in Nat, NEW R, R \subseteq 1 .. N, NEW val
    PROVE  HeldBy(val, R) \in [Priorities -> Nat]
<1>1. ASSUME NEW w  PROVE Cardinality({n \in R : val[n] = w}) \in Nat
  <2> DEFINE U == {n \in R : val[n] = w}
  <2>1. U \in SUBSET (1 .. N)  OBVIOUS
  <2>2. IsFiniteSet(1 .. N)  BY FS_Interval
  <2>3. IsFiniteSet(U)  BY <2>1, <2>2, FS_Subset
  <2> HIDE DEF U
  <2>4. Cardinality(U) \in Nat  BY <2>3, FS_CardinalityType
  <2> QED BY <2>4 DEF U
<1> QED BY <1>1 DEF HeldBy

LEMMA HeldSame ==
    ASSUME NEW R, NEW val, NEW u, \A n \in R : u[n] = val[n]
    PROVE  HeldBy(u, R) = HeldBy(val, R)
<1>1. \A w : {n \in R : u[n] = w} = {n \in R : val[n] = w}  OBVIOUS
<1> QED BY <1>1 DEF HeldBy

Besides(R, d) == R \ {d}
OneLess(w, v) == [w EXCEPT ![v] = @ - 1]

(* w is once more in b than in a if it is v. *)
Counts(a, b, v, w) == b[w] = IF w = v THEN a[w] + 1 ELSE a[w]

LEMMA HeldMore ==
    ASSUME NEW N \in Nat, NEW R, R \subseteq 1 .. N, NEW u, NEW d \in R, NEW w \in Priorities
    PROVE  Counts(HeldBy(u, Besides(R, d)), HeldBy(u, R), u[d], w)
<1> DEFINE Q == Besides(R, d)
           U == {n \in Q : u[n] = w}
           V == {n \in R : u[n] = w}
<1>1. IsFiniteSet(U)
  <2>1. U \in SUBSET (1 .. N)  BY DEF Besides
  <2>2. IsFiniteSet(1 .. N)  BY FS_Interval
  <2> QED BY <2>1, <2>2, FS_Subset
<1>2. Cardinality(V) = IF w = u[d] THEN Cardinality(U) + 1 ELSE Cardinality(U)
  <2>1. CASE w = u[d]
    <3>1. V = U \cup {d} /\ d \notin U  BY <2>1 DEF Besides
    <3> HIDE DEF U, V
    <3>2. Cardinality(U \cup {d}) = Cardinality(U) + 1  BY <1>1, <3>1, FS_AddElement
    <3> QED BY <2>1, <3>1, <3>2
  <2>2. CASE w # u[d]
    <3>1. V = U  BY <2>2 DEF Besides
    <3> HIDE DEF U, V
    <3> QED BY <2>2, <3>1
  <2> QED BY <2>1, <2>2
<1>3. HeldBy(u, R)[w] = Cardinality(V) /\ HeldBy(u, Q)[w] = Cardinality(U)  BY DEF HeldBy
<1> HIDE DEF U, V
<1> QED BY <1>2, <1>3 DEF Counts

Numbers(R) == \E N \in Nat : R \subseteq 1 .. N

LEMMA HeldDiffers ==
    ASSUME NEW R, Numbers(R), NEW u, NEW d \in R, u[d] \in Priorities
    PROVE  /\ HeldBy(u, R)[u[d]] > 0
           /\ HeldBy(u, R) = OneMore(HeldBy(u, Besides(R, d)), u[d])
           /\ HeldBy(u, Besides(R, d)) = OneLess(HeldBy(u, R), u[d])
<1> DEFINE A == HeldBy(u, Besides(R, d))
           B == HeldBy(u, R)
<1>0. PICK N \in Nat : R \subseteq 1 .. N  BY DEF Numbers
<1>1. \A w \in Priorities : B[w] = IF w = u[d] THEN A[w] + 1 ELSE A[w]
  <2>1. \A w \in Priorities : Counts(A, B, u[d], w)
    <3> HIDE DEF A, B
    <3>1. ASSUME NEW w \in Priorities  PROVE Counts(A, B, u[d], w)  BY <1>0, HeldMore DEF A, B
    <3> QED BY <3>1
  <2> HIDE DEF A, B
  <2> QED BY <2>1 DEF Counts
<1>2. B = [w \in Priorities |-> B[w]]  BY DEF HeldBy
<1>3. A \in [Priorities -> Nat]
  <2>1. Besides(R, d) \subseteq 1 .. N  BY <1>0 DEF Besides
  <2> QED BY <2>1, HeldIs
<1> HIDE DEF A, B
<1>4. A = [w \in Priorities |-> A[w]] /\ \A w \in Priorities : A[w] \in Nat  BY <1>3
<1>5. B[u[d]] > 0  BY <1>1, <1>4
<1>6. \A w \in Priorities : A[w] = IF w = u[d] THEN B[w] - 1 ELSE B[w]  BY <1>1, <1>4
<1>7. B = [A EXCEPT ![u[d]] = @ + 1]  BY <1>1, <1>2, <1>4
<1>8. A = [B EXCEPT ![u[d]] = @ - 1]  BY <1>2, <1>4, <1>6
<1> QED BY <1>5, <1>7, <1>8 DEF A, B, OneMore, OneLess

(* The end of the chain of the children c chooses. *)
LeadsToEnd(N, c, W) == W = [m \in 1 .. N |-> IF c[m] = 0 THEN m ELSE W[c[m]]]

LEMMA ChainEndsSomewhere ==
    ASSUME NEW N, NEW c, NEW rank, Falls(N, c, c, rank)
    PROVE  \E W : LeadsToEnd(N, c, W)
<1> DEFINE A == 0 .. N
           Body(m, a) == IF c[m] = 0 THEN m ELSE a
           Row(m, G) == IF c[m] = 0 THEN m ELSE G[c[m]]
           step == [m \in 1 .. N |-> [p \in A \X A |-> Body(m, p[1])]]
<1>1. N \in Nat /\ \A m \in 1 .. N : c[m] \in 0 .. N  BY DEF Falls
<1>2. PICK F \in [0 .. N -> A] : F[0] = 0 /\ \A m \in 1 .. N : F[m] = step[m][<<F[c[m]], F[c[m]]>>]
  <2>1. step \in [1 .. N -> [A \X A -> A]]  BY <1>1
  <2>2. 0 \in A  BY <1>1
  <2> HIDE DEF step, A
  <2>3. PICK F : F \in Computed(N, c, c, A, 0, step)  BY <2>1, <2>2, TreeExists
  <2> QED BY <2>3 DEF Computed
<1>3. \A m \in 1 .. N : F[m] = Body(m, F[c[m]])
  <2> TAKE m \in 1 .. N
  <2> HIDE DEF A, Body
  <2>1. F[c[m]] \in A  BY <1>1
  <2> QED BY <1>2, <2>1
<1> DEFINE H == [m \in 1 .. N |-> F[m]]
<1>4. H = [m \in 1 .. N |-> Row(m, H)]
  <2>1. \A m \in 1 .. N : H[m] = Row(m, H)
    <3> TAKE m \in 1 .. N
    <3>1. H[m] = F[m]  OBVIOUS
    <3>2. CASE c[m] = 0  BY <1>3, <3>1, <3>2
    <3>3. CASE c[m] # 0
      <4>1. c[m] \in 1 .. N  BY <1>1, <3>3
      <4>2. H[c[m]] = F[c[m]]  BY <4>1
      <4> HIDE DEF H
      <4> QED BY <1>3, <3>1, <3>3, <4>2
    <3> QED BY <3>2, <3>3
  <2>2. H = [m \in 1 .. N |-> H[m]]  OBVIOUS
  <2> HIDE DEF H, Row
  <2> QED BY <2>1, <2>2
<1> HIDE DEF H
<1> QED BY <1>4 DEF LeadsToEnd

LEMMA EndIs ==
    ASSUME NEW N, NEW c, NEW rank, Falls(N, c, c, rank), NEW W, LeadsToEnd(N, c, W)
    PROVE  /\ \A m \in 1 .. N : W[m] \in 1 .. N
           /\ \A m \in 1 .. N : W[m] = IF c[m] = 0 THEN m ELSE W[c[m]]
<1> DEFINE Row(m, G) == IF c[m] = 0 THEN m ELSE G[c[m]]
<1>1. N \in Nat /\ \A m \in 1 .. N : c[m] \in 0 .. N  BY DEF Falls
<1>2. W = [m \in 1 .. N |-> Row(m, W)]  BY DEF LeadsToEnd
<1>3. \A m \in 1 .. N : W[m] = Row(m, W)
  <2> HIDE DEF Row
  <2> QED BY <1>2
<1> DEFINE T == {m \in 0 .. N : m # 0 => W[m] \in 1 .. N}
<1>4. 0 \in T  BY <1>1
<1>5. ASSUME NEW m \in 1 .. N, c[m] \in T  PROVE m \in T
  <2>1. m \in 0 .. N /\ W[m] = Row(m, W)  BY <1>1, <1>3
  <2> QED BY <1>5, <2>1
<1>6. \A m \in 0 .. N : m \in T
  <2> HIDE DEF T
  <2> QED BY <1>4, <1>5, TreeInduction
<1>7. \A m \in 1 .. N : W[m] \in 1 .. N
  <2> TAKE m \in 1 .. N
  <2>1. m \in 0 .. N /\ m # 0  BY <1>1
  <2> QED BY <1>6, <2>1
<1> QED BY <1>3, <1>7

LeadsDown(t, c, P) ==
  /\ \A k \in 1 .. Len(t.val) : c[k] = t.left[k] \/ c[k] = t.right[k]
  /\ \A k \in 1 .. Len(t.val) : P[k] = IF c[k] = 0 THEN k ELSE P[c[k]]

(* It ends below where it starts, and every node above its end is on it.   *)
LEMMA ChainEnds ==
    ASSUME NEW t, Grows(t), NEW S, Below(t, S), NEW m \in 1 .. Len(t.val), \A n \in S[m] : Orders(t, S, n),
           NEW c, NEW P, LeadsDown(t, c, P)
    PROVE  /\ P[m] \in S[m] /\ c[P[m]] = 0
           /\ \A n \in S[m] : P[m] \in S[n] => n = P[m] \/ P[m] \in S[c[n]]
<1> DEFINE N == Len(t.val)
           l == t.left
           r == t.right
           Ends(k) == /\ P[k] \in S[k] /\ c[P[k]] = 0
                      /\ \A n \in S[k] : P[k] \in S[n] => P[n] = P[k]
           T == {k \in 0 .. N : k # 0 /\ (\A n \in S[k] : Orders(t, S, n)) => Ends(k)}
<1>1. PICK rank : Falls(N, l, r, rank)  BY DEF Grows
<1>2. N \in Nat /\ \A k \in 1 .. N : l[k] \in 0 .. N /\ r[k] \in 0 .. N /\ k \in 0 .. N  BY TreeIs
<1>3. S[0] = {} /\ \A k \in 1 .. N : S[k] = {k} \cup S[l[k]] \cup S[r[k]]
  BY DEF Below
<1>4. \A k \in 1 .. N : k \in S[k] /\ k \notin S[l[k]] /\ k \notin S[r[k]] /\ S[l[k]] \subseteq S[k] /\ S[r[k]] \subseteq S[k]
  BY BelowIs
<1>5. \A n : Orders(t, S, n) => S[l[n]] \cap S[r[n]] = {}  BY DEF Orders
<1>6. \A k \in 1 .. N : c[k] = l[k] \/ c[k] = r[k]  BY DEF LeadsDown
<1>7. \A k \in 1 .. N : P[k] = IF c[k] = 0 THEN k ELSE P[c[k]]  BY DEF LeadsDown
<1>8. \A k \in 0 .. N : S[k] \subseteq 1 .. N /\ \A n \in S[k] : S[n] \subseteq S[k]  BY BelowIs
<1>9. m \in 1 .. N  OBVIOUS
<1> HIDE DEF N, l, r
<1>10. 0 \in T  BY <1>2
<1>11. ASSUME NEW k \in 1 .. N, l[k] \in T, r[k] \in T, \A n \in S[k] : Orders(t, S, n)  PROVE Ends(k)
  <2>1. c[k] \in 0 .. N /\ S[c[k]] \subseteq S[k] /\ k \notin S[c[k]]  BY <1>2, <1>4, <1>6
  <2>2. k \in S[k] /\ Orders(t, S, k)  BY <1>4, <1>11
  <2>3. c[k] # 0 => Ends(c[k])
    <3>1. c[k] \in T  BY <1>6, <1>11
    <3>2. \A n \in S[c[k]] : Orders(t, S, n)  BY <1>11, <2>1
    <3> HIDE DEF Ends
    <3> QED BY <3>1, <3>2
  <2>4. CASE c[k] = 0
    <3>1. P[k] = k  BY <1>7, <2>4
    <3>2. \A n \in S[k] : k \in S[n] => n = k
      <4> TAKE n \in S[k]
      <4> HAVE k \in S[n]
      <4>1. n \in S[l[k]] \/ n \in S[r[k]] \/ n = k  BY <1>3
      <4>2. n \in S[l[k]] => S[n] \subseteq S[l[k]]  BY <1>2, <1>8
      <4>3. n \in S[r[k]] => S[n] \subseteq S[r[k]]  BY <1>2, <1>8
      <4> QED BY <1>4, <4>1, <4>2, <4>3
    <3> QED BY <2>2, <2>4, <3>1, <3>2
  <2>5. CASE c[k] # 0
    <3>1. P[k] = P[c[k]]  BY <1>7, <2>5
    <3>2. P[k] \in S[c[k]] /\ c[P[k]] = 0 /\ \A n \in S[c[k]] : P[k] \in S[n] => P[n] = P[k]  BY <2>3, <2>5, <3>1
    <3>3. ASSUME NEW n \in S[k], P[k] \in S[n]  PROVE P[n] = P[k]
      <4>1. n = k \/ n \in S[l[k]] \/ n \in S[r[k]]  BY <1>3
      <4>2. ASSUME NEW b, b = l[k] \/ b = r[k], n \in S[b]  PROVE P[n] = P[k]
        <5>1. S[n] \subseteq S[b]  BY <1>2, <1>8, <4>2
        <5>2. P[k] \in S[b]  BY <3>3, <5>1
        <5>3. b = c[k]  BY <1>5, <1>6, <2>2, <3>2, <4>2, <5>2
        <5> QED BY <3>2, <3>3, <4>2, <5>3
      <4> QED BY <4>1, <4>2
    <3> QED BY <2>1, <3>2, <3>3
  <2> QED BY <2>4, <2>5
<1>12. m \in T
  <2>1. \A k \in 1 .. N : l[k] \in T /\ r[k] \in T => k \in T
    <3> TAKE k \in 1 .. N
    <3> HAVE l[k] \in T /\ r[k] \in T
    <3>1. (\A n \in S[k] : Orders(t, S, n)) => Ends(k)  BY <1>11
    <3> HIDE DEF Ends
    <3> QED BY <1>2, <3>1
  <2> HIDE DEF T
  <2>2. \A k \in 0 .. N : k \in T  BY <1>1, <1>10, <2>1, TreeInduction
  <2> QED BY <1>2, <1>9, <2>2
<1>13. Ends(m)
  <2>1. m # 0  BY <1>2, <1>9
  <2> HIDE DEF Ends
  <2> QED BY <1>12, <2>1
<1>14. ASSUME NEW n \in S[m], P[m] \in S[n], n # P[m]  PROVE P[m] \in S[c[n]]
  <2>1. n \in 1 .. N /\ S[n] \subseteq S[m]  BY <1>2, <1>8, <1>9
  <2>2. P[n] = P[m]  BY <1>13, <1>14
  <2>3. c[n] # 0 /\ P[n] = P[c[n]]  BY <1>7, <1>14, <2>1, <2>2
  <2>4. \A k \in 0 .. N : k \in T
    <3>1. \A k \in 1 .. N : l[k] \in T /\ r[k] \in T => k \in T
      <4> TAKE k \in 1 .. N
      <4> HAVE l[k] \in T /\ r[k] \in T
      <4>1. (\A j \in S[k] : Orders(t, S, j)) => Ends(k)  BY <1>11
      <4> HIDE DEF Ends
      <4> QED BY <1>2, <4>1
    <3> HIDE DEF T
    <3> QED BY <1>1, <1>10, <3>1, TreeInduction
  <2>5. c[n] \in 0 .. N /\ S[c[n]] \subseteq S[n]  BY <1>2, <1>4, <1>6, <2>1
  <2>6. \A j \in S[c[n]] : Orders(t, S, j)  BY <2>1, <2>5
  <2>7. Ends(c[n])
    <3> HIDE DEF Ends
    <3> QED BY <2>3, <2>4, <2>5, <2>6
  <2> QED BY <2>2, <2>3, <2>7
<1> QED BY <1>13, <1>14

(* Of two nodes above one node one is above the other. *)
LEMMA Comparable ==
    ASSUME NEW t, Grows(t), NEW S, Below(t, S), NEW m \in 0 .. Len(t.val), \A n \in S[m] : Orders(t, S, n),
           NEW a \in S[m], NEW b \in S[m], NEW x, x \in S[a], x \in S[b]
    PROVE  a \in S[b] \/ b \in S[a]
<1> DEFINE N == Len(t.val)
           l == t.left
           r == t.right
           T == {k \in 0 .. N : a \in S[k] /\ b \in S[k] /\ (\A n \in S[k] : Orders(t, S, n)) => a \in S[b] \/ b \in S[a]}
<1>1. PICK rank : Falls(N, l, r, rank)  BY DEF Grows
<1>2. N \in Nat /\ \A k \in 1 .. N : l[k] \in 0 .. N /\ r[k] \in 0 .. N /\ k \in 0 .. N  BY TreeIs
<1>3. S[0] = {} /\ \A k \in 1 .. N : S[k] = {k} \cup S[l[k]] \cup S[r[k]]
  BY DEF Below
<1>4. \A n : Orders(t, S, n) => S[l[n]] \cap S[r[n]] = {}  BY DEF Orders
<1>5. \A k \in 0 .. N : S[k] \subseteq 1 .. N /\ \A n \in S[k] : S[n] \subseteq S[k]  BY BelowIs
<1>6. m \in 0 .. N  OBVIOUS
<1> HIDE DEF N, l, r
<1>7. 0 \in T  BY <1>2, <1>3
<1>8. ASSUME NEW k \in 1 .. N, l[k] \in T, r[k] \in T, a \in S[k], b \in S[k], \A n \in S[k] : Orders(t, S, n)
      PROVE  a \in S[b] \/ b \in S[a]
  <2>1. k \in S[k] /\ S[l[k]] \subseteq S[k] /\ S[r[k]] \subseteq S[k]  BY <1>3
  <2>2. CASE a = k \/ b = k  BY <1>8, <2>2
  <2>3. CASE a # k /\ b # k
    <3>1. (a \in S[l[k]] => S[a] \subseteq S[l[k]]) /\ (a \in S[r[k]] => S[a] \subseteq S[r[k]])  BY <1>2, <1>5
    <3>2. (b \in S[l[k]] => S[b] \subseteq S[l[k]]) /\ (b \in S[r[k]] => S[b] \subseteq S[r[k]])  BY <1>2, <1>5
    <3>3. (a \in S[l[k]] \/ a \in S[r[k]]) /\ (b \in S[l[k]] \/ b \in S[r[k]])  BY <1>3, <1>8, <2>3
    <3>4. S[l[k]] \cap S[r[k]] = {}  BY <1>4, <1>8, <2>1
    <3>5. (a \in S[l[k]] /\ b \in S[l[k]]) \/ (a \in S[r[k]] /\ b \in S[r[k]])  BY <3>1, <3>2, <3>3, <3>4
    <3> QED BY <1>8, <2>1, <3>5
  <2> QED BY <2>2, <2>3
<1>9. \A k \in 0 .. N : k \in T
  <2>1. \A k \in 1 .. N : l[k] \in T /\ r[k] \in T => k \in T  BY <1>2, <1>8
  <2> HIDE DEF T
  <2> QED BY <1>1, <1>7, <2>1, TreeInduction
<1> QED BY <1>6, <1>9

-----------------------------------------------------------------------------
(* The binary search tree: what changing one child does to it *)

(* u is t but for the left (if that is the side) or the right child of p, which is g.  *)
Relinked(t, u, p, side, g) ==
  /\ BT!Allocated(u) /\ u.val = t.val /\ p \in 1 .. Len(t.val) /\ g \in 0 .. Len(t.val)
  /\ \A m \in 1 .. Len(t.val) : /\ u.left[m] = IF side = "left" /\ m = p THEN g ELSE t.left[m]
                                /\ u.right[m] = IF side # "left" /\ m = p THEN g ELSE t.right[m]

(* The child that a change replaces, and the other one. *)
ChildAt(t, p, side) == IF side = "left" THEN t.left[p] ELSE t.right[p]
OtherAt(t, p, side) == IF side = "left" THEN t.right[p] ELSE t.left[p]

LEMMA RelinkedIs ==
    ASSUME NEW t, NEW u, NEW p, NEW side, NEW g, Relinked(t, u, p, side, g)
    PROVE  /\ u.val = t.val /\ BT!Allocated(u)
           /\ u.left \in [1 .. Len(t.val) -> 0 .. Len(t.val)] /\ u.right \in [1 .. Len(t.val) -> 0 .. Len(t.val)]
           /\ \A m \in 1 .. Len(t.val) : m # p => u.left[m] = t.left[m] /\ u.right[m] = t.right[m]
           /\ ChildAt(u, p, side) = g /\ OtherAt(u, p, side) = OtherAt(t, p, side)
<1>1. u.val = t.val /\ BT!Allocated(u)  BY DEF Relinked
<1>2. u.left \in [1 .. Len(t.val) -> 0 .. Len(t.val)] /\ u.right \in [1 .. Len(t.val) -> 0 .. Len(t.val)]
  BY <1>1 DEF BT!Allocated
<1>3. \A m \in 1 .. Len(t.val) : m # p => u.left[m] = t.left[m] /\ u.right[m] = t.right[m]  BY DEF Relinked
<1>4. ChildAt(u, p, side) = g /\ OtherAt(u, p, side) = OtherAt(t, p, side)
  <2>1. CASE side = "left"  BY <2>1 DEF Relinked, ChildAt, OtherAt
  <2>2. CASE side # "left"  BY <2>2 DEF Relinked, ChildAt, OtherAt
  <2> QED BY <2>1, <2>2
<1> QED BY <1>1, <1>2, <1>3, <1>4

LEMMA SlotsAre ==
    ASSUME NEW t, Grows(t), NEW S, Below(t, S), NEW p \in 1 .. Len(t.val), NEW side
    PROVE  /\ S[p] = {p} \cup S[ChildAt(t, p, side)] \cup S[OtherAt(t, p, side)]
           /\ ChildAt(t, p, side) \in 0 .. Len(t.val) /\ OtherAt(t, p, side) \in 0 .. Len(t.val)
           /\ p \notin S[ChildAt(t, p, side)] /\ p \notin S[OtherAt(t, p, side)]
           /\ Orders(t, S, p) => S[ChildAt(t, p, side)] \cap S[OtherAt(t, p, side)] = {}
<1>1. S[p] = {p} \cup S[t.left[p]] \cup S[t.right[p]]  BY DEF Below
<1>2. p \notin S[t.left[p]] /\ p \notin S[t.right[p]]  BY BelowIs
<1>3. Orders(t, S, p) => S[t.left[p]] \cap S[t.right[p]] = {}  BY DEF Orders
<1>4. t.left[p] \in 0 .. Len(t.val) /\ t.right[p] \in 0 .. Len(t.val)  BY TreeIs
<1>5. CASE side = "left"  BY <1>1, <1>2, <1>3, <1>4, <1>5 DEF ChildAt, OtherAt
<1>6. CASE side # "left"  BY <1>1, <1>2, <1>3, <1>4, <1>6 DEF ChildAt, OtherAt
<1> QED BY <1>5, <1>6

(* Where no child was, the tree under g is put that has nothing of the     *)
(* tree and whose values are on their side of every node above.            *)
Fits(t, S, p, side, g) ==
  /\ S[g] \cap S[1] = {} /\ \A n \in S[g] : Orders(t, S, n)
  /\ \A n \in S[1] : p \in S[n] =>
       /\ p \in S[t.left[n]] \/ (n = p /\ side = "left") => \A x \in S[g] : t.val[x] < t.val[n]
       /\ p \in S[t.right[n]] \/ (n = p /\ side # "left") => \A x \in S[g] : t.val[x] >= t.val[n]

LEMMA Grafted ==
    ASSUME NEW t, NEW S, Searches(t, S), NEW p \in S[1], NEW side, ChildAt(t, p, side) = 0,
           NEW g \in 1 .. Len(t.val), Fits(t, S, p, side, g), NEW u, Relinked(t, u, p, side, g)
    PROVE  \E U : Searches(u, U) /\ U[1] = S[1] \cup S[g]
<1> DEFINE N == Len(t.val)
           U == [m \in 0 .. N |-> IF p \in S[m] THEN S[m] \cup S[g] ELSE S[m]]
<1>1. Grows(t) /\ Below(t, S) /\ \A n \in S[1] : Orders(t, S, n)  BY DEF Searches
<1>2. /\ N \in Nat /\ 1 \in 1 .. N /\ 0 \in 0 .. N
      /\ \A k \in 1 .. N : t.left[k] \in 0 .. N /\ t.right[k] \in 0 .. N /\ k \in 0 .. N
  <2>1. N \in Nat /\ N > 0  BY <1>1, TreeIs
  <2>2. t.left \in [1 .. N -> 0 .. N] /\ t.right \in [1 .. N -> 0 .. N]  BY <1>1, TreeIs
  <2> HIDE DEF N
  <2> QED BY <2>1, <2>2
<1>3. S[0] = {} /\ \A k \in 1 .. N : S[k] = {k} \cup S[t.left[k]] \cup S[t.right[k]]
  BY <1>1 DEF Below
<1>4. \A k \in 1 .. N : k \in S[k] /\ k \notin S[t.left[k]] /\ k \notin S[t.right[k]]
                        /\ S[t.left[k]] \subseteq S[k] /\ S[t.right[k]] \subseteq S[k]
  BY <1>1, BelowIs
<1>5. \A k \in 0 .. N : S[k] \subseteq 1 .. N /\ \A n \in S[k] : S[n] \subseteq S[k]  BY <1>1, BelowIs
<1>6. p \in 1 .. N /\ g \in 0 .. N /\ g \in 1 .. N  BY <1>2, <1>5
<1>7. /\ u.val = t.val /\ BT!Allocated(u) /\ u.left \in [1 .. N -> 0 .. N] /\ u.right \in [1 .. N -> 0 .. N]
      /\ \A m \in 1 .. N : m # p => u.left[m] = t.left[m] /\ u.right[m] = t.right[m]
      /\ ChildAt(u, p, side) = g /\ OtherAt(u, p, side) = OtherAt(t, p, side)
  BY RelinkedIs
<1>8. p \notin S[g]  BY DEF Fits
<1>9. PICK rank : Falls(N, t.left, t.right, rank)  BY <1>1 DEF Grows
<1>10. rank \in [0 .. N -> Nat] /\ \A m \in 1 .. N : rank[t.left[m]] < rank[m] /\ rank[t.right[m]] < rank[m]
  BY <1>9 DEF Falls
<1>11. OtherAt(t, p, side) \in 0 .. N /\ p \notin S[OtherAt(t, p, side)] /\ S[p] = {p} \cup S[OtherAt(t, p, side)]
  <2>1. S[p] = {p} \cup S[ChildAt(t, p, side)] \cup S[OtherAt(t, p, side)]  BY <1>1, <1>6, SlotsAre
  <2>2. p \notin S[OtherAt(t, p, side)] /\ OtherAt(t, p, side) \in 0 .. N  BY <1>1, <1>6, SlotsAre
  <2> QED BY <1>3, <2>1, <2>2
<1>12. /\ S[g] \cap S[1] = {} /\ \A n \in S[g] : Orders(t, S, n)
       /\ \A n \in S[1] : p \in S[n] =>
            /\ p \in S[t.left[n]] \/ (n = p /\ side = "left") => \A x \in S[g] : t.val[x] < t.val[n]
            /\ p \in S[t.right[n]] \/ (n = p /\ side # "left") => \A x \in S[g] : t.val[x] >= t.val[n]
  BY DEF Fits
<1>13. (\A n \in S[1] : Orders(t, S, n)) /\ p \in S[1] /\ ChildAt(t, p, side) = 0  BY <1>1
<1> HIDE DEF N
(* The nodes under g stay below the others: g is no ancestor of p. *)
<1>14. Grows(u)
  <2> DEFINE high(m) == m # 0 /\ m \notin S[g]
             new == [m \in 0 .. N |-> IF high(m) THEN rank[m] + rank[g] + 1 ELSE rank[m]]
  <2>1. rank[g] \in Nat /\ (\A m \in 0 .. N : rank[m] \in Nat) /\ new \in [0 .. N -> Nat]  BY <1>6, <1>10
  <2>2. \A a \in 1 .. N, b \in 0 .. N : rank[b] < rank[a] /\ (high(b) => high(a)) => new[b] < new[a]
    <3> TAKE a \in 1 .. N, b \in 0 .. N
    <3> HAVE rank[b] < rank[a] /\ (high(b) => high(a))
    <3>1. a \in 0 .. N /\ rank[a] \in Nat /\ rank[b] \in Nat  BY <1>2, <2>1
    <3>2. new[a] = (IF high(a) THEN rank[a] + rank[g] + 1 ELSE rank[a])
          /\ new[b] = (IF high(b) THEN rank[b] + rank[g] + 1 ELSE rank[b])
      BY <3>1
    <3> HIDE DEF high, new
    <3> QED BY <2>1, <3>1, <3>2
  <2>3. \A a \in 1 .. N : (high(t.left[a]) => high(a)) /\ (high(t.right[a]) => high(a))
    <3> TAKE a \in 1 .. N
    <3>1. a # 0 /\ (a \in S[g] => S[a] \subseteq S[g])  BY <1>2, <1>5, <1>6
    <3>2. \A b \in 0 .. N : b # 0 => b \in S[b]  BY <1>2, <1>4
    <3>3. \A b \in 0 .. N : high(b) /\ S[b] \subseteq S[a] => high(a)  BY <3>1, <3>2
    <3> QED BY <1>2, <1>4, <3>3
  <2>4. new[g] < new[p]
    <3>1. g \in S[g] /\ ~high(g) /\ high(p)  BY <1>2, <1>4, <1>6, <1>8
    <3>2. p \in 0 .. N /\ rank[p] \in Nat  BY <1>2, <1>6, <2>1
    <3>3. new[g] = rank[g] /\ new[p] = rank[p] + rank[g] + 1  BY <1>6, <3>1, <3>2
    <3> HIDE DEF new
    <3> QED BY <2>1, <3>2, <3>3
  <2> HIDE DEF new, high
  <2>5. \A a \in 1 .. N : new[t.left[a]] < new[a] /\ new[t.right[a]] < new[a]
    BY <1>2, <1>10, <2>2, <2>3
  <2>6. \A a \in 1 .. N : new[u.left[a]] < new[a] /\ new[u.right[a]] < new[a]
    <3> TAKE a \in 1 .. N
    <3>1. CASE a # p  BY <1>7, <2>5, <3>1
    <3>2. CASE a = p /\ side = "left"  BY <1>7, <2>4, <2>5, <3>2 DEF ChildAt, OtherAt
    <3>3. CASE a = p /\ side # "left"  BY <1>7, <2>4, <2>5, <3>3 DEF ChildAt, OtherAt
    <3> QED BY <3>1, <3>2, <3>3
  <2>7. Falls(N, u.left, u.right, new)  BY <1>2, <1>7, <2>1, <2>6 DEF Falls
  <2> QED BY <1>7, <2>7 DEF Grows, N
<1>15. \A m \in 0 .. N : U[m] = IF p \in S[m] THEN S[m] \cup S[g] ELSE S[m]  OBVIOUS
<1>16. U \in [0 .. N -> SUBSET (1 .. N)]  BY <1>5, <1>6
<1> HIDE DEF U
<1>17. ASSUME NEW m \in 1 .. N  PROVE U[m] = {m} \cup U[u.left[m]] \cup U[u.right[m]]
  <2>1. CASE m # p
    <3>1. u.left[m] = t.left[m] /\ u.right[m] = t.right[m]  BY <1>7, <2>1
    <3>2. S[m] = {m} \cup S[t.left[m]] \cup S[t.right[m]] /\ t.left[m] \in 0 .. N /\ t.right[m] \in 0 .. N /\ m \in 0 .. N
      BY <1>2, <1>3
    <3>3. p \in S[m] <=> p \in S[t.left[m]] \/ p \in S[t.right[m]]  BY <2>1, <3>2
    <3>4. U[m] = (IF p \in S[m] THEN S[m] \cup S[g] ELSE S[m])  BY <1>15, <3>2
    <3>5. U[t.left[m]] = (IF p \in S[t.left[m]] THEN S[t.left[m]] \cup S[g] ELSE S[t.left[m]])  BY <1>15, <3>2
    <3>6. U[t.right[m]] = (IF p \in S[t.right[m]] THEN S[t.right[m]] \cup S[g] ELSE S[t.right[m]])  BY <1>15, <3>2
    <3> QED BY <3>1, <3>2, <3>3, <3>4, <3>5, <3>6
  <2>2. CASE m = p
    <3>1. U[p] = S[p] \cup S[g]  BY <1>2, <1>4, <1>6, <1>15
    <3>2. U[g] = S[g] /\ U[OtherAt(t, p, side)] = S[OtherAt(t, p, side)]  BY <1>6, <1>8, <1>11, <1>15
    <3>3. U[p] = {p} \cup U[ChildAt(u, p, side)] \cup U[OtherAt(u, p, side)]  BY <1>7, <1>11, <3>1, <3>2
    <3>4. CASE side = "left"  BY <2>2, <3>3, <3>4 DEF ChildAt, OtherAt
    <3>5. CASE side # "left"  BY <2>2, <3>3, <3>5 DEF ChildAt, OtherAt
    <3> QED BY <3>4, <3>5
  <2> QED BY <2>1, <2>2
<1>18. Below(u, U)  BY <1>2, <1>3, <1>7, <1>15, <1>16, <1>17 DEF Below, N
<1>19. U[1] = S[1] \cup S[g]  BY <1>2, <1>13, <1>15
<1>20. ASSUME NEW n \in S[g]  PROVE Orders(u, U, n)
  <2>1. n \in 1 .. N /\ n # p /\ S[n] \subseteq S[g]  BY <1>5, <1>6, <1>8
  <2>2. S[t.left[n]] \subseteq S[n] /\ S[t.right[n]] \subseteq S[n] /\ t.left[n] \in 0 .. N /\ t.right[n] \in 0 .. N
    BY <1>2, <1>4, <2>1
  <2>3. U[t.left[n]] = S[t.left[n]] /\ U[t.right[n]] = S[t.right[n]]  BY <1>8, <1>15, <2>1, <2>2
  <2>4. Orders(t, S, n) /\ u.left[n] = t.left[n] /\ u.right[n] = t.right[n] /\ u.val = t.val  BY <1>7, <1>12, <2>1
  <2> QED BY <2>3, <2>4 DEF Orders
<1>21. ASSUME NEW n \in S[1]  PROVE Orders(u, U, n)
  <2>1. n \in 1 .. N /\ S[n] \subseteq S[1] /\ n \in 0 .. N  BY <1>2, <1>5
  <2>2. /\ S[t.left[n]] \cap S[t.right[n]] = {}
        /\ (\A x \in S[t.left[n]] : t.val[x] < t.val[n]) /\ (\A x \in S[t.right[n]] : t.val[x] >= t.val[n])
    BY <1>13 DEF Orders
  <2>3. S[t.left[n]] \subseteq S[n] /\ S[t.right[n]] \subseteq S[n] /\ t.left[n] \in 0 .. N /\ t.right[n] \in 0 .. N
    BY <1>2, <1>4, <2>1
  <2>4. S[g] \cap S[t.left[n]] = {} /\ S[g] \cap S[t.right[n]] = {}  BY <1>12, <2>1, <2>3
  <2>5. CASE n # p
    <3>1. u.left[n] = t.left[n] /\ u.right[n] = t.right[n] /\ u.val = t.val  BY <1>7, <2>1, <2>5
    <3>2. U[t.left[n]] = (IF p \in S[t.left[n]] THEN S[t.left[n]] \cup S[g] ELSE S[t.left[n]])  BY <1>15, <2>3
    <3>3. U[t.right[n]] = (IF p \in S[t.right[n]] THEN S[t.right[n]] \cup S[g] ELSE S[t.right[n]])  BY <1>15, <2>3
    <3>4. U[t.left[n]] \cap U[t.right[n]] = {}  BY <2>2, <2>4, <3>2, <3>3
    <3>5. p \in S[t.left[n]] => \A x \in S[g] : t.val[x] < t.val[n]  BY <1>12, <2>3
    <3>6. p \in S[t.right[n]] => \A x \in S[g] : t.val[x] >= t.val[n]  BY <1>12, <2>3
    <3>7. \A x \in U[t.left[n]] : t.val[x] < t.val[n]  BY <2>2, <3>2, <3>5
    <3>8. \A x \in U[t.right[n]] : t.val[x] >= t.val[n]  BY <2>2, <3>3, <3>6
    <3> QED BY <3>1, <3>4, <3>7, <3>8 DEF Orders
  <2>6. CASE n = p
    <3>1. U[g] = S[g] /\ U[OtherAt(t, p, side)] = S[OtherAt(t, p, side)] /\ p \in S[p] /\ u.val = t.val
      BY <1>2, <1>4, <1>6, <1>7, <1>8, <1>11, <1>15
    <3>2. CASE side = "left"
      <4>1. u.left[n] = g /\ u.right[n] = t.right[n] /\ OtherAt(t, p, side) = t.right[n]  BY <1>7, <2>6, <3>2 DEF ChildAt, OtherAt
      <4>2. \A x \in S[g] : t.val[x] < t.val[n]  BY <1>12, <2>6, <3>1, <3>2
      <4> QED BY <2>2, <2>4, <3>1, <4>1, <4>2 DEF Orders
    <3>3. CASE side # "left"
      <4>1. u.right[n] = g /\ u.left[n] = t.left[n] /\ OtherAt(t, p, side) = t.left[n]  BY <1>7, <2>6, <3>3 DEF ChildAt, OtherAt
      <4>2. \A x \in S[g] : t.val[x] >= t.val[n]  BY <1>12, <2>6, <3>1, <3>3
      <4> QED BY <2>2, <2>4, <3>1, <4>1, <4>2 DEF Orders
    <3> QED BY <3>2, <3>3
  <2> QED BY <2>5, <2>6
<1>22. Searches(u, U)  BY <1>14, <1>18, <1>19, <1>20, <1>21 DEF Searches
<1> QED BY <1>19, <1>22

(* A child is replaced by one of its own children: it and what is under    *)
(* the other one leave the tree.                                           *)
Gone(t, S, d, turn) == {d} \cup S[OtherAt(t, d, turn)]

(* The nodes of K are gone from under p and from under all above p.        *)
Pruned(t, S, u, U, p, K) ==
  /\ U[1] = S[1] \ K
  /\ \A n \in S[1] : U[n] = IF p \in S[n] THEN S[n] \ K ELSE S[n]
  /\ \A n \in S[1] : U[u.left[n]] \subseteq S[t.left[n]] /\ U[u.right[n]] \subseteq S[t.right[n]]

LEMMA Spliced ==
    ASSUME NEW t, NEW S, Searches(t, S), NEW p \in S[1], NEW side, NEW d, d = ChildAt(t, p, side), d # 0,
           NEW turn, NEW u, Relinked(t, u, p, side, ChildAt(t, d, turn))
    PROVE  \E U : Searches(u, U) /\ Pruned(t, S, u, U, p, Gone(t, S, d, turn))
<1> DEFINE N == Len(t.val)
           Y == ChildAt(t, d, turn)
           Z == OtherAt(t, d, turn)
           O == OtherAt(t, p, side)
           K == Gone(t, S, d, turn)
<1>1. Grows(t) /\ Below(t, S) /\ \A n \in S[1] : Orders(t, S, n)  BY DEF Searches
<1>2. /\ N \in Nat /\ 1 \in 1 .. N /\ 0 \in 0 .. N
      /\ \A k \in 1 .. N : t.left[k] \in 0 .. N /\ t.right[k] \in 0 .. N /\ k \in 0 .. N
  <2>1. N \in Nat /\ N > 0  BY <1>1, TreeIs
  <2>2. t.left \in [1 .. N -> 0 .. N] /\ t.right \in [1 .. N -> 0 .. N]  BY <1>1, TreeIs
  <2> HIDE DEF N
  <2> QED BY <2>1, <2>2
<1>3. S[0] = {} /\ \A k \in 1 .. N : S[k] = {k} \cup S[t.left[k]] \cup S[t.right[k]]
  BY <1>1 DEF Below
<1>4. \A k \in 1 .. N : k \in S[k] /\ k \notin S[t.left[k]] /\ k \notin S[t.right[k]]
                        /\ S[t.left[k]] \subseteq S[k] /\ S[t.right[k]] \subseteq S[k]
  BY <1>1, BelowIs
<1>5. \A k \in 0 .. N : S[k] \subseteq 1 .. N /\ \A n \in S[k] : S[n] \subseteq S[k]  BY <1>1, BelowIs
<1>6. p \in 1 .. N /\ d \in 1 .. N
  <2>1. p \in 1 .. N  BY <1>2, <1>5
  <2>2. d \in 0 .. N  BY <1>1, <2>1, SlotsAre
  <2> HIDE DEF N
  <2> QED BY <1>2, <2>1, <2>2
<1>7. /\ u.val = t.val /\ BT!Allocated(u) /\ u.left \in [1 .. N -> 0 .. N] /\ u.right \in [1 .. N -> 0 .. N]
      /\ \A m \in 1 .. N : m # p => u.left[m] = t.left[m] /\ u.right[m] = t.right[m]
      /\ ChildAt(u, p, side) = Y /\ OtherAt(u, p, side) = O
  BY RelinkedIs
<1>8. /\ S[p] = {p} \cup S[d] \cup S[O] /\ O \in 0 .. N /\ p \notin S[d] /\ p \notin S[O]
      /\ Orders(t, S, p) => S[d] \cap S[O] = {}
  BY <1>1, <1>6, SlotsAre
<1>9. /\ S[d] = {d} \cup S[Y] \cup S[Z] /\ Y \in 0 .. N /\ Z \in 0 .. N /\ d \notin S[Y] /\ d \notin S[Z]
      /\ Orders(t, S, d) => S[Y] \cap S[Z] = {}
  BY <1>1, <1>6, SlotsAre
<1>10. K = {d} \cup S[Z]  BY DEF Gone
<1>11. PICK rank : Falls(N, t.left, t.right, rank)  BY <1>1 DEF Grows
<1>12. rank \in [0 .. N -> Nat] /\ \A m \in 1 .. N : rank[t.left[m]] < rank[m] /\ rank[t.right[m]] < rank[m]
  BY <1>11 DEF Falls
<1>13. rank[Y] < rank[p]
  <2>1. rank[Y] < rank[d]  BY <1>6, <1>12 DEF ChildAt
  <2>2. rank[d] < rank[p]  BY <1>6, <1>12 DEF ChildAt
  <2>3. rank[Y] \in Nat /\ rank[d] \in Nat /\ rank[p] \in Nat  BY <1>2, <1>6, <1>9, <1>12
  <2> HIDE DEF Y
  <2> QED BY <2>1, <2>2, <2>3
<1>14. (\A n \in S[1] : Orders(t, S, n)) /\ p \in S[1] /\ d = ChildAt(t, p, side)  BY <1>1
<1> HIDE DEF N, Y, Z, O, K
<1>15. Grows(u)
  <2>1. \A a \in 1 .. N : rank[u.left[a]] < rank[a] /\ rank[u.right[a]] < rank[a]
    <3> TAKE a \in 1 .. N
    <3>1. CASE a # p  BY <1>7, <1>12, <3>1
    <3>2. CASE a = p /\ side = "left"
      <4>1. u.left[a] = Y /\ u.right[a] = t.right[a]  BY <1>7, <3>2 DEF ChildAt, OtherAt, O
      <4> QED BY <1>12, <1>13, <3>2, <4>1
    <3>3. CASE a = p /\ side # "left"
      <4>1. u.right[a] = Y /\ u.left[a] = t.left[a]  BY <1>7, <3>3 DEF ChildAt, OtherAt, O
      <4> QED BY <1>12, <1>13, <3>3, <4>1
    <3> QED BY <3>1, <3>2, <3>3
  <2>2. Falls(N, u.left, u.right, rank)  BY <1>2, <1>7, <1>12, <2>1 DEF Falls
  <2> QED BY <1>7, <2>2 DEF Grows, N
<1>16. PICK U : Below(u, U)  BY <1>15, BelowExists
<1>17. U[0] = {} /\ \A k \in 1 .. N : U[k] = {k} \cup U[u.left[k]] \cup U[u.right[k]]
  BY <1>7, <1>16 DEF Below, N
<1>18. U[p] = {p} \cup U[Y] \cup U[O]
  <2>1. U[p] = {p} \cup U[u.left[p]] \cup U[u.right[p]]  BY <1>6, <1>17
  <2>2. CASE side = "left"  BY <1>7, <2>1, <2>2 DEF ChildAt, OtherAt
  <2>3. CASE side # "left"  BY <1>7, <2>1, <2>3 DEF ChildAt, OtherAt
  <2> QED BY <2>2, <2>3
<1>19. K \subseteq S[d] /\ S[Y] \subseteq S[d] /\ S[d] \subseteq S[p]  BY <1>8, <1>9, <1>10
<1> DEFINE Loses(n) == U[n] = IF p \in S[n] THEN S[n] \ K ELSE S[n]
           T == {m \in 0 .. N : (\A n \in S[m] : Orders(t, S, n)) => \A n \in S[m] : Loses(n)}
<1>20. 0 \in T  BY <1>2, <1>3
<1>21. ASSUME NEW m \in 1 .. N, t.left[m] \in T, t.right[m] \in T, \A n \in S[m] : Orders(t, S, n)
       PROVE  \A n \in S[m] : Loses(n)
  <2> DEFINE L == t.left[m]
             R == t.right[m]
  <2>1. /\ S[m] = {m} \cup S[L] \cup S[R] /\ m \notin S[L] /\ m \notin S[R] /\ L \in 0 .. N /\ R \in 0 .. N
        /\ Orders(t, S, m)
    BY <1>2, <1>3, <1>4, <1>21
  <2>2. \A n \in S[L] \cup S[R] : Loses(n)
    <3>1. (\A n \in S[L] : Orders(t, S, n)) /\ (\A n \in S[R] : Orders(t, S, n))  BY <1>21, <2>1
    <3> HIDE DEF Loses
    <3> QED BY <1>21, <3>1
  <2>3. S[L] \cap S[R] = {}  BY <2>1 DEF Orders
  <2> HIDE DEF L, R
  <2>4. ASSUME NEW b \in 0 .. N, S[b] \subseteq S[L] \cup S[R]  PROVE Loses(b)
    <3>1. CASE b = 0  BY <1>3, <1>17, <3>1
    <3>2. CASE b # 0
      <4>1. b \in S[b]  BY <1>2, <1>4, <3>2
      <4> HIDE DEF Loses
      <4> QED BY <2>2, <2>4, <4>1
    <3> QED BY <3>1, <3>2
  <2>5. CASE m # p
    <3>1. U[m] = {m} \cup U[L] \cup U[R]  BY <1>7, <1>17, <2>5 DEF L, R
    <3>2. Loses(L) /\ Loses(R)
      <4> HIDE DEF Loses
      <4> QED BY <2>1, <2>4
    <3>3. CASE p \notin S[m]
      <4>1. p \notin S[L] /\ p \notin S[R]  BY <2>1, <3>3
      <4>2. U[L] = S[L] /\ U[R] = S[R]  BY <3>2, <4>1
      <4>3. Loses(m)  BY <2>1, <3>1, <3>3, <4>2
      <4> HIDE DEF Loses
      <4> QED BY <2>1, <2>2, <4>3
    <3>4. CASE p \in S[L]
      <4>1. p \notin S[R] /\ S[p] \subseteq S[L] /\ p \in S[m]  BY <1>5, <2>1, <2>3, <3>4
      <4>2. K \subseteq S[L]  BY <1>19, <4>1
      <4>3. U[L] = S[L] \ K /\ U[R] = S[R]  BY <3>2, <3>4, <4>1
      <4>4. U[m] = S[m] \ K  BY <2>1, <2>3, <3>1, <4>2, <4>3
      <4>5. Loses(m)  BY <4>1, <4>4
      <4> HIDE DEF Loses
      <4> QED BY <2>1, <2>2, <4>5
    <3>5. CASE p \in S[R]
      <4>1. p \notin S[L] /\ S[p] \subseteq S[R] /\ p \in S[m]  BY <1>5, <2>1, <2>3, <3>5
      <4>2. K \subseteq S[R]  BY <1>19, <4>1
      <4>3. U[R] = S[R] \ K /\ U[L] = S[L]  BY <3>2, <3>5, <4>1
      <4>4. U[m] = S[m] \ K  BY <2>1, <2>3, <3>1, <4>2, <4>3
      <4>5. Loses(m)  BY <4>1, <4>4
      <4> HIDE DEF Loses
      <4> QED BY <2>1, <2>2, <4>5
    <3>6. p \in S[m] => p \in S[L] \/ p \in S[R]  BY <2>1, <2>5
    <3> QED BY <3>3, <3>4, <3>5, <3>6
  <2>6. CASE m = p
    <3>1. S[d] \subseteq S[L] \cup S[R] /\ S[O] \subseteq S[L] \cup S[R] /\ Orders(t, S, p) /\ Orders(t, S, d)
      <4>1. S[d] \subseteq S[L] \cup S[R] /\ S[O] \subseteq S[L] \cup S[R]  BY <1>8, <2>1, <2>6
      <4>2. d \in S[d]  BY <1>4, <1>6
      <4>3. d \in S[m]  BY <2>1, <4>1, <4>2
      <4> QED BY <1>21, <2>1, <2>6, <4>1, <4>3
    <3>2. Loses(Y) /\ Loses(O)
      <4> HIDE DEF Loses
      <4> QED BY <1>8, <1>9, <1>19, <2>4, <3>1
    <3>3. p \notin S[Y] /\ p \notin S[O] /\ p \in S[p]  BY <1>8, <1>19
    <3>4. U[Y] = S[Y] /\ U[O] = S[O]  BY <3>2, <3>3
    <3>5. S[d] \cap S[O] = {} /\ S[Y] \cap S[Z] = {}  BY <1>8, <1>9, <3>1
    <3>6. U[p] = S[p] \ K
      <4>1. U[p] = {p} \cup S[Y] \cup S[O]  BY <1>18, <3>4
      <4>2. S[p] = ({p} \cup S[Y] \cup S[O]) \cup K  BY <1>8, <1>9, <1>10
      <4>3. ({p} \cup S[Y] \cup S[O]) \cap K = {}
        <5>1. p \notin K  BY <1>8, <1>19
        <5>2. S[Y] \cap K = {}  BY <1>9, <1>10, <3>5
        <5>3. S[O] \cap K = {}  BY <1>19, <3>5
        <5> QED BY <5>1, <5>2, <5>3
      <4> QED BY <4>1, <4>2, <4>3
    <3>7. Loses(p)  BY <3>3, <3>6
    <3> HIDE DEF Loses
    <3> QED BY <2>1, <2>2, <2>6, <3>7
  <2> QED BY <2>5, <2>6
<1>22. \A n \in S[1] : Loses(n)
  <2>1. \A m \in 1 .. N : t.left[m] \in T /\ t.right[m] \in T => m \in T
    <3> TAKE m \in 1 .. N
    <3> HAVE t.left[m] \in T /\ t.right[m] \in T
    <3>1. (\A n \in S[m] : Orders(t, S, n)) => \A n \in S[m] : Loses(n)  BY <1>21
    <3> HIDE DEF Loses
    <3> QED BY <1>2, <3>1
  <2>2. \A m \in 0 .. N : m \in T
    <3> HIDE DEF T
    <3> QED BY <1>11, <1>20, <2>1, TreeInduction
  <2>3. 1 \in T  BY <1>2, <2>2
  <2> HIDE DEF Loses
  <2> QED BY <1>14, <2>3
<1>23. \A n \in S[1] : U[n] = IF p \in S[n] THEN S[n] \ K ELSE S[n]  BY <1>22
<1> HIDE DEF T, Loses
<1>24. U[1] = S[1] \ K
  <2>1. 1 \in S[1]  BY <1>2, <1>4
  <2> QED BY <1>14, <1>23, <2>1
<1>25. ASSUME NEW n \in S[1]
       PROVE  Orders(u, U, n) /\ U[u.left[n]] \subseteq S[t.left[n]] /\ U[u.right[n]] \subseteq S[t.right[n]]
  <2> DEFINE L == t.left[n]
             R == t.right[n]
  <2>1. n \in 1 .. N /\ S[n] \subseteq S[1]  BY <1>2, <1>5
  <2>2. L \in 0 .. N /\ R \in 0 .. N /\ S[L] \subseteq S[n] /\ S[R] \subseteq S[n]  BY <1>2, <1>4, <2>1
  <2>3. S[L] \cap S[R] = {} /\ (\A x \in S[L] : t.val[x] < t.val[n]) /\ (\A x \in S[R] : t.val[x] >= t.val[n])
    BY <1>14 DEF Orders
  <2>4. ASSUME NEW b \in 0 .. N, S[b] \subseteq S[1]  PROVE U[b] \subseteq S[b]
    <3>1. CASE b = 0  BY <1>3, <1>17, <3>1
    <3>2. CASE b # 0
      <4>1. b \in S[b]  BY <1>2, <1>4, <3>2
      <4> QED BY <1>23, <2>4, <4>1
    <3> QED BY <3>1, <3>2
  <2>5. U[u.left[n]] \subseteq S[L] /\ U[u.right[n]] \subseteq S[R]
    <3>1. U[L] \subseteq S[L] /\ U[R] \subseteq S[R]
      <4> HIDE DEF L, R
      <4> QED BY <2>1, <2>2, <2>4
    <3>2. CASE n # p  BY <1>7, <2>1, <3>1, <3>2
    <3>3. CASE n = p
      <4>1. S[Y] \subseteq S[1]
        <5>1. S[Y] \subseteq S[p]  BY <1>19
        <5> QED BY <2>1, <3>3, <5>1
      <4>2. U[Y] \subseteq S[Y] /\ S[Y] \subseteq S[d]  BY <1>9, <1>19, <2>4, <4>1
      <4>3. CASE side = "left"
        <5>1. u.left[n] = Y /\ d = L /\ u.right[n] = R  BY <1>7, <1>14, <3>3, <4>3 DEF ChildAt, OtherAt, O
        <5> HIDE DEF L, R
        <5> QED BY <3>1, <4>2, <5>1
      <4>4. CASE side # "left"
        <5>1. u.right[n] = Y /\ d = R /\ u.left[n] = L  BY <1>7, <1>14, <3>3, <4>4 DEF ChildAt, OtherAt, O
        <5> HIDE DEF L, R
        <5> QED BY <3>1, <4>2, <5>1
      <4> QED BY <4>3, <4>4
    <3> QED BY <3>2, <3>3
  <2>6. Orders(u, U, n)
    <3> HIDE DEF L, R
    <3> QED BY <1>7, <2>3, <2>5 DEF Orders
  <2> QED BY <2>5, <2>6
<1>26. Searches(u, U)  BY <1>15, <1>16, <1>24, <1>25 DEF Searches
<1>27. Pruned(t, S, u, U, p, K)  BY <1>23, <1>24, <1>25 DEF Pruned
<1> QED BY <1>26, <1>27 DEF K

-----------------------------------------------------------------------------
(* The binary search tree: what the calls keep *)

(* A search tree of the values w. *)
SearchesFor(t, w) == \E S : Searches(t, S) /\ w = HeldBy(t.val, S[1])

LEMMA SearchesForIs ==
    ASSUME NEW t, NEW w
    PROVE  SearchesFor(t, w) <=>
             /\ BT!Allocated(t) /\ BT!Grown(t)
             /\ \A n \in BT!Under(t, BT!Root) : BT!Sorted(t, n)
             /\ w = [v \in Priorities |-> BT!Cardinality({n \in BT!Under(t, BT!Root) : t.val[n] = v})]
<1>1. ASSUME NEW S, Grows(t), Below(t, S)
      PROVE  /\ BT!Under(t, BT!Root) = S[1]
             /\ Searches(t, S) <=> \A n \in S[1] : BT!Sorted(t, n)
  <2>1. BT!Under(t, BT!Root) = S[1] /\ \A n \in 1 .. Len(t.val) : BT!Sorted(t, n) <=> Orders(t, S, n)
    BY <1>1, SearchesIs
  <2>2. S[1] \subseteq 1 .. Len(t.val)
    <3>1. 1 \in 0 .. Len(t.val)  BY <1>1, TreeIs
    <3> QED BY <1>1, <3>1, BelowIs
  <2>3. \A n \in S[1] : BT!Sorted(t, n) <=> Orders(t, S, n)  BY <2>1, <2>2
  <2> QED BY <1>1, <2>1, <2>3 DEF Searches
<1>2. ASSUME NEW S  PROVE HeldBy(t.val, S[1]) = [v \in Priorities |-> BT!Cardinality({n \in S[1] : t.val[n] = v})]
  BY TreeCardinality DEF HeldBy
<1>3. Grows(t) <=> BT!Allocated(t) /\ BT!Grown(t)  BY GrowsIs
<1>4. ASSUME SearchesFor(t, w)
      PROVE  /\ BT!Allocated(t) /\ BT!Grown(t)
             /\ \A n \in BT!Under(t, BT!Root) : BT!Sorted(t, n)
             /\ w = [v \in Priorities |-> BT!Cardinality({n \in BT!Under(t, BT!Root) : t.val[n] = v})]
  <2>1. PICK S : Searches(t, S) /\ w = HeldBy(t.val, S[1])  BY <1>4 DEF SearchesFor
  <2>2. Grows(t) /\ Below(t, S)  BY <2>1 DEF Searches
  <2>3. BT!Under(t, BT!Root) = S[1] /\ \A n \in S[1] : BT!Sorted(t, n)  BY <1>1, <2>1, <2>2
  <2> QED BY <1>2, <1>3, <2>1, <2>2, <2>3
<1>5. ASSUME BT!Allocated(t), BT!Grown(t), \A n \in BT!Under(t, BT!Root) : BT!Sorted(t, n),
             w = [v \in Priorities |-> BT!Cardinality({n \in BT!Under(t, BT!Root) : t.val[n] = v})]
      PROVE  SearchesFor(t, w)
  <2>1. Grows(t)  BY <1>3, <1>5
  <2>2. PICK S : Below(t, S)  BY <2>1, BelowExists
  <2>3. BT!Under(t, BT!Root) = S[1]  BY <1>1, <2>1, <2>2
  <2>4. Searches(t, S)  BY <1>1, <1>5, <2>1, <2>2, <2>3
  <2>5. w = HeldBy(t.val, S[1])  BY <1>2, <1>5, <2>3
  <2> QED BY <2>4, <2>5 DEF SearchesFor
<1> QED BY <1>4, <1>5

(* A tree of one node. *)
Single(v) == [type |-> "BSTree", val |-> <<v>>, left |-> <<0>>, right |-> <<0>>]

LEMMA OneSearches ==
    ASSUME NEW v \in Priorities, NEW t, t = Single(v)
    PROVE  SearchesFor(t, BT!Bag(<<v>>))
<1> DEFINE S == [n \in 0 .. 1 |-> IF n = 0 THEN {} ELSE {1}]
           rank == [n \in 0 .. 1 |-> n]
<1>1. /\ Len(t.val) = 1 /\ t.val = <<v>> /\ t.val[1] = v /\ t.left[1] = 0 /\ t.right[1] = 0 /\ t.val # <<>>
      /\ t.left \in [1 .. 1 -> 0 .. 1] /\ t.right \in [1 .. 1 -> 0 .. 1] /\ t.val \in Seq(Priorities)
      /\ 1 .. 1 = {1}
  BY DEF Single
<1>2. BT!Allocated(t)
  <2>1. t \in [type : {"BSTree"}, val : Seq(Priorities), left : [1 .. 1 -> 0 .. 1], right : [1 .. 1 -> 0 .. 1]]
    BY <1>1 DEF Single
  <2> QED BY <1>1, <2>1 DEF BT!Allocated
<1>3. rank \in [0 .. 1 -> Nat] /\ rank[0] = 0 /\ rank[1] = 1  OBVIOUS
<1>4. S \in [0 .. 1 -> SUBSET (1 .. 1)] /\ S[0] = {} /\ S[1] = {1}  OBVIOUS
<1> HIDE DEF S, rank
<1>5. Falls(1, t.left, t.right, rank)  BY <1>1, <1>3 DEF Falls
<1>6. Grows(t)  BY <1>1, <1>2, <1>5 DEF Grows
<1>7. Below(t, S)  BY <1>1, <1>4 DEF Below
<1>8. Orders(t, S, 1)  BY <1>1, <1>4 DEF Orders
<1>9. Searches(t, S)  BY <1>4, <1>6, <1>7, <1>8 DEF Searches
<1>10. BT!Bag(<<v>>) = HeldBy(t.val, S[1])
  <2>1. DOMAIN <<v>> = {1}  BY <1>1
  <2>2. BT!Bag(<<v>>) = [w \in Priorities |-> Cardinality({n \in {1} : <<v>>[n] = w})]  BY <2>1, TreeCardinality DEF BT!Bag
  <2> QED BY <1>1, <1>4, <2>2 DEF HeldBy
<1> QED BY <1>9, <1>10 DEF SearchesFor

(* A new node without children, under none of the others. *)
Leafed(t, v) == [t EXCEPT !.val = Append(@, v), !.left = Append(@, 0), !.right = Append(@, 0)]

LEMMA LeafedIs ==
    ASSUME NEW t, Grows(t), NEW v \in Priorities, NEW new, new = Len(t.val) + 1, NEW u, u = Leafed(t, v)
    PROVE  /\ Len(u.val) = new /\ new \in 1 .. new /\ u.type = "BSTree" /\ BT!Allocated(u)
           /\ \A m \in 1 .. Len(t.val) : /\ u.val[m] = t.val[m] /\ u.left[m] = t.left[m] /\ u.right[m] = t.right[m]
                                         /\ m # new
           /\ u.val[new] = v /\ u.left[new] = 0 /\ u.right[new] = 0
           /\ \A m \in 1 .. new : m \in 1 .. Len(t.val) \/ m = new
<1> DEFINE N == Len(t.val)
<1>1. /\ BT!Allocated(t) /\ N \in Nat /\ t.val \in Seq(Priorities) /\ t.left \in [1 .. N -> 0 .. N] /\ t.right \in [1 .. N -> 0 .. N]
      /\ DOMAIN t.val = 1 .. N
  BY TreeIs
<1>2. t.left \in Seq(0 .. N) /\ t.right \in Seq(0 .. N) /\ Len(t.left) = N /\ Len(t.right) = N
  <2>1. ASSUME NEW c \in [1 .. N -> 0 .. N]  PROVE c \in Seq(0 .. N) /\ Len(c) = N
    <3> HIDE DEF N
    <3> QED BY <1>1
  <2> QED BY <1>1, <2>1
<1>3. t \in [type : {"BSTree"}, val : Seq(Priorities), left : [1 .. N -> 0 .. N], right : [1 .. N -> 0 .. N]]
  BY <1>1 DEF BT!Allocated
<1>4. /\ u.type = "BSTree" /\ u.val = Append(t.val, v) /\ u.left = Append(t.left, 0) /\ u.right = Append(t.right, 0)
      /\ u = [type |-> u.type, val |-> u.val, left |-> u.left, right |-> u.right]
  BY <1>3 DEF Leafed
<1>5. new = N + 1 /\ new \in Nat  BY <1>1
<1>6. /\ u.val \in Seq(Priorities) /\ Len(u.val) = new /\ u.val[new] = v /\ u.val # <<>>
      /\ \A m \in 1 .. N : u.val[m] = t.val[m]
  <2>1. /\ Append(t.val, v) \in Seq(Priorities) /\ Len(Append(t.val, v)) = N + 1 /\ Append(t.val, v)[N + 1] = v
        /\ \A m \in 1 .. N : Append(t.val, v)[m] = t.val[m]
    BY <1>1, AppendProperties
  <2>2. Append(t.val, v) # <<>>
    <3> HIDE DEF N
    <3> QED BY <1>1, <2>1, EmptySeq
  <2> QED BY <1>4, <1>5, <2>1, <2>2
<1> HIDE DEF N
<1>7. ASSUME NEW c, c = t.left \/ c = t.right
      PROVE  /\ Append(c, 0) \in [1 .. new -> 0 .. new] /\ Append(c, 0)[new] = 0
             /\ \A m \in 1 .. N : Append(c, 0)[m] = c[m]
  <2>1. c \in Seq(0 .. N) /\ Len(c) = N /\ 0 \in 0 .. N  BY <1>1, <1>2, <1>7
  <2>2. /\ Append(c, 0) \in Seq(0 .. N) /\ Len(Append(c, 0)) = new /\ Append(c, 0)[new] = 0
        /\ \A m \in 1 .. N : Append(c, 0)[m] = c[m]
    BY <1>5, <2>1, AppendProperties
  <2>3. Append(c, 0) \in [1 .. new -> 0 .. N]
    <3> DEFINE a == Append(c, 0)
    <3>1. a \in Seq(0 .. N) /\ Len(a) = new  BY <2>2
    <3> HIDE DEF a
    <3>2. a \in [1 .. Len(a) -> 0 .. N]  BY <3>1, LenProperties, ElementOfSeq
    <3> QED BY <3>1, <3>2 DEF a
  <2>4. 0 .. N \subseteq 0 .. new  BY <1>1, <1>5
  <2> QED BY <2>2, <2>3, <2>4
<1>8. BT!Allocated(u)
  <2>1. u.left \in [1 .. new -> 0 .. new] /\ u.right \in [1 .. new -> 0 .. new]  BY <1>4, <1>7
  <2> QED BY <1>4, <1>6, <2>1 DEF BT!Allocated
<1>9. /\ u.left[new] = 0 /\ u.right[new] = 0
      /\ \A m \in 1 .. N : u.left[m] = t.left[m] /\ u.right[m] = t.right[m]
  BY <1>4, <1>7
<1>10. (\A m \in 1 .. N : m # new) /\ new \in 1 .. new /\ \A m \in 1 .. new : m \in 1 .. N \/ m = new  BY <1>1, <1>5
<1> QED BY <1>4, <1>6, <1>8, <1>9, <1>10 DEF N

(* The new node is alone, and nothing else has changed. *)
Joined(t, S, U) ==
  /\ U[Len(t.val) + 1] = {Len(t.val) + 1}
  /\ \A m \in 0 .. Len(t.val) : U[m] = S[m]

LEMMA LeafedSearches ==
    ASSUME NEW t, NEW S, Searches(t, S), NEW v \in Priorities, NEW u, u = Leafed(t, v)
    PROVE  \E U : Searches(u, U) /\ Joined(t, S, U)
<1> DEFINE N == Len(t.val)
           new == Len(t.val) + 1
           U == [m \in 0 .. new |-> IF m = new THEN {new} ELSE S[m]]
<1>1. Grows(t) /\ Below(t, S) /\ \A n \in S[1] : Orders(t, S, n)  BY DEF Searches
<1>2. N \in Nat /\ 1 \in 1 .. N /\ \A m \in 1 .. N : t.left[m] \in 0 .. N /\ t.right[m] \in 0 .. N
  <2>1. N \in Nat /\ N > 0 /\ t.left \in [1 .. N -> 0 .. N] /\ t.right \in [1 .. N -> 0 .. N]  BY <1>1, TreeIs
  <2> HIDE DEF N
  <2> QED BY <2>1
<1>3. /\ Len(u.val) = new /\ new \in 1 .. new /\ BT!Allocated(u)
      /\ \A m \in 1 .. N : u.val[m] = t.val[m] /\ u.left[m] = t.left[m] /\ u.right[m] = t.right[m] /\ m # new
      /\ u.left[new] = 0 /\ u.right[new] = 0
      /\ \A m \in 1 .. new : m \in 1 .. N \/ m = new
  <2> HIDE DEF new
  <2>1. new = Len(t.val) + 1  BY DEF new
  <2> QED BY <1>1, <2>1, LeafedIs
<1>4. new \in Nat /\ new = N + 1 /\ \A m \in 0 .. N : m \in 0 .. new /\ m # new  BY <1>2
<1>5. u.left \in [1 .. new -> 0 .. new] /\ u.right \in [1 .. new -> 0 .. new]  BY <1>3 DEF BT!Allocated
<1>6. S \in [0 .. N -> SUBSET (1 .. N)] /\ S[0] = {} /\ \A m \in 1 .. N : S[m] = {m} \cup S[t.left[m]] \cup S[t.right[m]]
  BY <1>1 DEF Below
<1>7. PICK rank : Falls(N, t.left, t.right, rank)  BY <1>1 DEF Grows
<1>8. rank \in [0 .. N -> Nat] /\ \A m \in 1 .. N : rank[t.left[m]] < rank[m] /\ rank[t.right[m]] < rank[m]
  BY <1>7 DEF Falls
<1> HIDE DEF N, new
<1>9. Grows(u)
  <2> DEFINE high == [m \in 0 .. new |-> IF m = new THEN rank[0] + 1 ELSE rank[m]]
  <2>1. rank[0] \in Nat /\ \A m \in 0 .. new : m = new \/ m \in 0 .. N  BY <1>2, <1>4, <1>8
  <2>2. high \in [0 .. new -> Nat] /\ high[new] = rank[0] + 1 /\ \A m \in 0 .. N : high[m] = rank[m]
    BY <1>3, <1>4, <1>8, <2>1
  <2> HIDE DEF high
  <2>3. \A m \in 1 .. new : high[u.left[m]] < high[m] /\ high[u.right[m]] < high[m]
    <3> TAKE m \in 1 .. new
    <3>1. CASE m = new
      <4>1. 0 \in 0 .. N  BY <1>2
      <4> QED BY <1>3, <2>1, <2>2, <3>1, <4>1
    <3>2. CASE m \in 1 .. N
      <4>1. m \in 0 .. N /\ t.left[m] \in 0 .. N /\ t.right[m] \in 0 .. N  BY <1>2, <3>2
      <4>2. u.left[m] = t.left[m] /\ u.right[m] = t.right[m] /\ rank[t.left[m]] < rank[m] /\ rank[t.right[m]] < rank[m]
        BY <1>3, <1>8, <3>2
      <4>3. high[t.left[m]] = rank[t.left[m]] /\ high[t.right[m]] = rank[t.right[m]] /\ high[m] = rank[m]
        BY <2>2, <4>1
      <4> QED BY <4>2, <4>3
    <3> QED BY <1>3, <3>1, <3>2
  <2>4. Falls(new, u.left, u.right, high)  BY <1>4, <1>5, <2>2, <2>3 DEF Falls
  <2> QED BY <1>3, <2>4 DEF Grows
<1>10. U[new] = {new} /\ \A m \in 0 .. N : U[m] = S[m]  BY <1>4
<1>11. U \in [0 .. new -> SUBSET (1 .. new)]
  <2>1. 1 .. N \subseteq 1 .. new  BY <1>2, <1>4
  <2>2. \A m \in 0 .. new : m = new \/ m \in 0 .. N  BY <1>2, <1>4
  <2> QED BY <1>3, <1>6, <2>1, <2>2
<1> HIDE DEF U
<1>12. U[0] = {}  BY <1>2, <1>6, <1>10
<1>13. \A m \in 1 .. new : U[m] = {m} \cup U[u.left[m]] \cup U[u.right[m]]
  <2> TAKE m \in 1 .. new
  <2>1. CASE m = new  BY <1>3, <1>10, <1>12, <2>1
  <2>2. CASE m \in 1 .. N
    <3>1. m \in 0 .. N  BY <2>2
    <3> QED BY <1>2, <1>3, <1>6, <1>10, <2>2, <3>1
  <2> QED BY <1>3, <2>1, <2>2
<1>14. Below(u, U)  BY <1>3, <1>11, <1>12, <1>13 DEF Below
<1>15. U[1] = S[1] /\ S[1] \subseteq 1 .. N /\ \A m \in 0 .. N : S[m] \subseteq 1 .. N
  <2>1. 1 \in 0 .. N  BY <1>2
  <2> QED BY <1>6, <1>10, <2>1
<1>16. ASSUME NEW n \in S[1]  PROVE Orders(u, U, n)
  <2>1. n \in 1 .. N /\ t.left[n] \in 0 .. N /\ t.right[n] \in 0 .. N  BY <1>2, <1>15
  <2>2. u.left[n] = t.left[n] /\ u.right[n] = t.right[n] /\ u.val[n] = t.val[n]  BY <1>3, <2>1
  <2>3. U[t.left[n]] = S[t.left[n]] /\ U[t.right[n]] = S[t.right[n]]  BY <1>10, <2>1
  <2>4. (\A x \in S[t.left[n]] : u.val[x] = t.val[x]) /\ (\A x \in S[t.right[n]] : u.val[x] = t.val[x])
    BY <1>3, <1>15, <2>1
  <2> QED BY <1>1, <2>2, <2>3, <2>4 DEF Orders
<1>17. Searches(u, U)  BY <1>9, <1>14, <1>15, <1>16 DEF Searches
<1> QED BY <1>10, <1>17 DEF N, new, Joined

LEMMA RelinkedBy ==
    ASSUME NEW t, Grows(t), NEW p \in 1 .. Len(t.val), NEW g \in 0 .. Len(t.val)
    PROVE  /\ Relinked(t, [t EXCEPT !.left[p] = g], p, "left", g)
           /\ \A side : side # "left" => Relinked(t, [t EXCEPT !.right[p] = g], p, side, g)
<1> DEFINE N == Len(t.val)
<1>1. /\ BT!Allocated(t) /\ t.val # <<>>
      /\ t \in [type : {"BSTree"}, val : Seq(Priorities), left : [1 .. N -> 0 .. N], right : [1 .. N -> 0 .. N]]
  BY TreeIs DEF BT!Allocated
<1>2. ASSUME NEW u, u = [t EXCEPT !.left[p] = g]  PROVE Relinked(t, u, p, "left", g)
  <2>1. /\ u \in [type : {"BSTree"}, val : Seq(Priorities), left : [1 .. N -> 0 .. N], right : [1 .. N -> 0 .. N]]
        /\ u.val = t.val /\ u.right = t.right /\ u.left = [t.left EXCEPT ![p] = g]
    <3> HIDE DEF N
    <3>1. p \in 1 .. N /\ g \in 0 .. N  BY DEF N
    <3> QED BY <1>1, <1>2, <3>1
  <2>2. BT!Allocated(u)  BY <1>1, <2>1 DEF BT!Allocated
  <2>3. t.left \in [1 .. N -> 0 .. N]  BY <1>1
  <2>4. \A m \in 1 .. N : u.left[m] = IF m = p THEN g ELSE t.left[m]
    <3> HIDE DEF N
    <3> QED BY <2>1, <2>3
  <2> QED BY <2>1, <2>2, <2>4 DEF Relinked
<1>3. ASSUME NEW u, u = [t EXCEPT !.right[p] = g], NEW side, side # "left"  PROVE Relinked(t, u, p, side, g)
  <2>1. /\ u \in [type : {"BSTree"}, val : Seq(Priorities), left : [1 .. N -> 0 .. N], right : [1 .. N -> 0 .. N]]
        /\ u.val = t.val /\ u.left = t.left /\ u.right = [t.right EXCEPT ![p] = g]
    <3> HIDE DEF N
    <3>1. p \in 1 .. N /\ g \in 0 .. N  BY DEF N
    <3> QED BY <1>1, <1>3, <3>1
  <2>2. BT!Allocated(u)  BY <1>1, <2>1 DEF BT!Allocated
  <2>3. t.right \in [1 .. N -> 0 .. N]  BY <1>1
  <2>4. \A m \in 1 .. N : u.right[m] = IF m = p THEN g ELSE t.right[m]
    <3> HIDE DEF N
    <3> QED BY <2>1, <2>3
  <2> QED BY <1>3, <2>1, <2>2, <2>4 DEF Relinked
<1> QED BY <1>2, <1>3

LEMMA InsertSearches ==
    ASSUME NEW t, NEW w, SearchesFor(t, w), NEW v \in Priorities, NEW new, new = Len(t.val) + 1,
           NEW s, s = Leafed(t, v), NEW u, u = BT!insertTreeNode(s, 1, new)
    PROVE  SearchesFor(u, OneMore(w, v)) /\ u.type = "BSTree"
<1> DEFINE Child(m) == IF s.val[new] < s.val[m] THEN s.left[m] ELSE s.right[m]
           W == CHOOSE G : G = [m \in DOMAIN s.val |-> IF Child(m) = 0 THEN m ELSE G[Child(m)]]
           c == [m \in 1 .. new |-> Child(m)]
           p == W[1]
           side == IF v < s.val[p] THEN "left" ELSE "right"
<1>1. PICK S : Searches(t, S) /\ w = HeldBy(t.val, S[1])  BY DEF SearchesFor
<1>2. Grows(t) /\ Len(t.val) \in Nat /\ Len(t.val) > 0  BY <1>1, TreeIs DEF Searches
<1>3. /\ Len(s.val) = new /\ new \in 1 .. new /\ s.type = "BSTree"
      /\ \A m \in 1 .. Len(t.val) : s.val[m] = t.val[m] /\ m # new
      /\ s.val[new] = v /\ s.left[new] = 0 /\ s.right[new] = 0
  BY <1>2, LeafedIs
<1>4. PICK U : Searches(s, U) /\ U[new] = {new} /\ \A m \in 0 .. Len(t.val) : U[m] = S[m]
  <2> HIDE DEF Child, W, c, p, side
  <2>1. PICK U : Searches(s, U) /\ Joined(t, S, U)  BY <1>1, LeafedSearches
  <2> QED BY <2>1 DEF Joined
<1>5. /\ Grows(s) /\ Below(s, U) /\ \A n \in U[1] : Orders(s, U, n)
  BY <1>4 DEF Searches
<1>6. /\ DOMAIN s.val = 1 .. new /\ s.left \in [1 .. new -> 0 .. new] /\ s.right \in [1 .. new -> 0 .. new]
      /\ \A m \in 1 .. new : s.val[m] \in Int /\ s.val[m] \in Priorities
  BY <1>3, <1>5, TreeIs
<1>7. u = IF v < s.val[p] THEN [s EXCEPT !.left[p] = new] ELSE [s EXCEPT !.right[p] = new]
  <2>1. u = BT!insertTreeNode(s, 1, new)  OBVIOUS
  <2>2. u = IF s.val[new] < s.val[p] THEN [s EXCEPT !.left[p] = new] ELSE [s EXCEPT !.right[p] = new]
    BY <2>1, Zenon DEF BT!insertTreeNode, BT!Nil
  <2> HIDE DEF W
  <2> QED BY <1>3, <2>2
<1>8. \A m \in 1 .. new : c[m] = Child(m)  OBVIOUS
<1>9. PICK rank : Falls(new, c, c, rank)
  <2>1. PICK rank : Falls(new, s.left, s.right, rank)  BY <1>3, <1>5 DEF Grows
  <2>2. \A m \in 1 .. new : Child(m) \in 0 .. new /\ (Child(m) = s.left[m] \/ Child(m) = s.right[m])  BY <1>6
  <2>3. c \in [1 .. new -> 0 .. new] /\ \A m \in 1 .. new : c[m] = s.left[m] \/ c[m] = s.right[m]
    <3> HIDE DEF Child
    <3> QED BY <2>2
  <2> HIDE DEF c
  <2>4. Falls(new, c, c, rank)  BY <2>1, <2>3 DEF Falls
  <2> QED BY <2>4
<1>10. LeadsToEnd(new, c, W)
  <2>1. PICK G : LeadsToEnd(new, c, G)  BY <1>9, ChainEndsSomewhere
  <2>2. \A H : [m \in 1 .. new |-> IF c[m] = 0 THEN m ELSE H[c[m]]]
               = [m \in DOMAIN s.val |-> IF Child(m) = 0 THEN m ELSE H[Child(m)]]
    <3> HIDE DEF c, Child
    <3> QED BY <1>6, <1>8
  <2>3. G = [m \in DOMAIN s.val |-> IF Child(m) = 0 THEN m ELSE G[Child(m)]]  BY <2>1, <2>2 DEF LeadsToEnd
  <2> HIDE DEF c, Child
  <2>4. W = [m \in DOMAIN s.val |-> IF Child(m) = 0 THEN m ELSE W[Child(m)]]  BY <2>3
  <2> HIDE DEF W
  <2> QED BY <2>2, <2>4 DEF LeadsToEnd
<1>11. \A m \in 1 .. new : c[m] = s.left[m] \/ c[m] = s.right[m]  BY <1>8
<1>12. 1 \in 1 .. new /\ 1 \in 0 .. Len(t.val) /\ new \in Nat /\ new = Len(t.val) + 1  BY <1>2
<1> HIDE DEF W, c
<1>13. \A m \in 1 .. new : W[m] = IF c[m] = 0 THEN m ELSE W[c[m]]
  BY <1>9, <1>10, EndIs
<1>14. /\ p \in U[1] /\ c[p] = 0
       /\ \A n \in U[1] : p \in U[n] => n = p \/ p \in U[c[n]]
  <2>1. 1 \in 1 .. Len(s.val) /\ new = Len(s.val)  BY <1>3, <1>12
  <2>2. LeadsDown(s, c, W)  BY <1>11, <1>13, <2>1 DEF LeadsDown
  <2> HIDE DEF Child
  <2> QED BY <1>5, <2>1, <2>2, ChainEnds
<1> HIDE DEF p
<1>15. U[1] = S[1] /\ S[1] \subseteq 1 .. Len(t.val)
  <2>1. Below(t, S)  BY <1>1 DEF Searches
  <2> QED BY <1>2, <1>4, <1>12, <2>1, BelowIs
<1>16. p \in 1 .. new  BY <1>12, <1>14, <1>15
<1>17. s.val[new] = v /\ v \in Int /\ s.val[p] \in Int  BY <1>3, <1>6, <1>16
<1>18. ChildAt(s, p, side) = 0  BY <1>8, <1>14, <1>16, <1>17 DEF ChildAt
<1>19. Relinked(s, u, p, side, new)
  <2>1. p \in 1 .. Len(s.val) /\ new \in 0 .. Len(s.val)  BY <1>3, <1>12, <1>16
  <2>2. Relinked(s, [s EXCEPT !.left[p] = new], p, "left", new)
        /\ \A d : d # "left" => Relinked(s, [s EXCEPT !.right[p] = new], p, d, new)
    BY <1>5, <2>1, RelinkedBy
  <2> QED BY <1>7, <2>2
<1>20. Fits(s, U, p, side, new)
  <2>1. U[new] \cap U[1] = {}  BY <1>3, <1>4, <1>15
  <2>2. U[0] = {} /\ \A m \in 1 .. new : s.left[m] \in 0 .. new /\ s.right[m] \in 0 .. new  BY <1>5, <1>6 DEF Below
  <2>3. \A n \in U[new] : Orders(s, U, n)  BY <1>3, <1>4, <2>2 DEF Orders
  <2>4. ASSUME NEW n \in U[1], p \in U[n]
        PROVE  /\ p \in U[s.left[n]] \/ (n = p /\ side = "left") => v < s.val[n]
               /\ p \in U[s.right[n]] \/ (n = p /\ side # "left") => v >= s.val[n]
    <3>1. n \in 1 .. new /\ s.val[n] \in Int  BY <1>6, <1>12, <1>15
    <3>2. p \notin U[s.left[p]] /\ p \notin U[s.right[p]]  BY <1>3, <1>5, <1>16, BelowIs
    <3>3. U[s.left[n]] \cap U[s.right[n]] = {}  BY <1>5 DEF Orders
    <3>4. n # p => p \in U[c[n]]  BY <1>14, <2>4
    <3>5. c[n] = IF v < s.val[n] THEN s.left[n] ELSE s.right[n]  BY <1>3, <1>8, <3>1
    <3>6. CASE n = p  BY <1>17, <3>2, <3>6
    <3>7. CASE n # p  BY <1>17, <3>1, <3>3, <3>4, <3>5, <3>7
    <3> QED BY <3>6, <3>7
  <2>5. \A x \in U[new] : s.val[x] = v  BY <1>3, <1>4
  <2> HIDE DEF side
  <2> QED BY <2>1, <2>3, <2>4, <2>5 DEF Fits
<1>21. new \in 1 .. Len(s.val)  BY <1>3
<1>22. PICK V : Searches(u, V) /\ V[1] = U[1] \cup U[new]
  <2> HIDE DEF side
  <2> QED BY <1>4, <1>14, <1>18, <1>19, <1>20, <1>21, Grafted
<1>23. HeldBy(u.val, V[1]) = OneMore(w, v)
  <2> DEFINE R == V[1]
  <2>1. R = S[1] \cup {new} /\ new \notin S[1]  BY <1>3, <1>4, <1>15, <1>22
  <2>2. u.val = s.val /\ u.val[new] = v  BY <1>3, <1>19, RelinkedIs
  <2>3. R \subseteq 1 .. new /\ new \in R /\ Besides(R, new) = S[1]  BY <1>12, <1>15, <2>1 DEF Besides
  <2> HIDE DEF R
  <2>4. HeldBy(u.val, R) = OneMore(HeldBy(u.val, Besides(R, new)), u.val[new])
    <3>1. Numbers(R)  BY <1>12, <2>3 DEF Numbers
    <3>2. u.val[new] \in Priorities /\ new \in R  BY <2>2, <2>3
    <3> QED BY <3>1, <3>2, HeldDiffers
  <2>5. HeldBy(u.val, S[1]) = HeldBy(t.val, S[1])
    <3>1. \A n \in S[1] : u.val[n] = t.val[n]  BY <1>3, <1>15, <2>2
    <3> QED BY <3>1, HeldSame
  <2> QED BY <1>1, <2>2, <2>3, <2>4, <2>5 DEF R
<1>24. u.type = "BSTree"
  <2>1. BT!Allocated(u)  BY <1>22, TreeIs DEF Searches
  <2> QED BY <2>1 DEF BT!Allocated
<1> QED BY <1>22, <1>23, <1>24 DEF SearchesFor

-----------------------------------------------------------------------------
(* The binary search tree: what a deletion does *)

LEMMA SuccessorIs ==
    ASSUME NEW t, Grows(t), NEW g \in 1 .. Len(t.val)
    PROVE  /\ BT!inOrderSuccessor(t, g) \in 1 .. Len(t.val)
           /\ \E P : LeadsDown(t, t.left, P) /\ BT!inOrderSuccessor(t, g) = P[g]
<1> DEFINE N == Len(t.val)
           c == t.left
           W == CHOOSE G : G = [m \in 1 .. N |-> IF c[m] = 0 THEN m ELSE G[c[m]]]
<1>1. PICK rank : Falls(N, t.left, t.right, rank)  BY DEF Grows
<1>2. Falls(N, c, c, rank)  BY <1>1 DEF Falls
<1>3. BT!inOrderSuccessor(t, g) = W[g]
  <2>1. DOMAIN t.val = 1 .. N  BY TreeIs
  <2> HIDE DEF N
  <2> QED BY <2>1, Zenon DEF BT!inOrderSuccessor, BT!Nil
<1>4. LeadsToEnd(N, c, W)
  <2>1. PICK G : LeadsToEnd(N, c, G)  BY <1>2, ChainEndsSomewhere
  <2> HIDE DEF N, c
  <2>2. G = [m \in 1 .. N |-> IF c[m] = 0 THEN m ELSE G[c[m]]]  BY <2>1 DEF LeadsToEnd
  <2>3. W = [m \in 1 .. N |-> IF c[m] = 0 THEN m ELSE W[c[m]]]  BY <2>2
  <2> HIDE DEF W
  <2> QED BY <2>3 DEF LeadsToEnd
<1> HIDE DEF W
<1>5. (\A m \in 1 .. N : W[m] \in 1 .. N) /\ \A m \in 1 .. N : W[m] = IF c[m] = 0 THEN m ELSE W[c[m]]
  BY <1>2, <1>4, EndIs
<1>6. LeadsDown(t, c, W)  BY <1>5 DEF LeadsDown
<1> QED BY <1>3, <1>5, <1>6

(* Trees with the nodes of t, and what deleteTreeNode returns. *)
Shapes(t) ==
  [type : {"BSTree"}, val : {t.val}, left : [1 .. Len(t.val) -> 0 .. Len(t.val)],
   right : [1 .. Len(t.val) -> 0 .. Len(t.val)]]
Results(t) == [tree : Shapes(t), node : 0 .. Len(t.val)]

LEMMA ShapesAre ==
    ASSUME NEW t, Grows(t)
    PROVE  /\ t \in Shapes(t)
           /\ \A u \in Shapes(t) : BT!Allocated(u) /\ u.val = t.val
<1>1. /\ t.val \in Seq(Priorities) /\ t.val # <<>>
      /\ t \in [type : {"BSTree"}, val : Seq(Priorities), left : [1 .. Len(t.val) -> 0 .. Len(t.val)],
                right : [1 .. Len(t.val) -> 0 .. Len(t.val)]]
  BY TreeIs DEF BT!Allocated
<1>2. t \in Shapes(t)  BY <1>1 DEF Shapes
<1>3. ASSUME NEW u \in Shapes(t)  PROVE BT!Allocated(u) /\ u.val = t.val
  <2>1. u.val = t.val  BY DEF Shapes
  <2>2. u \in [type : {"BSTree"}, val : Seq(Priorities), left : [1 .. Len(u.val) -> 0 .. Len(u.val)],
               right : [1 .. Len(u.val) -> 0 .. Len(u.val)]]
    BY <1>1, <2>1 DEF Shapes
  <2> QED BY <1>1, <2>1, <2>2 DEF BT!Allocated
<1> QED BY <1>2, <1>3

(* What was returned becomes a child of m. *)
Hung(a, m, side) ==
  [tree |-> IF side = "left" THEN [a.tree EXCEPT !.left[m] = a.node] ELSE [a.tree EXCEPT !.right[m] = a.node],
   node |-> m]

LEMMA ResultsAre ==
    ASSUME NEW t, Grows(t), NEW m \in 1 .. Len(t.val)
    PROVE  /\ BT!TakenOut(t, m) \in Results(t)
           /\ \A a \in Results(t) : \A side : Hung(a, m, side) \in Results(t)
<1> DEFINE N == Len(t.val)
           Shape == [type : {"BSTree"}, val : {t.val}, left : [1 .. N -> 0 .. N], right : [1 .. N -> 0 .. N]]
<1>1. t \in Shape /\ Shapes(t) = Shape  BY ShapesAre DEF Shapes
<1>2. Results(t) = [tree : Shape, node : 0 .. N]  BY <1>1 DEF Results
<1>3. N \in Nat /\ m \in 1 .. N  BY TreeIs
<1> HIDE DEF N
<1>4. \A u \in Shape, k \in 1 .. N, g \in 0 .. N : [u EXCEPT !.left[k] = g] \in Shape /\ [u EXCEPT !.right[k] = g] \in Shape
  OBVIOUS
<1>5. t.left[m] \in 0 .. N /\ t.right[m] \in 0 .. N  BY <1>1, <1>3
<1> HIDE DEF Shape
<1>6. ASSUME NEW a \in Results(t), NEW side  PROVE Hung(a, m, side) \in Results(t)
  <2>1. a.tree \in Shape /\ a.node \in 0 .. N  BY <1>2
  <2>2. [a.tree EXCEPT !.left[m] = a.node] \in Shape /\ [a.tree EXCEPT !.right[m] = a.node] \in Shape  BY <1>3, <1>4, <2>1
  <2>3. m \in 0 .. N  BY <1>3
  <2> QED BY <1>2, <2>2, <2>3 DEF Hung
<1>7. BT!TakenOut(t, m) \in Results(t)
  <2>1. CASE t.left[m] = 0  BY <1>1, <1>2, <1>5, <2>1 DEF BT!TakenOut, BT!Nil
  <2>2. CASE t.left[m] # 0 /\ t.right[m] = 0  BY <1>1, <1>2, <1>5, <2>2 DEF BT!TakenOut, BT!Nil
  <2>3. CASE t.left[m] # 0 /\ t.right[m] # 0
    <3> DEFINE s == BT!inOrderSuccessor(t, t.right[m])
    <3>1. t.right[m] \in 1 .. N  BY <1>3, <1>5, <2>3
    <3>2. s \in 1 .. N  BY <3>1, SuccessorIs DEF N
    <3>3. BT!TakenOut(t, m) = [tree |-> [t EXCEPT !.left[s] = t.left[m]], node |-> t.right[m]]  BY <2>3 DEF BT!TakenOut, BT!Nil
    <3> HIDE DEF s
    <3>4. [t EXCEPT !.left[s] = t.left[m]] \in Shape  BY <1>1, <1>4, <1>5, <3>2
    <3> QED BY <1>2, <1>5, <3>3, <3>4
  <2> QED BY <2>1, <2>2, <2>3
<1> QED BY <1>6, <1>7

Removes(t, v, D) ==
  /\ D \in [0 .. Len(t.val) -> Results(t)] /\ D[0] = [tree |-> t, node |-> 0]
  /\ \A m \in 1 .. Len(t.val) : /\ v < t.val[m] => D[m] = Hung(D[t.left[m]], m, "left")
                                /\ v > t.val[m] => D[m] = Hung(D[t.right[m]], m, "right")
                                /\ v = t.val[m] => D[m] = BT!TakenOut(t, m)

LEMMA DeleteUnrolls ==
    ASSUME NEW t, Grows(t), NEW v \in Priorities
    PROVE  \E D : Removes(t, v, D) /\ \A n : BT!deleteTreeNode(t, n, v) = D[n]
<1> DEFINE N == Len(t.val)
           l == t.left
           r == t.right
           A == Results(t)
           z == [tree |-> t, node |-> 0]
           Body(m, a, b) == IF v < t.val[m] THEN Hung(a, m, "left") ELSE IF v > t.val[m] THEN Hung(b, m, "right") ELSE BT!TakenOut(t, m)
           Row(m, G) ==
             IF m = 0 THEN [tree |-> t, node |-> 0]
             ELSE IF v < t.val[m] THEN [tree |-> [G[t.left[m]].tree EXCEPT !.left[m] = G[t.left[m]].node], node |-> m]
             ELSE IF v > t.val[m] THEN [tree |-> [G[t.right[m]].tree EXCEPT !.right[m] = G[t.right[m]].node], node |-> m]
             ELSE BT!TakenOut(t, m)
           W == CHOOSE G : G = [m \in 0 .. N |-> Row(m, G)]
           step == [m \in 1 .. N |-> [p \in A \X A |-> Body(m, p[1], p[2])]]
<1>1. PICK rank : Falls(N, l, r, rank)  BY DEF Grows
<1>2. /\ N \in Nat /\ \A m \in 1 .. N : l[m] \in 0 .. N /\ r[m] \in 0 .. N /\ m # 0 /\ m \in 0 .. N
      /\ v \in Int /\ \A m \in 1 .. N : t.val[m] \in Int
  <2>1. v \in Int  BY HeapsAssumption DEF HeapsAssumption
  <2> QED BY <2>1, TreeIs
<1>3. \A n : BT!deleteTreeNode(t, n, v) = W[n]
  BY Zenon DEF BT!deleteTreeNode, BT!Nil, BT!Nodes
<1>4. z \in A /\ \A m \in 1 .. N : \A a \in A, b \in A : Body(m, a, b) \in A
  <2>1. z \in A
    <3>1. t \in Shapes(t) /\ 0 \in 0 .. N  BY <1>2, ShapesAre
    <3> QED BY <3>1 DEF Results
  <2>2. ASSUME NEW m \in 1 .. N, NEW a \in A, NEW b \in A  PROVE Body(m, a, b) \in A
    <3>1. BT!TakenOut(t, m) \in A /\ Hung(a, m, "left") \in A /\ Hung(b, m, "right") \in A  BY ResultsAre
    <3> QED BY <3>1
  <2> QED BY <2>1, <2>2
<1>5. (\A G : Row(0, G) = z) /\ \A m \in 1 .. N : \A G : Row(m, G) = Body(m, G[l[m]], G[r[m]])
  <2>1. ASSUME NEW m \in 1 .. N, NEW G  PROVE Row(m, G) = Body(m, G[l[m]], G[r[m]])
    <3>1. m # 0 /\ v \in Int /\ t.val[m] \in Int  BY <1>2
    <3>2. CASE v < t.val[m]  BY <3>1, <3>2 DEF Hung
    <3>3. CASE v > t.val[m]  BY <3>1, <3>3 DEF Hung
    <3>4. CASE v = t.val[m]
      <4>1. ~(v < t.val[m]) /\ ~(v > t.val[m])  BY <3>1, <3>4
      <4> QED BY <3>1, <3>4, <4>1
    <3> QED BY <3>1, <3>2, <3>3, <3>4
  <2> QED BY <2>1
<1> HIDE DEF N, l, r
<1> HIDE DEF A, z, Body, Row
<1>6. PICK F \in [0 .. N -> A] : F[0] = z /\ \A m \in 1 .. N : F[m] = step[m][<<F[l[m]], F[r[m]]>>]
  <2>1. step \in [1 .. N -> [A \X A -> A]]  BY <1>4
  <2> HIDE DEF step
  <2>2. PICK F : F \in Computed(N, l, r, A, z, step)  BY <1>1, <1>4, <2>1, TreeExists
  <2> QED BY <2>2 DEF Computed
<1>7. \A m \in 1 .. N : F[m] = Body(m, F[l[m]], F[r[m]])
  <2> TAKE m \in 1 .. N
  <2>1. F[l[m]] \in A /\ F[r[m]] \in A  BY <1>2
  <2> QED BY <1>6, <2>1
<1>8. W = [m \in 0 .. N |-> Row(m, W)]
  <2>1. \A m \in 0 .. N : F[m] = Row(m, F)
    <3>1. \A m \in 0 .. N : m = 0 \/ m \in 1 .. N  BY <1>2
    <3> QED BY ZenonT(40), <1>5, <1>6, <1>7, <3>1
  <2>2. F = [m \in 0 .. N |-> Row(m, F)]  BY <2>1
  <2> QED BY <2>2
<1> HIDE DEF W
<1>9. \A m \in 0 .. N : W[m] = F[m]
  <2>1. \A m \in 0 .. N : W[m] = Row(m, W)  BY <1>8
  <2>2. W[0] = F[0]
    <3>1. 0 \in 0 .. N  BY <1>2
    <3> QED BY <1>5, <1>6, <2>1, <3>1
  <2>3. \A m \in 1 .. N : W[m] = Body(m, W[l[m]], W[r[m]])  BY <1>2, <1>5, <2>1
  <2>4. \A m \in 1 .. N : W[l[m]] = F[l[m]] /\ W[r[m]] = F[r[m]] => W[m] = F[m]  BY <1>7, <2>3
  <2>5. Follows(N, l, r, F, W)  BY <2>2, <2>4 DEF Follows
  <2>6. ASSUME NEW G, NEW H, Follows(N, l, r, G, H)  PROVE \A m \in 0 .. N : H[m] = G[m]  BY <1>1, <2>6, TreeSame
  <2> QED BY <2>5, <2>6
<1>10. W = F  BY <1>8, <1>9
<1> HIDE DEF W
<1>11. ASSUME NEW m \in 1 .. N
       PROVE  /\ v < t.val[m] => F[m] = Hung(F[l[m]], m, "left")
              /\ v > t.val[m] => F[m] = Hung(F[r[m]], m, "right")
              /\ v = t.val[m] => F[m] = BT!TakenOut(t, m)
  <2>1. v \in Int /\ t.val[m] \in Int  BY <1>2
  <2>2. F[m] = IF v < t.val[m] THEN Hung(F[l[m]], m, "left") ELSE IF v > t.val[m] THEN Hung(F[r[m]], m, "right") ELSE BT!TakenOut(t, m)
    BY <1>7 DEF Body
  <2> QED BY <2>1, <2>2
<1>12. Removes(t, v, F)  BY <1>6, <1>11 DEF Removes, N, l, r, A, z
<1> QED BY <1>3, <1>10, <1>12

LEMMA HungIs ==
    ASSUME NEW t, Grows(t), NEW p \in 1 .. Len(t.val), NEW side, NEW a \in Results(t)
    PROVE  Relinked(a.tree, Hung(a, p, side).tree, p, side, a.node) /\ BT!Allocated(a.tree) /\ a.tree.val = t.val
<1> DEFINE N == Len(t.val)
           b == a.tree
           g == a.node
           u == Hung(a, p, side).tree
<1>1. b \in Shapes(t) /\ g \in 0 .. N  BY DEF Results
<1>2. u \in Shapes(t)
  <2>1. Hung(a, p, side) \in Results(t)  BY ResultsAre
  <2> QED BY <2>1 DEF Results
<1>3. BT!Allocated(u) /\ u.val = t.val /\ BT!Allocated(b) /\ b.val = t.val  BY <1>1, <1>2, ShapesAre
<1>4. \A m \in 1 .. N : /\ u.left[m] = IF side = "left" /\ m = p THEN g ELSE b.left[m]
                        /\ u.right[m] = IF side # "left" /\ m = p THEN g ELSE b.right[m]
  <2>1. /\ b \in [type : {"BSTree"}, val : {t.val}, left : [1 .. N -> 0 .. N], right : [1 .. N -> 0 .. N]]
        /\ p \in 1 .. N
    BY <1>1 DEF Shapes
  <2>2. u = IF side = "left" THEN [b EXCEPT !.left[p] = g] ELSE [b EXCEPT !.right[p] = g]  BY DEF Hung
  <2> HIDE DEF N, b, g, u
  <2>3. CASE side = "left"
    <3>1. u.left = [b.left EXCEPT ![p] = g] /\ u.right = b.right /\ b.left \in [1 .. N -> 0 .. N]  BY <2>1, <2>2, <2>3
    <3> QED BY <2>3, <3>1
  <2>4. CASE side # "left"
    <3>1. u.right = [b.right EXCEPT ![p] = g] /\ u.left = b.left /\ b.right \in [1 .. N -> 0 .. N]  BY <2>1, <2>2, <2>4
    <3> QED BY <2>4, <3>1
  <2> QED BY <2>3, <2>4
<1>5. p \in 1 .. Len(b.val) /\ g \in 0 .. Len(b.val) /\ Len(b.val) = N  BY <1>1, <1>3
<1> HIDE DEF N, b, g, u
<1>6. Relinked(b, u, p, side, g)  BY <1>3, <1>4, <1>5 DEF Relinked
<1> QED BY <1>3, <1>6 DEF b, g, u

(* A node with both children: the right one takes its place, the left one  *)
(* goes below the leftmost node of the right one.                          *)
Moves(t, p, side, d, s, b, u) ==
  /\ d = ChildAt(t, p, side) /\ d # 0 /\ t.left[d] # 0 /\ t.right[d] # 0
  /\ s = BT!inOrderSuccessor(t, t.right[d])
  /\ Relinked(t, b, p, side, t.right[d]) /\ Relinked(b, u, s, "left", t.left[d])

LEMMA TwoChildren ==
    ASSUME NEW t, NEW S, Searches(t, S), NEW p \in S[1], NEW side, NEW d, NEW s, NEW b, NEW u,
           Moves(t, p, side, d, s, b, u)
    PROVE  \E V : Searches(u, V) /\ V[1] = Besides(S[1], d)
<1> USE DEF Moves
<1> DEFINE N == Len(t.val)
           L == t.left[d]
           R == t.right[d]
           K == Gone(t, S, d, "right")
<1>1. Grows(t) /\ Below(t, S) /\ \A n \in S[1] : Orders(t, S, n)  BY DEF Searches
<1>2. /\ N \in Nat /\ 1 \in 1 .. N /\ 0 \in 0 .. N
      /\ \A k \in 1 .. N : t.left[k] \in 0 .. N /\ t.right[k] \in 0 .. N /\ k \in 0 .. N /\ t.val[k] \in Int
  <2>1. N \in Nat /\ N > 0  BY <1>1, TreeIs
  <2>2. t.left \in [1 .. N -> 0 .. N] /\ t.right \in [1 .. N -> 0 .. N] /\ \A k \in 1 .. N : t.val[k] \in Int  BY <1>1, TreeIs
  <2> HIDE DEF N
  <2> QED BY <2>1, <2>2
<1>3. S[0] = {} /\ \A k \in 1 .. N : S[k] = {k} \cup S[t.left[k]] \cup S[t.right[k]]
  BY <1>1 DEF Below
<1>4. \A k \in 1 .. N : k \in S[k] /\ k \notin S[t.left[k]] /\ k \notin S[t.right[k]]
                        /\ S[t.left[k]] \subseteq S[k] /\ S[t.right[k]] \subseteq S[k]
  BY <1>1, BelowIs
<1>5. \A k \in 0 .. N : S[k] \subseteq 1 .. N /\ \A n \in S[k] : S[n] \subseteq S[k]  BY <1>1, BelowIs
<1>6. \A n \in S[1] : /\ S[t.left[n]] \cap S[t.right[n]] = {}
                      /\ (\A x \in S[t.left[n]] : t.val[x] < t.val[n]) /\ (\A x \in S[t.right[n]] : t.val[x] >= t.val[n])
  BY <1>1 DEF Orders
<1>7. p \in 1 .. N /\ S[p] \subseteq S[1]  BY <1>2, <1>5
<1>8. S[p] = {p} \cup S[d] \cup S[OtherAt(t, p, side)] /\ d \in 0 .. N /\ p \notin S[d]
  BY <1>1, <1>7, SlotsAre
<1>9. d \in 1 .. N /\ d # 0 /\ L # 0 /\ R # 0
  <2>1. d # 0  OBVIOUS
  <2> QED BY <1>2, <1>8, <2>1
<1>10. L \in 1 .. N /\ R \in 1 .. N
  <2>1. L \in 0 .. N /\ R \in 0 .. N  BY <1>2, <1>9
  <2> HIDE DEF L, R
  <2> QED BY <1>2, <1>9, <2>1
<1>11. S[d] = {d} \cup S[L] \cup S[R] /\ d \notin S[L] /\ d \notin S[R] /\ d \in S[d] /\ L \in S[L] /\ R \in S[R]
  BY <1>3, <1>4, <1>9, <1>10
<1>12. S[d] \subseteq S[1] /\ d \in S[1]  BY <1>7, <1>8, <1>11
<1>13. S[L] \cap S[R] = {} /\ (\A x \in S[L] : t.val[x] < t.val[d]) /\ (\A x \in S[R] : t.val[x] >= t.val[d])
  BY <1>6, <1>12
<1>14. K = {d} \cup S[L]  BY DEF Gone, OtherAt
<1>15. PICK U : Searches(b, U) /\ Pruned(t, S, b, U, p, K)
  <2>1. R = ChildAt(t, d, "right")  BY DEF ChildAt
  <2> QED BY <1>9, <2>1, Spliced
<1>16. /\ U[1] = S[1] \ K
       /\ \A n \in S[1] : U[n] = IF p \in S[n] THEN S[n] \ K ELSE S[n]
       /\ \A n \in S[1] : U[b.left[n]] \subseteq S[t.left[n]] /\ U[b.right[n]] \subseteq S[t.right[n]]
  BY <1>15 DEF Pruned
<1>17. b.val = t.val /\ \A m \in 1 .. N : m # p => b.left[m] = t.left[m] /\ b.right[m] = t.right[m]
  BY RelinkedIs
<1>18. /\ s \in S[R] /\ t.left[s] = 0
       /\ \A n \in S[R] : s \in S[n] => n = s \/ s \in S[t.left[n]]
  <2>1. PICK P : LeadsDown(t, t.left, P) /\ s = P[R]  BY <1>1, <1>10, SuccessorIs
  <2>2. \A n \in S[R] : Orders(t, S, n)  BY <1>1, <1>11, <1>12
  <2> HIDE DEF R
  <2> QED BY <1>1, <1>10, <2>1, <2>2, ChainEnds
<1>19. (\A n \in S[1] : Orders(t, S, n)) /\ s \in S[d]  BY SMTT(40), <1>1, <1>11, <1>18
<1> HIDE DEF N, L, R, K
<1>20. s \in U[1] /\ s # p /\ s \in 1 .. N /\ ChildAt(b, s, "left") = 0
  <2>1. s # d /\ s \notin S[L]  BY <1>11, <1>13, <1>18
  <2>2. s \in U[1]  BY <1>12, <1>14, <1>16, <1>19, <2>1
  <2>3. s # p /\ s \in 1 .. N  BY <1>2, <1>5, <1>8, <1>9, <1>19
  <2> QED BY <1>17, <1>18, <2>2, <2>3 DEF ChildAt
<1>21. U[L] = S[L]
  <2>1. p \notin S[L] /\ L \in S[1]  BY <1>8, <1>11, <1>12
  <2> QED BY <1>16, <2>1
<1>22. Fits(b, U, s, "left", L)
  <2>1. U[L] \cap U[1] = {}  BY <1>14, <1>16, <1>21
  <2>2. \A n \in U[L] : Orders(b, U, n)
    <3> TAKE n \in U[L]
    <3>1. n \in S[1]  BY <1>11, <1>12, <1>21
    <3>2. U[b.left[n]] \subseteq S[t.left[n]] /\ U[b.right[n]] \subseteq S[t.right[n]]  BY <1>16, <3>1
    <3>3. /\ S[t.left[n]] \cap S[t.right[n]] = {}
          /\ (\A x \in S[t.left[n]] : t.val[x] < t.val[n]) /\ (\A x \in S[t.right[n]] : t.val[x] >= t.val[n])
      BY <1>6, <3>1
    <3> QED BY <1>17, <3>2, <3>3 DEF Orders
  <2>3. ASSUME NEW n \in U[1], s \in U[n]
        PROVE  /\ s \in U[b.left[n]] \/ n = s => \A x \in S[L] : t.val[x] < t.val[n]
               /\ s \in U[b.right[n]] => \A x \in S[L] : t.val[x] >= t.val[n]
    <3>1. n \in S[1] /\ n # d /\ n \notin S[L] /\ n \in 1 .. N  BY <1>2, <1>5, <1>14, <1>16
    <3>2. s \in S[n]
      <4>1. U[n] = S[n] \/ U[n] = S[n] \ K  BY <1>16, <3>1
      <4>2. s \in U[n]  BY <2>3
      <4> QED BY <4>1, <4>2
    <3>3. U[b.left[n]] \subseteq S[t.left[n]] /\ U[b.right[n]] \subseteq S[t.right[n]]  BY <1>16, <3>1
    <3>4. n \in S[d] \/ d \in S[n]
      <4>1. 1 \in 0 .. Len(t.val)  BY <1>2 DEF N
      <4> QED BY <1>1, <1>12, <1>19, <3>1, <3>2, <4>1, Comparable
    <3>5. CASE n \in S[d]
      <4>1. n \in S[R]  BY <1>11, <3>1, <3>5
      <4>2. \A x \in S[L] : t.val[x] < t.val[n]
        <5> TAKE x \in S[L]
        <5>1. t.val[x] < t.val[d] /\ t.val[n] >= t.val[d]  BY <1>13, <4>1
        <5>2. x \in 1 .. N  BY <1>2, <1>5, <1>10
        <5>3. t.val[x] \in Int /\ t.val[n] \in Int /\ t.val[d] \in Int  BY <1>2, <1>9, <3>1, <5>2
        <5> QED BY <5>1, <5>3
      <4>3. s \notin S[t.right[n]]
        <5>1. n = s \/ s \in S[t.left[n]]  BY <1>18, <3>2, <4>1
        <5>2. n \notin S[t.right[n]] /\ S[t.left[n]] \cap S[t.right[n]] = {}  BY <1>4, <1>6, <3>1
        <5> QED BY <5>1, <5>2
      <4> QED BY <3>3, <4>2, <4>3
    <3>6. CASE n \notin S[d]
      <4>1. d \in S[t.left[n]] \/ d \in S[t.right[n]]  BY <1>3, <3>1, <3>4, <3>6
      <4>2. n # s  BY <1>19, <3>6
      <4>3. S[t.left[n]] \cap S[t.right[n]] = {} /\ t.left[n] \in 0 .. N /\ t.right[n] \in 0 .. N  BY <1>2, <1>6, <3>1
      <4>4. CASE d \in S[t.left[n]]
        <5>1. S[d] \subseteq S[t.left[n]]  BY <1>5, <4>3, <4>4
        <5>2. s \notin S[t.right[n]]  BY <1>19, <4>3, <5>1
        <5>3. \A x \in S[L] : t.val[x] < t.val[n]  BY <1>6, <1>11, <3>1, <5>1
        <5> QED BY <3>3, <5>2, <5>3
      <4>5. CASE d \in S[t.right[n]]
        <5>1. S[d] \subseteq S[t.right[n]]  BY <1>5, <4>3, <4>5
        <5>2. s \notin S[t.left[n]]  BY <1>19, <4>3, <5>1
        <5>3. \A x \in S[L] : t.val[x] >= t.val[n]  BY <1>6, <1>11, <3>1, <5>1
        <5> QED BY <3>3, <4>2, <5>2, <5>3
      <4> QED BY <4>1, <4>4, <4>5
    <3> QED BY <3>5, <3>6
  <2> QED BY <1>17, <1>21, <2>1, <2>2, <2>3 DEF Fits
<1>23. L \in 1 .. Len(b.val) /\ Relinked(b, u, s, "left", L)  BY <1>10, <1>17 DEF N, L
<1>24. PICK V : Searches(u, V) /\ V[1] = U[1] \cup U[L]  BY <1>15, <1>20, <1>22, <1>23, Grafted
<1>25. V[1] = Besides(S[1], d)
  <2>1. S[L] \subseteq S[1] /\ d \notin S[L]  BY <1>11, <1>12
  <2> QED BY <1>14, <1>16, <1>21, <1>24, <2>1 DEF Besides
<1> QED BY <1>24, <1>25

(* A node is taken out of the tree from below its parent p. *)
LEMMA ChildTakenOut ==
    ASSUME NEW t, NEW S, Searches(t, S), NEW p \in S[1], NEW side, NEW d, d = ChildAt(t, p, side), d # 0,
           NEW u, u = Hung(BT!TakenOut(t, d), p, side).tree
    PROVE  \E V : Searches(u, V) /\ V[1] = Besides(S[1], d)
<1> DEFINE N == Len(t.val)
<1>1. Grows(t) /\ Below(t, S) /\ \A n \in S[1] : Orders(t, S, n)  BY DEF Searches
<1>2. N \in Nat /\ 1 \in 0 .. N  BY <1>1, TreeIs
<1>3. p \in 1 .. N /\ S[p] \subseteq S[1]  BY <1>1, <1>2, BelowIs
<1>4. S[p] = {p} \cup S[d] \cup S[OtherAt(t, p, side)] /\ d \in 0 .. N /\ p \notin S[d]
  BY <1>1, <1>3, SlotsAre
<1>5. d \in 1 .. N
  <2>1. d # 0  OBVIOUS
  <2> QED BY <1>2, <1>4, <2>1
<1>6. S[0] = {} /\ S[d] = {d} \cup S[t.left[d]] \cup S[t.right[d]]  BY <1>1, <1>5 DEF Below
<1>7. t.left[d] \in 0 .. N /\ t.right[d] \in 0 .. N  BY <1>1, <1>5, TreeIs
<1>8. t \in Shapes(t)  BY <1>1, ShapesAre
<1>9. ASSUME NEW turn, OtherAt(t, d, turn) = 0, BT!TakenOut(t, d) = [tree |-> t, node |-> ChildAt(t, d, turn)]
      PROVE  \E V : Searches(u, V) /\ V[1] = Besides(S[1], d)
  <2> DEFINE a == [tree |-> t, node |-> ChildAt(t, d, turn)]
  <2>1. ChildAt(t, d, turn) \in 0 .. N  BY <1>7 DEF ChildAt
  <2>2. a \in Results(t) /\ a.tree = t /\ a.node = ChildAt(t, d, turn)  BY <1>8, <2>1 DEF Results
  <2>3. u = Hung(a, p, side).tree  BY <1>9
  <2> HIDE DEF a
  <2>4. Relinked(t, u, p, side, ChildAt(t, d, turn))  BY <1>1, <1>3, <2>2, <2>3, HungIs
  <2>5. PICK V : Searches(u, V) /\ Pruned(t, S, u, V, p, Gone(t, S, d, turn))  BY <2>4, Spliced
  <2>6. Gone(t, S, d, turn) = {d}  BY <1>6, <1>9 DEF Gone
  <2>7. V[1] = Besides(S[1], d)  BY <2>5, <2>6 DEF Pruned, Besides
  <2> QED BY <2>5, <2>7
<1>10. CASE t.left[d] = 0
  <2>1. OtherAt(t, d, "right") = 0 /\ BT!TakenOut(t, d) = [tree |-> t, node |-> ChildAt(t, d, "right")]
    BY <1>10 DEF OtherAt, ChildAt, BT!TakenOut, BT!Nil
  <2> QED BY <1>9, <2>1
<1>11. CASE t.left[d] # 0 /\ t.right[d] = 0
  <2>1. OtherAt(t, d, "left") = 0 /\ BT!TakenOut(t, d) = [tree |-> t, node |-> ChildAt(t, d, "left")]
    BY <1>11 DEF OtherAt, ChildAt, BT!TakenOut, BT!Nil
  <2> QED BY <1>9, <2>1
<1>12. CASE t.left[d] # 0 /\ t.right[d] # 0
  <2> DEFINE s == BT!inOrderSuccessor(t, t.right[d])
             a == BT!TakenOut(t, d)
             c == [tree |-> t, node |-> t.right[d]]
             b == Hung(c, p, side).tree
  <2>1. a = [tree |-> [t EXCEPT !.left[s] = t.left[d]], node |-> t.right[d]]
    BY <1>12 DEF BT!TakenOut, BT!Nil
  <2>2. t.right[d] \in 1 .. N /\ t.left[d] \in 0 .. N
    <3> HIDE DEF N
    <3> QED BY <1>2, <1>7, <1>12
  <2>3. s \in 1 .. N  BY <1>1, <2>2, SuccessorIs
  <2>4. s # p
    <3>1. PICK P : LeadsDown(t, t.left, P) /\ s = P[t.right[d]]  BY <1>1, <2>2, SuccessorIs
    <3>2. S[t.right[d]] \subseteq S[d] /\ S[d] \subseteq S[1]  BY <1>3, <1>4, <1>6
    <3>3. \A n \in S[t.right[d]] : Orders(t, S, n)  BY <1>1, <3>2
    <3> HIDE DEF s
    <3>4. s \in S[t.right[d]]  BY <1>1, <2>2, <3>1, <3>3, ChainEnds
    <3> QED BY <1>4, <3>2, <3>4
  <2>5. a \in Results(t) /\ c \in Results(t) /\ c.tree = t /\ c.node = t.right[d]
    <3>1. a \in Results(t)  BY <1>1, <1>5, ResultsAre
    <3> QED BY <1>7, <1>8, <3>1 DEF Results
  <2>6. a.node = t.right[d] /\ a.tree = [t EXCEPT !.left[s] = t.left[d]]  BY <2>1
  <2> HIDE DEF a, c
  <2>7. Relinked(t, b, p, side, t.right[d])  BY <1>1, <1>3, <2>5, HungIs
  <2>8. Relinked(a.tree, u, p, side, t.right[d]) /\ BT!Allocated(a.tree) /\ a.tree.val = t.val
    BY <1>1, <1>3, <2>5, <2>6, HungIs DEF a
  <2>9. Relinked(t, a.tree, s, "left", t.left[d])
    <3> HIDE DEF s
    <3>1. Relinked(t, [t EXCEPT !.left[s] = t.left[d]], s, "left", t.left[d])  BY <1>1, <2>2, <2>3, RelinkedBy
    <3> QED BY <2>6, <3>1
  <2> HIDE DEF b, s
  <2>10. Relinked(b, u, s, "left", t.left[d])
    <3>1. /\ b.val = t.val /\ u.val = t.val /\ BT!Allocated(u)  BY <2>7, <2>8 DEF Relinked
    <3>2. \A m \in 1 .. N : /\ u.left[m] = IF m = s THEN t.left[d] ELSE b.left[m]
                            /\ u.right[m] = b.right[m]
      <4> TAKE m \in 1 .. N
      <4> DEFINE z == a.tree
      <4>1. z.left[m] = (IF m = s THEN t.left[d] ELSE t.left[m]) /\ z.right[m] = t.right[m]  BY <2>9 DEF Relinked
      <4>2. /\ u.left[m] = (IF side = "left" /\ m = p THEN t.right[d] ELSE z.left[m])
            /\ u.right[m] = (IF side # "left" /\ m = p THEN t.right[d] ELSE z.right[m])
        BY <2>8 DEF Relinked
      <4>3. /\ b.left[m] = (IF side = "left" /\ m = p THEN t.right[d] ELSE t.left[m])
            /\ b.right[m] = (IF side # "left" /\ m = p THEN t.right[d] ELSE t.right[m])
        BY <2>7 DEF Relinked
      <4> HIDE DEF z
      <4> QED BY <2>4, <4>1, <4>2, <4>3
    <3> QED BY <2>2, <2>3, <3>1, <3>2 DEF Relinked
  <2>11. s = BT!inOrderSuccessor(t, t.right[d]) /\ t.left[d] # 0 /\ t.right[d] # 0  BY <1>12 DEF s
  <2>12. Moves(t, p, side, d, s, b, u)  BY <2>7, <2>10, <2>11 DEF Moves
  <2> QED BY <2>12, TwoChildren
<1> QED BY <1>10, <1>11, <1>12

(* The node n is not in the subtree under d: taking d out leaves its       *)
(* pointers.                                                               *)
LEMMA TakenOutKeeps ==
    ASSUME NEW t, Grows(t), NEW S, Below(t, S), NEW d \in 1 .. Len(t.val), \A n \in S[d] : Orders(t, S, n),
           NEW m \in 1 .. Len(t.val), m \notin S[d]
    PROVE  BT!TakenOut(t, d).tree.left[m] = t.left[m] /\ BT!TakenOut(t, d).tree.right[m] = t.right[m]
<1> DEFINE N == Len(t.val)
           s == BT!inOrderSuccessor(t, t.right[d])
<1>1. CASE t.left[d] = 0  BY <1>1 DEF BT!TakenOut, BT!Nil
<1>2. CASE t.left[d] # 0 /\ t.right[d] = 0  BY <1>2 DEF BT!TakenOut, BT!Nil
<1>3. CASE t.left[d] # 0 /\ t.right[d] # 0
  <2>1. BT!TakenOut(t, d) = [tree |-> [t EXCEPT !.left[s] = t.left[d]], node |-> t.right[d]]
    BY <1>3 DEF BT!TakenOut, BT!Nil
  <2>2. N \in Nat /\ t.right[d] \in 0 .. N  BY TreeIs
  <2>3. t.right[d] \in 1 .. N
    <3> HIDE DEF N
    <3> QED BY <1>3, <2>2
  <2>4. S[t.right[d]] \subseteq S[d]  BY BelowIs
  <2>5. PICK P : LeadsDown(t, t.left, P) /\ s = P[t.right[d]]  BY <2>3, SuccessorIs
  <2> HIDE DEF s
  <2>6. s \in S[t.right[d]]  BY <2>3, <2>4, <2>5, ChainEnds
  <2>7. s # m  BY <2>4, <2>6
  <2> DEFINE z == [t EXCEPT !.left[s] = t.left[d]]
  <2>8. z.left[m] = t.left[m] /\ z.right[m] = t.right[m]
    <3>1. /\ t \in [type : {"BSTree"}, val : {t.val}, left : [1 .. N -> 0 .. N], right : [1 .. N -> 0 .. N]]
          /\ m \in 1 .. N
      BY ShapesAre DEF Shapes
    <3> HIDE DEF N
    <3> QED BY <2>7, <3>1
  <2>9. BT!TakenOut(t, d).tree = z  BY <2>1
  <2> HIDE DEF z
  <2> QED BY <2>8, <2>9
<1> QED BY <1>1, <1>2, <1>3

LEMMA ShapesSame ==
    ASSUME NEW t, NEW a \in Shapes(t), NEW b \in Shapes(t), a.left = b.left, a.right = b.right
    PROVE  a = b
<1> DEFINE C == [1 .. Len(t.val) -> 0 .. Len(t.val)]
<1>1. /\ a \in [type : {"BSTree"}, val : {t.val}, left : C, right : C]
      /\ b \in [type : {"BSTree"}, val : {t.val}, left : C, right : C]
  BY DEF Shapes
<1> HIDE DEF C
<1> QED BY <1>1

(* A child that is hung where it is. *)
LEMMA HungAgain ==
    ASSUME NEW t, Grows(t), NEW m \in 1 .. Len(t.val), NEW side \in {"left", "right"}, NEW a \in Results(t),
           ChildAt(a.tree, m, side) = a.node
    PROVE  Hung(a, m, side).tree = a.tree
<1> DEFINE N == Len(t.val)
           b == a.tree
           u == Hung(a, m, side).tree
<1>1. b \in [type : {"BSTree"}, val : {t.val}, left : [1 .. N -> 0 .. N], right : [1 .. N -> 0 .. N]] /\ m \in 1 .. N
  BY DEF Results, Shapes
<1>2. b \in Shapes(t) /\ u \in Shapes(t)
  <2>1. Hung(a, m, side) \in Results(t)  BY ResultsAre
  <2> QED BY <2>1 DEF Results
<1>3. u.left = b.left /\ u.right = b.right
  <2>1. CASE side = "left"
    <3>1. b.left[m] = a.node /\ u = [b EXCEPT !.left[m] = a.node]  BY <2>1 DEF ChildAt, Hung
    <3> HIDE DEF b, N, u
    <3>2. u.left = [b.left EXCEPT ![m] = b.left[m]] /\ u.right = b.right  BY <1>1, <3>1
    <3>3. [b.left EXCEPT ![m] = b.left[m]] = b.left  BY <1>1
    <3> QED BY <3>2, <3>3
  <2>2. CASE side = "right"
    <3>1. b.right[m] = a.node /\ u = [b EXCEPT !.right[m] = a.node]  BY <2>2 DEF ChildAt, Hung
    <3> HIDE DEF b, N, u
    <3>2. u.right = [b.right EXCEPT ![m] = b.right[m]] /\ u.left = b.left  BY <1>1, <3>1
    <3>3. [b.right EXCEPT ![m] = b.right[m]] = b.right  BY <1>1
    <3> QED BY <3>2, <3>3
  <2> QED BY <2>1, <2>2
<1> HIDE DEF b, u
<1>4. u = b  BY <1>2, <1>3, ShapesSame
<1> QED BY <1>4 DEF b, u

(* The child of p on that side has the value, and is taken out. *)
DropsAt(t, p, side, v, u) ==
  LET d == ChildAt(t, p, side) IN d # 0 /\ t.val[d] = v /\ u = Hung(BT!TakenOut(t, d), p, side).tree

(* What deleting v from the subtree under m returns. *)
Drops(t, S, m, v, a) ==
  \/ a.tree = t /\ a.node = m /\ \A n \in S[m] : t.val[n] # v
  \/ m # 0 /\ t.val[m] = v /\ a = BT!TakenOut(t, m)
  \/ m # 0 /\ t.val[m] # v /\ a.node = m /\ \E p \in S[m], side \in {"left", "right"} : DropsAt(t, p, side, v, a.tree)

LEMMA DropsBelow ==
    ASSUME NEW t, Grows(t), NEW S, Below(t, S), NEW m \in 1 .. Len(t.val), \A n \in S[m] : Orders(t, S, n),
           NEW side \in {"left", "right"}, NEW v, t.val[m] # v, \A n \in S[OtherAt(t, m, side)] : t.val[n] # v,
           NEW a \in Results(t), Drops(t, S, ChildAt(t, m, side), v, a)
    PROVE  Drops(t, S, m, v, Hung(a, m, side))
<1> DEFINE c == ChildAt(t, m, side)
           u == Hung(a, m, side).tree
<1>1. Hung(a, m, side).node = m  BY DEF Hung
<1>2. Len(t.val) \in Nat /\ m # 0  BY TreeIs
<1>3. /\ S[m] = {m} \cup S[c] \cup S[OtherAt(t, m, side)] /\ c \in 0 .. Len(t.val) /\ m \notin S[c]
      /\ S[c] \subseteq 1 .. Len(t.val)
  BY SlotsAre, BelowIs
<1>4. CASE a.tree = t /\ a.node = c /\ \A n \in S[c] : t.val[n] # v
  <2>1. u = t  BY <1>4, HungAgain
  <2>2. \A n \in S[m] : t.val[n] # v  BY <1>3, <1>4
  <2> QED BY <1>1, <2>1, <2>2 DEF Drops
<1>5. CASE c # 0 /\ t.val[c] = v /\ a = BT!TakenOut(t, c)
  <2>1. DropsAt(t, m, side, v, u)  BY <1>5 DEF DropsAt
  <2> QED BY <1>1, <1>2, <1>3, <2>1 DEF Drops
<1>6. CASE c # 0 /\ a.node = c /\ \E p \in S[c], turn \in {"left", "right"} : DropsAt(t, p, turn, v, a.tree)
  <2>1. PICK p \in S[c], turn \in {"left", "right"} : DropsAt(t, p, turn, v, a.tree)  BY <1>6
  <2> DEFINE d == ChildAt(t, p, turn)
             b == BT!TakenOut(t, d)
  <2>2. p \in 1 .. Len(t.val) /\ p # m  BY <1>3
  <2>3. S[p] \subseteq S[c]  BY <1>3, BelowIs
  <2>4. S[p] = {p} \cup S[d] \cup S[OtherAt(t, p, turn)] /\ d \in 0 .. Len(t.val)  BY <2>2, SlotsAre
  <2>5. d # 0 /\ a.tree = Hung(b, p, turn).tree  BY <2>1 DEF DropsAt
  <2>6. d \in 1 .. Len(t.val)
    <3> DEFINE N == Len(t.val)
    <3> HIDE DEF N, d
    <3> QED BY <1>2, <2>4, <2>5 DEF N
  <2>7. S[d] \subseteq S[m] /\ m \notin S[d]  BY <1>3, <2>3, <2>4
  <2>8. b.tree.left[m] = t.left[m] /\ b.tree.right[m] = t.right[m]
    <3>1. \A n \in S[d] : Orders(t, S, n)  BY <2>7
    <3> HIDE DEF d
    <3> QED BY <2>6, <2>7, <3>1, TakenOutKeeps
  <2>9. Relinked(b.tree, a.tree, p, turn, b.node) /\ b.tree.val = t.val
    <3>1. b \in Results(t)  BY <2>6, ResultsAre
    <3> HIDE DEF b
    <3> QED BY <2>2, <2>5, <3>1, HungIs
  <2>10. a.tree.left[m] = t.left[m] /\ a.tree.right[m] = t.right[m]  BY <2>2, <2>8, <2>9 DEF Relinked
  <2>11. ChildAt(a.tree, m, side) = a.node  BY <1>6, <2>10 DEF ChildAt
  <2>12. u = a.tree  BY <2>11, HungAgain
  <2>13. p \in S[m]  BY <1>3
  <2> QED BY <1>1, <1>2, <2>1, <2>12, <2>13 DEF Drops
<1> QED BY <1>4, <1>5, <1>6 DEF Drops

(* DeleteTreeNode takes out the topmost node with the value, from below its *)
(* parent unless it is the root.                                           *)
LEMMA DeletionDrops ==
    ASSUME NEW t, NEW S, Searches(t, S), NEW v \in Priorities, NEW D, Removes(t, v, D)
    PROVE  Drops(t, S, 1, v, D[1])
<1> DEFINE N == Len(t.val)
           l == t.left
           r == t.right
           T == {m \in 0 .. N : (\A n \in S[m] : Orders(t, S, n)) => Drops(t, S, m, v, D[m])}
<1>1. Grows(t) /\ Below(t, S) /\ \A n \in S[1] : Orders(t, S, n)  BY DEF Searches
<1>2. PICK rank : Falls(N, l, r, rank)  BY <1>1 DEF Grows
<1>3. N \in Nat /\ 0 \in 0 .. N /\ 1 \in 0 .. N  BY <1>1, TreeIs
<1>4. 0 \in T
  <2>1. S[0] = {} /\ D[0] = [tree |-> t, node |-> 0]  BY <1>1 DEF Below, Removes
  <2>2. Drops(t, S, 0, v, D[0])  BY <2>1 DEF Drops
  <2> QED BY <1>3, <2>2
<1>5. ASSUME NEW m \in 1 .. N, l[m] \in T, r[m] \in T  PROVE m \in T
  <2>1. m \in 0 .. N  BY <1>3
  <2> SUFFICES ASSUME \A n \in S[m] : Orders(t, S, n)  PROVE Drops(t, S, m, v, D[m])
    BY <2>1
  <2>2. S[l[m]] \subseteq S[m] /\ S[r[m]] \subseteq S[m] /\ m \in S[m]  BY <1>1, BelowIs
  <2>3. Drops(t, S, l[m], v, D[l[m]]) /\ Drops(t, S, r[m], v, D[r[m]])  BY <1>5, <2>2
  <2>4. /\ D[l[m]] \in Results(t) /\ D[r[m]] \in Results(t)
        /\ v < t.val[m] => D[m] = Hung(D[l[m]], m, "left")
        /\ v > t.val[m] => D[m] = Hung(D[r[m]], m, "right")
        /\ v = t.val[m] => D[m] = BT!TakenOut(t, m)
    BY <1>5 DEF Removes
  <2>5. /\ v \in Int /\ \A n \in 1 .. N : t.val[n] \in Int
        /\ S[l[m]] \subseteq 1 .. N /\ S[r[m]] \subseteq 1 .. N
    <3>1. v \in Int  BY HeapsAssumption DEF HeapsAssumption
    <3>2. l[m] \in 0 .. N /\ r[m] \in 0 .. N  BY <1>5
    <3> QED BY <1>1, <3>1, <3>2, TreeIs, BelowIs
  <2>6. (\A x \in S[l[m]] : t.val[x] < t.val[m]) /\ (\A x \in S[r[m]] : t.val[x] >= t.val[m])
    BY <2>2 DEF Orders
  <2>7. CASE v < t.val[m]
    <3>1. t.val[m] # v /\ \A n \in S[r[m]] : t.val[n] # v
      <4> HIDE DEF N, l, r
      <4> QED BY <2>5, <2>6, <2>7
    <3>2. ChildAt(t, m, "left") = l[m] /\ OtherAt(t, m, "left") = r[m]  BY DEF ChildAt, OtherAt
    <3>3. Drops(t, S, m, v, Hung(D[l[m]], m, "left"))
      <4> DEFINE a == D[l[m]]
      <4>1. a \in Results(t) /\ Drops(t, S, ChildAt(t, m, "left"), v, a)  BY <2>3, <2>4, <3>2
      <4>2. \A n \in S[OtherAt(t, m, "left")] : t.val[n] # v  BY <3>1, <3>2
      <4> HIDE DEF a
      <4>3. Drops(t, S, m, v, Hung(a, m, "left"))  BY <1>1, <3>1, <4>1, <4>2, DropsBelow
      <4> QED BY <4>3 DEF a
    <3> QED BY <2>4, <2>7, <3>3
  <2>8. CASE v > t.val[m]
    <3>1. t.val[m] # v /\ \A n \in S[l[m]] : t.val[n] # v
      <4> HIDE DEF N, l, r
      <4> QED BY <2>5, <2>6, <2>8
    <3>2. ChildAt(t, m, "right") = r[m] /\ OtherAt(t, m, "right") = l[m]  BY DEF ChildAt, OtherAt
    <3>3. Drops(t, S, m, v, Hung(D[r[m]], m, "right"))
      <4> DEFINE a == D[r[m]]
      <4>1. a \in Results(t) /\ Drops(t, S, ChildAt(t, m, "right"), v, a)  BY <2>3, <2>4, <3>2
      <4>2. \A n \in S[OtherAt(t, m, "right")] : t.val[n] # v  BY <3>1, <3>2
      <4> HIDE DEF a
      <4>3. Drops(t, S, m, v, Hung(a, m, "right"))  BY <1>1, <3>1, <4>1, <4>2, DropsBelow
      <4> QED BY <4>3 DEF a
    <3> QED BY <2>4, <2>8, <3>3
  <2>9. CASE v = t.val[m]
    <3>1. m # 0
      <4> HIDE DEF N
      <4> QED BY <1>3
    <3> QED BY <2>4, <2>9, <3>1 DEF Drops
  <2>10. v < t.val[m] \/ v > t.val[m] \/ v = t.val[m]
    <3> HIDE DEF N
    <3> QED BY <2>5
  <2> QED BY <2>7, <2>8, <2>9, <2>10
<1>6. \A m \in 0 .. N : m \in T
  <2> HIDE DEF T, N, l, r
  <2> QED BY <1>2, <1>4, <1>5, TreeInduction
<1> QED BY <1>1, <1>3, <1>6

LEMMA NoneCounted ==
    ASSUME NEW R, NEW val, NEW v \in Priorities, \A n \in R : val[n] # v
    PROVE  HeldBy(val, R)[v] = 0
<1> DEFINE U == {n \in R : val[n] = v}
<1>1. U = {}  OBVIOUS
<1>2. HeldBy(val, R)[v] = Cardinality(U)  BY DEF HeldBy
<1> HIDE DEF U
<1>3. Cardinality(U) = 0  BY <1>1, FS_EmptySet
<1> QED BY <1>2, <1>3

(* What Delete of v makes of a search tree t of the values w.              *)
Deleted(t, w, v, u) ==
  LET counted == w[v] > 0 /\ v # t.val[1]
      two     == v = t.val[1] /\ t.left[1] # 0 /\ t.right[1] # 0
  IN  /\ u.type = "BSTree"
      /\ counted => SearchesFor(u, OneLess(w, v)) /\ ~two
      /\ ~counted /\ ~two => SearchesFor(u, w)

LEMMA DropSearches ==
    ASSUME NEW t, NEW S, Searches(t, S), NEW v \in Priorities, NEW p \in S[1], NEW side \in {"left", "right"},
           NEW u \in Shapes(t), DropsAt(t, p, side, v, u)
    PROVE  HeldBy(t.val, S[1])[v] > 0 /\ SearchesFor(u, OneLess(HeldBy(t.val, S[1]), v))
<1> DEFINE d == ChildAt(t, p, side)
           N == Len(t.val)
<1>1. d # 0 /\ t.val[d] = v /\ u = Hung(BT!TakenOut(t, d), p, side).tree  BY DEF DropsAt
<1>2. Grows(t) /\ Below(t, S)  BY DEF Searches
<1>3. N \in Nat /\ 1 \in 0 .. N  BY <1>2, TreeIs
<1>4. S[1] \subseteq 1 .. N /\ p \in 1 .. N /\ S[p] \subseteq S[1]  BY <1>2, <1>3, BelowIs
<1>5. S[p] = {p} \cup S[d] \cup S[OtherAt(t, p, side)] /\ d \in 0 .. N  BY <1>2, <1>4, SlotsAre
<1>6. d \in 1 .. N
  <2> HIDE DEF N, d
  <2> QED BY <1>1, <1>3, <1>5
<1>7. d \in S[1]
  <2>1. d \in S[d]  BY <1>2, <1>6, BelowIs
  <2> QED BY <1>4, <1>5, <2>1
<1>8. PICK V : Searches(u, V) /\ V[1] = Besides(S[1], d)
  <2> HIDE DEF d
  <2>1. d = ChildAt(t, p, side)  BY DEF d
  <2> QED BY <1>1, <2>1, ChildTakenOut
<1>9. u.val = t.val  BY DEF Shapes
<1>10. Numbers(S[1])  BY <1>3, <1>4 DEF Numbers
<1> HIDE DEF d, N
<1>11. /\ HeldBy(t.val, S[1])[v] > 0
       /\ HeldBy(t.val, Besides(S[1], d)) = OneLess(HeldBy(t.val, S[1]), v)
  BY <1>1, <1>7, <1>10, HeldDiffers
<1>12. SearchesFor(u, HeldBy(u.val, V[1]))  BY <1>8 DEF SearchesFor
<1> QED BY <1>8, <1>9, <1>11, <1>12

LEMMA DeleteSearches ==
    ASSUME NEW t, NEW w, SearchesFor(t, w), NEW v \in Priorities, NEW u, u = BT!deleteTreeNode(t, 1, v).tree
    PROVE  Deleted(t, w, v, u)
<1>1. PICK S : Searches(t, S) /\ w = HeldBy(t.val, S[1])  BY DEF SearchesFor
<1>2. Grows(t) /\ Below(t, S)  BY <1>1 DEF Searches
<1>3. PICK D : Removes(t, v, D) /\ \A n : BT!deleteTreeNode(t, n, v) = D[n]  BY <1>2, DeleteUnrolls
<1>4. 1 \in 0 .. Len(t.val) /\ 1 \in 1 .. Len(t.val)  BY <1>2, TreeIs
<1>5. D[1] \in Results(t) /\ u = D[1].tree  BY <1>3, <1>4 DEF Removes
<1>6. u \in Shapes(t) /\ u.type = "BSTree"  BY <1>5 DEF Results, Shapes
<1>7. 1 \in S[1]  BY <1>2, <1>4, BelowIs
<1>8. Drops(t, S, 1, v, D[1])  BY <1>1, <1>3, DeletionDrops
<1>9. CASE u = t /\ \A n \in S[1] : t.val[n] # v
  <2> DEFINE R == S[1]
             val == t.val
  <2>0. \A n \in R : val[n] # v  BY <1>9
  <2> HIDE DEF R, val
  <2>1. w[v] = 0
    <3>1. HeldBy(val, R)[v] = 0  BY <2>0, NoneCounted
    <3> QED BY <1>1, <3>1 DEF R, val
  <2>2. ~(w[v] > 0)  BY <2>1
  <2> QED BY <1>6, <1>9, <2>2 DEF Deleted
<1>10. CASE t.val[1] = v /\ D[1] = BT!TakenOut(t, 1)
  <2>1. CASE t.left[1] = 0 \/ t.right[1] = 0
    <3>1. u = t  BY <1>5, <1>10, <2>1 DEF BT!TakenOut, BT!Nil
    <3> QED BY <1>6, <1>10, <3>1 DEF Deleted
  <2>2. CASE t.left[1] # 0 /\ t.right[1] # 0
    BY <1>6, <1>10, <2>2 DEF Deleted
  <2> QED BY <2>1, <2>2
<1>11. CASE t.val[1] # v /\ \E p \in S[1], side \in {"left", "right"} : DropsAt(t, p, side, v, u)
  <2>1. w[v] > 0 /\ SearchesFor(u, OneLess(w, v))  BY <1>1, <1>6, <1>11, DropSearches
  <2> QED BY <1>6, <1>11, <2>1 DEF Deleted
<1> QED BY <1>5, <1>8, <1>9, <1>10, <1>11 DEF Drops

-----------------------------------------------------------------------------
(* The binary search tree: its invariant, in a state and in the next *)

LEMMA TreeInv ==
    BT!Inv <=> /\ obj.type = "BSTree" /\ trusted \in BOOLEAN /\ want \in [Priorities -> Nat]
               /\ trusted => SearchesFor(obj, want)
  BY SearchesForIs DEF BT!Inv, BT!Reached

LEMMA TreeInvNext ==
    BT!Inv' <=> /\ obj'.type = "BSTree" /\ trusted' \in BOOLEAN /\ want' \in [Priorities -> Nat]
                /\ trusted' => SearchesFor(obj', want')
  BY SearchesForIs DEF BT!Inv, BT!Reached

LEMMA HeldTyped == ASSUME NEW t, NEW w, SearchesFor(t, w)  PROVE w \in [Priorities -> Nat]
<1>1. PICK S : Searches(t, S) /\ w = HeldBy(t.val, S[1])  BY DEF SearchesFor
<1>2. Grows(t) /\ Below(t, S)  BY <1>1 DEF Searches
<1>3. 1 \in 0 .. Len(t.val) /\ Len(t.val) \in Nat  BY <1>2, TreeIs
<1>4. S[1] \subseteq 1 .. Len(t.val)  BY <1>2, <1>3, BelowIs
<1> QED BY <1>1, <1>3, <1>4, HeldIs

LEMMA TreeStarts == BT!Init => BT!Inv
<1> SUFFICES ASSUME BT!Init  PROVE BT!Inv  OBVIOUS
<1>1. PICK v \in Priorities : /\ obj = [type |-> "BSTree", val |-> <<v>>, left |-> <<0>>, right |-> <<0>>]
                              /\ want = BT!Bag(<<v>>)
  BY DEF BT!Init, BT!Nil
<1>2. SearchesFor(obj, want)  BY <1>1, OneSearches DEF Single
<1>3. want \in [Priorities -> Nat]  BY <1>2, HeldTyped
<1>4. trusted \in BOOLEAN /\ obj.type = "BSTree"  BY <1>1 DEF BT!Init
<1> QED BY <1>2, <1>3, <1>4, TreeInv

LEMMA TreeSteps == BT!Inv /\ [BT!Next]_(BT!vars) => BT!Inv'
<1> SUFFICES ASSUME BT!Inv, [BT!Next]_(BT!vars)  PROVE BT!Inv'  OBVIOUS
<1>1. /\ obj.type = "BSTree" /\ trusted \in BOOLEAN /\ want \in [Priorities -> Nat]
      /\ trusted => SearchesFor(obj, want)
  BY TreeInv
<1>2. ASSUME NEW v \in Priorities, BT!Insert(v)  PROVE BT!Inv'
  <2> DEFINE new == Len(obj.val) + 1
             s == Leafed(obj, v)
             u == BT!insertTreeNode(s, 1, new)
  <2>1. trusted /\ trusted' = trusted /\ obj' = u /\ want' = OneMore(want, v)
    BY <1>2 DEF BT!Insert, BT!Live, BT!Root, BT!Nil, Leafed, OneMore
  <2> HIDE DEF u
  <2>2. SearchesFor(u, OneMore(want, v)) /\ u.type = "BSTree"  BY <1>1, <2>1, InsertSearches DEF u
  <2>3. want' \in [Priorities -> Nat]  BY <2>1, <2>2, HeldTyped
  <2>4. obj'.type = "BSTree" /\ trusted' \in BOOLEAN /\ SearchesFor(obj', want')  BY <1>1, <2>1, <2>2
  <2> QED BY <2>3, <2>4, TreeInvNext
<1>3. ASSUME NEW v \in Priorities, BT!Delete(v)  PROVE BT!Inv'
  <2> DEFINE u == BT!deleteTreeNode(obj, 1, v).tree
             counted == want[v] > 0 /\ v # obj.val[1]
             two == v = obj.val[1] /\ obj.left[1] # 0 /\ obj.right[1] # 0
  <2>1. /\ trusted /\ obj' = u /\ trusted' = ~two
        /\ counted => want' = OneLess(want, v)
        /\ ~counted => want' = want
    BY <1>3 DEF BT!Delete, BT!Live, BT!Root, BT!Nil, OneLess
  <2>2. Deleted(obj, want, v, u)
    <3> HIDE DEF u
    <3> QED BY <1>1, <2>1, DeleteSearches DEF u
  <2> HIDE DEF u
  <2>3. u.type = "BSTree" /\ (counted => SearchesFor(u, OneLess(want, v)) /\ ~two) /\ (~counted /\ ~two => SearchesFor(u, want))
    BY <2>2 DEF Deleted
  <2> HIDE DEF counted, two
  <2>4. trusted' => SearchesFor(obj', want')  BY <2>1, <2>3
  <2>5. want' \in [Priorities -> Nat]
    <3>1. CASE counted
      <4>1. SearchesFor(u, OneLess(want, v))  BY <2>3, <3>1
      <4>2. OneLess(want, v) \in [Priorities -> Nat]  BY <4>1, HeldTyped
      <4> QED BY <2>1, <3>1, <4>2
    <3>2. CASE ~counted
      BY <1>1, <2>1, <3>2
    <3> QED BY <3>1, <3>2
  <2>6. obj'.type = "BSTree" /\ trusted' \in BOOLEAN  BY <2>1, <2>3
  <2> QED BY <2>4, <2>5, <2>6, TreeInvNext
<1>4. CASE UNCHANGED BT!vars
  <2>1. obj' = obj /\ want' = want /\ trusted' = trusted  BY <1>4 DEF BT!vars
  <2> QED BY <1>1, <2>1, TreeInvNext
<1> QED BY <1>2, <1>3, <1>4 DEF BT!Next

(* Every Insert and Delete leaves nodes from which no path leads back,     *)
(* nothing under two children, values on their side of every node above,   *)
(* and want the bag of what the root reaches.                              *)
THEOREM TreeHeld == BT!Spec => []BT!Inv
<1>1. BT!Init => BT!Inv  BY TreeStarts
<1>2. BT!Inv /\ [BT!Next]_(BT!vars) => BT!Inv'  BY TreeSteps
<1> QED BY <1>1, <1>2, PTL DEF BT!Spec

(* Whatever the values inserted and deleted: until a root with both        *)
(* children is deleted, BSTree (bstree.go, tree_internal.go) is a search   *)
(* tree of exactly the values inserted and not deleted, every traversal    *)
(* visits every node once, the depth is the level of the root, and every   *)
(* subtree is found.                                                       *)
THEOREM TreeSearched == BT!Spec => []TreeIsSearchTree
<1>1. BT!Inv => TreeIsSearchTree
  <2> SUFFICES ASSUME BT!Inv  PROVE TreeIsSearchTree  OBVIOUS
  <2> QED BY TreeAnswers DEF TreeIsSearchTree
<1> QED BY <1>1, TreeHeld, PTL
=============================================================================
