---------------------------- MODULE QueuesProofs ----------------------------
(***************************************************************************)
(* The queues and the stacks keep what they accepted in its order, and the *)
(* priority queue and the heap give a largest value first, for any values, *)
(* priorities, capacities and bounds.                                      *)
(***************************************************************************)
EXTENDS Queues, Heaps, Loops, TLAPS, SequenceTheorems, FunctionTheorems, FiniteSetTheorems, WellFoundedInduction

-----------------------------------------------------------------------------
(* Numbers: induction over a set, and the remainders of a ring             *)

(* Every set of numbers that is not empty has a least one. *)
LEMMA Least ==
    ASSUME NEW T, T \subseteq Nat, T # {}
    PROVE  \E x \in T : \A y \in T : x <= y
<1>1. PICK x \in T : \A y \in T : ~ (<<y, x>> \in OpToRel(<,Nat))
  BY WFMin, NatLessThanWellFounded
<1>2. \A y \in T : ~(y < x)
  <2> TAKE y \in T
  <2>1. <<y, x>> \in Nat \X Nat OBVIOUS
  <2> SUFFICES ASSUME y < x PROVE FALSE OBVIOUS
  <2>2. <<y, x>> \in OpToRel(<,Nat) BY <2>1 DEF OpToRel
  <2> QED BY <1>1, <2>2
<1> QED BY <1>2

(* A set of numbers that has 0 and each number's successor has them all. *)
LEMMA Induction ==
    ASSUME NEW T, NEW K \in Nat, 0 \in T, \A m \in Nat : m \in T /\ m < K => m + 1 \in T
    PROVE  \A m \in 0 .. K : m \in T
<1> DEFINE Missing == {m \in Nat : m <= K /\ m \notin T}
<1>1. ASSUME Missing # {} PROVE FALSE
  <2>1. PICK x \in Missing : \A y \in Missing : x <= y  BY <1>1, Least
  <2>2. x \in Nat /\ x <= K /\ x \notin T /\ x # 0  OBVIOUS
  <2>3. x - 1 \in Nat /\ x - 1 < K  BY <2>2
  <2>4. x - 1 \notin Missing  BY <2>1, <2>3, <2>2
  <2>5. x - 1 \in T  BY <2>3, <2>4
  <2> QED BY <2>2, <2>3, <2>5
<1> QED BY <1>1


LEMMA Mods ==
    ASSUME NEW C \in Nat, NEW x \in 0 .. C - 1
    PROVE  x % C = x /\ (x + C) % C = x
<1>1. x % C = x  OBVIOUS
<1>2. (x + C) % C = x  OBVIOUS
<1> QED BY <1>1, <1>2

-----------------------------------------------------------------------------
(* Loops: the states a loop carries through its rounds                     *)

(* The states before and after each of n rounds that start from s. *)
Runs(A, s, n, step) == {F \in [0 .. n -> A] : F[0] = s /\ \A i \in 1 .. n : F[i] = step[i][F[i - 1]]}

(* A round for every state leads from the first state through all rounds.  *)
LEMMA Iterates ==
    ASSUME NEW A, NEW s \in A, NEW n \in Nat, NEW step \in [1 .. n -> [A -> A]]
    PROVE  \E F : F \in Runs(A, s, n, step)
<1> DEFINE T == {m \in Nat : \E F : F \in Runs(A, s, m, step)}
<1>1. 0 \in T
  <2> DEFINE F == [i \in 0 .. 0 |-> s]
  <2>1. F \in Runs(A, s, 0, step)  BY DEF Runs
  <2> QED BY <2>1
<1>2. ASSUME NEW m \in Nat, m \in T, m < n  PROVE m + 1 \in T
  <2>1. PICK F : F \in Runs(A, s, m, step)  BY <1>2
  <2> DEFINE G == [i \in 0 .. m + 1 |-> IF i = m + 1 THEN step[m + 1][F[m]] ELSE F[i]]
  <2>2. F \in [0 .. m -> A] /\ F[0] = s /\ \A i \in 1 .. m : F[i] = step[i][F[i - 1]]  BY <2>1 DEF Runs
  <2>3. step[m + 1] \in [A -> A] /\ F[m] \in A  BY <1>2, <2>2
  <2>4. G \in [0 .. m + 1 -> A]  BY <2>2, <2>3
  <2>5. G[0] = s  BY <2>2
  <2>6. ASSUME NEW i \in 1 .. m + 1  PROVE G[i] = step[i][G[i - 1]]
    <3>1. CASE i = m + 1
      <4>1. i - 1 = m /\ G[m] = F[m]  BY <3>1
      <4> QED BY <3>1, <4>1
    <3>2. CASE i \in 1 .. m
      <4>1. i - 1 \in 0 .. m /\ G[i] = F[i] /\ G[i - 1] = F[i - 1]  BY <3>2
      <4> QED BY <2>2, <3>2, <4>1
    <3> QED BY <3>1, <3>2
  <2>7. G \in Runs(A, s, m + 1, step)
    <3> HIDE DEF G
    <3> QED BY <2>4, <2>5, <2>6 DEF Runs
  <2> QED BY <2>7
<1>3. n \in T
  <2> HIDE DEF T
  <2>1. \A m \in Nat : m \in T /\ m < n => m + 1 \in T  BY <1>2
  <2>2. \A m \in 0 .. n : m \in T  BY <1>1, <2>1, Induction
  <2> QED BY <2>2
<1> QED BY <1>3

-----------------------------------------------------------------------------
(* Sequences and chains of nodes *)

LEMMA FunctionIsSeq ==
    ASSUME NEW S, NEW n \in Nat, NEW f \in [1 .. n -> S]
    PROVE  f \in Seq(S) /\ Len(f) = n
<1>1. f \in Seq(S)  BY SeqDef
<1>2. Len(f) \in Nat /\ DOMAIN f = 1 .. Len(f)  BY <1>1, LenProperties
<1>3. 1 .. Len(f) = 1 .. n  BY <1>2
<1>4. Len(f) = n
  <2> DEFINE m == Len(f)
  <2> HIDE DEF m
  <2>1. m \in Nat /\ 1 .. m = 1 .. n  BY <1>2, <1>3 DEF m
  <2>2. \A i \in Nat : (i >= 1 /\ i <= m) <=> (i >= 1 /\ i <= n)  BY <2>1
  <2>3. m = n  BY <2>1, <2>2
  <2> QED BY <2>3 DEF m
<1> QED BY <1>1, <1>4

LEMMA WalkUnrolls ==
    ASSUME NEW next \in Seq(Nat), \A n \in 1 .. Len(next) : next[n] <= Len(next)
    PROVE  \E Visit :
             /\ \A n \in 0 .. Len(next) : Walk(next, n) = Visit[Len(next) + 1][n]
             /\ \A k \in 0 .. Len(next) + 1 : \A n \in 0 .. Len(next) :
                  Visit[k][n] = IF k = 0 \/ n = Nil THEN <<>> ELSE <<n>> \o Visit[k - 1][next[n]]
<1> DEFINE K == Len(next) + 1
           N == 0 .. Len(next)
           Row(k, r) == [n \in N |-> IF k = 0 \/ n = Nil THEN <<>> ELSE <<n>> \o r[next[n]]]
           Rows(m, f) == [k \in 0 .. m |-> Row(k, f[k - 1])]
           T == {m \in Nat : \E f : f = Rows(m, f)}
<1>0. K \in Nat  OBVIOUS
<1>1. 0 \in T
  <2> DEFINE f == [k \in 0 .. 0 |-> Row(0, k)]
  <2>1. \A r : Row(0, r) = Row(0, 0)  OBVIOUS
  <2> HIDE DEF Row
  <2>2. f = Rows(0, f)
    <3>1. \A k \in 0 .. 0 : k = 0  OBVIOUS
    <3> QED BY <3>1, <2>1
  <2> HIDE DEF f
  <2> QED BY <2>2
<1>2. ASSUME NEW m \in Nat, m \in T  PROVE m + 1 \in T
  <2>1. PICK f : f = Rows(m, f)  BY <1>2
  <2> HIDE DEF Row
  <2> DEFINE h == [k \in 0 .. m + 1 |-> IF k <= m THEN f[k] ELSE Row(k, f[m])]
  <2>2. \A k \in 0 .. m + 1 : h[k] = Row(k, h[k - 1])
    <3> TAKE k \in 0 .. m + 1
    <3>1. CASE k = 0
      <4>1. h[0] = f[0] /\ f[0] = Row(0, f[0 - 1])  BY <2>1
      <4>2. \A r, s : Row(0, r) = Row(0, s)  BY DEF Row
      <4> QED BY <3>1, <4>1, <4>2
    <3>2. CASE k \in 1 .. m
      <4>1. h[k] = f[k] /\ h[k - 1] = f[k - 1]  BY <3>2
      <4>2. f[k] = Row(k, f[k - 1])
        <5> HIDE DEF h
        <5>1. k \in 0 .. m  BY <3>2
        <5> QED BY <2>1, <5>1
      <4> QED BY <4>1, <4>2
    <3>3. CASE k = m + 1
      <4>1. h[k] = Row(k, f[m]) /\ h[k - 1] = f[m]  BY <3>3
      <4> QED BY <4>1
    <3> QED BY <3>1, <3>2, <3>3
  <2>3. h = Rows(m + 1, h)
    <3>1. h = [k \in 0 .. m + 1 |-> h[k]]  OBVIOUS
    <3> HIDE DEF h
    <3> QED BY <3>1, <2>2
  <2>4. m + 1 \in Nat  OBVIOUS
  <2>5. \E g : g = Rows(m + 1, g)
    <3> HIDE DEF h, Rows
    <3> QED BY <2>3
  <2> HIDE DEF h, Rows
  <2> QED BY <2>4, <2>5
<1>3. \A m \in 0 .. K : m \in T
  <2> HIDE DEF T, K
  <2>1. \A m \in Nat : m \in T /\ m < K => m + 1 \in T  BY <1>2
  <2> QED BY <1>0, <1>1, <2>1, Induction
<1>4. \E f : f = Rows(K, f)
  <2>1. K \in T
    <3> HIDE DEF K, T
    <3>1. K \in 0 .. K  BY <1>0
    <3> QED BY <1>3, <3>1
  <2> HIDE DEF Rows
  <2> QED BY <2>1
<1> DEFINE Visit == CHOOSE f : f = Rows(K, f)
<1>5. Visit = Rows(K, Visit)
  <2> HIDE DEF Rows
  <2> QED BY <1>4
<1>6. \A n : Walk(next, n) = Visit[K][n]  BY DEF Walk
<1> HIDE DEF Visit
<1>7. \A k \in 0 .. K : Visit[k] = Row(k, Visit[k - 1])
  <2> HIDE DEF Row
  <2> QED BY <1>5
<1>8. \A k \in 0 .. K : \A n \in N : Visit[k][n] = IF k = 0 \/ n = Nil THEN <<>> ELSE <<n>> \o Visit[k - 1][next[n]]
  BY ZenonT(40), <1>7
<1> QED BY <1>6, <1>8

(* A loop that follows the pointers of a chain visits its nodes. *)
LEMMA WalkVisits ==
    ASSUME NEW next \in Seq(Nat), \A n \in 1 .. Len(next) : next[n] <= Len(next),
           NEW L \in Nat, L <= Len(next), NEW nodes \in [1 .. L -> 1 .. Len(next)],
           NEW p, p = IF L = 0 THEN 0 ELSE nodes[1],
           \A j \in 1 .. L : next[nodes[j]] = IF j = L THEN 0 ELSE nodes[j + 1]
    PROVE  Walk(next, p) = nodes
<1>1. PICK Visit : /\ \A n \in 0 .. Len(next) : Walk(next, n) = Visit[Len(next) + 1][n]
                   /\ \A k \in 0 .. Len(next) + 1 : \A n \in 0 .. Len(next) :
                        Visit[k][n] = IF k = 0 \/ n = Nil THEN <<>> ELSE <<n>> \o Visit[k - 1][next[n]]
  BY WalkUnrolls
<1> DEFINE S == 1 .. Len(next)
           From(d) == IF d = 0 THEN 0 ELSE nodes[L - d + 1]
           Last(d) == [j \in 1 .. d |-> nodes[L - d + j]]
           T == {d \in Nat : d <= L => \A k \in 0 .. Len(next) + 1 : k >= d => Visit[k][From(d)] = Last(d)}
<1>0. Len(next) \in Nat  OBVIOUS
<1>a. \A d \in 0 .. L : From(d) \in 0 .. Len(next) /\ Last(d) \in [1 .. d -> S]  BY <1>0
<1>2. 0 \in T
  <2>1. Last(0) = <<>>  OBVIOUS
  <2>2. ASSUME NEW k \in 0 .. Len(next) + 1  PROVE Visit[k][0] = <<>>
    <3>1. 0 \in 0 .. Len(next)  BY <1>0
    <3>2. Visit[k][0] = IF k = 0 \/ 0 = Nil THEN <<>> ELSE <<0>> \o Visit[k - 1][next[0]]  BY <3>1, <1>1, Zenon
    <3> QED BY <3>2 DEF Nil
  <2> QED BY <2>1, <2>2
<1>3. ASSUME NEW d \in Nat, d \in T, d < L  PROVE d + 1 \in T
  <2>0. \A k \in 0 .. Len(next) + 1 : k >= d => Visit[k][From(d)] = Last(d)
    <3> HIDE DEF From, Last
    <3> QED BY <1>3
  <2> DEFINE n == nodes[L - d]
  <2>1. From(d + 1) = n /\ n \in S
    <3>1. L - (d + 1) + 1 = L - d /\ L - d \in 1 .. L /\ d + 1 # 0  BY SMTT(40), <1>3
    <3>2. From(d + 1) = nodes[L - (d + 1) + 1]  BY <3>1
    <3> QED BY <3>1, <3>2
  <2>2. next[n] = From(d)
    <3>1. L - d \in 1 .. L  BY <1>3
    <3>2. CASE d = 0  BY <3>1, <3>2
    <3>3. CASE d # 0
      <4>1. L - d # L  BY <3>3
      <4>2. From(d) = nodes[(L - d) + 1]  BY <3>3
      <4> QED BY <3>1, <4>1, <4>2
    <3> QED BY <3>2, <3>3
  <2>3. ASSUME NEW k \in 0 .. Len(next) + 1, k >= d + 1  PROVE Visit[k][n] = <<n>> \o Last(d)
    <3>1. k # 0 /\ k - 1 \in 0 .. Len(next) + 1 /\ k - 1 >= d  BY <2>3, <1>0
    <3>2. Visit[k - 1][From(d)] = Last(d)
      <4> HIDE DEF From, Last
      <4> QED BY <3>1, <2>0
    <3>3. n \in 0 .. Len(next) /\ n # 0  BY <2>1, <1>0
    <3> HIDE DEF n, Last, From
    <3>4. Visit[k][n] = IF k = 0 \/ n = Nil THEN <<>> ELSE <<n>> \o Visit[k - 1][next[n]]
      BY <3>3, <1>1, Zenon
    <3>5. Visit[k][n] = <<n>> \o Visit[k - 1][next[n]]  BY <3>1, <3>3, <3>4 DEF Nil
    <3> QED BY <3>2, <3>5, <2>2
  <2>4. <<n>> \o Last(d) = Last(d + 1)
    <3>1. <<n>> \in Seq(S) /\ Len(<<n>>) = 1 /\ <<n>>[1] = n  BY <2>1
    <3>2. Last(d) \in [1 .. d -> S] /\ Last(d + 1) \in [1 .. d + 1 -> S]  BY SMTT(40), <1>a, <1>3
    <3>3. Last(d) \in Seq(S) /\ Len(Last(d)) = d
      <4> HIDE DEF Last, S
      <4> QED BY <3>2, <1>3, FunctionIsSeq
    <3>4. Last(d + 1) \in Seq(S) /\ Len(Last(d + 1)) = d + 1
      <4> HIDE DEF Last, S
      <4>1. d + 1 \in Nat  BY <1>3
      <4> QED BY <3>2, <4>1, FunctionIsSeq
    <3>5. \A i \in 1 .. d + 1 : Last(d + 1)[i] = IF i <= 1 THEN n ELSE Last(d)[i - 1]
      <4> TAKE i \in 1 .. d + 1
      <4>1. Last(d + 1)[i] = nodes[L - (d + 1) + i]  OBVIOUS
      <4>2. CASE i = 1
        <5>1. L - (d + 1) + i = L - d  BY <4>2
        <5> QED BY <4>1, <5>1, <4>2
      <4>3. CASE i # 1
        <5>1. i - 1 \in 1 .. d  BY <4>3
        <5>2. Last(d)[i - 1] = nodes[L - d + (i - 1)]  BY <5>1
        <5>3. L - d + (i - 1) = L - (d + 1) + i  OBVIOUS
        <5>4. ~(i <= 1)  BY <4>3
        <5> QED BY <5>2, <5>3, <4>1, <5>4
      <4> QED BY <4>2, <4>3
    <3> HIDE DEF n, Last, S
    <3>6. /\ <<n>> \o Last(d) \in Seq(S) /\ Len(<<n>> \o Last(d)) = 1 + d
          /\ \A i \in 1 .. 1 + d : (<<n>> \o Last(d))[i] = IF i <= 1 THEN <<n>>[i] ELSE Last(d)[i - 1]
      BY <3>1, <3>3, ConcatProperties
    <3> DEFINE s == <<n>> \o Last(d)
               t == Last(d + 1)
    <3>8. s \in Seq(S) /\ t \in Seq(S) /\ Len(s) = Len(t) /\ Len(s) = d + 1  BY <3>4, <3>6
    <3>9. \A i \in 1 .. d + 1 : s[i] = t[i]  BY <3>6, <3>5, <3>1
    <3>10. \A i \in 1 .. Len(s) : s[i] = t[i]
      <4> HIDE DEF s, t
      <4> QED BY <3>8, <3>9
    <3> HIDE DEF s, t
    <3>11. s = t  BY <3>8, <3>10, SeqEqual
    <3> QED BY <3>11 DEF s, t
  <2> HIDE DEF n, Last, From
  <2>5. \A k \in 0 .. Len(next) + 1 : k >= d + 1 => Visit[k][From(d + 1)] = Last(d + 1)
    BY <2>1, <2>3, <2>4
  <2> QED BY SMTT(40), <2>5
<1>4. L \in T
  <2> HIDE DEF T
  <2>1. \A d \in Nat : d \in T /\ d < L => d + 1 \in T  BY <1>3
  <2>2. \A d \in 0 .. L : d \in T  BY <1>2, <2>1, Induction
  <2> QED BY <2>2
<1>5. Visit[Len(next) + 1][From(L)] = Last(L)  BY <1>4, <1>0
<1>6. From(L) = p  OBVIOUS
<1>7. Last(L) = nodes  OBVIOUS
<1> QED BY <1>1, <1>5, <1>6, <1>7, <1>a

(* What the queues do to the values that wait: the new one last, the first *)
(* or the last one gone.                                                   *)
LEMMA Appended ==
    ASSUME NEW v \in Values, want \in Seq(Values), want' = Append(want, v)
    PROVE  /\ want' \in Seq(Values) /\ Len(want') = Len(want) + 1
           /\ \A j \in 1 .. Len(want) : want'[j] = want[j]
           /\ want'[Len(want) + 1] = v
BY AppendProperties

LEMMA FirstGone ==
    ASSUME want \in Seq(Values), Len(want) # 0, want' = Tail(want)
    PROVE  /\ want' \in Seq(Values) /\ Len(want') = Len(want) - 1
           /\ \A j \in 1 .. Len(want') : want'[j] = want[j + 1]
<1>1. want # <<>>  OBVIOUS
<1> QED BY <1>1, HeadTailProperties

LEMMA LastGone ==
    ASSUME want \in Seq(Values), Len(want) # 0, want' = SubSeq(want, 1, Len(want) - 1)
    PROVE  /\ want' \in Seq(Values) /\ Len(want') = Len(want) - 1
           /\ \A j \in 1 .. Len(want') : want'[j] = want[j]
<1> DEFINE n == Len(want) - 1
<1>1. Len(want) \in Nat /\ n \in Nat /\ \A j \in 1 .. n : want[j] \in Values  BY ElementOfSeq
<1> HIDE DEF n
<1>2. /\ SubSeq(want, 1, n) \in Seq(Values)
      /\ Len(SubSeq(want, 1, n)) = IF 1 <= n THEN n - 1 + 1 ELSE 0
      /\ \A i \in 1 .. n - 1 + 1 : SubSeq(want, 1, n)[i] = want[1 + i - 1]
  BY <1>1, SubSeqProperties
<1>3. want' = SubSeq(want, 1, n)  BY DEF n
<1>4. Len(want') = n /\ \A j \in 1 .. n : want'[j] = want[j]  BY <1>1, <1>2, <1>3
<1> QED BY <1>1, <1>2, <1>3, <1>4 DEF n

-----------------------------------------------------------------------------
(* ArrayQueue *)

LEMMA ArrayEnqueue ==
    ASSUME QueuesInv, NEW v \in Values, AQ!Enqueue(v)
    PROVE  Typed' /\ ArrayHolds' /\ obj'.type = "ArrayQueue"
<1>1. /\ obj \in [type : {"ArrayQueue"}, items : Seq(Values), head : Nat, tail : Nat, size : Nat,
                  capacity : {ArrayCapacity}]
      /\ obj.head <= obj.tail /\ obj.tail <= obj.capacity /\ obj.tail <= Len(obj.items)
      /\ obj.size = obj.tail - obj.head /\ obj.size = Len(want)
      /\ trusted => /\ obj.tail = Len(obj.items)
                    /\ \A j \in 1 .. Len(want) : want[j] = obj.items[obj.head + j]
      /\ want \in Seq(Values) /\ trusted \in BOOLEAN
  BY DEF QueuesInv, ArrayHolds, Typed, AQ!Enqueue, AQ!Live
<1>2. /\ want' = Append(want, v) /\ trusted' = (trusted /\ AQ!Shifted = obj)
      /\ ~(obj.head = 0 /\ obj.tail = obj.capacity)
  BY DEF AQ!Enqueue
<1>3. /\ want' \in Seq(Values) /\ Len(want') = Len(want) + 1
      /\ \A j \in 1 .. Len(want) : want'[j] = want[j]
      /\ want'[Len(want) + 1] = v
  BY <1>1, <1>2, Appended
<1> DEFINE it == obj.items
<1>4. it \in Seq(Values) /\ Len(it) \in Nat  BY <1>1
<1>5. CASE obj.tail # obj.capacity
  <2>1. obj' = [obj EXCEPT !.items = Append(it, v), !.tail = @ + 1, !.size = @ + 1]
    BY <1>1, <1>5 DEF AQ!Enqueue, AQ!Shifted
  <2> HIDE DEF it
  <2>2. /\ obj'.type = "ArrayQueue" /\ obj'.items = Append(it, v) /\ obj'.head = obj.head
        /\ obj'.tail = obj.tail + 1 /\ obj'.size = obj.size + 1 /\ obj'.capacity = obj.capacity
    BY <2>1, <1>1
  <2>3. /\ Append(it, v) \in Seq(Values) /\ Len(Append(it, v)) = Len(it) + 1
        /\ \A j \in 1 .. Len(it) : Append(it, v)[j] = it[j]
        /\ Append(it, v)[Len(it) + 1] = v
    BY <1>4, AppendProperties
  <2>4. obj' \in [type : {"ArrayQueue"}, items : Seq(Values), head : Nat, tail : Nat, size : Nat,
                  capacity : {ArrayCapacity}]
    <3> DEFINE a == Append(it, v)
               t == obj.tail + 1
               n == obj.size + 1
    <3>1. a \in Seq(Values) /\ t \in Nat /\ n \in Nat  BY <2>3, <1>1
    <3>2. obj' = [obj EXCEPT !.items = a, !.tail = t, !.size = n]  BY <2>1, Zenon
    <3> HIDE DEF a, t, n
    <3> QED BY <3>1, <3>2, <1>1
  <2>5. ASSUME trusted'
        PROVE  /\ obj'.tail = Len(obj'.items)
               /\ \A j \in 1 .. Len(want') : want'[j] = obj'.items[obj'.head + j]
    <3>1. obj.tail = Len(it) /\ \A j \in 1 .. Len(want) : want[j] = it[obj.head + j]
      BY <1>1, <1>2, <2>5 DEF it
    <3>2. ASSUME NEW j \in 1 .. Len(want') PROVE want'[j] = obj'.items[obj'.head + j]
      <4>1. CASE j = Len(want) + 1  BY <4>1, <1>1, <1>3, <2>2, <2>3, <3>1
      <4>2. CASE j \in 1 .. Len(want)
        <5>1. obj.head + j \in 1 .. Len(it)  BY <4>2, <1>1, <3>1
        <5> QED BY <4>2, <5>1, <1>3, <2>2, <2>3, <3>1
      <4> QED BY <1>3, <1>1, <4>1, <4>2
    <3> QED BY <3>1, <3>2, <2>2, <2>3
  <2>6. trusted' \in BOOLEAN  BY <1>2
  <2>7. /\ obj'.head <= obj'.tail /\ obj'.tail <= obj'.capacity /\ obj'.tail <= Len(obj'.items)
        /\ obj'.size = obj'.tail - obj'.head /\ obj'.size = Len(want')
    <3>1. obj.tail < obj.capacity /\ obj.tail \in Nat /\ obj.head \in Nat /\ obj.capacity \in Nat
      BY <1>1, <1>5, QueuesAssumption
    <3>2. Len(it) \in Nat /\ Len(want) \in Nat /\ obj.tail <= Len(it)  BY <1>1, <1>4 DEF it
    <3>3. obj.head <= obj.tail /\ obj.size = obj.tail - obj.head /\ obj.size = Len(want) /\ obj.size \in Nat  BY <1>1
    <3>4. Len(obj'.items) = Len(it) + 1  BY <2>2, <2>3
    <3>5. Len(want') = Len(want) + 1  BY <1>3
    <3>6. obj'.head = obj.head /\ obj'.tail = obj.tail + 1 /\ obj'.size = obj.size + 1 /\ obj'.capacity = obj.capacity
      BY <2>2
    <3> QED BY SMTT(40), <3>1, <3>2, <3>3, <3>4, <3>5, <3>6
  <2> QED BY <2>2, <2>4, <2>5, <2>6, <2>7, <1>3 DEF Typed, ArrayHolds
<1>6. CASE obj.tail = obj.capacity
  <2> DEFINE moved == [i \in DOMAIN it |-> IF i + obj.head <= obj.tail THEN it[i + obj.head] ELSE it[i]]
  <2>0. moved \in Seq(Values) /\ Len(moved) = Len(it)
    <3>1. DOMAIN it = 1 .. Len(it) /\ \A i \in 1 .. Len(it) : it[i] \in Values  BY <1>4, ElementOfSeq
    <3>2. moved \in [1 .. Len(it) -> Values]
      <4>1. \A i \in 1 .. Len(it) : i + obj.head <= obj.tail => i + obj.head \in 1 .. Len(it)
        BY <1>1, <1>4
      <4> QED BY <3>1, <4>1
    <3> HIDE DEF moved, it
    <3> QED BY <1>4, <3>2, FunctionIsSeq
  <2>1. obj' = [obj EXCEPT !.items = Append(moved, v), !.tail = (@ - obj.head) + 1, !.size = @ + 1,
                           !.head = 0]
    BY <1>1, <1>6 DEF AQ!Enqueue, AQ!Shifted
  <2>a. AQ!Shifted.head = 0  BY <1>1, <1>6 DEF AQ!Shifted
  <2>b. AQ!Shifted # obj  BY <2>a, <1>1, <1>2, <1>6
  <2>c. trusted' = FALSE  BY <2>b, <1>2
  <2> HIDE DEF it, moved
  <2>2. /\ obj'.type = "ArrayQueue" /\ obj'.items = Append(moved, v) /\ obj'.head = 0
        /\ obj'.tail = obj.tail - obj.head + 1 /\ obj'.size = obj.size + 1
        /\ obj'.capacity = obj.capacity
    BY <2>1, <1>1
  <2>3. Append(moved, v) \in Seq(Values) /\ Len(Append(moved, v)) = Len(it) + 1
    BY <2>0, AppendProperties
  <2>d. obj.tail - obj.head + 1 \in Nat  BY <1>1
  <2>4. obj' \in [type : {"ArrayQueue"}, items : Seq(Values), head : Nat, tail : Nat, size : Nat,
                  capacity : {ArrayCapacity}]
    <3> DEFINE a == Append(moved, v)
               t == obj.tail - obj.head + 1
               n == obj.size + 1
    <3>1. a \in Seq(Values) /\ t \in Nat /\ n \in Nat  BY <2>3, <2>d, <1>1
    <3>2. obj' = [obj EXCEPT !.items = a, !.tail = t, !.size = n, !.head = 0]  BY <2>1, Zenon
    <3> HIDE DEF a, t, n
    <3> QED BY <3>1, <3>2, <1>1
  <2>7. /\ obj'.head <= obj'.tail /\ obj'.tail <= obj'.capacity /\ obj'.tail <= Len(obj'.items)
        /\ obj'.size = obj'.tail - obj'.head /\ obj'.size = Len(want')
    <3>1. /\ obj.tail = obj.capacity /\ obj.tail \in Nat /\ obj.head \in Nat /\ obj.capacity \in Nat
          /\ obj.head # 0
      BY <1>1, <1>2, <1>6, QueuesAssumption
    <3>2. Len(it) \in Nat /\ Len(want) \in Nat /\ obj.tail <= Len(it)  BY <1>1, <1>4 DEF it
    <3> QED BY <3>1, <3>2, <1>1, <1>3, <2>2, <2>3
  <2> QED BY <2>2, <2>4, <2>c, <2>7, <1>3 DEF Typed, ArrayHolds
<1> QED BY <1>5, <1>6

LEMMA ArrayDequeue ==
    ASSUME QueuesInv, AQ!Dequeue
    PROVE  Typed' /\ ArrayHolds' /\ obj'.type = "ArrayQueue"
<1>1. /\ obj \in [type : {"ArrayQueue"}, items : Seq(Values), head : Nat, tail : Nat, size : Nat,
                  capacity : {ArrayCapacity}]
      /\ obj.head <= obj.tail /\ obj.tail <= obj.capacity /\ obj.tail <= Len(obj.items)
      /\ obj.size = obj.tail - obj.head /\ obj.size = Len(want)
      /\ trusted => /\ obj.tail = Len(obj.items)
                    /\ \A j \in 1 .. Len(want) : want[j] = obj.items[obj.head + j]
      /\ want \in Seq(Values) /\ trusted \in BOOLEAN
  BY DEF QueuesInv, ArrayHolds, Typed, AQ!Dequeue, AQ!Live
<1>2. /\ want' = Tail(want) /\ trusted' = trusted /\ obj.head # obj.tail
      /\ obj' = [obj EXCEPT !.head = @ + 1, !.size = @ - 1]
  BY DEF AQ!Dequeue
<1>3. /\ want' \in Seq(Values) /\ Len(want') = Len(want) - 1
      /\ \A j \in 1 .. Len(want') : want'[j] = want[j + 1]
  <2>1. Len(want) # 0  BY <1>1, <1>2
  <2> QED BY <1>1, <1>2, <2>1, FirstGone
<1>4. /\ obj'.type = "ArrayQueue" /\ obj'.items = obj.items /\ obj'.head = obj.head + 1
      /\ obj'.tail = obj.tail /\ obj'.size = obj.size - 1 /\ obj'.capacity = obj.capacity
  BY <1>1, <1>2
<1>5. obj' \in [type : {"ArrayQueue"}, items : Seq(Values), head : Nat, tail : Nat, size : Nat,
                capacity : {ArrayCapacity}]
  <2>1. obj.head + 1 \in Nat /\ obj.size - 1 \in Nat  BY <1>1, <1>2
  <2> QED BY <2>1, <1>1, <1>2
<1>6. /\ obj'.head <= obj'.tail /\ obj'.tail <= obj'.capacity /\ obj'.tail <= Len(obj'.items)
      /\ obj'.size = obj'.tail - obj'.head /\ obj'.size = Len(want')
  BY <1>1, <1>2, <1>3, <1>4
<1>7. ASSUME trusted', NEW j \in 1 .. Len(want')  PROVE want'[j] = obj'.items[obj'.head + j]
  <2>1. j + 1 \in 1 .. Len(want) /\ obj.head + (j + 1) = obj.head + 1 + j  BY <1>1, <1>3
  <2>2. want[j + 1] = obj.items[obj.head + (j + 1)]  BY <2>1, <1>1, <1>2, <1>7
  <2> QED BY <2>1, <2>2, <1>3, <1>4
<1>8. trusted' => obj'.tail = Len(obj'.items)  BY <1>1, <1>2, <1>4
<1> QED BY <1>2, <1>1, <1>3, <1>4, <1>5, <1>6, <1>7, <1>8 DEF Typed, ArrayHolds

LEMMA ArrayClear ==
    ASSUME obj' = AQ!Empty, want' = <<>>, trusted' = TRUE
    PROVE  Typed' /\ ArrayHolds' /\ obj'.type = "ArrayQueue"
BY QueuesAssumption DEF AQ!Empty, Typed, ArrayHolds

LEMMA ArrayKeeps ==
    ASSUME QueuesInv, AQ!Next
    PROVE  Typed' /\ ArrayHolds' /\ obj'.type = "ArrayQueue"
BY ArrayEnqueue, ArrayDequeue, ArrayClear DEF AQ!Next, AQ!Clear

LEMMA ArrayAnswers ==
    ASSUME QueuesInv
    PROVE  AQ!AcceptedInOrder
<1> SUFFICES ASSUME obj.type = "ArrayQueue"  PROVE AQ!AcceptedInOrder
  BY DEF AQ!AcceptedInOrder
<1>1. /\ obj.items \in Seq(Values) /\ obj.head \in Nat /\ obj.tail \in Nat /\ obj.size \in Nat
      /\ obj.capacity = ArrayCapacity /\ ArrayCapacity \in Nat
      /\ obj.head <= obj.tail /\ obj.tail <= obj.capacity /\ obj.tail <= Len(obj.items)
      /\ obj.size = obj.tail - obj.head /\ obj.size = Len(want)
      /\ trusted => /\ obj.tail = Len(obj.items)
                    /\ \A j \in 1 .. Len(want) : want[j] = obj.items[obj.head + j]
      /\ want \in Seq(Values) /\ trusted \in BOOLEAN
  BY QueuesAssumption DEF QueuesInv, ArrayHolds, Typed
<1>2. obj.size = Len(want) /\ Len(want) <= ArrayCapacity  BY <1>1
<1>3. AQ!Full <=> obj.head = 0 /\ obj.tail = obj.capacity  BY <1>1 DEF AQ!Full
<1>4. ASSUME trusted
      PROVE  /\ AQ!Data = want
             /\ \A i \in DOMAIN want : AQ!Contain(want[i])
             /\ obj.head = 0 /\ want # <<>> => AQ!Front = Head(want) /\ AQ!Back = want[Len(want)]
  <2> DEFINE it == obj.items
             h == obj.head
             t == obj.tail
  <2>1. /\ it \in Seq(Values) /\ h \in Nat /\ t \in Nat /\ h <= t /\ t = Len(it)
        /\ Len(want) = t - h /\ \A j \in 1 .. Len(want) : want[j] = it[h + j]
    BY <1>1, <1>4
  <2> HIDE DEF it, h, t
  <2>2. AQ!Data = want
    <3>1. \A i \in h + 1 .. t : it[i] \in Values  BY <2>1, ElementOfSeq
    <3> DEFINE m == h + 1
               d == SubSeq(it, m, t)
    <3>2. m \in Int /\ t \in Int  BY <2>1
    <3> HIDE DEF m
    <3>3. /\ d \in Seq(Values) /\ Len(d) = IF m <= t THEN t - m + 1 ELSE 0
          /\ \A i \in 1 .. t - m + 1 : d[i] = it[m + i - 1]
      BY <3>1, <3>2, SubSeqProperties DEF m
    <3> HIDE DEF d
    <3>4. Len(d) = Len(want) /\ \A i \in 1 .. Len(d) : d[i] = want[i]  BY <2>1, <3>3 DEF m
    <3>5. d = want  BY <3>3, <3>4, <1>1, SeqEqual
    <3> QED BY <3>5 DEF AQ!Data, d, m, it, h, t
  <2>3. ASSUME NEW i \in DOMAIN want  PROVE AQ!Contain(want[i])
    <3>1. i \in 1 .. Len(want)  BY <1>1
    <3>2. h + i \in 1 .. Len(it) /\ want[i] = it[h + i]  BY <3>1, <2>1
    <3>3. h + i \in DOMAIN it  BY <3>2, <2>1, LenProperties
    <3> QED BY <3>2, <3>3 DEF AQ!Contain, it
  <2>4. ASSUME obj.head = 0, want # <<>>  PROVE AQ!Front = Head(want) /\ AQ!Back = want[Len(want)]
    <3>1. Len(want) \in Nat /\ Len(want) # 0 /\ Head(want) = want[1]  BY <1>1, <2>4
    <3>2. h = 0  BY <2>4 DEF h
    <3>3. want[1] = it[1] /\ want[Len(want)] = it[Len(want)]  BY <3>1, <3>2, <2>1
    <3> QED BY <3>1, <3>3, <1>1 DEF AQ!Front, AQ!Back, it
  <2> QED BY <2>2, <2>3, <2>4
<1> QED BY <1>2, <1>3, <1>4 DEF AQ!AcceptedInOrder

-----------------------------------------------------------------------------
(* CircularQueue *)

(* The places of a ring of C slots, read from the slot after f. *)
LEMMA Places ==
    ASSUME NEW C \in Nat \ {0}, NEW f \in 0 .. C - 1
    PROVE  /\ \A j \in 1 .. C : Slot(f, j, C) \in 1 .. C
           /\ \A i, j \in 1 .. C : Slot(f, i, C) = Slot(f, j, C) => i = j
           /\ Slot(f, 1, C) = f + 1
<1>1. \A j \in 1 .. C : Slot(f, j, C) \in 1 .. C  BY DEF Slot
<1>2. \A i, j \in 1 .. C : Slot(f, i, C) = Slot(f, j, C) => i = j  BY DEF Slot
<1>3. Slot(f, 1, C) = f + 1  BY DEF Slot
<1> QED BY <1>1, <1>2, <1>3

(* One place further is one modulo C further. *)
LEMMA NextPlace ==
    ASSUME NEW C \in Nat \ {0}, NEW f \in 0 .. C - 1
    PROVE  /\ \A j \in 1 .. C - 1 : Slot(f, j, C) % C = Slot(f, j + 1, C) - 1
           /\ Slot(f, C, C) % C = f
           /\ (f + 1) % C \in 0 .. C - 1
           /\ \A j \in 1 .. C - 1 : Slot((f + 1) % C, j, C) = Slot(f, j + 1, C)
<1>1. \A x \in 0 .. C - 1 : x % C = x /\ (x + C) % C = x  BY Mods
<1>2. \A x \in 1 .. C : (x % C) = IF x = C THEN 0 ELSE x
  <2> TAKE x \in 1 .. C
  <2>1. CASE x = C
    <3>1. 0 \in 0 .. C - 1 /\ 0 + C = C  OBVIOUS
    <3>2. (0 + C) % C = 0  BY <1>1, <3>1, Zenon
    <3> QED BY <2>1, <3>1, <3>2
  <2>2. CASE x # C
    <3>1. x \in 0 .. C - 1  BY <2>2
    <3> QED BY <3>1, <1>1, <2>2, Zenon
  <2> QED BY <2>1, <2>2
<1>3. ASSUME NEW j \in 1 .. C - 1  PROVE Slot(f, j, C) % C = Slot(f, j + 1, C) - 1
  <2>1. Slot(f, j, C) \in 1 .. C  BY DEF Slot
  <2>2. (Slot(f, j, C) % C) = IF Slot(f, j, C) = C THEN 0 ELSE Slot(f, j, C)  BY <1>2, <2>1, Zenon
  <2>3. (IF Slot(f, j, C) = C THEN 0 ELSE Slot(f, j, C)) = Slot(f, j + 1, C) - 1  BY DEF Slot
  <2> QED BY <2>2, <2>3
<1>4. Slot(f, C, C) % C = f
  <2>1. Slot(f, C, C) \in 1 .. C /\ (IF Slot(f, C, C) = C THEN 0 ELSE Slot(f, C, C)) = f  BY DEF Slot
  <2> QED BY <1>2, <2>1
<1>5. ((f + 1) % C) = IF f + 1 = C THEN 0 ELSE f + 1
  <2>1. f + 1 \in 1 .. C  OBVIOUS
  <2> QED BY <1>2, <2>1, Zenon
<1> DEFINE g == (f + 1) % C
<1> HIDE DEF g
<1>6. g = IF f + 1 = C THEN 0 ELSE f + 1  BY <1>5 DEF g
<1>7. g \in 0 .. C - 1  BY <1>6
<1>8. \A j \in 1 .. C - 1 : Slot(g, j, C) = Slot(f, j + 1, C)  BY <1>6 DEF Slot
<1> QED BY <1>3, <1>4, <1>7, <1>8 DEF g

(* What the invariant says of a ring in use. *)
RingInUse ==
    /\ obj \in [type : {"CircularQueue"}, data : Seq(Values \cup {0}), front : Nat, rear : Nat,
                capacity : Nat, panicked : BOOLEAN]
    /\ obj.capacity = Len(obj.data) /\ obj.capacity # 0
    /\ obj.capacity = RingCapacity /\ obj.front < obj.capacity /\ ~obj.panicked
    /\ obj.rear = Slot(obj.front, Len(want) + 1, obj.capacity) - 1
    /\ Len(want) < obj.capacity
    /\ \A j \in 1 .. Len(want) : obj.data[Slot(obj.front, j, obj.capacity)] = want[j]
    /\ \A i \in 1 .. obj.capacity :
         obj.data[i] = 0 \/ \E j \in 1 .. Len(want) : i = Slot(obj.front, j, obj.capacity)
    /\ Typed

LEMMA RingFull ==
    ASSUME RingInUse
    PROVE  CQ!IsFull <=> Len(want) = obj.capacity - 1
<1> DEFINE C == obj.capacity
           f == obj.front
           n == Len(want)
<1>1. C \in Nat \ {0} /\ f \in 0 .. C - 1 /\ n \in 0 .. C - 1 /\ obj.rear + 1 = Slot(f, n + 1, C)
  <2>1. Slot(obj.front, Len(want) + 1, obj.capacity) \in Int  BY DEF RingInUse, Typed, Slot
  <2> QED BY <2>1 DEF RingInUse, Typed
<1>2. CQ!IsFull <=> Slot(f, n + 1, C) % C = f  BY <1>1 DEF CQ!IsFull
<1> HIDE DEF C, f, n
<1>3. CASE n = C - 1
  <2>1. n + 1 = C  BY <1>1, <1>3
  <2> QED BY <1>1, <1>2, <1>3, <2>1, NextPlace DEF n, C
<1>4. CASE n # C - 1
  <2>1. n + 1 \in 1 .. C - 1 /\ n + 2 \in 1 .. C /\ n + 2 # 1 /\ 1 \in 1 .. C /\ (n + 1) + 1 = n + 2
    BY <1>1, <1>4
  <2>2. Slot(f, n + 1, C) % C = Slot(f, n + 2, C) - 1  BY <1>1, <2>1, NextPlace
  <2>3. Slot(f, n + 2, C) # f + 1 /\ Slot(f, n + 2, C) \in 1 .. C  BY <1>1, <2>1, Places
  <2> QED BY <1>1, <1>2, <1>4, <2>2, <2>3 DEF n, C
<1> QED BY <1>3, <1>4

LEMMA RingEnqueue ==
    ASSUME QueuesInv, NEW v \in Values, CQ!Enqueue(v)
    PROVE  Typed' /\ RingHolds' /\ obj'.type = "CircularQueue"
<1> DEFINE C == obj.capacity
           f == obj.front
           n == Len(want)
           at == obj.rear + 1
           d == obj.data
           e == [d EXCEPT ![at] = v]
           q == (obj.rear + 1) % C
<1>0. RingInUse  BY DEF QueuesInv, RingHolds, RingInUse, CQ!Enqueue, CQ!Live
<1>1. /\ want' = Append(want, v) /\ trusted' = trusted /\ ~CQ!IsFull
      /\ obj' = [obj EXCEPT !.data = e, !.rear = q]
  BY <1>0 DEF CQ!Enqueue, RingInUse
<1>2. /\ want' \in Seq(Values) /\ Len(want') = n + 1
      /\ \A j \in 1 .. n : want'[j] = want[j]
      /\ want'[n + 1] = v
  BY <1>0, <1>1, Appended DEF RingInUse, Typed
<1>3. C \in Nat \ {0} /\ f \in 0 .. C - 1 /\ n \in 0 .. C - 1 /\ at = Slot(f, n + 1, C)
  <2>1. Slot(obj.front, Len(want) + 1, obj.capacity) \in Int  BY <1>0 DEF RingInUse, Typed, Slot
  <2> QED BY <2>1, <1>0 DEF RingInUse, Typed
<1>4. n + 1 \in 1 .. C - 1  BY <1>0, <1>1, <1>3, RingFull
<1>5. /\ d \in Seq(Values \cup {0}) /\ Len(d) = C
      /\ \A j \in 1 .. n : d[Slot(f, j, C)] = want[j]
      /\ \A i \in 1 .. C : d[i] = 0 \/ \E j \in 1 .. n : i = Slot(f, j, C)
  BY <1>0 DEF RingInUse
<1> HIDE DEF C, f, n, at, d, q
<1>6. at \in 1 .. C  BY <1>3, <1>4, Places
<1>7. /\ e \in Seq(Values \cup {0}) /\ Len(e) = C
      /\ \A i \in 1 .. C : e[i] = IF i = at THEN v ELSE d[i]
  BY <1>5, <1>6, ExceptSeq
<1> HIDE DEF e
<1>8. q = Slot(f, n + 2, C) - 1 /\ q \in Nat
  <2>1. (n + 1) + 1 = n + 2 /\ n + 2 \in 1 .. C  BY <1>3, <1>4
  <2>2. at % C = Slot(f, n + 2, C) - 1  BY <1>3, <1>4, <2>1, NextPlace
  <2>3. Slot(f, n + 2, C) \in 1 .. C  BY <1>3, <2>1, Places
  <2>4. q = at % C  BY DEF q, at
  <2> QED BY <2>2, <2>3, <2>4
<1>9. /\ obj'.type = "CircularQueue" /\ obj'.data = e /\ obj'.front = f /\ obj'.rear = q
      /\ obj'.capacity = C /\ obj'.panicked = obj.panicked
  BY <1>0, <1>1 DEF RingInUse, f, C
<1>10. obj' \in [type : {"CircularQueue"}, data : Seq(Values \cup {0}), front : Nat, rear : Nat,
                 capacity : Nat, panicked : BOOLEAN]
  BY <1>0, <1>1, <1>7, <1>8 DEF RingInUse
<1>11. ASSUME NEW j \in 1 .. n + 1  PROVE e[Slot(f, j, C)] = want'[j]
  <2>1. j \in 1 .. C /\ n + 1 \in 1 .. C /\ Slot(f, j, C) \in 1 .. C  BY SMTT(40), <1>3, <1>4, Places
  <2>2. CASE j = n + 1  BY <2>1, <2>2, <1>2, <1>3, <1>7
  <2>3. CASE j # n + 1
    <3>1. j \in 1 .. n  BY <1>3, <2>3
    <3>2. Slot(f, j, C) # at  BY <1>3, <2>1, <2>3, Places
    <3> QED BY <2>1, <3>1, <3>2, <1>2, <1>5, <1>7
  <2> QED BY <2>2, <2>3
<1>12. ASSUME NEW i \in 1 .. C  PROVE e[i] = 0 \/ \E j \in 1 .. n + 1 : i = Slot(f, j, C)
  <2>1. CASE i = at
    <3>1. n + 1 \in 1 .. n + 1  BY <1>3
    <3> QED BY <2>1, <3>1, <1>3
  <2>2. CASE i # at
    <3>1. e[i] = d[i]  BY <2>2, <1>7
    <3>2. \A j \in 1 .. n : j \in 1 .. n + 1  BY <1>3
    <3> QED BY <3>1, <3>2, <1>5
  <2> QED BY <2>1, <2>2
<1>13. C = RingCapacity /\ f < C /\ n + 1 < C /\ C # 0 /\ ~obj.panicked  BY <1>0, <1>3, <1>4 DEF RingInUse, C
<1>14. Len(want') + 1 = n + 2  BY <1>2, <1>3
<1>15. RingHolds'  BY <1>2, <1>7, <1>8, <1>9, <1>10, <1>11, <1>12, <1>13, <1>14 DEF RingHolds
<1>16. Typed'  BY <1>0, <1>1, <1>2 DEF Typed, RingInUse
<1> QED BY <1>9, <1>15, <1>16

LEMMA RingDequeue ==
    ASSUME QueuesInv, CQ!Dequeue
    PROVE  Typed' /\ RingHolds' /\ obj'.type = "CircularQueue"
<1> DEFINE C == obj.capacity
           f == obj.front
           n == Len(want)
           d == obj.data
           at == f + 1
           e == [d EXCEPT ![at] = 0]
           g == (f + 1) % C
<1>0. RingInUse
  <2>1. obj.capacity # 0  BY DEF QueuesInv, RingHolds, CQ!Dequeue, CQ!Live, CQ!IsEmpty
  <2> QED BY <2>1 DEF QueuesInv, RingHolds, RingInUse, CQ!Dequeue, CQ!Live
<1>1. /\ want' = Tail(want) /\ trusted' = trusted /\ obj.front # obj.rear
      /\ obj' = [obj EXCEPT !.data = e, !.front = g]
  BY <1>0 DEF CQ!Dequeue, CQ!IsEmpty, RingInUse
<1>2. C \in Nat \ {0} /\ f \in 0 .. C - 1 /\ n \in 0 .. C - 1
  BY <1>0 DEF RingInUse, Typed
<1>3. n # 0
  <2>1. obj.rear = Slot(f, n + 1, C) - 1  BY <1>0 DEF RingInUse
  <2>2. Slot(f, 1, C) = f + 1  BY <1>2, Places
  <2> HIDE DEF C, n
  <2>3. ASSUME n = 0 PROVE FALSE
    <3>1. n + 1 = 1  BY <2>3
    <3>2. obj.rear = (f + 1) - 1  BY <2>1, <2>2, <3>1
    <3> QED BY <3>2, <1>1, <1>2
  <2> QED BY <2>3
<1>4. /\ want' \in Seq(Values) /\ Len(want') = n - 1
      /\ \A j \in 1 .. n - 1 : want'[j] = want[j + 1]
  BY <1>0, <1>1, <1>3, FirstGone DEF RingInUse, Typed
<1>5. /\ d \in Seq(Values \cup {0}) /\ Len(d) = C
      /\ \A j \in 1 .. n : d[Slot(f, j, C)] = want[j]
      /\ \A i \in 1 .. C : d[i] = 0 \/ \E j \in 1 .. n : i = Slot(f, j, C)
      /\ obj.rear = Slot(f, n + 1, C) - 1 /\ obj.rear \in Nat
  BY <1>0 DEF RingInUse
<1> HIDE DEF C, f, n, at, d, g
<1>6. at \in 1 .. C /\ at = Slot(f, 1, C)  BY <1>2, Places DEF at
<1>7. /\ e \in Seq(Values \cup {0}) /\ Len(e) = C
      /\ \A i \in 1 .. C : e[i] = IF i = at THEN 0 ELSE d[i]
  BY <1>5, <1>6, ExceptSeq
<1> HIDE DEF e
<1>8. g \in 0 .. C - 1 /\ \A j \in 1 .. C - 1 : Slot(g, j, C) = Slot(f, j + 1, C)
  BY <1>2, NextPlace DEF g
<1>9. /\ obj'.type = "CircularQueue" /\ obj'.data = e /\ obj'.front = g /\ obj'.rear = obj.rear
      /\ obj'.capacity = C /\ obj'.panicked = obj.panicked
  BY <1>0, <1>1 DEF RingInUse, C
<1>a. g \in Nat  BY <1>8, <1>2
<1>10. obj' \in [type : {"CircularQueue"}, data : Seq(Values \cup {0}), front : Nat, rear : Nat,
                 capacity : Nat, panicked : BOOLEAN]
  BY <1>0, <1>1, <1>7, <1>a DEF RingInUse
<1>11. ASSUME NEW j \in 1 .. n - 1  PROVE e[Slot(g, j, C)] = want'[j]
  <2>1. j \in 1 .. C - 1 /\ j + 1 \in 1 .. C /\ j + 1 \in 1 .. n /\ 1 \in 1 .. C /\ j + 1 # 1  BY <1>2
  <2>2. Slot(g, j, C) = Slot(f, j + 1, C)  BY <2>1, <1>8
  <2>3. Slot(f, j + 1, C) \in 1 .. C /\ Slot(f, j + 1, C) # at  BY <1>2, <1>6, <2>1, Places
  <2> QED BY <2>1, <2>2, <2>3, <1>4, <1>5, <1>7
<1>12. ASSUME NEW i \in 1 .. C  PROVE e[i] = 0 \/ \E j \in 1 .. n - 1 : i = Slot(g, j, C)
  <2>1. CASE i = at  BY <2>1, <1>7
  <2>2. CASE d[i] = 0  BY <2>2, <1>7
  <2>3. CASE i # at /\ d[i] # 0
    <3>1. PICK j \in 1 .. n : i = Slot(f, j, C)  BY <1>5, <2>3
    <3>2. j # 1  BY <3>1, <2>3, <1>6
    <3>3. j - 1 \in 1 .. n - 1 /\ j - 1 \in 1 .. C - 1 /\ (j - 1) + 1 = j  BY <3>2, <1>2
    <3>4. Slot(g, j - 1, C) = Slot(f, (j - 1) + 1, C)  BY <3>3, <1>8, Zenon
    <3> QED BY <3>1, <3>3, <3>4
  <2> QED BY <2>1, <2>2, <2>3
<1>13. C = RingCapacity /\ g < C /\ n - 1 < C /\ C # 0 /\ ~obj.panicked
  BY <1>0, <1>2, <1>8 DEF RingInUse, C
<1>14. Len(want') + 1 = n /\ obj.rear = Slot(g, n, C) - 1
  <2>1. n \in 1 .. C - 1  BY <1>2, <1>3
  <2> QED BY <1>4, <1>5, <1>8, <2>1
<1>15. RingHolds'  BY <1>4, <1>7, <1>9, <1>10, <1>11, <1>12, <1>13, <1>14 DEF RingHolds
<1>16. Typed'  BY <1>0, <1>1, <1>4 DEF Typed, RingInUse
<1> QED BY <1>9, <1>15, <1>16

(* Clear gives the ring away; the queue can only panic or be cleared again. *)
LEMMA RingClear ==
    ASSUME QueuesInv, CQ!Clear
    PROVE  Typed' /\ RingHolds' /\ obj'.type = "CircularQueue"
<1>1. /\ obj \in [type : {"CircularQueue"}, data : Seq(Values \cup {0}), front : Nat, rear : Nat,
                  capacity : Nat, panicked : BOOLEAN]
      /\ trusted \in BOOLEAN
  BY DEF QueuesInv, RingHolds, Typed, CQ!Clear, CQ!Live
<1>2. /\ obj' = [obj EXCEPT !.data = <<>>, !.front = 0, !.rear = 0, !.capacity = 0]
      /\ want' = <<>> /\ trusted' = trusted /\ ~obj.panicked
  BY DEF CQ!Clear, CQ!Live
<1>3. /\ obj'.type = "CircularQueue" /\ obj'.data = <<>> /\ obj'.front = 0 /\ obj'.rear = 0
      /\ obj'.capacity = 0 /\ obj'.panicked = FALSE
  BY <1>1, <1>2
<1>4. obj' \in [type : {"CircularQueue"}, data : Seq(Values \cup {0}), front : Nat, rear : Nat,
                capacity : Nat, panicked : BOOLEAN]
  <2>1. <<>> \in Seq(Values \cup {0})  BY EmptySeq
  <2> DEFINE e == <<>>
  <2>2. e \in Seq(Values \cup {0}) /\ obj' = [obj EXCEPT !.data = e, !.front = 0, !.rear = 0, !.capacity = 0]
    BY <2>1, <1>2
  <2> HIDE DEF e
  <2> QED BY <2>2, <1>1
<1>5. Typed' /\ Len(want') = 0  BY <1>1, <1>2 DEF Typed
<1>6. Len(obj'.data) = 0 /\ 1 .. 0 = {}  BY <1>3
<1>7. RingHolds'  BY <1>2, <1>3, <1>4, <1>5, <1>6 DEF RingHolds
<1> QED BY <1>3, <1>5, <1>7

LEMMA RingPanics ==
    ASSUME QueuesInv, CQ!EnqueueCleared
    PROVE  Typed' /\ RingHolds' /\ obj'.type = "CircularQueue"
<1>1. /\ obj \in [type : {"CircularQueue"}, data : Seq(Values \cup {0}), front : Nat, rear : Nat,
                  capacity : Nat, panicked : BOOLEAN]
      /\ Typed /\ obj.capacity = Len(obj.data) /\ obj.capacity = 0
      /\ obj.front = 0 /\ obj.rear = 0 /\ want = <<>>
  BY DEF QueuesInv, RingHolds, CQ!EnqueueCleared, CQ!Live
<1>2. obj' = [obj EXCEPT !.panicked = TRUE] /\ want' = want /\ trusted' = trusted
  BY DEF CQ!EnqueueCleared
<1>3. /\ obj'.type = "CircularQueue" /\ obj'.data = obj.data /\ obj'.front = 0 /\ obj'.rear = 0
      /\ obj'.capacity = 0 /\ obj'.panicked = TRUE
  BY <1>1, <1>2
<1>4. obj' \in [type : {"CircularQueue"}, data : Seq(Values \cup {0}), front : Nat, rear : Nat,
                capacity : Nat, panicked : BOOLEAN]
  BY <1>1, <1>2
<1>5. Typed' /\ Len(want') = 0  BY <1>1, <1>2 DEF Typed
<1>6. Len(obj'.data) = 0 /\ want' = <<>> /\ 1 .. 0 = {}
  <2>1. Len(obj.data) = 0  BY <1>1
  <2>2. Len(obj'.data) = 0  BY <2>1, <1>3
  <2>3. want' = <<>>  BY <1>1, <1>2
  <2>4. 1 .. 0 = {}  OBVIOUS
  <2> QED BY <2>2, <2>3, <2>4
<1>7. RingHolds'  BY <1>3, <1>4, <1>5, <1>6 DEF RingHolds
<1> QED BY <1>3, <1>5, <1>7

LEMMA RingKeeps ==
    ASSUME QueuesInv, CQ!Next
    PROVE  Typed' /\ RingHolds' /\ obj'.type = "CircularQueue"
BY RingEnqueue, RingDequeue, RingClear, RingPanics DEF CQ!Next

LEMMA RingAnswersCleared ==
    ASSUME QueuesInv, obj.type = "CircularQueue", obj.capacity = 0
    PROVE  CQ!WrapsInOrder
<1>1. /\ obj.data \in Seq(Values \cup {0}) /\ Len(obj.data) = 0
      /\ obj.front = 0 /\ obj.rear = 0 /\ want = <<>>
  BY DEF QueuesInv, RingHolds
<1>2. obj.data = <<>>  BY <1>1
<1>3. SubSeq(obj.data, 0 + 1, 0) = <<>>  BY SubSeqEmpty
<1>4. CQ!Data = want  BY <1>1, <1>3 DEF CQ!Data
<1>5. CQ!Size = Len(want) /\ CQ!IsEmpty  BY <1>1 DEF CQ!Size, CQ!IsEmpty
<1>6. \A v : ~CQ!Contain(v)  BY <1>2 DEF CQ!Contain
<1>7. DOMAIN want = {}  BY <1>1
<1> QED BY <1>1, <1>4, <1>5, <1>6, <1>7 DEF CQ!WrapsInOrder

LEMMA RingAnswers ==
    ASSUME QueuesInv
    PROVE  CQ!WrapsInOrder
<1> SUFFICES ASSUME obj.type = "CircularQueue", obj.capacity # 0  PROVE CQ!WrapsInOrder
  BY RingAnswersCleared DEF CQ!WrapsInOrder
<1> DEFINE C == obj.capacity
           f == obj.front
           n == Len(want)
           d == obj.data
           b == obj.rear
<1>0. RingInUse  BY DEF QueuesInv, RingHolds, RingInUse
<1>1. /\ C \in Nat \ {0} /\ f \in 0 .. C - 1 /\ n \in 0 .. C - 1 /\ C = RingCapacity
      /\ want \in Seq(Values) /\ ~obj.panicked
  BY <1>0 DEF RingInUse, Typed
<1>2. /\ d \in Seq(Values \cup {0}) /\ Len(d) = C
      /\ \A j \in 1 .. n : d[Slot(f, j, C)] = want[j]
      /\ \A i \in 1 .. C : d[i] = 0 \/ \E j \in 1 .. n : i = Slot(f, j, C)
      /\ b = Slot(f, n + 1, C) - 1
  BY <1>0 DEF RingInUse
<1>3. CQ!IsFull <=> n = RingCapacity - 1  BY <1>0, <1>1, RingFull
<1> HIDE DEF C, f, n, d, b
<1>4. \/ f + n < C /\ b = f + n
      \/ f + n >= C /\ b = f + n - C
  BY <1>1, <1>2 DEF Slot
<1>5. CQ!Size = n
  <2>1. \/ f + n < C /\ b - f + C = n + C
        \/ f + n >= C /\ b - f + C = n
    BY <1>1, <1>4
  <2>2. n % C = n /\ (n + C) % C = n  BY <1>1, Mods
  <2>3. (b - f + C) % C = n  BY <2>1, <2>2
  <2> QED BY <2>3, <1>1 DEF CQ!Size, C, b, f
<1>6. CQ!IsEmpty <=> want = <<>>
  <2>1. (f = b) <=> (n = 0)  BY <1>1, <1>4
  <2>2. (n = 0) <=> want = <<>>  BY <1>1 DEF n
  <2> QED BY <2>1, <2>2 DEF CQ!IsEmpty, f, b
<1>7. ASSUME want # <<>>  PROVE CQ!Front = Head(want) /\ CQ!Back = want[n]
  <2>1. n # 0 /\ Head(want) = want[1]  BY <1>1, <1>7 DEF n
  <2>2. 1 \in 1 .. n /\ n \in 1 .. n  BY <1>1, <2>1
  <2>3. d[f + 1] = want[1]  BY <1>1, <1>2, <2>2, Places
  <2>4. d[Slot(f, n, C)] = want[n]  BY <1>2, <2>2
  <2>5. Slot(f, n, C) = IF b >= 1 THEN b ELSE C  BY <1>1, <1>4, <2>1 DEF Slot
  <2>6. CQ!Back = d[Slot(f, n, C)]  BY <2>5 DEF CQ!Back, b, d, C
  <2> QED BY <2>1, <2>3, <2>4, <2>6 DEF CQ!Front, d, f
<1>8. ASSUME NEW v \in Values  PROVE CQ!Contain(v) <=> \E i \in DOMAIN want : want[i] = v
  <2>1. v # 0  BY QueuesAssumption
  <2>2. DOMAIN want = 1 .. n /\ DOMAIN d = 1 .. C  BY <1>1, <1>2, LenProperties DEF n
  <2>3. ASSUME NEW i \in 1 .. C, d[i] = v  PROVE \E j \in 1 .. n : want[j] = v
    BY <2>1, <2>3, <1>2
  <2>4. ASSUME NEW j \in 1 .. n, want[j] = v  PROVE \E i \in 1 .. C : d[i] = v
    <3>1. j \in 1 .. C  BY <1>1
    <3>2. Slot(f, j, C) \in 1 .. C  BY <1>1, <3>1, Places
    <3> QED BY <3>2, <2>4, <1>2
  <2> QED BY <2>2, <2>3, <2>4 DEF CQ!Contain, d
<1>9. CQ!Data = want
  <2>0. \A i \in 1 .. C : d[i] \in Values \cup {0}  BY <1>2, ElementOfSeq
  <2>1. CASE f + n < C
    <3> DEFINE m == f + 1
               s == SubSeq(d, m, b)
    <3>1. b = f + n /\ m \in Int /\ b \in Int /\ f <= b  BY <2>1, <1>1, <1>4
    <3>2. \A i \in m .. b : d[i] \in Values \cup {0}  BY <2>0, <3>1, <2>1, <1>1
    <3>3. CQ!Data = s  BY <3>1 DEF CQ!Data, d, f, b
    <3> HIDE DEF m
    <3>4. /\ s \in Seq(Values \cup {0}) /\ Len(s) = IF m <= b THEN b - m + 1 ELSE 0
          /\ \A i \in 1 .. b - m + 1 : s[i] = d[m + i - 1]
      BY <3>1, <3>2, SubSeqProperties
    <3> HIDE DEF s
    <3>5. Len(s) = n /\ b - m + 1 = n  BY <3>1, <3>4, <1>1 DEF m
    <3>6. ASSUME NEW i \in 1 .. n  PROVE s[i] = want[i]
      <4>1. m + i - 1 = Slot(f, i, C)  BY <2>1, <1>1 DEF m, Slot
      <4> QED BY <4>1, <3>4, <3>5, <1>2
    <3>7. want \in Seq(Values \cup {0})  BY <1>1, SeqMonotonic
    <3>8. s = want  BY <3>4, <3>5, <3>6, <3>7, SeqEqual DEF n
    <3> QED BY <3>3, <3>8
  <2>2. CASE f + n >= C
    <3> DEFINE m == f + 1
               s == SubSeq(d, m, C)
               t == SubSeq(d, 1, b)
    <3>1. b = f + n - C /\ m \in Int /\ b \in Nat /\ ~(f <= b) /\ b < C /\ m <= C
      BY <2>2, <1>1, <1>4
    <3>2. \A i \in m .. C : d[i] \in Values \cup {0}  BY <2>0, <1>1
    <3>3. \A i \in 1 .. b : d[i] \in Values \cup {0}  BY <2>0, <1>1, <3>1
    <3>4. CQ!Data = s \o t
      <4>1. ~(obj.front <= obj.rear)  BY <3>1 DEF f, b
      <4>2. Len(obj.data) = C  BY <1>2 DEF d
      <4> QED BY <4>1, <4>2 DEF CQ!Data, d, f, b
    <3> HIDE DEF m
    <3>5. /\ s \in Seq(Values \cup {0}) /\ Len(s) = IF m <= C THEN C - m + 1 ELSE 0
          /\ \A i \in 1 .. C - m + 1 : s[i] = d[m + i - 1]
      BY <1>1, <3>1, <3>2, SubSeqProperties
    <3>6. /\ t \in Seq(Values \cup {0}) /\ Len(t) = IF 1 <= b THEN b - 1 + 1 ELSE 0
          /\ \A i \in 1 .. b - 1 + 1 : t[i] = d[1 + i - 1]
      BY <3>1, <3>3, SubSeqProperties
    <3> HIDE DEF s, t
    <3>7. Len(s) = C - f /\ Len(t) = b /\ C - f + b = n  BY <1>1, <3>1, <3>5, <3>6 DEF m
    <3>8. /\ s \o t \in Seq(Values \cup {0}) /\ Len(s \o t) = Len(s) + Len(t)
          /\ \A i \in 1 .. Len(s) + Len(t) : (s \o t)[i] = IF i <= Len(s) THEN s[i] ELSE t[i - Len(s)]
      BY <3>5, <3>6, ConcatProperties
    <3>9. ASSUME NEW i \in 1 .. n  PROVE (s \o t)[i] = want[i]
      <4>1. (s \o t)[i] = IF i <= C - f THEN s[i] ELSE t[i - (C - f)]  BY <3>7, <3>8
      <4>2. d[Slot(f, i, C)] = want[i]  BY <1>2
      <4>3. CASE i <= C - f
        <5>1. i \in 1 .. C - m + 1 /\ m + i - 1 = Slot(f, i, C)  BY <4>3, <1>1 DEF m, Slot
        <5> QED BY <4>1, <4>2, <4>3, <5>1, <3>5
      <4>4. CASE ~(i <= C - f)
        <5>1. i - (C - f) \in 1 .. b - 1 + 1 /\ 1 + (i - (C - f)) - 1 = Slot(f, i, C)
          BY <4>4, <1>1, <3>1 DEF Slot
        <5>2. t[i - (C - f)] = d[1 + (i - (C - f)) - 1]  BY <5>1, <3>6
        <5> QED BY <4>1, <4>2, <4>4, <5>1, <5>2
      <4> QED BY <4>3, <4>4
    <3>10. want \in Seq(Values \cup {0})  BY <1>1, SeqMonotonic
    <3>11. Len(s \o t) = n  BY <3>7, <3>8
    <3> DEFINE w == s \o t
    <3> HIDE DEF w
    <3>12. w \in Seq(Values \cup {0}) /\ Len(w) = Len(want) /\ \A i \in 1 .. Len(w) : w[i] = want[i]
      BY <3>8, <3>9, <3>11 DEF w, n
    <3>13. w = want  BY <3>12, <3>10, SeqEqual
    <3> QED BY <3>4, <3>13 DEF w
  <2> QED BY <2>1, <2>2, <1>1
<1> QED BY <1>1, <1>3, <1>5, <1>6, <1>7, <1>8, <1>9 DEF CQ!WrapsInOrder, n

-----------------------------------------------------------------------------
(* LinkedQueue *)

LEMMA ChainEnqueue ==
    ASSUME QueuesInv, NEW v \in Values, LQ!Enqueue(v)
    PROVE  Typed' /\ QueueHolds' /\ obj'.type = "LinkedQueue"
<1> DEFINE n == Len(want)
           k == Len(obj.val)
           val == obj.val
           next == obj.next
           val1 == Append(val, v)
           long == Append(next, 0)
           next1 == IF n = 0 THEN long ELSE [long EXCEPT ![k] = k + 1]
<1>1. /\ obj \in [type : {"LinkedQueue"}, val : Seq(Values), next : Seq(Nat), head : Nat, tail : Nat,
                  length : Nat]
      /\ want \in Seq(Values) /\ trusted \in BOOLEAN /\ n \in Nat /\ k \in Nat /\ n <= k
      /\ val \in Seq(Values) /\ next \in Seq(Nat) /\ Len(next) = k /\ obj.length = n
      /\ obj.length # 0 => obj.tail = k
  BY DEF QueuesInv, QueueHolds, Typed, LQ!Enqueue, LQ!Live
<1>2. /\ \A i \in 1 .. k : next[i] <= k
      /\ obj.head = IF n = 0 THEN 0 ELSE k - n + 1
      /\ \A i \in k - n + 1 .. k : /\ next[i] = IF i = k THEN 0 ELSE i + 1
                                  /\ val[i] = want[i - (k - n)]
  BY DEF QueuesInv, QueueHolds, LQ!Enqueue, LQ!Live
<1>3. want' = Append(want, v) /\ trusted' = trusted  BY DEF LQ!Enqueue
<1>4. /\ want' \in Seq(Values) /\ Len(want') = n + 1
      /\ \A j \in 1 .. n : want'[j] = want[j]
      /\ want'[n + 1] = v
  BY <1>1, <1>3, Appended
<1>5. /\ n = 0 => obj' = [[obj EXCEPT !.val = val1, !.next = long, !.tail = k + 1, !.length = @ + 1]
                          EXCEPT !.head = k + 1]
      /\ n # 0 => obj' = [[obj EXCEPT !.val = val1, !.next = long, !.tail = k + 1, !.length = @ + 1]
                          EXCEPT !.next[obj.tail] = k + 1]
  BY <1>1 DEF LQ!Enqueue, LQ!IsEmpty, LQ!Nil
<1> HIDE DEF n, k, val, next, val1, long
<1>6. /\ val1 \in Seq(Values) /\ Len(val1) = k + 1
      /\ \A i \in 1 .. k : val1[i] = val[i]
      /\ val1[k + 1] = v
  BY <1>1, AppendProperties DEF val1, k, val
<1>7. /\ long \in Seq(Nat) /\ Len(long) = k + 1
      /\ \A i \in 1 .. k : long[i] = next[i]
      /\ long[k + 1] = 0
  BY <1>1, AppendProperties DEF long
<1>8. /\ next1 \in Seq(Nat) /\ Len(next1) = k + 1
      /\ \A i \in 1 .. k + 1 : next1[i] = IF n # 0 /\ i = k THEN k + 1 ELSE long[i]
  <2>1. CASE n = 0  BY <2>1, <1>7
  <2>2. CASE n # 0
    <3>1. k \in 1 .. Len(long) /\ k + 1 \in Nat  BY <1>1, <1>7, <2>2
    <3>2. next1 = [long EXCEPT ![k] = k + 1]  BY <2>2
    <3> HIDE DEF next1
    <3>3. /\ next1 \in Seq(Nat) /\ Len(next1) = Len(long)
          /\ \A j \in 1 .. Len(long) : next1[j] = IF j = k THEN k + 1 ELSE long[j]
      BY <1>7, <3>1, <3>2, ExceptSeq
    <3> QED BY <3>3, <1>7, <2>2
  <2> QED BY <2>1, <2>2
<1>9. /\ obj' \in [type : {"LinkedQueue"}, val : Seq(Values), next : Seq(Nat), head : Nat, tail : Nat,
                   length : Nat]
      /\ obj'.type = "LinkedQueue" /\ obj'.val = val1 /\ obj'.next = next1
      /\ obj'.tail = k + 1 /\ obj'.length = n + 1
      /\ obj'.head = IF n = 0 THEN k + 1 ELSE obj.head
  <2>1. k + 1 \in Nat /\ obj.length + 1 \in Nat /\ obj.length = n  BY <1>1
  <2>2. CASE n = 0
    <3>1. next1 = long  BY <2>2
    <3> HIDE DEF next1
    <3> QED BY ZenonT(40), <2>1, <2>2, <3>1, <1>1, <1>5, <1>6, <1>7
  <2>3. CASE n # 0
    <3>1. next1 = [long EXCEPT ![k] = k + 1] /\ obj.tail = k  BY <2>1, <2>3, <1>1
    <3> HIDE DEF next1
    <3>2. obj' = [[obj EXCEPT !.val = val1, !.next = long, !.tail = k + 1, !.length = @ + 1]
                  EXCEPT !.next = next1]
      BY <2>3, <3>1, <1>1, <1>5
    <3> QED BY <2>1, <2>3, <3>2, <1>1, <1>6, <1>8
  <2> QED BY <2>2, <2>3
<1> HIDE DEF next1
<1>10. (k + 1) - (n + 1) = k - n /\ obj'.head = k - n + 1
  <2>1. k \in Nat /\ n \in Nat  BY <1>1
  <2>2. obj.head = IF n = 0 THEN 0 ELSE k - n + 1  BY <1>2
  <2>3. obj'.head = IF n = 0 THEN k + 1 ELSE obj.head  BY <1>9
  <2> QED BY <2>1, <2>2, <2>3
<1>11. ASSUME NEW i \in 1 .. k + 1  PROVE next1[i] <= k + 1
  <2>1. CASE i = k + 1  BY <2>1, <1>1, <1>7, <1>8
  <2>2. CASE i \in 1 .. k
    <3>1. next[i] \in Nat /\ next[i] <= k /\ i \in 1 .. k + 1  BY <2>2, <1>1, <1>2, ElementOfSeq
    <3>2. next1[i] = IF n # 0 /\ i = k THEN k + 1 ELSE long[i]  BY <3>1, <1>8
    <3>3. long[i] = next[i]  BY <2>2, <1>7
    <3>4. next1[i] = k + 1 \/ next1[i] = next[i]  BY <3>2, <3>3
    <3> QED BY SMTT(40), <3>1, <3>4, <1>1
  <2> QED BY <2>1, <2>2, <1>1
<1>12. ASSUME NEW i \in k - n + 1 .. k + 1
       PROVE  /\ next1[i] = IF i = k + 1 THEN 0 ELSE i + 1
              /\ val1[i] = want'[i - (k - n)]
  <2>1. CASE i = k + 1
    <3>1. i - (k - n) = n + 1 /\ i \in 1 .. k + 1 /\ i # k  BY <2>1, <1>1
    <3> QED BY <2>1, <3>1, <1>4, <1>6, <1>7, <1>8
  <2>2. CASE i # k + 1
    <3>1. i \in k - n + 1 .. k /\ i \in 1 .. k /\ i \in 1 .. k + 1 /\ i - (k - n) \in 1 .. n /\ n # 0
      BY <2>2, <1>1
    <3>2. next1[i] = IF i = k THEN k + 1 ELSE next[i]  BY <3>1, <1>7, <1>8
    <3>3. next[i] = IF i = k THEN 0 ELSE i + 1  BY <3>1, <1>2
    <3>4. next1[i] = i + 1  BY <3>2, <3>3
    <3>5. val1[i] = want'[i - (k - n)]  BY <3>1, <1>2, <1>4, <1>6
    <3> QED BY <2>2, <3>4, <3>5
  <2> QED BY <2>1, <2>2
<1>13. n + 1 <= k + 1 /\ n + 1 # 0  BY <1>1
<1>14. QueueHolds'
  <2> DEFINE k2 == k + 1
             n2 == n + 1
  <2>1. /\ Len(obj'.val) = k2 /\ Len(obj'.next) = k2 /\ Len(want') = n2 /\ k2 - n2 = k - n
        /\ \A i \in 1 .. k2 : obj'.next[i] <= k2
        /\ obj'.length = n2 /\ n2 <= k2 /\ n2 # 0 /\ obj'.tail = k2 /\ obj'.head = k - n + 1
        /\ \A i \in k - n + 1 .. k2 : /\ obj'.next[i] = IF i = k2 THEN 0 ELSE i + 1
                                    /\ obj'.val[i] = want'[i - (k - n)]
    BY <1>4, <1>6, <1>8, <1>9, <1>10, <1>11, <1>12, <1>13
  <2> HIDE DEF k2, n2
  <2> QED BY <2>1, <1>9 DEF QueueHolds
<1>15. Typed'  BY <1>1, <1>3, <1>4 DEF Typed
<1> QED BY <1>9, <1>14, <1>15

LEMMA ChainDequeue ==
    ASSUME QueuesInv, LQ!Dequeue
    PROVE  Typed' /\ QueueHolds' /\ obj'.type = "LinkedQueue"
<1> DEFINE n == Len(want)
           k == Len(obj.val)
           val == obj.val
           next == obj.next
<1>1. /\ obj \in [type : {"LinkedQueue"}, val : Seq(Values), next : Seq(Nat), head : Nat, tail : Nat,
                  length : Nat]
      /\ want \in Seq(Values) /\ trusted \in BOOLEAN /\ n \in Nat /\ k \in Nat /\ n <= k
      /\ next \in Seq(Nat) /\ Len(next) = k /\ obj.length = n /\ n # 0 /\ obj.tail = k
  BY DEF QueuesInv, QueueHolds, Typed, LQ!Dequeue, LQ!Live, LQ!IsEmpty
<1>2. /\ \A i \in 1 .. k : next[i] <= k
      /\ obj.head = IF n = 0 THEN 0 ELSE k - n + 1
      /\ \A i \in k - n + 1 .. k : /\ next[i] = IF i = k THEN 0 ELSE i + 1
                                  /\ val[i] = want[i - (k - n)]
  BY DEF QueuesInv, QueueHolds, LQ!Dequeue, LQ!Live
<1>3. /\ want' = Tail(want) /\ trusted' = trusted
      /\ obj' = [obj EXCEPT !.head = next[obj.head], !.length = n - 1]
  BY <1>1 DEF LQ!Dequeue
<1>4. /\ want' \in Seq(Values) /\ Len(want') = n - 1
      /\ \A j \in 1 .. n - 1 : want'[j] = want[j + 1]
  BY <1>1, <1>3, FirstGone
<1> HIDE DEF n, k, val, next
<1>5. next[obj.head] = (IF n - 1 = 0 THEN 0 ELSE k - (n - 1) + 1) /\ next[obj.head] \in Nat
  <2>1. obj.head = k - n + 1 /\ k - n + 1 \in k - n + 1 .. k  BY <1>1, <1>2
  <2>2. next[obj.head] = IF k - n + 1 = k THEN 0 ELSE (k - n + 1) + 1  BY <2>1, <1>2
  <2> QED BY <2>2, <1>1
<1>6. /\ obj'.type = "LinkedQueue" /\ obj'.val = val /\ obj'.next = next
      /\ obj'.tail = k /\ obj'.length = n - 1 /\ obj'.head = next[obj.head]
  BY <1>1, <1>3 DEF val, next
<1>7. obj' \in [type : {"LinkedQueue"}, val : Seq(Values), next : Seq(Nat), head : Nat, tail : Nat,
                length : Nat]
  <2>1. n - 1 \in Nat  BY <1>1
  <2> QED BY <2>1, <1>1, <1>3, <1>5
<1>8. ASSUME NEW i \in k - (n - 1) + 1 .. k
      PROVE  /\ next[i] = IF i = k THEN 0 ELSE i + 1
             /\ val[i] = want'[i - (k - (n - 1))]
  <2>1. i \in k - n + 1 .. k /\ i - (k - (n - 1)) \in 1 .. n - 1
        /\ (i - (k - (n - 1))) + 1 = i - (k - n)
    BY <1>1
  <2> QED BY <2>1, <1>2, <1>4
<1>9. n - 1 <= k  BY <1>1
<1>10. Len(val) = k  BY DEF val, k
<1>11. QueueHolds'  BY <1>1, <1>2, <1>4, <1>5, <1>6, <1>7, <1>8, <1>9, <1>10 DEF QueueHolds
<1>12. Typed'  BY <1>1, <1>3, <1>4 DEF Typed
<1> QED BY <1>6, <1>11, <1>12

LEMMA ChainClear ==
    ASSUME QueuesInv, LQ!Clear
    PROVE  Typed' /\ QueueHolds' /\ obj'.type = "LinkedQueue"
<1>1. /\ obj \in [type : {"LinkedQueue"}, val : Seq(Values), next : Seq(Nat), head : Nat, tail : Nat,
                  length : Nat]
      /\ trusted \in BOOLEAN /\ Len(obj.next) = Len(obj.val) /\ Len(obj.val) \in Nat
      /\ \A i \in 1 .. Len(obj.next) : obj.next[i] <= Len(obj.next)
  BY DEF QueuesInv, QueueHolds, Typed, LQ!Clear, LQ!Live
<1>2. obj' = [obj EXCEPT !.head = 0, !.tail = 0, !.length = 0] /\ want' = <<>> /\ trusted' = trusted
  BY DEF LQ!Clear, LQ!Nil
<1>3. /\ obj'.type = "LinkedQueue" /\ obj'.val = obj.val /\ obj'.next = obj.next
      /\ obj'.head = 0 /\ obj'.length = 0
  BY <1>1, <1>2
<1>4. obj' \in [type : {"LinkedQueue"}, val : Seq(Values), next : Seq(Nat), head : Nat, tail : Nat,
                length : Nat]
  BY <1>1, <1>2
<1>5. Typed' /\ Len(want') = 0  BY <1>1, <1>2 DEF Typed
<1>6. \A k \in Nat : k - 0 + 1 .. k = {} /\ 0 <= k  OBVIOUS
<1>7. QueueHolds'  BY <1>1, <1>3, <1>4, <1>5, <1>6 DEF QueueHolds
<1> QED BY <1>3, <1>5, <1>7

LEMMA ChainKeeps ==
    ASSUME QueuesInv, LQ!Next
    PROVE  Typed' /\ QueueHolds' /\ obj'.type = "LinkedQueue"
BY ChainEnqueue, ChainDequeue, ChainClear DEF LQ!Next

LEMMA ChainAnswers ==
    ASSUME QueuesInv
    PROVE  LQ!ChainInOrder
<1> SUFFICES ASSUME obj.type = "LinkedQueue"  PROVE LQ!ChainInOrder
  BY DEF LQ!ChainInOrder
<1> DEFINE n == Len(want)
           k == Len(obj.val)
           val == obj.val
           next == obj.next
           nodes == [j \in 1 .. n |-> k - n + j]
<1>1. /\ want \in Seq(Values) /\ n \in Nat /\ k \in Nat /\ n <= k /\ val \in Seq(Values)
      /\ next \in Seq(Nat) /\ Len(next) = k /\ obj.length = n /\ (n # 0 => obj.tail = k)
  BY DEF QueuesInv, QueueHolds, Typed
<1>2. /\ \A i \in 1 .. k : next[i] <= k
      /\ obj.head = IF n = 0 THEN 0 ELSE k - n + 1
      /\ \A i \in k - n + 1 .. k : /\ next[i] = IF i = k THEN 0 ELSE i + 1
                                  /\ val[i] = want[i - (k - n)]
  BY DEF QueuesInv, QueueHolds
<1>3. obj.length = Len(want)  BY <1>1
<1> HIDE DEF n, k, val, next
<1>4. nodes \in [1 .. n -> 1 .. k]  BY <1>1
<1>5. obj.head = IF n = 0 THEN 0 ELSE nodes[1]  BY <1>1, <1>2
<1>6. ASSUME NEW j \in 1 .. n  PROVE next[nodes[j]] = IF j = n THEN 0 ELSE nodes[j + 1]
  <2>1. nodes[j] = k - n + j /\ k - n + j \in k - n + 1 .. k  BY <1>1
  <2>2. next[nodes[j]] = IF k - n + j = k THEN 0 ELSE k - n + j + 1  BY <2>1, <1>2
  <2>3. (j = n) <=> (k - n + j = k)  BY <1>1
  <2>4. j # n => nodes[j + 1] = k - n + j + 1  BY <1>1
  <2> QED BY <2>2, <2>3, <2>4
<1>7. \A j \in 1 .. n : val[nodes[j]] = want[j]
  <2> TAKE j \in 1 .. n
  <2>1. nodes[j] = k - n + j /\ k - n + j \in k - n + 1 .. k /\ (k - n + j) - (k - n) = j  BY <1>1
  <2> QED BY <2>1, <1>2
<1>a. DOMAIN nodes = 1 .. n  OBVIOUS
<1> HIDE DEF nodes
<1>8. Walk(next, obj.head) = nodes
  <2>1. Len(next) = k /\ n <= Len(next) /\ \A i \in 1 .. Len(next) : next[i] <= Len(next)  BY <1>1, <1>2
  <2>2. nodes \in [1 .. n -> 1 .. Len(next)]  BY <1>4, <2>1
  <2> DEFINE p == obj.head
  <2>3. p = IF n = 0 THEN 0 ELSE nodes[1]  BY <1>5
  <2>4. \A j \in 1 .. n : next[nodes[j]] = IF j = n THEN 0 ELSE nodes[j + 1]  BY <1>6
  <2>5. n \in Nat /\ next \in Seq(Nat)  BY <1>1
  <2> HIDE DEF p
  <2>6. Walk(next, p) = nodes  BY <2>1, <2>2, <2>3, <2>4, <2>5, WalkVisits, Zenon
  <2> QED BY <2>6 DEF p
<1>9. LQ!Data = want
  <2>1. LQ!Walk(next, obj.head) = Walk(next, obj.head)  BY DEF LQ!Walk, Walk, LQ!Nil, Nil
  <2>2. LQ!Data = [i \in 1 .. n |-> val[nodes[i]]]  BY <1>8, <1>a, <2>1 DEF LQ!Data, LQ!ValuesOf, val, next
  <2>3. want = [i \in 1 .. n |-> want[i]]  BY <1>1, LenProperties DEF n
  <2> QED BY <2>2, <2>3, <1>7
<1>10. ASSUME want # <<>>  PROVE LQ!Front = Head(want) /\ LQ!Back = want[Len(want)]
  <2>1. n # 0 /\ Head(want) = want[1]  BY <1>1, <1>10 DEF n
  <2>2. /\ k - n + 1 \in k - n + 1 .. k /\ (k - n + 1) - (k - n) = 1
        /\ k \in k - n + 1 .. k /\ k - (k - n) = n
    BY <1>1, <2>1
  <2>3. val[k - n + 1] = want[1] /\ val[k] = want[n]  BY <2>2, <1>2
  <2>4. obj.head = k - n + 1 /\ obj.tail = k  BY <1>1, <1>2, <2>1
  <2> QED BY <2>1, <2>3, <2>4 DEF LQ!Front, LQ!Back, val, n
<1>11. \A v \in Values : LQ!Contain(v) <=> \E i \in DOMAIN want : want[i] = v  BY <1>9 DEF LQ!Contain
<1> QED BY <1>3, <1>9, <1>10, <1>11 DEF LQ!ChainInOrder

-----------------------------------------------------------------------------
(* The stacks *)

LEMMA SlicePush ==
    ASSUME QueuesInv, NEW v \in Values, ST!ArrayPush(v)
    PROVE  Typed' /\ SliceHolds' /\ obj'.type = "ArrayStack"
<1> DEFINE n == Len(want)
           d == obj.data
           e == <<v>> \o d
<1>1. /\ obj \in [type : {"ArrayStack"}, data : Seq(Values), length : Nat]
      /\ want \in Seq(Values) /\ trusted \in BOOLEAN /\ n \in Nat /\ d \in Seq(Values)
      /\ obj.length = n /\ Len(d) = n /\ \A j \in 1 .. n : d[j] = want[n + 1 - j]
  BY DEF QueuesInv, SliceHolds, Typed, ST!ArrayPush
<1>2. /\ want' = Append(want, v) /\ trusted' = trusted
      /\ obj' = [obj EXCEPT !.data = e, !.length = n + 1]
  BY <1>1 DEF ST!ArrayPush
<1>3. /\ want' \in Seq(Values) /\ Len(want') = n + 1
      /\ \A j \in 1 .. n : want'[j] = want[j]
      /\ want'[n + 1] = v
  BY <1>1, <1>2, Appended
<1> HIDE DEF n, d
<1>4. <<v>> \in Seq(Values) /\ Len(<<v>>) = 1 /\ <<v>>[1] = v  OBVIOUS
<1>5. /\ e \in Seq(Values) /\ Len(e) = 1 + n
      /\ \A i \in 1 .. 1 + n : e[i] = IF i <= 1 THEN <<v>>[i] ELSE d[i - 1]
  BY <1>1, <1>4, ConcatProperties
<1> HIDE DEF e
<1>6. ASSUME NEW j \in 1 .. n + 1  PROVE e[j] = want'[(n + 1) + 1 - j]
  <2>1. CASE j = 1
    <3>1. (n + 1) + 1 - j = n + 1 /\ j \in 1 .. 1 + n  BY <2>1, <1>1
    <3> QED BY <2>1, <3>1, <1>3, <1>4, <1>5
  <2>2. CASE j # 1
    <3>1. /\ j - 1 \in 1 .. n /\ (n + 1) + 1 - j \in 1 .. n /\ n + 1 - (j - 1) = (n + 1) + 1 - j
          /\ j \in 1 .. 1 + n /\ ~(j <= 1)
      BY <2>2, <1>1
    <3>2. e[j] = d[j - 1]  BY <3>1, <1>5
    <3>3. d[j - 1] = want[n + 1 - (j - 1)]  BY <3>1, <1>1
    <3> QED BY <3>1, <3>2, <3>3, <1>3
  <2> QED BY <2>1, <2>2
<1>7. /\ obj' \in [type : {"ArrayStack"}, data : Seq(Values), length : Nat]
      /\ obj'.type = "ArrayStack" /\ obj'.data = e /\ obj'.length = n + 1
  <2> DEFINE m == n + 1
  <2>1. m \in Nat /\ obj' = [obj EXCEPT !.data = e, !.length = m]  BY <1>1, <1>2
  <2> HIDE DEF m
  <2>2. /\ obj' \in [type : {"ArrayStack"}, data : Seq(Values), length : Nat]
        /\ obj'.type = "ArrayStack" /\ obj'.data = e /\ obj'.length = m
    BY <2>1, <1>1, <1>5
  <2> QED BY <2>2 DEF m
<1>8. SliceHolds'  BY <1>1, <1>3, <1>5, <1>6, <1>7 DEF SliceHolds
<1>9. Typed'  BY <1>1, <1>2, <1>3 DEF Typed
<1> QED BY <1>7, <1>8, <1>9

LEMMA SlicePop ==
    ASSUME QueuesInv, ST!ArrayPop
    PROVE  Typed' /\ SliceHolds' /\ obj'.type = "ArrayStack"
<1> DEFINE n == Len(want)
           d == obj.data
           e == Tail(d)
<1>1. /\ obj \in [type : {"ArrayStack"}, data : Seq(Values), length : Nat]
      /\ want \in Seq(Values) /\ trusted \in BOOLEAN /\ n \in Nat /\ d \in Seq(Values)
      /\ obj.length = n /\ Len(d) = n /\ n # 0 /\ \A j \in 1 .. n : d[j] = want[n + 1 - j]
  BY DEF QueuesInv, SliceHolds, Typed, ST!ArrayPop
<1>2. /\ want' = SubSeq(want, 1, Len(want) - 1) /\ trusted' = trusted
      /\ obj' = [obj EXCEPT !.data = e, !.length = n - 1]
  BY <1>1 DEF ST!ArrayPop
<1>3. /\ want' \in Seq(Values) /\ Len(want') = n - 1
      /\ \A j \in 1 .. n - 1 : want'[j] = want[j]
  BY <1>1, <1>2, LastGone
<1> HIDE DEF n, d
<1>4. /\ e \in Seq(Values) /\ Len(e) = n - 1 /\ \A i \in 1 .. n - 1 : e[i] = d[i + 1]
  <2>1. d # <<>>  BY <1>1
  <2> QED BY <1>1, <2>1, HeadTailProperties
<1> HIDE DEF e
<1>5. ASSUME NEW j \in 1 .. n - 1  PROVE e[j] = want'[(n - 1) + 1 - j]
  <2>1. /\ j + 1 \in 1 .. n /\ n + 1 - (j + 1) = (n - 1) + 1 - j /\ (n - 1) + 1 - j \in 1 .. n - 1
    BY <1>1
  <2>2. e[j] = want[n + 1 - (j + 1)]  BY <2>1, <1>1, <1>4
  <2> QED BY <2>1, <2>2, <1>3
<1>6. n - 1 \in Nat  BY <1>1
<1>7. /\ obj' \in [type : {"ArrayStack"}, data : Seq(Values), length : Nat]
      /\ obj'.type = "ArrayStack" /\ obj'.data = e /\ obj'.length = n - 1
  BY <1>1, <1>2, <1>4, <1>6
<1>8. SliceHolds'  BY <1>3, <1>4, <1>5, <1>7 DEF SliceHolds
<1>9. Typed'  BY <1>1, <1>2, <1>3 DEF Typed
<1> QED BY <1>7, <1>8, <1>9

LEMMA SliceClear ==
    ASSUME QueuesInv, ST!ArrayClear
    PROVE  Typed' /\ SliceHolds' /\ obj'.type = "ArrayStack"
<1>1. obj \in [type : {"ArrayStack"}, data : Seq(Values), length : Nat] /\ trusted \in BOOLEAN
  BY DEF QueuesInv, SliceHolds, Typed, ST!ArrayClear
<1>2. obj' = [obj EXCEPT !.data = <<>>, !.length = 0] /\ want' = <<>> /\ trusted' = trusted
  BY DEF ST!ArrayClear
<1> DEFINE e == <<>>
<1>3. e \in Seq(Values) /\ Len(e) = 0 /\ want' = e  BY <1>2
<1>4. obj' = [obj EXCEPT !.data = e, !.length = 0]  BY <1>2
<1> HIDE DEF e
<1>5. /\ obj' \in [type : {"ArrayStack"}, data : Seq(Values), length : Nat]
      /\ obj'.type = "ArrayStack" /\ obj'.data = e /\ obj'.length = 0
  BY <1>1, <1>3, <1>4
<1> QED BY <1>1, <1>2, <1>3, <1>5 DEF SliceHolds, Typed

LEMMA NodePush ==
    ASSUME QueuesInv, NEW v \in Values, ST!LinkedPush(v)
    PROVE  Typed' /\ StackHolds' /\ obj'.type = "LinkedStack"
<1> DEFINE n == Len(want)
           k == Len(obj.val)
           val == obj.val
           next == obj.next
           top == obj.top
           val1 == Append(val, v)
           next1 == Append(next, top)
<1>1. /\ obj \in [type : {"LinkedStack"}, val : Seq(Values), next : Seq(Nat), top : Nat, length : Nat]
      /\ want \in Seq(Values) /\ trusted \in BOOLEAN /\ n \in Nat /\ k \in Nat /\ n <= k
      /\ val \in Seq(Values) /\ next \in Seq(Nat) /\ Len(next) = k /\ obj.length = n /\ top \in Nat
      /\ \A i \in 1 .. k : next[i] <= k
  BY DEF QueuesInv, StackHolds, Typed, ST!LinkedPush
<1>2. PICK nodes \in [1 .. n -> 1 .. k] :
        /\ top = IF n = 0 THEN 0 ELSE nodes[1]
        /\ \A j \in 1 .. n : /\ next[nodes[j]] = IF j = n THEN 0 ELSE nodes[j + 1]
                             /\ val[nodes[j]] = want[n + 1 - j]
  BY DEF QueuesInv, StackHolds, ST!LinkedPush
<1>3. /\ want' = Append(want, v) /\ trusted' = trusted
      /\ obj' = [obj EXCEPT !.val = val1, !.next = next1, !.top = k + 1, !.length = n + 1]
  BY <1>1 DEF ST!LinkedPush
<1>4. /\ want' \in Seq(Values) /\ Len(want') = n + 1
      /\ \A j \in 1 .. n : want'[j] = want[j]
      /\ want'[n + 1] = v
  BY <1>1, <1>3, Appended
<1> HIDE DEF n, k, val, next, top
<1>a. Len(val) = k  BY DEF val, k
<1>5. /\ val1 \in Seq(Values) /\ Len(val1) = k + 1
      /\ \A i \in 1 .. k : val1[i] = val[i]
      /\ val1[k + 1] = v
  BY <1>1, <1>a, AppendProperties
<1>6. /\ next1 \in Seq(Nat) /\ Len(next1) = k + 1
      /\ \A i \in 1 .. k : next1[i] = next[i]
      /\ next1[k + 1] = top
  BY <1>1, AppendProperties
<1> HIDE DEF val1, next1
<1>7. top <= k  BY <1>1, <1>2
<1>8. ASSUME NEW i \in 1 .. k + 1  PROVE next1[i] <= k + 1
  <2>1. CASE i = k + 1  BY <2>1, <1>1, <1>6, <1>7
  <2>2. CASE i # k + 1
    <3>1. i \in 1 .. k  BY <2>2, <1>1
    <3>2. next[i] \in Nat  BY <3>1, <1>1, ElementOfSeq
    <3> QED BY <3>1, <3>2, <1>1, <1>6
  <2> QED BY <2>1, <2>2
<1> DEFINE more == [j \in 1 .. n + 1 |-> IF j = 1 THEN k + 1 ELSE nodes[j - 1]]
<1>9. more \in [1 .. n + 1 -> 1 .. k + 1]
  <2>1. \A j \in 1 .. n + 1 : j # 1 => j - 1 \in 1 .. n  BY <1>1
  <2>2. \A j \in 1 .. n : nodes[j] \in 1 .. k + 1  BY SMTT(40), <1>1
  <2> QED BY <2>1, <2>2, <1>1
<1>10. ASSUME NEW j \in 1 .. n + 1
       PROVE  /\ next1[more[j]] = IF j = n + 1 THEN 0 ELSE more[j + 1]
              /\ val1[more[j]] = want'[(n + 1) + 1 - j]
  <2>1. CASE j = 1
    <3>1. more[j] = k + 1 /\ next1[k + 1] = top /\ val1[k + 1] = v /\ (n + 1) + 1 - j = n + 1
      BY <2>1, <1>1, <1>5, <1>6
    <3>2. j # n + 1 => more[j + 1] = nodes[1] /\ n # 0
      <4>1. ASSUME j # n + 1  PROVE j + 1 \in 1 .. n + 1 /\ j + 1 # 1 /\ (j + 1) - 1 = 1 /\ n # 0
        BY <2>1, <4>1, <1>1
      <4> QED BY <4>1
    <3>3. j = n + 1 => n = 0  BY <2>1, <1>1
    <3> QED BY <3>1, <3>2, <3>3, <1>2, <1>4
  <2>2. CASE j # 1
    <3>1. j - 1 \in 1 .. n /\ more[j] = nodes[j - 1]  BY <2>2, <1>1
    <3>2. nodes[j - 1] \in 1 .. k  BY <3>1
    <3>3. next1[more[j]] = IF j - 1 = n THEN 0 ELSE nodes[(j - 1) + 1]  BY <3>1, <3>2, <1>2, <1>6
    <3>4. (j - 1 = n) <=> (j = n + 1)  BY <1>1
    <3>5. j # n + 1 => more[j + 1] = nodes[(j - 1) + 1]
      <4>1. ASSUME j # n + 1  PROVE j + 1 \in 1 .. n + 1 /\ j + 1 # 1 /\ (j + 1) - 1 = (j - 1) + 1
        BY <4>1, <1>1
      <4> QED BY <4>1
    <3>6. val1[more[j]] = want[n + 1 - (j - 1)]  BY <3>1, <3>2, <1>2, <1>5
    <3>7. n + 1 - (j - 1) = (n + 1) + 1 - j /\ n + 1 - (j - 1) \in 1 .. n  BY <3>1, <1>1
    <3>8. val1[more[j]] = want'[(n + 1) + 1 - j]  BY <3>6, <3>7, <1>4
    <3> QED BY <3>3, <3>4, <3>5, <3>8
  <2> QED BY <2>1, <2>2
<1>11. more[1] = k + 1  BY <1>1
<1> HIDE DEF more
<1>12. n + 1 \in Nat /\ k + 1 \in Nat /\ n + 1 # 0 /\ n + 1 <= k + 1  BY <1>1
<1>13. /\ obj' \in [type : {"LinkedStack"}, val : Seq(Values), next : Seq(Nat), top : Nat, length : Nat]
       /\ obj'.type = "LinkedStack" /\ obj'.val = val1 /\ obj'.next = next1 /\ obj'.top = k + 1
       /\ obj'.length = n + 1
  BY <1>1, <1>3, <1>5, <1>6, <1>12
<1>14. StackHolds'
  <2> DEFINE k2 == k + 1
             n2 == n + 1
  <2>1. /\ Len(obj'.val) = k2 /\ Len(obj'.next) = k2 /\ Len(want') = n2
        /\ \A i \in 1 .. k2 : obj'.next[i] <= k2
        /\ obj'.length = n2 /\ n2 <= k2 /\ n2 # 0 /\ obj'.top = more[1]
        /\ more \in [1 .. n2 -> 1 .. k2]
        /\ \A j \in 1 .. n2 : /\ obj'.next[more[j]] = IF j = n2 THEN 0 ELSE more[j + 1]
                              /\ obj'.val[more[j]] = want'[n2 + 1 - j]
    BY <1>4, <1>5, <1>6, <1>8, <1>9, <1>10, <1>11, <1>12, <1>13
  <2> HIDE DEF k2, n2
  <2>2. /\ more \in [1 .. Len(want') -> 1 .. Len(obj'.val)]
        /\ obj'.top = IF Len(want') = 0 THEN 0 ELSE more[1]
        /\ \A j \in 1 .. Len(want') :
             /\ obj'.next[more[j]] = IF j = Len(want') THEN 0 ELSE more[j + 1]
             /\ obj'.val[more[j]] = want'[Len(want') + 1 - j]
    BY <2>1
  <2>3. \E chain \in [1 .. Len(want') -> 1 .. Len(obj'.val)] :
           /\ obj'.top = IF Len(want') = 0 THEN 0 ELSE chain[1]
           /\ \A j \in 1 .. Len(want') :
                /\ obj'.next[chain[j]] = IF j = Len(want') THEN 0 ELSE chain[j + 1]
                /\ obj'.val[chain[j]] = want'[Len(want') + 1 - j]
    BY <2>2, Zenon
  <2> QED BY <2>1, <2>3, <1>13 DEF StackHolds
<1>15. Typed'  BY <1>1, <1>3, <1>4 DEF Typed
<1> QED BY <1>13, <1>14, <1>15

LEMMA NodePop ==
    ASSUME QueuesInv, ST!LinkedPop
    PROVE  Typed' /\ StackHolds' /\ obj'.type = "LinkedStack"
<1> DEFINE n == Len(want)
           k == Len(obj.val)
           val == obj.val
           next == obj.next
           top == obj.top
<1>1. /\ obj \in [type : {"LinkedStack"}, val : Seq(Values), next : Seq(Nat), top : Nat, length : Nat]
      /\ want \in Seq(Values) /\ trusted \in BOOLEAN /\ n \in Nat /\ k \in Nat /\ n <= k
      /\ val \in Seq(Values) /\ next \in Seq(Nat) /\ Len(next) = k /\ obj.length = n /\ top \in Nat
      /\ \A i \in 1 .. k : next[i] <= k
      /\ n # 0
  BY DEF QueuesInv, StackHolds, Typed, ST!LinkedPop
<1>2. PICK nodes \in [1 .. n -> 1 .. k] :
        /\ top = IF n = 0 THEN 0 ELSE nodes[1]
        /\ \A j \in 1 .. n : /\ next[nodes[j]] = IF j = n THEN 0 ELSE nodes[j + 1]
                             /\ val[nodes[j]] = want[n + 1 - j]
  BY DEF QueuesInv, StackHolds, ST!LinkedPop
<1>3. /\ want' = SubSeq(want, 1, Len(want) - 1) /\ trusted' = trusted
      /\ obj' = [obj EXCEPT !.top = next[top], !.length = n - 1]
  BY <1>1 DEF ST!LinkedPop
<1>4. /\ want' \in Seq(Values) /\ Len(want') = n - 1
      /\ \A j \in 1 .. n - 1 : want'[j] = want[j]
  BY <1>1, <1>3, LastGone
<1> HIDE DEF n, k, val, next, top
<1>a. Len(val) = k  BY DEF val, k
<1> DEFINE fewer == [j \in 1 .. n - 1 |-> nodes[j + 1]]
<1>5. fewer \in [1 .. n - 1 -> 1 .. k]
  <2>1. \A j \in 1 .. n - 1 : j + 1 \in 1 .. n  BY <1>1
  <2> QED BY <2>1
<1>6. next[top] = (IF n - 1 = 0 THEN 0 ELSE fewer[1]) /\ next[top] \in Nat
  <2>1. 1 \in 1 .. n /\ top = nodes[1] /\ nodes[1] \in 1 .. k  BY <1>1, <1>2
  <2>2. next[top] = IF 1 = n THEN 0 ELSE nodes[1 + 1]  BY <2>1, <1>2
  <2>3. n # 1 => 1 \in 1 .. n - 1 /\ fewer[1] = nodes[1 + 1]  BY <1>1
  <2>4. next[top] \in Nat  BY <2>1, <1>1, ElementOfSeq
  <2>5. (n - 1 = 0) <=> (1 = n)  BY <1>1
  <2> QED BY <2>2, <2>3, <2>4, <2>5
<1>7. ASSUME NEW j \in 1 .. n - 1
      PROVE  /\ next[fewer[j]] = IF j = n - 1 THEN 0 ELSE fewer[j + 1]
             /\ val[fewer[j]] = want'[(n - 1) + 1 - j]
  <2>1. j + 1 \in 1 .. n /\ fewer[j] = nodes[j + 1]  BY <1>1
  <2>2. next[fewer[j]] = IF j + 1 = n THEN 0 ELSE nodes[(j + 1) + 1]  BY <2>1, <1>2
  <2>3. (j + 1 = n) <=> (j = n - 1)  BY <1>1
  <2>4. j # n - 1 => fewer[j + 1] = nodes[(j + 1) + 1]  BY <1>1
  <2>5. val[fewer[j]] = want[n + 1 - (j + 1)]  BY <2>1, <1>2
  <2>6. n + 1 - (j + 1) = (n - 1) + 1 - j /\ (n - 1) + 1 - j \in 1 .. n - 1  BY <1>1
  <2> QED BY <2>2, <2>3, <2>4, <2>5, <2>6, <1>4
<1> HIDE DEF fewer
<1>8. n - 1 \in Nat /\ n - 1 <= k  BY <1>1
<1>9. /\ obj' \in [type : {"LinkedStack"}, val : Seq(Values), next : Seq(Nat), top : Nat, length : Nat]
      /\ obj'.type = "LinkedStack" /\ obj'.val = val /\ obj'.next = next /\ obj'.top = next[top]
      /\ obj'.length = n - 1
  BY <1>1, <1>3, <1>6, <1>8 DEF val, next
<1>10. StackHolds'
  <2> DEFINE n2 == n - 1
  <2>1. /\ Len(obj'.val) = k /\ Len(obj'.next) = k /\ Len(want') = n2
        /\ \A i \in 1 .. k : obj'.next[i] <= k
        /\ obj'.length = n2 /\ n2 <= k /\ obj'.top = IF n2 = 0 THEN 0 ELSE fewer[1]
        /\ fewer \in [1 .. n2 -> 1 .. k]
        /\ \A j \in 1 .. n2 : /\ obj'.next[fewer[j]] = IF j = n2 THEN 0 ELSE fewer[j + 1]
                              /\ obj'.val[fewer[j]] = want'[n2 + 1 - j]
    BY <1>1, <1>a, <1>4, <1>5, <1>6, <1>7, <1>8, <1>9
  <2> HIDE DEF n2
  <2>2. /\ fewer \in [1 .. Len(want') -> 1 .. Len(obj'.val)]
        /\ obj'.top = IF Len(want') = 0 THEN 0 ELSE fewer[1]
        /\ \A j \in 1 .. Len(want') :
             /\ obj'.next[fewer[j]] = IF j = Len(want') THEN 0 ELSE fewer[j + 1]
             /\ obj'.val[fewer[j]] = want'[Len(want') + 1 - j]
    BY <2>1
  <2>3. \E chain \in [1 .. Len(want') -> 1 .. Len(obj'.val)] :
           /\ obj'.top = IF Len(want') = 0 THEN 0 ELSE chain[1]
           /\ \A j \in 1 .. Len(want') :
                /\ obj'.next[chain[j]] = IF j = Len(want') THEN 0 ELSE chain[j + 1]
                /\ obj'.val[chain[j]] = want'[Len(want') + 1 - j]
    BY <2>2, Zenon
  <2> QED BY <2>1, <2>3, <1>9 DEF StackHolds
<1>11. Typed'  BY <1>1, <1>3, <1>4 DEF Typed
<1> QED BY <1>9, <1>10, <1>11

LEMMA NodeClear ==
    ASSUME QueuesInv, ST!LinkedClear
    PROVE  Typed' /\ StackHolds' /\ obj'.type = "LinkedStack"
<1>1. /\ obj \in [type : {"LinkedStack"}, val : Seq(Values), next : Seq(Nat), top : Nat, length : Nat]
      /\ trusted \in BOOLEAN /\ Len(obj.next) = Len(obj.val) /\ Len(obj.val) \in Nat
      /\ \A i \in 1 .. Len(obj.next) : obj.next[i] <= Len(obj.next)
  BY DEF QueuesInv, StackHolds, Typed, ST!LinkedClear
<1>2. obj' = [obj EXCEPT !.top = 0, !.length = 0] /\ want' = <<>> /\ trusted' = trusted
  BY DEF ST!LinkedClear, ST!Nil
<1>3. /\ obj' \in [type : {"LinkedStack"}, val : Seq(Values), next : Seq(Nat), top : Nat, length : Nat]
      /\ obj'.type = "LinkedStack" /\ obj'.val = obj.val /\ obj'.next = obj.next
      /\ obj'.top = 0 /\ obj'.length = 0
  BY <1>1, <1>2
<1>4. Typed' /\ Len(want') = 0  BY <1>1, <1>2 DEF Typed
<1> DEFINE none == [j \in 1 .. 0 |-> 1]
<1>5. \A k \in Nat : 0 <= k /\ none \in [1 .. 0 -> 1 .. k]  OBVIOUS
<1>6. 1 .. 0 = {}  OBVIOUS
<1> HIDE DEF none
<1>7. \E nodes \in [1 .. Len(want') -> 1 .. Len(obj'.val)] :
         /\ obj'.top = IF Len(want') = 0 THEN 0 ELSE nodes[1]
         /\ \A j \in 1 .. Len(want') :
              /\ obj'.next[nodes[j]] = IF j = Len(want') THEN 0 ELSE nodes[j + 1]
              /\ obj'.val[nodes[j]] = want'[Len(want') + 1 - j]
  <2>1. none \in [1 .. Len(want') -> 1 .. Len(obj'.val)]  BY <1>1, <1>3, <1>4, <1>5
  <2>2. Len(want') = 0 /\ obj'.top = 0 /\ 1 .. Len(want') = {}  BY <1>3, <1>4, <1>6
  <2>3. \A j \in 1 .. Len(want') : FALSE  BY <2>2
  <2> QED BY <2>1, <2>2, <2>3, Zenon
<1>8. StackHolds'  BY <1>1, <1>3, <1>4, <1>5, <1>7 DEF StackHolds
<1> QED BY <1>3, <1>4, <1>8

LEMMA StacksKeep ==
    ASSUME QueuesInv, ST!Next
    PROVE  \/ Typed' /\ SliceHolds' /\ obj'.type = "ArrayStack"
           \/ Typed' /\ StackHolds' /\ obj'.type = "LinkedStack"
BY SlicePush, SlicePop, SliceClear, NodePush, NodePop, NodeClear DEF ST!Next

LEMMA StacksAnswer ==
    ASSUME QueuesInv
    PROVE  ST!NewestFirst
<1> DEFINE n == Len(want)
<1>0. want \in Seq(Values) /\ n \in Nat /\ DOMAIN want = 1 .. n  BY LenProperties DEF QueuesInv, Typed
<1>1. CASE obj.type = "ArrayStack"
  <2>1. /\ obj.data \in Seq(Values) /\ obj.length = n /\ Len(obj.data) = n
        /\ \A j \in 1 .. n : obj.data[j] = want[n + 1 - j]
    BY <1>1 DEF QueuesInv, SliceHolds
  <2>2. DOMAIN obj.data = 1 .. n /\ obj.data = [j \in 1 .. n |-> obj.data[j]]  BY <2>1, LenProperties
  <2>3. ST!Backwards(want) = [j \in 1 .. n |-> want[n + 1 - j]]  BY <1>0 DEF ST!Backwards
  <2> HIDE DEF n
  <2>4. obj.data = ST!Backwards(want)  BY <2>1, <2>2, <2>3
  <2>5. obj.type # "LinkedStack"  BY <1>1
  <2> QED BY <2>1, <2>4, <2>5 DEF ST!NewestFirst, n
<1>2. CASE obj.type = "LinkedStack"
  <2> DEFINE k == Len(obj.val)
             val == obj.val
             next == obj.next
             top == obj.top
  <2>1. /\ n \in Nat /\ k \in Nat /\ n <= k /\ val \in Seq(Values) /\ next \in Seq(Nat)
        /\ Len(next) = k /\ obj.length = n /\ \A i \in 1 .. k : next[i] <= k
    <3>1. /\ obj \in [type : {"LinkedStack"}, val : Seq(Values), next : Seq(Nat), top : Nat,
                      length : Nat]
          /\ Len(obj.next) = Len(obj.val) /\ obj.length = n /\ obj.length <= Len(obj.val)
          /\ \A i \in 1 .. Len(obj.next) : obj.next[i] <= Len(obj.next)
      BY <1>2 DEF QueuesInv, StackHolds
    <3>2. val \in Seq(Values) /\ next \in Seq(Nat) /\ Len(val) \in Nat  BY <3>1
    <3> QED BY <1>0, <3>1, <3>2
  <2>2. PICK nodes \in [1 .. n -> 1 .. k] :
          /\ top = IF n = 0 THEN 0 ELSE nodes[1]
          /\ \A j \in 1 .. n : /\ next[nodes[j]] = IF j = n THEN 0 ELSE nodes[j + 1]
                               /\ val[nodes[j]] = want[n + 1 - j]
    BY <1>2 DEF QueuesInv, StackHolds
  <2>a. ST!Backwards(want) = [j \in 1 .. n |-> want[n + 1 - j]]  BY <1>0 DEF ST!Backwards
  <2> HIDE DEF n, k, val, next, top
  <2>3. Walk(next, top) = nodes
    <3>1. Len(next) = k /\ n <= Len(next) /\ \A i \in 1 .. Len(next) : next[i] <= Len(next)  BY <2>1
    <3>2. nodes \in [1 .. n -> 1 .. Len(next)]  BY <2>2, <3>1
    <3>3. \A j \in 1 .. n : next[nodes[j]] = IF j = n THEN 0 ELSE nodes[j + 1]  BY <2>2
    <3>4. n \in Nat /\ next \in Seq(Nat) /\ top = IF n = 0 THEN 0 ELSE nodes[1]  BY <2>1, <2>2
    <3> QED BY ZenonT(40), <3>1, <3>2, <3>3, <3>4, WalkVisits
  <2>4. ST!Walk(next, top) = Walk(next, top)  BY DEF ST!Walk, Walk, ST!Nil, Nil
  <2>5. DOMAIN nodes = 1 .. n  OBVIOUS
  <2>6. ST!LinkedData = [j \in 1 .. n |-> val[nodes[j]]]
    BY <2>3, <2>4, <2>5 DEF ST!LinkedData, ST!ValuesOf, val, next, top
  <2>7. ST!LinkedData = ST!Backwards(want)  BY <2>2, <2>6, <2>a
  <2>8. ASSUME want # <<>>  PROVE ST!LinkedPeak = want[n]
    <3>1. n # 0  BY <2>8, <1>0 DEF n
    <3>2. 1 \in 1 .. n /\ n + 1 - 1 = n  BY <2>1, <3>1
    <3>3. val[nodes[1]] = want[n + 1 - 1]  BY <3>2, <2>2
    <3>4. top = nodes[1]  BY <3>1, <2>2
    <3> QED BY <3>2, <3>3, <3>4 DEF ST!LinkedPeak, val, top
  <2>9. obj.type # "ArrayStack"  BY <1>2
  <2> QED BY <2>1, <2>7, <2>8, <2>9 DEF ST!NewestFirst, n
<1> QED BY <1>1, <1>2 DEF ST!NewestFirst

-----------------------------------------------------------------------------
(* The specification *)

LEMMA QueuesStart ==
    ASSUME QueuesInit
    PROVE  QueuesInv
<1>1. want = <<>> /\ trusted = TRUE
  BY DEF QueuesInit, AQ!Init, CQ!Init, LQ!Init, ST!Init
<1>2. Typed /\ Len(want) = 0 /\ 1 .. 0 = {}  BY <1>1, EmptySeq DEF Typed
<1>3. CASE AQ!Init
  <2>1. obj.type = "ArrayQueue" /\ ArrayHolds
    BY <1>1, <1>3, QueuesAssumption DEF AQ!Init, AQ!Empty, ArrayHolds
  <2> QED BY <1>2, <2>1 DEF QueuesInv, Types, RingHolds, QueueHolds, SliceHolds, StackHolds
<1>4. CASE CQ!Init
  <2> DEFINE d == [i \in 1 .. RingCapacity |-> 0]
  <2>1. obj = [type |-> "CircularQueue", data |-> d, front |-> 0, rear |-> 0,
               capacity |-> RingCapacity, panicked |-> FALSE]
    BY <1>4 DEF CQ!Init
  <2>2. d \in [1 .. RingCapacity -> Values \cup {0}] /\ \A i \in 1 .. RingCapacity : d[i] = 0
    OBVIOUS
  <2> HIDE DEF d
  <2>3. d \in Seq(Values \cup {0}) /\ Len(d) = RingCapacity
    BY <2>2, QueuesAssumption, FunctionIsSeq
  <2>4. /\ obj \in [type : {"CircularQueue"}, data : Seq(Values \cup {0}), front : Nat, rear : Nat,
                    capacity : Nat, panicked : BOOLEAN]
        /\ obj.type = "CircularQueue" /\ obj.data = d /\ obj.front = 0 /\ obj.rear = 0
        /\ obj.capacity = RingCapacity /\ obj.panicked = FALSE
    BY <2>1, <2>3, QueuesAssumption
  <2>5. RingCapacity # 0 => 0 < RingCapacity /\ Slot(0, 0 + 1, RingCapacity) - 1 = 0
    BY QueuesAssumption DEF Slot
  <2>6. RingHolds  BY <1>1, <1>2, <2>2, <2>3, <2>4, <2>5 DEF RingHolds
  <2> QED BY <1>2, <2>4, <2>6 DEF QueuesInv, Types, ArrayHolds, QueueHolds, SliceHolds, StackHolds
<1>5. CASE LQ!Init
  <2>1. /\ obj = [type |-> "LinkedQueue", val |-> <<>>, next |-> <<>>, head |-> 0, tail |-> 0,
                  length |-> 0]
    BY <1>5 DEF LQ!Init, LQ!Nil
  <2>2. /\ obj \in [type : {"LinkedQueue"}, val : Seq(Values), next : Seq(Nat), head : Nat, tail : Nat,
                    length : Nat]
        /\ obj.type = "LinkedQueue" /\ Len(obj.val) = 0 /\ Len(obj.next) = 0
        /\ obj.head = 0 /\ obj.length = 0
    BY <2>1
  <2>3. QueueHolds  BY <1>2, <2>2 DEF QueueHolds
  <2> QED BY <1>2, <2>2, <2>3 DEF QueuesInv, Types, ArrayHolds, RingHolds, SliceHolds, StackHolds
<1>6. CASE ST!Init
  <2>1. CASE obj = [type |-> "ArrayStack", data |-> <<>>, length |-> 0]
    <3>1. /\ obj \in [type : {"ArrayStack"}, data : Seq(Values), length : Nat]
          /\ obj.type = "ArrayStack" /\ obj.length = 0 /\ Len(obj.data) = 0
      BY <2>1
    <3>2. SliceHolds  BY <1>2, <3>1 DEF SliceHolds
    <3> QED BY <1>2, <3>1, <3>2 DEF QueuesInv, Types, ArrayHolds, RingHolds, QueueHolds, StackHolds
  <2>2. CASE obj = [type |-> "LinkedStack", val |-> <<>>, next |-> <<>>, top |-> 0, length |-> 0]
    <3>1. /\ obj \in [type : {"LinkedStack"}, val : Seq(Values), next : Seq(Nat), top : Nat,
                      length : Nat]
          /\ obj.type = "LinkedStack" /\ Len(obj.val) = 0 /\ Len(obj.next) = 0
          /\ obj.top = 0 /\ obj.length = 0
      BY <2>2
    <3> DEFINE none == [j \in 1 .. 0 |-> 1]
    <3>2. none \in [1 .. 0 -> 1 .. 0]  OBVIOUS
    <3> HIDE DEF none
    <3>3. StackHolds  BY <1>2, <3>1, <3>2 DEF StackHolds
    <3> QED BY <1>2, <3>1, <3>3 DEF QueuesInv, Types, ArrayHolds, RingHolds, QueueHolds, SliceHolds
  <2> QED BY <1>6, <2>1, <2>2 DEF ST!Init, ST!Nil
<1> QED BY <1>3, <1>4, <1>5, <1>6 DEF QueuesInit

LEMMA QueuesStep ==
    ASSUME QueuesInv, [QueuesNext]_vars
    PROVE  QueuesInv'
<1> USE DEF QueuesInv, Types, ArrayHolds, RingHolds, QueueHolds, SliceHolds, StackHolds
<1>1. CASE AQ!Next
  <2>1. Typed' /\ ArrayHolds' /\ obj'.type = "ArrayQueue"  BY <1>1, ArrayKeeps
  <2> QED BY <2>1
<1>2. CASE CQ!Next
  <2>1. Typed' /\ RingHolds' /\ obj'.type = "CircularQueue"  BY <1>2, RingKeeps
  <2> QED BY <2>1
<1>3. CASE LQ!Next
  <2>1. Typed' /\ QueueHolds' /\ obj'.type = "LinkedQueue"  BY <1>3, ChainKeeps
  <2> QED BY <2>1
<1>4. CASE ST!Next
  <2>1. \/ Typed' /\ SliceHolds' /\ obj'.type = "ArrayStack"
        \/ Typed' /\ StackHolds' /\ obj'.type = "LinkedStack"
    BY <1>4, StacksKeep
  <2> QED BY <2>1
<1>5. CASE UNCHANGED vars  BY ZenonT(40), <1>5 DEF vars, Typed
<1> QED BY <1>1, <1>2, <1>3, <1>4, <1>5 DEF QueuesNext

(* Where every queue and stack keeps the values that wait: between head    *)
(* and tail, around a ring, along a chain of nodes.                        *)
THEOREM QueuesHold == QueuesSpec => []QueuesInv
<1>1. QueuesInit => QueuesInv  BY QueuesStart
<1>2. QueuesInv /\ [QueuesNext]_vars => QueuesInv'  BY QueuesStep
<1> QED BY <1>1, <1>2, PTL DEF QueuesSpec

(* Whatever is enqueued, pushed, taken and cleared, in any order and around *)
(* any number of wraps: the queues answer for the values that wait, oldest  *)
(* first, the stacks newest first, and they refuse exactly when full.       *)
THEOREM OrderKept == QueuesSpec => []QueuesKeepOrder
<1>1. QueuesInv => QueuesKeepOrder
  BY ArrayAnswers, RingAnswers, ChainAnswers, StacksAnswer DEF QueuesKeepOrder
<1> QED BY <1>1, QueuesHold, PTL

-----------------------------------------------------------------------------
(* The places of a heap *)

LEMMA Half ==
    ASSUME NEW i \in Nat, i >= 2
    PROVE  /\ i \div 2 \in Nat /\ 1 <= i \div 2 /\ i \div 2 < i
           /\ i = 2 * (i \div 2) \/ i = 2 * (i \div 2) + 1
OBVIOUS

LEMMA Children ==
    ASSUME NEW i \in Nat
    PROVE  (2 * i) \div 2 = i /\ (2 * i + 1) \div 2 = i
OBVIOUS

-----------------------------------------------------------------------------
(* Loops written as recursive functions: at i with t in hand, the loop     *)
(* stops with t, or goes on at to[i][t] with next[i][t], if <<i, t>> is in *)
(* Go.                                                                     *)

Rounds(I, A, Go, to, next, F) ==
  [i \in I |-> [t \in A |-> IF <<i, t>> \in Go THEN F[to[i][t]][next[i][t]] ELSE t]]

(* It goes on only a number of times that a rank bounds, *)
Ending(I, A, Go, to, next, rank, L) ==
  /\ rank \in [I -> 0 .. L]
  /\ \A i \in I : \A t \in A : <<i, t>> \in Go => to[i][t] \in I /\ next[i][t] \in A /\ rank[to[i][t]] < rank[i]

(* and each round keeps Inv, which gives Post at the end. *)
Keeping(I, A, Go, to, next, Inv, Post) ==
  \A i \in I : \A t \in A :
    t \in Inv[i] => IF <<i, t>> \in Go THEN next[i][t] \in Inv[to[i][t]] ELSE t \in Post

LEMMA LoopExists ==
    ASSUME NEW I, NEW A, NEW Go, NEW to, NEW next, NEW rank, NEW L \in Nat, Ending(I, A, Go, to, next, rank, L)
    PROVE  \E F : F = Rounds(I, A, Go, to, next, F)
<1>0. /\ rank \in [I -> 0 .. L]
      /\ \A i \in I : \A t \in A : <<i, t>> \in Go => to[i][t] \in I /\ next[i][t] \in A /\ rank[to[i][t]] < rank[i]
  BY DEF Ending
<1> DEFINE Row(i, F) == [t \in A |-> IF <<i, t>> \in Go THEN F[to[i][t]][next[i][t]] ELSE t]
           T == {m \in Nat : \E F : \A i \in I : rank[i] < m => F[i] = Row(i, F)}
<1>1. 0 \in T
  <2>1. \A i \in I : ~(rank[i] < 0)  BY <1>0
  <2>2. \A F : \A i \in I : rank[i] < 0 => F[i] = Row(i, F)  BY <2>1
  <2> HIDE DEF Row
  <2> QED BY <2>2
<1>2. ASSUME NEW m \in Nat, m \in T  PROVE m + 1 \in T
  <2>1. PICK F : \A i \in I : rank[i] < m => F[i] = Row(i, F)  BY <1>2
  <2> DEFINE h == [i \in I |-> IF rank[i] < m THEN F[i] ELSE Row(i, F)]
  <2>2. \A i \in I : rank[i] < m => h[i] = F[i]  OBVIOUS
  <2>3. \A i \in I : ~(rank[i] < m) => h[i] = Row(i, F)  OBVIOUS
  <2> HIDE DEF h
  <2>4. ASSUME NEW i \in I, rank[i] < m + 1  PROVE h[i] = Row(i, h)
    <3>1. \A t \in A : <<i, t>> \in Go => F[to[i][t]][next[i][t]] = h[to[i][t]][next[i][t]]
      <4> TAKE t \in A
      <4> HAVE <<i, t>> \in Go
      <4>1. to[i][t] \in I /\ rank[to[i][t]] < rank[i]  BY <1>0
      <4> DEFINE j == to[i][t]
      <4>2. rank[i] \in Nat /\ rank[j] \in Nat  BY <1>0, <4>1
      <4>3. rank[j] < m  BY <2>4, <4>1, <4>2
      <4> QED BY <4>1, <4>3, <2>2
    <3>2. Row(i, F) = Row(i, h)  BY <3>1
    <3>3. h[i] = Row(i, F)
      <4> HIDE DEF Row
      <4> QED BY <2>1, <2>2, <2>3
    <3> HIDE DEF Row
    <3> QED BY <3>2, <3>3
  <2> HIDE DEF Row
  <2> QED BY <2>4
<1>3. L + 1 \in T
  <2> HIDE DEF T
  <2>1. \A m \in Nat : m \in T /\ m < L + 1 => m + 1 \in T  BY <1>2
  <2>2. L + 1 \in Nat  OBVIOUS
  <2>3. \A m \in 0 .. L + 1 : m \in T  BY <1>1, <2>1, <2>2, Induction
  <2> QED BY <2>3
<1>4. PICK F : \A i \in I : rank[i] < L + 1 => F[i] = Row(i, F)
  <2> HIDE DEF Row
  <2> QED BY <1>3
<1>5. \A i \in I : rank[i] < L + 1  BY <1>0
<1> DEFINE G == [i \in I |-> F[i]]
<1>6. ASSUME NEW i \in I  PROVE G[i] = Row(i, G)
  <2>1. G[i] = Row(i, F)
    <3> HIDE DEF Row
    <3> QED BY <1>4, <1>5
  <2>2. \A j \in I : G[j] = F[j]  OBVIOUS
  <2> HIDE DEF G
  <2>3. \A t \in A : <<i, t>> \in Go => F[to[i][t]][next[i][t]] = G[to[i][t]][next[i][t]]  BY <1>0, <2>2
  <2>4. Row(i, F) = Row(i, G)  BY <2>3
  <2> HIDE DEF Row
  <2> QED BY <2>1, <2>4
<1>7. G = [i \in I |-> G[i]]  OBVIOUS
<1>8. G = [i \in I |-> Row(i, G)]
  <2> HIDE DEF G, Row
  <2> QED BY <1>6, <1>7
<1> HIDE DEF G
<1> QED BY <1>8 DEF Rounds

LEMMA LoopKeeps ==
    ASSUME NEW I, NEW A, NEW Go, NEW to, NEW next, NEW rank, NEW L \in Nat, Ending(I, A, Go, to, next, rank, L),
           NEW Inv, NEW Post, Keeping(I, A, Go, to, next, Inv, Post),
           NEW F, F = Rounds(I, A, Go, to, next, F)
    PROVE  \A i \in I : \A t \in A : t \in Inv[i] => F[i][t] \in Post
<1>a. /\ rank \in [I -> 0 .. L]
      /\ \A i \in I : \A t \in A : <<i, t>> \in Go => to[i][t] \in I /\ next[i][t] \in A /\ rank[to[i][t]] < rank[i]
  BY DEF Ending
<1>b. /\ \A i \in I : \A t \in A : t \in Inv[i] /\ <<i, t>> \in Go => next[i][t] \in Inv[to[i][t]]
      /\ \A i \in I : \A t \in A : t \in Inv[i] /\ <<i, t>> \notin Go => t \in Post
  BY DEF Keeping
<1> DEFINE T == {m \in Nat : \A i \in I : rank[i] < m => \A t \in A : t \in Inv[i] => F[i][t] \in Post}
<1>0. \A i \in I : \A t \in A : F[i][t] = IF <<i, t>> \in Go THEN F[to[i][t]][next[i][t]] ELSE t
  <2> DEFINE Row(i) == [t \in A |-> IF <<i, t>> \in Go THEN F[to[i][t]][next[i][t]] ELSE t]
  <2>1. \A i \in I : F[i] = Row(i)
    <3> HIDE DEF Row
    <3>1. F = [i \in I |-> Row(i)]  BY DEF Row, Rounds
    <3> QED BY SMTT(40), <3>1
  <2> TAKE i \in I
  <2> TAKE t \in A
  <2>2. Row(i)[t] = IF <<i, t>> \in Go THEN F[to[i][t]][next[i][t]] ELSE t  OBVIOUS
  <2> HIDE DEF Row
  <2> QED BY <2>1, <2>2
<1>1. 0 \in T  BY <1>a
<1>2. ASSUME NEW m \in Nat, m \in T  PROVE m + 1 \in T
  <2>1. \A i \in I : rank[i] < m => \A t \in A : t \in Inv[i] => F[i][t] \in Post  BY <1>2
  <2>2. ASSUME NEW i \in I, rank[i] < m + 1, NEW t \in A, t \in Inv[i]  PROVE F[i][t] \in Post
    <3>1. CASE <<i, t>> \in Go
      <4> DEFINE j == to[i][t]
                 u == next[i][t]
      <4>1. j \in I /\ u \in A /\ rank[j] < rank[i]  BY <1>a, <3>1
      <4>2. u \in Inv[j]  BY <1>b, <2>2, <3>1
      <4>3. F[i][t] = F[j][u]  BY <1>0, <3>1
      <4> HIDE DEF j, u
      <4>4. rank[i] \in Nat /\ rank[j] \in Nat  BY <1>a, <4>1
      <4>5. rank[j] < m  BY <2>2, <4>1, <4>4
      <4> QED BY <2>1, <4>1, <4>2, <4>3, <4>5
    <3>2. CASE <<i, t>> \notin Go
      <4>1. F[i][t] = t  BY <1>0, <3>2
      <4> QED BY <1>b, <2>2, <3>2, <4>1
    <3> QED BY <3>1, <3>2
  <2> QED BY <2>2
<1>3. L + 1 \in T
  <2> HIDE DEF T
  <2>1. \A m \in Nat : m \in T /\ m < L + 1 => m + 1 \in T  BY <1>2
  <2>2. L + 1 \in Nat  OBVIOUS
  <2>3. \A m \in 0 .. L + 1 : m \in T  BY <1>1, <2>1, <2>2, Induction
  <2> QED BY <2>3
<1>4. \A i \in I : rank[i] < L + 1  BY <1>a
<1> QED BY <1>3, <1>4
-----------------------------------------------------------------------------
(* Exchanging a value with its parent *)

(* Up to n, t and u differ in that i and j have each other's value. *)
Exchanged(t, u, i, j) ==
  /\ DOMAIN t = DOMAIN u /\ i \in DOMAIN t /\ j \in DOMAIN t /\ u[i] = t[j] /\ u[j] = t[i]
  /\ \A k \in DOMAIN t \ {i, j} : u[k] = t[k]

(* The first n are in order but for i, which may be larger than its parent, *)
Rising(t, n, i) ==
  \A j \in 2 .. n :
    /\ j # i => t[j] <= t[j \div 2]
    /\ j \div 2 = i /\ i > 1 => t[j] <= t[i \div 2]

(* or less than its children. *)
Falling(t, n, i) ==
  \A j \in 2 .. n :
    /\ j \div 2 # i => t[j] <= t[j \div 2]
    /\ j \div 2 = i /\ i > 1 => t[j] <= t[i \div 2]

LEMMA SwapExchanges ==
    ASSUME NEW V, NEW N \in Nat, NEW t \in [1 .. N -> V], NEW i \in 1 .. N, NEW j \in 1 .. N
    PROVE  swap(t, i, j) \in [1 .. N -> V] /\ Exchanged(t, swap(t, i, j), i, j)
BY DEF swap, Exchanged

LEMMA Exchanges ==
    ASSUME NEW t, NEW u, NEW i, NEW j, Exchanged(t, u, i, j)
    PROVE  Exchanged(t, u, j, i)
BY DEF Exchanged

LEMMA SwapRises ==
    ASSUME NEW N \in Nat, NEW n \in 0 .. N, NEW t, DOMAIN t = 1 .. N, \A k \in 1 .. N : t[k] \in Int, NEW u,
           NEW i \in 2 .. n, NEW p, p = i \div 2, t[p] < t[i], Exchanged(t, u, i, p), Rising(t, n, i)
    PROVE  Rising(u, n, p)
<1>1. p \in Nat /\ 1 <= p /\ p < i  BY Half
<1>2. i \in 1 .. N /\ p \in 1 .. N  BY <1>1
<1>3. u[i] = t[p] /\ u[p] = t[i] /\ \A k \in 1 .. N : k # i /\ k # p => u[k] = t[k]  BY DEF Exchanged
<1>4. \A k \in 1 .. N : t[k] \in Int  OBVIOUS
<1> SUFFICES ASSUME NEW j \in 2 .. n
             PROVE  /\ j # p => u[j] <= u[j \div 2]
                    /\ j \div 2 = p /\ p > 1 => u[j] <= u[p \div 2]
  BY DEF Rising
<1> DEFINE h == j \div 2
<1>5. h \in Nat /\ 1 <= h /\ h < j /\ h \in 1 .. N /\ j \in 1 .. N  BY Half
<1>6. j # i => t[j] <= t[h]  BY DEF Rising
<1>7. h = i => t[j] <= t[p]  BY DEF Rising
<1>8. j = i <=> j = i  OBVIOUS
<1>9. j = i => h = p  OBVIOUS
<1> HIDE DEF h
<1>10. j # p => u[j] <= u[h]
  <2> HAVE j # p
  <2>1. CASE j = i
    BY <2>1, <1>9, <1>3, <1>4, <1>2
  <2>2. CASE j # i /\ h = p
    BY <2>2, <1>3, <1>4, <1>2, <1>5, <1>6
  <2>3. CASE j # i /\ h = i
    BY <2>3, <1>3, <1>4, <1>2, <1>5, <1>7
  <2>4. CASE j # i /\ h # p /\ h # i
    BY <2>4, <1>3, <1>4, <1>2, <1>5, <1>6
  <2> QED BY <2>1, <2>2, <2>3, <2>4
<1>11. ASSUME h = p, p > 1  PROVE u[j] <= u[p \div 2]
  <2> DEFINE g == p \div 2
  <2> SUFFICES u[j] <= u[g]  OBVIOUS
  <2>1. g \in Nat /\ 1 <= g /\ g < p  BY <1>1, <1>11, Half
  <2>2. t[p] <= t[g]  BY <1>1, <1>11 DEF Rising
  <2> HIDE DEF g
  <2>3. u[g] = t[g] /\ g \in 1 .. N  BY <2>1, <1>1, <1>2, <1>3
  <2>4. CASE j = i
    BY <2>4, <2>2, <2>3, <1>3
  <2>5. CASE j # i
    <3>1. j # p /\ u[j] = t[j] /\ t[j] <= t[p]  BY <2>5, <1>11, <1>5, <1>3, <1>6
    <3> QED BY <3>1, <2>2, <2>3, <1>2, <1>4, <1>5
  <2> QED BY <2>4, <2>5
<1> QED BY <1>10, <1>11 DEF h

LEMMA RiseEnds ==
    ASSUME NEW t, NEW n \in Nat, NEW i \in Nat, Rising(t, n, i), i = 1 \/ t[i] <= t[i \div 2]
    PROVE  Ordered(t, n)
BY DEF Rising, Ordered

LEMMA SwapFalls ==
    ASSUME NEW N \in Nat, NEW n \in 0 .. N, NEW t, DOMAIN t = 1 .. N, \A k \in 1 .. N : t[k] \in Int, NEW u,
           NEW c \in 2 .. n, NEW i, i = c \div 2, t[i] < t[c], \A j \in 2 .. n : j \div 2 = i => t[j] <= t[c],
           Exchanged(t, u, i, c), Falling(t, n, i)
    PROVE  Falling(u, n, c)
<1>1. i \in Nat /\ 1 <= i /\ i < c  BY Half
<1>2. i \in 1 .. N /\ c \in 1 .. N  BY <1>1
<1>3. u[i] = t[c] /\ u[c] = t[i] /\ \A k \in 1 .. N : k # i /\ k # c => u[k] = t[k]  BY DEF Exchanged
<1>4. \A k \in 1 .. N : t[k] \in Int  OBVIOUS
<1> SUFFICES ASSUME NEW j \in 2 .. n
             PROVE  /\ j \div 2 # c => u[j] <= u[j \div 2]
                    /\ j \div 2 = c => u[j] <= u[c \div 2]
  BY DEF Falling
<1> DEFINE h == j \div 2
<1>5. h \in Nat /\ 1 <= h /\ h < j /\ h \in 1 .. N /\ j \in 1 .. N  BY Half
<1>6. h # i => t[j] <= t[h]  BY DEF Falling
<1>7. h = i => t[j] <= t[c]  OBVIOUS
<1>8. j = i => t[c] <= t[h]
  <2> HAVE j = i
  <2>1. i > 1  BY <1>5
  <2>2. t[c] <= t[i \div 2]  BY <2>1 DEF Falling
  <2> QED BY <2>2
<1>9. j = c => h = i  OBVIOUS
<1> HIDE DEF h
<1>10. h # c => u[j] <= u[h]
  <2> HAVE h # c
  <2>1. CASE j = i
    <3>1. h # i  BY <2>1, <1>5
    <3> QED BY <3>1, <2>1, <1>8, <1>3, <1>4, <1>5
  <2>2. CASE j = c
    BY <2>2, <1>9, <1>3, <1>4, <1>2
  <2>3. CASE j # i /\ j # c /\ h = i
    BY <2>3, <1>3, <1>4, <1>2, <1>5, <1>7
  <2>4. CASE j # i /\ j # c /\ h # i
    BY <2>4, <1>3, <1>4, <1>2, <1>5, <1>6
  <2> QED BY <2>1, <2>2, <2>3, <2>4
<1>11. h = c => u[j] <= u[i]
  <2> HAVE h = c
  <2>1. j # c /\ j # i /\ h # i  BY <1>1, <1>5
  <2>2. t[j] <= t[c] /\ u[j] = t[j]  BY <2>1, <1>3, <1>5, <1>6
  <2> QED BY <2>2, <1>3
<1> QED BY <1>10, <1>11 DEF h

LEMMA FallEnds ==
    ASSUME NEW t, NEW n \in Nat, NEW i \in Nat, Falling(t, n, i), \A j \in 2 .. n : j \div 2 = i => t[j] <= t[i]
    PROVE  Ordered(t, n)
BY DEF Falling, Ordered

(* The first of those in order is a largest one. *)
LEMMA FirstIsLargest ==
    ASSUME NEW n \in Nat, NEW t, \A j \in 1 .. n : t[j] \in Int, Ordered(t, n)
    PROVE  \A j \in 1 .. n : t[j] <= t[1]
<1> DEFINE Larger == {j \in 1 .. n : ~(t[j] <= t[1])}
<1>1. ASSUME Larger # {}  PROVE FALSE
  <2>1. PICK j \in Larger : \A k \in Larger : j <= k
    <3>1. Larger \subseteq Nat  OBVIOUS
    <3> HIDE DEF Larger
    <3> QED BY <1>1, <3>1, Least
  <2>2. j \in 1 .. n /\ ~(t[j] <= t[1]) /\ j >= 2
    <3>1. j \in 1 .. n /\ ~(t[j] <= t[1])  OBVIOUS
    <3>2. 1 \in 1 .. n /\ t[1] <= t[1]  BY <3>1
    <3>3. j # 1  BY <3>1, <3>2
    <3> QED BY <3>1, <3>3
  <2> DEFINE h == j \div 2
  <2>3. h \in Nat /\ 1 <= h /\ h < j /\ h \in 1 .. n  BY <2>2, Half
  <2>4. t[j] <= t[h]  BY <2>2 DEF Ordered
  <2> HIDE DEF h
  <2>5. h \notin Larger  BY <2>1, <2>2, <2>3
  <2>6. t[h] <= t[1]  BY <2>3, <2>5
  <2>7. t[h] \in Int /\ t[j] \in Int /\ t[1] \in Int
    <3>1. 1 \in 1 .. n  BY <2>2
    <3> QED BY <3>1, <2>2, <2>3
  <2> QED BY <2>2, <2>4, <2>6, <2>7
<1> QED BY <1>1

-----------------------------------------------------------------------------
(* How often each value is there *)

LEMMA HoldingExchanged ==
    ASSUME NEW t, NEW u, NEW N \in Nat, DOMAIN t = 1 .. N, NEW n \in 0 .. N, NEW i \in 1 .. n, NEW j \in 1 .. n,
           Exchanged(t, u, i, j)
    PROVE  Holding(u, n) = Holding(t, n)
<1> DEFINE f == [k \in 1 .. n |-> IF k = i THEN j ELSE IF k = j THEN i ELSE k]
<1>1. \A k \in 1 .. n : f[k] \in 1 .. n /\ f[f[k]] = k  OBVIOUS
<1>2. \A k \in 1 .. n : u[k] = t[f[k]]
  <2> TAKE k \in 1 .. n
  <2>1. k \in DOMAIN t  OBVIOUS
  <2>2. CASE k = i  BY <2>2 DEF Exchanged
  <2>3. CASE k # i /\ k = j  BY <2>3 DEF Exchanged
  <2>4. CASE k # i /\ k # j  BY <2>1, <2>4 DEF Exchanged
  <2> QED BY <2>2, <2>3, <2>4
<1> HIDE DEF f
<1>3. ASSUME NEW v  PROVE Cardinality({k \in 1 .. n : u[k] = v}) = Cardinality({k \in 1 .. n : t[k] = v})
  <2> DEFINE S == {k \in 1 .. n : u[k] = v}
             U == {k \in 1 .. n : t[k] = v}
             g == [k \in S |-> f[k]]
  <2>1. g \in [S -> U]  BY <1>1, <1>2
  <2>2. \A a, b \in S : g[a] = g[b] => a = b
    <3> TAKE a, b \in S
    <3>1. f[f[a]] = a /\ f[f[b]] = b  BY <1>1
    <3>2. g[a] = f[a] /\ g[b] = f[b]  OBVIOUS
    <3> QED BY <3>1, <3>2
  <2>3. \A b \in U : \E a \in S : g[a] = b
    <3> TAKE b \in U
    <3>1. f[b] \in 1 .. n /\ f[f[b]] = b  BY <1>1
    <3>2. u[f[b]] = v  BY <3>1, <1>2
    <3>3. f[b] \in S /\ g[f[b]] = b  BY <3>1, <3>2
    <3> QED BY <3>3
  <2>4. IsFiniteSet(S)
    <3>1. 1 \in Int /\ n \in Int  OBVIOUS
    <3>2. IsFiniteSet(1 .. n) /\ S \in SUBSET (1 .. n)  BY <3>1, FS_Interval
    <3> HIDE DEF S
    <3> QED BY <3>2, FS_Subset
  <2> HIDE DEF S, U, g
  <2>5. g \in Bijection(S, U)  BY <2>1, <2>2, <2>3, Fun_IsBij
  <2>6. ExistsBijection(S, U)  BY <2>5, Fun_ExistsBij
  <2>7. Cardinality(U) = Cardinality(S)  BY <2>4, <2>6, FS_Bijection
  <2> QED BY <2>7 DEF S, U
<1> QED BY <1>3 DEF Holding

LEMMA HoldingIsNat ==
    ASSUME NEW t, NEW n \in Nat
    PROVE  Holding(t, n) \in [Priorities -> Nat]
<1>1. ASSUME NEW v  PROVE Cardinality({k \in 1 .. n : t[k] = v}) \in Nat
  <2> DEFINE S == {k \in 1 .. n : t[k] = v}
  <2>1. 1 \in Int /\ n \in Int  OBVIOUS
  <2>2. IsFiniteSet(1 .. n) /\ S \in SUBSET (1 .. n)  BY <2>1, FS_Interval
  <2> HIDE DEF S
  <2>3. IsFiniteSet(S)  BY <2>2, FS_Subset
  <2>4. Cardinality(S) \in Nat  BY <2>3, FS_CardinalityType
  <2> QED BY <2>4 DEF S
<1> QED BY <1>1 DEF Holding

LEMMA HoldingAdded ==
    ASSUME NEW t, NEW u, NEW n \in Nat, NEW v \in Priorities, u[n + 1] = v, \A k \in 1 .. n : u[k] = t[k]
    PROVE  Holding(u, n + 1) = [Holding(t, n) EXCEPT ![v] = @ + 1]
<1>1. ASSUME NEW w
      PROVE  Cardinality({k \in 1 .. n + 1 : u[k] = w})
               = IF w = v THEN Cardinality({k \in 1 .. n : t[k] = w}) + 1 ELSE Cardinality({k \in 1 .. n : t[k] = w})
  <2> DEFINE S == {k \in 1 .. n : t[k] = w}
             U == {k \in 1 .. n + 1 : u[k] = w}
  <2>1. 1 \in Int /\ n \in Int  OBVIOUS
  <2>2. IsFiniteSet(1 .. n) /\ S \in SUBSET (1 .. n)  BY <2>1, FS_Interval
  <2>3. n + 1 \notin S  OBVIOUS
  <2>4. U = IF w = v THEN S \cup {n + 1} ELSE S  OBVIOUS
  <2> HIDE DEF S, U
  <2>5. IsFiniteSet(S)  BY <2>2, FS_Subset
  <2>6. Cardinality(S \cup {n + 1}) = Cardinality(S) + 1  BY <2>3, <2>5, FS_AddElement
  <2>7. Cardinality(U) = IF w = v THEN Cardinality(S) + 1 ELSE Cardinality(S)  BY <2>4, <2>6
  <2> QED BY <2>7 DEF S, U
<1> DEFINE C(w) == Cardinality({k \in 1 .. n : t[k] = w})
           D(w) == Cardinality({k \in 1 .. n + 1 : u[k] = w})
<1>2. Holding(t, n) = [w \in Priorities |-> C(w)] /\ Holding(u, n + 1) = [w \in Priorities |-> D(w)]
  BY DEF Holding
<1>3. \A w : D(w) = IF w = v THEN C(w) + 1 ELSE C(w)  BY <1>1
<1> HIDE DEF C, D
<1>4. [w \in Priorities |-> D(w)] = [[w \in Priorities |-> C(w)] EXCEPT ![v] = @ + 1]  BY <1>3
<1> QED BY <1>2, <1>4

OneMore(h, v) == [h EXCEPT ![v] = @ + 1]

LEMMA HoldingOneMore ==
    ASSUME NEW t, NEW u, NEW n \in Nat, NEW v \in Priorities, u[n + 1] = v, \A k \in 1 .. n : u[k] = t[k]
    PROVE  Holding(u, n + 1) = OneMore(Holding(t, n), v)
BY HoldingAdded DEF OneMore

LEMMA HoldingPresent ==
    ASSUME NEW t, NEW n \in Nat, NEW v \in Priorities, Holding(t, n)[v] > 0
    PROVE  \E k \in 1 .. n : t[k] = v
<1>1. Holding(t, n)[v] = Cardinality({k \in 1 .. n : t[k] = v})  BY DEF Holding
<1>2. {k \in 1 .. n : t[k] = v} # {}  BY <1>1, FS_EmptySet
<1> QED BY <1>2
-----------------------------------------------------------------------------
(* The loops of the code: a value climbs, or descends, to where it belongs *)

(* The first n of s were moved among themselves, the others not. *)
Rearranged(t, s, n) ==
  /\ \A k \in 1 .. n : t[k] \in Priorities
  /\ \A k \in DOMAIN s \ (1 .. n) : t[k] = s[k]
  /\ Holding(t, n) = Holding(s, n)

LEMMA SwapRearranges ==
    ASSUME NEW N \in Nat, NEW n \in 0 .. N, NEW s, DOMAIN s = 1 .. N, NEW t, DOMAIN t = 1 .. N, NEW u,
           NEW i \in 1 .. n, NEW j \in 1 .. n, Exchanged(t, u, i, j), Rearranged(t, s, n)
    PROVE  Rearranged(u, s, n)
<1>1. Holding(u, n) = Holding(t, n)  BY HoldingExchanged
<1>2. u[i] = t[j] /\ u[j] = t[i] /\ \A k \in 1 .. N : k # i /\ k # j => u[k] = t[k]  BY DEF Exchanged
<1>3. \A k \in 1 .. n : u[k] \in Priorities
  <2> TAKE k \in 1 .. n
  <2>1. t[i] \in Priorities /\ t[j] \in Priorities /\ t[k] \in Priorities /\ k \in 1 .. N  BY DEF Rearranged
  <2> QED BY <1>2, <2>1
<1>4. \A k \in DOMAIN s \ (1 .. n) : u[k] = s[k]  BY <1>2 DEF Rearranged
<1> QED BY <1>1, <1>3, <1>4 DEF Rearranged

(* A loop over places, pos[k] for its index k, that exchanges the value     *)
(* there with its parent's as long as it is larger,                        *)
Climbing(I, A, Go, to, next, pos) ==
  \A k \in I : \A t \in A :
    /\ <<k, t>> \in Go <=> pos[k] > 1 /\ t[pos[k] \div 2] < t[pos[k]]
    /\ <<k, t>> \in Go => /\ to[k][t] \in I /\ pos[to[k][t]] = pos[k] \div 2
                         /\ next[k][t] \in A /\ Exchanged(t, next[k][t], pos[k], pos[k] \div 2)

(* or with that of its largest child, as long as it is less.               *)
Descending(I, A, Go, to, next, pos, n) ==
  \A k \in I : \A t \in A :
    /\ <<k, t>> \in Go => /\ to[k][t] \in I /\ pos[to[k][t]] \in 2 .. n /\ pos[k] = pos[to[k][t]] \div 2
                         /\ t[pos[k]] < t[pos[to[k][t]]]
                         /\ \A j \in 2 .. n : j \div 2 = pos[k] => t[j] <= t[pos[to[k][t]]]
                         /\ next[k][t] \in A /\ Exchanged(t, next[k][t], pos[k], pos[to[k][t]])
    /\ <<k, t>> \notin Go => \A j \in 2 .. n : j \div 2 = pos[k] => t[j] <= t[pos[k]]

LEMMA ArrangementsOf ==
    ASSUME Priorities \subseteq Int, NEW N \in Nat, NEW s \in [1 .. N -> Priorities \cup {0}]
    PROVE  /\ s \in Arrangements(s)
           /\ \A t \in Arrangements(s) : /\ t \in [1 .. N -> Priorities \cup {0}]
                                         /\ \A k \in 1 .. N : t[k] \in Int
           /\ \A t \in Arrangements(s) : \A i, j \in 1 .. N : swap(t, i, j) \in Arrangements(s)
<1> DEFINE V == {s[k] : k \in DOMAIN s}
<1>1. Arrangements(s) = [1 .. N -> V]  BY DEF Arrangements
<1>2. s \in [1 .. N -> V]  OBVIOUS
<1>3. V \subseteq Priorities \cup {0}
  <2>1. DOMAIN s = 1 .. N /\ \A k \in 1 .. N : s[k] \in Priorities \cup {0}  OBVIOUS
  <2> QED BY <2>1
<1> HIDE DEF V
<1>4. \A k \in Priorities \cup {0} : k \in Int  OBVIOUS
<1>5. ASSUME NEW t \in [1 .. N -> V]
      PROVE  /\ t \in [1 .. N -> Priorities \cup {0}]
             /\ \A k \in 1 .. N : t[k] \in Int
             /\ \A i, j \in 1 .. N : swap(t, i, j) \in [1 .. N -> V]
  <2>1. t \in [1 .. N -> Priorities \cup {0}]  BY <1>3
  <2>2. \A k \in 1 .. N : t[k] \in Int  BY <1>4, <2>1
  <2>3. \A i, j \in 1 .. N : swap(t, i, j) \in [1 .. N -> V]  BY SwapExchanges
  <2> QED BY <2>1, <2>2, <2>3
<1> QED BY <1>1, <1>2, <1>5

LEMMA Climbs ==
    ASSUME Priorities \subseteq Int, NEW N \in Nat, NEW n \in 0 .. N, NEW s \in [1 .. N -> Priorities \cup {0}],
           \A k \in 1 .. n : s[k] \in Priorities,
           NEW I, NEW Go, NEW to, NEW next, NEW pos \in [I -> 1 .. N],
           Climbing(I, Arrangements(s), Go, to, next, pos)
    PROVE  /\ \E F : F = Rounds(I, Arrangements(s), Go, to, next, F)
           /\ \A F : F = Rounds(I, Arrangements(s), Go, to, next, F) =>
                \A i \in I : pos[i] <= n /\ Rising(s, n, pos[i]) =>
                  /\ F[i][s] \in [1 .. N -> Priorities \cup {0}]
                  /\ Rearranged(F[i][s], s, n) /\ Ordered(F[i][s], n)
<1> DEFINE A == Arrangements(s)
           Inv == [k \in I |-> {t \in A : pos[k] <= n /\ Rearranged(t, s, n) /\ Rising(t, n, pos[k])}]
           Post == {t \in A : Rearranged(t, s, n) /\ Ordered(t, n)}
<1>1. s \in A /\ \A t \in A : /\ t \in [1 .. N -> Priorities \cup {0}] /\ DOMAIN t = 1 .. N
                              /\ \A k \in 1 .. N : t[k] \in Int
  <2>1. \A t \in A : t \in [1 .. N -> Priorities \cup {0}] => DOMAIN t = 1 .. N  OBVIOUS
  <2> HIDE DEF A
  <2> QED BY <2>1, ArrangementsOf DEF A
<1> HIDE DEF A
<1>2. ASSUME NEW k \in I, NEW t \in A, <<k, t>> \in Go
      PROVE  /\ pos[k] \in 2 .. N /\ t[pos[k] \div 2] < t[pos[k]] /\ to[k][t] \in I /\ pos[to[k][t]] = pos[k] \div 2
             /\ next[k][t] \in A /\ Exchanged(t, next[k][t], pos[k], pos[k] \div 2)
  <2>1. /\ pos[k] > 1 /\ t[pos[k] \div 2] < t[pos[k]] /\ to[k][t] \in I /\ pos[to[k][t]] = pos[k] \div 2
        /\ next[k][t] \in A /\ Exchanged(t, next[k][t], pos[k], pos[k] \div 2)
    BY <1>2 DEF Climbing, A
  <2>2. pos[k] \in 1 .. N  OBVIOUS
  <2>3. pos[k] \in 2 .. N  BY <2>1, <2>2
  <2> QED BY <2>1, <2>3
<1>3. Ending(I, A, Go, to, next, pos, N)
  <2>1. pos \in [I -> 0 .. N]  OBVIOUS
  <2>2. \A k \in I : \A t \in A : <<k, t>> \in Go => to[k][t] \in I /\ next[k][t] \in A /\ pos[to[k][t]] < pos[k]
    <3> TAKE k \in I
    <3> TAKE t \in A
    <3> HAVE <<k, t>> \in Go
    <3> DEFINE p == pos[k]
    <3>1. p \in 2 .. N  BY <1>2
    <3> HIDE DEF p
    <3>2. p \div 2 < p  BY <3>1, Half
    <3> QED BY <1>2, <3>2 DEF p
  <2> QED BY <2>1, <2>2 DEF Ending
<1>4. ASSUME NEW k \in I, NEW t \in A, t \in Inv[k], <<k, t>> \in Go  PROVE next[k][t] \in Inv[to[k][t]]
  <2> DEFINE u == next[k][t]
             q == pos[k]
             p == q \div 2
  <2>1. q <= n /\ Rearranged(t, s, n) /\ Rising(t, n, q)  BY <1>4
  <2>2. q \in 2 .. n /\ t[p] < t[q] /\ u \in A /\ Exchanged(t, u, q, p)  BY <1>2, <1>4, <2>1
  <2>3. p = pos[to[k][t]] /\ to[k][t] \in I  BY <1>2, <1>4
  <2> HIDE DEF q, u
  <2>4. p \in Nat /\ 1 <= p /\ p < q  BY <2>2, Half
  <2>5. p = q \div 2  OBVIOUS
  <2> HIDE DEF p
  <2>6. q \in 1 .. n /\ p \in 1 .. n /\ p <= n  BY <2>2, <2>4
  <2>7. DOMAIN t = 1 .. N /\ DOMAIN s = 1 .. N /\ \A j \in 1 .. N : t[j] \in Int  BY <1>1
  <2>8. Rising(u, n, p)
    <3>1. q \in 2 .. n /\ t[p] < t[q] /\ Exchanged(t, u, q, p) /\ Rising(t, n, q)  BY <2>1, <2>2
    <3>2. DOMAIN t = 1 .. N /\ \A j \in 1 .. N : t[j] \in Int  BY <2>7
    <3> QED BY SMTT(60), <2>5, <3>1, <3>2, SwapRises
  <2>9. Rearranged(u, s, n)  BY <2>1, <2>2, <2>6, <2>7, SwapRearranges
  <2>10. u \in Inv[to[k][t]]  BY <2>2, <2>3, <2>6, <2>8, <2>9
  <2> QED BY <2>10 DEF u
<1>5. ASSUME NEW k \in I, NEW t \in A, t \in Inv[k], <<k, t>> \notin Go  PROVE t \in Post
  <2> DEFINE q == pos[k]
             p == q \div 2
  <2>1. q <= n /\ Rearranged(t, s, n) /\ Rising(t, n, q)  BY <1>5
  <2>2. q \in 1 .. N  OBVIOUS
  <2>3. ~(q > 1 /\ t[p] < t[q])  BY <1>5 DEF Climbing, A
  <2> HIDE DEF q
  <2>4. q = 1 \/ t[q] <= t[p]
    <3>1. CASE q = 1  BY <3>1
    <3>2. CASE q # 1
      <4>1. p \in Nat /\ 1 <= p /\ p < q  BY <2>2, <3>2, Half
      <4>2. ~(t[p] < t[q])  BY <2>2, <2>3, <3>2
      <4> HIDE DEF p
      <4>3. p \in 1 .. N  BY <2>2, <4>1
      <4>4. t[p] \in Int /\ t[q] \in Int  BY <1>1, <2>2, <4>3
      <4>5. t[q] <= t[p]  BY <4>2, <4>4
      <4> QED BY <4>5
    <3> QED BY <3>1, <3>2
  <2>5. Ordered(t, n)  BY <2>1, <2>2, <2>4, RiseEnds
  <2> QED BY <2>1, <2>5
<1>6. \A i \in I : pos[i] <= n /\ Rising(s, n, pos[i]) => s \in Inv[i]  BY <1>1 DEF Rearranged
<1>7. \A t \in Post : t \in [1 .. N -> Priorities \cup {0}] /\ Rearranged(t, s, n) /\ Ordered(t, n)  BY <1>1
<1> HIDE DEF Inv, Post
<1>8. Keeping(I, A, Go, to, next, Inv, Post)  BY <1>4, <1>5 DEF Keeping
<1>9. \E F : F = Rounds(I, A, Go, to, next, F)  BY <1>3, LoopExists
<1>10. \A F : F = Rounds(I, A, Go, to, next, F) => \A i \in I : s \in Inv[i] => F[i][s] \in Post
  BY <1>1, <1>3, <1>8, LoopKeeps
<1> QED BY <1>6, <1>7, <1>9, <1>10 DEF A

LEMMA Descends ==
    ASSUME Priorities \subseteq Int, NEW N \in Nat, NEW n \in 0 .. N, NEW s \in [1 .. N -> Priorities \cup {0}],
           \A k \in 1 .. n : s[k] \in Priorities,
           NEW I, NEW Go, NEW to, NEW next, NEW pos \in [I -> 1 .. N],
           Descending(I, Arrangements(s), Go, to, next, pos, n)
    PROVE  /\ \E F : F = Rounds(I, Arrangements(s), Go, to, next, F)
           /\ \A F : F = Rounds(I, Arrangements(s), Go, to, next, F) =>
                \A i \in I : Falling(s, n, pos[i]) =>
                  /\ F[i][s] \in [1 .. N -> Priorities \cup {0}]
                  /\ Rearranged(F[i][s], s, n) /\ Ordered(F[i][s], n)
<1> DEFINE A == Arrangements(s)
           rank == [k \in I |-> N - pos[k]]
           Inv == [k \in I |-> {t \in A : Rearranged(t, s, n) /\ Falling(t, n, pos[k])}]
           Post == {t \in A : Rearranged(t, s, n) /\ Ordered(t, n)}
<1>1. s \in A /\ \A t \in A : /\ t \in [1 .. N -> Priorities \cup {0}] /\ DOMAIN t = 1 .. N
                              /\ \A k \in 1 .. N : t[k] \in Int
  <2>1. \A t \in A : t \in [1 .. N -> Priorities \cup {0}] => DOMAIN t = 1 .. N  OBVIOUS
  <2> HIDE DEF A
  <2> QED BY <2>1, ArrangementsOf DEF A
<1> HIDE DEF A
<1>2. ASSUME NEW k \in I, NEW t \in A, <<k, t>> \in Go
      PROVE  /\ to[k][t] \in I /\ pos[to[k][t]] \in 2 .. n /\ pos[k] = pos[to[k][t]] \div 2
             /\ t[pos[k]] < t[pos[to[k][t]]]
             /\ \A j \in 2 .. n : j \div 2 = pos[k] => t[j] <= t[pos[to[k][t]]]
             /\ next[k][t] \in A /\ Exchanged(t, next[k][t], pos[k], pos[to[k][t]])
  BY <1>2 DEF Descending, A
<1>3. Ending(I, A, Go, to, next, rank, N)
  <2>1. rank \in [I -> 0 .. N]  OBVIOUS
  <2>2. \A k \in I : \A t \in A : <<k, t>> \in Go => to[k][t] \in I /\ next[k][t] \in A /\ rank[to[k][t]] < rank[k]
    <3> TAKE k \in I
    <3> TAKE t \in A
    <3> HAVE <<k, t>> \in Go
    <3> DEFINE c == pos[to[k][t]]
               q == pos[k]
    <3>1. c \in 2 .. n /\ q = c \div 2 /\ to[k][t] \in I /\ next[k][t] \in A  BY <1>2
    <3>2. rank[to[k][t]] = N - c /\ rank[k] = N - q  BY <3>1
    <3> HIDE DEF c, q, rank
    <3>3. q \in Nat /\ q < c /\ c \in Nat  BY <3>1, Half
    <3> QED BY <3>1, <3>2, <3>3
  <2> HIDE DEF rank
  <2> QED BY <2>1, <2>2 DEF Ending
<1>4. ASSUME NEW k \in I, NEW t \in A, t \in Inv[k], <<k, t>> \in Go  PROVE next[k][t] \in Inv[to[k][t]]
  <2> DEFINE u == next[k][t]
             q == pos[k]
             c == pos[to[k][t]]
  <2>1. Rearranged(t, s, n) /\ Falling(t, n, q)  BY <1>4
  <2>2. /\ c \in 2 .. n /\ q = c \div 2 /\ t[q] < t[c] /\ u \in A /\ Exchanged(t, u, q, c)
        /\ \A j \in 2 .. n : j \div 2 = q => t[j] <= t[c]
    BY <1>2, <1>4
  <2>3. to[k][t] \in I  BY <1>2, <1>4
  <2> HIDE DEF q, u
  <2>4. q \in Nat /\ 1 <= q /\ q < c  BY <2>2, Half
  <2>5. q \in 1 .. n /\ c \in 1 .. n  BY <2>2, <2>4
  <2>6. DOMAIN t = 1 .. N /\ DOMAIN s = 1 .. N /\ \A j \in 1 .. N : t[j] \in Int  BY <1>1
  <2>7. Falling(u, n, c) /\ Rearranged(u, s, n)
    <3> HIDE DEF c
    <3>1. Falling(u, n, c)  BY ZenonT(40), <2>1, <2>2, <2>6, SwapFalls
    <3>2. Rearranged(u, s, n)  BY <2>1, <2>2, <2>5, <2>6, SwapRearranges
    <3> QED BY <3>1, <3>2
  <2>8. u \in Inv[to[k][t]]  BY <2>2, <2>3, <2>7
  <2> QED BY <2>8 DEF u
<1>5. ASSUME NEW k \in I, NEW t \in A, t \in Inv[k], <<k, t>> \notin Go  PROVE t \in Post
  <2> DEFINE q == pos[k]
  <2>1. Rearranged(t, s, n) /\ Falling(t, n, q)  BY <1>5
  <2>2. q \in 1 .. N  OBVIOUS
  <2>3. \A j \in 2 .. n : j \div 2 = q => t[j] <= t[q]  BY <1>5 DEF Descending, A
  <2> HIDE DEF q
  <2>4. Ordered(t, n)  BY <2>1, <2>2, <2>3, FallEnds
  <2> QED BY <2>1, <2>4
<1>6. \A i \in I : Falling(s, n, pos[i]) => s \in Inv[i]  BY <1>1 DEF Rearranged
<1>7. \A t \in Post : t \in [1 .. N -> Priorities \cup {0}] /\ Rearranged(t, s, n) /\ Ordered(t, n)  BY <1>1
<1> HIDE DEF Inv, Post, rank
<1>8. Keeping(I, A, Go, to, next, Inv, Post)  BY <1>4, <1>5 DEF Keeping
<1>9. \E F : F = Rounds(I, A, Go, to, next, F)  BY <1>3, LoopExists
<1>10. \A F : F = Rounds(I, A, Go, to, next, F) => \A i \in I : s \in Inv[i] => F[i][s] \in Post
  BY <1>1, <1>3, <1>8, LoopKeeps
<1> QED BY <1>6, <1>7, <1>9, <1>10 DEF A

LEMMA SwimOrders ==
    ASSUME Priorities \subseteq Int, NEW N \in Nat, NEW n \in 0 .. N, NEW s \in [1 .. N -> Priorities \cup {0}],
           \A k \in 1 .. n : s[k] \in Priorities, NEW i \in 1 .. n, Rising(s, n, i)
    PROVE  /\ swim(s, i) \in [1 .. N -> Priorities \cup {0}]
           /\ Rearranged(swim(s, i), s, n) /\ Ordered(swim(s, i), n)
<1> DEFINE I == 1 .. Len(s)
           A == Arrangements(s)
           Rows(F) == [k \in I |-> [t \in A |-> IF k > 1 /\ t[k \div 2] < t[k] THEN F[k \div 2][swap(t, k, k \div 2)] ELSE t]]
           Go == {z \in I \X A : z[1] > 1 /\ z[2][z[1] \div 2] < z[2][z[1]]}
           to == [k \in I |-> [t \in A |-> k \div 2]]
           next == [k \in I |-> [t \in A |-> swap(t, k, k \div 2)]]
           pos == [k \in I |-> k]
           Loop(F) == Rounds(I, A, Go, to, next, F)
           Swim == CHOOSE F : F = Rows(F)
<1>1. Len(s) = N /\ I = 1 .. N  BY FunctionIsSeq
<1>2. swim(s, i) = Swim[i][s]  BY DEF swim
<1> HIDE DEF I, A
<1>3. \A k \in I : \A t \in A : /\ <<k, t>> \in Go <=> k > 1 /\ t[k \div 2] < t[k]
                               /\ to[k][t] = k \div 2 /\ next[k][t] = swap(t, k, k \div 2)
  OBVIOUS
<1> HIDE DEF Go, to, next
<1>4. \A F : Rows(F) = Loop(F)
  <2> TAKE F
  <2>1. \A k \in I : \A t \in A : (IF k > 1 /\ t[k \div 2] < t[k] THEN F[k \div 2][swap(t, k, k \div 2)] ELSE t)
                                    = IF <<k, t>> \in Go THEN F[to[k][t]][next[k][t]] ELSE t
    BY <1>3
  <2> QED BY <2>1 DEF Rounds
<1>5. pos \in [I -> 1 .. N] /\ \A k \in I : pos[k] = k  BY <1>1
<1> HIDE DEF pos
<1>6. Climbing(I, A, Go, to, next, pos)
  <2> SUFFICES ASSUME NEW k \in I, NEW t \in A
               PROVE  /\ <<k, t>> \in Go <=> pos[k] > 1 /\ t[pos[k] \div 2] < t[pos[k]]
                      /\ <<k, t>> \in Go => /\ to[k][t] \in I /\ pos[to[k][t]] = pos[k] \div 2
                                           /\ next[k][t] \in A /\ Exchanged(t, next[k][t], pos[k], pos[k] \div 2)
    BY DEF Climbing
  <2>1. <<k, t>> \in Go <=> pos[k] > 1 /\ t[pos[k] \div 2] < t[pos[k]]  BY <1>3, <1>5
  <2>2. ASSUME <<k, t>> \in Go
        PROVE  /\ to[k][t] \in I /\ pos[to[k][t]] = pos[k] \div 2
               /\ next[k][t] \in A /\ Exchanged(t, next[k][t], pos[k], pos[k] \div 2)
    <3> DEFINE p == k \div 2
    <3>1. k > 1 /\ to[k][t] = p /\ next[k][t] = swap(t, k, p)  BY <1>3, <2>2
    <3>2. p \in 1 .. N /\ k \in 1 .. N  BY <1>1, <3>1, Half
    <3>3. pos[k] \div 2 = p  BY <1>5
    <3> HIDE DEF p
    <3>4. p \in I /\ pos[p] = p  BY <1>1, <1>5, <3>2
    <3>5. swap(t, k, p) \in A  BY <3>2, ArrangementsOf DEF A
    <3>6. t \in [1 .. N -> Priorities \cup {0}]  BY ArrangementsOf DEF A
    <3>7. Exchanged(t, swap(t, k, p), k, p)  BY <3>2, <3>6, SwapExchanges
    <3> QED BY <1>5, <3>1, <3>3, <3>4, <3>5, <3>7
  <2> QED BY <2>1, <2>2
<1>7. /\ \E F : F = Loop(F)
      /\ \A F : F = Loop(F) =>
           \A k \in I : pos[k] <= n /\ Rising(s, n, pos[k]) =>
             /\ F[k][s] \in [1 .. N -> Priorities \cup {0}]
             /\ Rearranged(F[k][s], s, n) /\ Ordered(F[k][s], n)
  BY SMTT(60), <1>5, <1>6, Climbs DEF A
<1> HIDE DEF Loop, Rows
<1>8. Swim = Loop(Swim)
  <2>1. \E F : F = Rows(F)  BY <1>4, <1>7
  <2>2. Swim = Rows(Swim)  BY <2>1
  <2> HIDE DEF Swim
  <2> QED BY <1>4, <2>2
<1> HIDE DEF Swim
<1>9. i \in I /\ pos[i] = i /\ i <= n  BY <1>1, <1>5
<1> QED BY <1>2, <1>7, <1>8, <1>9

LEMMA SinkOrders ==
    ASSUME Priorities \subseteq Int, NEW N \in Nat, NEW n \in 0 .. N, NEW s \in [1 .. N -> Priorities \cup {0}],
           \A k \in 1 .. n : s[k] \in Priorities, NEW i \in 1 .. N, Falling(s, n, i)
    PROVE  /\ sink(s, i, n) \in [1 .. N -> Priorities \cup {0}]
           /\ Rearranged(sink(s, i, n), s, n) /\ Ordered(sink(s, i, n), n)
<1> DEFINE I == 1 .. Len(s)
           A == Arrangements(s)
           Rows(F) == [k \in I |-> [t \in A |->
                         IF 2 * k <= n /\ t[k] < t[LargerChild(t, k, n)]
                         THEN F[LargerChild(t, k, n)][swap(t, k, LargerChild(t, k, n))]
                         ELSE t]]
           Go == {z \in I \X A : 2 * z[1] <= n /\ z[2][z[1]] < z[2][LargerChild(z[2], z[1], n)]}
           to == [k \in I |-> [t \in A |-> LargerChild(t, k, n)]]
           next == [k \in I |-> [t \in A |-> swap(t, k, LargerChild(t, k, n))]]
           pos == [k \in I |-> k]
           Loop(F) == Rounds(I, A, Go, to, next, F)
           Sink == CHOOSE F : F = Rows(F)
<1>1. Len(s) = N /\ I = 1 .. N  BY FunctionIsSeq
<1>2. sink(s, i, n) = Sink[i][s]  BY DEF sink
<1> HIDE DEF I, A
<1>3. \A k \in I : \A t \in A : /\ <<k, t>> \in Go <=> 2 * k <= n /\ t[k] < t[LargerChild(t, k, n)]
                               /\ to[k][t] = LargerChild(t, k, n) /\ next[k][t] = swap(t, k, LargerChild(t, k, n))
  OBVIOUS
<1> HIDE DEF Go, to, next
<1>4. \A F : Rows(F) = Loop(F)
  <2> TAKE F
  <2>1. \A k \in I : \A t \in A : (IF 2 * k <= n /\ t[k] < t[LargerChild(t, k, n)]
                                   THEN F[LargerChild(t, k, n)][swap(t, k, LargerChild(t, k, n))]
                                   ELSE t)
                                    = IF <<k, t>> \in Go THEN F[to[k][t]][next[k][t]] ELSE t
    BY <1>3
  <2> QED BY <2>1 DEF Rounds
<1>5. pos \in [I -> 1 .. N] /\ \A k \in I : pos[k] = k  BY <1>1
<1> HIDE DEF pos
<1>6. Descending(I, A, Go, to, next, pos, n)
  <2> SUFFICES ASSUME NEW k \in I, NEW t \in A
               PROVE  /\ <<k, t>> \in Go => /\ to[k][t] \in I /\ pos[to[k][t]] \in 2 .. n /\ pos[k] = pos[to[k][t]] \div 2
                                           /\ t[pos[k]] < t[pos[to[k][t]]]
                                           /\ \A j \in 2 .. n : j \div 2 = pos[k] => t[j] <= t[pos[to[k][t]]]
                                           /\ next[k][t] \in A /\ Exchanged(t, next[k][t], pos[k], pos[to[k][t]])
                      /\ <<k, t>> \notin Go => \A j \in 2 .. n : j \div 2 = pos[k] => t[j] <= t[pos[k]]
    BY DEF Descending
  <2> DEFINE c == LargerChild(t, k, n)
  <2>1. t \in [1 .. N -> Priorities \cup {0}] /\ \A j \in 1 .. N : t[j] \in Int  BY ArrangementsOf DEF A
  <2>2. k \in 1 .. N /\ pos[k] = k /\ to[k][t] = c /\ next[k][t] = swap(t, k, c)  BY <1>1, <1>3, <1>5
  <2>3. <<k, t>> \in Go <=> 2 * k <= n /\ t[k] < t[c]  BY <1>3
  <2>4. ASSUME 2 * k <= n
        PROVE  c \in 2 .. n /\ k = c \div 2 /\ \A j \in 2 .. n : j \div 2 = k => t[j] <= t[c]
    <3> DEFINE l == 2 * k
               r == 2 * k + 1
    <3>1. l \div 2 = k /\ r \div 2 = k  BY SMTT(40), <2>2, Children
    <3>2. l \in 2 .. n /\ l \in 1 .. N  BY <2>2, <2>4
    <3>3. \A j \in 2 .. n : j \div 2 = k => j = l \/ j = r  BY Half
    <3>4. (l < n /\ t[l] < t[r] /\ c = r) \/ (~(l < n /\ t[l] < t[r]) /\ c = l)  BY DEF LargerChild
    <3>5. r = l + 1 /\ l \in Nat  BY <2>2
    <3> HIDE DEF l, r, c
    <3>6. CASE l < n /\ t[l] < t[r] /\ c = r
      <4>1. r \in 2 .. n  BY <3>2, <3>5, <3>6
      <4>2. t[l] \in Int /\ t[r] \in Int
        <5>1. r \in 1 .. N  BY <4>1
        <5> QED BY <2>1, <3>2, <5>1
      <4>3. t[l] <= t[r] /\ t[r] <= t[r]  BY <3>6, <4>2
      <4> QED BY <3>1, <3>3, <3>6, <4>1, <4>3
    <3>7. CASE ~(l < n /\ t[l] < t[r]) /\ c = l
      <4>1. t[l] \in Int  BY <2>1, <3>2
      <4>2. ASSUME r \in 2 .. n  PROVE t[r] <= t[l]
        <5>1. l < n /\ r \in 1 .. N  BY <3>2, <3>5, <4>2
        <5>2. t[r] \in Int  BY <2>1, <5>1
        <5> QED BY <3>7, <4>1, <5>1, <5>2
      <4>3. t[l] <= t[l]  BY <4>1
      <4> QED BY <3>1, <3>2, <3>3, <3>7, <4>2, <4>3
    <3> QED BY <3>4, <3>6, <3>7
  <2> HIDE DEF c
  <2>5. ASSUME <<k, t>> \in Go
        PROVE  /\ c \in I /\ pos[c] = c /\ c \in 2 .. n /\ k = c \div 2 /\ t[k] < t[c]
               /\ \A j \in 2 .. n : j \div 2 = k => t[j] <= t[c]
               /\ swap(t, k, c) \in A /\ Exchanged(t, swap(t, k, c), k, c)
    <3>1. /\ c \in 2 .. n /\ k = c \div 2 /\ t[k] < t[c]
          /\ \A j \in 2 .. n : j \div 2 = k => t[j] <= t[c]
      BY <2>3, <2>4, <2>5
    <3>2. c \in 1 .. N  BY <3>1
    <3>3. c \in I /\ pos[c] = c  BY <1>1, <1>5, <3>2
    <3>4. swap(t, k, c) \in A  BY <2>2, <3>2, ArrangementsOf DEF A
    <3>5. Exchanged(t, swap(t, k, c), k, c)  BY <2>1, <2>2, <3>2, SwapExchanges
    <3> QED BY <3>1, <3>3, <3>4, <3>5
  <2>6. ASSUME <<k, t>> \notin Go  PROVE \A j \in 2 .. n : j \div 2 = k => t[j] <= t[k]
    <3> TAKE j \in 2 .. n
    <3> HAVE j \div 2 = k
    <3>1. 2 * k <= n  BY Half
    <3>2. c \in 2 .. n /\ t[j] <= t[c] /\ ~(t[k] < t[c])  BY <2>3, <2>4, <2>6, <3>1
    <3>3. c \in 1 .. N /\ j \in 1 .. N  BY <3>2
    <3>4. t[j] \in Int /\ t[c] \in Int /\ t[k] \in Int  BY <2>1, <2>2, <3>3
    <3> QED BY <3>2, <3>4
  <2> QED BY <2>2, <2>5, <2>6
<1>7. /\ \E F : F = Loop(F)
      /\ \A F : F = Loop(F) =>
           \A k \in I : Falling(s, n, pos[k]) =>
             /\ F[k][s] \in [1 .. N -> Priorities \cup {0}]
             /\ Rearranged(F[k][s], s, n) /\ Ordered(F[k][s], n)
  BY SMTT(60), <1>5, <1>6, Descends DEF A
<1> HIDE DEF Loop, Rows
<1>8. Sink = Loop(Sink)
  <2>1. \E F : F = Rows(F)  BY <1>4, <1>7
  <2>2. Sink = Rows(Sink)  BY <2>1
  <2> HIDE DEF Sink
  <2> QED BY <1>4, <2>2
<1> HIDE DEF Sink
<1>9. i \in I /\ pos[i] = i  BY <1>1, <1>5
<1> QED BY <1>2, <1>7, <1>8, <1>9

(* The indexes of the Go slice are one less than the places. *)
LEMMA Family ==
    ASSUME NEW k \in Nat
    PROVE  /\ k > 0 => parentIndex(k) \in Nat /\ parentIndex(k) + 1 = (k + 1) \div 2
           /\ k = 0 => parentIndex(k) = 0
           /\ leftChildIndex(k) \in Nat /\ leftChildIndex(k) + 1 = 2 * (k + 1)
           /\ rightChildIndex(k) \in Nat /\ rightChildIndex(k) + 1 = 2 * (k + 1) + 1
BY DEF parentIndex, leftChildIndex, rightChildIndex

LEMMA HeapifyUpOrders ==
    ASSUME Priorities \subseteq Int, NEW N \in Nat, NEW d \in [1 .. N -> Priorities],
           NEW i \in 0 .. N - 1, Rising(d, N, i + 1)
    PROVE  /\ heapifyUp(d, i) \in [1 .. N -> Priorities \cup {0}]
           /\ Rearranged(heapifyUp(d, i), d, N) /\ Ordered(heapifyUp(d, i), N)
<1> DEFINE I == 0 .. Len(d) - 1
           A == Arrangements(d)
           Rows(F) == [k \in I |-> [t \in A |-> IF t[parentIndex(k) + 1] < t[k + 1]
                                               THEN F[parentIndex(k)][swap(t, parentIndex(k) + 1, k + 1)]
                                               ELSE t]]
           Go == {z \in I \X A : z[2][parentIndex(z[1]) + 1] < z[2][z[1] + 1]}
           to == [k \in I |-> [t \in A |-> parentIndex(k)]]
           next == [k \in I |-> [t \in A |-> swap(t, parentIndex(k) + 1, k + 1)]]
           pos == [k \in I |-> k + 1]
           Loop(F) == Rounds(I, A, Go, to, next, F)
           Up == CHOOSE F : F = Rows(F)
<1>1. Len(d) = N /\ I = 0 .. N - 1  BY FunctionIsSeq
<1>2. heapifyUp(d, i) = Up[i][d]  BY DEF heapifyUp
<1> HIDE DEF I, A
<1>3. \A k \in I : \A t \in A : /\ <<k, t>> \in Go <=> t[parentIndex(k) + 1] < t[k + 1]
                               /\ to[k][t] = parentIndex(k) /\ next[k][t] = swap(t, parentIndex(k) + 1, k + 1)
  OBVIOUS
<1> HIDE DEF Go, to, next
<1>4. \A F : Rows(F) = Loop(F)
  <2> TAKE F
  <2>1. \A k \in I : \A t \in A : (IF t[parentIndex(k) + 1] < t[k + 1]
                                   THEN F[parentIndex(k)][swap(t, parentIndex(k) + 1, k + 1)]
                                   ELSE t)
                                    = IF <<k, t>> \in Go THEN F[to[k][t]][next[k][t]] ELSE t
    BY <1>3
  <2> QED BY <2>1 DEF Rounds
<1>5. pos \in [I -> 1 .. N] /\ \A k \in I : pos[k] = k + 1  BY <1>1
<1> HIDE DEF pos
<1>6. d \in [1 .. N -> Priorities \cup {0}] /\ \A k \in 1 .. N : d[k] \in Priorities  OBVIOUS
<1>7. Climbing(I, A, Go, to, next, pos)
  <2> SUFFICES ASSUME NEW k \in I, NEW t \in A
               PROVE  /\ <<k, t>> \in Go <=> pos[k] > 1 /\ t[pos[k] \div 2] < t[pos[k]]
                      /\ <<k, t>> \in Go => /\ to[k][t] \in I /\ pos[to[k][t]] = pos[k] \div 2
                                           /\ next[k][t] \in A /\ Exchanged(t, next[k][t], pos[k], pos[k] \div 2)
    BY DEF Climbing
  <2> DEFINE q == k + 1
             h == parentIndex(k)
             p == q \div 2
  <2>0. k \in Nat /\ q \in 1 .. N  BY <1>1
  <2>1. t \in [1 .. N -> Priorities \cup {0}] /\ \A j \in 1 .. N : t[j] \in Int  BY <1>6, ArrangementsOf DEF A
  <2>2. k = 0 => h = 0  BY Family
  <2>3. k > 0 => h \in Nat /\ h + 1 = p /\ p \in Nat /\ 1 <= p /\ p < q  BY <2>0, Family, Half
  <2>4. pos[k] = q /\ to[k][t] = h /\ next[k][t] = swap(t, h + 1, q) /\ (<<k, t>> \in Go <=> t[h + 1] < t[q])
    BY <1>3, <1>5
  <2>5. q = k + 1 /\ pos[k] \div 2 = p  BY <1>5
  <2> HIDE DEF q, h, p
  <2>6. <<k, t>> \in Go => k > 0
    <3>1. CASE k = 0
      <4>1. h + 1 = q  BY <2>2, <2>5, <3>1
      <4>2. t[q] \in Int  BY <2>0, <2>1
      <4>3. ~(t[q] < t[q])  BY <4>2
      <4> QED BY <2>4, <4>1, <4>3
    <3> QED BY <2>0, <3>1
  <2>7. <<k, t>> \in Go <=> q > 1 /\ t[p] < t[q]
    <3>1. CASE k > 0  BY <2>3, <2>4, <2>5, <3>1
    <3>2. CASE ~(k > 0)  BY <2>5, <2>0, <2>6, <3>2
    <3> QED BY <3>1, <3>2
  <2>8. ASSUME <<k, t>> \in Go
        PROVE  h \in I /\ pos[h] = p /\ swap(t, h + 1, q) \in A /\ Exchanged(t, swap(t, h + 1, q), q, p)
    <3>1. h \in Nat /\ h + 1 = p /\ p \in 1 .. N  BY <2>0, <2>3, <2>6, <2>8
    <3>2. h \in I /\ pos[h] = p
      <4>1. h \in I  BY <1>1, <3>1
      <4> QED BY <1>5, <3>1, <4>1
    <3>3. swap(t, p, q) \in A  BY <1>6, <2>0, <3>1, ArrangementsOf DEF A
    <3>4. Exchanged(t, swap(t, p, q), p, q)  BY <2>0, <2>1, <3>1, SwapExchanges
    <3>5. Exchanged(t, swap(t, p, q), q, p)  BY <3>4, Exchanges
    <3> QED BY <3>1, <3>2, <3>3, <3>5
  <2> QED BY <2>4, <2>5, <2>7, <2>8
<1>8. /\ \E F : F = Loop(F)
      /\ \A F : F = Loop(F) =>
           \A k \in I : pos[k] <= N /\ Rising(d, N, pos[k]) =>
             /\ F[k][d] \in [1 .. N -> Priorities \cup {0}]
             /\ Rearranged(F[k][d], d, N) /\ Ordered(F[k][d], N)
  <2>1. N \in 0 .. N  OBVIOUS
  <2> QED BY SMTT(60), <1>5, <1>6, <1>7, <2>1, Climbs DEF A
<1> HIDE DEF Loop, Rows
<1>9. Up = Loop(Up)
  <2>1. \E F : F = Rows(F)  BY <1>4, <1>8
  <2>2. Up = Rows(Up)  BY <2>1
  <2> HIDE DEF Up
  <2> QED BY <1>4, <2>2
<1> HIDE DEF Up
<1>10. i \in I /\ pos[i] = i + 1 /\ i + 1 <= N  BY <1>1, <1>5
<1> QED BY <1>2, <1>8, <1>9, <1>10

LEMMA HeapifyDownOrders ==
    ASSUME Priorities \subseteq Int, NEW N \in Nat \ {0}, NEW d \in [1 .. N -> Priorities],
           NEW i \in 0 .. N - 1, Falling(d, N, i + 1)
    PROVE  /\ heapifyDown(d, i) \in [1 .. N -> Priorities \cup {0}]
           /\ Rearranged(heapifyDown(d, i), d, N) /\ Ordered(heapifyDown(d, i), N)
<1> DEFINE I == 0 .. Len(d) - 1
           A == Arrangements(d)
           Rows(F) == [k \in I |-> [t \in A |->
                         IF leftChildIndex(k) > Len(d) - 1 THEN t
                         ELSE IF t[k + 1] < t[childToCompare(t, k) + 1]
                         THEN F[childToCompare(t, k)][swap(t, k + 1, childToCompare(t, k) + 1)]
                         ELSE t]]
           Go == {z \in I \X A : /\ ~(leftChildIndex(z[1]) > Len(d) - 1)
                                 /\ z[2][z[1] + 1] < z[2][childToCompare(z[2], z[1]) + 1]}
           to == [k \in I |-> [t \in A |-> childToCompare(t, k)]]
           next == [k \in I |-> [t \in A |-> swap(t, k + 1, childToCompare(t, k) + 1)]]
           pos == [k \in I |-> k + 1]
           Loop(F) == Rounds(I, A, Go, to, next, F)
           Down == CHOOSE F : F = Rows(F)
<1>1. Len(d) = N /\ I = 0 .. N - 1  BY FunctionIsSeq
<1>2. heapifyDown(d, i) = Down[i][d]
  <2>1. d # <<>>  BY <1>1
  <2> QED BY <2>1 DEF heapifyDown
<1> HIDE DEF I, A
<1>3. \A k \in I : \A t \in A : /\ <<k, t>> \in Go <=> /\ ~(leftChildIndex(k) > Len(d) - 1)
                                                      /\ t[k + 1] < t[childToCompare(t, k) + 1]
                               /\ to[k][t] = childToCompare(t, k)
                               /\ next[k][t] = swap(t, k + 1, childToCompare(t, k) + 1)
  OBVIOUS
<1> HIDE DEF Go, to, next
<1>4. \A F : Rows(F) = Loop(F)
  <2> TAKE F
  <2>1. \A k \in I : \A t \in A : (IF leftChildIndex(k) > Len(d) - 1 THEN t
                                   ELSE IF t[k + 1] < t[childToCompare(t, k) + 1]
                                   THEN F[childToCompare(t, k)][swap(t, k + 1, childToCompare(t, k) + 1)]
                                   ELSE t)
                                    = IF <<k, t>> \in Go THEN F[to[k][t]][next[k][t]] ELSE t
    BY <1>3
  <2> QED BY <2>1 DEF Rounds
<1>5. pos \in [I -> 1 .. N] /\ \A k \in I : pos[k] = k + 1  BY <1>1
<1> HIDE DEF pos
<1>6. d \in [1 .. N -> Priorities \cup {0}] /\ \A k \in 1 .. N : d[k] \in Priorities  OBVIOUS
<1>7. Descending(I, A, Go, to, next, pos, N)
  <2> SUFFICES ASSUME NEW k \in I, NEW t \in A
               PROVE  /\ <<k, t>> \in Go => /\ to[k][t] \in I /\ pos[to[k][t]] \in 2 .. N /\ pos[k] = pos[to[k][t]] \div 2
                                           /\ t[pos[k]] < t[pos[to[k][t]]]
                                           /\ \A j \in 2 .. N : j \div 2 = pos[k] => t[j] <= t[pos[to[k][t]]]
                                           /\ next[k][t] \in A /\ Exchanged(t, next[k][t], pos[k], pos[to[k][t]])
                      /\ <<k, t>> \notin Go => \A j \in 2 .. N : j \div 2 = pos[k] => t[j] <= t[pos[k]]
    BY DEF Descending
  <2> DEFINE q == k + 1
             x == childToCompare(t, k)
             c == x + 1
             l == leftChildIndex(k) + 1
             r == rightChildIndex(k) + 1
  <2>1. t \in [1 .. N -> Priorities \cup {0}] /\ \A j \in 1 .. N : t[j] \in Int  BY <1>6, ArrangementsOf DEF A
  <2>2. q \in 1 .. N /\ pos[k] = q /\ to[k][t] = x /\ next[k][t] = swap(t, q, c) /\ q = k + 1 /\ k \in Nat
    <3>1. q \in 1 .. N /\ q = k + 1 /\ k \in Nat  BY <1>1
    <3>2. to[k][t] = x /\ next[k][t] = swap(t, q, c)  BY <1>3
    <3>3. pos[k] = q  BY <1>5
    <3> QED BY <3>1, <3>2, <3>3
  <2>3. l = 2 * q /\ r = 2 * q + 1  BY <2>2, Family
  <2>4. <<k, t>> \in Go <=> l <= N /\ t[q] < t[c]
    <3>1. leftChildIndex(k) \in Nat  BY <2>2, Family
    <3>2. ~(leftChildIndex(k) > Len(d) - 1) <=> l <= N  BY <1>1, <3>1
    <3> QED BY <1>3, <3>2
  <2>5. c = l \/ c = r
    BY DEF childToCompare
  <2>6. (c = l /\ (l = N \/ t[l] > t[r])) \/ (c = r /\ ~(l = N \/ t[l] > t[r]))
    <3>1. Len(t) = N  BY <2>1, FunctionIsSeq
    <3>2. leftChildIndex(k) \in Nat  BY <2>2, Family
    <3>3. leftChildIndex(k) = Len(t) - 1 <=> l = N  BY <3>1, <3>2
    <3> QED BY <3>3 DEF childToCompare
  <2>7. x = c - 1
    <3>1. x \in Nat  BY <2>2, Family DEF childToCompare
    <3> QED BY <3>1
  <2> HIDE DEF q, x, c, l, r
  <2>8. ASSUME l <= N
        PROVE  c \in 2 .. N /\ q = c \div 2 /\ \A j \in 2 .. N : j \div 2 = q => t[j] <= t[c]
    <3>1. l \div 2 = q /\ r \div 2 = q  BY <2>2, <2>3, Children
    <3>2. l \in 2 .. N /\ l \in 1 .. N  BY <2>2, <2>3, <2>8
    <3>3. \A j \in 2 .. N : j \div 2 = q => j = l \/ j = r  BY <2>3, Half
    <3>4. r = l + 1 /\ l \in Nat  BY <2>2, <2>3
    <3>5. CASE c = r /\ ~(l = N \/ t[l] > t[r])
      <4>1. r \in 2 .. N  BY <3>2, <3>4, <3>5
      <4>2. t[l] \in Int /\ t[r] \in Int
        <5>1. r \in 1 .. N  BY <4>1
        <5> QED BY <2>1, <3>2, <5>1
      <4>3. t[l] <= t[r] /\ t[r] <= t[r]  BY <3>5, <4>2
      <4> QED BY <3>1, <3>3, <3>5, <4>1, <4>3
    <3>6. CASE c = l /\ (l = N \/ t[l] > t[r])
      <4>1. t[l] \in Int  BY <2>1, <3>2
      <4>2. ASSUME r \in 2 .. N  PROVE t[r] <= t[l]
        <5>1. l < N /\ r \in 1 .. N  BY <3>2, <3>4, <4>2
        <5>2. t[r] \in Int  BY <2>1, <5>1
        <5> QED BY <3>6, <4>1, <5>1, <5>2
      <4>3. t[l] <= t[l]  BY <4>1
      <4> QED BY <3>1, <3>2, <3>3, <3>6, <4>2, <4>3
    <3> QED BY <2>6, <3>5, <3>6
  <2>9. ASSUME <<k, t>> \in Go
        PROVE  /\ x \in I /\ pos[x] = c /\ c \in 2 .. N /\ q = c \div 2 /\ t[q] < t[c]
               /\ \A j \in 2 .. N : j \div 2 = q => t[j] <= t[c]
               /\ swap(t, q, c) \in A /\ Exchanged(t, swap(t, q, c), q, c)
    <3>1. /\ c \in 2 .. N /\ q = c \div 2 /\ t[q] < t[c]
          /\ \A j \in 2 .. N : j \div 2 = q => t[j] <= t[c]
      BY <2>4, <2>8, <2>9
    <3>2. c \in 1 .. N  BY <3>1
    <3>3. x \in I /\ pos[x] = c
      <4>1. x \in I /\ x + 1 = c  BY <1>1, <2>7, <3>2
      <4> QED BY <1>5, <4>1
    <3>4. swap(t, q, c) \in A  BY <1>6, <2>2, <3>2, ArrangementsOf DEF A
    <3>5. Exchanged(t, swap(t, q, c), q, c)  BY <2>1, <2>2, <3>2, SwapExchanges
    <3> QED BY <3>1, <3>3, <3>4, <3>5
  <2>10. ASSUME <<k, t>> \notin Go  PROVE \A j \in 2 .. N : j \div 2 = q => t[j] <= t[q]
    <3> TAKE j \in 2 .. N
    <3> HAVE j \div 2 = q
    <3>1. l <= N  BY <2>3, Half
    <3>2. c \in 2 .. N /\ t[j] <= t[c] /\ ~(t[q] < t[c])  BY <2>4, <2>8, <2>10, <3>1
    <3>3. c \in 1 .. N /\ j \in 1 .. N  BY <3>2
    <3>4. t[j] \in Int /\ t[c] \in Int /\ t[q] \in Int  BY <2>1, <2>2, <3>3
    <3> QED BY <3>2, <3>4
  <2> QED BY <2>2, <2>9, <2>10
<1>8. /\ \E F : F = Loop(F)
      /\ \A F : F = Loop(F) =>
           \A k \in I : Falling(d, N, pos[k]) =>
             /\ F[k][d] \in [1 .. N -> Priorities \cup {0}]
             /\ Rearranged(F[k][d], d, N) /\ Ordered(F[k][d], N)
  <2>1. N \in 0 .. N  OBVIOUS
  <2> QED BY SMTT(60), <1>5, <1>6, <1>7, <2>1, Descends DEF A
<1> HIDE DEF Loop, Rows
<1>9. Down = Loop(Down)
  <2>1. \E F : F = Rows(F)  BY <1>4, <1>8
  <2>2. Down = Rows(Down)  BY <2>1
  <2> HIDE DEF Down
  <2> QED BY <1>4, <2>2
<1> HIDE DEF Down
<1>10. i \in I /\ pos[i] = i + 1  BY <1>1, <1>5
<1> QED BY <1>2, <1>8, <1>9, <1>10

-----------------------------------------------------------------------------
(* The operations *)

(* The last of n takes the place of the first, which leaves. *)
LEMMA FirstLeaves ==
    ASSUME NEW N \in Nat, NEW n \in 1 .. N, NEW t \in [1 .. N -> Priorities \cup {0}], \A k \in 1 .. n : t[k] \in Priorities,
           Ordered(t, n), NEW u, \A k \in 1 .. n - 1 : u[k] = IF k = 1 THEN t[n] ELSE t[k]
    PROVE  /\ \A k \in 1 .. n - 1 : u[k] \in Priorities
           /\ Falling(u, n - 1, 1)
           /\ Holding(u, n - 1) = [Holding(t, n) EXCEPT ![t[1]] = @ - 1]
<1>1. \A k \in 1 .. n - 1 : u[k] \in Priorities
  <2> TAKE k \in 1 .. n - 1
  <2>1. t[n] \in Priorities /\ t[k] \in Priorities  OBVIOUS
  <2> QED BY <2>1
<1>2. Falling(u, n - 1, 1)
  <2> SUFFICES ASSUME NEW j \in 2 .. n - 1, j \div 2 # 1  PROVE u[j] <= u[j \div 2]  BY DEF Falling
  <2> DEFINE h == j \div 2
  <2>1. h \in Nat /\ 1 <= h /\ h < j /\ h # 1  BY Half
  <2>2. j \in 2 .. n  OBVIOUS
  <2>3. t[j] <= t[h]  BY <2>2 DEF Ordered
  <2> HIDE DEF h
  <2>4. j # 1 /\ j \in 1 .. n - 1 /\ h \in 1 .. n - 1  BY <2>1
  <2>5. u[j] = t[j] /\ u[h] = t[h]  BY <2>1, <2>4
  <2>6. u[j] <= u[h]  BY <2>3, <2>5
  <2> QED BY <2>6 DEF h
<1>3. Holding(u, n - 1) = [Holding(t, n) EXCEPT ![t[1]] = @ - 1]
  <2> DEFINE e == swap(t, 1, n)
             m == n - 1
             v == t[1]
  <2>0. 1 \in 1 .. N /\ n \in 1 .. N /\ 1 \in 1 .. n /\ n \in 1 .. n /\ v \in Priorities /\ m \in Nat /\ m + 1 = n
    OBVIOUS
  <2>1. Exchanged(t, e, 1, n)  BY <2>0, SwapExchanges
  <2> HIDE DEF e, m, v
  <2>2. Holding(e, n) = Holding(t, n)
    <3>1. DOMAIN t = 1 .. N /\ n \in 0 .. N  OBVIOUS
    <3> QED BY <2>0, <2>1, <3>1, HoldingExchanged
  <2>3. e[n] = v /\ \A k \in 1 .. m : e[k] = u[k]
    <3>1. DOMAIN t = 1 .. N  OBVIOUS
    <3>2. e[1] = t[n] /\ e[n] = t[1] /\ \A k \in 1 .. N : k # 1 /\ k # n => e[k] = t[k]
      BY <2>1, <3>1 DEF Exchanged
    <3>3. ASSUME NEW k \in 1 .. m  PROVE e[k] = u[k]
      <4>1. k \in 1 .. N /\ k # n /\ k \in 1 .. n - 1  BY <2>0 DEF m
      <4>2. CASE k = 1  BY <3>2, <4>1, <4>2
      <4>3. CASE k # 1  BY <3>2, <4>1, <4>3
      <4> QED BY <4>2, <4>3
    <3> QED BY <3>2, <3>3 DEF v
  <2>4. Holding(e, n) = [Holding(u, m) EXCEPT ![v] = @ + 1]
    <3>1. e[m + 1] = v  BY <2>0, <2>3
    <3>2. Holding(e, m + 1) = [Holding(u, m) EXCEPT ![v] = @ + 1]  BY <2>0, <2>3, <3>1, HoldingAdded
    <3> QED BY <2>0, <3>2
  <2> DEFINE H == Holding(u, m)
  <2>5. H \in [Priorities -> Nat]  BY <2>0, HoldingIsNat
  <2> HIDE DEF H
  <2>6. [[H EXCEPT ![v] = @ + 1] EXCEPT ![v] = @ - 1] = H
    <3> DEFINE J == [[H EXCEPT ![v] = @ + 1] EXCEPT ![v] = @ - 1]
    <3>1. J = [w \in Priorities |-> J[w]] /\ H = [w \in Priorities |-> H[w]]  BY <2>5
    <3>2. \A w \in Priorities : J[w] = H[w]  BY <2>5
    <3> HIDE DEF J
    <3> QED BY <3>1, <3>2 DEF J
  <2>7. H = [Holding(t, n) EXCEPT ![v] = @ - 1]  BY <2>2, <2>4, <2>6 DEF H
  <2> QED BY <2>7 DEF H, v, m
<1> QED BY <1>1, <1>2, <1>3

(* The slots of a priority queue. *)
Slots(s, n) ==
  /\ s \in [1 .. QueueCapacity -> Priorities \cup {0}]
  /\ \A i \in 1 .. QueueCapacity : IF i <= n THEN s[i] \in Priorities ELSE s[i] = 0
  /\ Ordered(s, n)

LEMMA Enqueued ==
    ASSUME Priorities \subseteq Int, QueueCapacity \in Nat, NEW n \in 0 .. QueueCapacity - 1, NEW s, Slots(s, n), NEW v \in Priorities
    PROVE  LET u == swim([s EXCEPT ![n + 1] = v], n + 1)
           IN  Slots(u, n + 1) /\ Holding(u, n + 1) = [Holding(s, n) EXCEPT ![v] = @ + 1]
<1> DEFINE N == QueueCapacity
           m == n + 1
           t == [s EXCEPT ![m] = v]
           u == swim(t, m)
<1>1. /\ s \in [1 .. N -> Priorities \cup {0}]
      /\ \A i \in 1 .. N : IF i <= n THEN s[i] \in Priorities ELSE s[i] = 0
      /\ Ordered(s, n)
  BY DEF Slots
<1>2. m \in 1 .. N /\ m = n + 1  OBVIOUS
<1> HIDE DEF m
<1>3. t \in [1 .. N -> Priorities \cup {0}] /\ t[m] = v /\ \A i \in 1 .. N : i # m => t[i] = s[i]  BY <1>1, <1>2
<1> HIDE DEF t
<1>4. \A k \in 1 .. m : t[k] \in Priorities
  <2> TAKE k \in 1 .. m
  <2>1. k \in 1 .. N /\ (k = m \/ k <= n)  BY <1>2
  <2> QED BY <1>1, <1>2, <1>3, <2>1
<1>5. Rising(t, m, m)
  <2> SUFFICES ASSUME NEW j \in 2 .. m
               PROVE  (j # m => t[j] <= t[j \div 2]) /\ (j \div 2 = m /\ m > 1 => t[j] <= t[m \div 2])
    BY DEF Rising
  <2> DEFINE h == j \div 2
  <2>1. h \in Nat /\ 1 <= h /\ h < j  BY Half
  <2>2. j # m => j \in 2 .. n  BY <1>2
  <2>3. j # m => s[j] <= s[h]  BY <1>1, <2>2 DEF Ordered
  <2> HIDE DEF h
  <2>4. h # m /\ h \in 1 .. N /\ j \in 1 .. N  BY <1>2, <2>1
  <2>5. j # m => t[j] <= t[h]  BY <1>3, <2>3, <2>4
  <2> QED BY <2>4, <2>5 DEF h
<1>6. u \in [1 .. N -> Priorities \cup {0}] /\ Rearranged(u, t, m) /\ Ordered(u, m)
  <2>1. m \in 0 .. N /\ m \in 1 .. m  BY <1>2
  <2> QED BY <1>3, <1>4, <1>5, <2>1, SwimOrders
<1> HIDE DEF u
<1>7. ASSUME NEW i \in 1 .. N  PROVE IF i <= m THEN u[i] \in Priorities ELSE u[i] = 0
  <2>1. DOMAIN t = 1 .. N  BY <1>3
  <2>2. CASE i <= m
    <3>1. i \in 1 .. m  BY <1>2, <2>2
    <3> QED BY <1>6, <2>2, <3>1 DEF Rearranged
  <2>3. CASE ~(i <= m)
    <3>1. i \in DOMAIN t \ (1 .. m) /\ i # m /\ ~(i <= n)  BY <1>2, <2>1, <2>3
    <3>2. u[i] = t[i] /\ t[i] = s[i] /\ s[i] = 0  BY <1>1, <1>3, <1>6, <3>1 DEF Rearranged
    <3> QED BY <2>3, <3>2
  <2> QED BY <2>2, <2>3
<1>8. Holding(u, m) = [Holding(s, n) EXCEPT ![v] = @ + 1]
  <2>1. Holding(u, m) = Holding(t, m)  BY <1>6 DEF Rearranged
  <2>2. t[n + 1] = v /\ \A k \in 1 .. n : t[k] = s[k]
    <3>1. \A k \in 1 .. n : k \in 1 .. N /\ k # m  BY <1>2
    <3> QED BY <1>2, <1>3, <3>1
  <2>3. Holding(t, n + 1) = [Holding(s, n) EXCEPT ![v] = @ + 1]  BY <2>2, HoldingAdded
  <2> QED BY <1>2, <2>1, <2>3
<1>9. Slots(u, m)  BY <1>6, <1>7 DEF Slots
<1> QED BY <1>8, <1>9 DEF u, t, m

LEMMA Dequeued ==
    ASSUME Priorities \subseteq Int, QueueCapacity \in Nat, NEW n \in 1 .. QueueCapacity, NEW s, Slots(s, n)
    PROVE  LET u == [sink(swap(s, 1, n), 1, n - 1) EXCEPT ![n] = 0]
           IN  Slots(u, n - 1) /\ Holding(u, n - 1) = [Holding(s, n) EXCEPT ![s[1]] = @ - 1]
<1> DEFINE N == QueueCapacity
           m == n - 1
           t == swap(s, 1, n)
           x == sink(t, 1, m)
           u == [x EXCEPT ![n] = 0]
<1>1. /\ s \in [1 .. N -> Priorities \cup {0}]
      /\ \A i \in 1 .. N : IF i <= n THEN s[i] \in Priorities ELSE s[i] = 0
      /\ Ordered(s, n)
  BY DEF Slots
<1>2. 1 \in 1 .. N /\ n \in 1 .. N /\ m \in 0 .. N /\ m = n - 1  OBVIOUS
<1>3. t \in [1 .. N -> Priorities \cup {0}] /\ Exchanged(s, t, 1, n)  BY <1>1, <1>2, SwapExchanges
<1> HIDE DEF t, m
<1>4. t[1] = s[n] /\ t[n] = s[1] /\ \A k \in 1 .. N : k # 1 /\ k # n => t[k] = s[k]
  <2>1. DOMAIN s = 1 .. N  BY <1>1
  <2> QED BY <1>3, <2>1 DEF Exchanged
<1>5. \A k \in 1 .. m : t[k] = IF k = 1 THEN s[n] ELSE s[k]
  <2> TAKE k \in 1 .. m
  <2>1. k \in 1 .. N /\ k # n  BY <1>2
  <2> QED BY <1>4, <2>1
<1>6. /\ \A k \in 1 .. m : t[k] \in Priorities
      /\ Falling(t, m, 1)
      /\ Holding(t, m) = [Holding(s, n) EXCEPT ![s[1]] = @ - 1]
  <2>1. \A k \in 1 .. n : s[k] \in Priorities
    <3> TAKE k \in 1 .. n
    <3>1. k \in 1 .. N /\ k <= n  OBVIOUS
    <3> QED BY <1>1, <3>1
  <2>2. \A k \in 1 .. n - 1 : t[k] = IF k = 1 THEN s[n] ELSE s[k]  BY <1>2, <1>5
  <2>3. /\ \A k \in 1 .. n - 1 : t[k] \in Priorities
        /\ Falling(t, n - 1, 1)
        /\ Holding(t, n - 1) = [Holding(s, n) EXCEPT ![s[1]] = @ - 1]
    <3>1. s \in [1 .. N -> Priorities \cup {0}] /\ Ordered(s, n) /\ N \in Nat /\ n \in 1 .. N  BY <1>1
    <3> HIDE DEF N
    <3> QED BY ZenonT(40), <2>1, <2>2, <3>1, FirstLeaves
  <2> QED BY <1>2, <2>3
<1>7. x \in [1 .. N -> Priorities \cup {0}] /\ Rearranged(x, t, m) /\ Ordered(x, m)
  BY <1>2, <1>3, <1>6, SinkOrders
<1> HIDE DEF x
<1>8. u \in [1 .. N -> Priorities \cup {0}] /\ u[n] = 0 /\ \A k \in 1 .. N : k # n => u[k] = x[k]
  BY <1>2, <1>7
<1> HIDE DEF u
<1>9. \A k \in 1 .. m : u[k] = x[k]
  <2> TAKE k \in 1 .. m
  <2>1. k \in 1 .. N /\ k # n  BY <1>2
  <2> QED BY <1>8, <2>1
<1>10. Ordered(u, m)
  <2> SUFFICES ASSUME NEW j \in 2 .. m  PROVE u[j] <= u[j \div 2]  BY DEF Ordered
  <2> DEFINE h == j \div 2
  <2>1. h \in Nat /\ 1 <= h /\ h < j  BY Half
  <2>2. x[j] <= x[h]  BY <1>7 DEF Ordered
  <2> HIDE DEF h
  <2>3. j \in 1 .. m /\ h \in 1 .. m  BY <1>2, <2>1
  <2>4. u[j] <= u[h]  BY <1>9, <2>2, <2>3
  <2> QED BY <2>4 DEF h
<1>11. ASSUME NEW i \in 1 .. N  PROVE IF i <= m THEN u[i] \in Priorities ELSE u[i] = 0
  <2>1. CASE i <= m
    <3>1. i \in 1 .. m  BY <1>2, <2>1
    <3>2. x[i] \in Priorities  BY <1>7, <3>1 DEF Rearranged
    <3> QED BY <1>9, <2>1, <3>1, <3>2
  <2>2. CASE i = n
    BY <1>2, <1>8, <2>2
  <2>3. CASE i > n
    <3>1. DOMAIN t = 1 .. N  BY <1>3
    <3>2. i \in DOMAIN t \ (1 .. m) /\ i # n /\ i # 1 /\ ~(i <= n) /\ ~(i <= m)  BY <1>2, <2>3, <3>1
    <3>3. u[i] = x[i] /\ x[i] = t[i] /\ t[i] = s[i] /\ s[i] = 0
      BY <1>1, <1>4, <1>7, <1>8, <3>2 DEF Rearranged
    <3> QED BY <3>2, <3>3
  <2> QED BY <1>2, <2>1, <2>2, <2>3
<1>12. Holding(u, m) = Holding(x, m)
  <2>1. \A v : {k \in 1 .. m : u[k] = v} = {k \in 1 .. m : x[k] = v}  BY <1>9
  <2> QED BY <2>1 DEF Holding
<1>13. Holding(u, m) = [Holding(s, n) EXCEPT ![s[1]] = @ - 1]
  BY <1>6, <1>7, <1>12 DEF Rearranged
<1>14. Slots(u, m)  BY <1>8, <1>10, <1>11 DEF Slots
<1> QED BY <1>13, <1>14 DEF u, x, t, m

LEMMA PushedHeap ==
    ASSUME Priorities \subseteq Int, NEW n \in Nat, NEW d \in [1 .. n -> Priorities], Ordered(d, n), NEW v \in Priorities
    PROVE  /\ Pushed(d, v) \in [1 .. n + 1 -> Priorities]
           /\ Ordered(Pushed(d, v), n + 1)
           /\ Holding(Pushed(d, v), n + 1) = [Holding(d, n) EXCEPT ![v] = @ + 1]
<1> DEFINE m == n + 1
           t == Append(d, v)
           u == heapifyUp(t, n)
<1>1. d \in Seq(Priorities) /\ Len(d) = n  BY FunctionIsSeq
<1>2. t \in Seq(Priorities) /\ Len(t) = m /\ t[m] = v /\ \A k \in 1 .. n : t[k] = d[k]
  BY <1>1, AppendProperties
<1>3. t \in [1 .. m -> Priorities]
  <2>1. DOMAIN t = 1 .. m /\ t = [k \in 1 .. m |-> t[k]]  BY <1>2, LenProperties
  <2>2. \A k \in 1 .. m : t[k] \in Priorities  BY <1>2, ElementOfSeq
  <2> HIDE DEF t, m
  <2> QED BY <2>1, <2>2
<1>4. Pushed(d, v) = u  BY <1>1 DEF Pushed
<1>5. m = n + 1 /\ m \in Nat /\ n \in 0 .. m - 1  OBVIOUS
<1> HIDE DEF t, m
<1>6. Rising(t, m, m)
  <2> SUFFICES ASSUME NEW j \in 2 .. m
               PROVE  (j # m => t[j] <= t[j \div 2]) /\ (j \div 2 = m /\ m > 1 => t[j] <= t[m \div 2])
    BY DEF Rising
  <2> DEFINE h == j \div 2
  <2>1. h \in Nat /\ 1 <= h /\ h < j  BY Half
  <2>2. j # m => j \in 2 .. n  BY <1>5
  <2>3. j # m => d[j] <= d[h]  BY <2>2 DEF Ordered
  <2> HIDE DEF h
  <2>4. h # m /\ (j # m => h \in 1 .. n /\ j \in 1 .. n)  BY <1>5, <2>1
  <2>5. j # m => t[j] <= t[h]  BY <1>2, <2>3, <2>4
  <2> QED BY <2>4, <2>5 DEF h
<1>7. u \in [1 .. m -> Priorities \cup {0}] /\ Rearranged(u, t, m) /\ Ordered(u, m)
  <2>1. Rising(t, m, n + 1)  BY <1>5, <1>6
  <2> QED BY <1>3, <1>5, <2>1, HeapifyUpOrders
<1> HIDE DEF u
<1>8. u \in [1 .. m -> Priorities]
  <2>1. \A k \in 1 .. m : u[k] \in Priorities  BY <1>7 DEF Rearranged
  <2> QED BY <1>7, <2>1
<1>9. Holding(u, m) = [Holding(d, n) EXCEPT ![v] = @ + 1]
  <2>1. Holding(u, m) = Holding(t, m)  BY <1>7 DEF Rearranged
  <2>2. t[n + 1] = v  BY <1>2, <1>5
  <2>3. \A k \in 1 .. n : t[k] = d[k]  BY <1>2
  <2>4. Holding(t, n + 1) = OneMore(Holding(d, n), v)  BY <2>2, <2>3, HoldingOneMore
  <2> QED BY <1>5, <2>1, <2>4 DEF OneMore
<1> QED BY <1>4, <1>5, <1>7, <1>8, <1>9

LEMMA NoneHeld ==
    ASSUME NEW t
    PROVE  Holding(t, 0) = [v \in Priorities |-> 0]
<1>1. ASSUME NEW v  PROVE Cardinality({k \in 1 .. 0 : t[k] = v}) = 0
  <2>1. {k \in 1 .. 0 : t[k] = v} = {}  OBVIOUS
  <2> QED BY <2>1, FS_EmptySet
<1> QED BY <1>1 DEF Holding

LEMMA PoppedHeap ==
    ASSUME Priorities \subseteq Int, NEW d \in Seq(Priorities), Ordered(d, Len(d)), d # <<>>
    PROVE  /\ Popped(d) \in Seq(Priorities) /\ Len(Popped(d)) = Len(d) - 1
           /\ Ordered(Popped(d), Len(d) - 1)
           /\ Holding(Popped(d), Len(d) - 1) = [Holding(d, Len(d)) EXCEPT ![d[1]] = @ - 1]
<1> DEFINE n == Len(d)
           m == n - 1
           x == [d EXCEPT ![1] = d[n]]
           t == SubSeq(x, 1, m)
           u == heapifyDown(t, 0)
<1>1. n \in Nat \ {0} /\ \A k \in 1 .. n : d[k] \in Priorities  BY LenProperties, ElementOfSeq, EmptySeq
<1>2. m \in Nat /\ m = n - 1 /\ 1 \in 1 .. n  BY <1>1
<1>3. d \in [1 .. n -> Priorities \cup {0}]
  <2>1. DOMAIN d = 1 .. n /\ d = [k \in 1 .. n |-> d[k]]  BY LenProperties
  <2> HIDE DEF n
  <2> QED BY <1>1, <2>1
<1>4. Popped(d) = u  BY DEF Popped
<1> HIDE DEF m, n
<1>5. x[1] = d[n] /\ \A k \in 1 .. n : k # 1 => x[k] = d[k]  BY <1>2, <1>3
<1> HIDE DEF x
<1>6. \A k \in 1 .. m : x[k] \in Priorities /\ x[k] = IF k = 1 THEN d[n] ELSE d[k]
  <2> TAKE k \in 1 .. m
  <2>1. k \in 1 .. n /\ d[k] \in Priorities /\ d[n] \in Priorities  BY <1>1, <1>2
  <2>2. CASE k = 1  BY <1>5, <2>1, <2>2
  <2>3. CASE k # 1  BY <1>5, <2>1, <2>3
  <2> QED BY <2>2, <2>3
<1>7. t \in Seq(Priorities) /\ Len(t) = m /\ \A k \in 1 .. m : t[k] = x[k]
  <2>1. 1 \in Int /\ m \in Int /\ \A k \in 1 .. m : x[k] \in Priorities  BY <1>2, <1>6
  <2>2. /\ t \in Seq(Priorities) /\ Len(t) = IF 1 <= m THEN m - 1 + 1 ELSE 0
        /\ \A k \in 1 .. m - 1 + 1 : t[k] = x[1 + k - 1]
    BY <2>1, SubSeqProperties
  <2>3. \A k \in 1 .. m : 1 + k - 1 = k  BY <1>2
  <2> HIDE DEF t
  <2> QED BY <1>2, <2>2, <2>3
<1> HIDE DEF t
<1>8. \A k \in 1 .. m : t[k] = IF k = 1 THEN d[n] ELSE d[k]  BY <1>6, <1>7
<1>9. /\ \A k \in 1 .. m : t[k] \in Priorities
      /\ Falling(t, m, 1)
      /\ Holding(t, m) = [Holding(d, n) EXCEPT ![d[1]] = @ - 1]
  <2>1. n \in Nat /\ n \in 1 .. n /\ \A k \in 1 .. n - 1 : t[k] = IF k = 1 THEN d[n] ELSE d[k]  BY <1>1, <1>2, <1>8
  <2>2. Ordered(d, n)  BY DEF n
  <2>3. /\ \A k \in 1 .. n - 1 : t[k] \in Priorities
        /\ Falling(t, n - 1, 1)
        /\ Holding(t, n - 1) = [Holding(d, n) EXCEPT ![d[1]] = @ - 1]
    BY SMTT(40), <1>1, <1>3, <2>1, <2>2, FirstLeaves
  <2> QED BY <1>2, <2>3
<1>10. u \in Seq(Priorities) /\ Len(u) = m /\ Ordered(u, m) /\ Holding(u, m) = Holding(t, m)
  <2>1. CASE m = 0
    <3>1. t = <<>>  BY <1>7, <2>1, EmptySeq
    <3>2. u = t  BY <3>1 DEF heapifyDown
    <3>3. Ordered(u, m)  BY <2>1 DEF Ordered
    <3> QED BY <1>7, <3>2, <3>3
  <2>2. CASE m # 0
    <3>0. m \in Nat  BY <1>2
    <3>1. m \in Nat \ {0} /\ 0 \in 0 .. m - 1 /\ 0 + 1 = 1  BY <2>2, <3>0
    <3>2. t \in [1 .. m -> Priorities]
      <4>1. DOMAIN t = 1 .. m /\ t = [k \in 1 .. m |-> t[k]]  BY <1>7, LenProperties
      <4> QED BY <1>9, <4>1
    <3>3. Falling(t, m, 0 + 1)  BY <1>9, <3>1
    <3>4. u \in [1 .. m -> Priorities \cup {0}] /\ Rearranged(u, t, m) /\ Ordered(u, m)
      BY <3>1, <3>2, <3>3, HeapifyDownOrders
    <3> HIDE DEF u
    <3>5. \A k \in 1 .. m : u[k] \in Priorities  BY <3>4 DEF Rearranged
    <3>6. u \in [1 .. m -> Priorities]  BY <3>4, <3>5
    <3>7. u \in Seq(Priorities) /\ Len(u) = m  BY <1>2, <3>6, FunctionIsSeq
    <3> QED BY <3>4, <3>7 DEF Rearranged
  <2> QED BY <2>1, <2>2
<1> HIDE DEF u
<1> QED BY <1>2, <1>4, <1>9, <1>10 DEF n

(* BuildMaxHeap, step by step. *)
LEMMA BuiltHeap ==
    ASSUME Priorities \subseteq Int, NEW n \in Nat, NEW s \in [1 .. n -> Priorities]
    PROVE  /\ BuildMaxHeap(s) \in [1 .. n -> Priorities]
           /\ Ordered(BuildMaxHeap(s), n)
           /\ Holding(BuildMaxHeap(s), n) = Holding(s, n)
<1> DEFINE Row(k, r) == IF k = 0 THEN <<>> ELSE Pushed(r, s[k])
           Rows(m, f) == [k \in 0 .. m |-> Row(k, f[k - 1])]
           T == {m \in Nat : \E f : f = Rows(m, f)}
           L == Len(s)
           Built == CHOOSE f : f = Rows(L, f)
<1>1. L = n  BY FunctionIsSeq
<1>2. BuildMaxHeap(s) = Built[L]  BY DEF BuildMaxHeap
<1> HIDE DEF L
<1>3. \A r, q : Row(0, r) = Row(0, q) /\ Row(0, r) = <<>>  OBVIOUS
<1>4. \A k \in Nat : \A r : k # 0 => Row(k, r) = Pushed(r, s[k])  OBVIOUS
<1> HIDE DEF Row
<1>5. 0 \in T
  <2> DEFINE f == [k \in 0 .. 0 |-> Row(0, k)]
  <2>1. f = Rows(0, f)
    <3>1. \A k \in 0 .. 0 : k = 0  OBVIOUS
    <3> QED BY <1>3, <3>1
  <2> HIDE DEF f, Rows
  <2> QED BY <2>1
<1>6. ASSUME NEW m \in Nat, m \in T  PROVE m + 1 \in T
  <2>1. PICK f : f = Rows(m, f)  BY <1>6
  <2> DEFINE h == [k \in 0 .. m + 1 |-> IF k <= m THEN f[k] ELSE Row(k, f[m])]
  <2>2. \A k \in 0 .. m + 1 : h[k] = Row(k, h[k - 1])
    <3> TAKE k \in 0 .. m + 1
    <3>1. CASE k = 0
      <4>1. h[0] = f[0] /\ f[0] = Row(0, f[0 - 1])  BY <2>1
      <4> QED BY <1>3, <3>1, <4>1
    <3>2. CASE k \in 1 .. m
      <4>1. h[k] = f[k] /\ h[k - 1] = f[k - 1]  BY <3>2
      <4> HIDE DEF h
      <4>2. k \in 0 .. m  BY <3>2
      <4>3. f[k] = Row(k, f[k - 1])  BY <2>1, <4>2
      <4> QED BY <4>1, <4>3
    <3>3. CASE k = m + 1
      <4>1. h[k] = Row(k, f[m]) /\ h[k - 1] = f[m]  BY <3>3
      <4> QED BY <4>1
    <3> QED BY <3>1, <3>2, <3>3
  <2>3. h = Rows(m + 1, h)
    <3>1. h = [k \in 0 .. m + 1 |-> h[k]]  OBVIOUS
    <3> HIDE DEF h
    <3> QED BY <3>1, <2>2
  <2> HIDE DEF h, Rows
  <2> QED BY <2>3
<1>7. n \in T
  <2> HIDE DEF T
  <2>1. \A m \in 0 .. n : m \in T
    <3>1. \A m \in Nat : m \in T /\ m < n => m + 1 \in T  BY <1>6
    <3> QED BY <1>5, <3>1, Induction
  <2> QED BY <2>1
<1>8. Built = Rows(n, Built)
  <2> HIDE DEF Rows
  <2> QED BY <1>1, <1>7
<1> HIDE DEF Built
<1>9. \A k \in 0 .. n : Built[k] = Row(k, Built[k - 1])  BY <1>8
<1> DEFINE Good(k) == /\ Built[k] \in [1 .. k -> Priorities]
                      /\ Ordered(Built[k], k) /\ Holding(Built[k], k) = Holding(s, k)
           G == {k \in 0 .. n : Good(k)}
<1>10. 0 \in G
  <2>1. Built[0] = <<>>  BY <1>3, <1>9
  <2>2. Built[0] \in [1 .. 0 -> Priorities]
    <3>1. <<>> = [k \in 1 .. 0 |-> k]  OBVIOUS
    <3> QED BY <2>1, <3>1
  <2>3. Ordered(Built[0], 0)  BY DEF Ordered
  <2>4. Holding(Built[0], 0) = Holding(s, 0)  BY NoneHeld
  <2> QED BY <2>2, <2>3, <2>4
<1>11. ASSUME NEW k \in Nat, k \in G, k < n  PROVE k + 1 \in G
  <2> DEFINE d == Built[k]
             e == Built[k + 1]
             v == s[k + 1]
  <2>1. d \in [1 .. k -> Priorities] /\ Ordered(d, k) /\ Holding(d, k) = Holding(s, k)  BY <1>11
  <2>2. v \in Priorities /\ k + 1 \in 0 .. n  BY <1>11
  <2>3. e = Pushed(d, v)
    <3>1. k + 1 \in Nat /\ k + 1 # 0 /\ k + 1 - 1 = k  OBVIOUS
    <3> QED BY <1>4, <1>9, <2>2, <3>1
  <2> HIDE DEF d, e, v
  <2>4. /\ e \in [1 .. k + 1 -> Priorities] /\ Ordered(e, k + 1)
        /\ Holding(e, k + 1) = [Holding(d, k) EXCEPT ![v] = @ + 1]
    BY ZenonT(40), <2>1, <2>2, <2>3, PushedHeap
  <2>5. Holding(s, k + 1) = [Holding(s, k) EXCEPT ![v] = @ + 1]
    <3>1. s[k + 1] = v  BY DEF v
    <3>2. \A j \in 1 .. k : s[j] = s[j]  OBVIOUS
    <3> QED BY <2>2, <3>1, <3>2, HoldingAdded
  <2>6. Good(k + 1)  BY <2>1, <2>4, <2>5 DEF e
  <2> HIDE DEF Good
  <2> QED BY <2>2, <2>6
<1>12. Good(n)
  <2> HIDE DEF G, Good
  <2>1. \A m \in Nat : m \in G /\ m < n => m + 1 \in G  BY <1>11
  <2>2. \A m \in 0 .. n : m \in G  BY <1>10, <2>1, Induction
  <2>3. n \in G  BY <2>2
  <2> QED BY <2>3 DEF G
<1> QED BY <1>1, <1>2, <1>12

-----------------------------------------------------------------------------
(* The invariant *)

LEMMA SequenceFunction ==
    ASSUME NEW S, NEW d \in Seq(S)
    PROVE  Len(d) \in Nat /\ d \in [1 .. Len(d) -> S]
<1>1. Len(d) \in Nat /\ DOMAIN d = 1 .. Len(d) /\ d = [k \in 1 .. Len(d) |-> d[k]]  BY LenProperties
<1>2. \A k \in 1 .. Len(d) : d[k] \in S  BY ElementOfSeq
<1> DEFINE n == Len(d)
<1> HIDE DEF n
<1> QED BY <1>1, <1>2 DEF n

LEMMA HeapHolds ==
    ASSUME obj.type = "MaxHeap", NEW n \in Nat, obj \in [type : {"MaxHeap"}, data : [1 .. n -> Priorities]],
           Ordered(obj.data, n), want = Holding(obj.data, n)
    PROVE  HeapsInv
<1> DEFINE d == obj.data
<1>1. d \in [1 .. n -> Priorities]  OBVIOUS
<1>2. d \in Seq(Priorities) /\ Len(d) = n
  <2> HIDE DEF d
  <2> QED BY <1>1, FunctionIsSeq
<1>3. MaxHeapHolds  BY <1>2 DEF MaxHeapHolds
<1>4. PriorityQueueHolds  BY DEF PriorityQueueHolds
<1> QED BY <1>3, <1>4 DEF HeapsInv

LEMMA PriorityHolds ==
    ASSUME NEW n \in 0 .. QueueCapacity, NEW s, Slots(s, n), obj = [type |-> "PriorityQueue", items |-> s, size |-> n],
           want = Holding(s, n)
    PROVE  HeapsInv
<1>1. obj.type = "PriorityQueue" /\ obj.items = s /\ obj.size = n  OBVIOUS
<1>2. PriorityQueueHolds  BY <1>1 DEF PriorityQueueHolds, Slots
<1>3. MaxHeapHolds  BY <1>1 DEF MaxHeapHolds
<1> QED BY <1>1, <1>2, <1>3 DEF HeapsInv

LEMMA NextHeapHolds ==
    ASSUME obj'.type = "MaxHeap", NEW n \in Nat, NEW d, obj' \in [type : {"MaxHeap"}, data : [1 .. n -> Priorities]],
           obj'.data = d, Ordered(d, n), want' = Holding(d, n)
    PROVE  HeapsInv'
<1>1. d \in [1 .. n -> Priorities]  OBVIOUS
<1>2. d \in Seq(Priorities) /\ Len(d) = n  BY <1>1, FunctionIsSeq
<1>3. MaxHeapHolds'  BY <1>2 DEF MaxHeapHolds
<1>4. PriorityQueueHolds'  BY DEF PriorityQueueHolds
<1> QED BY <1>3, <1>4 DEF HeapsInv

LEMMA NextPriorityHolds ==
    ASSUME NEW n \in 0 .. QueueCapacity, NEW s, Slots(s, n), obj' = [type |-> "PriorityQueue", items |-> s, size |-> n],
           want' = Holding(s, n)
    PROVE  HeapsInv'
<1>1. obj'.type = "PriorityQueue" /\ obj'.items = s /\ obj'.size = n  OBVIOUS
<1>2. PriorityQueueHolds'  BY <1>1 DEF PriorityQueueHolds, Slots
<1>3. MaxHeapHolds'  BY <1>1 DEF MaxHeapHolds
<1> QED BY <1>1, <1>2, <1>3 DEF HeapsInv

LEMMA HeapsStart ==
    ASSUME Priorities \subseteq Int, QueueCapacity \in Nat, HeapSize \in Nat, HeapsInit
    PROVE  HeapsInv
<1>1. CASE /\ obj = [type |-> "PriorityQueue", items |-> [i \in 1 .. QueueCapacity |-> 0], size |-> 0]
           /\ want = [v \in Priorities |-> 0]
  <2> DEFINE s == [i \in 1 .. QueueCapacity |-> 0]
  <2>1. Slots(s, 0)
    <3>1. Ordered(s, 0)  BY DEF Ordered
    <3>2. s \in [1 .. QueueCapacity -> Priorities \cup {0}]  OBVIOUS
    <3>3. \A i \in 1 .. QueueCapacity : ~(i <= 0) /\ s[i] = 0  OBVIOUS
    <3> HIDE DEF s
    <3> QED BY <3>1, <3>2, <3>3 DEF Slots
  <2>2. obj = [type |-> "PriorityQueue", items |-> s, size |-> 0]  BY <1>1
  <2> HIDE DEF s
  <2>3. want = Holding(s, 0)  BY <1>1, NoneHeld
  <2> QED BY <2>1, <2>2, <2>3, PriorityHolds
<1>2. ASSUME NEW n \in 0 .. HeapSize, NEW s \in [1 .. n -> Priorities],
             obj = [type |-> "MaxHeap", data |-> BuildMaxHeap(s)], want = Count(s)
      PROVE  HeapsInv
  <2> DEFINE d == BuildMaxHeap(s)
  <2>1. n \in Nat  OBVIOUS
  <2>2. d \in [1 .. n -> Priorities] /\ Ordered(d, n) /\ Holding(d, n) = Holding(s, n)  BY <2>1, BuiltHeap
  <2>3. Count(s) = Holding(s, n)  BY DEF Count, Holding
  <2> HIDE DEF d
  <2>4. obj.type = "MaxHeap" /\ obj.data = d /\ obj = [type |-> "MaxHeap", data |-> d]  BY <1>2 DEF d
  <2>5. obj \in [type : {"MaxHeap"}, data : [1 .. n -> Priorities]]  BY <2>2, <2>4
  <2>6. Ordered(obj.data, n) /\ want = Holding(obj.data, n)  BY <1>2, <2>2, <2>3, <2>4
  <2> QED BY <2>1, <2>4, <2>5, <2>6, HeapHolds
<1> QED BY <1>1, <1>2 DEF HeapsInit

LEMMA HeapsStep ==
    ASSUME Priorities \subseteq Int, QueueCapacity \in Nat, HeapSize \in Nat, HeapsInv, [HeapsNext]_vars
    PROVE  HeapsInv'
<1>1. ASSUME obj.type = "PriorityQueue"
      PROVE  /\ obj = [type |-> "PriorityQueue", items |-> obj.items, size |-> obj.size]
             /\ obj.size \in 0 .. QueueCapacity /\ Slots(obj.items, obj.size)
             /\ want = Holding(obj.items, obj.size)
  BY <1>1 DEF HeapsInv, PriorityQueueHolds, Slots
<1>2. ASSUME obj.type = "MaxHeap"
      PROVE  /\ obj = [type |-> "MaxHeap", data |-> obj.data] /\ obj.data \in Seq(Priorities)
             /\ Ordered(obj.data, Len(obj.data)) /\ want = Holding(obj.data, Len(obj.data))
  BY <1>2 DEF HeapsInv, MaxHeapHolds
<1>3. ASSUME NEW v \in Priorities, Enqueue(v)  PROVE HeapsInv'
  <2> DEFINE s == obj.items
             n == obj.size
             m == n + 1
             u == swim([s EXCEPT ![n + 1] = v], n + 1)
  <2>1. obj.type = "PriorityQueue" /\ ~(n = QueueCapacity) /\ want' = [want EXCEPT ![v] = @ + 1]
    BY <1>3 DEF Enqueue, IsFull
  <2>2. /\ obj = [type |-> "PriorityQueue", items |-> s, size |-> n]
        /\ n \in 0 .. QueueCapacity /\ Slots(s, n) /\ want = Holding(s, n)
    BY <1>1, <2>1
  <2>3. obj' = [obj EXCEPT !.size = m, !.items = u]  BY <1>3 DEF Enqueue
  <2> HIDE DEF s, n
  <2>4. n \in 0 .. QueueCapacity - 1  BY <2>1, <2>2
  <2>5. Slots(u, m) /\ Holding(u, m) = [Holding(s, n) EXCEPT ![v] = @ + 1]  BY <2>2, <2>4, Enqueued
  <2>6. m \in 0 .. QueueCapacity  BY <2>4
  <2> HIDE DEF u, m
  <2>7. obj' = [type |-> "PriorityQueue", items |-> u, size |-> m]  BY <2>2, <2>3
  <2>8. want' = Holding(u, m)  BY <2>1, <2>2, <2>5
  <2> QED BY <2>5, <2>6, <2>7, <2>8, NextPriorityHolds
<1>4. ASSUME Dequeue  PROVE HeapsInv'
  <2> DEFINE s == obj.items
             n == obj.size
             m == n - 1
             u == [sink(swap(s, 1, n), 1, n - 1) EXCEPT ![n] = 0]
  <2>1. obj.type = "PriorityQueue" /\ n > 0 /\ want' = [want EXCEPT ![s[1]] = @ - 1]  BY <1>4 DEF Dequeue
  <2>2. /\ obj = [type |-> "PriorityQueue", items |-> s, size |-> n]
        /\ n \in 0 .. QueueCapacity /\ Slots(s, n) /\ want = Holding(s, n)
    BY <1>1, <2>1
  <2>3. obj' = [obj EXCEPT !.size = m, !.items = u]  BY <1>4 DEF Dequeue
  <2> HIDE DEF s, n
  <2>4. n \in 1 .. QueueCapacity  BY <2>1, <2>2
  <2>5. Slots(u, m) /\ Holding(u, m) = [Holding(s, n) EXCEPT ![s[1]] = @ - 1]  BY <2>2, <2>4, Dequeued
  <2>6. m \in 0 .. QueueCapacity  BY <2>4
  <2> HIDE DEF u, m
  <2>7. obj' = [type |-> "PriorityQueue", items |-> u, size |-> m]  BY <2>2, <2>3
  <2>8. want' = Holding(u, m)  BY <2>1, <2>2, <2>5
  <2> QED BY <2>5, <2>6, <2>7, <2>8, NextPriorityHolds
<1>5. ASSUME NEW v \in Priorities, Push(v)  PROVE HeapsInv'
  <2> DEFINE d == obj.data
             n == Len(d)
             m == n + 1
             u == Pushed(d, v)
  <2>1. obj.type = "MaxHeap" /\ want' = [want EXCEPT ![v] = @ + 1]  BY <1>5 DEF Push
  <2>2. /\ obj = [type |-> "MaxHeap", data |-> d] /\ d \in Seq(Priorities) /\ Ordered(d, n) /\ want = Holding(d, n)
    BY <1>2, <2>1
  <2>3. obj' = [obj EXCEPT !.data = u]  BY <1>5 DEF Push
  <2> HIDE DEF d
  <2>4. n \in Nat /\ d \in [1 .. n -> Priorities]  BY <2>2, SequenceFunction
  <2> HIDE DEF n
  <2>5. u \in [1 .. m -> Priorities] /\ Ordered(u, m) /\ Holding(u, m) = [Holding(d, n) EXCEPT ![v] = @ + 1]
    BY <2>2, <2>4, PushedHeap
  <2>6. m \in Nat  BY <2>4
  <2> HIDE DEF u, m
  <2>7. obj' = [type |-> "MaxHeap", data |-> u]  BY <2>2, <2>3
  <2>8. want' = Holding(u, m)  BY <2>1, <2>2, <2>5
  <2>9. obj'.type = "MaxHeap" /\ obj'.data = u /\ obj' \in [type : {"MaxHeap"}, data : [1 .. m -> Priorities]]
    BY <2>5, <2>7
  <2> QED BY <2>5, <2>6, <2>8, <2>9, NextHeapHolds
<1>6. ASSUME Pop  PROVE HeapsInv'
  <2> DEFINE d == obj.data
             n == Len(d)
             m == n - 1
             u == Popped(d)
  <2>1. obj.type = "MaxHeap" /\ d # <<>> /\ want' = [want EXCEPT ![d[1]] = @ - 1]  BY <1>6 DEF Pop
  <2>2. /\ obj = [type |-> "MaxHeap", data |-> d] /\ d \in Seq(Priorities) /\ Ordered(d, n) /\ want = Holding(d, n)
    BY <1>2, <2>1
  <2>3. obj' = [obj EXCEPT !.data = u]  BY <1>6 DEF Pop
  <2> HIDE DEF d
  <2>4. /\ u \in Seq(Priorities) /\ Len(u) = m /\ Ordered(u, m)
        /\ Holding(u, m) = [Holding(d, n) EXCEPT ![d[1]] = @ - 1]
    BY <2>1, <2>2, PoppedHeap
  <2> HIDE DEF u, m, n
  <2>5. m \in Nat /\ u \in [1 .. m -> Priorities]  BY <2>4, SequenceFunction
  <2>6. obj' = [type |-> "MaxHeap", data |-> u]  BY <2>2, <2>3
  <2>7. want' = Holding(u, m)  BY <2>1, <2>2, <2>4
  <2>8. obj'.type = "MaxHeap" /\ obj'.data = u /\ obj' \in [type : {"MaxHeap"}, data : [1 .. m -> Priorities]]
    BY <2>5, <2>6
  <2> QED BY <2>4, <2>5, <2>7, <2>8, NextHeapHolds
<1>7. CASE UNCHANGED vars
  BY <1>7 DEF HeapsInv, PriorityQueueHolds, MaxHeapHolds, vars
<1> QED BY <1>3, <1>4, <1>5, <1>6, <1>7 DEF HeapsNext

(* A heap's first value is a largest one of those it holds. *)
LEMMA FirstLeads ==
    ASSUME Priorities \subseteq Int, NEW n \in Nat, NEW s, \A j \in 1 .. n : s[j] \in Priorities, Ordered(s, n)
    PROVE  \A v \in Priorities : Holding(s, n)[v] > 0 => v <= s[1]
<1> SUFFICES ASSUME NEW v \in Priorities, Holding(s, n)[v] > 0  PROVE v <= s[1]  OBVIOUS
<1>1. PICK k \in 1 .. n : s[k] = v  BY HoldingPresent
<1>2. \A j \in 1 .. n : s[j] \in Int  OBVIOUS
<1>3. s[k] <= s[1]  BY <1>2, FirstIsLargest
<1> QED BY <1>1, <1>3

LEMMA HeapsLead ==
    ASSUME Priorities \subseteq Int, QueueCapacity \in Nat, HeapsInv
    PROVE  LargestLeads
<1>1. LargestNext
  <2> SUFFICES ASSUME obj.type = "PriorityQueue"
               PROVE  /\ Count(Data) = want
                      /\ \A v \in Priorities : want[v] > 0 => v <= obj.items[1]
                      /\ \A i \in obj.size + 1 .. QueueCapacity : obj.items[i] = 0
    BY DEF LargestNext
  <2> DEFINE s == obj.items
             n == obj.size
             x == SubSeq(s, 1, n)
  <2>1. /\ n \in 0 .. QueueCapacity /\ Ordered(s, n) /\ want = Holding(s, n)
        /\ \A i \in 1 .. QueueCapacity : IF i <= n THEN s[i] \in Priorities ELSE s[i] = 0
    BY DEF HeapsInv, PriorityQueueHolds
  <2>2. Data = x  BY DEF Data
  <2> HIDE DEF s, n
  <2>3. n \in Nat /\ \A j \in 1 .. n : s[j] \in Priorities
    <3>1. n \in Nat  BY <2>1
    <3>2. ASSUME NEW j \in 1 .. n  PROVE s[j] \in Priorities
      <4>1. j \in 1 .. QueueCapacity /\ j <= n  BY <2>1, <3>1
      <4> QED BY <2>1, <4>1
    <3> QED BY <3>1, <3>2
  <2>4. DOMAIN x = 1 .. n /\ \A j \in 1 .. n : x[j] = s[j]
    <3>1. 1 \in Int /\ n \in Int  BY <2>3
    <3>2. /\ x \in Seq(Priorities) /\ Len(x) = IF 1 <= n THEN n - 1 + 1 ELSE 0
          /\ \A j \in 1 .. n - 1 + 1 : x[j] = s[1 + j - 1]
      BY <2>3, <3>1, SubSeqProperties
    <3> HIDE DEF x
    <3>3. Len(x) = n  BY <2>3, <3>2
    <3>4. DOMAIN x = 1 .. n  BY <3>2, <3>3, LenProperties
    <3>5. \A j \in 1 .. n : 1 + j - 1 = j /\ j \in 1 .. n - 1 + 1  BY <2>3
    <3> QED BY <3>2, <3>4, <3>5
  <2> HIDE DEF x
  <2>5. Count(x) = Holding(s, n)
    <3>1. \A v : {j \in DOMAIN x : x[j] = v} = {j \in 1 .. n : s[j] = v}  BY <2>4
    <3> QED BY <3>1 DEF Count, Holding
  <2>6. \A v \in Priorities : want[v] > 0 => v <= s[1]  BY <2>1, <2>3, FirstLeads
  <2>7. \A i \in n + 1 .. QueueCapacity : s[i] = 0
    <3> TAKE i \in n + 1 .. QueueCapacity
    <3>1. i \in 1 .. QueueCapacity /\ ~(i <= n)  BY <2>3
    <3> QED BY <2>1, <3>1
  <2> QED BY <2>1, <2>2, <2>5, <2>6, <2>7 DEF s, n
<1>2. LargestFirst
  <2> SUFFICES ASSUME obj.type = "MaxHeap"
               PROVE  Count(obj.data) = want /\ \A v \in Priorities : want[v] > 0 => v <= obj.data[1]
    BY DEF LargestFirst, Peek
  <2> DEFINE d == obj.data
             n == Len(d)
  <2>1. d \in Seq(Priorities) /\ Ordered(d, n) /\ want = Holding(d, n)  BY DEF HeapsInv, MaxHeapHolds
  <2> HIDE DEF d
  <2>2. n \in Nat /\ d \in [1 .. n -> Priorities]  BY <2>1, SequenceFunction
  <2> HIDE DEF n
  <2>3. Count(d) = Holding(d, n)
    <3>1. DOMAIN d = 1 .. n  BY <2>2
    <3> QED BY <3>1 DEF Count, Holding
  <2>4. \A j \in 1 .. n : d[j] \in Priorities  BY <2>2
  <2>5. \A v \in Priorities : want[v] > 0 => v <= d[1]  BY <2>1, <2>2, <2>4, FirstLeads
  <2> QED BY <2>1, <2>3, <2>5 DEF d
<1> QED BY <1>1, <1>2 DEF LargestLeads

(***************************************************************************)
(* PriorityQueue (priorityqueue.go:53, 64) and MaxHeap (maxheap.go:29, 43, *)
(* 58) hold what was put in and not taken out, a largest one first, for    *)
(* any priorities, any capacity of the queue, any values the heap is built *)
(* from, and any number of calls.                                          *)
(***************************************************************************)
THEOREM LargestKept == HeapsSpec => []LargestLeads
<1>1. HeapsInit => HeapsInv  BY HeapsAssumption, HeapsStart
<1>2. HeapsInv /\ [HeapsNext]_vars => HeapsInv'  BY HeapsAssumption, HeapsStep
<1>3. HeapsInv => LargestLeads  BY HeapsAssumption, HeapsLead
<1> QED BY <1>1, <1>2, <1>3, PTL DEF HeapsSpec
=============================================================================
