-------------------------- MODULE ContainersProofs --------------------------
(***************************************************************************)
(* The hash map, the links and the list keep what their operations ask     *)
(* for, for any keys, values, hashes, capacities and bounds.               *)
(***************************************************************************)
EXTENDS Containers, QueuesProofs

-----------------------------------------------------------------------------
(* The list: what a pass keeps *)

(* F[i] is what is kept of the first i items. *)
Keeps(S, s, keep, F) ==
  /\ F \in [0 .. Len(s) -> Seq(S)] /\ F[0] = <<>> /\ Kept(s, keep) = F[Len(s)]
  /\ \A i \in 1 .. Len(s) : F[i] = IF s[i] \in keep THEN Append(F[i - 1], s[i]) ELSE F[i - 1]

LEMMA KeptUnrolls ==
    ASSUME NEW S, NEW s \in Seq(S), NEW keep
    PROVE  \E F : Keeps(S, s, keep, F)
<1> DEFINE n == Len(s)
           A == Seq(S)
           Round(k, i) == IF s[i] \in keep THEN Append(k, s[i]) ELSE k
           step == [i \in 1 .. n |-> [k \in A |-> Round(k, i)]]
           Row(i, F) == IF i = 0 THEN <<>> ELSE Round(F[i - 1], i)
           W == CHOOSE F : F = [i \in 0 .. n |-> Row(i, F)]
<1>0. n \in Nat /\ <<>> \in A /\ \A i \in 1 .. n : s[i] \in S  BY LenProperties, EmptySeq, ElementOfSeq
<1>1. \A k \in A : \A i \in 1 .. n : Round(k, i) \in A  BY <1>0, AppendProperties
<1> HIDE DEF n, Round
<1>2. PICK F \in [0 .. n -> A] : F[0] = <<>> /\ \A i \in 1 .. n : F[i] = step[i][F[i - 1]]
  <2>1. step \in [1 .. n -> [A -> A]]  BY <1>1
  <2> HIDE DEF step, A
  <2>2. PICK F : F \in Runs(A, <<>>, n, step)  BY <1>0, <2>1, Iterates
  <2> QED BY <2>2 DEF Runs
<1>3. \A i \in 1 .. n : F[i] = Round(F[i - 1], i)
  <2> TAKE i \in 1 .. n
  <2>1. F[i - 1] \in A  BY <1>0
  <2> HIDE DEF A
  <2> QED BY <1>2, <2>1
<1>4. F = [i \in 0 .. n |-> Row(i, F)]
  <2>1. \A i \in 0 .. n : F[i] = Row(i, F)  BY <1>0, <1>2, <1>3
  <2>2. F = [i \in 0 .. n |-> F[i]]  OBVIOUS
  <2> HIDE DEF Row
  <2> QED BY <2>1, <2>2
<1>5. W = [i \in 0 .. n |-> Row(i, W)]
  <2> HIDE DEF Row
  <2> QED BY <1>4
<1>6. Kept(s, keep) = IF n < 1 THEN <<>> ELSE W[n]  BY DEF Kept, Each, For, n, Round
<1> HIDE DEF W
<1>7. W[0] = <<>> /\ \A i \in 1 .. n : W[i] = Round(W[i - 1], i)
  <2>1. \A i \in 0 .. n : W[i] = Row(i, W)
    <3> HIDE DEF Row
    <3> QED BY <1>5
  <2> QED BY <1>0, <2>1
<1>8. \A i \in 0 .. n : W[i] \in A
  <2> DEFINE T == {i \in Nat : i <= n => W[i] \in A}
  <2>1. 0 \in T  BY <1>0, <1>7
  <2>2. ASSUME NEW i \in Nat, i \in T, i < n  PROVE i + 1 \in T
    <3>1. i + 1 \in 1 .. n /\ (i + 1) - 1 = i /\ W[i] \in A  BY <1>0, <2>2
    <3> HIDE DEF A
    <3>2. W[i + 1] \in A  BY <1>1, <1>7, <3>1
    <3> QED BY <3>2
  <2> HIDE DEF T, A
  <2>3. \A i \in 0 .. n : i \in T  BY <1>0, <2>1, <2>2, Induction
  <2> QED BY <1>0, <2>3 DEF T
<1>9. W \in [0 .. n -> A]
  <2>1. W = [i \in 0 .. n |-> W[i]]
    <3> HIDE DEF Row
    <3> QED BY <1>5
  <2> HIDE DEF A
  <2> QED BY <1>8, <2>1
<1>10. Kept(s, keep) = W[n]
  <2>1. CASE n < 1  BY <2>1, <1>0, <1>6, <1>7
  <2>2. CASE ~(n < 1)  BY <2>2, <1>6
  <2> QED BY <2>1, <2>2
<1>11. \A i \in 1 .. Len(s) : W[i] = IF s[i] \in keep THEN Append(W[i - 1], s[i]) ELSE W[i - 1]
  BY <1>7 DEF n, Round
<1>12. W \in [0 .. Len(s) -> Seq(S)] /\ W[0] = <<>> /\ Kept(s, keep) = W[Len(s)]  BY <1>7, <1>9, <1>10 DEF n
<1> HIDE DEF A
<1>13. Keeps(S, s, keep, W)  BY <1>11, <1>12 DEF Keeps
<1> QED BY <1>13

(* What is kept is a sequence of the items in keep. *)
LEMMA KeptIs ==
    ASSUME NEW S, NEW s \in Seq(S), NEW keep
    PROVE  /\ Kept(s, keep) \in Seq(S) /\ Len(Kept(s, keep)) <= Len(s)
           /\ {Kept(s, keep)[i] : i \in 1 .. Len(Kept(s, keep))} = {s[i] : i \in 1 .. Len(s)} \cap keep
<1>a. PICK F : Keeps(S, s, keep, F)  BY KeptUnrolls
<1>1. /\ F \in [0 .. Len(s) -> Seq(S)] /\ F[0] = <<>> /\ Kept(s, keep) = F[Len(s)]
      /\ \A i \in 1 .. Len(s) : F[i] = IF s[i] \in keep THEN Append(F[i - 1], s[i]) ELSE F[i - 1]
  BY <1>a DEF Keeps
<1> DEFINE n == Len(s)
           Items(k) == {k[j] : j \in 1 .. Len(k)}
           First(i) == {s[j] : j \in 1 .. i}
           T == {i \in Nat : i <= n => Len(F[i]) <= i /\ Items(F[i]) = First(i) \cap keep}
<1>0. n \in Nat /\ \A i \in 1 .. n : s[i] \in S  BY LenProperties, ElementOfSeq
<1>2. 0 \in T
  <2>1. Len(F[0]) = 0  BY <1>1
  <2> QED BY <2>1
<1> HIDE DEF Items, First
<1>3. ASSUME NEW i \in Nat, i \in T, i < n  PROVE i + 1 \in T
  <2> DEFINE k == F[i]
             x == s[i + 1]
  <2>1. i + 1 \in 1 .. n /\ (i + 1) - 1 = i /\ i \in 0 .. n  BY <1>0, <1>3
  <2>2. k \in Seq(S) /\ Len(k) \in Nat /\ x \in S  BY <1>0, <1>1, <2>1, LenProperties
  <2>3. Len(k) <= i /\ Items(k) = First(i) \cap keep  BY <1>0, <1>3
  <2>4. F[i + 1] = IF x \in keep THEN Append(k, x) ELSE k  BY <1>1, <2>1
  <2>5. First(i + 1) = First(i) \cup {x}
    <3>1. \A j : j \in 1 .. i + 1 <=> j \in 1 .. i \/ j = i + 1  OBVIOUS
    <3> QED BY <3>1 DEF First
  <2> HIDE DEF k, x
  <2>6. CASE x \in keep
    <3>1. /\ Len(Append(k, x)) = Len(k) + 1 /\ Append(k, x)[Len(k) + 1] = x
          /\ \A j \in 1 .. Len(k) : Append(k, x)[j] = k[j]
      BY <2>2, AppendProperties
    <3>2. \A j : j \in 1 .. Len(k) + 1 <=> j \in 1 .. Len(k) \/ j = Len(k) + 1  BY <2>2
    <3>3. Items(Append(k, x)) = Items(k) \cup {x}  BY <3>1, <3>2 DEF Items
    <3>4. F[i + 1] = Append(k, x)  BY <2>4, <2>6
    <3>5. Items(F[i + 1]) = First(i + 1) \cap keep  BY <2>3, <2>5, <2>6, <3>3, <3>4
    <3>6. Len(F[i + 1]) <= i + 1  BY <2>2, <2>3, <3>1, <3>4
    <3> QED BY <3>5, <3>6
  <2>7. CASE x \notin keep
    <3>1. F[i + 1] = k  BY <2>4, <2>7
    <3>2. Items(F[i + 1]) = First(i + 1) \cap keep  BY <2>3, <2>5, <2>7, <3>1
    <3>3. Len(F[i + 1]) <= i + 1  BY <2>2, <2>3, <3>1
    <3> QED BY <3>2, <3>3
  <2> QED BY <2>6, <2>7
<1>4. n \in T
  <2> HIDE DEF T
  <2>1. \A i \in Nat : i \in T /\ i < n => i + 1 \in T  BY <1>3
  <2>2. \A i \in 0 .. n : i \in T  BY <1>0, <1>2, <2>1, Induction
  <2> QED BY <1>0, <2>2
<1>5. Len(F[n]) <= n /\ Items(F[n]) = First(n) \cap keep  BY <1>0, <1>4
<1>6. Kept(s, keep) = F[n] /\ F[n] \in Seq(S)  BY <1>0, <1>1
<1>7. Items(Kept(s, keep)) = First(n) \cap keep  BY <1>5, <1>6
<1> HIDE DEF T
<1> QED BY <1>5, <1>6, <1>7 DEF Items, First

-----------------------------------------------------------------------------
(* Sequences cut and joined *)

(* r is s with xs in place of what lies from i to j. *)
Replaced(S, r, s, i, xs, j) ==
  /\ r \in Seq(S) /\ Len(r) = i + Len(xs) + (Len(s) - j)
  /\ \A k \in 1 .. i : r[k] = s[k]
  /\ \A k \in 1 .. Len(xs) : r[i + k] = xs[k]
  /\ \A k \in 1 .. Len(s) - j : r[i + Len(xs) + k] = s[j + k]

LEMMA Spliced ==
    ASSUME NEW S, NEW s \in Seq(S), NEW i \in 0 .. Len(s), NEW j \in i .. Len(s), NEW xs \in Seq(S)
    PROVE  Replaced(S, SubSeq(s, 1, i) \o xs \o SubSeq(s, j + 1, Len(s)), s, i, xs, j)
<1> DEFINE n == Len(s)
           l == Len(xs)
           a == SubSeq(s, 1, i)
           b == SubSeq(s, j + 1, n)
           c == a \o xs
           r == c \o b
<1>0. /\ n \in Nat /\ i \in Nat /\ j \in Nat /\ i <= n /\ i <= j /\ j <= n
      /\ \A k \in 1 .. n : s[k] \in S
      /\ l \in Nat
  BY LenProperties, ElementOfSeq
<1> HIDE DEF n
<1>1. a \in Seq(S) /\ Len(a) = i /\ \A k \in 1 .. i : a[k] = s[k]
  <2>1. 1 .. i \subseteq 1 .. n  BY <1>0
  <2> QED BY <1>0, <2>1, SubSeqProperties
<1>2. b \in Seq(S) /\ Len(b) = n - j /\ \A k \in 1 .. n - j : b[k] = s[j + k]
  <2>1. j + 1 .. n \subseteq 1 .. n /\ j + 1 \in Int /\ n \in Int  BY <1>0
  <2>2. /\ b \in Seq(S) /\ Len(b) = (IF j + 1 <= n THEN n - (j + 1) + 1 ELSE 0)
        /\ \A k \in 1 .. n - (j + 1) + 1 : b[k] = s[j + 1 + k - 1]
    BY <1>0, <2>1, SubSeqProperties
  <2> HIDE DEF b
  <2>3. Len(b) = n - j /\ n - (j + 1) + 1 = n - j /\ \A k \in 1 .. n - j : j + 1 + k - 1 = j + k  BY <2>2, <1>0
  <2> QED BY <2>2, <2>3
<1> HIDE DEF a, b
<1>3. /\ c \in Seq(S) /\ Len(c) = i + l /\ \A k \in 1 .. i + l : c[k] = IF k <= i THEN a[k] ELSE xs[k - i]
  BY <1>1, ConcatProperties
<1> HIDE DEF c, l
<1>4. /\ r \in Seq(S) /\ Len(r) = Len(c) + Len(b)
      /\ \A k \in 1 .. Len(c) + Len(b) : r[k] = IF k <= Len(c) THEN c[k] ELSE b[k - Len(c)]
  BY <1>2, <1>3, ConcatProperties
<1> HIDE DEF r
<1>5. Len(r) = i + l + (n - j)  BY <1>0, <1>2, <1>3, <1>4
<1>6. ASSUME NEW k \in 1 .. i  PROVE r[k] = s[k]
  <2>1. k \in 1 .. Len(c) + Len(b) /\ k <= Len(c) /\ k \in 1 .. i + l /\ k <= i  BY <1>0, <1>2, <1>3
  <2> QED BY <2>1, <1>1, <1>3, <1>4
<1>7. ASSUME NEW k \in 1 .. l  PROVE r[i + k] = xs[k]
  <2>1. /\ i + k \in 1 .. Len(c) + Len(b) /\ i + k <= Len(c) /\ i + k \in 1 .. i + l /\ ~(i + k <= i)
        /\ (i + k) - i = k
    BY <1>0, <1>2, <1>3
  <2> QED BY <2>1, <1>3, <1>4
<1>8. ASSUME NEW k \in 1 .. n - j  PROVE r[i + l + k] = s[j + k]
  <2>1. i + l + k \in 1 .. Len(c) + Len(b) /\ ~(i + l + k <= Len(c))  BY SMTT(40), <1>0, <1>2, <1>3
  <2>2. r[i + l + k] = b[(i + l + k) - Len(c)]  BY <2>1, <1>4
  <2>3. (i + l + k) - Len(c) = k  BY <1>0, <1>3
  <2>4. b[k] = s[j + k]  BY <1>2
  <2> QED BY <2>2, <2>3, <2>4
<1>9. Replaced(S, r, s, i, xs, j)  BY <1>4, <1>5, <1>6, <1>7, <1>8 DEF Replaced, n, l
<1> QED BY <1>9 DEF n, r, c, a, b

-----------------------------------------------------------------------------
(* HashMap *)

MapSlot == {HM!None} \cup [key : Keys \cup Stored, value : Stored]

MapType == [type : {"HashMap"}, capacity : Nat, size : Nat, panicked : BOOLEAN, table : Seq(MapSlot)]

(* HashMap's Cardinality is that of FiniteSets. *)
LEMMA MapCounts == \A S : HM!Cardinality(S) = Cardinality(S)
BY DEF HM!Cardinality, Cardinality

(* The slots of a table that are taken are finitely many. *)
LEMMA EntriesFinite ==
    ASSUME NEW m \in MapType
    PROVE  /\ HM!Entries(m) \subseteq 1 .. Len(m.table) /\ IsFiniteSet(HM!Entries(m))
           /\ Cardinality(HM!Entries(m)) \in Nat
           /\ \A i \in HM!Entries(m) : m.table[i].key \in Keys \cup Stored
<1>1. m.table \in Seq(MapSlot)  BY DEF MapType
<1>2. /\ Len(m.table) \in Nat /\ DOMAIN m.table = 1 .. Len(m.table)
      /\ \A i \in 1 .. Len(m.table) : m.table[i] \in MapSlot
  BY <1>1, ElementOfSeq, LenProperties
<1>3. HM!Entries(m) \subseteq 1 .. Len(m.table)  BY <1>2 DEF HM!Entries
<1>4. IsFiniteSet(HM!Entries(m))
  <2>1. IsFiniteSet(1 .. Len(m.table))  BY <1>2, FS_Interval
  <2> QED BY <2>1, <1>3, FS_Subset
<1>5. \A i \in HM!Entries(m) : m.table[i] \in [key : Keys \cup Stored, value : Stored]
  BY <1>2, <1>3 DEF HM!Entries, MapSlot
<1>6. Cardinality(HM!Entries(m)) \in Nat  BY <1>4, FS_CardinalityType
<1> QED BY <1>3, <1>4, <1>5, <1>6

LEMMA Hashed ==
    ASSUME NEW m \in MapType, NEW x \in Keys \cup Stored
    PROVE  /\ HM!Hash(m, x) \in Nat
           /\ m.capacity > 0 => HM!Hash(m, x) < m.capacity
<1>1. Mixed[x] \in Nat /\ m.capacity \in Nat  BY ContainersAssumption DEF MapType
<1> DEFINE a == Mixed[x]
           c == m.capacity
<1>2. a \in Nat /\ c \in Nat  BY <1>1
<1>3. HM!Hash(m, x) = IF c = 0 THEN a ELSE a % c  BY DEF HM!Hash
<1> HIDE DEF a, c
<1>4. c # 0 => a % c \in 0 .. c - 1  BY <1>2
<1> QED BY <1>2, <1>3, <1>4 DEF c

(* Widening doubles the capacity and takes no slot more. *)
LEMMA Resized ==
    ASSUME NEW m \in MapType
    PROVE  /\ HM!resize(m) \in MapType /\ HM!resize(m).capacity = 2 * m.capacity
           /\ Len(HM!resize(m).table) = 2 * m.capacity
           /\ HM!resize(m).size = m.size /\ HM!resize(m).panicked = m.panicked
           /\ Cardinality(HM!Entries(HM!resize(m))) <= Cardinality(HM!Entries(m))
<1> DEFINE wider == [m EXCEPT !.capacity = 2 * @]
           To(h) == {i \in HM!Entries(m) : HM!Hash(wider, m.table[i].key) + 1 = h}
           LastAt(h) == CHOOSE i \in To(h) : \A j \in To(h) : j <= i
           N == 2 * m.capacity
           table == [h \in 1 .. N |-> IF To(h) = {} THEN HM!None ELSE m.table[LastAt(h)]]
           r == [wider EXCEPT !.table = table]
<1>1. HM!resize(m) = r  BY DEF HM!resize
<1>2. m.capacity \in Nat /\ m.table \in Seq(MapSlot) /\ N \in Nat  BY DEF MapType
<1>3. /\ Len(m.table) \in Nat /\ \A i \in 1 .. Len(m.table) : m.table[i] \in MapSlot
      /\ HM!Entries(m) \subseteq 1 .. Len(m.table) /\ IsFiniteSet(HM!Entries(m))
  BY <1>2, EntriesFinite, ElementOfSeq
<1>4. \A h : To(h) \subseteq HM!Entries(m)  OBVIOUS
<1>5. ASSUME NEW h, To(h) # {}  PROVE LastAt(h) \in To(h)
  <2> DEFINE Above == {b \in Nat : \A j \in To(h) : j <= b}
  <2>1. To(h) \subseteq 1 .. Len(m.table)  BY <1>3
  <2>2. Len(m.table) \in Above  BY <2>1, <1>3
  <2>3. PICK b \in Above : \A c \in Above : b <= c
    <3> HIDE DEF Above
    <3>1. Above \subseteq Nat  BY DEF Above
    <3> QED BY <2>2, <3>1, Least
  <2>4. b \in To(h)
    <3> HIDE DEF To
    <3>1. SUFFICES ASSUME b \notin To(h) PROVE FALSE  OBVIOUS
    <3>2. PICK j \in To(h) : TRUE  BY <1>5
    <3>3. b \in Nat /\ j \in Nat /\ j <= b /\ j >= 1  BY <2>1, <2>3, <3>2, <1>3
    <3>4. \A i \in To(h) : i <= b - 1  BY <2>1, <2>3, <3>1, <1>3
    <3>5. b - 1 \in Above  BY <3>3, <3>4
    <3> QED BY <2>3, <3>3, <3>5
  <2>5. \A j \in To(h) : j <= b  BY <2>3
  <2> HIDE DEF To, Above
  <2> QED BY <2>4, <2>5
<1>6. table \in [1 .. N -> MapSlot]
  <2> SUFFICES ASSUME NEW h \in 1 .. N PROVE table[h] \in MapSlot  OBVIOUS
  <2>1. CASE To(h) = {}  BY <2>1 DEF MapSlot
  <2>2. CASE To(h) # {}
    <3>1. LastAt(h) \in 1 .. Len(m.table)  BY <2>2, <1>3, <1>4, <1>5
    <3> HIDE DEF To, LastAt
    <3> QED BY <2>2, <3>1, <1>3
  <2> HIDE DEF To, LastAt
  <2> QED BY <2>1, <2>2
<1>7. table \in Seq(MapSlot) /\ Len(table) = N
  <2> HIDE DEF table, N
  <2> QED BY <1>2, <1>6, FunctionIsSeq
<1> HIDE DEF table
<1>8. r \in MapType /\ r.capacity = N /\ r.table = table /\ r.size = m.size /\ r.panicked = m.panicked
  BY <1>2, <1>7 DEF MapType
<1>9. Cardinality(HM!Entries(r)) <= Cardinality(HM!Entries(m))
  <2> HIDE DEF To, LastAt, r, N
  <2> DEFINE S == HM!Entries(r)
             f == [h \in S |-> LastAt(h)]
  <2>1. S \subseteq 1 .. N
    <3>1. S \subseteq 1 .. Len(r.table)  BY <1>8, EntriesFinite
    <3> QED BY <3>1, <1>8, <1>7
  <2>2. \A h \in S : To(h) # {}
    <3>1. \A h \in S : table[h] # HM!None  BY <1>8 DEF HM!Entries
    <3> QED BY <2>1, <3>1 DEF table
  <2>3. \A h \in S : LastAt(h) \in To(h)  BY <2>2, <1>5
  <2> HIDE DEF S
  <2>4. f \in [S -> HM!Entries(m)]  BY <2>3, <1>4
  <2>5. \A a, b \in S : f[a] = f[b] => a = b
    <3>1. \A a, b, i : i \in To(a) /\ i \in To(b) => a = b  BY DEF To
    <3> QED BY <2>3, <3>1
  <2>6. f \in Injection(S, HM!Entries(m))
    <3> HIDE DEF f
    <3> QED BY <2>4, <2>5 DEF Injection, IsInjective
  <2> HIDE DEF f
  <2>7. Cardinality(S) <= Cardinality(HM!Entries(m))  BY <2>6, <1>3, FS_Injection
  <2> QED BY <2>7 DEF S
<1> QED BY <1>1, <1>7, <1>8, <1>9

(* Widening n times adds at least n to the capacity and takes no slot more. *)
LEMMA Widenings ==
    ASSUME NEW m \in MapType, m.capacity > 0, NEW n \in Nat
    PROVE  LET w == HM!Widened(m, n)
           IN  /\ w \in MapType /\ w.capacity >= m.capacity + n
               /\ w.size = m.size /\ w.panicked = m.panicked
               /\ Cardinality(HM!Entries(w)) <= Cardinality(HM!Entries(m))
               /\ n = 0 => w = m
               /\ n > 0 => Len(w.table) = w.capacity
<1> DEFINE Row(i, F) == IF i = 0 THEN m ELSE HM!resize(F[i - 1])
           W == CHOOSE F : F = [i \in 0 .. n |-> Row(i, F)]
           step == [i \in 1 .. n |-> [t \in MapType |-> HM!resize(t)]]
<1>0. step \in [1 .. n -> [MapType -> MapType]]  BY Resized
<1>1. PICK F \in [0 .. n -> MapType] : F[0] = m /\ \A i \in 1 .. n : F[i] = step[i][F[i - 1]]
  <2> HIDE DEF step
  <2>1. PICK F : F \in Runs(MapType, m, n, step)  BY <1>0, Iterates
  <2> QED BY <2>1 DEF Runs
<1>2. F = [i \in 0 .. n |-> Row(i, F)]
  <2>1. \A i \in 1 .. n : F[i] = HM!resize(F[i - 1])
    <3> TAKE i \in 1 .. n
    <3>1. F[i - 1] \in MapType  OBVIOUS
    <3> QED BY <1>1, <3>1
  <2>2. \A i \in 0 .. n : F[i] = Row(i, F)  BY <1>1, <2>1
  <2>3. F = [i \in 0 .. n |-> F[i]]  OBVIOUS
  <2> HIDE DEF Row
  <2> QED BY <2>2, <2>3
<1>3. W = [i \in 0 .. n |-> Row(i, W)]
  <2> HIDE DEF Row
  <2> QED BY <1>2
<1>4. HM!Widened(m, n) = W[n]  BY DEF HM!Widened
<1> HIDE DEF W
<1>5. W[0] = m /\ \A i \in 1 .. n : W[i] = HM!resize(W[i - 1])
  <2>1. \A i \in 0 .. n : W[i] = Row(i, W)
    <3> HIDE DEF Row
    <3> QED BY <1>3
  <2> QED BY <2>1
<1> DEFINE T == {i \in Nat :
             i <= n => /\ W[i] \in MapType /\ W[i].capacity >= m.capacity + i
                       /\ W[i].size = m.size /\ W[i].panicked = m.panicked
                       /\ Cardinality(HM!Entries(W[i])) <= Cardinality(HM!Entries(m))
                       /\ i > 0 => Len(W[i].table) = W[i].capacity}
<1>6. 0 \in T
  <2>1. m.capacity \in Nat /\ Cardinality(HM!Entries(m)) \in Nat  BY EntriesFinite DEF MapType
  <2> QED BY <1>5, <2>1
<1>7. ASSUME NEW i \in Nat, i \in T, i < n  PROVE i + 1 \in T
  <2> DEFINE v == W[i]
             w == W[i + 1]
  <2>1. /\ v \in MapType /\ v.capacity >= m.capacity + i /\ v.size = m.size /\ v.panicked = m.panicked
        /\ Cardinality(HM!Entries(v)) <= Cardinality(HM!Entries(m))
    BY <1>7
  <2>2. w = HM!resize(v)
    <3>1. i + 1 \in 1 .. n /\ (i + 1) - 1 = i  BY <1>7
    <3> QED BY <3>1, <1>5
  <2> HIDE DEF v, w
  <2>3. /\ w \in MapType /\ w.capacity = 2 * v.capacity /\ Len(w.table) = 2 * v.capacity
        /\ w.size = v.size /\ w.panicked = v.panicked
        /\ Cardinality(HM!Entries(w)) <= Cardinality(HM!Entries(v))
    BY <2>1, <2>2, Resized
  <2>4. /\ Cardinality(HM!Entries(w)) \in Nat /\ Cardinality(HM!Entries(v)) \in Nat
        /\ Cardinality(HM!Entries(m)) \in Nat
    BY <2>1, <2>3, EntriesFinite
  <2>5. m.capacity \in Nat /\ v.capacity \in Nat /\ w.capacity \in Nat  BY <2>1, <2>3 DEF MapType
  <2>6. Cardinality(HM!Entries(w)) <= Cardinality(HM!Entries(m))  BY <2>1, <2>3, <2>4
  <2>7. w.capacity >= m.capacity + (i + 1)  BY <2>1, <2>3, <2>5
  <2> QED BY <2>1, <2>3, <2>6, <2>7 DEF w
<1>8. n \in T
  <2> HIDE DEF T
  <2>1. \A i \in Nat : i \in T /\ i < n => i + 1 \in T  BY <1>7
  <2>2. \A i \in 0 .. n : i \in T  BY <1>6, <2>1, Induction
  <2> QED BY <2>2
<1>9. n = 0 => W[n] = m  BY <1>5
<1> QED BY <1>4, <1>8, <1>9

(* Written to a slot within the table, one slot more is taken at most. *)
LEMMA Written ==
    ASSUME NEW m \in MapType, NEW w \in MapType, NEW s, Len(w.table) = Len(m.table),
           \A i \in 1 .. Len(m.table) : i # s => w.table[i] = m.table[i]
    PROVE  Cardinality(HM!Entries(w)) <= Cardinality(HM!Entries(m)) + 1
<1>1. HM!Entries(w) \subseteq HM!Entries(m) \cup {s}
  <2>1. HM!Entries(w) \subseteq 1 .. Len(m.table)  BY EntriesFinite
  <2>2. DOMAIN m.table = 1 .. Len(m.table)
    <3>1. m.table \in Seq(MapSlot)  BY DEF MapType
    <3> QED BY <3>1, LenProperties
  <2> QED BY <2>1, <2>2 DEF HM!Entries
<1>2. /\ IsFiniteSet(HM!Entries(m)) /\ Cardinality(HM!Entries(m)) \in Nat
      /\ Cardinality(HM!Entries(w)) \in Nat
  BY EntriesFinite
<1>3. /\ IsFiniteSet(HM!Entries(m) \cup {s})
      /\ Cardinality(HM!Entries(m) \cup {s}) = Cardinality(HM!Entries(m)) \/
         Cardinality(HM!Entries(m) \cup {s}) = Cardinality(HM!Entries(m)) + 1
  BY <1>2, FS_AddElement
<1>4. Cardinality(HM!Entries(w)) <= Cardinality(HM!Entries(m) \cup {s})  BY <1>1, <1>3, FS_Subset
<1> QED BY <1>2, <1>3, <1>4

(* The table that putValue works on: created with the first value. *)
MapOpened(m) == IF m.capacity = 0 THEN [m EXCEPT !.capacity = Default, !.table = HM!Slots(Default)] ELSE m

LEMMA Opened ==
    ASSUME NEW m \in MapType, Len(m.table) <= m.capacity
    PROVE  LET t == MapOpened(m)
           IN  /\ t \in MapType /\ t.capacity > 0 /\ t.size = m.size /\ t.panicked = m.panicked
               /\ Len(t.table) <= t.capacity
               /\ Cardinality(HM!Entries(t)) <= Cardinality(HM!Entries(m))
               /\ Len(m.table) = m.capacity => Len(t.table) = t.capacity
               /\ m.capacity = 0 => Len(t.table) = t.capacity /\ \A i \in 1 .. Len(t.table) : t.table[i] = HM!None
               /\ m.capacity > 0 => t = m
<1>1. m.capacity \in Nat /\ Default \in Nat /\ Default > 0  BY ContainersAssumption DEF MapType
<1>2. CASE m.capacity = 0
  <2> DEFINE slots == HM!Slots(Default)
             t == [m EXCEPT !.capacity = Default, !.table = slots]
  <2>1. slots \in [1 .. Default -> MapSlot]  BY DEF HM!Slots, MapSlot
  <2>2. slots \in Seq(MapSlot) /\ Len(slots) = Default
    <3> HIDE DEF slots
    <3> QED BY <1>1, <2>1, FunctionIsSeq
  <2>3. \A i \in 1 .. Default : slots[i] = HM!None  BY DEF HM!Slots
  <2> HIDE DEF slots
  <2>4. t \in MapType /\ t.capacity = Default /\ t.size = m.size /\ t.panicked = m.panicked /\ t.table = slots
    BY <1>1, <2>2 DEF MapType
  <2>5. MapOpened(m) = t  BY <1>2 DEF MapOpened, slots
  <2> HIDE DEF t
  <2>6. HM!Entries(t) = {}
    <3>1. HM!Entries(t) \subseteq 1 .. Len(t.table)  BY <2>4, EntriesFinite
    <3>2. \A i \in HM!Entries(t) : t.table[i] # HM!None  BY DEF HM!Entries
    <3> QED BY <3>1, <3>2, <2>2, <2>3, <2>4
  <2>7. Cardinality(HM!Entries(t)) = 0 /\ Cardinality(HM!Entries(m)) \in Nat  BY <2>6, FS_EmptySet, EntriesFinite
  <2> QED BY <1>1, <1>2, <2>2, <2>3, <2>4, <2>5, <2>7
<1>3. CASE m.capacity # 0
  <2>1. MapOpened(m) = m  BY <1>3 DEF MapOpened
  <2>2. m.capacity > 0  BY <1>1, <1>3
  <2>3. Cardinality(HM!Entries(m)) \in Nat  BY EntriesFinite
  <2> QED BY <2>1, <2>2, <2>3
<1> QED BY <1>2, <1>3

(* What putValue does to the table opened: an index out of range, or an    *)
(* entry in the slot, of the key put when the capacity is as it was.       *)
LEMMA PutDoes ==
    ASSUME NEW m \in MapType, Len(m.table) <= m.capacity, NEW k \in Keys, NEW v \in Stored, NEW h \in Nat,
           HM!putValue(m, h, k, v).capacity <= MaxCapacity
    PROVE  LET t == MapOpened(m)
               p == HM!putValue(m, h, k, v)
           IN  \/ /\ ~(h < Len(t.table)) /\ p \in MapType /\ p.panicked = TRUE
                  /\ p.capacity = t.capacity /\ p.table = t.table /\ p.size = t.size
               \/ /\ h < Len(t.table) /\ p \in MapType /\ p.panicked = t.panicked
                  /\ p.capacity >= t.capacity /\ Len(p.table) <= p.capacity
                  /\ (Len(t.table) = t.capacity => Len(p.table) = p.capacity)
                  /\ p.size > t.size
                  /\ Cardinality(HM!Entries(p)) + t.size <= Cardinality(HM!Entries(t)) + p.size
                  /\ t.table[h + 1] = HM!None \/ t.table[h + 1].key = k => p.capacity = t.capacity
                  /\ p.capacity = t.capacity =>
                       /\ t.table[h + 1] = HM!None \/ t.table[h + 1].key = k
                       /\ Len(p.table) = Len(t.table) /\ p.table[h + 1] = [key |-> k, value |-> v]
                       /\ \A i \in 1 .. Len(t.table) : i # h + 1 => p.table[i] = t.table[i]
<1> DEFINE t == MapOpened(m)
           p == HM!putValue(m, h, k, v)
           W(n) == HM!Widened(t, n)
           Key(n) == IF n = 0 THEN k ELSE v
           Ends(n) == \/ W(n).capacity > MaxCapacity
                      \/ W(n).table[h + 1] = HM!None
                      \/ W(n).table[h + 1].key = Key(n)
           last == CHOOSE n \in 0 .. MaxCapacity : Ends(n) /\ \A j \in 0 .. n - 1 : ~Ends(j)
           e == [key |-> Key(last), value |-> v]
<1>1. p = IF ~(h < Len(t.table)) THEN [t EXCEPT !.panicked = TRUE]
          ELSE [W(last) EXCEPT !.table[h + 1] = e, !.size = @ + last + 1]
  BY DEF HM!putValue, HM!InTable, MapOpened
<1>2. t \in MapType /\ t.capacity > 0 /\ Len(t.table) <= t.capacity  BY Opened
<1>3. CASE ~(h < Len(t.table))
  <2> HIDE DEF W, last, e
  <2>1. p = [t EXCEPT !.panicked = TRUE]  BY <1>1, <1>3
  <2>2. /\ p \in MapType /\ p.panicked = TRUE
        /\ p.capacity = t.capacity /\ p.table = t.table /\ p.size = t.size
    <3> HIDE DEF t, p
    <3> QED BY <2>1, <1>2 DEF MapType
  <2> QED BY <1>3, <2>2
<1>4. CASE h < Len(t.table)
  <2> HIDE DEF t
  <2>0. MaxCapacity \in Nat /\ t.capacity \in Nat /\ Len(t.table) \in Nat  BY <1>2, ContainersAssumption DEF MapType
  <2>1. \A n \in Nat :
          /\ W(n) \in MapType /\ W(n).capacity >= t.capacity + n
          /\ W(n).size = t.size /\ W(n).panicked = t.panicked
          /\ Cardinality(HM!Entries(W(n))) <= Cardinality(HM!Entries(t))
          /\ n = 0 => W(n) = t
          /\ n > 0 => Len(W(n).table) = W(n).capacity
    BY <1>2, Widenings
  <2> HIDE DEF W, Key
  <2>2. last \in 0 .. MaxCapacity /\ Ends(last) /\ \A j \in 0 .. last - 1 : ~Ends(j)
    <3> DEFINE S == {n \in Nat : Ends(n)}
    <3>1. MaxCapacity \in S
      <4>1. W(MaxCapacity).capacity >= t.capacity + MaxCapacity /\ W(MaxCapacity).capacity \in Nat
        BY <2>0, <2>1 DEF MapType
      <4>2. W(MaxCapacity).capacity > MaxCapacity  BY <4>1, <2>0, <1>2
      <4> QED BY <4>2, <2>0
    <3>2. PICK x \in S : \A y \in S : x <= y
      <4> HIDE DEF S
      <4>1. S \subseteq Nat  BY DEF S
      <4> QED BY <3>1, <4>1, Least
    <3>3. x \in 0 .. MaxCapacity /\ Ends(x) /\ \A j \in 0 .. x - 1 : ~Ends(j)
      <4>1. x \in Nat /\ Ends(x) /\ x <= MaxCapacity  BY <3>1, <3>2, <2>0
      <4>2. ASSUME NEW j \in 0 .. x - 1  PROVE ~Ends(j)
        <5> HIDE DEF Ends
        <5>1. j \in Nat /\ ~(x <= j)  BY <4>1
        <5>2. j \notin S  BY <3>2, <5>1
        <5> QED BY <5>1, <5>2
      <4> HIDE DEF Ends
      <4> QED BY <4>1, <4>2, <2>0
    <3> HIDE DEF Ends, S
    <3> QED BY <3>3
  <2> HIDE DEF last
  <2> DEFINE w == W(last)
             s == h + 1
             tb == [w.table EXCEPT ![s] = e]
             size == w.size + last + 1
  <2>3. last \in Nat  BY <2>2, <2>0
  <2>4. /\ w \in MapType /\ w.capacity >= t.capacity + last /\ w.size = t.size /\ w.panicked = t.panicked
        /\ Cardinality(HM!Entries(w)) <= Cardinality(HM!Entries(t))
        /\ last = 0 => w = t
        /\ last > 0 => Len(w.table) = w.capacity
    BY <2>1, <2>3
  <2>5. p = [w EXCEPT !.table[s] = e, !.size = size]
    <3> HIDE DEF e
    <3> QED BY <1>1, <1>4
  <2>6. e \in MapSlot  BY DEF MapSlot, Key
  <2> HIDE DEF w, e, size
  <2>7. w.capacity \in Nat /\ w.size \in Nat /\ t.size \in Nat /\ Len(w.table) \in Nat
    <3>1. w.table \in Seq(MapSlot)  BY <2>4 DEF MapType
    <3> QED BY <2>4, <1>2, <3>1 DEF MapType
  <2>8. Len(w.table) <= w.capacity /\ h < Len(w.table) /\ (Len(t.table) = t.capacity => Len(w.table) = w.capacity)
    <3>1. CASE last = 0
      <4>1. w = t  BY <3>1, <2>4
      <4> QED BY <4>1, <1>2, <1>4
    <3>2. CASE last > 0
      <4>1. Len(w.table) = w.capacity /\ w.capacity >= t.capacity + last  BY <3>2, <2>4
      <4>2. Len(t.table) <= t.capacity  BY <1>2
      <4> QED BY <4>1, <4>2, <1>4, <2>0, <2>3, <2>7
    <3> QED BY <3>1, <3>2, <2>3
  <2>9. s \in 1 .. Len(w.table) /\ size \in Nat /\ size = t.size + last + 1  BY <2>3, <2>4, <2>7, <2>8 DEF size
  <2> HIDE DEF s, p
  <2>10. /\ p \in MapType /\ p.capacity = w.capacity /\ p.size = size /\ p.panicked = w.panicked
         /\ Len(p.table) = Len(w.table) /\ p.table[s] = e
         /\ \A i \in 1 .. Len(w.table) : i # s => p.table[i] = w.table[i]
         /\ Cardinality(HM!Entries(p)) <= Cardinality(HM!Entries(w)) + 1
    <3>1. w \in MapType  BY <2>4
    <3>2. s \in 1 .. Len(w.table) /\ size \in Nat  BY <2>9
    <3>3. p = [w EXCEPT !.table = tb, !.size = size]  BY <2>5, <3>1 DEF MapType
    <3>4. w.table \in Seq(MapSlot)  BY <3>1 DEF MapType
    <3>5. /\ tb \in Seq(MapSlot) /\ Len(tb) = Len(w.table) /\ tb[s] = e
          /\ \A i \in 1 .. Len(w.table) : i # s => tb[i] = w.table[i]
      BY <3>2, <3>4, <2>6, ExceptSeq
    <3> HIDE DEF tb
    <3>7. /\ p \in MapType /\ p.capacity = w.capacity /\ p.size = size /\ p.panicked = w.panicked
          /\ p.table = tb
      BY <3>1, <3>2, <3>3, <3>5 DEF MapType
    <3>8. Cardinality(HM!Entries(p)) <= Cardinality(HM!Entries(w)) + 1  BY <3>1, <3>5, <3>7, Written
    <3> QED BY <3>5, <3>7, <3>8
  <2>11. /\ Cardinality(HM!Entries(p)) \in Nat /\ Cardinality(HM!Entries(w)) \in Nat
         /\ Cardinality(HM!Entries(t)) \in Nat
    BY <2>10, <2>4, <1>2, EntriesFinite
  <2>12. Cardinality(HM!Entries(p)) + t.size <= Cardinality(HM!Entries(t)) + p.size
    BY SMTT(40), <2>11, <2>10, <2>4, <2>9, <2>3, <2>7
  <2>13. p.size > t.size  BY <2>10, <2>9, <2>3, <2>7
  <2>14. p.capacity >= t.capacity  BY <2>10, <2>4, <2>3, <2>7, <2>0
  <2>15. t.table[s] = HM!None \/ t.table[s].key = k => last = 0
    <3> SUFFICES ASSUME t.table[s] = HM!None \/ t.table[s].key = k  PROVE last = 0  OBVIOUS
    <3>1. Ends(0)  BY <2>1 DEF s, Key
    <3> HIDE DEF Ends
    <3>2. ~(0 \in 0 .. last - 1)  BY <2>2, <3>1
    <3> QED BY <2>3, <3>2
  <2>16. ASSUME last = 0  PROVE p.capacity = t.capacity
    <3>1. w = t  BY <2>16, <2>4
    <3> QED BY <3>1, <2>10
  <2>17. ASSUME p.capacity = t.capacity
         PROVE  /\ t.table[s] = HM!None \/ t.table[s].key = k
                /\ Len(p.table) = Len(t.table) /\ p.table[s] = [key |-> k, value |-> v]
                /\ \A i \in 1 .. Len(t.table) : i # s => p.table[i] = t.table[i]
    <3>1. last = 0  BY <2>17, <2>10, <2>4, <2>3, <2>7, <2>0
    <3>2. w = t /\ e = [key |-> k, value |-> v]  BY <3>1, <2>4 DEF e, Key
    <3>3. ~(w.capacity > MaxCapacity)
      <4>1. p.capacity <= MaxCapacity  BY DEF p
      <4> QED BY <4>1, <2>10, <2>0, <2>7
    <3>4. w.table[s] = HM!None \/ w.table[s].key = k  BY <2>2, <3>1, <3>3 DEF w, s, Key
    <3> QED BY <3>2, <3>4, <2>10
  <2> QED BY <1>4, <2>4, <2>8, <2>10, <2>12, <2>13, <2>14, <2>15, <2>16, <2>17 DEF s, p, t
<1> QED BY <1>3, <1>4

LEMMA MapStarts ==
    ASSUME HM!Init
    PROVE  HM!Inv
<1>1. PICK c \in Capacities : obj = [type |-> "HashMap", capacity |-> c, size |-> 0, table |-> HM!Slots(c),
                                     panicked |-> FALSE]
  BY DEF HM!Init
<1>2. want = <<>> /\ trusted = TRUE  BY DEF HM!Init
<1> DEFINE slots == HM!Slots(c)
<1>3. c \in Nat  BY ContainersAssumption
<1>4. slots \in [1 .. c -> MapSlot] /\ \A i \in 1 .. c : slots[i] = HM!None  BY DEF HM!Slots, MapSlot
<1> HIDE DEF slots
<1>5. slots \in Seq(MapSlot) /\ Len(slots) = c  BY <1>3, <1>4, FunctionIsSeq
<1>6. /\ obj \in MapType /\ obj.capacity = c /\ obj.size = 0 /\ obj.table = slots /\ obj.panicked = FALSE
  BY <1>1, <1>3, <1>5 DEF MapType, slots
<1>7. HM!Entries(obj) = {}
  <2>1. HM!Entries(obj) \subseteq 1 .. Len(obj.table)  BY <1>6, EntriesFinite
  <2>2. \A i \in HM!Entries(obj) : obj.table[i] # HM!None  BY DEF HM!Entries
  <2> QED BY <2>1, <2>2, <1>4, <1>5, <1>6
<1>8. Cardinality(HM!Entries(obj)) = 0  BY <1>7, FS_EmptySet
<1>9. DOMAIN want = {}  BY <1>2
<1>10. obj \in [type : {"HashMap"}, capacity : Nat, size : Nat, panicked : BOOLEAN,
                 table : Seq({HM!None} \cup [key : Keys \cup Stored, value : Stored])]
  BY <1>6 DEF MapType, MapSlot
<1>11. Len(obj.table) = obj.capacity  BY <1>5, <1>6
<1>12. Len(obj.table) <= obj.capacity  BY <1>3, <1>6, <1>11
<1>13. HM!Cardinality(HM!Entries(obj)) <= obj.size  BY <1>6, <1>8, MapCounts
<1> QED BY <1>2, <1>6, <1>9, <1>10, <1>11, <1>12, <1>13 DEF HM!Inv

(* The invariant, with its type by name. *)
LEMMA MapHolds ==
    ASSUME HM!Inv
    PROVE  /\ obj \in MapType /\ obj.capacity \in Nat /\ obj.size \in Nat /\ obj.table \in Seq(MapSlot)
           /\ Len(obj.table) \in Nat /\ obj.type = "HashMap"
           /\ Len(obj.table) <= obj.capacity /\ (trusted => Len(obj.table) = obj.capacity)
<1>1. obj \in MapType  BY DEF HM!Inv, MapType, MapSlot
<1>2. obj.table \in Seq(MapSlot)  BY <1>1 DEF MapType
<1> QED BY <1>1, <1>2 DEF HM!Inv, MapType

LEMMA MapMisses ==
    ASSUME HM!Inv, NEW k \in Keys, HM!Misses(k)
    PROVE  HM!Inv'
<1>1. /\ obj \in MapType /\ obj.capacity \in Nat /\ obj.size \in Nat /\ Len(obj.table) \in Nat
      /\ Len(obj.table) <= obj.capacity
  BY MapHolds
<1>2. ~(HM!Hash(obj, k) < Len(obj.table)) /\ obj' = [obj EXCEPT !.panicked = TRUE] /\ want' = want /\ trusted' = trusted
  BY DEF HM!Misses, HM!InTable
<1>3. HM!Hash(obj, k) \in Nat /\ (obj.capacity > 0 => HM!Hash(obj, k) < obj.capacity)  BY <1>1, Hashed
<1>4. /\ obj' \in MapType /\ obj'.capacity = obj.capacity /\ obj'.size = obj.size /\ obj'.table = obj.table
      /\ obj'.panicked = TRUE
  BY <1>1, <1>2 DEF MapType
<1>5. HM!Entries(obj)' = HM!Entries(obj)  BY <1>4 DEF HM!Entries
<1>6. Len(obj.table) < obj.capacity \/ obj.size = 0
  <2>1. CASE obj.capacity = 0  BY <2>1 DEF HM!Inv
  <2>2. CASE obj.capacity > 0  BY <2>2, <1>1, <1>2, <1>3
  <2> QED BY <1>1, <2>1, <2>2
<1>7. obj' \in [type : {"HashMap"}, capacity : Nat, size : Nat, panicked : BOOLEAN,
                table : Seq({HM!None} \cup [key : Keys \cup Stored, value : Stored])]
  BY <1>4 DEF MapType, MapSlot
<1> QED BY <1>2, <1>4, <1>5, <1>6, <1>7 DEF HM!Inv

LEMMA MapDeletes ==
    ASSUME HM!Inv, NEW k \in Keys, HM!Delete(k)
    PROVE  HM!Inv'
<1> DEFINE h == HM!Hash(obj, k)
           t == obj.table
           front == SubSeq(t, 1, h)
           back == SubSeq(t, h + 2, Len(t))
           cut == front \o back
<1>1. /\ obj \in MapType /\ obj.capacity \in Nat /\ obj.size \in Nat /\ Len(t) \in Nat /\ t \in Seq(MapSlot)
      /\ Len(t) <= obj.capacity
  BY MapHolds
<1>2. /\ h < Len(t) /\ t[h + 1] # HM!None /\ obj.panicked = FALSE
      /\ obj' = [obj EXCEPT !.table = cut, !.size = @ - 1]
      /\ want' = [x \in DOMAIN want \ {k} |-> want[x]] /\ trusted' = FALSE
  <2>1. obj.panicked = FALSE
    <3>1. obj.panicked \in BOOLEAN /\ ~obj.panicked  BY <1>1 DEF MapType, HM!Delete, HM!Live
    <3> QED BY <3>1
  <2>2. HM!InTable(obj, HM!Hash(obj, k)) /\ HM!Contains(obj, k)  BY DEF HM!Delete
  <2>3. obj' = [obj EXCEPT !.table = SubSeq(@, 1, h) \o SubSeq(@, h + 2, Len(@)), !.size = @ - 1]
    BY DEF HM!Delete
  <2>4. obj' = [obj EXCEPT !.table = cut, !.size = @ - 1]  BY <1>1, <2>3 DEF MapType
  <2> QED BY <2>1, <2>2, <2>4 DEF HM!InTable, HM!Contains, HM!Node, HM!Delete
<1>3. h \in Nat  BY <1>1, Hashed
<1> HIDE DEF h, t
<1>4. front \in Seq(MapSlot) /\ Len(front) = h /\ \A i \in 1 .. h : front[i] = t[i]
  <2>1. 1 .. h \subseteq 1 .. Len(t)  BY <1>1, <1>2, <1>3
  <2> QED BY <1>1, <1>2, <1>3, <2>1, SubSeqProperties
<1>5. back \in Seq(MapSlot) /\ Len(back) = Len(t) - h - 1 /\ \A i \in 1 .. Len(t) - h - 1 : back[i] = t[h + 1 + i]
  <2>1. h + 2 .. Len(t) \subseteq 1 .. Len(t) /\ h + 2 \in Int  BY <1>1, <1>2, <1>3
  <2>2. /\ back \in Seq(MapSlot) /\ Len(back) = (IF h + 2 <= Len(t) THEN Len(t) - (h + 2) + 1 ELSE 0)
        /\ \A i \in 1 .. Len(t) - (h + 2) + 1 : back[i] = t[(h + 2) + i - 1]
    BY SMTT(40), <1>1, <2>1, SubSeqProperties
  <2> HIDE DEF back
  <2>3. Len(back) = Len(t) - h - 1  BY <2>2, <1>1, <1>2, <1>3
  <2>4. ASSUME NEW i \in 1 .. Len(t) - h - 1  PROVE back[i] = t[h + 1 + i]
    <3>1. i \in 1 .. Len(t) - (h + 2) + 1 /\ (h + 2) + i - 1 = h + 1 + i  BY <1>1, <1>3
    <3> QED BY <3>1, <2>2
  <2> QED BY <2>2, <2>3, <2>4
<1> HIDE DEF front, back
<1>6. /\ cut \in Seq(MapSlot) /\ Len(cut) = Len(t) - 1
      /\ \A i \in 1 .. h : cut[i] = t[i]
      /\ \A i \in h + 1 .. Len(t) - 1 : cut[i] = t[i + 1]
  <2>1. /\ cut \in Seq(MapSlot) /\ Len(cut) = Len(front) + Len(back)
        /\ \A i \in 1 .. Len(front) + Len(back) : cut[i] = IF i <= Len(front) THEN front[i] ELSE back[i - Len(front)]
    BY <1>4, <1>5, ConcatProperties
  <2> HIDE DEF cut
  <2>2. Len(cut) = Len(t) - 1  BY <2>1, <1>1, <1>3, <1>4, <1>5
  <2>3. ASSUME NEW i \in 1 .. h  PROVE cut[i] = t[i]
    <3>1. i \in 1 .. Len(front) + Len(back) /\ i <= Len(front)  BY <1>1, <1>2, <1>3, <1>4, <1>5
    <3> QED BY <3>1, <2>1, <1>4
  <2>4. ASSUME NEW i \in h + 1 .. Len(t) - 1  PROVE cut[i] = t[i + 1]
    <3>1. i \in 1 .. Len(front) + Len(back) /\ ~(i <= Len(front))  BY <1>1, <1>2, <1>3, <1>4, <1>5
    <3>2. cut[i] = back[i - h]  BY <3>1, <2>1, <1>4
    <3>3. i - h \in 1 .. Len(t) - h - 1 /\ h + 1 + (i - h) = i + 1  BY <1>1, <1>3
    <3> QED BY <3>2, <3>3, <1>5
  <2> QED BY <2>1, <2>2, <2>3, <2>4
<1> HIDE DEF cut
<1> DEFINE E == HM!Entries(obj)
           D == HM!Entries(obj)'
<1>7. /\ E \subseteq 1 .. Len(t) /\ IsFiniteSet(E) /\ Cardinality(E) \in Nat /\ h + 1 \in E
      /\ Cardinality(E) <= obj.size
  <2>1. DOMAIN t = 1 .. Len(t)  BY <1>1, LenProperties
  <2>2. h + 1 \in E  BY <2>1, <1>1, <1>2, <1>3 DEF HM!Entries, t
  <2>3. E \subseteq 1 .. Len(obj.table) /\ IsFiniteSet(E) /\ Cardinality(E) \in Nat  BY <1>1, EntriesFinite
  <2>4. Cardinality(E) <= obj.size
    <3>1. HM!Cardinality(HM!Entries(obj)) <= obj.size  BY DEF HM!Inv
    <3> QED BY <3>1, MapCounts
  <2> HIDE DEF E
  <2> QED BY <2>2, <2>3, <2>4 DEF t
<1>8. obj.size > 0 /\ Cardinality(E \ {h + 1}) = Cardinality(E) - 1 /\ IsFiniteSet(E \ {h + 1})
  <2>1. Cardinality(E \ {h + 1}) = Cardinality(E) - 1 /\ IsFiniteSet(E \ {h + 1})
    <3> HIDE DEF E
    <3> QED BY <1>7, FS_RemoveElement
  <2>2. Cardinality(E \ {h + 1}) \in Nat
    <3> HIDE DEF E
    <3> QED BY <2>1, FS_CardinalityType
  <2> HIDE DEF E
  <2> QED BY <2>1, <2>2, <1>1, <1>7
<1>9. /\ obj' \in MapType /\ obj'.capacity = obj.capacity /\ obj'.size = obj.size - 1 /\ obj'.table = cut
      /\ obj'.panicked = FALSE
  <2>1. obj.size - 1 \in Nat  BY <1>1, <1>8
  <2> QED BY <1>1, <1>2, <1>6, <2>1 DEF MapType
<1>10. Cardinality(D) <= obj'.size
  <2> DEFINE f == [i \in D |-> IF i <= h THEN i ELSE i + 1]
  <2>1. D \subseteq 1 .. Len(t) - 1 /\ \A i \in D : cut[i] # HM!None
    <3>1. DOMAIN cut = 1 .. Len(t) - 1  BY <1>6, LenProperties
    <3> QED BY <3>1, <1>9 DEF HM!Entries
  <2>2. ASSUME NEW i \in D  PROVE f[i] \in E \ {h + 1}
    <3>0. i \in 1 .. Len(t) - 1 /\ cut[i] # HM!None  BY <2>1
    <3>d. DOMAIN t = 1 .. Len(t)  BY <1>1, LenProperties
    <3>1. CASE i <= h
      <4>1. t[i] # HM!None /\ i \in 1 .. Len(t) /\ i # h + 1  BY <3>0, <3>1, <1>1, <1>3, <1>6
      <4> QED BY <3>1, <4>1, <3>d DEF HM!Entries, t
    <3>2. CASE ~(i <= h)
      <4>1. t[i + 1] # HM!None /\ i + 1 \in 1 .. Len(t) /\ i + 1 # h + 1  BY <3>0, <3>2, <1>1, <1>3, <1>6
      <4> QED BY <3>2, <4>1, <3>d DEF HM!Entries, t
    <3> QED BY <3>1, <3>2
  <2> HIDE DEF D, E
  <2>3. f \in [D -> E \ {h + 1}]  BY <2>2
  <2>4. \A a, b \in D : f[a] = f[b] => a = b  BY <2>1, <1>1, <1>3
  <2>5. f \in Injection(D, E \ {h + 1})
    <3> HIDE DEF f
    <3> QED BY <2>3, <2>4 DEF Injection, IsInjective
  <2> HIDE DEF f
  <2>6. IsFiniteSet(D) /\ Cardinality(D) <= Cardinality(E \ {h + 1})  BY <2>5, <1>8, FS_Injection
  <2>7. Cardinality(D) \in Nat  BY <2>6, FS_CardinalityType
  <2> QED BY <2>6, <2>7, <1>7, <1>8, <1>9, <1>1
<1>11. obj' \in [type : {"HashMap"}, capacity : Nat, size : Nat, panicked : BOOLEAN,
                 table : Seq({HM!None} \cup [key : Keys \cup Stored, value : Stored])]
  BY <1>9 DEF MapType, MapSlot
<1>12. Len(obj'.table) <= obj'.capacity /\ obj'.capacity # 0  BY <1>1, <1>2, <1>3, <1>6, <1>9
<1>13. DOMAIN want' \subseteq Keys /\ \A x \in DOMAIN want' : want'[x] \in Stored  BY <1>2 DEF HM!Inv
<1>14. HM!Cardinality(HM!Entries(obj))' <= obj'.size  BY <1>10, MapCounts
<1>15. trusted' = FALSE /\ obj'.panicked = FALSE  BY <1>2, <1>9
<1> QED BY <1>11, <1>12, <1>13, <1>14, <1>15 DEF HM!Inv

LEMMA MapPuts ==
    ASSUME HM!Inv, NEW k \in Keys, NEW v \in Stored, HM!Put(k, v)
    PROVE  HM!Inv'
<1> DEFINE h == HM!Hash(obj, k)
           t == MapOpened(obj)
           p == HM!putValue(obj, h, k, v)
           e == [key |-> k, value |-> v]
           E == HM!Entries(obj)
<1>1. /\ obj \in MapType /\ obj.capacity \in Nat /\ obj.size \in Nat /\ Len(obj.table) \in Nat
      /\ Len(obj.table) <= obj.capacity /\ (trusted => Len(obj.table) = obj.capacity)
  BY MapHolds
<1>2. /\ obj' = p /\ p.capacity <= MaxCapacity
      /\ trusted' = (trusted /\ obj.capacity \in {0, p.capacity})
  BY DEF HM!Put
<1>3. ~obj.panicked  BY DEF HM!Put, HM!Live
<1>4. DOMAIN want' = DOMAIN want \cup {k} /\ want'[k] = v /\ \A x \in DOMAIN want \ {k} : want'[x] = want[x]
  <2>1. want' = [x \in DOMAIN want \cup {k} |-> IF x = k THEN v ELSE want[x]]  BY DEF HM!Put
  <2> QED BY <2>1
<1>5. h \in Nat /\ (obj.capacity > 0 => h < obj.capacity)  BY <1>1, Hashed
<1> HIDE DEF h
<1>6. /\ t \in MapType /\ t.capacity > 0 /\ t.size = obj.size /\ t.panicked = obj.panicked
      /\ Len(t.table) <= t.capacity
      /\ Cardinality(HM!Entries(t)) <= Cardinality(E)
      /\ Len(obj.table) = obj.capacity => Len(t.table) = t.capacity
      /\ obj.capacity = 0 => Len(t.table) = t.capacity /\ \A i \in 1 .. Len(t.table) : t.table[i] = HM!None
      /\ obj.capacity > 0 => t = obj
  BY <1>1, Opened
<1>7. \/ /\ ~(h < Len(t.table)) /\ p \in MapType /\ p.panicked = TRUE
         /\ p.capacity = t.capacity /\ p.table = t.table /\ p.size = t.size
      \/ /\ h < Len(t.table) /\ p \in MapType /\ p.panicked = t.panicked
         /\ p.capacity >= t.capacity /\ Len(p.table) <= p.capacity
         /\ (Len(t.table) = t.capacity => Len(p.table) = p.capacity)
         /\ p.size > t.size
         /\ Cardinality(HM!Entries(p)) + t.size <= Cardinality(HM!Entries(t)) + p.size
         /\ (t.table[h + 1] = HM!None \/ t.table[h + 1].key = k => p.capacity = t.capacity)
         /\ p.capacity = t.capacity =>
              /\ t.table[h + 1] = HM!None \/ t.table[h + 1].key = k
              /\ Len(p.table) = Len(t.table) /\ p.table[h + 1] = e
              /\ \A i \in 1 .. Len(t.table) : i # h + 1 => p.table[i] = t.table[i]
  <2>1. HM!putValue(obj, h, k, v).capacity <= MaxCapacity  BY <1>2
  <2>2. obj \in MapType /\ Len(obj.table) <= obj.capacity /\ h \in Nat  BY <1>1, <1>5
  <2> QED BY ZenonT(40), <2>1, <2>2, PutDoes
<1> HIDE DEF p, t, E
<1>8. /\ t.capacity \in Nat /\ t.size \in Nat /\ Len(t.table) \in Nat /\ t.table \in Seq(MapSlot)
      /\ Cardinality(HM!Entries(t)) \in Nat /\ Cardinality(E) \in Nat
      /\ Cardinality(HM!Entries(t)) <= t.size
  <2>1. t.table \in Seq(MapSlot)  BY <1>6 DEF MapType
  <2>2. Cardinality(HM!Entries(t)) \in Nat /\ Cardinality(E) \in Nat  BY <1>1, <1>6, EntriesFinite DEF E
  <2>3. t.capacity \in Nat /\ t.size \in Nat  BY <1>6 DEF MapType
  <2>4. Cardinality(E) <= obj.size
    <3>1. HM!Cardinality(HM!Entries(obj)) <= obj.size  BY DEF HM!Inv
    <3> QED BY <3>1, MapCounts DEF E
  <2>5. Cardinality(HM!Entries(t)) <= t.size  BY <1>1, <1>6, <2>2, <2>3, <2>4
  <2> QED BY <2>1, <2>2, <2>3, <2>5
<1>9. DOMAIN want' \subseteq Keys /\ \A x \in DOMAIN want' : want'[x] \in Stored
  <2>1. DOMAIN want \subseteq Keys /\ \A x \in DOMAIN want : want[x] \in Stored  BY DEF HM!Inv
  <2> QED BY <1>4, <2>1
<1>10. trusted' \in BOOLEAN  BY <1>2
<1>11. CASE /\ ~(h < Len(t.table)) /\ p \in MapType /\ p.panicked = TRUE
            /\ p.capacity = t.capacity /\ p.table = t.table /\ p.size = t.size
  <2>1. /\ p \in MapType /\ p.capacity = t.capacity /\ p.size = t.size /\ p.table = t.table /\ p.panicked = TRUE
    BY <1>11
  <2>2. HM!Entries(p) = HM!Entries(t)  BY <2>1 DEF HM!Entries
  <2>3. HM!Cardinality(HM!Entries(obj))' <= obj'.size  BY <1>2, <1>8, <2>1, <2>2, MapCounts
  <2>4. obj' \in [type : {"HashMap"}, capacity : Nat, size : Nat, panicked : BOOLEAN,
                  table : Seq({HM!None} \cup [key : Keys \cup Stored, value : Stored])]
    BY <1>2, <2>1 DEF MapType, MapSlot
  <2>5. Len(p.table) < p.capacity \/ p.size = 0
    <3>1. CASE obj.capacity = 0
      <4>1. obj.size = 0  BY <3>1 DEF HM!Inv
      <4> QED BY <4>1, <1>6, <2>1
    <3>2. CASE obj.capacity > 0
      <4>1. t = obj /\ h < obj.capacity  BY <3>2, <1>5, <1>6
      <4>2. Len(t.table) <= h  BY <1>5, <1>8, <1>11
      <4> QED BY <4>1, <4>2, <2>1, <1>5, <1>8
    <3> QED BY <1>1, <3>1, <3>2
  <2>6. trusted' => Len(p.table) = p.capacity  BY <1>1, <1>2, <1>6, <2>1
  <2>7. p.capacity # 0 /\ Len(p.table) <= p.capacity  BY <1>6, <1>8, <2>1
  <2> QED BY <1>2, <1>9, <1>10, <2>1, <2>3, <2>4, <2>5, <2>6, <2>7 DEF HM!Inv
<1>12. CASE /\ h < Len(t.table) /\ p \in MapType /\ p.panicked = t.panicked
            /\ p.capacity >= t.capacity /\ Len(p.table) <= p.capacity
            /\ (Len(t.table) = t.capacity => Len(p.table) = p.capacity)
            /\ p.size > t.size
            /\ Cardinality(HM!Entries(p)) + t.size <= Cardinality(HM!Entries(t)) + p.size
            /\ (t.table[h + 1] = HM!None \/ t.table[h + 1].key = k => p.capacity = t.capacity)
            /\ p.capacity = t.capacity =>
                 /\ t.table[h + 1] = HM!None \/ t.table[h + 1].key = k
                 /\ Len(p.table) = Len(t.table) /\ p.table[h + 1] = e
                 /\ \A i \in 1 .. Len(t.table) : i # h + 1 => p.table[i] = t.table[i]
  <2>1. p.size \in Nat /\ p.capacity \in Nat /\ Cardinality(HM!Entries(p)) \in Nat
    BY <1>12, EntriesFinite DEF MapType
  <2>2. Cardinality(HM!Entries(p)) <= p.size  BY <1>12, <1>8, <2>1
  <2>3. HM!Cardinality(HM!Entries(obj))' <= obj'.size  BY <1>2, <2>2, MapCounts
  <2>4. obj' \in [type : {"HashMap"}, capacity : Nat, size : Nat, panicked : BOOLEAN,
                  table : Seq({HM!None} \cup [key : Keys \cup Stored, value : Stored])]
    BY <1>2, <1>12 DEF MapType, MapSlot
  <2>5. trusted' => Len(p.table) = p.capacity  BY <1>1, <1>2, <1>6, <1>12
  <2>6. p.capacity # 0 /\ Len(p.table) <= p.capacity  BY <1>6, <1>8, <1>12, <2>1
  <2>7. ~p.panicked  BY <1>3, <1>6, <1>12
  <2>8. ASSUME trusted', NEW x \in DOMAIN want'  PROVE HM!Node(p, x) = [key |-> x, value |-> want'[x]]
    <3>1. trusted /\ Len(p.table) = p.capacity /\ x \in Keys  BY <1>2, <1>9, <2>5, <2>8
    <3>2. p.capacity = t.capacity /\ Len(t.table) = t.capacity
      <4>1. CASE obj.capacity = 0
        <5>1. h + 1 \in 1 .. Len(t.table)  BY <1>5, <1>8, <1>12
        <5>2. t.table[h + 1] = HM!None  BY <4>1, <1>6, <5>1
        <5> QED BY <4>1, <5>2, <1>6, <1>12
      <4>2. CASE obj.capacity > 0
        <5>1. trusted /\ obj.capacity \in {0, p.capacity}  BY <1>2, <2>8
        <5>2. t = obj /\ obj.capacity = p.capacity /\ Len(obj.table) = obj.capacity  BY <4>2, <5>1, <1>1, <1>6
        <5> QED BY <5>2
      <4> QED BY <1>1, <4>1, <4>2
    <3>3. /\ t.table[h + 1] = HM!None \/ t.table[h + 1].key = k
          /\ p.table[h + 1] = e /\ \A i \in 1 .. Len(t.table) : i # h + 1 => p.table[i] = t.table[i]
      BY <1>12, <3>2
    <3>4. HM!Hash(p, k) = h
      <4>1. CASE obj.capacity = 0
        <5>1. h = Mixed[k]  BY <4>1 DEF HM!Hash, h
        <5>2. HM!Hash(p, k) = h % p.capacity  BY <5>1, <3>2, <1>6 DEF HM!Hash
        <5>3. h \in 0 .. p.capacity - 1 /\ p.capacity \in Nat  BY <1>5, <1>8, <1>12, <3>2
        <5> QED BY <5>2, <5>3, Mods
      <4>2. CASE obj.capacity > 0
        <5>1. p.capacity = obj.capacity  BY <4>2, <1>6, <3>2
        <5> QED BY <5>1 DEF HM!Hash, h
      <4> QED BY <1>1, <4>1, <4>2
    <3>5. CASE x = k  BY <3>3, <3>4, <3>5, <1>4 DEF HM!Node
    <3>6. CASE x # k
      <4>1. x \in DOMAIN want /\ want'[x] = want[x]  BY <1>4, <3>6
      <4>2. obj.capacity > 0 /\ t = obj
        <5>1. obj.capacity # 0  BY <4>1 DEF HM!Inv
        <5> QED BY <5>1, <1>1, <1>6
      <4>3. HM!Node(obj, x) = [key |-> x, value |-> want[x]]  BY <1>3, <3>1, <4>1 DEF HM!Inv
      <4>4. HM!Hash(p, x) = HM!Hash(obj, x)  BY <3>2, <4>2 DEF HM!Hash
      <4>5. HM!Hash(obj, x) \in Nat /\ HM!Hash(obj, x) < obj.capacity  BY <1>1, <3>1, <4>2, Hashed
      <4>6. HM!Hash(obj, x) + 1 \in 1 .. Len(t.table)  BY <4>5, <4>2, <3>2
      <4>7. HM!Hash(obj, x) # h
        <5>1. SUFFICES ASSUME HM!Hash(obj, x) = h PROVE FALSE  OBVIOUS
        <5>2. t.table[h + 1] = [key |-> x, value |-> want[x]]  BY <4>2, <4>3, <5>1 DEF HM!Node
        <5>3. t.table[h + 1].key = x  BY <5>2
        <5>5. want[x] # 0
          <6>1. want[x] \in Stored  BY <4>1 DEF HM!Inv
          <6> QED BY <6>1, ContainersAssumption
        <5>6. t.table[h + 1] # HM!None  BY <5>2, <5>5 DEF HM!None
        <5> QED BY <3>3, <3>6, <5>3, <5>6
      <4>8. p.table[HM!Hash(obj, x) + 1] = t.table[HM!Hash(obj, x) + 1]  BY <3>3, <4>5, <4>6, <4>7, <1>5
      <4> QED BY <4>1, <4>2, <4>3, <4>4, <4>8 DEF HM!Node
    <3> QED BY <3>5, <3>6
  <2> QED BY <1>2, <1>9, <1>10, <2>3, <2>4, <2>5, <2>6, <2>7, <2>8 DEF HM!Inv
<1> QED BY <1>7, <1>11, <1>12

LEMMA MapSteps ==
    ASSUME HM!Inv, [HM!Next]_(HM!vars)
    PROVE  HM!Inv'
<1>1. CASE HM!Next
  <2>1. PICK k \in Keys : HM!Misses(k) \/ HM!Delete(k) \/ \E v \in Stored : HM!Put(k, v)  BY <1>1 DEF HM!Next
  <2>2. CASE HM!Misses(k)  BY <2>2, MapMisses
  <2>3. CASE HM!Delete(k)  BY <2>3, MapDeletes
  <2>4. ASSUME NEW v \in Stored, HM!Put(k, v)  PROVE HM!Inv'  BY <2>4, MapPuts
  <2> QED BY <2>1, <2>2, <2>3, <2>4
<1>2. CASE UNCHANGED HM!vars
  <2>1. obj' = obj /\ want' = want /\ trusted' = trusted  BY <1>2 DEF HM!vars
  <2> QED BY <2>1 DEF HM!Inv, HM!Entries, HM!Node, HM!Hash
<1> QED BY <1>1, <1>2

(* What every step of the hash map keeps holds in all its runs. *)
THEOREM MapHeld == HM!Spec => []HM!Inv
<1>1. HM!Init => HM!Inv  BY MapStarts
<1>2. HM!Inv /\ [HM!Next]_(HM!vars) => HM!Inv'  BY MapSteps
<1> QED BY <1>1, <1>2, PTL DEF HM!Spec

(* Whatever the keys, their hashes and the capacities: HashMap (hashmap.go *)
(* Put, Get, Delete) finds the last value of each key until two keys share *)
(* a slot or one is deleted, leaves its table only after a deletion or in  *)
(* an empty map, and its size never counts fewer than its entries.         *)
THEOREM LastFound == HM!Spec => []MapFindsLast
<1>1. HM!Inv => MapFindsLast
  <2> SUFFICES ASSUME HM!Inv PROVE MapFindsLast  OBVIOUS
  <2> QED BY DEF MapFindsLast, HM!LastValueFound, HM!Inv
<1> QED BY <1>1, MapHeld, PTL

-----------------------------------------------------------------------------
(* SinglyLink *)

(* The slow pointer is halfway when the fast one has left the chain. *)
LEMMA SinglyMiddle ==
    ASSUME NEW n \in Nat, n > 0
    PROVE  SL!Middle(n) = n \div 2 + 1
<1> DEFINE q == n \div 2
           A == [fast : Nat, slow : Nat]
           s == [fast |-> 1, slow |-> 1]
           Step(t) == [fast |-> t.fast + 2, slow |-> t.slow + 1]
           Round(t) == IF t.fast <= n /\ t.fast + 1 <= n THEN Step(t) ELSE t
           step == [i \in 1 .. n |-> [t \in A |-> Round(t)]]
           Row(i, F) == IF i = 0 THEN s ELSE Round(F[i - 1])
           W == CHOOSE F : F = [i \in 0 .. n |-> Row(i, F)]
<1>1. q \in Nat /\ q + q <= n /\ n <= q + q + 1  OBVIOUS
<1>2. SL!Middle(n) = W[n].slow  BY DEF SL!Middle, SL!While, SL!For
<1>3. PICK F \in [0 .. n -> A] : F[0] = s /\ \A i \in 1 .. n : F[i] = step[i][F[i - 1]]
  <2>1. step \in [1 .. n -> [A -> A]]  OBVIOUS
  <2>2. s \in A  OBVIOUS
  <2> HIDE DEF step, A, s
  <2>3. PICK F : F \in Runs(A, s, n, step)  BY <2>1, <2>2, Iterates
  <2> QED BY <2>3 DEF Runs
<1> HIDE DEF q
<1>4. F = [i \in 0 .. n |-> Row(i, F)]
  <2>1. \A i \in 1 .. n : F[i] = Round(F[i - 1])
    <3> TAKE i \in 1 .. n
    <3>1. F[i - 1] \in A  OBVIOUS
    <3> HIDE DEF A, Round
    <3> QED BY <1>3, <3>1
  <2> HIDE DEF Round, s
  <2>2. \A i \in 0 .. n : F[i] = Row(i, F)  BY <1>3, <2>1
  <2>3. F = [i \in 0 .. n |-> F[i]]  OBVIOUS
  <2> HIDE DEF Row
  <2> QED BY <2>2, <2>3
<1>5. W = [i \in 0 .. n |-> Row(i, W)]
  <2> HIDE DEF Row
  <2> QED BY <1>4
<1> HIDE DEF W
<1>6. W[0] = s /\ \A i \in 1 .. n : W[i] = Round(W[i - 1])
  <2>1. \A i \in 0 .. n : W[i] = Row(i, W)
    <3> HIDE DEF Row
    <3> QED BY <1>5
  <2> HIDE DEF Round, s
  <2> QED BY <2>1
<1> DEFINE R(i) == IF i <= q THEN i ELSE q
           T == {i \in Nat : i <= n => W[i] = [fast |-> 1 + R(i) + R(i), slow |-> 1 + R(i)]}
<1>7. 0 \in T  BY <1>1, <1>6
<1>8. ASSUME NEW i \in Nat, i \in T, i < n  PROVE i + 1 \in T
  <2>1. W[i] = [fast |-> 1 + R(i) + R(i), slow |-> 1 + R(i)]  BY <1>8
  <2>2. W[i + 1] = Round(W[i])
    <3>1. i + 1 \in 1 .. n /\ (i + 1) - 1 = i  BY <1>8
    <3> HIDE DEF Round
    <3> QED BY <3>1, <1>6
  <2>3. CASE i < q
    <3>1. R(i) = i /\ R(i + 1) = i + 1  BY <2>3, <1>1
    <3>2. W[i] = [fast |-> 1 + i + i, slow |-> 1 + i]  BY <2>1, <3>1
    <3>3. (1 + i + i) + 1 <= n  BY <1>1, <2>3
    <3>4. W[i + 1] = [fast |-> (1 + i + i) + 2, slow |-> (1 + i) + 1]  BY <2>2, <3>2, <3>3
    <3>5. W[i + 1] = [fast |-> 1 + R(i + 1) + R(i + 1), slow |-> 1 + R(i + 1)]
      <4>1. (1 + i + i) + 2 = 1 + (i + 1) + (i + 1) /\ (1 + i) + 1 = 1 + (i + 1)  OBVIOUS
      <4> QED BY <3>1, <3>4, <4>1
    <3> HIDE DEF R
    <3> QED BY <3>5
  <2>4. CASE ~(i < q)
    <3>1. R(i) = q /\ R(i + 1) = q  BY <2>4, <1>1
    <3>2. W[i] = [fast |-> 1 + q + q, slow |-> 1 + q]  BY <2>1, <3>1
    <3>3. ~((1 + q + q) + 1 <= n)  BY <1>1
    <3>4. W[i + 1] = W[i]  BY <2>2, <3>2, <3>3
    <3>5. W[i + 1] = [fast |-> 1 + R(i + 1) + R(i + 1), slow |-> 1 + R(i + 1)]  BY <3>1, <3>2, <3>4
    <3> HIDE DEF R
    <3> QED BY <3>5
  <2> QED BY <2>3, <2>4
<1>9. n \in T
  <2> HIDE DEF T
  <2>1. \A i \in Nat : i \in T /\ i < n => i + 1 \in T  BY <1>8
  <2>2. \A i \in 0 .. n : i \in T  BY <1>7, <2>1, Induction
  <2> QED BY <2>2
<1>10. W[n].slow = 1 + q  BY <1>9, <1>1
<1> QED BY <1>1, <1>2, <1>10 DEF q

LEMMA WithoutIs ==
    ASSUME NEW S, NEW s \in Seq(S), NEW i \in 1 .. Len(s)
    PROVE  Replaced(S, SL!Without(s, i), s, i - 1, <<>>, i)
<1> DEFINE m == i - 1
           a == SubSeq(s, 1, m)
<1>1. Len(s) \in Nat /\ <<>> \in Seq(S)  OBVIOUS
<1>2. m \in 0 .. Len(s) /\ i \in m .. Len(s)  BY <1>1
<1>3. SL!Without(s, i) = a \o SubSeq(s, i + 1, Len(s))  BY DEF SL!Without
<1>4. a \o <<>> = a
  <2>1. \A k \in 1 .. m : s[k] \in S  BY <1>1
  <2> HIDE DEF m
  <2>2. a \in Seq(S)  BY <1>2, <2>1, SubSeqProperties
  <2> HIDE DEF a
  <2> QED BY <2>2, ConcatEmptySeq
<1> HIDE DEF m
<1>5. Replaced(S, a \o <<>> \o SubSeq(s, i + 1, Len(s)), s, m, <<>>, i)  BY <1>1, <1>2, Spliced
<1> QED BY <1>3, <1>4, <1>5 DEF m

LEMMA WithIs ==
    ASSUME NEW S, NEW s \in Seq(S), NEW i \in 1 .. Len(s) + 1, NEW v \in S
    PROVE  Replaced(S, SL!With(s, i, v), s, i - 1, <<v>>, i - 1)
<1> DEFINE m == i - 1
           x == <<v>>
<1>1. Len(s) \in Nat /\ x \in Seq(S)  OBVIOUS
<1>2. m \in 0 .. Len(s) /\ m \in m .. Len(s) /\ m + 1 = i  BY <1>1
<1>3. SL!With(s, i, v) = SubSeq(s, 1, m) \o x \o SubSeq(s, m + 1, Len(s))  BY <1>2 DEF SL!With
<1> HIDE DEF m, x
<1>4. Replaced(S, SubSeq(s, 1, m) \o x \o SubSeq(s, m + 1, Len(s)), s, m, x, m)  BY <1>1, <1>2, Spliced
<1> QED BY <1>3, <1>4 DEF m, x

LEMMA Sizes ==
    ASSUME NEW S, NEW s \in Seq(S)
    PROVE  /\ \A i \in 1 .. Len(s) : SL!Without(s, i) \in Seq(S) /\ Len(SL!Without(s, i)) = Len(s) - 1
           /\ \A i \in 1 .. Len(s) + 1 : \A v \in S :
                SL!With(s, i, v) \in Seq(S) /\ Len(SL!With(s, i, v)) = Len(s) + 1
<1>1. Len(s) \in Nat  OBVIOUS
<1>2. ASSUME NEW i \in 1 .. Len(s)  PROVE SL!Without(s, i) \in Seq(S) /\ Len(SL!Without(s, i)) = Len(s) - 1
  <2>1. Replaced(S, SL!Without(s, i), s, i - 1, <<>>, i)  BY WithoutIs
  <2>2. SL!Without(s, i) \in Seq(S) /\ Len(SL!Without(s, i)) = (i - 1) + 0 + (Len(s) - i)
    BY <2>1 DEF Replaced
  <2> QED BY <1>1, <2>2
<1>3. ASSUME NEW i \in 1 .. Len(s) + 1, NEW v \in S
      PROVE  SL!With(s, i, v) \in Seq(S) /\ Len(SL!With(s, i, v)) = Len(s) + 1
  <2>1. Replaced(S, SL!With(s, i, v), s, i - 1, <<v>>, i - 1)  BY WithIs
  <2>2. SL!With(s, i, v) \in Seq(S) /\ Len(SL!With(s, i, v)) = (i - 1) + 1 + (Len(s) - (i - 1))
    <3>1. Len(<<v>>) = 1  OBVIOUS
    <3> QED BY <2>1, <3>1 DEF Replaced
  <2> QED BY <1>1, <2>2
<1> QED BY <1>2, <1>3

(* At the ends, With and Without are what the methods for the ends do. *)
LEMMA AtEnds ==
    ASSUME NEW S, NEW s \in Seq(S), NEW v \in S
    PROVE  /\ SL!With(s, 1, v) = <<v>> \o s /\ SL!With(s, Len(s) + 1, v) = Append(s, v)
           /\ s # <<>> => SL!Without(s, 1) = Tail(s)
<1>1. Len(s) \in Nat /\ <<v>> \in Seq(S)  OBVIOUS
<1>2. SubSeq(s, 1, Len(s)) = s /\ SubSeq(s, 1, 0) = <<>> /\ SubSeq(s, Len(s) + 1, Len(s)) = <<>>
  BY <1>1, SubSeqFull, SubSeqEmpty
<1>3. SL!With(s, 1, v) = <<v>> \o s
  <2>1. 1 - 1 = 0  OBVIOUS
  <2>2. SL!With(s, 1, v) = <<>> \o <<v>> \o s  BY <1>2, <2>1 DEF SL!With
  <2>3. <<>> \o <<v>> = <<v>>  BY <1>1, ConcatEmptySeq
  <2> QED BY <2>2, <2>3
<1>4. SL!With(s, Len(s) + 1, v) = Append(s, v)
  <2>1. (Len(s) + 1) - 1 = Len(s)  BY <1>1
  <2>2. SL!With(s, Len(s) + 1, v) = s \o <<v>> \o <<>>  BY <1>2, <2>1 DEF SL!With
  <2>3. s \o <<v>> \in Seq(S) /\ s \o <<v>> = Append(s, v)  BY <1>1, ConcatProperties, AppendIsConcat
  <2>4. (s \o <<v>>) \o <<>> = s \o <<v>>  BY <2>3, ConcatEmptySeq
  <2> QED BY <2>2, <2>3, <2>4
<1>5. ASSUME s # <<>>  PROVE SL!Without(s, 1) = Tail(s)
  <2>1. Tail(s) \in Seq(S) /\ Tail(s) = SubSeq(s, 2, Len(s))  BY <1>5, HeadTailProperties, TailIsSubSeq
  <2>2. 1 - 1 = 0 /\ 1 + 1 = 2  OBVIOUS
  <2>3. SL!Without(s, 1) = <<>> \o Tail(s)  BY <1>2, <2>1, <2>2 DEF SL!Without
  <2> QED BY <2>1, <2>3, ConcatEmptySeq
<1> QED BY <1>3, <1>4, <1>5

SinglyLinks == [type : {"SinglyLink"}, chain : Seq(Values), length : Nat, panicked : BOOLEAN]

(* A link whose chain and length are those of s. *)
HoldsChain(l, s) == l \in SinglyLinks /\ ~l.panicked /\ l.chain = s /\ l.length = Len(s)

LEMMA SinglyInserts ==
    ASSUME NEW l, NEW s \in Seq(Values), HoldsChain(l, s), NEW v \in Values
    PROVE  /\ HoldsChain(SL!InsertAtHead(l, v), <<v>> \o s) /\ HoldsChain(SL!InsertAtTail(l, v), Append(s, v))
           /\ <<v>> \o s \in Seq(Values) /\ Append(s, v) \in Seq(Values)
           /\ \A i \in Int : LET w == IF i \in 0 .. Len(s) THEN SL!With(s, i + 1, v) ELSE s
                             IN  HoldsChain(SL!InsertAt(l, i, v), w) /\ w \in Seq(Values)
<1>1. /\ l \in SinglyLinks /\ l.panicked = FALSE /\ l.chain = s /\ l.length = Len(s) /\ Len(s) \in Nat
  BY DEF HoldsChain, SinglyLinks
<1>2. /\ <<v>> \o s \in Seq(Values) /\ Len(<<v>> \o s) = Len(s) + 1
      /\ Append(s, v) \in Seq(Values) /\ Len(Append(s, v)) = Len(s) + 1
  <2>1. <<v>> \in Seq(Values) /\ Len(<<v>>) = 1  OBVIOUS
  <2>2. <<v>> \o s \in Seq(Values) /\ Len(<<v>> \o s) = Len(<<v>>) + Len(s)  BY <2>1, ConcatProperties
  <2>3. Append(s, v) \in Seq(Values) /\ Len(Append(s, v)) = Len(s) + 1  BY AppendProperties
  <2> QED BY <2>1, <2>2, <2>3, <1>1
<1>3. \A c \in Seq(Values) : Len(c) = Len(s) + 1 => HoldsChain([l EXCEPT !.chain = c, !.length = @ + 1], c)
  <2> SUFFICES ASSUME NEW c \in Seq(Values), Len(c) = Len(s) + 1
               PROVE  HoldsChain([l EXCEPT !.chain = c, !.length = @ + 1], c)
    OBVIOUS
  <2>1. Len(s) + 1 \in Nat  BY <1>1
  <2> QED BY <1>1, <2>1 DEF HoldsChain, SinglyLinks
<1>4. HoldsChain(SL!InsertAtHead(l, v), <<v>> \o s)
  <2> DEFINE c == <<v>> \o s
  <2>1. SL!InsertAtHead(l, v) = [l EXCEPT !.chain = c, !.length = @ + 1]
    BY <1>1 DEF SL!InsertAtHead, SinglyLinks
  <2>2. c \in Seq(Values) /\ Len(c) = Len(s) + 1  BY <1>2
  <2> HIDE DEF c
  <2>3. HoldsChain([l EXCEPT !.chain = c, !.length = @ + 1], c)  BY <2>2, <1>3
  <2> QED BY <2>1, <2>3 DEF c
<1>5. HoldsChain(SL!InsertAtTail(l, v), Append(s, v))
  <2>1. CASE s = <<>>
    <3>1. <<v>> \o s = Append(s, v)
      <4>1. <<v>> \in Seq(Values) /\ <<v>> \o <<>> = <<v>>  BY ConcatEmptySeq
      <4>2. Append(<<>>, v) = <<v>>  OBVIOUS
      <4> QED BY <2>1, <4>1, <4>2
    <3>2. SL!InsertAtTail(l, v) = SL!InsertAtHead(l, v)  BY <1>1, <2>1 DEF SL!InsertAtTail
    <3> QED BY <3>1, <3>2, <1>4
  <2>2. CASE s # <<>>
    <3> DEFINE c == Append(s, v)
    <3>1. SL!InsertAtTail(l, v) = [l EXCEPT !.chain = c, !.length = @ + 1]
      BY <1>1, <2>2 DEF SL!InsertAtTail, SinglyLinks
    <3>2. c \in Seq(Values) /\ Len(c) = Len(s) + 1  BY <1>2
    <3> HIDE DEF c
    <3>3. HoldsChain([l EXCEPT !.chain = c, !.length = @ + 1], c)  BY <3>2, <1>3
    <3> QED BY <3>1, <3>3 DEF c
  <2> QED BY <2>1, <2>2
<1>6. ASSUME NEW i \in Int
      PROVE  LET w == IF i \in 0 .. Len(s) THEN SL!With(s, i + 1, v) ELSE s
             IN  HoldsChain(SL!InsertAt(l, i, v), w) /\ w \in Seq(Values)
  <2>1. CASE i < 0 \/ i > Len(s)
    <3>1. SL!InsertAt(l, i, v) = l /\ ~(i \in 0 .. Len(s))  BY <2>1, <1>1 DEF SL!InsertAt
    <3> QED BY <3>1
  <2>2. CASE i = 0
    <3>1. SL!InsertAt(l, i, v) = SL!InsertAtHead(l, v) /\ i \in 0 .. Len(s) /\ i + 1 = 1
      BY <2>2, <1>1 DEF SL!InsertAt
    <3>2. SL!With(s, 1, v) = <<v>> \o s  BY AtEnds
    <3> QED BY <3>1, <3>2, <1>2, <1>4
  <2>3. CASE i = Len(s) /\ i # 0
    <3>1. SL!InsertAt(l, i, v) = SL!InsertAtTail(l, v) /\ i \in 0 .. Len(s)
      BY <2>3, <1>1 DEF SL!InsertAt
    <3>2. SL!With(s, i + 1, v) = Append(s, v)  BY <2>3, AtEnds
    <3> QED BY <3>1, <3>2, <1>2, <1>5
  <2>4. CASE ~(i < 0 \/ i > Len(s)) /\ i # 0 /\ i # Len(s)
    <3> DEFINE c == SL!With(s, i + 1, v)
    <3>1. i \in 0 .. Len(s) /\ i + 1 \in 1 .. Len(s) + 1  BY <2>4, <1>1
    <3>2. SL!InsertAt(l, i, v) = [l EXCEPT !.chain = c, !.length = @ + 1]
      BY <1>1, <2>4 DEF SL!InsertAt, SinglyLinks
    <3>3. c \in Seq(Values) /\ Len(c) = Len(s) + 1  BY ZenonT(40), <3>1, Sizes
    <3> HIDE DEF c
    <3>4. HoldsChain([l EXCEPT !.chain = c, !.length = @ + 1], c)  BY <3>3, <1>3
    <3> QED BY <3>1, <3>2, <3>3, <3>4 DEF c
  <2> QED BY <2>1, <2>2, <2>3, <2>4
<1> QED BY <1>2, <1>4, <1>5, <1>6

(* A panic leaves the link empty, when it had one node or none to lose. *)
Emptied(l) == l \in SinglyLinks /\ l.panicked /\ l.chain = <<>>

LEMMA SinglyDeletesEnds ==
    ASSUME NEW l, NEW s \in Seq(Values), HoldsChain(l, s)
    PROVE  /\ s = <<>> => HoldsChain(SL!DeleteAtHead(l), s) /\ HoldsChain(SL!DeleteAtTail(l), s)
           /\ s # <<>> => HoldsChain(SL!DeleteAtHead(l), Tail(s))
           /\ Len(s) = 1 => Emptied(SL!DeleteAtTail(l))
           /\ s # <<>> /\ Len(s) # 1 => HoldsChain(SL!DeleteAtTail(l), SL!Without(s, Len(s)))
<1>1. /\ l \in SinglyLinks /\ l.panicked = FALSE /\ l.chain = s /\ l.length = Len(s) /\ Len(s) \in Nat
  BY DEF HoldsChain, SinglyLinks
<1>2. \A c \in Seq(Values) : Len(c) = Len(s) - 1 => HoldsChain([l EXCEPT !.chain = c, !.length = @ - 1], c)
  <2> SUFFICES ASSUME NEW c \in Seq(Values), Len(c) = Len(s) - 1
               PROVE  HoldsChain([l EXCEPT !.chain = c, !.length = @ - 1], c)
    OBVIOUS
  <2>1. Len(s) - 1 \in Nat
    <3>1. Len(c) \in Nat  OBVIOUS
    <3> QED BY <3>1
  <2> QED BY <1>1, <2>1 DEF HoldsChain, SinglyLinks
<1>3. CASE s = <<>>
  <2>1. Len(s) = 0 /\ l.chain = <<>>  BY <1>1, <1>3
  <2>2. SL!DeleteAtHead(l) = l /\ SL!DeleteAtTail(l) = l  BY <2>1 DEF SL!DeleteAtHead, SL!DeleteAtTail
  <2> QED BY <1>3, <2>1, <2>2
<1>4. CASE s # <<>>
  <2> DEFINE c == Tail(s)
             d == SL!DeleteAtHead(l)
  <2>1. c \in Seq(Values) /\ Len(c) = Len(s) - 1 /\ Len(s) > 0
    <3>1. Len(s) # 0  BY <1>4, EmptySeq
    <3> QED BY <1>1, <1>4, <3>1, HeadTailProperties
  <2>2. d = [l EXCEPT !.chain = c, !.length = @ - 1]  BY <1>1, <1>4 DEF SL!DeleteAtHead, SinglyLinks
  <2>3. HoldsChain(d, c)
    <3> HIDE DEF c, d
    <3>1. HoldsChain([l EXCEPT !.chain = c, !.length = @ - 1], c)  BY <2>1, <1>2
    <3> QED BY <2>2, <3>1
  <2>4. ASSUME Len(s) = 1  PROVE Emptied(SL!DeleteAtTail(l))
    <3>1. SL!DeleteAtTail(l) = [d EXCEPT !.panicked = TRUE]  BY <1>1, <1>4, <2>4 DEF SL!DeleteAtTail
    <3>2. c = <<>>
      <4>1. Len(c) = 0  BY <2>1, <2>4
      <4> HIDE DEF c
      <4> QED BY <2>1, <4>1, EmptySeq
    <3> HIDE DEF c, d
    <3> QED BY <2>3, <3>1, <3>2 DEF Emptied, HoldsChain, SinglyLinks
  <2>5. ASSUME Len(s) # 1  PROVE HoldsChain(SL!DeleteAtTail(l), SL!Without(s, Len(s)))
    <3> DEFINE w == SL!Without(s, Len(s))
    <3>1. SL!DeleteAtTail(l) = [l EXCEPT !.chain = w, !.length = @ - 1]
      BY <1>1, <1>4, <2>5 DEF SL!DeleteAtTail, SinglyLinks
    <3>2. w \in Seq(Values) /\ Len(w) = Len(s) - 1
      <4>1. Len(s) \in 1 .. Len(s)  BY <1>1, <2>1
      <4> QED BY <4>1, Sizes
    <3> HIDE DEF w
    <3>3. HoldsChain([l EXCEPT !.chain = w, !.length = @ - 1], w)  BY <3>2, <1>2
    <3> QED BY <3>1, <3>3 DEF w
  <2> HIDE DEF c, d
  <2> QED BY <1>4, <2>3, <2>4, <2>5 DEF c, d
<1> QED BY <1>3, <1>4

(* What remains of s when position i is deleted, and what a deletion may   *)
(* leave.                                                                  *)
Shorter(s, i) == IF i + 1 \in DOMAIN s THEN SL!Without(s, i + 1) ELSE IF Len(s) = 1 THEN <<>> ELSE s
Outcome(d, w) == w \in Seq(Values) /\ (HoldsChain(d, w) \/ (Emptied(d) /\ Len(w) <= 1))

LEMMA SinglyDeletes ==
    ASSUME NEW l, NEW s \in Seq(Values), HoldsChain(l, s), NEW i \in Int
    PROVE  Outcome(SL!DeleteAt(l, i), Shorter(s, i))
<1> DEFINE w == Shorter(s, i)
           n == Len(s)
           d == SL!DeleteAt(l, i)
           h == IF Len(l.chain) = 1 \/ i = 0 THEN SL!DeleteAtHead(l) ELSE l
           t == IF i = h.length - 1 THEN SL!DeleteAtTail(h) ELSE h
<1>1. l \in SinglyLinks /\ l.panicked = FALSE /\ l.chain = s /\ l.length = n
  BY DEF HoldsChain, SinglyLinks
<1>2. n \in Nat /\ DOMAIN s = 1 .. n /\ (s = <<>> <=> n = 0)
  <2>1. n \in Nat /\ DOMAIN s = 1 .. n  OBVIOUS
  <2> QED BY <2>1, EmptySeq
<1>3. d = IF s = <<>> THEN l
          ELSE IF t.panicked \/ i < 1 \/ i > t.length - 1 THEN t
          ELSE [t EXCEPT !.chain = SL!Without(@, i + 1), !.length = @ - 1]
  BY <1>1 DEF SL!DeleteAt
<1>4. w = IF i + 1 \in DOMAIN s THEN SL!Without(s, i + 1) ELSE IF n = 1 THEN <<>> ELSE s
  BY DEF Shorter
<1> HIDE DEF d, w
<1>5. \A v \in Seq(Values) : HoldsChain(d, v) /\ w = v => Outcome(d, w)  BY DEF Outcome
<1>6. s # <<>> => Tail(s) \in Seq(Values) /\ Len(Tail(s)) = n - 1 /\ SL!Without(s, 1) = Tail(s)
  <2>1. ASSUME s # <<>>  PROVE Tail(s) \in Seq(Values) /\ Len(Tail(s)) = n - 1
    BY <2>1, HeadTailProperties
  <2>2. ASSUME s # <<>>  PROVE SL!Without(s, 1) = Tail(s)
    <3>1. 1 \in 1 .. Len(s)  BY <1>2, <2>2
    <3>2. s[1] \in Values  BY <3>1, ElementOfSeq
    <3> QED BY <2>2, <3>2, AtEnds
  <2> QED BY <2>1, <2>2
<1>7. SUFFICES Outcome(d, w)  BY DEF d, w
<1> HIDE DEF n
<1>8. CASE n = 0
  <2>1. s = <<>> /\ d = l  BY <1>2, <1>3, <1>8
  <2>2. w = s
    <3>1. ~(i + 1 \in DOMAIN s)  BY <1>2, <1>8
    <3> QED BY <1>4, <1>8, <3>1
  <2> QED BY <2>1, <2>2, <1>5
<1>9. CASE n = 1
  <2>0. s # <<>>  BY <1>2, <1>9
  <2>1. h = SL!DeleteAtHead(l)  BY <1>1, <1>9 DEF n
  <2>2. Tail(s) = <<>>
    <3>1. Tail(s) \in Seq(Values) /\ Len(Tail(s)) = 0  BY <1>6, <1>9, <2>0
    <3> QED BY <3>1, EmptySeq
  <2>3. w = <<>>
    <3>1. i + 1 \in DOMAIN s => i + 1 = 1  BY <1>2, <1>9
    <3> QED BY <1>4, <1>6, <1>9, <2>0, <2>2, <3>1
  <2>4. HoldsChain(h, <<>>)  BY <2>0, <2>1, <2>2, SinglyDeletesEnds
  <2> HIDE DEF h
  <2>5. HoldsChain(t, <<>>)
    <3>1. CASE i = h.length - 1
      <4>1. <<>> \in Seq(Values)  OBVIOUS
      <4>2. HoldsChain(SL!DeleteAtTail(h), <<>>)  BY <2>4, <4>1, SinglyDeletesEnds
      <4> QED BY <3>1, <4>2
    <3>2. CASE i # h.length - 1  BY <2>4, <3>2
    <3> QED BY <3>1, <3>2
  <2> HIDE DEF t
  <2>6. t.length = 0 /\ ~t.panicked  BY <2>5 DEF HoldsChain
  <2>7. d = t
    <3>1. i < 1 \/ i > t.length - 1  BY <2>6
    <3> QED BY <1>3, <2>0, <3>1
  <2>8. <<>> \in Seq(Values)  OBVIOUS
  <2>9. HoldsChain(d, <<>>)  BY <2>5, <2>7
  <2> QED BY <2>3, <2>8, <2>9, <1>5
<1>10. CASE n > 1 /\ i = 0
  <2>0. s # <<>> /\ i + 1 \in DOMAIN s /\ i + 1 = 1  BY <1>2, <1>10
  <2>1. h = SL!DeleteAtHead(l)  BY <1>10
  <2>2. w = Tail(s)  BY <1>4, <1>6, <2>0
  <2>3. HoldsChain(h, Tail(s))  BY <2>0, <2>1, SinglyDeletesEnds
  <2> HIDE DEF h
  <2>4. h.length = n - 1 /\ ~h.panicked  BY <1>6, <2>0, <2>3 DEF HoldsChain
  <2>5. CASE n = 2
    <3>1. t = SL!DeleteAtTail(h)
      <4>1. i = h.length - 1  BY <1>10, <2>4, <2>5
      <4> QED BY <4>1
    <3>2. Tail(s) \in Seq(Values) /\ Len(Tail(s)) = 1  BY <1>6, <2>0, <2>5
    <3>3. Emptied(t)  BY <2>3, <3>1, <3>2, SinglyDeletesEnds
    <3> HIDE DEF t
    <3>4. t.panicked  BY <3>3 DEF Emptied
    <3>5. d = t  BY <1>3, <2>0, <3>4
    <3> QED BY <2>2, <3>2, <3>3, <3>5 DEF Outcome
  <2>6. CASE n # 2
    <3>1. t = h
      <4>1. i # h.length - 1  BY <1>2, <1>10, <2>4, <2>6
      <4> QED BY <4>1
    <3> HIDE DEF t
    <3>2. d = t
      <4>1. i < 1  BY <1>10
      <4> QED BY <1>3, <2>0, <4>1
    <3> QED BY <1>5, <1>6, <2>0, <2>2, <2>3, <3>1, <3>2
  <2> QED BY <2>5, <2>6
<1>11. CASE n > 1 /\ i # 0
  <2>0. s # <<>> /\ h = l  BY <1>1, <1>2, <1>11 DEF n
  <2> HIDE DEF h
  <2>1. CASE i = n - 1
    <3>1. t = SL!DeleteAtTail(l)  BY <1>1, <2>0, <2>1
    <3>2. i + 1 = n /\ n \in 1 .. n /\ n # 1  BY <1>2, <1>11, <2>1
    <3>3. w = SL!Without(s, n)  BY <1>2, <1>4, <3>2
    <3>4. w \in Seq(Values) /\ Len(w) = n - 1  BY <3>2, <3>3, Sizes DEF n
    <3>5. HoldsChain(t, w)  BY <2>0, <3>1, <3>2, <3>3, SinglyDeletesEnds DEF n
    <3> HIDE DEF t
    <3>6. t.length = n - 1  BY <3>4, <3>5 DEF HoldsChain
    <3>7. d = t
      <4>1. i > t.length - 1  BY <1>2, <2>1, <3>6
      <4> QED BY <1>3, <2>0, <4>1
    <3> QED BY <1>5, <3>4, <3>5, <3>7
  <2>2. CASE i < 1 \/ i > n - 1
    <3>1. t = l
      <4>1. i # n - 1  BY <1>2, <1>11, <2>2
      <4> QED BY <1>1, <2>0, <4>1
    <3> HIDE DEF t
    <3>2. d = l
      <4>1. i < 1 \/ i > t.length - 1  BY <1>1, <2>2, <3>1
      <4> QED BY <1>3, <2>0, <3>1, <4>1
    <3>3. w = s
      <4>1. ~(i + 1 \in DOMAIN s) /\ n # 1  BY <1>2, <1>11, <2>2
      <4> QED BY <1>4, <4>1
    <3> QED BY <1>5, <3>2, <3>3
  <2>3. CASE i >= 1 /\ i < n - 1
    <3>1. t = l
      <4>1. i # n - 1  BY <1>2, <2>3
      <4> QED BY <1>1, <2>0, <4>1
    <3> HIDE DEF t
    <3> DEFINE c == SL!Without(s, i + 1)
    <3>2. d = [l EXCEPT !.chain = c, !.length = @ - 1]
      <4>1. ~(t.panicked \/ i < 1 \/ i > t.length - 1)  BY <1>1, <1>2, <2>3, <3>1
      <4>2. d = [l EXCEPT !.chain = SL!Without(@, i + 1), !.length = @ - 1]  BY <1>3, <2>0, <3>1, <4>1
      <4> QED BY <1>1, <4>2 DEF SinglyLinks
    <3>3. i + 1 \in 1 .. n  BY <1>2, <2>3
    <3>4. c \in Seq(Values) /\ Len(c) = n - 1  BY <3>3, Sizes DEF n
    <3>5. w = c  BY <1>2, <1>4, <3>3
    <3> HIDE DEF c
    <3>6. n - 1 \in Nat  BY <1>2, <1>11
    <3>7. HoldsChain(d, c)  BY <1>1, <3>2, <3>4, <3>6 DEF HoldsChain, SinglyLinks
    <3> QED BY <1>5, <3>4, <3>5, <3>7
  <2>4. i = n - 1 \/ i < 1 \/ i > n - 1 \/ (i >= 1 /\ i < n - 1)  BY <1>2
  <2> QED BY <2>1, <2>2, <2>3, <2>4
<1>12. n = 0 \/ n = 1 \/ (n > 1 /\ i = 0) \/ (n > 1 /\ i # 0)  BY <1>2
<1> QED BY <1>8, <1>9, <1>10, <1>11, <1>12



(* The loop that keeps some of the items is the same in each module. *)
LEMMA SinglyKept ==
    ASSUME NEW s, NEW keep
    PROVE  SL!Kept(s, keep) = Kept(s, keep)
BY DEF SL!Kept, SL!Each, SL!For, Kept, Each, For

LEMMA SinglyKeeps ==
    ASSUME NEW l, NEW s \in Seq(Values), HoldsChain(l, s), NEW v \in Values
    PROVE  /\ SL!Kept(s, Values \ {v}) \in Seq(Values)
           /\ HoldsChain(SL!DeleteValue(l, v), SL!Kept(s, Values \ {v}))
<1> DEFINE c == SL!Kept(s, Values \ {v})
<1>1. l \in SinglyLinks /\ l.panicked = FALSE /\ l.chain = s /\ l.length = Len(s)  BY DEF HoldsChain, SinglyLinks
<1>2. c \in Seq(Values)
  <2> DEFINE keep == Values \ {v}
  <2>1. Kept(s, keep) \in Seq(Values)
    <3> HIDE DEF keep
    <3> QED BY KeptIs
  <2> QED BY <2>1, SinglyKept
<1>3. Len(s) \in Nat /\ Len(c) \in Nat
  <2> HIDE DEF c
  <2> QED BY <1>2
<1>4. SL!DeleteValue(l, v) = [l EXCEPT !.chain = c, !.length = @ - (Len(s) - Len(c))]
  BY <1>1 DEF SL!DeleteValue
<1> HIDE DEF c
<1>5. Len(s) - (Len(s) - Len(c)) = Len(c)  BY <1>3
<1>6. SL!DeleteValue(l, v) = [type |-> "SinglyLink", chain |-> c, length |-> Len(c), panicked |-> FALSE]
  BY <1>1, <1>4, <1>5 DEF SinglyLinks
<1>7. HoldsChain(SL!DeleteValue(l, v), c)  BY <1>2, <1>3, <1>6 DEF HoldsChain, SinglyLinks
<1> QED BY <1>2, <1>7 DEF c

LEMMA SinglyTurns ==
    ASSUME NEW l, NEW s \in Seq(Values), HoldsChain(l, s)
    PROVE  LET r == [i \in DOMAIN s |-> s[Len(s) + 1 - i]]
           IN  /\ r \in Seq(Values) /\ HoldsChain(SL!Reverse(l), r)
               /\ HoldsChain(SL!Clear(l), <<>>)
<1> DEFINE r == [i \in DOMAIN s |-> s[Len(s) + 1 - i]]
<1>1. l \in SinglyLinks /\ l.panicked = FALSE /\ l.chain = s /\ l.length = Len(s)  BY DEF HoldsChain, SinglyLinks
<1>2. Len(s) \in Nat /\ DOMAIN s = 1 .. Len(s)  OBVIOUS
<1>3. r \in Seq(Values) /\ Len(r) = Len(s)
  <2>1. \A i \in 1 .. Len(s) : s[Len(s) + 1 - i] \in Values
    <3> TAKE i \in 1 .. Len(s)
    <3>1. Len(s) + 1 - i \in 1 .. Len(s)  BY <1>2
    <3> QED BY <3>1, ElementOfSeq
  <2>2. r \in [1 .. Len(s) -> Values]  BY <1>2, <2>1
  <2> HIDE DEF r
  <2>3. r \in Seq(Values)  BY <1>2, <2>2, SeqDef
  <2> QED BY <1>2, <2>2, <2>3, LenProperties
<1>4. SL!Reverse(l) = [l EXCEPT !.chain = r]  BY <1>1 DEF SL!Reverse, SinglyLinks
<1>5. HoldsChain(SL!Reverse(l), r)
  <2> HIDE DEF r
  <2> QED BY <1>1, <1>3, <1>4 DEF HoldsChain, SinglyLinks
<1>6. HoldsChain(SL!Clear(l), <<>>)
  <2>1. <<>> \in Seq(Values) /\ Len(<<>>) = 0  OBVIOUS
  <2> QED BY <1>1, <2>1 DEF SL!Clear, HoldsChain, SinglyLinks
<1> QED BY <1>3, <1>5, <1>6

LEMMA SinglyStarts ==
    ASSUME SL!Init
    PROVE  SL!Inv
<1>1. <<>> \in Seq(Values) /\ Len(<<>>) = 0  OBVIOUS
<1> QED BY <1>1 DEF SL!Init, SL!Inv

(* Whichever operation is done, it leaves an outcome of what was asked for. *)
LEMMA SinglySteps ==
    ASSUME SL!Inv, [SL!Next]_(SL!vars)
    PROVE  SL!Inv'
<1>1. ASSUME NEW l, NEW s, Outcome(l, s), SL!Change(l, s)  PROVE SL!Inv'
  <2>1. obj' = l /\ want' = s  BY <1>1 DEF SL!Change
  <2>2. l \in SinglyLinks /\ s \in Seq(Values)  BY <1>1 DEF Outcome, HoldsChain, Emptied
  <2>3. ~l.panicked => l.chain = s /\ l.length = Len(s)  BY <1>1 DEF Outcome, HoldsChain, Emptied
  <2>4. l.panicked => l.chain = <<>> /\ Len(s) <= 1  BY <1>1 DEF Outcome, HoldsChain, Emptied
  <2> QED BY <2>1, <2>2, <2>3, <2>4 DEF SL!Inv, SinglyLinks
<1>2. ASSUME NEW l, NEW s, s \in Seq(Values), HoldsChain(l, s), SL!Change(l, s)  PROVE SL!Inv'
  BY <1>1, <1>2 DEF Outcome
<1>3. ASSUME SL!Live  PROVE HoldsChain(obj, want) /\ want \in Seq(Values) /\ Len(want) \in Nat
  BY <1>3 DEF SL!Live, SL!Inv, HoldsChain, SinglyLinks
<1>4. ASSUME NEW l, NEW s, SL!Change(l, s)  PROVE HoldsChain(obj, want) /\ want \in Seq(Values) /\ Len(want) \in Nat
  BY <1>3, <1>4 DEF SL!Change
<1>5. CASE SL!Insert
  <2>1. PICK v \in Values, i \in SL!Indexes :
          SL!Change(SL!InsertAt(obj, i, v), IF i \in 0 .. Len(want) THEN SL!With(want, i + 1, v) ELSE want)
    BY <1>5 DEF SL!Insert
  <2>2. i \in Int  BY ContainersAssumption DEF SL!Indexes, ContainersAssumption
  <2> DEFINE w == IF i \in 0 .. Len(want) THEN SL!With(want, i + 1, v) ELSE want
  <2>3. w \in Seq(Values) /\ HoldsChain(SL!InsertAt(obj, i, v), w)  BY <1>4, <2>1, <2>2, SinglyInserts
  <2>4. SL!Change(SL!InsertAt(obj, i, v), w)  BY <2>1
  <2> HIDE DEF w
  <2> QED BY <1>2, <2>3, <2>4
<1>6. CASE SL!AddFirst
  <2>1. PICK v \in Values : SL!Change(SL!InsertAtHead(obj, v), <<v>> \o want)  BY <1>6 DEF SL!AddFirst
  <2>2. HoldsChain(SL!InsertAtHead(obj, v), <<v>> \o want) /\ <<v>> \o want \in Seq(Values)
    BY <1>4, <2>1, SinglyInserts
  <2> QED BY <1>2, <2>1, <2>2
<1>7. CASE SL!AddLast
  <2>1. PICK v \in Values : SL!Change(SL!InsertAtTail(obj, v), Append(want, v))  BY <1>7 DEF SL!AddLast
  <2>2. HoldsChain(SL!InsertAtTail(obj, v), Append(want, v)) /\ Append(want, v) \in Seq(Values)
    BY <1>4, <2>1, SinglyInserts
  <2> QED BY <1>2, <2>1, <2>2
<1>8. CASE SL!RemoveFirst
  <2>1. SL!Change(SL!DeleteAtHead(obj), IF want = <<>> THEN want ELSE Tail(want))  BY <1>8 DEF SL!RemoveFirst
  <2>2. HoldsChain(obj, want) /\ want \in Seq(Values)  BY <1>4, <2>1
  <2>3. want # <<>> => Tail(want) \in Seq(Values)  BY <2>2, HeadTailProperties
  <2>4. CASE want = <<>>
    <3>1. HoldsChain(SL!DeleteAtHead(obj), want)  BY <2>2, <2>4, SinglyDeletesEnds
    <3> QED BY <1>2, <2>1, <2>2, <2>4, <3>1
  <2>5. CASE want # <<>>
    <3>1. HoldsChain(SL!DeleteAtHead(obj), Tail(want))  BY <2>2, <2>5, SinglyDeletesEnds
    <3> QED BY <1>2, <2>1, <2>3, <2>5, <3>1
  <2> QED BY <2>4, <2>5
<1>9. CASE SL!RemoveLast
  <2> DEFINE d == SL!DeleteAtTail(obj)
  <2>1. SL!Change(d, IF want = <<>> THEN want ELSE SL!Without(want, Len(want)))  BY <1>9 DEF SL!RemoveLast
  <2>2. HoldsChain(obj, want) /\ want \in Seq(Values) /\ Len(want) \in Nat  BY <1>4, <2>1
  <2>3. /\ want = <<>> => HoldsChain(d, want)
        /\ Len(want) = 1 => Emptied(d)
        /\ want # <<>> /\ Len(want) # 1 => HoldsChain(d, SL!Without(want, Len(want)))
    BY <2>2, SinglyDeletesEnds
  <2>4. want # <<>> => /\ SL!Without(want, Len(want)) \in Seq(Values)
                       /\ Len(SL!Without(want, Len(want))) = Len(want) - 1
    <3>1. want # <<>> => Len(want) \in 1 .. Len(want)  BY <2>2, EmptySeq
    <3> QED BY <2>2, <3>1, Sizes
  <2> HIDE DEF d
  <2>5. CASE want = <<>>  BY <1>2, <2>1, <2>2, <2>3, <2>5
  <2>6. CASE want # <<>> /\ Len(want) = 1
    <3> DEFINE w == SL!Without(want, Len(want))
    <3>1. w \in Seq(Values) /\ Len(w) <= 1 /\ Emptied(d) /\ SL!Change(d, w)
      BY <2>1, <2>3, <2>4, <2>6
    <3> HIDE DEF w
    <3>2. Outcome(d, w)  BY <3>1 DEF Outcome
    <3> QED BY <1>1, <3>1, <3>2
  <2>7. CASE want # <<>> /\ Len(want) # 1  BY <1>2, <2>1, <2>3, <2>4, <2>7
  <2> QED BY <2>5, <2>6, <2>7
<1>10. CASE SL!Remove
  <2>1. PICK i \in SL!Indexes : SL!Change(SL!DeleteAt(obj, i), Shorter(want, i))
    BY <1>10 DEF SL!Remove, Shorter
  <2>2. i \in Int  BY ContainersAssumption DEF SL!Indexes, ContainersAssumption
  <2>3. Outcome(SL!DeleteAt(obj, i), Shorter(want, i))  BY <1>4, <2>1, <2>2, SinglyDeletes
  <2> QED BY <1>1, <2>1, <2>3
<1>11. CASE SL!RemoveValue
  <2>1. PICK v \in Values : SL!Change(SL!DeleteValue(obj, v), SL!Kept(want, Values \ {v}))
    BY <1>11 DEF SL!RemoveValue
  <2>2. HoldsChain(obj, want) /\ want \in Seq(Values)  BY <1>4, <2>1
  <2>3. /\ SL!Kept(want, Values \ {v}) \in Seq(Values)
        /\ HoldsChain(SL!DeleteValue(obj, v), SL!Kept(want, Values \ {v}))
    BY <2>2, SinglyKeeps
  <2> QED BY <1>2, <2>1, <2>3
<1>12. CASE SL!Turn
  <2> DEFINE r == [i \in DOMAIN want |-> want[Len(want) + 1 - i]]
  <2>1. SL!Change(SL!Reverse(obj), r)  BY <1>12 DEF SL!Turn
  <2>2. HoldsChain(obj, want) /\ want \in Seq(Values)  BY <1>4, <2>1
  <2>3. r \in Seq(Values) /\ HoldsChain(SL!Reverse(obj), r)  BY <2>2, SinglyTurns
  <2> HIDE DEF r
  <2> QED BY <1>2, <2>1, <2>3
<1>13. CASE SL!Empty
  <2>1. SL!Change(SL!Clear(obj), <<>>)  BY <1>13 DEF SL!Empty
  <2>2. HoldsChain(SL!Clear(obj), <<>>)  BY <1>4, <2>1, SinglyTurns
  <2>3. <<>> \in Seq(Values)  OBVIOUS
  <2> QED BY <1>2, <2>1, <2>2, <2>3
<1>14. CASE UNCHANGED SL!vars
  <2>1. obj' = obj /\ want' = want  BY <1>14 DEF SL!vars
  <2> QED BY <2>1 DEF SL!Inv
<1> QED BY <1>5, <1>6, <1>7, <1>8, <1>9, <1>10, <1>11, <1>12, <1>13, <1>14 DEF SL!Next

(* What every step of the singly linked list keeps holds in all its runs.  *)
THEOREM SinglyHeld == SL!Spec => []SL!Inv
<1>1. SL!Init => SL!Inv  BY SinglyStarts
<1>2. SL!Inv /\ [SL!Next]_(SL!vars) => SL!Inv'  BY SinglySteps
<1> QED BY <1>1, <1>2, PTL DEF SL!Spec

(* Whatever the values and the bound: SinglyLink (singlylink.go) is the    *)
(* list its insertions, deletions and reversals ask for, of the length it  *)
(* counts, except after the panics of deleting its last node.              *)
THEOREM SinglyIsList == SL!Spec => []SL!OneAtATime
<1>1. SL!Inv => SL!OneAtATime
  <2> SUFFICES ASSUME SL!Inv PROVE SL!OneAtATime  OBVIOUS
  <2>1. ASSUME want # <<>>  PROVE SL!Middle(Len(want)) = Len(want) \div 2 + 1
    <3>1. Len(want) \in Nat /\ Len(want) > 0  BY <2>1, EmptySeq DEF SL!Inv
    <3> QED BY <3>1, SinglyMiddle
  <2> QED BY <2>1 DEF SL!Inv, SL!OneAtATime
<1> QED BY <1>1, SinglyHeld, PTL

-----------------------------------------------------------------------------
(* List: the first len slots of its array are the sequence it should be    *)

ListSlots == Values \cup {0}
Lists == [type : {"List"}, arr : Seq(ListSlots), len : Nat]

HoldsList(l, s) ==
  /\ l \in Lists /\ s \in Seq(Values)
  /\ l.len = Len(s) /\ Len(s) <= Len(l.arr)
  /\ \A i \in 1 .. Len(s) : l.arr[i] = s[i]

LEMMA HoldsIs ==
    ASSUME NEW l \in Lists, NEW s \in Seq(Values), l.len <= Len(l.arr)
    PROVE  HoldsList(l, s) <=> LI!Data(l) = s
<1> DEFINE d == LI!Data(l)
           n == l.len
           a == l.arr
<1>1. n \in Nat /\ a \in Seq(ListSlots)  BY DEF Lists
<1>2. Len(a) \in Nat /\ Len(s) \in Nat  BY <1>1
<1>3. \A i \in 1 .. n : a[i] \in ListSlots
  <2> TAKE i \in 1 .. n
  <2>1. i \in 1 .. Len(a)  BY <1>1, <1>2
  <2> HIDE DEF a
  <2> QED BY <1>1, <2>1, ElementOfSeq
<1>4. d \in Seq(ListSlots) /\ Len(d) = n /\ \A i \in 1 .. n : d[i] = a[i]
  <2>1. d = SubSeq(a, 1, n)  BY DEF LI!Data
  <2> HIDE DEF a, n, d
  <2>2. /\ d \in Seq(ListSlots) /\ Len(d) = IF 1 <= n THEN n - 1 + 1 ELSE 0
        /\ \A i \in 1 .. n - 1 + 1 : d[i] = a[1 + i - 1]
    BY <1>1, <1>3, <2>1, SubSeqProperties
  <2>3. n - 1 + 1 = n /\ \A i \in 1 .. n : 1 + i - 1 = i  BY <1>1
  <2> QED BY <1>1, <2>2, <2>3
<1>5. ASSUME HoldsList(l, s)  PROVE d = s
  <2>1. n = Len(s) /\ \A i \in 1 .. Len(s) : a[i] = s[i]  BY <1>5 DEF HoldsList
  <2>2. s \in Seq(ListSlots)
    <3>1. \A i \in 1 .. Len(s) : s[i] \in ListSlots  BY ElementOfSeq DEF ListSlots
    <3>2. s \in [1 .. Len(s) -> ListSlots]
      <4>1. s \in [1 .. Len(s) -> Values]  BY LenProperties
      <4> QED BY <3>1, <4>1
    <3> QED BY <1>2, <3>2, SeqDef
  <2> HIDE DEF d, a, n
  <2>3. Len(d) = Len(s) /\ \A i \in 1 .. Len(d) : d[i] = s[i]  BY <1>4, <2>1
  <2> QED BY <1>4, <2>2, <2>3, SeqEqual
<1>6. ASSUME d = s  PROVE HoldsList(l, s)
  <2>1. n = Len(s) /\ \A i \in 1 .. Len(s) : a[i] = s[i]  BY <1>4, <1>6
  <2> QED BY <2>1 DEF HoldsList
<1> QED BY <1>5, <1>6

LEMMA Appends ==
    ASSUME NEW l \in Lists, NEW at \in Nat, at <= Len(l.arr), NEW xs \in Seq(ListSlots)
    PROVE  LET r == LI!AppendAt(l, at, xs)
           IN  /\ r \in Lists /\ r.len = at + Len(xs) /\ r.len <= Len(r.arr)
               /\ \A i \in 1 .. at : r.arr[i] = l.arr[i]
               /\ \A i \in 1 .. Len(xs) : r.arr[at + i] = xs[i]
<1> DEFINE a == l.arr
           m == Len(a)
           k == Len(xs)
           n == at + k
           size == IF n > 2 * m THEN n ELSE 2 * m
           b == [i \in DOMAIN a |-> IF i \in at + 1 .. n THEN xs[i - at] ELSE a[i]]
           c == [i \in 1 .. size |-> IF i <= at THEN a[i] ELSE IF i <= n THEN xs[i - at] ELSE 0]
           r == LI!AppendAt(l, at, xs)
<1>1. a \in Seq(ListSlots) /\ m \in Nat /\ k \in Nat /\ DOMAIN a = 1 .. m  BY DEF Lists
<1>2. /\ \A i \in 1 .. m : a[i] \in ListSlots
      /\ \A i \in 1 .. k : xs[i] \in ListSlots
      /\ 0 \in ListSlots
  <2> HIDE DEF a
  <2>1. \A i \in 1 .. m : a[i] \in ListSlots  BY <1>1, ElementOfSeq
  <2>2. \A i \in 1 .. k : xs[i] \in ListSlots  BY ElementOfSeq
  <2> QED BY <2>1, <2>2 DEF ListSlots
<1>3. r = IF n <= m THEN [l EXCEPT !.len = n, !.arr = b] ELSE [l EXCEPT !.len = n, !.arr = c]
  BY DEF LI!AppendAt
<1>4. n \in Nat /\ at <= n /\ at <= m  BY <1>1
<1> HIDE DEF m, k, r
<1>5. CASE n <= m
  <2>1. b \in Seq(ListSlots) /\ Len(b) = m
    <3>1. \A i \in 1 .. m : b[i] \in ListSlots
      <4> TAKE i \in 1 .. m
      <4>1. i \in at + 1 .. n => i - at \in 1 .. k  BY <1>1
      <4> QED BY <1>1, <1>2, <4>1
    <3>2. b \in [1 .. m -> ListSlots]
      <4> HIDE DEF a, n
      <4>1. b = [i \in 1 .. m |-> b[i]]  BY <1>1
      <4> HIDE DEF b
      <4> QED BY <3>1, <4>1
    <3> HIDE DEF b
    <3>3. b \in Seq(ListSlots)  BY <1>1, <3>2, SeqDef
    <3> QED BY <1>1, <3>2, <3>3, LenProperties
  <2>2. \A i \in 1 .. at : b[i] = a[i]  BY <1>1, <1>4
  <2>3. \A i \in 1 .. k : b[at + i] = xs[i]
    <3> TAKE i \in 1 .. k
    <3>1. at + i \in at + 1 .. n /\ at + i \in 1 .. m /\ (at + i) - at = i  BY <1>1, <1>5
    <3> QED BY <1>1, <3>1
  <2> HIDE DEF b, n
  <2>4. r \in Lists /\ r.len = n /\ r.arr = b  BY <1>3, <1>4, <1>5, <2>1 DEF Lists
  <2> QED BY <1>5, <2>1, <2>2, <2>3, <2>4 DEF n, k, r
<1>6. CASE ~(n <= m)
  <2>0. size \in Nat /\ n <= size  BY <1>1, <1>4, <1>6
  <2> HIDE DEF size
  <2>1. c \in Seq(ListSlots) /\ Len(c) = size
    <3>1. \A i \in 1 .. size : c[i] \in ListSlots
      <4> TAKE i \in 1 .. size
      <4>1. i > at /\ i <= n => i - at \in 1 .. k  BY <1>1
      <4>2. i <= at => i \in 1 .. m  BY <1>1, <1>4
      <4> HIDE DEF n, a
      <4> QED BY <1>2, <1>4, <2>0, <4>1, <4>2
    <3>2. c \in [1 .. size -> ListSlots]
      <4> HIDE DEF a, n
      <4>1. c = [i \in 1 .. size |-> c[i]]  OBVIOUS
      <4> HIDE DEF c
      <4> QED BY <3>1, <4>1
    <3> HIDE DEF c
    <3>3. c \in Seq(ListSlots)  BY <2>0, <3>2, SeqDef
    <3> QED BY <2>0, <3>2, <3>3, LenProperties
  <2>2. \A i \in 1 .. at : c[i] = a[i]  BY <1>1, <1>4, <2>0
  <2>3. \A i \in 1 .. k : c[at + i] = xs[i]
    <3> TAKE i \in 1 .. k
    <3>1. at + i \in 1 .. size /\ ~(at + i <= at) /\ at + i <= n /\ (at + i) - at = i  BY <1>1, <2>0
    <3> HIDE DEF n
    <3> QED BY <3>1
  <2> HIDE DEF c, n
  <2>4. r \in Lists /\ r.len = n /\ r.arr = c  BY <1>3, <1>4, <1>6, <2>1 DEF Lists
  <2> QED BY <2>0, <2>1, <2>2, <2>3, <2>4 DEF n, k, r
<1> QED BY <1>5, <1>6

LEMMA InSlots ==
    ASSUME NEW s \in Seq(Values)
    PROVE  s \in Seq(ListSlots)
<1>1. \A i \in 1 .. Len(s) : s[i] \in ListSlots  BY ElementOfSeq DEF ListSlots
<1>2. s \in [1 .. Len(s) -> Values] /\ Len(s) \in Nat  BY LenProperties
<1>3. s \in [1 .. Len(s) -> ListSlots]  BY <1>1, <1>2
<1> QED BY <1>2, <1>3, SeqDef

LEMMA CutIs ==
    ASSUME NEW s \in Seq(Values), NEW i \in 0 .. Len(s), NEW j \in i .. Len(s), NEW xs \in Seq(Values)
    PROVE  Replaced(Values, LI!Cut(s, i, xs, j), s, i, xs, j)
<1>1. Replaced(Values, SubSeq(s, 1, i) \o xs \o SubSeq(s, j + 1, Len(s)), s, i, xs, j)  BY Spliced
<1> QED BY <1>1 DEF LI!Cut

(* r is what lies behind the first i values of s. *)
Rest(r, s, i) == r \in Seq(Values) /\ Len(r) = Len(s) - i /\ \A k \in 1 .. Len(s) - i : r[k] = s[i + k]

LEMMA FromIs ==
    ASSUME NEW l, NEW s, HoldsList(l, s), NEW i \in 0 .. Len(s)
    PROVE  Rest(LI!From(l, i), s, i)
<1> DEFINE n == Len(s)
           a == l.arr
           r == LI!From(l, i)
<1>1. s \in Seq(Values) /\ l.len = n /\ \A k \in 1 .. n : a[k] = s[k]  BY DEF HoldsList
<1>2. n \in Nat  BY <1>1
<1>3. r = SubSeq(a, i + 1, n)  BY <1>1 DEF LI!From
<1>4. \A k \in i + 1 .. n : a[k] \in Values
  <2> TAKE k \in i + 1 .. n
  <2>1. k \in 1 .. n  BY <1>2
  <2>2. s[k] \in Values  BY <1>1, <2>1, ElementOfSeq
  <2> HIDE DEF a, n
  <2> QED BY <1>1, <2>1, <2>2
<1> HIDE DEF a, r
<1>5. i + 1 \in Int /\ n \in Int  BY <1>2
<1>6. /\ r \in Seq(Values) /\ Len(r) = IF i + 1 <= n THEN n - (i + 1) + 1 ELSE 0
      /\ \A k \in 1 .. n - (i + 1) + 1 : r[k] = a[i + 1 + k - 1]
  BY <1>3, <1>4, <1>5, SubSeqProperties
<1>7. n - (i + 1) + 1 = n - i /\ Len(r) = n - i  BY <1>2, <1>6
<1>8. ASSUME NEW k \in 1 .. n - i  PROVE r[k] = s[i + k]
  <2>1. i + 1 + k - 1 = i + k /\ i + k \in 1 .. n  BY <1>2
  <2> HIDE DEF n
  <2> QED BY <1>1, <1>6, <1>7, <2>1
<1>9. Rest(r, s, i)  BY <1>6, <1>7, <1>8 DEF Rest
<1> QED BY <1>9 DEF r

(* Writing ys behind the first i values. *)
LEMMA Writes ==
    ASSUME NEW l, NEW s, HoldsList(l, s), NEW i \in 0 .. Len(s), NEW ys \in Seq(Values), NEW w \in Seq(Values),
           Len(w) = i + Len(ys), \A k \in 1 .. i : w[k] = s[k], \A k \in 1 .. Len(ys) : w[i + k] = ys[k]
    PROVE  HoldsList(LI!AppendAt(l, i, ys), w)
<1> DEFINE r == LI!AppendAt(l, i, ys)
           n == Len(s)
           m == Len(ys)
<1>1. s \in Seq(Values) /\ l \in Lists /\ l.len = n /\ n <= Len(l.arr) /\ \A k \in 1 .. n : l.arr[k] = s[k]
  BY DEF HoldsList
<1>2. n \in Nat /\ m \in Nat /\ i \in Nat /\ i <= n  BY <1>1
<1>3. i <= Len(l.arr) /\ ys \in Seq(ListSlots)
  <2>1. Len(l.arr) \in Nat  BY <1>1 DEF Lists
  <2> HIDE DEF n
  <2> QED BY <1>1, <1>2, <2>1, InSlots
<1>4. /\ r \in Lists /\ r.len = i + m /\ r.len <= Len(r.arr)
      /\ \A k \in 1 .. i : r.arr[k] = l.arr[k]
      /\ \A k \in 1 .. m : r.arr[i + k] = ys[k]
  BY <1>1, <1>2, <1>3, Appends
<1> HIDE DEF r
<1>5. ASSUME NEW k \in 1 .. Len(w)  PROVE r.arr[k] = w[k]
  <2>1. CASE k <= i
    <3>1. k \in 1 .. i /\ k \in 1 .. n  BY <1>2, <2>1
    <3> QED BY <1>1, <1>4, <3>1
  <2>2. CASE k > i
    <3>1. k - i \in 1 .. m /\ i + (k - i) = k  BY <1>2, <2>2
    <3> QED BY SMTT(40), <1>4, <3>1
  <2> QED BY <1>2, <2>1, <2>2
<1>6. HoldsList(r, w)  BY <1>4, <1>5 DEF HoldsList
<1> QED BY <1>6 DEF r

(* Writing xs and what lies from j on behind the first i values. *)
LEMMA Cuts ==
    ASSUME NEW l, NEW s, HoldsList(l, s), NEW i \in 0 .. Len(s), NEW j \in i .. Len(s), NEW xs \in Seq(Values)
    PROVE  HoldsList(LI!AppendAt(l, i, xs \o LI!From(l, j)), LI!Cut(s, i, xs, j))
<1> DEFINE n == Len(s)
           m == Len(xs)
           q == LI!From(l, j)
           ys == xs \o q
           w == LI!Cut(s, i, xs, j)
<1>1. s \in Seq(Values) /\ n \in Nat /\ m \in Nat /\ i \in Nat /\ i <= n /\ j \in Nat /\ i <= j /\ j <= n
  BY DEF HoldsList
<1>2. q \in Seq(Values) /\ Len(q) = n - j /\ \A k \in 1 .. n - j : q[k] = s[j + k]
  <2>1. Rest(q, s, j)
    <3>1. j \in 0 .. Len(s)  BY <1>1
    <3> QED BY <3>1, FromIs
  <2> HIDE DEF q
  <2> QED BY <2>1 DEF Rest
<1>3. /\ w \in Seq(Values) /\ Len(w) = i + m + (n - j)
      /\ \A k \in 1 .. i : w[k] = s[k]
      /\ \A k \in 1 .. m : w[i + k] = xs[k]
      /\ \A k \in 1 .. n - j : w[i + m + k] = s[j + k]
  <2>1. Replaced(Values, w, s, i, xs, j)  BY <1>1, CutIs
  <2> HIDE DEF w
  <2> QED BY <2>1 DEF Replaced
<1> HIDE DEF q, w, n
<1>4. /\ ys \in Seq(Values) /\ Len(ys) = m + (n - j)
      /\ \A k \in 1 .. m + (n - j) : ys[k] = IF k <= m THEN xs[k] ELSE q[k - m]
  <2>1. q \in Seq(Values)  BY <1>2
  <2>2. /\ ys \in Seq(Values) /\ Len(ys) = Len(xs) + Len(q)
        /\ \A k \in 1 .. Len(xs) + Len(q) : ys[k] = IF k <= Len(xs) THEN xs[k] ELSE q[k - Len(xs)]
    BY <2>1, ConcatProperties
  <2> HIDE DEF ys
  <2> QED BY <1>2, <2>2
<1> HIDE DEF ys, m
<1>5. ASSUME NEW k \in 1 .. Len(ys)  PROVE w[i + k] = ys[k]
  <2>1. CASE k <= m
    <3>1. k \in 1 .. m /\ k \in 1 .. m + (n - j)  BY <1>1, <1>4, <2>1
    <3> QED BY <1>3, <1>4, <2>1, <3>1
  <2>2. CASE k > m
    <3> DEFINE o == k - m
    <3>1. o \in 1 .. n - j /\ k \in 1 .. m + (n - j) /\ ~(k <= m) /\ i + m + o = i + k  BY <1>1, <1>4, <2>2
    <3>2. ys[k] = q[o]  BY <1>4, <3>1
    <3> HIDE DEF o
    <3>3. w[i + m + o] = q[o]  BY <1>2, <1>3, <3>1
    <3> QED BY <3>1, <3>2, <3>3
  <2> QED BY <1>1, <1>4, <2>1, <2>2
<1>6. Len(w) = i + Len(ys)  BY <1>1, <1>3, <1>4
<1>7. i \in 0 .. Len(s) /\ ys \in Seq(Values) /\ w \in Seq(Values) /\ \A k \in 1 .. i : w[k] = s[k]
  BY <1>3, <1>4
<1>8. HoldsList(LI!AppendAt(l, i, ys), w)  BY <1>5, <1>6, <1>7, Writes
<1> QED BY <1>8 DEF w, ys, q

-----------------------------------------------------------------------------
(* What the operations at an index ask for. *)
Inserted(s, i, v) == IF i \in 0 .. Len(s) THEN LI!Cut(s, i, <<v>>, i) ELSE s
Updated(s, i, v) == IF i + 1 \in DOMAIN s THEN [s EXCEPT ![i + 1] = v] ELSE s
Removed(s, i) == IF i + 1 \in DOMAIN s THEN LI!Cut(s, i, <<>>, i + 1) ELSE s
Swapped(s, i, j) ==
  IF {i, j} \subseteq 0 .. Len(s) - 1 THEN [s EXCEPT ![i + 1] = s[j + 1], ![j + 1] = s[i + 1]] ELSE s

LEMMA ListPushes ==
    ASSUME NEW l, NEW s, HoldsList(l, s), NEW v \in Values
    PROVE  HoldsList(LI!AppendAt(l, l.len, <<v>>), Append(s, v))
<1> DEFINE w == Append(s, v)
           ys == <<v>>
<1>1. s \in Seq(Values) /\ l.len = Len(s)  BY DEF HoldsList
<1>2. Len(s) \in Nat /\ Len(s) \in 0 .. Len(s)  BY <1>1
<1>3. ys \in Seq(Values) /\ Len(ys) = 1 /\ ys[1] = v  OBVIOUS
<1>4. w \in Seq(Values) /\ Len(w) = Len(s) + 1 /\ w[Len(s) + 1] = v /\ \A k \in 1 .. Len(s) : w[k] = s[k]
  BY <1>1, AppendProperties
<1> HIDE DEF w, ys
<1>5. \A k \in 1 .. Len(ys) : w[Len(s) + k] = ys[k]  BY <1>2, <1>3, <1>4
<1>6. w \in Seq(Values) /\ Len(w) = Len(s) + Len(ys)  BY <1>3, <1>4
<1>7. HoldsList(LI!AppendAt(l, Len(s), ys), w)  BY ZenonT(40), <1>2, <1>3, <1>4, <1>5, <1>6, Writes
<1> QED BY <1>1, <1>7 DEF w, ys

LEMMA ListInserts ==
    ASSUME NEW l, NEW s, HoldsList(l, s), NEW i \in Int, NEW v \in Values
    PROVE  HoldsList(LI!InsertAt(l, i, v), Inserted(s, i, v))
<1>1. s \in Seq(Values) /\ l.len = Len(s) /\ Len(s) \in Nat  BY DEF HoldsList
<1>2. CASE i \in 0 .. Len(s)
  <2> DEFINE x == <<v>>
  <2>1. x \in Seq(Values)  OBVIOUS
  <2>2. LI!InsertAt(l, i, v) = LI!AppendAt(l, i, x \o LI!From(l, i))  BY <1>1, <1>2 DEF LI!InsertAt
  <2>3. Inserted(s, i, v) = LI!Cut(s, i, x, i)  BY <1>2 DEF Inserted
  <2> HIDE DEF x
  <2>4. i \in 0 .. Len(s) /\ i \in i .. Len(s)  BY <1>1, <1>2
  <2>5. HoldsList(LI!AppendAt(l, i, x \o LI!From(l, i)), LI!Cut(s, i, x, i))  BY <2>1, <2>4, Cuts
  <2> QED BY <2>2, <2>3, <2>5
<1>3. CASE ~(i \in 0 .. Len(s))
  <2>1. LI!InsertAt(l, i, v) = l  BY <1>1, <1>3 DEF LI!InsertAt
  <2>2. Inserted(s, i, v) = s  BY <1>3 DEF Inserted
  <2> QED BY <2>1, <2>2
<1> QED BY <1>2, <1>3

LEMMA ListUpdates ==
    ASSUME NEW l, NEW s, HoldsList(l, s), NEW i \in Int, NEW v \in Values
    PROVE  HoldsList(LI!UpdateAt(l, i, v), Updated(s, i, v))
<1>1. s \in Seq(Values) /\ l.len = Len(s) /\ Len(s) \in Nat /\ DOMAIN s = 1 .. Len(s)  BY DEF HoldsList
<1>2. CASE i + 1 \in DOMAIN s
  <2> DEFINE x == <<v>>
             u == [s EXCEPT ![i + 1] = v]
             c == LI!Cut(s, i, x, i + 1)
             n == Len(s)
  <2>1. x \in Seq(Values) /\ Len(x) = 1 /\ x[1] = v  OBVIOUS
  <2>2. LI!UpdateAt(l, i, v) = LI!AppendAt(l, i, x \o LI!From(l, i + 1))  BY <1>1, <1>2 DEF LI!UpdateAt
  <2>3. Updated(s, i, v) = u  BY <1>2 DEF Updated
  <2> HIDE DEF x
  <2>4. i \in 0 .. Len(s) /\ i + 1 \in i .. Len(s) /\ i + 1 \in 1 .. n  BY <1>1, <1>2
  <2>5. HoldsList(LI!AppendAt(l, i, x \o LI!From(l, i + 1)), c)  BY <2>1, <2>4, Cuts
  <2>6. /\ c \in Seq(Values) /\ Len(c) = i + Len(x) + (n - (i + 1))
        /\ \A k \in 1 .. i : c[k] = s[k]
        /\ \A k \in 1 .. Len(x) : c[i + k] = x[k]
        /\ \A k \in 1 .. n - (i + 1) : c[i + Len(x) + k] = s[(i + 1) + k]
    <3>1. Replaced(Values, c, s, i, x, i + 1)  BY <1>1, <2>1, <2>4, CutIs
    <3> HIDE DEF c
    <3> QED BY <3>1 DEF Replaced
  <2>7. u \in Seq(Values) /\ Len(u) = n /\ \A k \in 1 .. n : u[k] = IF k = i + 1 THEN v ELSE s[k]
    <3>1. i + 1 \in 1 .. Len(s)  BY <2>4
    <3> QED BY <1>1, <3>1, ExceptSeq
  <2>8. n \in Nat  BY <1>1
  <2> HIDE DEF u, c, n
  <2>9. Len(c) = n  BY <2>1, <2>6, <2>8
  <2>10. ASSUME NEW k \in 1 .. n  PROVE c[k] = u[k]
    <3>1. CASE k <= i
      <4>1. k \in 1 .. i /\ k # i + 1  BY <3>1
      <4> QED BY <2>6, <2>7, <4>1
    <3>2. CASE k = i + 1  BY <2>1, <2>6, <2>7, <3>2
    <3>3. CASE k > i + 1
      <4>1. k - (i + 1) \in 1 .. n - (i + 1)  BY <2>8, <3>3
      <4>2. i + 1 + (k - (i + 1)) = k /\ (i + 1) + (k - (i + 1)) = k /\ k # i + 1  BY <3>3
      <4>3. c[k] = s[k]  BY <2>1, <2>6, <4>1, <4>2
      <4> QED BY <2>7, <4>2, <4>3
    <3> QED BY <2>8, <3>1, <3>2, <3>3
  <2>11. c = u
    <3>1. c \in Seq(Values) /\ u \in Seq(Values) /\ Len(c) = Len(u)  BY <2>6, <2>7, <2>9
    <3>2. \A k \in 1 .. Len(c) : c[k] = u[k]  BY <2>9, <2>10
    <3> QED BY <3>1, <3>2, SeqEqual
  <2> QED BY <2>2, <2>3, <2>5, <2>11
<1>3. CASE ~(i + 1 \in DOMAIN s)
  <2>1. LI!UpdateAt(l, i, v) = l  BY <1>1, <1>3 DEF LI!UpdateAt
  <2>2. Updated(s, i, v) = s  BY <1>3 DEF Updated
  <2> QED BY <2>1, <2>2
<1> QED BY <1>2, <1>3

LEMMA ListDeletes ==
    ASSUME NEW l, NEW s, HoldsList(l, s), NEW i \in Int
    PROVE  HoldsList(LI!DeleteAt(l, i), Removed(s, i))
<1> DEFINE n == Len(s)
           c == LI!Cut(s, i, <<>>, i + 1)
<1>1. s \in Seq(Values) /\ l \in Lists /\ l.len = n /\ n \in Nat /\ DOMAIN s = 1 .. n  BY DEF HoldsList
<1>2. CASE i + 1 \in DOMAIN s
  <2>1. Removed(s, i) = c  BY <1>2 DEF Removed
  <2>2. i \in 0 .. Len(s) /\ i + 1 \in i .. Len(s)  BY <1>1, <1>2
  <2>3. <<>> \in Seq(Values) /\ Len(<<>>) = 0  OBVIOUS
  <2>4. CASE i = n - 1
    <3>1. LI!DeleteAt(l, i) = [l EXCEPT !.len = i]  BY <1>1, <1>2, <2>4 DEF LI!DeleteAt
    <3>2. c \in Seq(Values) /\ Len(c) = i /\ \A k \in 1 .. i : c[k] = s[k]
      <4>1. Replaced(Values, c, s, i, <<>>, i + 1)  BY <1>1, <2>2, <2>3, CutIs
      <4> HIDE DEF c
      <4>2. /\ c \in Seq(Values) /\ Len(c) = i + 0 + (n - (i + 1))
            /\ \A k \in 1 .. i : c[k] = s[k]
        BY <2>3, <4>1 DEF Replaced
      <4> HIDE DEF n
      <4> QED BY <1>1, <2>4, <4>2
    <3> HIDE DEF c
    <3>3. n <= Len(l.arr) /\ \A k \in 1 .. n : l.arr[k] = s[k]  BY DEF HoldsList
    <3>4. Len(l.arr) \in Nat /\ i \in Nat  BY <1>1, <2>2 DEF Lists
    <3>5. i <= Len(l.arr) /\ \A k \in 1 .. i : l.arr[k] = c[k]
      <4> HIDE DEF n
      <4>1. \A k \in 1 .. i : k \in 1 .. n  BY <1>1, <2>4
      <4> QED BY <1>1, <2>4, <3>2, <3>3, <3>4, <4>1
    <3>6. HoldsList([l EXCEPT !.len = i], c)  BY <1>1, <3>2, <3>4, <3>5 DEF HoldsList, Lists
    <3> QED BY <2>1, <3>1, <3>6
  <2>5. CASE i # n - 1
    <3>1. LI!DeleteAt(l, i) = LI!AppendAt(l, i, LI!From(l, i + 1))  BY <1>1, <1>2, <2>5 DEF LI!DeleteAt
    <3>2. <<>> \o LI!From(l, i + 1) = LI!From(l, i + 1)
      <4>1. i + 1 \in 0 .. Len(s)  BY <2>2
      <4>2. Rest(LI!From(l, i + 1), s, i + 1)  BY <4>1, FromIs
      <4>3. LI!From(l, i + 1) \in Seq(Values)  BY <4>2 DEF Rest
      <4> QED BY <4>3, ConcatEmptySeq
    <3>3. HoldsList(LI!AppendAt(l, i, <<>> \o LI!From(l, i + 1)), c)  BY <2>2, <2>3, Cuts
    <3> QED BY <2>1, <3>1, <3>2, <3>3
  <2> QED BY <2>4, <2>5
<1>3. CASE ~(i + 1 \in DOMAIN s)
  <2>1. LI!DeleteAt(l, i) = l  BY <1>1, <1>3 DEF LI!DeleteAt
  <2>2. Removed(s, i) = s  BY <1>3 DEF Removed
  <2> QED BY <2>1, <2>2
<1> QED BY <1>2, <1>3

LEMMA ListPops ==
    ASSUME NEW l, NEW s, HoldsList(l, s)
    PROVE  /\ HoldsList(LI!PopFirst(l), IF s = <<>> THEN s ELSE Tail(s))
           /\ HoldsList(LI!PopLast(l), LI!Cut(s, Len(s) - 1, <<>>, Len(s)))
<1> DEFINE n == Len(s)
           c == LI!Cut(s, n - 1, <<>>, n)
<1>1. s \in Seq(Values) /\ l \in Lists /\ l.len = n /\ n \in Nat /\ DOMAIN s = 1 .. n  BY DEF HoldsList
<1>2. CASE s = <<>>
  <2>1. n = 0  BY <1>2
  <2>2. LI!PopFirst(l) = l /\ LI!PopLast(l) = l  BY <1>1, <2>1 DEF LI!PopFirst, LI!PopLast
  <2>3. c = s
    <3>1. SubSeq(s, 1, -1) = <<>> /\ SubSeq(s, 1, 0) = <<>>  BY SubSeqEmpty
    <3>2. c = SubSeq(s, 1, -1) \o <<>> \o SubSeq(s, 1, 0)  BY <2>1 DEF LI!Cut
    <3>3. <<>> \in Seq(Values)  OBVIOUS
    <3>4. <<>> \o <<>> = <<>>  BY <3>3, ConcatEmptySeq
    <3> QED BY <1>2, <3>1, <3>2, <3>4
  <2> HIDE DEF c
  <2> QED BY <1>2, <2>2, <2>3 DEF c
<1>3. CASE s # <<>>
  <2>1. n > 0  BY <1>1, <1>3, EmptySeq
  <2>2. LI!PopFirst(l) = LI!DeleteAt(l, 0) /\ LI!PopLast(l) = LI!DeleteAt(l, n - 1)
    BY <1>1, <2>1 DEF LI!PopFirst, LI!PopLast
  <2>3. Removed(s, n - 1) = c
    <3>1. (n - 1) + 1 = n /\ n \in DOMAIN s  BY <1>1, <2>1
    <3> QED BY <3>1 DEF Removed
  <2>4. Removed(s, 0) = Tail(s)
    <3>1. 0 + 1 = 1 /\ 1 \in DOMAIN s /\ 1 + 1 = 2  BY <1>1, <2>1
    <3>2. Removed(s, 0) = LI!Cut(s, 0, <<>>, 1)  BY <3>1 DEF Removed
    <3>3. LI!Cut(s, 0, <<>>, 1) = SubSeq(s, 1, 0) \o <<>> \o SubSeq(s, 2, Len(s))  BY <3>1 DEF LI!Cut
    <3>4. SubSeq(s, 1, 0) = <<>>  BY SubSeqEmpty
    <3>5. Tail(s) \in Seq(Values) /\ Tail(s) = SubSeq(s, 2, Len(s))  BY <1>1, <1>3, HeadTailProperties, TailIsSubSeq
    <3>6. <<>> \in Seq(Values)  OBVIOUS
    <3>7. <<>> \o <<>> = <<>> /\ <<>> \o Tail(s) = Tail(s)  BY <3>5, <3>6, ConcatEmptySeq
    <3> QED BY <3>2, <3>3, <3>4, <3>5, <3>7
  <2>5. n - 1 \in Int /\ 0 \in Int  BY <1>1
  <2> HIDE DEF c, n
  <2>6. HoldsList(LI!DeleteAt(l, 0), Tail(s)) /\ HoldsList(LI!DeleteAt(l, n - 1), c)  BY <2>3, <2>4, <2>5, ListDeletes
  <2> QED BY <1>3, <2>2, <2>6 DEF c, n
<1> QED BY <1>2, <1>3

LEMMA ListSwaps ==
    ASSUME NEW l, NEW s, HoldsList(l, s), NEW i \in Int, NEW j \in Int
    PROVE  HoldsList(LI!Swap(l, i, j), Swapped(s, i, j))
<1>1. s \in Seq(Values) /\ l \in Lists /\ l.len = Len(s) /\ Len(s) \in Nat /\ Len(s) <= Len(l.arr)
      /\ \A k \in 1 .. Len(s) : l.arr[k] = s[k]
  BY DEF HoldsList
<1>2. CASE {i, j} \subseteq 0 .. Len(s) - 1
  <2> DEFINE a == l.arr
             x == s[i + 1]
             y == s[j + 1]
             b == [a EXCEPT ![i + 1] = a[j + 1], ![j + 1] = a[i + 1]]
             u == [s EXCEPT ![i + 1] = y, ![j + 1] = x]
             n == Len(s)
             m == Len(a)
  <2>1. i + 1 \in 1 .. n /\ j + 1 \in 1 .. n  BY <1>1, <1>2
  <2>2. LI!Swap(l, i, j) = [l EXCEPT !.arr = b]  BY <1>1, <1>2 DEF LI!Swap, Lists
  <2>3. Swapped(s, i, j) = u  BY <1>2 DEF Swapped
  <2>4. a \in Seq(ListSlots) /\ m \in Nat  BY <1>1 DEF Lists
  <2>5. x \in Values /\ y \in Values /\ a[i + 1] = x /\ a[j + 1] = y  BY <1>1, <2>1, ElementOfSeq
  <2>6. x \in ListSlots /\ y \in ListSlots  BY <2>5 DEF ListSlots
  <2>7. s \in [1 .. n -> Values] /\ a \in [1 .. m -> ListSlots]
    <3> HIDE DEF a
    <3> QED BY <1>1, <2>4, LenProperties
  <2> HIDE DEF a, m, n, x, y
  <2>8. /\ u \in [1 .. n -> Values]
        /\ \A k \in 1 .. n : u[k] = IF k = j + 1 THEN x ELSE IF k = i + 1 THEN y ELSE s[k]
    BY <2>1, <2>5, <2>7
  <2>9. b = [a EXCEPT ![i + 1] = y, ![j + 1] = x]  BY <2>5
  <2>10. /\ b \in [1 .. m -> ListSlots]
         /\ \A k \in 1 .. m : b[k] = IF k = j + 1 THEN x ELSE IF k = i + 1 THEN y ELSE a[k]
    BY <2>6, <2>7, <2>9
  <2> HIDE DEF b, u
  <2>11. n \in Nat /\ n <= m  BY <1>1 DEF n, m, a
  <2>12. u \in Seq(Values) /\ Len(u) = n /\ b \in Seq(ListSlots) /\ Len(b) = m
    BY <2>4, <2>8, <2>10, <2>11, SeqDef, LenProperties
  <2>13. \A k \in 1 .. n : b[k] = u[k]
    <3> TAKE k \in 1 .. n
    <3>1. k \in 1 .. m  BY <2>4, <2>11
    <3>2. a[k] = s[k]  BY <1>1 DEF a, n
    <3> QED BY <2>8, <2>10, <3>1, <3>2
  <2>14. HoldsList([l EXCEPT !.arr = b], u)
    <3>1. [l EXCEPT !.arr = b] \in Lists /\ [l EXCEPT !.arr = b].len = n /\ [l EXCEPT !.arr = b].arr = b
      BY <1>1, <2>12 DEF Lists, n
    <3> QED BY <2>11, <2>12, <2>13, <3>1 DEF HoldsList
  <2> QED BY <2>2, <2>3, <2>14
<1>3. CASE ~({i, j} \subseteq 0 .. Len(s) - 1)
  <2>1. LI!Swap(l, i, j) = l  BY <1>1, <1>3 DEF LI!Swap
  <2>2. Swapped(s, i, j) = s  BY <1>3 DEF Swapped
  <2> QED BY <2>1, <2>2
<1> QED BY <1>2, <1>3

LEMMA ListMerges ==
    ASSUME NEW l, NEW s, HoldsList(l, s), NEW o \in Seq(Values)
    PROVE  HoldsList(LI!Merge(l, o), s) /\ HoldsList(LI!AppendAt(l, l.len, o), s \o o)
<1>1. s \in Seq(Values) /\ l \in Lists /\ l.len = Len(s) /\ Len(s) \in Nat  BY DEF HoldsList
<1> DEFINE r == LI!AppendAt(l, l.len, o)
           w == s \o o
<1>2. /\ w \in Seq(Values) /\ Len(w) = Len(s) + Len(o)
      /\ \A k \in 1 .. Len(s) + Len(o) : w[k] = IF k <= Len(s) THEN s[k] ELSE o[k - Len(s)]
  BY <1>1, ConcatProperties
<1> HIDE DEF w
<1>3. Len(o) \in Nat  OBVIOUS
<1>4. \A k \in 1 .. Len(s) : w[k] = s[k]
  <2> TAKE k \in 1 .. Len(s)
  <2>1. k \in 1 .. Len(s) + Len(o) /\ k <= Len(s)  BY <1>1, <1>3
  <2> QED BY <1>2, <2>1
<1>5. \A k \in 1 .. Len(o) : w[Len(s) + k] = o[k]
  <2> TAKE k \in 1 .. Len(o)
  <2>1. Len(s) + k \in 1 .. Len(s) + Len(o) /\ ~(Len(s) + k <= Len(s)) /\ (Len(s) + k) - Len(s) = k
    BY <1>1, <1>3
  <2> QED BY <1>2, <2>1
<1>6. HoldsList(r, w)
  <2>1. Len(s) \in 0 .. Len(s) /\ w \in Seq(Values) /\ Len(w) = Len(s) + Len(o)  BY <1>1, <1>2
  <2>2. HoldsList(LI!AppendAt(l, Len(s), o), w)  BY ZenonT(40), <1>4, <1>5, <2>1, Writes
  <2> QED BY <1>1, <2>2
<1>7. HoldsList(LI!Merge(l, o), s)
  <2>1. CASE l.len + Len(o) <= Len(l.arr)
    <3>1. LI!Merge(l, o) = [r EXCEPT !.len = l.len]  BY <2>1 DEF LI!Merge
    <3> HIDE DEF r
    <3>2. r \in Lists /\ Len(w) <= Len(r.arr) /\ \A k \in 1 .. Len(w) : r.arr[k] = w[k]  BY <1>6 DEF HoldsList
    <3>3. Len(r.arr) \in Nat  BY <3>2 DEF Lists
    <3>4. Len(s) <= Len(r.arr)  BY <1>1, <1>2, <1>3, <3>2, <3>3
    <3>5. \A k \in 1 .. Len(s) : r.arr[k] = s[k]
      <4> TAKE k \in 1 .. Len(s)
      <4>1. k \in 1 .. Len(w)  BY <1>1, <1>2, <1>3
      <4> QED BY <1>4, <3>2, <4>1
    <3> QED BY <1>1, <3>1, <3>2, <3>4, <3>5 DEF HoldsList, Lists
  <2>2. CASE ~(l.len + Len(o) <= Len(l.arr))  BY <2>2 DEF LI!Merge
  <2> QED BY <2>1, <2>2
<1> QED BY <1>6, <1>7 DEF r, w

(* The lists whose length is within their array. *)
Fitting == {l \in Lists : l.len <= Len(l.arr)}

(* s with its first i values and its last i exchanged. *)
Turned(s, i) == [k \in 1 .. Len(s) |-> IF k <= i \/ Len(s) + 1 - k <= i THEN s[Len(s) + 1 - k] ELSE s[k]]

LEMMA TurnedIs ==
    ASSUME NEW s \in Seq(Values), NEW i \in Nat
    PROVE  Turned(s, i) \in Seq(Values) /\ Len(Turned(s, i)) = Len(s)
<1> DEFINE n == Len(s)
           t == Turned(s, i)
<1>1. n \in Nat /\ \A k \in 1 .. n : s[k] \in Values  BY ElementOfSeq
<1>2. t = [k \in 1 .. n |-> IF k <= i \/ n + 1 - k <= i THEN s[n + 1 - k] ELSE s[k]]  BY DEF Turned
<1> HIDE DEF t, n
<1>3. \A k \in 1 .. n : n + 1 - k \in 1 .. n  BY <1>1
<1>4. t \in [1 .. n -> Values]  BY <1>1, <1>2, <1>3
<1> QED BY <1>1, <1>4, SeqDef, LenProperties DEF t, n

LEMMA TurnedNext ==
    ASSUME NEW s \in Seq(Values), NEW i \in Nat, i < Len(s) - 1 - i
    PROVE  Swapped(Turned(s, i), i, Len(s) - 1 - i) = Turned(s, i + 1)
<1> DEFINE n == Len(s)
           j == n - 1 - i
           t == Turned(s, i)
           u == Turned(s, i + 1)
           w == [t EXCEPT ![i + 1] = t[j + 1], ![j + 1] = t[i + 1]]
<1>1. n \in Nat  OBVIOUS
<1>2. Len(t) = n /\ t = [k \in 1 .. n |-> IF k <= i \/ n + 1 - k <= i THEN s[n + 1 - k] ELSE s[k]]
  BY TurnedIs DEF Turned
<1>3. u = [k \in 1 .. n |-> IF k <= i + 1 \/ n + 1 - k <= i + 1 THEN s[n + 1 - k] ELSE s[k]]
  BY DEF Turned
<1>4. i + 1 \in 1 .. n /\ j + 1 \in 1 .. n /\ i < j /\ j + 1 = n - i /\ {i, j} \subseteq 0 .. n - 1  BY <1>1
<1> HIDE DEF t, u, n, j
<1>5. Swapped(t, i, j) = w  BY <1>2, <1>4 DEF Swapped
<1>6. t[i + 1] = s[i + 1] /\ t[j + 1] = s[j + 1]
  <2>1. ~(i + 1 <= i \/ n + 1 - (i + 1) <= i)  BY <1>1, <1>4
  <2>2. ~(j + 1 <= i \/ n + 1 - (j + 1) <= i)  BY <1>1, <1>4
  <2> QED BY <1>2, <1>4, <2>1, <2>2
<1>7. w = [k \in 1 .. n |-> IF k = j + 1 THEN s[i + 1] ELSE IF k = i + 1 THEN s[j + 1] ELSE t[k]]
  BY <1>2, <1>4, <1>6
<1> HIDE DEF w
<1>8. ASSUME NEW k \in 1 .. n  PROVE w[k] = u[k]
  <2>1. CASE k = j + 1
    <3>1. n + 1 - k = i + 1 /\ n + 1 - k <= i + 1  BY <1>1, <1>4, <2>1
    <3> QED BY <1>3, <1>7, <2>1, <3>1
  <2>2. CASE k = i + 1
    <3>1. n + 1 - k = j + 1 /\ k <= i + 1 /\ k # j + 1  BY <1>1, <1>4, <2>2
    <3> QED BY <1>3, <1>7, <2>2, <3>1
  <2>3. CASE k # i + 1 /\ k # j + 1
    <3>1. (k <= i \/ n + 1 - k <= i) <=> (k <= i + 1 \/ n + 1 - k <= i + 1)  BY <1>1, <1>4, <2>3
    <3> QED BY <1>2, <1>3, <1>7, <2>3, <3>1
  <2> QED BY <2>1, <2>2, <2>3
<1>9. w = u  BY <1>3, <1>7, <1>8
<1> QED BY <1>5, <1>9 DEF t, u, n, j

(* A swap keeps any list within its array. *)
LEMMA SwapFits ==
    ASSUME NEW l \in Fitting, NEW i \in Int, NEW j \in Int
    PROVE  LI!Swap(l, i, j) \in Fitting
<1> DEFINE a == l.arr
           m == Len(a)
           b == [a EXCEPT ![i + 1] = a[j + 1], ![j + 1] = a[i + 1]]
<1>1. l \in Lists /\ l.len <= m /\ l.len \in Nat  BY DEF Fitting, Lists
<1>2. a \in Seq(ListSlots) /\ m \in Nat  BY DEF Fitting, Lists
<1>3. CASE {i, j} \subseteq 0 .. l.len - 1
  <2>1. i + 1 \in 1 .. m /\ j + 1 \in 1 .. m  BY <1>1, <1>2, <1>3
  <2>2. LI!Swap(l, i, j) = [l EXCEPT !.arr = b]  BY <1>1, <1>3 DEF LI!Swap, Lists
  <2>3. a \in [1 .. m -> ListSlots]
    <3> HIDE DEF a
    <3> QED BY <1>2, LenProperties
  <2> HIDE DEF a, m
  <2>4. a[i + 1] \in ListSlots /\ a[j + 1] \in ListSlots  BY <2>1, <2>3
  <2>5. b \in [1 .. m -> ListSlots]  BY <2>3, <2>4
  <2> HIDE DEF b
  <2>6. b \in Seq(ListSlots) /\ Len(b) = m  BY <1>2, <2>5, SeqDef, LenProperties
  <2> QED BY <1>1, <2>2, <2>6 DEF Fitting, Lists
<1>4. CASE ~({i, j} \subseteq 0 .. l.len - 1)  BY <1>4 DEF LI!Swap
<1> QED BY <1>3, <1>4

LEMMA ListTurns ==
    ASSUME NEW l, NEW s, HoldsList(l, s)
    PROVE  HoldsList(LI!Reverse(l), Turned(s, Len(s)))
<1> DEFINE n == l.len
           A == [l : Fitting, i : Int, j : Int]
           s0 == [l |-> l, i |-> 0, j |-> n - 1]
           Step(t) == [l |-> LI!Swap(t.l, t.i, t.j), i |-> t.i + 1, j |-> t.j - 1]
           Round(t) == IF t.i < t.j THEN Step(t) ELSE t
           step == [i \in 1 .. n |-> [t \in A |-> Round(t)]]
           Row(i, F) == IF i = 0 THEN s0 ELSE Round(F[i - 1])
           W == CHOOSE F : F = [i \in 0 .. n |-> Row(i, F)]
<1>1. l \in Lists /\ n = Len(s) /\ n \in Nat /\ s \in Seq(Values) /\ Len(s) <= Len(l.arr)  BY DEF HoldsList
<1>2. LI!Reverse(l) = (IF n < 1 THEN s0 ELSE W[n]).l
  BY DEF LI!Reverse, LI!While, LI!For
<1>a. l \in Fitting  BY <1>1 DEF Fitting
<1> HIDE DEF n
<1>b. s0 \in A  BY <1>a, <1>1
<1>c. \A t \in A : Round(t) \in A  BY SwapFits
<1>3. PICK F \in [0 .. n -> A] : F[0] = s0 /\ \A i \in 1 .. n : F[i] = step[i][F[i - 1]]
  <2> HIDE DEF Round
  <2>1. step \in [1 .. n -> [A -> A]]  BY <1>c
  <2> HIDE DEF step, A, s0
  <2>2. PICK F : F \in Runs(A, s0, n, step)  BY <1>1, <1>b, <2>1, Iterates
  <2> QED BY <2>2 DEF Runs
<1>4. F = [i \in 0 .. n |-> Row(i, F)]
  <2>1. \A i \in 1 .. n : F[i] = Round(F[i - 1])
    <3> TAKE i \in 1 .. n
    <3> HIDE DEF A, Round
    <3>0. i - 1 \in 0 .. n  BY <1>1
    <3>1. F[i - 1] \in A  BY <3>0
    <3> QED BY <1>3, <3>1
  <2> HIDE DEF Round, s0
  <2>2. \A i \in 0 .. n : F[i] = Row(i, F)  BY <1>1, <1>3, <2>1
  <2>3. F = [i \in 0 .. n |-> F[i]]  OBVIOUS
  <2> HIDE DEF Row
  <2> QED BY <2>2, <2>3
<1>5. W = [i \in 0 .. n |-> Row(i, W)]
  <2> HIDE DEF Row
  <2> QED BY <1>4
<1> HIDE DEF W
<1>6. W[0] = s0 /\ \A i \in 1 .. n : W[i] = Round(W[i - 1])
  <2>1. \A i \in 0 .. n : W[i] = Row(i, W)
    <3> HIDE DEF Row
    <3> QED BY <1>5
  <2> HIDE DEF Round, s0
  <2> QED BY <1>1, <2>1
<1> DEFINE q == n \div 2
           R(i) == IF i <= q THEN i ELSE q
           T == {i \in Nat : i <= n => /\ HoldsList(W[i].l, Turned(s, R(i)))
                                       /\ W[i].i = R(i) /\ W[i].j = n - 1 - R(i)}
<1>7. q \in Nat /\ q + q <= n /\ n <= q + q + 1  BY <1>1
<1>8. Turned(s, 0) = s
  <2>1. \A k \in 1 .. n : ~(k <= 0 \/ n + 1 - k <= 0)  BY <1>1
  <2>2. Turned(s, 0) = [k \in 1 .. n |-> s[k]]  BY <1>1, <2>1 DEF Turned
  <2>3. s = [k \in 1 .. n |-> s[k]]
    <3>1. s \in [1 .. n -> Values]  BY <1>1, LenProperties
    <3> QED BY <3>1
  <2> QED BY <2>2, <2>3
<1> HIDE DEF q
<1>9. 0 \in T
  <2>1. R(0) = 0 /\ n - 1 - 0 = n - 1  BY <1>1, <1>7
  <2> QED BY <1>6, <1>8, <2>1
<1>10. ASSUME NEW i \in Nat, i \in T, i < n  PROVE i + 1 \in T
  <2>1. HoldsList(W[i].l, Turned(s, R(i))) /\ W[i].i = R(i) /\ W[i].j = n - 1 - R(i)  BY <1>1, <1>10
  <2>2. W[i + 1] = Round(W[i])
    <3>1. i + 1 \in 1 .. n /\ (i + 1) - 1 = i  BY <1>1, <1>10
    <3> HIDE DEF Round
    <3> QED BY <3>1, <1>6
  <2>3. CASE i < q
    <3>1. R(i) = i /\ R(i + 1) = i + 1 /\ i < n - 1 - i  BY <2>3, <1>1, <1>7
    <3> HIDE DEF R
    <3>2. W[i + 1] = [l |-> LI!Swap(W[i].l, i, n - 1 - i), i |-> i + 1, j |-> (n - 1 - i) - 1]
      BY <2>1, <2>2, <3>1
    <3>3. i \in Int /\ n - 1 - i \in Int /\ HoldsList(W[i].l, Turned(s, i))  BY <1>1, <2>1, <3>1
    <3>4. HoldsList(LI!Swap(W[i].l, i, n - 1 - i), Swapped(Turned(s, i), i, n - 1 - i))  BY <3>3, ListSwaps
    <3>5. Swapped(Turned(s, i), i, n - 1 - i) = Turned(s, i + 1)  BY <1>1, <3>1, TurnedNext
    <3>6. (n - 1 - i) - 1 = n - 1 - (i + 1)  BY <1>1
    <3>7. W[i + 1].l = LI!Swap(W[i].l, i, n - 1 - i) /\ W[i + 1].i = i + 1 /\ W[i + 1].j = n - 1 - (i + 1)
      BY <3>2, <3>6
    <3>8. HoldsList(W[i + 1].l, Turned(s, i + 1))  BY <3>4, <3>5, <3>7
    <3> QED BY <3>1, <3>7, <3>8
  <2>4. CASE ~(i < q)
    <3>1. R(i) = q /\ R(i + 1) = q /\ ~(q < n - 1 - q)  BY <2>4, <1>1, <1>7
    <3> HIDE DEF R
    <3>2. W[i + 1] = W[i]  BY <2>1, <2>2, <3>1
    <3> QED BY <2>1, <3>1, <3>2
  <2> QED BY <2>3, <2>4
<1>11. n \in T
  <2> HIDE DEF T
  <2>1. \A i \in Nat : i \in T /\ i < n => i + 1 \in T  BY <1>10
  <2>2. \A i \in 0 .. n : i \in T  BY <1>1, <1>9, <2>1, Induction
  <2> QED BY <1>1, <2>2
<1>12. R(n) = q /\ HoldsList(W[n].l, Turned(s, q))
  <2>1. R(n) = q  BY <1>1, <1>7
  <2> HIDE DEF R
  <2> QED BY <1>1, <1>11, <2>1
<1>13. Turned(s, q) = Turned(s, n)
  <2>1. \A k \in 1 .. n : k <= n  BY <1>1
  <2>2. \A k \in 1 .. n : ~(k <= q \/ n + 1 - k <= q) => n + 1 - k = k
    <3> TAKE k \in 1 .. n
    <3> HAVE ~(k <= q \/ n + 1 - k <= q)
    <3>1. k \in Nat /\ k > q /\ n + 1 - k > q  BY <1>1, <1>7
    <3>2. n = q + q \/ n = q + q + 1  BY <1>1, <1>7
    <3>3. n \in Int /\ k \in Int /\ q \in Int  BY <1>1, <1>7
    <3> HIDE DEF R, T
    <3>4. k = q + 1 /\ n = q + q + 1  BY <3>1, <3>2, <3>3
    <3> QED BY <3>3, <3>4
  <2> QED BY <1>1, <2>1, <2>2 DEF Turned
<1>14. LI!Reverse(l) = W[n].l
  <2>1. CASE n < 1
    <3>1. n = 0  BY <1>1, <2>1
    <3> HIDE DEF s0
    <3> QED BY <1>2, <1>6, <2>1, <3>1
  <2>2. CASE ~(n < 1)  BY <1>2, <2>2
  <2> QED BY <2>1, <2>2
<1> QED BY <1>1, <1>12, <1>13, <1>14

LEMMA ListKept ==
    ASSUME NEW s, NEW keep
    PROVE  LI!Kept(s, keep) = Kept(s, keep)
BY DEF LI!Kept, LI!Each, LI!For, Kept, Each, For

(* No value is overwritten before it is read. *)
LEMMA ListRetains ==
    ASSUME NEW l, NEW s, HoldsList(l, s), NEW o, NEW complement \in BOOLEAN, NEW keep,
           \A x \in Values : x \in keep <=> LI!Contain(o, x) = complement
    PROVE  HoldsList(LI!batchRemove(l, o, complement), Kept(s, keep))
<1> DEFINE n == l.len
           m == Len(l.arr)
           A == [arr : [1 .. m -> ListSlots], w : Nat]
           s0 == [arr |-> l.arr, w |-> 0]
           Round(t, i) == IF LI!Contain(o, t.arr[i]) = complement
                          THEN [arr |-> [t.arr EXCEPT ![t.w + 1] = t.arr[i]], w |-> t.w + 1] ELSE t
           step == [i \in 1 .. n |-> [t \in A |-> Round(t, i)]]
           Row(i, F) == IF i = 0 THEN s0 ELSE Round(F[i - 1], i)
           W == CHOOSE F : F = [i \in 0 .. n |-> Row(i, F)]
<1>1. l \in Lists /\ n = Len(s) /\ n \in Nat /\ s \in Seq(Values) /\ m \in Nat /\ n <= m
      /\ \A i \in 1 .. n : l.arr[i] = s[i]
  BY DEF HoldsList, Lists
<1>2. LI!batchRemove(l, o, complement)
        = [l EXCEPT !.arr = (IF n < 1 THEN s0 ELSE W[n]).arr, !.len = (IF n < 1 THEN s0 ELSE W[n]).w]
  BY DEF LI!batchRemove, LI!For
<1>a. l.arr \in [1 .. m -> ListSlots]
  <2>1. l.arr \in Seq(ListSlots)  BY <1>1 DEF Lists
  <2> QED BY <2>1, LenProperties
<1> HIDE DEF n, m
<1>b. s0 \in A  BY <1>a
<1>c. \A i \in 1 .. n : \A t \in A : Round(t, i) \in A
  <2> TAKE i \in 1 .. n
  <2> TAKE t \in A
  <2>1. i \in 1 .. m  BY <1>1
  <2>a. t.arr \in [1 .. m -> ListSlots] /\ t.w \in Nat  OBVIOUS
  <2>b. t.arr[i] \in ListSlots  BY <2>1, <2>a
  <2>2. t.arr[i] \in ListSlots /\ t.arr \in [1 .. m -> ListSlots] /\ t.w + 1 \in Nat  BY <2>a, <2>b
  <2> QED BY <2>2
<1>3. PICK F \in [0 .. n -> A] : F[0] = s0 /\ \A i \in 1 .. n : F[i] = step[i][F[i - 1]]
  <2> HIDE DEF Round
  <2>1. step \in [1 .. n -> [A -> A]]  BY <1>c
  <2> HIDE DEF step, A, s0
  <2>2. PICK F : F \in Runs(A, s0, n, step)  BY <1>1, <1>b, <2>1, Iterates
  <2> QED BY <2>2 DEF Runs
<1>4. F = [i \in 0 .. n |-> Row(i, F)]
  <2>1. \A i \in 1 .. n : F[i] = Round(F[i - 1], i)
    <3> TAKE i \in 1 .. n
    <3> HIDE DEF A, Round
    <3>0. i - 1 \in 0 .. n  BY <1>1
    <3>1. F[i - 1] \in A  BY <3>0
    <3> QED BY <1>3, <3>1
  <2> HIDE DEF Round, s0
  <2>2. \A i \in 0 .. n : F[i] = Row(i, F)  BY <1>1, <1>3, <2>1
  <2>3. F = [i \in 0 .. n |-> F[i]]  OBVIOUS
  <2> HIDE DEF Row
  <2> QED BY <2>2, <2>3
<1>5. W = [i \in 0 .. n |-> Row(i, W)]
  <2> HIDE DEF Row
  <2> QED BY <1>4
<1> HIDE DEF W
<1>6. W[0] = s0 /\ \A i \in 1 .. n : W[i] = Round(W[i - 1], i)
  <2>1. \A i \in 0 .. n : W[i] = Row(i, W)
    <3> HIDE DEF Row
    <3> QED BY <1>5
  <2> HIDE DEF Round, s0
  <2> QED BY <1>1, <2>1
<1>7. PICK K : Keeps(Values, s, keep, K)  BY <1>1, KeptUnrolls
<1>8. /\ K \in [0 .. n -> Seq(Values)] /\ K[0] = <<>> /\ Kept(s, keep) = K[n]
      /\ \A i \in 1 .. n : K[i] = IF s[i] \in keep THEN Append(K[i - 1], s[i]) ELSE K[i - 1]
  BY <1>1, <1>7 DEF Keeps
<1> DEFINE Kind(i) == /\ W[i] \in A /\ W[i].w = Len(K[i]) /\ W[i].w <= i
                      /\ \A j \in 1 .. Len(K[i]) : W[i].arr[j] = K[i][j]
                      /\ \A j \in i + 1 .. n : W[i].arr[j] = s[j]
           T == {i \in Nat : i <= n => Kind(i)}
<1>9. 0 \in T
  <2>1. Len(K[0]) = 0  BY <1>8
  <2>2. W[0].w = 0 /\ W[0].arr = l.arr  BY <1>6
  <2> QED BY <1>1, <1>6, <1>b, <2>1, <2>2
<1>10. ASSUME NEW i \in Nat, i \in T, i < n  PROVE i + 1 \in T
  <2> DEFINE a == W[i].arr
             w == W[i].w
             k == K[i]
             x == s[i + 1]
  <2>0. i + 1 \in 1 .. n /\ (i + 1) - 1 = i /\ i \in 0 .. n /\ i + 1 \in 1 .. m /\ i + 1 \in i + 1 .. n
    BY <1>1, <1>10
  <2>1. /\ a \in [1 .. m -> ListSlots] /\ w \in Nat /\ w = Len(k) /\ w <= i
        /\ \A j \in 1 .. w : a[j] = k[j]
        /\ \A j \in i + 1 .. n : a[j] = s[j]
    BY <1>1, <1>10
  <2>2. k \in Seq(Values) /\ x \in Values
    <3>1. x \in Values  BY <1>1, <2>0, ElementOfSeq
    <3> QED BY <1>8, <2>0, <3>1
  <2>3. W[i + 1] = Round(W[i], i + 1)
    <3> HIDE DEF Round
    <3> QED BY <1>6, <2>0
  <2>4. K[i + 1] = IF x \in keep THEN Append(k, x) ELSE k  BY <1>8, <2>0
  <2>5. a[i + 1] = x  BY <2>0, <2>1
  <2>6. W[i + 1] \in A  BY <1>c, <1>10, <2>0, <2>3
  <2>7. CASE x \in keep
    <3> DEFINE b == [a EXCEPT ![w + 1] = x]
               c == Append(k, x)
    <3>1. W[i + 1] = [arr |-> b, w |-> w + 1]  BY <2>2, <2>3, <2>5, <2>7
    <3>2. K[i + 1] = c /\ Len(c) = w + 1 /\ c[w + 1] = x /\ \A j \in 1 .. w : c[j] = k[j]
      BY <2>1, <2>2, <2>4, <2>7, AppendProperties
    <3> HIDE DEF a, w, k, x, c
    <3>3. w + 1 \in 1 .. m /\ w + 1 <= i + 1  BY <1>1, <2>0, <2>1
    <3>4. b[w + 1] = x /\ \A j \in 1 .. m : j # w + 1 => b[j] = a[j]  BY <2>1, <3>3
    <3> HIDE DEF b
    <3>a. w \in Nat /\ m \in Nat /\ w + 1 <= m  BY <1>1, <2>1, <3>3
    <3>5. ASSUME NEW j \in 1 .. w + 1  PROVE b[j] = c[j]
      <4>1. CASE j = w + 1  BY <3>2, <3>4, <4>1
      <4>2. CASE j # w + 1
        <5>1. j \in 1 .. w /\ j \in 1 .. m  BY <3>a, <4>2
        <5> QED BY <2>1, <3>2, <3>4, <4>2, <5>1
      <4> QED BY <4>1, <4>2
    <3>6. ASSUME NEW j \in (i + 1) + 1 .. n  PROVE b[j] = s[j]
      <4>1. j \in i + 1 .. n /\ j \in 1 .. m /\ j # w + 1  BY <1>1, <2>1, <3>3
      <4> QED BY <2>1, <3>4, <4>1
    <3>7. W[i + 1].arr = b /\ W[i + 1].w = w + 1  BY <3>1
    <3> HIDE DEF A
    <3>8. Kind(i + 1)  BY <2>6, <3>2, <3>3, <3>5, <3>6, <3>7
    <3> HIDE DEF Kind
    <3> QED BY <3>8
  <2>8. CASE x \notin keep
    <3>1. W[i + 1] = W[i]  BY <2>2, <2>3, <2>5, <2>8
    <3>2. K[i + 1] = k  BY <2>4, <2>8
    <3>3. \A j \in (i + 1) + 1 .. n : j \in i + 1 .. n  BY <1>1
    <3>4. w <= i + 1  BY <2>1
    <3>5. Kind(i + 1)
      <4> HIDE DEF A
      <4> QED BY <2>1, <2>6, <3>1, <3>2, <3>3, <3>4
    <3> HIDE DEF Kind
    <3> QED BY <3>5
  <2> QED BY <2>7, <2>8
<1>11. Kind(n)
  <2> HIDE DEF Kind
  <2>1. \A i \in Nat : i \in T /\ i < n => i + 1 \in T  BY <1>10
  <2>2. 0 \in T  BY <1>9
  <2> HIDE DEF T
  <2>3. \A i \in 0 .. n : i \in T  BY <1>1, <2>1, <2>2, Induction
  <2> QED BY <1>1, <2>3 DEF T
<1> DEFINE a == W[n].arr
           k == K[n]
<1>12. LI!batchRemove(l, o, complement) = [l EXCEPT !.arr = a, !.len = Len(k)]
  <2>1. CASE n < 1
    <3>1. n = 0  BY <1>1, <2>1
    <3>2. W[0] = s0  BY <1>6
    <3> HIDE DEF s0
    <3> QED BY <1>2, <1>11, <2>1, <3>1, <3>2
  <2>2. CASE ~(n < 1)  BY <1>2, <1>11, <2>2
  <2> QED BY <2>1, <2>2
<1>13. a \in Seq(ListSlots) /\ Len(a) = m /\ Len(k) <= n /\ \A j \in 1 .. Len(k) : a[j] = k[j]
  <2>1. a \in [1 .. m -> ListSlots] /\ Len(k) <= n /\ \A j \in 1 .. Len(k) : a[j] = k[j]  BY <1>11
  <2> HIDE DEF a
  <2>2. a \in Seq(ListSlots)
    <3> HIDE DEF k
    <3> QED BY <1>1, <2>1, SeqDef
  <2>3. Len(a) = m  BY <1>1, <2>1, <2>2, LenProperties
  <2> QED BY <2>1, <2>2, <2>3
<1>14. k \in Seq(Values) /\ Len(k) \in Nat
  <2>1. k \in Seq(Values)  BY <1>1, <1>8
  <2> HIDE DEF k
  <2> QED BY <2>1
<1> HIDE DEF a, k
<1>15. Len(k) <= m  BY <1>1, <1>13, <1>14
<1>16. HoldsList([l EXCEPT !.arr = a, !.len = Len(k)], k)  BY <1>1, <1>13, <1>14, <1>15 DEF HoldsList, Lists
<1> QED BY <1>8, <1>12, <1>16 DEF k

(* Deleting at i moves the values behind it to the left by one. *)
Shifted(r, l, i) ==
  /\ r \in Fitting /\ r.len = l.len - 1
  /\ \A j \in 1 .. i : r.arr[j] = l.arr[j]
  /\ \A j \in i + 1 .. l.len - 1 : r.arr[j] = l.arr[j + 1]

LEMMA Shifts ==
    ASSUME NEW l \in Fitting, NEW i \in 0 .. l.len - 1
    PROVE  Shifted(LI!AppendAt(l, i, LI!From(l, i + 1)), l, i)
<1> DEFINE n == l.len
           a == l.arr
           xs == LI!From(l, i + 1)
           r == LI!AppendAt(l, i, xs)
<1>1. l \in Lists /\ n \in Nat /\ a \in Seq(ListSlots) /\ n <= Len(a)  BY DEF Fitting, Lists
<1>2. i \in Nat /\ i < n  BY <1>1
<1>3. Len(a) \in Nat
  <2> HIDE DEF a
  <2> QED BY <1>1
<1>4. xs \in Seq(ListSlots) /\ Len(xs) = n - 1 - i /\ \A j \in 1 .. n - 1 - i : xs[j] = a[i + 1 + j]
  <2>1. xs = SubSeq(a, i + 2, n)
    <3>1. (i + 1) + 1 = i + 2  BY <1>2
    <3> QED BY <3>1 DEF LI!From
  <2>2. \A k \in i + 2 .. n : a[k] \in ListSlots
    <3> TAKE k \in i + 2 .. n
    <3>1. k \in 1 .. Len(a)  BY <1>1, <1>2, <1>3
    <3> HIDE DEF a
    <3> QED BY <1>1, <3>1, ElementOfSeq
  <2>3. i + 2 \in Int /\ n \in Int  BY <1>1, <1>2
  <2> HIDE DEF a, n, xs
  <2>4. /\ xs \in Seq(ListSlots) /\ Len(xs) = IF i + 2 <= n THEN n - (i + 2) + 1 ELSE 0
        /\ \A j \in 1 .. n - (i + 2) + 1 : xs[j] = a[i + 2 + j - 1]
    BY <2>1, <2>2, <2>3, SubSeqProperties
  <2>5. n - (i + 2) + 1 = n - 1 - i /\ Len(xs) = n - 1 - i  BY <1>1, <1>2, <2>4
  <2>6. \A j \in 1 .. n - 1 - i : i + 2 + j - 1 = i + 1 + j  BY <1>1, <1>2
  <2> QED BY <2>4, <2>5, <2>6
<1> HIDE DEF xs
<1>5. i <= Len(l.arr)  BY <1>1, <1>2, <1>3
<1>6. /\ r \in Lists /\ r.len = i + Len(xs) /\ r.len <= Len(r.arr)
      /\ \A j \in 1 .. i : r.arr[j] = l.arr[j]
      /\ \A j \in 1 .. Len(xs) : r.arr[i + j] = xs[j]
  <2>1. xs \in Seq(ListSlots)  BY <1>4
  <2> QED BY <1>1, <1>2, <1>5, <2>1, Appends
<1> HIDE DEF r, a, n
<1>7. ASSUME NEW j \in i + 1 .. n - 1  PROVE r.arr[j] = a[j + 1]
  <2>1. j - i \in 1 .. n - 1 - i /\ i + (j - i) = j /\ i + 1 + (j - i) = j + 1  BY <1>1, <1>2
  <2> QED BY <1>4, <1>6, <2>1
<1>8. r.len = n - 1 /\ r \in Fitting  BY <1>1, <1>2, <1>4, <1>6 DEF Fitting
<1>9. Shifted(r, l, i)  BY <1>6, <1>7, <1>8 DEF Shifted, a, n
<1> QED BY <1>9 DEF r, xs

(* The loop whose index stays after a deletion skips no value. *)
LEMMA ListDeletesIf ==
    ASSUME NEW l, NEW s, HoldsList(l, s), NEW f
    PROVE  HoldsList(LI!DeleteIf(l, f), Kept(s, Values \ f))
<1> DEFINE n == l.len
           A == [l : Fitting, i : Nat]
           s0 == [l |-> l, i |-> 0]
           Round(t) == IF t.i < t.l.len THEN LI!DeleteRound(t, n, f) ELSE t
           step == [i \in 1 .. n |-> [t \in A |-> Round(t)]]
           Row(i, F) == IF i = 0 THEN s0 ELSE Round(F[i - 1])
           W == CHOOSE F : F = [i \in 0 .. n |-> Row(i, F)]
           keep == Values \ f
<1>1. l \in Fitting /\ n = Len(s) /\ n \in Nat /\ s \in Seq(Values)
      /\ \A i \in 1 .. n : l.arr[i] = s[i]
  BY DEF HoldsList, Lists, Fitting
<1>2. LI!DeleteIf(l, f) = (IF n < 1 THEN s0 ELSE W[n]).l
  BY DEF LI!DeleteIf, LI!While, LI!For
<1> HIDE DEF n
<1>b. s0 \in A  BY <1>1
<1>c. ASSUME NEW t \in A, t.i < t.l.len
      PROVE  LET x == t.l.arr[t.i + 1]
                 r == LI!AppendAt(t.l, t.i, LI!From(t.l, t.i + 1))
             IN  /\ x \notin f => Round(t) = [l |-> t.l, i |-> t.i + 1]
                 /\ x \in f /\ t.i = n - 1 => Round(t) = [l |-> [t.l EXCEPT !.len = t.i], i |-> t.i + 1]
                 /\ x \in f /\ t.i # n - 1 => Round(t) = [l |-> r, i |-> t.i]
  BY <1>c DEF LI!DeleteRound, LI!Forward
<1>d. \A t \in A : Round(t) \in A
  <2> TAKE t \in A
  <2>1. t.l \in Fitting /\ t.i \in Nat /\ t.l.len \in Nat /\ Len(t.l.arr) \in Nat  BY DEF Fitting, Lists
  <2>2. CASE t.i < t.l.len
    <3> DEFINE x == t.l.arr[t.i + 1]
               r == LI!AppendAt(t.l, t.i, LI!From(t.l, t.i + 1))
    <3>1. /\ x \notin f => Round(t) = [l |-> t.l, i |-> t.i + 1]
          /\ x \in f /\ t.i = n - 1 => Round(t) = [l |-> [t.l EXCEPT !.len = t.i], i |-> t.i + 1]
          /\ x \in f /\ t.i # n - 1 => Round(t) = [l |-> r, i |-> t.i]
      BY <1>c, <2>2
    <3>2. t.i \in 0 .. t.l.len - 1  BY <2>1, <2>2
    <3>3. Shifted(r, t.l, t.i)  BY <2>1, <3>2, Shifts
    <3> HIDE DEF x, r, Round
    <3>4. r \in Fitting  BY <3>3 DEF Shifted
    <3>5. [t.l EXCEPT !.len = t.i] \in Fitting  BY <2>1, <2>2 DEF Fitting, Lists
    <3> QED BY <2>1, <3>1, <3>4, <3>5
  <2>3. CASE ~(t.i < t.l.len)  BY <2>3
  <2> QED BY <2>2, <2>3
<1>3. PICK F \in [0 .. n -> A] : F[0] = s0 /\ \A i \in 1 .. n : F[i] = step[i][F[i - 1]]
  <2> HIDE DEF Round
  <2>1. step \in [1 .. n -> [A -> A]]  BY <1>d
  <2> HIDE DEF step, A, s0
  <2>2. PICK F : F \in Runs(A, s0, n, step)  BY <1>1, <1>b, <2>1, Iterates
  <2> QED BY <2>2 DEF Runs
<1>4. F = [i \in 0 .. n |-> Row(i, F)]
  <2>1. \A i \in 1 .. n : F[i] = Round(F[i - 1])
    <3> TAKE i \in 1 .. n
    <3> HIDE DEF A, Round
    <3>0. i - 1 \in 0 .. n  BY <1>1
    <3>1. F[i - 1] \in A  BY <3>0
    <3> QED BY <1>3, <3>1
  <2> HIDE DEF Round, s0
  <2>2. \A i \in 0 .. n : F[i] = Row(i, F)  BY <1>1, <1>3, <2>1
  <2>3. F = [i \in 0 .. n |-> F[i]]  OBVIOUS
  <2> HIDE DEF Row
  <2> QED BY <2>2, <2>3
<1>5. W = [i \in 0 .. n |-> Row(i, W)]
  <2> HIDE DEF Row
  <2> QED BY <1>4
<1> HIDE DEF W
<1>6. W[0] = s0 /\ \A i \in 1 .. n : W[i] = Round(W[i - 1])
  <2>1. \A i \in 0 .. n : W[i] = Row(i, W)
    <3> HIDE DEF Row
    <3> QED BY <1>5
  <2> HIDE DEF Round, s0
  <2> QED BY <1>1, <2>1
<1>7. PICK K : Keeps(Values, s, keep, K)  BY <1>1, KeptUnrolls
<1>8. /\ K \in [0 .. n -> Seq(Values)] /\ K[0] = <<>> /\ Kept(s, keep) = K[n]
      /\ \A i \in 1 .. n : K[i] = IF s[i] \in keep THEN Append(K[i - 1], s[i]) ELSE K[i - 1]
  BY <1>1, <1>7 DEF Keeps
<1> DEFINE Kind(i) ==
             LET t == W[i]
                 c == Len(K[i])
             IN  /\ t \in A /\ c <= i /\ t.l.len = c + (n - i) /\ (i < n => t.i = c)
                 /\ \A j \in 1 .. c : t.l.arr[j] = K[i][j]
                 /\ \A j \in c + 1 .. c + (n - i) : t.l.arr[j] = s[j - c + i]
           T == {i \in Nat : i <= n => Kind(i)}
<1>9. 0 \in T
  <2>1. Len(K[0]) = 0  BY <1>8
  <2>2. W[0].l = l /\ W[0].i = 0  BY <1>6
  <2>3. \A j \in 0 + 1 .. 0 + (n - 0) : j - 0 + 0 = j /\ j \in 1 .. n  BY <1>1
  <2>4. n = 0 + (n - 0)  BY <1>1
  <2>5. l.len = n  BY DEF n
  <2>6. W[0] \in A  BY <1>6, <1>b
  <2> HIDE DEF A
  <2> QED BY <1>1, <2>1, <2>2, <2>3, <2>4, <2>5, <2>6
<1>10. ASSUME NEW i \in Nat, i \in T, i < n  PROVE i + 1 \in T
  <2> DEFINE t == W[i]
             a == t.l.arr
             k == K[i]
             c == Len(k)
             x == s[i + 1]
             u == W[i + 1]
             r == LI!AppendAt(t.l, c, LI!From(t.l, c + 1))
  <2>0. i + 1 \in 1 .. n /\ (i + 1) - 1 = i /\ i \in 0 .. n  BY <1>1, <1>10
  <2>1. /\ t \in A /\ t.l.len = c + (n - i) /\ t.i = c /\ c <= i
        /\ \A j \in 1 .. c : a[j] = k[j]
        /\ \A j \in c + 1 .. c + (n - i) : a[j] = s[j - c + i]
    <3>1. Kind(i)
      <4> HIDE DEF Kind
      <4> QED BY <1>1, <1>10
    <3> HIDE DEF A
    <3> QED BY <1>10, <3>1
  <2>2. k \in Seq(Values) /\ x \in Values
    <3>1. x \in Values  BY <1>1, <2>0, ElementOfSeq
    <3> QED BY <1>8, <2>0, <3>1
  <2>3. c \in Nat
    <3> HIDE DEF k
    <3> QED BY <2>2
  <2>4. u = Round(t)
    <3> HIDE DEF Round
    <3> QED BY <1>6, <2>0
  <2>5. K[i + 1] = IF x \in keep THEN Append(k, x) ELSE k  BY <1>8, <2>0
  <2>6. u \in A
    <3> HIDE DEF A, Round
    <3> QED BY <1>d, <2>1, <2>4
  <2>7. t.l \in Fitting /\ t.i < t.l.len /\ c + 1 \in c + 1 .. c + (n - i) /\ (c + 1) - c + i = i + 1
    BY <1>1, <1>10, <2>1, <2>3
  <2>8. a[c + 1] = x  BY <2>1, <2>7
  <2>9. /\ x \notin f => u = [l |-> t.l, i |-> c + 1]
        /\ x \in f /\ c = n - 1 => u = [l |-> [t.l EXCEPT !.len = c], i |-> c + 1]
        /\ x \in f /\ c # n - 1 => u = [l |-> r, i |-> c]
    <3> HIDE DEF A, Round
    <3> QED BY <1>c, <2>1, <2>4, <2>7, <2>8
  <2>10. Shifted(r, t.l, c)
    <3>1. c \in 0 .. t.l.len - 1  BY <1>1, <1>10, <2>1, <2>3
    <3> QED BY <2>7, <3>1, Shifts
  <2>11. x \in keep <=> x \notin f  BY <2>2
  <2> HIDE DEF Kind, T, keep
  <2> SUFFICES Kind(i + 1)  BY DEF T
  <2>12. CASE x \notin f
    <3> DEFINE d == Append(k, x)
    <3>1. K[i + 1] = d /\ Len(d) = c + 1 /\ d[c + 1] = x /\ \A j \in 1 .. c : d[j] = k[j]
      BY <2>2, <2>5, <2>11, <2>12, AppendProperties
    <3>2. u.l = t.l /\ u.i = c + 1  BY <2>9, <2>12
    <3> HIDE DEF t, a, k, c, x, u, r, d, A
    <3>3. \A j \in 1 .. c + 1 : a[j] = d[j]
      <4> TAKE j \in 1 .. c + 1
      <4>1. j = c + 1 \/ j \in 1 .. c  BY <2>3
      <4> QED BY <2>1, <2>8, <3>1, <4>1
    <3>4. c + (n - i) = (c + 1) + (n - (i + 1))  BY <1>1, <2>3
    <3>5. \A j \in (c + 1) + 1 .. (c + 1) + (n - (i + 1)) : a[j] = s[j - (c + 1) + (i + 1)]
      <4> TAKE j \in (c + 1) + 1 .. (c + 1) + (n - (i + 1))
      <4>1. j \in c + 1 .. c + (n - i) /\ j - c + i = j - (c + 1) + (i + 1)  BY <1>1, <2>3
      <4> QED BY <2>1, <4>1
    <3>6. c + 1 <= i + 1  BY <2>1, <2>3
    <3>7. Len(K[i + 1]) = c + 1 /\ u.l.arr = a  BY <3>1, <3>2 DEF a
    <3> QED BY <2>1, <2>6, <3>1, <3>2, <3>3, <3>4, <3>5, <3>6, <3>7 DEF Kind, u
  <2>13. CASE x \in f /\ c = n - 1
    <3>1. K[i + 1] = k  BY <2>5, <2>11, <2>13
    <3>2. u.l = [t.l EXCEPT !.len = c]  BY <2>9, <2>13
    <3>3. i = n - 1  BY <1>1, <1>10, <2>1, <2>3, <2>13
    <3>4. u.l.len = c /\ u.l.arr = a  BY <2>7, <3>2 DEF Fitting, Lists
    <3> HIDE DEF t, a, k, c, x, u, r, A
    <3>5. c = c + (n - (i + 1)) /\ ~(i + 1 < n) /\ c <= i + 1  BY <1>1, <2>1, <2>3, <3>3
    <3>6. \A j \in c + 1 .. c + (n - (i + 1)) : FALSE  BY <2>3, <3>5
    <3>7. Len(K[i + 1]) = c  BY <3>1 DEF c
    <3> QED BY <2>1, <2>6, <3>1, <3>4, <3>5, <3>6, <3>7 DEF Kind, u
  <2>14. CASE x \in f /\ c # n - 1
    <3>1. K[i + 1] = k  BY <2>5, <2>11, <2>14
    <3>2. u.l = r /\ u.i = c  BY <2>9, <2>14
    <3>a. /\ r.len = t.l.len - 1
          /\ \A j \in 1 .. c : r.arr[j] = t.l.arr[j]
          /\ \A j \in c + 1 .. t.l.len - 1 : r.arr[j] = t.l.arr[j + 1]
      <4> HIDE DEF r, t, c
      <4> QED BY <2>10 DEF Shifted
    <3> HIDE DEF t, k, c, x, u, r, A
    <3>3. r.len = c + (n - (i + 1))  BY <1>1, <2>1, <2>3, <3>a
    <3>4. \A j \in 1 .. c : r.arr[j] = k[j]  BY <2>1, <3>a
    <3>5. \A j \in c + 1 .. c + (n - (i + 1)) : r.arr[j] = s[j - c + (i + 1)]
      <4> TAKE j \in c + 1 .. c + (n - (i + 1))
      <4>1. j \in c + 1 .. t.l.len - 1  BY <1>1, <2>1, <2>3
      <4>2. j + 1 \in c + 1 .. c + (n - i) /\ (j + 1) - c + i = j - c + (i + 1)  BY <1>1, <2>3
      <4> QED BY <2>1, <3>a, <4>1, <4>2
    <3>6. c <= i + 1  BY <2>1, <2>3
    <3>7. Len(K[i + 1]) = c  BY <3>1 DEF c
    <3> QED BY <2>6, <3>1, <3>2, <3>3, <3>4, <3>5, <3>6, <3>7 DEF Kind, u
  <2> QED BY <2>12, <2>13, <2>14
<1>11. Kind(n)
  <2> HIDE DEF Kind
  <2>1. \A i \in Nat : i \in T /\ i < n => i + 1 \in T  BY <1>10
  <2>2. 0 \in T  BY <1>9
  <2> HIDE DEF T
  <2>3. \A i \in 0 .. n : i \in T  BY <1>1, <2>1, <2>2, Induction
  <2> QED BY <1>1, <2>3 DEF T
<1>12. LI!DeleteIf(l, f) = W[n].l
  <2>1. CASE n < 1
    <3>1. n = 0  BY <1>1, <2>1
    <3>2. W[0] = s0  BY <1>6
    <3> HIDE DEF s0
    <3> QED BY <1>2, <2>1, <3>1, <3>2
  <2>2. CASE ~(n < 1)  BY <1>2, <2>2
  <2> QED BY <2>1, <2>2
<1> DEFINE k == K[n]
           r == W[n].l
<1>13. k \in Seq(Values) /\ Len(k) \in Nat
  <2>1. k \in Seq(Values)  BY <1>1, <1>8
  <2> HIDE DEF k
  <2> QED BY <2>1
<1>14. r \in Fitting /\ r.len = Len(k) + (n - n) /\ \A j \in 1 .. Len(k) : r.arr[j] = k[j]  BY <1>11
<1> HIDE DEF k, r
<1>15. r.len = Len(k)  BY <1>1, <1>13, <1>14
<1>16. r \in Lists /\ r.len <= Len(r.arr)  BY <1>14 DEF Fitting
<1>17. HoldsList(r, k)  BY <1>13, <1>14, <1>15, <1>16 DEF HoldsList
<1> QED BY <1>8, <1>12, <1>17 DEF k, r

-----------------------------------------------------------------------------
(* The values of a list without their repetitions *)

(* F[i] is what Unique has of the first i items. *)
Dedupes(S, s, F) ==
  /\ F \in [0 .. Len(s) -> Seq(S)] /\ F[0] = <<>> /\ LI!Distinct(s) = F[Len(s)]
  /\ \A i \in 1 .. Len(s) : F[i] = IF LI!Contain(F[i - 1], s[i]) THEN F[i - 1] ELSE Append(F[i - 1], s[i])

LEMMA DistinctUnrolls ==
    ASSUME NEW S, NEW s \in Seq(S)
    PROVE  \E F : Dedupes(S, s, F)
<1> DEFINE n == Len(s)
           A == Seq(S)
           Round(d, i) == IF LI!Contain(d, s[i]) THEN d ELSE Append(d, s[i])
           step == [i \in 1 .. n |-> [d \in A |-> Round(d, i)]]
           Row(i, F) == IF i = 0 THEN <<>> ELSE Round(F[i - 1], i)
           W == CHOOSE F : F = [i \in 0 .. n |-> Row(i, F)]
<1>0. n \in Nat /\ <<>> \in A /\ \A i \in 1 .. n : s[i] \in S  BY LenProperties, EmptySeq, ElementOfSeq
<1>1. \A d \in A : \A i \in 1 .. n : Round(d, i) \in A  BY <1>0, AppendProperties
<1> HIDE DEF n, Round
<1>2. PICK F \in [0 .. n -> A] : F[0] = <<>> /\ \A i \in 1 .. n : F[i] = step[i][F[i - 1]]
  <2>1. step \in [1 .. n -> [A -> A]]  BY <1>1
  <2> HIDE DEF step, A
  <2>2. PICK F : F \in Runs(A, <<>>, n, step)  BY <1>0, <2>1, Iterates
  <2> QED BY <2>2 DEF Runs
<1>3. \A i \in 1 .. n : F[i] = Round(F[i - 1], i)
  <2> TAKE i \in 1 .. n
  <2>1. F[i - 1] \in A  BY <1>0
  <2> HIDE DEF A
  <2> QED BY <1>2, <2>1
<1>4. F = [i \in 0 .. n |-> Row(i, F)]
  <2>1. \A i \in 0 .. n : F[i] = Row(i, F)  BY <1>0, <1>2, <1>3
  <2>2. F = [i \in 0 .. n |-> F[i]]  OBVIOUS
  <2> HIDE DEF Row
  <2> QED BY <2>1, <2>2
<1>5. W = [i \in 0 .. n |-> Row(i, W)]
  <2> HIDE DEF Row
  <2> QED BY <1>4
<1>6. LI!Distinct(s) = IF n < 1 THEN <<>> ELSE W[n]  BY DEF LI!Distinct, LI!Each, LI!For, n, Round
<1> HIDE DEF W
<1>7. W[0] = <<>> /\ \A i \in 1 .. n : W[i] = Round(W[i - 1], i)
  <2>1. \A i \in 0 .. n : W[i] = Row(i, W)
    <3> HIDE DEF Row
    <3> QED BY <1>5
  <2> QED BY <1>0, <2>1
<1>8. \A i \in 0 .. n : W[i] \in A
  <2> DEFINE T == {i \in Nat : i <= n => W[i] \in A}
  <2>1. 0 \in T  BY <1>0, <1>7
  <2>2. ASSUME NEW i \in Nat, i \in T, i < n  PROVE i + 1 \in T
    <3>1. i + 1 \in 1 .. n /\ (i + 1) - 1 = i /\ W[i] \in A  BY <1>0, <2>2
    <3> HIDE DEF A
    <3>2. W[i + 1] \in A  BY <1>1, <1>7, <3>1
    <3> QED BY <3>2
  <2> HIDE DEF T, A
  <2>3. \A i \in 0 .. n : i \in T  BY <1>0, <2>1, <2>2, Induction
  <2> QED BY <1>0, <2>3 DEF T
<1>9. W \in [0 .. n -> A]
  <2>1. W = [i \in 0 .. n |-> W[i]]
    <3> HIDE DEF Row
    <3> QED BY <1>5
  <2> HIDE DEF A
  <2> QED BY <1>8, <2>1
<1>10. LI!Distinct(s) = W[n]
  <2>1. CASE n < 1  BY <2>1, <1>0, <1>6, <1>7
  <2>2. CASE ~(n < 1)  BY <2>2, <1>6
  <2> QED BY <2>1, <2>2
<1>11. \A i \in 1 .. Len(s) : W[i] = IF LI!Contain(W[i - 1], s[i]) THEN W[i - 1] ELSE Append(W[i - 1], s[i])
  BY <1>7 DEF n, Round
<1>12. W \in [0 .. Len(s) -> Seq(S)] /\ W[0] = <<>> /\ LI!Distinct(s) = W[Len(s)]  BY <1>7, <1>9, <1>10 DEF n
<1> HIDE DEF A
<1>13. Dedupes(S, s, W)  BY <1>11, <1>12 DEF Dedupes
<1> QED BY <1>13

LEMMA ListCardinality ==
    ASSUME NEW S
    PROVE  LI!Cardinality(S) = Cardinality(S)
BY DEF LI!Cardinality, Cardinality

(* How many values come first among the first r. *)
Rank(s, r) == Cardinality({j \in LI!Firsts(s) : j <= r})

LEMMA Ranks ==
    ASSUME NEW S, NEW s \in Seq(S)
    PROVE  /\ \A r \in Nat : Rank(s, r) \in Nat
           /\ Rank(s, 0) = 0 /\ Rank(s, Len(s)) = Cardinality(LI!Firsts(s))
           /\ \A r \in Nat : Rank(s, r + 1) = IF r + 1 \in LI!Firsts(s) THEN Rank(s, r) + 1 ELSE Rank(s, r)
           /\ \A q, r \in Nat : q <= r => Rank(s, q) <= Rank(s, r)
           /\ \A i, j \in LI!Firsts(s) : Rank(s, i) = Rank(s, j) => i = j
<1> DEFINE F == LI!Firsts(s)
           Upto(r) == {j \in F : j <= r}
<1>1. Len(s) \in Nat /\ F \subseteq 1 .. Len(s)  BY DEF LI!Firsts
<1> HIDE DEF F
<1>0. \A j \in F : j \in Nat /\ j >= 1 /\ j <= Len(s)  BY <1>1
<1>2. ASSUME NEW r \in Nat  PROVE IsFiniteSet(Upto(r)) /\ Rank(s, r) \in Nat /\ Rank(s, r) = Cardinality(Upto(r))
  <2>1. IsFiniteSet(1 .. Len(s))  BY <1>1, FS_Interval
  <2>2. Upto(r) \subseteq 1 .. Len(s)  BY <1>1
  <2>3. Rank(s, r) = Cardinality(Upto(r))  BY DEF Rank, F
  <2> HIDE DEF Upto
  <2>4. IsFiniteSet(Upto(r))  BY <2>1, <2>2, FS_Subset
  <2> QED BY <2>3, <2>4, FS_CardinalityType
<1>3. Rank(s, 0) = 0
  <2>1. Upto(0) = {}
    <3>1. \A j \in F : ~(j <= 0)  BY <1>0
    <3> QED BY <3>1
  <2> HIDE DEF Upto
  <2> QED BY <1>2, <2>1, FS_EmptySet
<1>4. Rank(s, Len(s)) = Cardinality(F)
  <2>1. Upto(Len(s)) = F  BY <1>0
  <2> QED BY <1>1, <1>2, <2>1
<1>5. ASSUME NEW r \in Nat  PROVE Rank(s, r + 1) = IF r + 1 \in F THEN Rank(s, r) + 1 ELSE Rank(s, r)
  <2>1. CASE r + 1 \in F
    <3>1. Upto(r + 1) = Upto(r) \cup {r + 1} /\ r + 1 \notin Upto(r)
      <4>1. \A j \in F : j \in Nat  BY <1>1
      <4>2. \A j \in F : j <= r + 1 <=> j <= r \/ j = r + 1  BY <4>1
      <4> QED BY <2>1, <4>1, <4>2
    <3> HIDE DEF Upto
    <3>2. Cardinality(Upto(r) \cup {r + 1}) = Cardinality(Upto(r)) + 1  BY <1>2, <3>1, FS_AddElement
    <3>3. Rank(s, r + 1) = Cardinality(Upto(r + 1)) /\ Rank(s, r) = Cardinality(Upto(r))  BY <1>2
    <3> QED BY <2>1, <3>1, <3>2, <3>3
  <2>2. CASE r + 1 \notin F
    <3>1. Upto(r + 1) = Upto(r)
      <4>1. \A j \in F : j \in Nat /\ j # r + 1  BY <1>1, <2>2
      <4>2. \A j \in F : j <= r + 1 <=> j <= r  BY <4>1
      <4> QED BY <4>2
    <3> HIDE DEF Upto
    <3> QED BY <1>2, <2>2, <3>1
  <2> QED BY <2>1, <2>2
<1>6. ASSUME NEW q \in Nat, NEW r \in Nat, q <= r  PROVE Rank(s, q) <= Rank(s, r)
  <2>1. Upto(q) \subseteq Upto(r)
    <3>1. \A j \in F : j \in Nat  BY <1>1
    <3> QED BY <1>6, <3>1
  <2> HIDE DEF Upto
  <2> QED BY <1>2, <2>1, FS_Subset
<1>7. ASSUME NEW i \in F, NEW j \in F, i < j  PROVE Rank(s, i) < Rank(s, j)
  <2>1. i \in Nat /\ j \in Nat /\ j - 1 \in Nat /\ i <= j - 1 /\ (j - 1) + 1 = j  BY <1>1, <1>7
  <2>2. Rank(s, j) = Rank(s, j - 1) + 1  BY <1>5, <2>1
  <2>3. Rank(s, i) <= Rank(s, j - 1)  BY <1>6, <2>1
  <2>4. Rank(s, i) \in Nat /\ Rank(s, j - 1) \in Nat  BY <1>2, <2>1
  <2> QED BY <2>2, <2>3, <2>4
<1>8. ASSUME NEW i \in F, NEW j \in F, Rank(s, i) = Rank(s, j)  PROVE i = j
  <2>1. i \in Nat /\ j \in Nat /\ Rank(s, i) \in Nat /\ Rank(s, j) \in Nat  BY <1>0, <1>2
  <2>2. ~(i < j) /\ ~(j < i)  BY <1>7, <1>8, <2>1
  <2> QED BY <2>1, <2>2
<1> QED BY <1>2, <1>3, <1>4, <1>5, <1>6, <1>8 DEF F

(* The values in the order in which each comes first. *)
Deduped(s) == [k \in 1 .. LI!Cardinality(LI!Firsts(s)) |-> s[LI!First(s, k)]]

(* Unique keeps every value, and each where it comes first. *)
LEMMA DistinctIs ==
    ASSUME NEW S, NEW s \in Seq(S)
    PROVE  /\ LI!Distinct(s) \in Seq(S) /\ LI!Distinct(s) = Deduped(s)
           /\ LI!Elements(LI!Distinct(s)) = LI!Elements(s)
<1>a. PICK F : Dedupes(S, s, F)  BY DistinctUnrolls
<1> DEFINE n == Len(s)
           U == LI!Firsts(s)
<1>1. /\ F \in [0 .. n -> Seq(S)] /\ F[0] = <<>> /\ LI!Distinct(s) = F[n]
      /\ \A i \in 1 .. n : F[i] = IF LI!Contain(F[i - 1], s[i]) THEN F[i - 1] ELSE Append(F[i - 1], s[i])
  BY <1>a DEF Dedupes
<1>2. n \in Nat /\ \A i \in 1 .. n : s[i] \in S  BY LenProperties, ElementOfSeq
<1>3. \A i : i \in U <=> i \in 1 .. n /\ \A j \in 1 .. i - 1 : s[j] # s[i]  BY <1>2 DEF LI!Firsts
<1>4. /\ \A r \in Nat : Rank(s, r) \in Nat
      /\ Rank(s, 0) = 0 /\ Rank(s, n) = LI!Cardinality(U)
      /\ \A r \in Nat : Rank(s, r + 1) = IF r + 1 \in U THEN Rank(s, r) + 1 ELSE Rank(s, r)
      /\ \A i, j \in U : Rank(s, i) = Rank(s, j) => i = j
  BY Ranks, ListCardinality
<1> HIDE DEF n, U
<1> DEFINE Kind(r) == /\ Len(F[r]) = Rank(s, r)
                      /\ \A k \in 1 .. Len(F[r]) : \E i \in 1 .. r : i \in U /\ Rank(s, i) = k /\ F[r][k] = s[i]
                      /\ \A j \in 1 .. r : \E k \in 1 .. Len(F[r]) : F[r][k] = s[j]
           T == {r \in Nat : r <= n => Kind(r)}
<1>5. 0 \in T
  <2>1. Len(F[0]) = 0  BY <1>1
  <2>2. \A j : j \notin 1 .. 0  OBVIOUS
  <2>3. Kind(0)  BY <1>4, <2>1, <2>2
  <2> HIDE DEF Kind
  <2> QED BY <2>3
<1>6. ASSUME NEW r \in Nat, r \in T, r < n  PROVE r + 1 \in T
  <2> DEFINE d == F[r]
             e == F[r + 1]
             x == s[r + 1]
             m == Len(d)
  <2>1. r + 1 \in 1 .. n /\ (r + 1) - 1 = r /\ r \in 0 .. n  BY <1>2, <1>6
  <2>2. d \in Seq(S) /\ x \in S  BY <1>1, <1>2, <2>1
  <2>3. m \in Nat /\ DOMAIN d = 1 .. m
    <3> HIDE DEF d
    <3> QED BY <2>2
  <2>4. Kind(r)
    <3> HIDE DEF Kind
    <3> QED BY <1>2, <1>6
  <2>5. e = IF LI!Contain(d, x) THEN d ELSE Append(d, x)  BY <1>1, <2>1
  <2>6. LI!Contain(d, x) <=> r + 1 \notin U
    <3>1. ASSUME LI!Contain(d, x)  PROVE r + 1 \notin U
      <4>1. PICK k \in 1 .. m : d[k] = x  BY <2>3, <3>1 DEF LI!Contain
      <4>2. PICK i \in 1 .. r : d[k] = s[i]  BY <2>4, <4>1
      <4>3. i \in 1 .. (r + 1) - 1 /\ s[i] = s[r + 1]  BY <2>1, <4>1, <4>2
      <4> QED BY <1>3, <4>3
    <3>2. ASSUME r + 1 \notin U  PROVE LI!Contain(d, x)
      <4>1. PICK j \in 1 .. r : s[j] = x  BY <1>3, <2>1, <3>2
      <4>2. PICK k \in 1 .. m : d[k] = s[j]  BY <2>4, <4>1
      <4> QED BY <2>3, <4>1, <4>2 DEF LI!Contain
    <3> QED BY <3>1, <3>2
  <2>7. \A i : i \in 1 .. r + 1 <=> i \in 1 .. r \/ i = r + 1  BY <2>1
  <2>8. Rank(s, r + 1) = IF r + 1 \in U THEN Rank(s, r) + 1 ELSE Rank(s, r)  BY <1>4
  <2>9. ASSUME r + 1 \in U  PROVE Kind(r + 1)
    <3>1. e = Append(d, x)  BY <2>5, <2>6, <2>9
    <3>2. Len(e) = m + 1 /\ e[m + 1] = x /\ \A k \in 1 .. m : e[k] = d[k]  BY <2>2, <3>1, AppendProperties
    <3> HIDE DEF d, e, x, m
    <3>3. Len(e) = Rank(s, r + 1) /\ Rank(s, r) = m  BY <2>4, <2>8, <2>9, <3>2 DEF d, m
    <3>4. \A k \in 1 .. m + 1 : k \in 1 .. m \/ k = m + 1  BY <2>3
    <3>5. ASSUME NEW k \in 1 .. Len(e)
          PROVE  \E i \in 1 .. r + 1 : i \in U /\ Rank(s, i) = k /\ e[k] = s[i]
      <4>1. CASE k = m + 1
        <5>1. Rank(s, r + 1) = k /\ e[k] = s[r + 1] /\ r + 1 \in 1 .. r + 1  BY <2>7, <3>2, <3>3, <4>1 DEF x
        <5> QED BY <2>9, <5>1
      <4>2. CASE k \in 1 .. m
        <5>1. PICK i \in 1 .. r : i \in U /\ Rank(s, i) = k /\ d[k] = s[i]  BY <2>4, <4>2 DEF d, m
        <5>2. i \in 1 .. r + 1 /\ e[k] = s[i]  BY <2>7, <3>2, <4>2, <5>1
        <5> QED BY <5>1, <5>2
      <4> QED BY <3>2, <3>4, <4>1, <4>2
    <3>6. ASSUME NEW j \in 1 .. r + 1  PROVE \E k \in 1 .. Len(e) : e[k] = s[j]
      <4>1. CASE j = r + 1
        <5>1. m + 1 \in 1 .. Len(e) /\ e[m + 1] = s[j]  BY <2>3, <3>2, <4>1 DEF x
        <5> QED BY <5>1
      <4>2. CASE j \in 1 .. r
        <5>1. PICK k \in 1 .. m : d[k] = s[j]  BY <2>4, <4>2 DEF d, m
        <5>2. k \in 1 .. Len(e) /\ e[k] = s[j]  BY <2>3, <3>2, <5>1
        <5> QED BY <5>2
      <4> QED BY <2>7, <4>1, <4>2
    <3> QED BY <3>3, <3>5, <3>6 DEF e
  <2>10. ASSUME r + 1 \notin U  PROVE Kind(r + 1)
    <3>1. e = d /\ Rank(s, r + 1) = Rank(s, r)  BY <2>5, <2>6, <2>8, <2>10
    <3>2. PICK k0 \in 1 .. m : d[k0] = x  BY <2>3, <2>6, <2>10 DEF LI!Contain
    <3>3. Len(d) = Rank(s, r)  BY <2>4
    <3>4. ASSUME NEW k \in 1 .. m  PROVE \E i \in 1 .. r + 1 : i \in U /\ Rank(s, i) = k /\ d[k] = s[i]
      BY <2>4, <2>7
    <3>5. ASSUME NEW j \in 1 .. r + 1  PROVE \E k \in 1 .. m : d[k] = s[j]
      <4>1. CASE j = r + 1  BY <3>2, <4>1
      <4>2. CASE j \in 1 .. r  BY <2>4, <4>2
      <4> QED BY <2>7, <4>1, <4>2
    <3> QED BY <3>1, <3>3, <3>4, <3>5
  <2>11. Kind(r + 1)  BY <2>9, <2>10
  <2> HIDE DEF Kind
  <2> QED BY <2>11
<1>7. Kind(n)
  <2> HIDE DEF Kind
  <2>1. \A r \in Nat : r \in T /\ r < n => r + 1 \in T  BY <1>6
  <2>2. 0 \in T  BY <1>5
  <2> HIDE DEF T
  <2>3. \A r \in 0 .. n : r \in T  BY <1>2, <2>1, <2>2, Induction
  <2> QED BY <1>2, <2>3 DEF T
<1> DEFINE d == LI!Distinct(s)
           c == LI!Cardinality(U)
           p == [k \in 1 .. c |-> s[LI!First(s, k)]]
<1>8. d \in Seq(S) /\ Len(d) = c
  <2>1. F[n] \in Seq(S)  BY <1>1, <1>2
  <2> QED BY <1>1, <1>4, <1>7, <2>1
<1>9. /\ \A k \in 1 .. c : \E i \in 1 .. n : i \in U /\ Rank(s, i) = k /\ d[k] = s[i]
      /\ \A j \in 1 .. n : \E k \in 1 .. c : d[k] = s[j]
  BY <1>1, <1>4, <1>7
<1> HIDE DEF d, c, Kind, T
<1>10. d \in [1 .. c -> S] /\ DOMAIN d = 1 .. c  BY <1>8, LenProperties
<1>11. ASSUME NEW k \in 1 .. c  PROVE d[k] = s[LI!First(s, k)]
  <2>1. PICK i \in U : Rank(s, i) = k /\ d[k] = s[i]  BY <1>9
  <2>2. \A j \in U : LI!Cardinality({m \in U : m <= j}) = Rank(s, j)  BY ListCardinality DEF Rank, U
  <2>3. LI!First(s, k) = CHOOSE j \in U : LI!Cardinality({m \in U : m <= j}) = k  BY DEF LI!First, U
  <2>4. \A j \in U : LI!Cardinality({m \in U : m <= j}) = k <=> j = i  BY ZenonT(40), <1>4, <2>1, <2>2
  <2>5. LI!First(s, k) = i  BY <2>3, <2>4
  <2> QED BY <2>1, <2>5
<1>12. d = p
  <2>1. d = [k \in 1 .. c |-> d[k]]  BY <1>10
  <2> QED BY <1>11, <2>1
<1>13. LI!Elements(d) = LI!Elements(s)
  <2>1. LI!Elements(d) = {d[k] : k \in 1 .. c}  BY <1>10 DEF LI!Elements
  <2>2. LI!Elements(s) = {s[j] : j \in 1 .. n}
    <3>1. DOMAIN s = 1 .. n  BY DEF n
    <3> QED BY <3>1 DEF LI!Elements
  <2>3. \A k \in 1 .. c : d[k] \in {s[j] : j \in 1 .. n}  BY <1>9
  <2>4. \A j \in 1 .. n : s[j] \in {d[k] : k \in 1 .. c}  BY <1>9
  <2>5. {d[k] : k \in 1 .. c} = {s[j] : j \in 1 .. n}  BY <2>3, <2>4
  <2> QED BY <2>1, <2>2, <2>5
<1> QED BY <1>8, <1>12, <1>13 DEF d, p, c, U, Deduped

-----------------------------------------------------------------------------
(* All the operations of List *)

LEMMA TurnedWhole ==
    ASSUME NEW s \in Seq(Values)
    PROVE  Turned(s, Len(s)) = [i \in DOMAIN s |-> s[Len(s) + 1 - i]]
<1>1. Len(s) \in Nat /\ DOMAIN s = 1 .. Len(s)  OBVIOUS
<1>2. \A k \in 1 .. Len(s) : k <= Len(s)  BY <1>1
<1> QED BY <1>1, <1>2 DEF Turned

LEMMA ListUniques ==
    ASSUME NEW l, NEW s, HoldsList(l, s)
    PROVE  HoldsList(LI!Unique(l), Deduped(s))
<1>1. l \in Lists /\ s \in Seq(Values) /\ l.len <= Len(l.arr)  BY DEF HoldsList
<1>2. LI!Data(l) = s  BY <1>1, HoldsIs
<1> DEFINE d == LI!Distinct(s)
<1>3. LI!Unique(l) = [l EXCEPT !.arr = d, !.len = Len(d)]  BY <1>2 DEF LI!Unique
<1>4. d \in Seq(Values) /\ d = Deduped(s)  BY <1>1, DistinctIs
<1> HIDE DEF d
<1>5. d \in Seq(ListSlots) /\ Len(d) \in Nat  BY <1>4, InSlots
<1> DEFINE r == LI!Unique(l)
<1>6. r \in Lists /\ r.arr = d /\ r.len = Len(d)  BY <1>1, <1>3, <1>5 DEF Lists
<1> HIDE DEF r
<1>7. HoldsList(r, d)  BY <1>4, <1>5, <1>6 DEF HoldsList
<1> QED BY <1>4, <1>7 DEF r

LEMMA ListStarts ==
    ASSUME LI!Init
    PROVE  HoldsList(obj, want)
<1>1. PICK o \in Others : obj = [type |-> "List", arr |-> o, len |-> Len(o)] /\ want = o  BY DEF LI!Init
<1>2. o \in Seq(Values)  BY ContainersAssumption DEF ContainersAssumption
<1>3. o \in Seq(ListSlots) /\ Len(o) \in Nat  BY <1>2, InSlots
<1> QED BY <1>1, <1>2, <1>3 DEF HoldsList, Lists

(* Whichever operation is done, the list holds what was asked for. *)
LEMMA ListSteps ==
    ASSUME HoldsList(obj, want), [LI!Next]_(LI!vars)
    PROVE  HoldsList(obj, want)'
<1>1. ASSUME NEW l, NEW s, HoldsList(l, s), LI!Change(l, s)  PROVE HoldsList(obj, want)'
  BY <1>1 DEF LI!Change, HoldsList, Lists
<1>2. obj \in Lists /\ want \in Seq(Values) /\ Len(want) \in Nat /\ LI!Indexes \subseteq Int /\ Others \subseteq Seq(Values)
  BY ContainersAssumption DEF HoldsList, LI!Indexes, ContainersAssumption
<1>3. CASE LI!Push
  <2>1. PICK v \in Values : LI!Change(LI!AppendAt(obj, obj.len, <<v>>), Append(want, v))  BY <1>3 DEF LI!Push
  <2>2. HoldsList(LI!AppendAt(obj, obj.len, <<v>>), Append(want, v))  BY ListPushes
  <2> QED BY <1>1, <2>1, <2>2
<1>4. CASE LI!Insert
  <2>1. PICK v \in Values, i \in LI!Indexes : LI!Change(LI!InsertAt(obj, i, v), Inserted(want, i, v))
    BY <1>4 DEF LI!Insert, Inserted
  <2>2. i \in Int  BY <1>2
  <2>3. HoldsList(LI!InsertAt(obj, i, v), Inserted(want, i, v))  BY <2>2, ListInserts
  <2> QED BY <1>1, <2>1, <2>3
<1>5. CASE LI!Update
  <2>1. PICK v \in Values, i \in LI!Indexes : LI!Change(LI!UpdateAt(obj, i, v), Updated(want, i, v))
    BY <1>5 DEF LI!Update, Updated
  <2>2. i \in Int  BY <1>2
  <2>3. HoldsList(LI!UpdateAt(obj, i, v), Updated(want, i, v))  BY <2>2, ListUpdates
  <2> QED BY <1>1, <2>1, <2>3
<1>6. CASE LI!Remove
  <2>1. PICK i \in LI!Indexes : LI!Change(LI!DeleteAt(obj, i), Removed(want, i))
    BY <1>6 DEF LI!Remove, Removed
  <2>2. i \in Int  BY <1>2
  <2>3. HoldsList(LI!DeleteAt(obj, i), Removed(want, i))  BY <2>2, ListDeletes
  <2> QED BY <1>1, <2>1, <2>3
<1>7. CASE LI!Pop
  <2>1. \/ LI!Change(LI!PopFirst(obj), IF want = <<>> THEN want ELSE Tail(want))
        \/ LI!Change(LI!PopLast(obj), LI!Cut(want, Len(want) - 1, <<>>, Len(want)))
    BY <1>7 DEF LI!Pop
  <2>2. /\ HoldsList(LI!PopFirst(obj), IF want = <<>> THEN want ELSE Tail(want))
        /\ HoldsList(LI!PopLast(obj), LI!Cut(want, Len(want) - 1, <<>>, Len(want)))
    BY ListPops
  <2> QED BY <1>1, <2>1, <2>2
<1>8. CASE LI!RemoveIf
  <2>1. PICK f \in SUBSET Values : LI!Change(LI!DeleteIf(obj, f), LI!Kept(want, Values \ f))  BY <1>8 DEF LI!RemoveIf
  <2>2. HoldsList(LI!DeleteIf(obj, f), LI!Kept(want, Values \ f))  BY ListDeletesIf, ListKept
  <2> QED BY <1>1, <2>1, <2>2
<1>9. CASE LI!Retain
  <2>1. PICK o \in Others : \/ LI!Change(LI!RetainAll(obj, o), LI!Kept(want, LI!Elements(o)))
                            \/ LI!Change(LI!DeleteAll(obj, o), LI!Kept(want, Values \ LI!Elements(o)))
    BY <1>9 DEF LI!Retain
  <2> DEFINE in == LI!Elements(o)
             out == Values \ LI!Elements(o)
  <2>2. \A x \in Values : LI!Contain(o, x) \in BOOLEAN /\ (LI!Contain(o, x) <=> x \in LI!Elements(o))
    BY DEF LI!Contain, LI!Elements
  <2>3. \A x \in Values : /\ x \in in <=> LI!Contain(o, x) = TRUE
                          /\ x \in out <=> LI!Contain(o, x) = FALSE
    BY <2>2
  <2> HIDE DEF in, out
  <2>4. HoldsList(LI!RetainAll(obj, o), LI!Kept(want, in))
    <3>1. HoldsList(LI!batchRemove(obj, o, TRUE), Kept(want, in))  BY <2>3, ListRetains
    <3> QED BY <3>1, ListKept DEF LI!RetainAll
  <2>5. HoldsList(LI!DeleteAll(obj, o), LI!Kept(want, out))
    <3>1. HoldsList(LI!batchRemove(obj, o, FALSE), Kept(want, out))  BY <2>3, ListRetains
    <3> QED BY <3>1, ListKept DEF LI!DeleteAll
  <2> QED BY <1>1, <2>1, <2>4, <2>5 DEF in, out
<1>10. CASE LI!Exchange
  <2>1. PICK i, j \in LI!Indexes : LI!Change(LI!Swap(obj, i, j), Swapped(want, i, j))
    BY <1>10 DEF LI!Exchange, Swapped
  <2>2. i \in Int /\ j \in Int  BY <1>2
  <2>3. HoldsList(LI!Swap(obj, i, j), Swapped(want, i, j))  BY <2>2, ListSwaps
  <2> QED BY <1>1, <2>1, <2>3
<1>11. CASE LI!Turn
  <2>1. LI!Change(LI!Reverse(obj), Turned(want, Len(want)))  BY <1>2, <1>11, TurnedWhole DEF LI!Turn
  <2>2. HoldsList(LI!Reverse(obj), Turned(want, Len(want)))  BY ListTurns
  <2> QED BY <1>1, <2>1, <2>2
<1>12. CASE LI!Dedupe
  <2>1. LI!Change(LI!Unique(obj), Deduped(want))  BY <1>12 DEF LI!Dedupe, Deduped
  <2>2. HoldsList(LI!Unique(obj), Deduped(want))  BY ListUniques
  <2> QED BY <1>1, <2>1, <2>2
<1>13. CASE LI!MergeInto
  <2>1. PICK o \in Others : LI!Change(LI!Merge(obj, o), want)  BY <1>13 DEF LI!MergeInto
  <2>2. HoldsList(LI!Merge(obj, o), want)  BY <1>2, ListMerges
  <2> QED BY <1>1, <2>1, <2>2
<1>14. CASE LI!Clear
  <2> DEFINE l == [obj EXCEPT !.arr = <<>>, !.len = 0]
  <2>1. LI!Change(l, <<>>)  BY <1>14 DEF LI!Clear
  <2>2. <<>> \in Seq(ListSlots) /\ <<>> \in Seq(Values) /\ Len(<<>>) = 0  OBVIOUS
  <2>a. l \in Lists /\ l.arr = <<>> /\ l.len = 0  BY <1>2, <2>2 DEF Lists
  <2> HIDE DEF l
  <2>3. HoldsList(l, <<>>)  BY <2>2, <2>a DEF HoldsList
  <2> QED BY <1>1, <2>1, <2>3
<1>15. CASE UNCHANGED LI!vars
  <2>1. obj' = obj /\ want' = want  BY <1>15 DEF LI!vars
  <2> QED BY <2>1 DEF HoldsList, Lists
<1> QED BY <1>3, <1>4, <1>5, <1>6, <1>7, <1>8, <1>9, <1>10, <1>11, <1>12, <1>13, <1>14, <1>15 DEF LI!Next

LEMMA ListHolds ==
    LI!Inv <=> HoldsList(obj, want)
<1>1. ASSUME LI!Inv  PROVE HoldsList(obj, want)
  <2>1. obj \in Lists /\ obj.len <= Len(obj.arr) /\ want \in Seq(Values) /\ LI!Data(obj) = want
    BY <1>1 DEF LI!Inv, Lists, ListSlots
  <2> QED BY <2>1, HoldsIs
<1>2. ASSUME HoldsList(obj, want)  PROVE LI!Inv
  <2>1. obj \in Lists /\ obj.len <= Len(obj.arr) /\ want \in Seq(Values)  BY <1>2 DEF HoldsList
  <2>2. LI!Data(obj) = want  BY <1>2, <2>1, HoldsIs
  <2> QED BY <2>1, <2>2 DEF LI!Inv, Lists, ListSlots
<1> QED BY <1>1, <1>2

(* What every step of the list keeps holds in all its runs. *)
THEOREM ListHeld == LI!Spec => []LI!Inv
<1>1. LI!Init => LI!Inv  BY ListStarts, ListHolds
<1>2. LI!Inv /\ [LI!Next]_(LI!vars) => LI!Inv'
  <2> SUFFICES ASSUME LI!Inv, [LI!Next]_(LI!vars)  PROVE LI!Inv'  OBVIOUS
  <2>1. HoldsList(obj, want)  BY ListHolds
  <2>2. HoldsList(obj, want)'  BY <2>1, ListSteps
  <2>3. (HoldsList(obj, want) => LI!Inv)'  BY ListHolds, PTL
  <2> QED BY <2>2, <2>3
<1> QED BY <1>1, <1>2, PTL DEF LI!Spec

(* The last index of a value is the first in the list turned around. *)
LEMMA IndexTurned ==
    ASSUME NEW s \in Seq(Values), NEW v \in Values, LI!Contain(s, v)
    PROVE  LI!LastIndexOf(s, v) = Len(s) - 1 - LI!IndexOf(Turned(s, Len(s)), v)
<1> DEFINE n == Len(s)
           r == Turned(s, n)
           First(i) == r[i + 1] = v /\ \A j \in 1 .. i : r[j] # v
           LastAt(i) == s[i + 1] = v /\ \A j \in i + 2 .. n : s[j] # v
           Found == {i \in Nat : i < n /\ r[i + 1] = v}
<1>1. n \in Nat /\ DOMAIN s = 1 .. n  OBVIOUS
<1>2. r \in Seq(Values) /\ Len(r) = n /\ \A k \in 1 .. n : r[k] = s[n + 1 - k]
  <2>1. r \in Seq(Values) /\ Len(r) = n  BY <1>1, TurnedIs
  <2>2. r = [k \in 1 .. n |-> s[n + 1 - k]]  BY <1>1, TurnedWhole
  <2> QED BY <2>1, <2>2
<1> HIDE DEF r, n
<1>3. DOMAIN r = 1 .. n
  <2>1. r \in [1 .. n -> Values]  BY <1>2, LenProperties
  <2> QED BY <2>1
<1>4. Found # {} /\ LI!Contain(r, v)
  <2>1. PICK k \in 1 .. n : s[k] = v  BY <1>1 DEF LI!Contain
  <2>2. n + 1 - k \in 1 .. n /\ n + 1 - (n + 1 - k) = k  BY <1>1
  <2>3. r[n + 1 - k] = v  BY <1>2, <2>1, <2>2
  <2>4. n - k \in Nat /\ n - k < n /\ (n - k) + 1 = n + 1 - k  BY <1>1
  <2>5. n - k \in Found  BY <2>3, <2>4
  <2> QED BY <1>3, <2>2, <2>3, <2>5 DEF LI!Contain
<1>5. PICK i \in Found : \A j \in Found : i <= j
  <2>1. Found \subseteq Nat  OBVIOUS
  <2> HIDE DEF Found
  <2> QED BY <1>4, <2>1, Least
<1>6. i \in 0 .. n - 1 /\ First(i)
  <2>1. i \in Nat /\ i < n /\ r[i + 1] = v  BY <1>5
  <2>2. ASSUME NEW j \in 1 .. i, r[j] = v  PROVE FALSE
    <3>1. j - 1 \in Nat /\ j - 1 < n /\ (j - 1) + 1 = j /\ ~(i <= j - 1)  BY <1>1, <2>1
    <3>2. j - 1 \in Found  BY <2>2, <3>1
    <3> QED BY <1>5, <3>1, <3>2
  <2> QED BY <1>1, <2>1, <2>2
<1> HIDE DEF Found
<1>7. ASSUME NEW j \in 0 .. n - 1, First(j)  PROVE j = i
  <2>1. ~(i < j)
    <3>1. i < j => i + 1 \in 1 .. j  BY <1>1, <1>6
    <3> QED BY <1>6, <1>7, <3>1
  <2>2. ~(j < i)
    <3>1. j < i => j + 1 \in 1 .. i  BY <1>1, <1>6
    <3> QED BY <1>6, <1>7, <3>1
  <2> QED BY <1>1, <1>6, <2>1, <2>2
<1>8. LI!IndexOf(r, v) = i
  <2>1. LI!IndexOf(r, v) = CHOOSE j \in 0 .. n - 1 : First(j)  BY <1>2, <1>4 DEF LI!IndexOf
  <2> HIDE DEF First
  <2> QED BY <1>6, <1>7, <2>1
<1> DEFINE k == n - 1 - i
<1>9. k \in 0 .. n - 1 /\ LastAt(k)
  <2>1. i + 1 \in 1 .. n /\ n + 1 - (i + 1) = k + 1  BY <1>1, <1>6
  <2>2. s[k + 1] = v  BY <1>2, <1>6, <2>1
  <2>3. ASSUME NEW j \in k + 2 .. n  PROVE s[j] # v
    <3>1. n + 1 - j \in 1 .. i /\ n + 1 - j \in 1 .. n /\ n + 1 - (n + 1 - j) = j  BY <1>1, <1>6
    <3> QED BY <1>2, <1>6, <3>1
  <2> QED BY <1>1, <1>6, <2>2, <2>3
<1> HIDE DEF k
<1>10. ASSUME NEW j \in 0 .. n - 1, LastAt(j)  PROVE j = k
  <2>1. ~(j < k)
    <3>1. j < k => k + 1 \in j + 2 .. n  BY <1>1, <1>9
    <3> QED BY <1>9, <1>10, <3>1
  <2>2. ~(k < j)
    <3>1. k < j => j + 1 \in k + 2 .. n  BY <1>1, <1>9
    <3> QED BY <1>9, <1>10, <3>1
  <2> QED BY <1>1, <1>9, <2>1, <2>2
<1>11. LI!LastIndexOf(s, v) = k
  <2>1. LI!LastIndexOf(s, v) = CHOOSE j \in 0 .. n - 1 : LastAt(j)  BY DEF LI!LastIndexOf, n
  <2> HIDE DEF LastAt
  <2> QED BY <1>9, <1>10, <2>1
<1> QED BY <1>8, <1>11 DEF k, n, r

(* Whatever the values, the lists to start from and the bound: List        *)
(* (list.go) is the list that its insertions, deletions, exchanges and     *)
(* merges ask for, although they move the values within one array, and a   *)
(* value's last index is its first in the list turned around.              *)
THEOREM EditedInPlace == LI!Spec => []ListEditsInPlace
<1>1. LI!Inv => ListEditsInPlace
  <2> SUFFICES ASSUME LI!Inv PROVE ListEditsInPlace  OBVIOUS
  <2>1. HoldsList(obj, want) /\ want \in Seq(Values) /\ LI!Data(obj) = want  BY ListHolds DEF LI!Inv
  <2>2. LI!Data(LI!Reverse(obj)) = Turned(want, Len(want))
    <3> DEFINE r == LI!Reverse(obj)
               t == Turned(want, Len(want))
    <3>1. HoldsList(r, t)  BY <2>1, ListTurns
    <3> HIDE DEF r, t
    <3>2. r \in Lists /\ t \in Seq(Values) /\ r.len <= Len(r.arr)  BY <3>1 DEF HoldsList
    <3>3. LI!Data(r) = t  BY <3>1, <3>2, HoldsIs
    <3> QED BY <3>3 DEF r, t
  <2>3. \A v \in Values : LI!Contain(want, v) =>
          LI!LastIndexOf(want, v) = Len(want) - 1 - LI!IndexOf(LI!Data(LI!Reverse(obj)), v)
    BY <2>1, <2>2, IndexTurned
  <2> QED BY <2>1, <2>3 DEF ListEditsInPlace, LI!EditsInPlace
<1> QED BY <1>1, ListHeld, PTL

-----------------------------------------------------------------------------
(* The operations on two lists and the ones on two sets *)

(* q has the elements of S. *)
Enumerates(q, S) == q \in Seq(S) /\ {q[i] : i \in 1 .. Len(q)} = S

(* Iterate hands out the elements of a set, each of them once. *)
LEMMA SetListed ==
    ASSUME NEW S, IsFiniteSet(S)
    PROVE  Enumerates(LI!SX!SetToSeq(S), S)
<1> DEFINE c == Cardinality(S)
           Once(f) == \A a, b \in DOMAIN f : f[a] = f[b] => a = b
           v == CHOOSE f \in [1 .. c -> S] : Once(f)
<1>1. LI!SX!SetToSeq(S) = v
  <2>1. LI!SX!SetToSeq(S) = CHOOSE f \in [1 .. LI!SX!Cardinality(S) -> S] : LI!SX!IsInjective(f)
    BY DEF LI!SX!SetToSeq
  <2>2. LI!SX!Cardinality(S) = c  BY DEF LI!SX!Cardinality, Cardinality
  <2>3. \A f : LI!SX!IsInjective(f) <=> Once(f)  BY DEF LI!SX!IsInjective
  <2> HIDE DEF c, Once
  <2> QED BY <2>1, <2>2, <2>3
<1>2. c \in Nat /\ ExistsBijection(1 .. c, S)  BY FS_CardinalityType
<1> HIDE DEF c
<1>3. \E f \in [1 .. c -> S] : Once(f)
  BY <1>2 DEF ExistsBijection, Bijection, Injection, IsInjective
<1> HIDE DEF Once
<1>4. v \in [1 .. c -> S] /\ Once(v)  BY <1>3
<1> HIDE DEF v
<1>5. v \in Injection(1 .. c, S)  BY <1>4 DEF Once, Injection, IsInjective
<1>6. IsFiniteSet(1 .. c) /\ Cardinality(1 .. c) = c
  BY <1>2, FS_Interval
<1>7. v \in Surjection(1 .. c, S)  BY <1>5, <1>6, FS_Injection DEF c
<1>8. S = {v[i] : i \in 1 .. c}  BY <1>4, <1>7 DEF Surjection
<1>9. v \in Seq(S) /\ Len(v) = c  BY <1>2, <1>4, SeqDef, LenProperties
<1>10. S = {v[i] : i \in 1 .. Len(v)}  BY <1>8, <1>9
<1>11. Enumerates(v, S)  BY <1>9, <1>10 DEF Enumerates
<1> QED BY <1>1, <1>11

(* The set of the elements of S. *)
SetOf(S) == [x \in S |-> "in"]

LEMMA ElementsOf ==
    ASSUME NEW S, NEW s \in Seq(S)
    PROVE  /\ LI!Elements(s) = {s[i] : i \in 1 .. Len(s)} /\ LI!Elements(s) \subseteq S
           /\ IsFiniteSet(LI!Elements(s))
<1> DEFINE n == Len(s)
           f == [i \in 1 .. n |-> s[i]]
           E == LI!Elements(s)
<1>1. n \in Nat /\ DOMAIN s = 1 .. n /\ \A i \in 1 .. n : s[i] \in S  BY LenProperties, ElementOfSeq
<1>2. E = {s[i] : i \in 1 .. n}  BY <1>1 DEF LI!Elements
<1> HIDE DEF n, E
<1>3. f \in Surjection(1 .. n, E)
  <2>1. f \in [1 .. n -> E]  BY <1>2
  <2>2. \A y \in E : \E i \in 1 .. n : f[i] = y  BY <1>2
  <2> QED BY <2>1, <2>2 DEF Surjection
<1>4. IsFiniteSet(1 .. n)  BY <1>1, FS_Interval
<1> HIDE DEF f
<1>5. IsFiniteSet(E)  BY <1>3, <1>4, FS_Surjection
<1> QED BY <1>1, <1>2, <1>5 DEF E, n

LEMMA ElementsKept ==
    ASSUME NEW U, NEW q \in Seq(U), NEW keep
    PROVE  LI!Kept(q, keep) \in Seq(U) /\ LI!Elements(LI!Kept(q, keep)) = LI!Elements(q) \cap keep
<1> DEFINE k == Kept(q, keep)
<1>1. k \in Seq(U)  BY KeptIs
<1>3. {k[i] : i \in 1 .. Len(k)} = {q[i] : i \in 1 .. Len(q)} \cap keep
  <2>1. {Kept(q, keep)[i] : i \in 1 .. Len(Kept(q, keep))} = {q[i] : i \in 1 .. Len(q)} \cap keep  BY KeptIs
  <2> QED BY <2>1
<1>2. LI!Kept(q, keep) = k  BY ListKept
<1> HIDE DEF k
<1> QED BY <1>1, <1>2, <1>3, ElementsOf

(* The operations of Set on the sets of the elements of S and T. *)
LEMMA SetsAre ==
    ASSUME NEW S, IsFiniteSet(S), NEW T, IsFiniteSet(T)
    PROVE  /\ LI!SetUnion(SetOf(S), SetOf(T)) = SetOf(S \cup T)
           /\ LI!SetIntersection(SetOf(S), SetOf(T)) = SetOf(S \cap T)
           /\ LI!SetMinus(SetOf(S), SetOf(T)) = SetOf(S \ T)
           /\ LI!SetSymmetricDifference(SetOf(S), SetOf(T)) = SetOf((S \ T) \cup (T \ S))
<1>1. \A U : DOMAIN SetOf(U) = U  BY DEF SetOf
<1>2. \A U, q : LI!SetAdd(SetOf(U), q) = SetOf(U \cup LI!Elements(q))  BY <1>1 DEF LI!SetAdd, SetOf, LI!Elements
<1>3. LI!NewSet = SetOf({})  BY DEF LI!NewSet, SetOf
<1>4. ASSUME NEW U, IsFiniteSet(U)
      PROVE  /\ LI!SetValues(SetOf(U)) \in Seq(U) /\ LI!Elements(LI!SetValues(SetOf(U))) = U
  <2> DEFINE v == LI!SetValues(SetOf(U))
  <2>1. v = LI!SX!SetToSeq(U)  BY <1>1 DEF LI!SetValues
  <2> HIDE DEF v
  <2>a. Enumerates(v, U)  BY <1>4, <2>1, SetListed
  <2>2. v \in Seq(U) /\ {v[i] : i \in 1 .. Len(v)} = U  BY <2>a DEF Enumerates
  <2> HIDE DEF v
  <2>3. LI!Elements(v) = U  BY <2>2, ElementsOf
  <2> QED BY <2>2, <2>3 DEF v
<1>5. \A U, keep : \A q \in Seq(U) : LI!Elements(LI!Kept(q, keep)) = LI!Elements(q) \cap keep  BY ElementsKept
<1>6. ASSUME NEW U, IsFiniteSet(U), NEW keep
      PROVE  LI!SetKept(SetOf(U), keep) = SetOf(U \cap keep)
  <2> DEFINE v == LI!SetValues(SetOf(U))
             k == LI!Kept(v, keep)
  <2>1. v \in Seq(U) /\ LI!Elements(v) = U  BY <1>4, <1>6
  <2> HIDE DEF v
  <2>2. LI!Elements(k) = U \cap keep  BY <1>5, <2>1
  <2> HIDE DEF k
  <2>3. LI!SetKept(SetOf(U), keep) = LI!SetAdd(SetOf({}), k)  BY <1>3 DEF LI!SetKept, k, v
  <2>4. {} \cup LI!Elements(k) = U \cap keep  BY <2>2
  <2> QED BY <1>2, <2>3, <2>4
<1>7. LI!SetClone(SetOf(S)) = SetOf(S)
  <2> DEFINE v == LI!SetValues(SetOf(S))
  <2>1. LI!Elements(v) = S  BY <1>4
  <2>2. LI!SetClone(SetOf(S)) = LI!SetAdd(SetOf({}), v)  BY <1>3 DEF LI!SetClone
  <2> HIDE DEF v
  <2>3. {} \cup LI!Elements(v) = S  BY <2>1
  <2> QED BY <1>2, <2>2, <2>3
<1>8. LI!SetUnion(SetOf(S), SetOf(T)) = SetOf(S \cup T)
  <2> DEFINE v == LI!SetValues(SetOf(T))
  <2>1. LI!Elements(v) = T  BY <1>4
  <2>2. LI!SetUnion(SetOf(S), SetOf(T)) = LI!SetAdd(SetOf(S), v)  BY <1>7 DEF LI!SetUnion
  <2> HIDE DEF v
  <2> QED BY <1>2, <2>1, <2>2
<1>9. LI!SetIntersection(SetOf(S), SetOf(T)) = SetOf(S \cap T)
  BY <1>1, <1>6 DEF LI!SetIntersection
<1>10. LI!SetMinus(SetOf(S), SetOf(T)) = SetOf(S \ T)
  <2>1. LI!SetMinus(SetOf(S), SetOf(T)) = LI!SetKept(SetOf(S), S \ T)  BY <1>1 DEF LI!SetMinus
  <2>2. S \cap (S \ T) = S \ T  OBVIOUS
  <2> QED BY <1>6, <2>1, <2>2
<1>11. LI!SetSymmetricDifference(SetOf(S), SetOf(T)) = SetOf((S \ T) \cup (T \ S))
  <2> DEFINE v == LI!SetValues(SetOf(T))
             k == LI!Kept(v, T \ S)
  <2>1. v \in Seq(T) /\ LI!Elements(v) = T  BY <1>4
  <2>2. LI!SetSymmetricDifference(SetOf(S), SetOf(T)) = LI!SetAdd(SetOf(S \ T), k)
    BY <1>1, <1>10 DEF LI!SetSymmetricDifference
  <2> HIDE DEF v
  <2>3. LI!Elements(k) = T \cap (T \ S)  BY <1>5, <2>1
  <2>4. T \cap (T \ S) = T \ S  OBVIOUS
  <2> HIDE DEF k
  <2> QED BY <1>2, <2>2, <2>3, <2>4
<1> QED BY <1>8, <1>9, <1>10, <1>11

(* The elements that the operations on two lists leave. *)
LEMMA ListsLeave ==
    ASSUME NEW s \in Seq(Values), NEW o \in Seq(Values)
    PROVE  LET S == LI!Elements(s)
               T == LI!Elements(o)
           IN  /\ LI!Elements(LI!Union(s, o)) = S \cup T
               /\ LI!Elements(LI!Intersection(s, o)) = S \cap T
               /\ LI!Elements(LI!Difference(s, o)) = S \ T
               /\ LI!Elements(LI!SymmetricDifference(s, o)) = (S \ T) \cup (T \ S)
<1> DEFINE S == LI!Elements(s)
           T == LI!Elements(o)
<1>1. \A keep : \A q \in Seq(Values) :
        LI!Kept(q, keep) \in Seq(Values) /\ LI!Elements(LI!Kept(q, keep)) = LI!Elements(q) \cap keep
  BY ElementsKept
<1>2. ASSUME NEW q \in Seq(Values), NEW r \in Seq(Values)
      PROVE  q \o r \in Seq(Values) /\ LI!Elements(q \o r) = LI!Elements(q) \cup LI!Elements(r)
  <2> DEFINE w == q \o r
             m == Len(q)
             n == Len(r)
  <2>1. m \in Nat /\ n \in Nat  OBVIOUS
  <2>2. /\ w \in Seq(Values) /\ Len(w) = m + n
        /\ \A i \in 1 .. m + n : w[i] = IF i <= m THEN q[i] ELSE r[i - m]
    BY ConcatProperties
  <2> HIDE DEF w, m, n
  <2>3. LI!Elements(w) = {w[i] : i \in 1 .. m + n}  BY <2>2, ElementsOf
  <2>4. LI!Elements(q) = {q[i] : i \in 1 .. m} /\ LI!Elements(r) = {r[i] : i \in 1 .. n}  BY ElementsOf DEF m, n
  <2>5. ASSUME NEW i \in 1 .. m + n  PROVE w[i] \in LI!Elements(q) \cup LI!Elements(r)
    <3>1. CASE i <= m
      <4>1. i \in 1 .. m /\ w[i] = q[i]  BY <2>1, <2>2, <3>1
      <4> QED BY <2>4, <4>1
    <3>2. CASE ~(i <= m)
      <4>1. i - m \in 1 .. n /\ w[i] = r[i - m]  BY <2>1, <2>2, <3>2
      <4> QED BY <2>4, <4>1
    <3> QED BY <3>1, <3>2
  <2>6. \A i \in 1 .. m : q[i] \in LI!Elements(w)
    <3> TAKE i \in 1 .. m
    <3>1. i \in 1 .. m + n /\ i <= m  BY <2>1
    <3>2. w[i] = q[i]  BY <2>2, <3>1
    <3> QED BY <2>3, <3>1, <3>2
  <2>7. \A i \in 1 .. n : r[i] \in LI!Elements(w)
    <3> TAKE i \in 1 .. n
    <3>1. m + i \in 1 .. m + n /\ ~(m + i <= m) /\ (m + i) - m = i  BY <2>1
    <3>2. w[m + i] = r[i]  BY <2>2, <3>1
    <3> QED BY <2>3, <3>1, <3>2
  <2>8. LI!Elements(w) = LI!Elements(q) \cup LI!Elements(r)
    <3>1. LI!Elements(w) \subseteq LI!Elements(q) \cup LI!Elements(r)  BY <2>3, <2>5
    <3>2. LI!Elements(q) \subseteq LI!Elements(w)  BY <2>4, <2>6
    <3>3. LI!Elements(r) \subseteq LI!Elements(w)  BY <2>4, <2>7
    <3> QED BY <3>1, <3>2, <3>3
  <2> QED BY <2>2, <2>8 DEF w
<1>3. LI!Elements(LI!Union(s, o)) = S \cup T
  <2> DEFINE w == s \o o
  <2>1. w \in Seq(Values) /\ LI!Elements(w) = S \cup T  BY <1>2
  <2>2. LI!Union(s, o) = LI!Distinct(w)  BY DEF LI!Union
  <2> HIDE DEF w
  <2> QED BY <2>1, <2>2, DistinctIs
<1>4. LI!Elements(LI!Intersection(s, o)) = S \cap T  BY <1>1 DEF LI!Intersection
<1>5. /\ LI!Difference(s, o) \in Seq(Values) /\ LI!Elements(LI!Difference(s, o)) = S \ T
  <2>1. LI!Difference(s, o) = LI!Kept(s, S \ (S \cap T))  BY <1>4 DEF LI!Difference
  <2>2. S \cap (S \ (S \cap T)) = S \ T  OBVIOUS
  <2> QED BY <1>1, <2>1, <2>2
<1>6. LI!Elements(LI!SymmetricDifference(s, o)) = (S \ T) \cup (T \ S)
  <2> DEFINE k == LI!Kept(o, T \ (S \cap T))
             d == LI!Difference(s, o)
  <2>1. LI!SymmetricDifference(s, o) = d \o k  BY <1>4 DEF LI!SymmetricDifference
  <2>2. T \cap (T \ (S \cap T)) = T \ S  OBVIOUS
  <2>3. k \in Seq(Values) /\ LI!Elements(k) = T \ S  BY <1>1, <2>2
  <2>4. d \in Seq(Values) /\ LI!Elements(d) = S \ T  BY <1>5
  <2> HIDE DEF k, d
  <2> QED BY <1>2, <2>1, <2>3, <2>4
<1> QED BY <1>3, <1>4, <1>5, <1>6

(* The indexes at which a value comes first and last. *)
LEMMA FirstIndex ==
    ASSUME NEW s \in Seq(Values), NEW v, LI!Contain(s, v)
    PROVE  /\ LI!IndexOf(s, v) \in 0 .. Len(s) - 1 /\ s[LI!IndexOf(s, v) + 1] = v
           /\ \A j \in 1 .. LI!IndexOf(s, v) : s[j] # v
<1> DEFINE n == Len(s)
           Found == {i \in Nat : i < n /\ s[i + 1] = v}
           First(i) == s[i + 1] = v /\ \A j \in 1 .. i : s[j] # v
<1>1. n \in Nat /\ DOMAIN s = 1 .. n  OBVIOUS
<1> HIDE DEF n
<1>2. Found # {}
  <2>1. PICK k \in 1 .. n : s[k] = v  BY <1>1 DEF LI!Contain
  <2>2. k - 1 \in Nat /\ k - 1 < n /\ (k - 1) + 1 = k  BY <1>1
  <2>3. k - 1 \in Found  BY <2>1, <2>2
  <2> QED BY <2>3
<1>3. PICK i \in Found : \A j \in Found : i <= j
  <2>1. Found \subseteq Nat  OBVIOUS
  <2> HIDE DEF Found
  <2> QED BY <1>2, <2>1, Least
<1>4. i \in 0 .. n - 1 /\ First(i)
  <2>1. i \in Nat /\ i < n /\ s[i + 1] = v  BY <1>3
  <2>2. ASSUME NEW j \in 1 .. i, s[j] = v  PROVE FALSE
    <3>1. j - 1 \in Nat /\ j - 1 < n /\ (j - 1) + 1 = j /\ ~(i <= j - 1)  BY <1>1, <2>1
    <3>2. j - 1 \in Found  BY <2>2, <3>1
    <3> QED BY <1>3, <3>1, <3>2
  <2> QED BY <1>1, <2>1, <2>2
<1>5. LI!IndexOf(s, v) = CHOOSE j \in 0 .. n - 1 : First(j)  BY DEF LI!IndexOf, n
<1> HIDE DEF First
<1>6. LI!IndexOf(s, v) \in 0 .. n - 1 /\ First(LI!IndexOf(s, v))  BY <1>4, <1>5
<1> QED BY <1>6 DEF First, n

LEMMA FoundBetween ==
    ASSUME NEW s \in Seq(Values), NEW v \in Values
    PROVE  v \in LI!Elements(s) <=> LI!IndexOf(s, v) \in 0 .. LI!LastIndexOf(s, v)
<1>1. LI!Contain(s, v) <=> v \in LI!Elements(s)  BY DEF LI!Contain, LI!Elements
<1>2. CASE LI!Contain(s, v)
  <2> DEFINE n == Len(s)
             r == Turned(s, n)
             i == LI!IndexOf(s, v)
             q == LI!IndexOf(r, v)
  <2>1. n \in Nat /\ DOMAIN s = 1 .. n  OBVIOUS
  <2>2. r \in Seq(Values) /\ Len(r) = n /\ \A k \in 1 .. n : r[k] = s[n + 1 - k]
    <3>1. r \in Seq(Values) /\ Len(r) = n  BY <2>1, TurnedIs
    <3>2. r = [k \in 1 .. n |-> s[n + 1 - k]]  BY <2>1, TurnedWhole
    <3> QED BY <3>1, <3>2
  <2>3. LI!LastIndexOf(s, v) = n - 1 - q  BY <1>2, IndexTurned
  <2>4. i \in 0 .. n - 1 /\ \A j \in 1 .. i : s[j] # v  BY <1>2, FirstIndex
  <2> HIDE DEF r, n, i
  <2>5. LI!Contain(r, v)
    <3>1. PICK k \in 1 .. n : s[k] = v  BY <1>2, <2>1 DEF LI!Contain
    <3>2. n + 1 - k \in 1 .. n /\ n + 1 - (n + 1 - k) = k  BY <2>1
    <3>3. DOMAIN r = 1 .. n
      <4>1. r \in [1 .. n -> Values]  BY <2>2, LenProperties
      <4> QED BY <4>1
    <3> QED BY <2>2, <3>1, <3>2, <3>3 DEF LI!Contain
  <2>6. q \in 0 .. n - 1 /\ r[q + 1] = v  BY <2>2, <2>5, FirstIndex
  <2> HIDE DEF q
  <2>7. q + 1 \in 1 .. n /\ n + 1 - (q + 1) = n - q  BY <2>1, <2>6
  <2>8. s[n - q] = v  BY <2>2, <2>6, <2>7
  <2>9. n - q \notin 1 .. i  BY <2>4, <2>8
  <2>10. i <= n - 1 - q  BY <2>1, <2>4, <2>6, <2>9
  <2>11. i \in 0 .. n - 1 - q  BY <2>1, <2>4, <2>6, <2>10
  <2> QED BY <1>1, <1>2, <2>3, <2>11 DEF i
<1>3. CASE ~LI!Contain(s, v)
  <2>1. LI!IndexOf(s, v) = -1  BY <1>3 DEF LI!IndexOf
  <2> QED BY <1>1, <1>3, <2>1
<1> QED BY <1>2, <1>3

(* Whatever the values, the lists to start from and the bound: List        *)
(* (list.go) and Set (set.go) agree on the union, the intersection and the *)
(* differences of two lists, on what they contain and on when two of them  *)
(* are equal; and two equal lists merged either way are the same.          *)
THEOREM ListsAndSets == LI!Spec => []ListsAgreeWithSets
<1>1. LI!Inv => ListsAgreeWithSets
  <2> SUFFICES ASSUME LI!Inv, NEW o \in Others
               PROVE  LET s == LI!NewSetFromSlice(want)
                          t == LI!NewSetFromSlice(o)
                      IN  /\ LI!SetEqual(LI!NewSetFromSlice(LI!Union(want, o)), LI!SetUnion(s, t))
                          /\ LI!SetEqual(LI!NewSetFromSlice(LI!Intersection(want, o)), LI!SetIntersection(s, t))
                          /\ LI!SetEqual(LI!NewSetFromSlice(LI!Difference(want, o)), LI!SetMinus(s, t))
                          /\ LI!SetEqual(LI!NewSetFromSlice(LI!SymmetricDifference(want, o)), LI!SetSymmetricDifference(s, t))
                          /\ LI!SetEqual(LI!SetMinus(LI!SetUnion(s, t), LI!SetIntersection(s, t)), LI!SetSymmetricDifference(s, t))
                          /\ LI!SetEqual(LI!SetDelete(s, o), LI!SetMinus(s, t))
                          /\ \A v \in Values :
                               /\ LI!SetEqual(LI!AddIfNotExist(s, v), LI!SetUnion(s, LI!NewSetFromSlice(<<v>>)))
                               /\ LI!SetEqual(LI!AddIfNotExistBy(s, v, LAMBDA x : LI!SetContain(t, x)),
                                              LI!SetUnion(s, LI!SetIntersection(LI!NewSetFromSlice(<<v>>), t)))
                          /\ LI!SetEqual(s, t) <=> LI!SetContainAll(s, t) /\ LI!SetSize(s) = LI!SetSize(t)
                          /\ \A v \in Values : LI!SetContain(s, v) <=> LI!IndexOf(want, v) \in 0 .. LI!LastIndexOf(want, v)
                          /\ LI!Equal(want, o) => LI!Merged(obj, o) = LI!Merged([obj EXCEPT !.arr = o, !.len = Len(o)], want)
    BY DEF ListsAgreeWithSets, LI!AgreesWithSets
  <2> DEFINE S == LI!Elements(want)
             T == LI!Elements(o)
             s == LI!NewSetFromSlice(want)
             t == LI!NewSetFromSlice(o)
  <2>1. HoldsList(obj, want) /\ want \in Seq(Values) /\ o \in Seq(Values)
    BY ListHolds, ContainersAssumption DEF LI!Inv
  <2>2. IsFiniteSet(S) /\ IsFiniteSet(T)  BY <2>1, ElementsOf
  <2>3. \A q : LI!NewSetFromSlice(q) = SetOf(LI!Elements(q))
    BY DEF LI!NewSetFromSlice, LI!NewSet, LI!SetAdd, SetOf, LI!Elements
  <2>4. \A U : DOMAIN SetOf(U) = U  BY DEF SetOf
  <2>5. \A U, V : U = V => LI!SetEqual(SetOf(U), SetOf(V))
    BY <2>4 DEF LI!SetEqual, LI!SetContainAll, LI!SetContain
  <2>6. s = SetOf(S) /\ t = SetOf(T)  BY <2>3
  <2> HIDE DEF s, t, S, T
  <2>7. /\ LI!SetUnion(s, t) = SetOf(S \cup T)
        /\ LI!SetIntersection(s, t) = SetOf(S \cap T)
        /\ LI!SetMinus(s, t) = SetOf(S \ T)
        /\ LI!SetSymmetricDifference(s, t) = SetOf((S \ T) \cup (T \ S))
    BY <2>2, <2>6, SetsAre
  <2>8. /\ LI!Elements(LI!Union(want, o)) = S \cup T
        /\ LI!Elements(LI!Intersection(want, o)) = S \cap T
        /\ LI!Elements(LI!Difference(want, o)) = S \ T
        /\ LI!Elements(LI!SymmetricDifference(want, o)) = (S \ T) \cup (T \ S)
    BY <2>1, ListsLeave DEF S, T
  <2>9. LI!SetEqual(LI!NewSetFromSlice(LI!Union(want, o)), LI!SetUnion(s, t))  BY SMTT(40), <2>3, <2>5, <2>7, <2>8
  <2>10. LI!SetEqual(LI!NewSetFromSlice(LI!Intersection(want, o)), LI!SetIntersection(s, t))  BY <2>3, <2>5, <2>7, <2>8
  <2>11. LI!SetEqual(LI!NewSetFromSlice(LI!Difference(want, o)), LI!SetMinus(s, t))  BY <2>3, <2>5, <2>7, <2>8
  <2>12. LI!SetEqual(LI!NewSetFromSlice(LI!SymmetricDifference(want, o)), LI!SetSymmetricDifference(s, t))
    BY <2>3, <2>5, <2>7, <2>8
  <2>13. LI!SetEqual(LI!SetMinus(LI!SetUnion(s, t), LI!SetIntersection(s, t)), LI!SetSymmetricDifference(s, t))
    <3>1. IsFiniteSet(S \cup T) /\ IsFiniteSet(S \cap T)  BY <2>2, FS_Union, FS_Intersection
    <3>2. LI!SetMinus(SetOf(S \cup T), SetOf(S \cap T)) = SetOf((S \cup T) \ (S \cap T))  BY <3>1, SetsAre
    <3>3. (S \cup T) \ (S \cap T) = (S \ T) \cup (T \ S)  OBVIOUS
    <3> QED BY <2>5, <2>7, <3>2, <3>3
  <2>14. LI!SetEqual(s, t) <=> LI!SetContainAll(s, t) /\ LI!SetSize(s) = LI!SetSize(t)
    <3>1. DOMAIN s = S /\ DOMAIN t = T  BY <2>4, <2>6
    <3>2. LI!SetSize(s) = Cardinality(S) /\ LI!SetSize(t) = Cardinality(T)  BY <3>1, ListCardinality DEF LI!SetSize
    <3>3. LI!SetContainAll(s, t) <=> T \subseteq S  BY <3>1 DEF LI!SetContainAll, LI!SetContain
    <3>4. LI!SetContainAll(t, s) <=> S \subseteq T  BY <3>1 DEF LI!SetContainAll, LI!SetContain
    <3>5. T \subseteq S /\ Cardinality(S) = Cardinality(T) => S = T  BY <2>2, FS_Subset
    <3> QED BY <3>2, <3>3, <3>4, <3>5 DEF LI!SetEqual
  <2>15. \A v \in Values : LI!SetContain(s, v) <=> LI!IndexOf(want, v) \in 0 .. LI!LastIndexOf(want, v)
    <3> TAKE v \in Values
    <3>1. LI!SetContain(s, v) <=> v \in S  BY <2>4, <2>6 DEF LI!SetContain
    <3> QED BY <2>1, <3>1, FoundBetween DEF S
  <2>16. ASSUME LI!Equal(want, o)
         PROVE  LI!Merged(obj, o) = LI!Merged([obj EXCEPT !.arr = o, !.len = Len(o)], want)
    <3> DEFINE p == [obj EXCEPT !.arr = o, !.len = Len(o)]
    <3>1. want = o
      <4>1. Len(want) = Len(o) /\ \A i \in 1 .. Len(want) : want[i] = o[i]  BY <2>1, <2>16 DEF LI!Equal
      <4> QED BY <2>1, <4>1, SeqEqual
    <3>2. obj \in Lists  BY <2>1 DEF HoldsList
    <3>3. o \in Seq(ListSlots) /\ Len(o) \in Nat  BY <2>1, InSlots
    <3>4. p \in Lists /\ p.arr = o /\ p.len = Len(o)  BY <3>2, <3>3 DEF Lists
    <3> HIDE DEF p
    <3>5. HoldsList(p, want)  BY <2>1, <3>1, <3>3, <3>4 DEF HoldsList
    <3>6. \A l : HoldsList(l, want) => LI!Merged(l, want) = want \o want
      <4> TAKE l
      <4> HAVE HoldsList(l, want)
      <4> DEFINE a == LI!AppendAt(l, l.len, want)
                 w == want \o want
      <4>1. HoldsList(a, w)  BY <2>1, ListMerges
      <4> HIDE DEF a, w
      <4>2. a \in Lists /\ w \in Seq(Values) /\ a.len <= Len(a.arr)  BY <4>1 DEF HoldsList
      <4>3. LI!Data(a) = w  BY <4>1, <4>2, HoldsIs
      <4> QED BY <4>3 DEF LI!Merged, a, w
    <3>7. LI!Merged(obj, want) = want \o want /\ LI!Merged(p, want) = want \o want  BY <2>1, <3>5, <3>6
    <3> QED BY <3>1, <3>7 DEF p
  <2>17. LI!SetEqual(LI!SetDelete(s, o), LI!SetMinus(s, t))
    <3>1. LI!SetDelete(s, o) = SetOf(S \ T)  BY <2>4, <2>6 DEF LI!SetDelete, SetOf, LI!Elements, T
    <3> QED BY <2>5, <2>7, <3>1
  <2>18. ASSUME NEW v \in Values
         PROVE  /\ LI!SetEqual(LI!AddIfNotExist(s, v), LI!SetUnion(s, LI!NewSetFromSlice(<<v>>)))
                /\ LI!SetEqual(LI!AddIfNotExistBy(s, v, LAMBDA x : LI!SetContain(t, x)),
                               LI!SetUnion(s, LI!SetIntersection(LI!NewSetFromSlice(<<v>>), t)))
    <3>1. LI!Elements(<<v>>) = {v}  BY DEF LI!Elements
    <3>2. LI!NewSetFromSlice(<<v>>) = SetOf({v})  BY <2>3, <3>1
    <3>3. IsFiniteSet({v}) /\ IsFiniteSet({v} \cap T)  BY <2>2, FS_Singleton, FS_Intersection
    <3>4. LI!SetUnion(s, SetOf({v})) = SetOf(S \cup {v})  BY <2>2, <2>6, <3>3, SetsAre
    <3>5. LI!SetIntersection(SetOf({v}), t) = SetOf({v} \cap T)  BY <2>2, <2>6, <3>3, SetsAre
    <3>6. LI!SetUnion(s, SetOf({v} \cap T)) = SetOf(S \cup ({v} \cap T))  BY <2>2, <2>6, <3>3, SetsAre
    <3>7. \A U : LI!SetAdd(SetOf(U), <<v>>) = SetOf(U \cup {v})  BY <2>4, <3>1 DEF LI!SetAdd, SetOf, LI!Elements
    <3>8. (LI!SetContain(s, v) <=> v \in S) /\ (LI!SetContain(t, v) <=> v \in T)  BY <2>4, <2>6 DEF LI!SetContain
    <3>9. LI!AddIfNotExist(s, v) = SetOf(S \cup {v})
      <4>1. v \in S => S = S \cup {v}  OBVIOUS
      <4> QED BY <2>6, <3>7, <3>8, <4>1 DEF LI!AddIfNotExist
    <3>10. LI!AddIfNotExistBy(s, v, LAMBDA x : LI!SetContain(t, x)) = SetOf(S \cup ({v} \cap T))
      <4>1. v \in S \/ v \notin T => S = S \cup ({v} \cap T)  OBVIOUS
      <4>2. v \in T => S \cup {v} = S \cup ({v} \cap T)  OBVIOUS
      <4>3. LI!AddIfNotExistBy(s, v, LAMBDA x : LI!SetContain(t, x)) = IF v \notin S /\ v \in T THEN LI!SetAdd(s, <<v>>) ELSE s
        BY <3>8 DEF LI!AddIfNotExistBy
      <4> QED BY <2>6, <3>7, <4>1, <4>2, <4>3
    <3> QED BY <2>5, <3>2, <3>4, <3>5, <3>6, <3>9, <3>10
  <2> QED BY <2>9, <2>10, <2>11, <2>12, <2>13, <2>14, <2>15, <2>16, <2>17, <2>18 DEF s, t
<1> QED BY <1>1, ListHeld, PTL

-----------------------------------------------------------------------------
(* DoublyLink *)

(* The link l whose chain is the nodes c with the values s. *)
Chained(l, c, s) ==
  /\ DL!Allocated(l) /\ ~l.panicked /\ DL!Leads(l, c)
  /\ s \in Seq(Values) /\ Len(s) = Len(c) /\ \A i \in 1 .. Len(c) : s[i] = l.val[c[i]]
  /\ l.length = Len(c)

(* w is s with v at its i-th place; w is s without its i-th value. *)
HasInserted(S, w, s, i, v) ==
  /\ w \in Seq(S) /\ Len(w) = Len(s) + 1
  /\ \A k \in 1 .. Len(s) + 1 : w[k] = IF k < i THEN s[k] ELSE IF k = i THEN v ELSE s[k - 1]

HasRemoved(S, w, s, i) ==
  /\ w \in Seq(S) /\ Len(w) = Len(s) - 1
  /\ \A k \in 1 .. Len(s) - 1 : w[k] = IF k < i THEN s[k] ELSE s[k + 1]

LEMMA WithAt ==
    ASSUME NEW S, NEW s \in Seq(S), NEW i \in 1 .. Len(s) + 1, NEW v \in S
    PROVE  HasInserted(S, DL!With(s, i, v), s, i, v)
<1> DEFINE w == DL!With(s, i, v)
<1>0. Len(s) \in Nat /\ i \in Nat /\ i >= 1 /\ i <= Len(s) + 1  OBVIOUS
<1>1. Replaced(S, w, s, i - 1, <<v>>, i - 1)
  <2>1. Replaced(S, SL!With(s, i, v), s, i - 1, <<v>>, i - 1)  BY WithIs
  <2> QED BY <2>1 DEF SL!With, DL!With
<1> HIDE DEF w
<1>2. /\ w \in Seq(S) /\ Len(w) = (i - 1) + 1 + (Len(s) - (i - 1))
      /\ \A k \in 1 .. i - 1 : w[k] = s[k]
      /\ w[(i - 1) + 1] = v
      /\ \A k \in 1 .. Len(s) - (i - 1) : w[(i - 1) + 1 + k] = s[(i - 1) + k]
  <2>1. Len(<<v>>) = 1 /\ <<v>>[1] = v /\ 1 \in 1 .. 1  OBVIOUS
  <2> QED BY <1>1, <2>1 DEF Replaced
<1>3. ASSUME NEW k \in 1 .. Len(s) + 1
      PROVE  w[k] = IF k < i THEN s[k] ELSE IF k = i THEN v ELSE s[k - 1]
  <2>1. CASE k < i
    <3>1. k \in 1 .. i - 1  BY <1>0, <2>1
    <3> QED BY <1>2, <2>1, <3>1
  <2>2. CASE k = i
    <3>1. (i - 1) + 1 = i  BY <1>0
    <3> QED BY <1>2, <2>2, <3>1
  <2>3. CASE k > i
    <3>1. k - i \in 1 .. Len(s) - (i - 1) /\ (i - 1) + 1 + (k - i) = k /\ (i - 1) + (k - i) = k - 1
      BY <1>0, <2>3
    <3>2. w[(i - 1) + 1 + (k - i)] = s[(i - 1) + (k - i)]  BY <1>2, <3>1
    <3> QED BY <1>0, <2>3, <3>1, <3>2
  <2> QED BY <1>0, <2>1, <2>2, <2>3
<1>4. Len(w) = Len(s) + 1  BY <1>0, <1>2
<1> QED BY <1>2, <1>3, <1>4 DEF w, HasInserted

LEMMA WithoutAt ==
    ASSUME NEW S, NEW s \in Seq(S), NEW i \in 1 .. Len(s)
    PROVE  HasRemoved(S, DL!Without(s, i), s, i)
<1> DEFINE w == DL!Without(s, i)
<1>0. Len(s) \in Nat /\ i \in Nat /\ i >= 1 /\ i <= Len(s)  OBVIOUS
<1>1. Replaced(S, w, s, i - 1, <<>>, i)
  <2>1. Replaced(S, SL!Without(s, i), s, i - 1, <<>>, i)  BY WithoutIs
  <2> QED BY <2>1 DEF SL!Without, DL!Without
<1> HIDE DEF w
<1>2. /\ w \in Seq(S) /\ Len(w) = (i - 1) + 0 + (Len(s) - i)
      /\ \A k \in 1 .. i - 1 : w[k] = s[k]
      /\ \A k \in 1 .. Len(s) - i : w[(i - 1) + 0 + k] = s[i + k]
  <2>1. Len(<<>>) = 0  OBVIOUS
  <2> QED BY <1>1, <2>1 DEF Replaced
<1>3. ASSUME NEW k \in 1 .. Len(s) - 1  PROVE w[k] = IF k < i THEN s[k] ELSE s[k + 1]
  <2>1. CASE k < i
    <3>1. k \in 1 .. i - 1  BY <1>0, <2>1
    <3> QED BY <1>2, <2>1, <3>1
  <2>2. CASE k >= i
    <3>1. k - i + 1 \in 1 .. Len(s) - i /\ (i - 1) + 0 + (k - i + 1) = k /\ i + (k - i + 1) = k + 1
      BY <1>0, <2>2
    <3>2. w[(i - 1) + 0 + (k - i + 1)] = s[i + (k - i + 1)]  BY <1>2, <3>1
    <3> QED BY <1>0, <2>2, <3>1, <3>2
  <2> QED BY <1>0, <2>1, <2>2
<1>4. Len(w) = Len(s) - 1  BY <1>0, <1>2
<1> QED BY <1>2, <1>3, <1>4 DEF w, HasRemoved

(* What Chained says, in the terms of the record. *)
LEMMA ChainedIs ==
    ASSUME NEW l, NEW c, NEW s, Chained(l, c, s)
    PROVE  /\ DL!Allocated(l) /\ l.panicked = FALSE /\ l.type = "DoublyLink"
           /\ l.val \in Seq(Values) /\ Len(l.val) \in Nat
           /\ l.next \in [1 .. Len(l.val) -> 0 .. Len(l.val)]
           /\ l.pre \in [1 .. Len(l.val) -> 0 .. Len(l.val)]
           /\ c \in Seq(1 .. Len(l.val)) /\ Len(c) \in Nat /\ DOMAIN c = 1 .. Len(c)
           /\ \A i \in 1 .. Len(c) : c[i] \in 1 .. Len(l.val)
           /\ \A i, j \in 1 .. Len(c) : c[i] = c[j] => i = j
           /\ l.head = IF Len(c) = 0 THEN 0 ELSE c[1]
           /\ \A i \in 1 .. Len(c) : l.next[c[i]] = IF i = Len(c) THEN 0 ELSE c[i + 1]
           /\ s \in Seq(Values) /\ Len(s) = Len(c) /\ \A i \in 1 .. Len(c) : s[i] = l.val[c[i]]
           /\ l.length = Len(c) /\ DOMAIN s = 1 .. Len(c)
           /\ (s = <<>> <=> Len(c) = 0) /\ (l.head = 0 <=> Len(c) = 0)
<1>1. /\ l.panicked = FALSE /\ l.type = "DoublyLink"
      /\ l.val \in Seq(Values) /\ l.next \in [1 .. Len(l.val) -> 0 .. Len(l.val)]
      /\ l.pre \in [1 .. Len(l.val) -> 0 .. Len(l.val)]
  BY DEF Chained, DL!Allocated
<1>2. c \in Seq(1 .. Len(l.val))  BY DEF Chained, DL!Leads
<1>3. Len(l.val) \in Nat /\ Len(c) \in Nat /\ DOMAIN c = 1 .. Len(c)  BY <1>1, <1>2
<1>4. \A i \in 1 .. Len(c) : c[i] \in 1 .. Len(l.val)  BY <1>2, ElementOfSeq
<1>5. c = <<>> <=> Len(c) = 0  BY <1>2, EmptySeq
<1>6. l.head = IF Len(c) = 0 THEN 0 ELSE c[1]  BY <1>5 DEF Chained, DL!Leads, DL!Nil
<1>7. /\ \A i, j \in 1 .. Len(c) : c[i] = c[j] => i = j
      /\ \A i \in 1 .. Len(c) : l.next[c[i]] = IF i = Len(c) THEN 0 ELSE c[i + 1]
  BY <1>3 DEF Chained, DL!Leads, DL!Nil
<1>8. s \in Seq(Values) /\ Len(s) = Len(c) /\ \A i \in 1 .. Len(c) : s[i] = l.val[c[i]]  BY DEF Chained
<1>9. s = <<>> <=> Len(c) = 0  BY <1>8, EmptySeq
<1>10. l.head = 0 <=> Len(c) = 0
  <2>1. Len(c) # 0 => c[1] \in 1 .. Len(l.val)  BY <1>3, <1>4
  <2> QED BY <1>6, <2>1
<1>11. l.length = Len(c) /\ DL!Allocated(l)  BY DEF Chained
<1>12. DOMAIN s = 1 .. Len(c)  BY <1>8
<1> QED BY <1>1, <1>2, <1>3, <1>4, <1>6, <1>7, <1>8, <1>9, <1>10, <1>11, <1>12

LEMMA ChainedSizes ==
    ASSUME NEW l, NEW c, NEW s, Chained(l, c, s)
    PROVE  /\ Len(c) \in Nat /\ Len(s) = Len(c) /\ s \in Seq(Values) /\ DOMAIN s = 1 .. Len(c)
           /\ l.panicked = FALSE /\ l.length = Len(c)
           /\ (s = <<>> <=> Len(c) = 0) /\ (l.head = 0 <=> Len(c) = 0)
<1>1. Len(c) \in Nat /\ Len(s) = Len(c)  BY ZenonT(40), ChainedIs
<1>2. s \in Seq(Values)  BY DEF Chained
<1>3. DOMAIN s = 1 .. Len(c)  BY <1>1, <1>2
<1>4. l.panicked = FALSE /\ l.length = Len(c)  BY ChainedIs
<1>5. s = <<>> <=> Len(c) = 0  BY <1>1, <1>2, EmptySeq
<1>6. l.head = 0 <=> Len(c) = 0  BY ChainedIs
<1> QED BY <1>1, <1>2, <1>3, <1>4, <1>5, <1>6

(* The loops over a chain visit its nodes, and read its values. *)
LEMMA ChainedReads ==
    ASSUME NEW l, NEW c, NEW s, Chained(l, c, s)
    PROVE  /\ DL!Nodes(l) = c /\ DL!Content(l) = s /\ Len(c) <= Len(l.val)
           /\ Len(c) # 0 => DL!Last(l) = c[Len(c)]
<1> DEFINE N == Len(l.val)
           m == Len(c)
<1>1. /\ N \in Nat /\ m \in Nat /\ DOMAIN c = 1 .. m /\ c \in Seq(1 .. N)
      /\ l.next \in [1 .. N -> 0 .. N] /\ l.val \in Seq(Values)
      /\ \A i \in 1 .. m : c[i] \in 1 .. N
      /\ \A i, j \in 1 .. m : c[i] = c[j] => i = j
      /\ l.head = IF m = 0 THEN 0 ELSE c[1]
      /\ \A i \in 1 .. m : l.next[c[i]] = IF i = m THEN 0 ELSE c[i + 1]
      /\ s \in Seq(Values) /\ Len(s) = m /\ \A i \in 1 .. m : s[i] = l.val[c[i]]
      /\ l.length = m
  <2>1. N \in Nat /\ m \in Nat /\ DOMAIN c = 1 .. m /\ c \in Seq(1 .. N)  BY ChainedIs
  <2>2. l.next \in [1 .. N -> 0 .. N] /\ l.val \in Seq(Values)  BY ChainedIs
  <2>3. \A i \in 1 .. m : c[i] \in 1 .. N  BY ChainedIs
  <2>4. \A i, j \in 1 .. m : c[i] = c[j] => i = j  BY ChainedIs
  <2>5. l.head = IF m = 0 THEN 0 ELSE c[1]  BY ChainedIs
  <2>6. \A i \in 1 .. m : l.next[c[i]] = IF i = m THEN 0 ELSE c[i + 1]  BY ChainedIs
  <2>7. s \in Seq(Values) /\ Len(s) = m /\ l.length = m  BY ZenonT(40), ChainedIs
  <2>8. \A i \in 1 .. m : s[i] = l.val[c[i]]  BY DEF Chained
  <2> HIDE DEF N, m
  <2> QED BY Zenon, <2>1, <2>2, <2>3, <2>4, <2>5, <2>6, <2>7, <2>8
<1> HIDE DEF N, m
<1>2. c \in [1 .. m -> 1 .. N]
  <2>1. c = [i \in 1 .. m |-> c[i]]  BY <1>1 DEF m
  <2> QED BY <1>1, <2>1
<1>3. m <= N
  <2>1. c \in Injection(1 .. m, 1 .. N)  BY <1>1, <1>2 DEF Injection, IsInjective
  <2>2. IsFiniteSet(1 .. N) /\ Cardinality(1 .. N) = N /\ Cardinality(1 .. m) = m
    <3>1. /\ IsFiniteSet(1 .. N) /\ Cardinality(1 .. N) = IF 1 > N THEN 0 ELSE N - 1 + 1
          /\ Cardinality(1 .. m) = IF 1 > m THEN 0 ELSE m - 1 + 1
      BY <1>1, FS_Interval
    <3> QED BY <1>1, <3>1
  <2>3. Cardinality(1 .. m) <= Cardinality(1 .. N)  BY SMTT(40), <2>1, <2>2, FS_Injection
  <2> QED BY <2>2, <2>3
<1>4. DL!Nodes(l) = c
  <2> DEFINE next == l.next
  <2>1. next \in Seq(0 .. N) /\ Len(next) = N
    <3> DEFINE P == 0 .. N
    <3>1. N \in Nat /\ next \in [1 .. N -> P]  BY <1>1
    <3> HIDE DEF P
    <3>2. next \in Seq(P) /\ Len(next) = N  BY <3>1, FunctionIsSeq
    <3> QED BY <3>2 DEF P
  <2>2. next \in Seq(Nat) /\ \A n \in 1 .. N : next[n] <= N
    <3>1. 0 .. N \subseteq Nat /\ \A n \in 1 .. N : next[n] \in 0 .. N  BY <1>1
    <3> QED BY <2>1, <3>1, SeqMonotonic
  <2> HIDE DEF next
  <2>3. \A j \in 1 .. m : next[c[j]] = IF j = m THEN 0 ELSE c[j + 1]  BY <1>1 DEF next
  <2>4. /\ next \in Seq(Nat) /\ \A n \in 1 .. Len(next) : next[n] <= Len(next)
        /\ m \in Nat /\ m <= Len(next) /\ c \in [1 .. m -> 1 .. Len(next)]
        /\ l.head = IF m = 0 THEN 0 ELSE c[1]
    <3>1. Len(next) = N /\ next \in Seq(Nat) /\ \A n \in 1 .. N : next[n] <= N  BY <2>1, <2>2
    <3>2. m \in Nat /\ m <= N /\ c \in [1 .. m -> 1 .. N] /\ l.head = IF m = 0 THEN 0 ELSE c[1]
      BY <1>1, <1>2, <1>3
    <3> QED BY <3>1, <3>2
  <2>5. Walk(next, l.head) = c  BY <2>3, <2>4, WalkVisits
  <2> QED BY <2>5 DEF DL!Nodes, DL!Walk, Walk, DL!Nil, Nil, next
<1>5. DL!Content(l) = s
  <2>1. DL!Content(l) = [i \in DOMAIN c |-> l.val[c[i]]]  BY <1>4 DEF DL!Content, DL!ValuesOf
  <2>2. s = [i \in 1 .. m |-> s[i]]  BY <1>1
  <2> QED BY <1>1, <2>1, <2>2
<1> QED BY <1>1, <1>3, <1>4, <1>5 DEF DL!Last, N, m

(* A new node at the i-th place of the chain. *)
Adds(l, c, i, v, r) ==
  LET N == Len(l.val)
  IN  /\ DL!Allocated(r) /\ ~r.panicked /\ r.length = l.length + 1
      /\ r.val = Append(l.val, v)
      /\ r.head = IF i = 1 THEN N + 1 ELSE l.head
      /\ r.next[N + 1] = IF i = Len(c) + 1 THEN 0 ELSE c[i]
      /\ \A j \in 1 .. Len(c) : r.next[c[j]] = IF j = i - 1 THEN N + 1 ELSE l.next[c[j]]

LEMMA NodeAdded ==
    ASSUME NEW l, NEW c, NEW s, Chained(l, c, s), NEW v \in Values, NEW i \in 1 .. Len(c) + 1,
           NEW r, Adds(l, c, i, v, r)
    PROVE  Chained(r, DL!With(c, i, Len(l.val) + 1), DL!With(s, i, v))
<1> DEFINE N == Len(l.val)
           m == Len(c)
           d == DL!With(c, i, N + 1)
           w == DL!With(s, i, v)
<1>1. /\ N \in Nat /\ m \in Nat /\ DOMAIN c = 1 .. m /\ c \in Seq(1 .. N)
      /\ l.next \in [1 .. N -> 0 .. N] /\ l.val \in Seq(Values)
      /\ \A k \in 1 .. m : c[k] \in 1 .. N
      /\ \A j, k \in 1 .. m : c[j] = c[k] => j = k
      /\ l.head = IF m = 0 THEN 0 ELSE c[1]
      /\ \A k \in 1 .. m : l.next[c[k]] = IF k = m THEN 0 ELSE c[k + 1]
      /\ s \in Seq(Values) /\ Len(s) = m /\ \A k \in 1 .. m : s[k] = l.val[c[k]]
      /\ l.length = m
  <2>1. N \in Nat /\ m \in Nat /\ DOMAIN c = 1 .. m /\ c \in Seq(1 .. N)  BY ChainedIs
  <2>2. l.next \in [1 .. N -> 0 .. N] /\ l.val \in Seq(Values)  BY ChainedIs
  <2>3. \A k \in 1 .. m : c[k] \in 1 .. N  BY ChainedIs
  <2>4. \A j, k \in 1 .. m : c[j] = c[k] => j = k  BY ChainedIs
  <2>5. l.head = IF m = 0 THEN 0 ELSE c[1]  BY ChainedIs
  <2>6. \A k \in 1 .. m : l.next[c[k]] = IF k = m THEN 0 ELSE c[k + 1]  BY ChainedIs
  <2>7. s \in Seq(Values) /\ Len(s) = m /\ l.length = m  BY ZenonT(40), ChainedIs
  <2>8. \A k \in 1 .. m : s[k] = l.val[c[k]]  BY DEF Chained
  <2> HIDE DEF N, m
  <2> QED BY Zenon, <2>1, <2>2, <2>3, <2>4, <2>5, <2>6, <2>7, <2>8
<1>2. /\ DL!Allocated(r) /\ ~r.panicked /\ r.length = l.length + 1
      /\ r.val = Append(l.val, v)
      /\ r.head = IF i = 1 THEN N + 1 ELSE l.head
      /\ r.next[N + 1] = IF i = m + 1 THEN 0 ELSE c[i]
      /\ \A j \in 1 .. m : r.next[c[j]] = IF j = i - 1 THEN N + 1 ELSE l.next[c[j]]
  BY DEF Adds
<1>3. m \in Nat /\ N \in Nat /\ i \in Nat /\ i >= 1 /\ i <= m + 1
  <2>1. m \in Nat /\ N \in Nat  BY <1>1
  <2> QED BY SMTT(40), <2>1
<1> HIDE DEF N, m
<1>4. /\ Len(r.val) = N + 1 /\ r.val[N + 1] = v /\ \A k \in 1 .. N : r.val[k] = l.val[k]
  BY <1>1, <1>2, AppendProperties DEF N
<1>5. /\ d \in Seq(1 .. N + 1) /\ Len(d) = m + 1
      /\ \A k \in 1 .. m + 1 : d[k] = IF k < i THEN c[k] ELSE IF k = i THEN N + 1 ELSE c[k - 1]
  <2>1. c \in Seq(1 .. N + 1) /\ N + 1 \in 1 .. N + 1
    <3>1. 1 .. N \subseteq 1 .. N + 1 /\ N + 1 \in 1 .. N + 1  BY <1>1
    <3> QED BY <1>1, <3>1, SeqMonotonic
  <2>2. i \in 1 .. Len(c) + 1 /\ Len(c) = m  BY DEF m
  <2>3. HasInserted(1 .. N + 1, d, c, i, N + 1)  BY <2>1, <2>2, WithAt
  <2> QED BY <2>2, <2>3 DEF HasInserted
<1>6. /\ w \in Seq(Values) /\ Len(w) = m + 1
      /\ \A k \in 1 .. m + 1 : w[k] = IF k < i THEN s[k] ELSE IF k = i THEN v ELSE s[k - 1]
  <2>1. i \in 1 .. Len(s) + 1  BY <1>1, <1>3
  <2>2. HasInserted(Values, w, s, i, v)  BY <1>1, <2>1, WithAt
  <2> HIDE DEF w
  <2> QED BY <1>1, <2>2 DEF HasInserted
<1> HIDE DEF d, w
<1>7. \A k \in 1 .. m + 1 : \/ k < i /\ k \in 1 .. m /\ d[k] = c[k] /\ w[k] = s[k]
                            \/ k = i /\ d[k] = N + 1 /\ w[k] = v
                            \/ k > i /\ k - 1 \in 1 .. m /\ d[k] = c[k - 1] /\ w[k] = s[k - 1]
  <2> TAKE k \in 1 .. m + 1
  <2>1. CASE k < i
    <3>1. k \in 1 .. m  BY <1>3, <2>1
    <3> QED BY <1>5, <1>6, <2>1, <3>1
  <2>2. CASE k = i
    <3>1. ~(k < i)  BY <1>3, <2>2
    <3> QED BY <1>5, <1>6, <2>2, <3>1
  <2>3. CASE k > i
    <3>1. k - 1 \in 1 .. m /\ ~(k < i) /\ k # i  BY <1>3, <2>3
    <3> QED BY <1>5, <1>6, <2>3, <3>1
  <2> QED BY <1>3, <2>1, <2>2, <2>3
<1>8. ASSUME NEW j \in 1 .. m + 1, NEW k \in 1 .. m + 1, d[j] = d[k]  PROVE j = k
  <2>1. \A x \in 1 .. m : c[x] # N + 1
    <3>1. \A x \in 1 .. m : c[x] \in 1 .. N  BY <1>1
    <3> QED BY <1>3, <3>1
  <2>2. \A x, y \in 1 .. m : c[x] = c[y] => x = y  BY <1>1
  <2>3. /\ \/ j < i /\ j \in 1 .. m /\ d[j] = c[j]
           \/ j = i /\ d[j] = N + 1
           \/ j > i /\ j - 1 \in 1 .. m /\ d[j] = c[j - 1]
        /\ \/ k < i /\ k \in 1 .. m /\ d[k] = c[k]
           \/ k = i /\ d[k] = N + 1
           \/ k > i /\ k - 1 \in 1 .. m /\ d[k] = c[k - 1]
    BY <1>7
  <2>4. CASE j = i
    <3>1. d[k] = N + 1  BY <1>3, <1>8, <2>3, <2>4
    <3> QED BY <2>1, <2>3, <2>4, <3>1
  <2>5. CASE k = i
    <3>1. d[j] = N + 1  BY <1>3, <1>8, <2>3, <2>5
    <3> QED BY <2>1, <2>3, <2>5, <3>1
  <2>6. CASE j # i /\ k # i
    <3> DEFINE J == IF j < i THEN j ELSE j - 1
               K == IF k < i THEN k ELSE k - 1
    <3>1. J \in 1 .. m /\ d[j] = c[J] /\ K \in 1 .. m /\ d[k] = c[K]  BY <1>3, <2>3, <2>6
    <3>2. J = K
      <4> HIDE DEF J, K
      <4> QED BY <1>8, <2>2, <3>1
    <3> QED BY <1>3, <2>6, <3>2
  <2> QED BY <2>4, <2>5, <2>6
<1>9. r.head = d[1]
  <2>1. 1 \in 1 .. m + 1  BY <1>1
  <2>2. CASE i = 1  BY <1>2, <1>7, <2>1, <2>2
  <2>3. CASE i # 1
    <3>1. d[1] = c[1] /\ m # 0  BY <1>3, <1>7, <2>1, <2>3
    <3> QED BY <1>1, <1>2, <2>3, <3>1
  <2> QED BY <2>2, <2>3
<1>10. ASSUME NEW k \in 1 .. m + 1  PROVE r.next[d[k]] = IF k = m + 1 THEN 0 ELSE d[k + 1]
  <2>1. CASE k < i
    <3>1. k \in 1 .. m /\ d[k] = c[k] /\ k # m + 1 /\ k + 1 \in 1 .. m + 1  BY <1>3, <1>7, <2>1
    <3>2. CASE k = i - 1
      <4>1. k + 1 = i  BY <1>3, <3>2
      <4>2. d[k + 1] = N + 1  BY <1>3, <1>7, <3>1, <4>1
      <4>3. r.next[c[k]] = N + 1  BY <1>2, <3>1, <3>2
      <4> QED BY <3>1, <4>2, <4>3
    <3>3. CASE k # i - 1
      <4>1. k + 1 < i /\ k # m  BY <1>3, <2>1, <3>1, <3>3
      <4>2. d[k + 1] = c[k + 1]  BY <1>3, <1>7, <3>1, <4>1
      <4>3. r.next[c[k]] = c[k + 1]  BY <1>1, <1>2, <3>1, <3>3, <4>1
      <4> QED BY <3>1, <4>2, <4>3
    <3> QED BY <3>2, <3>3
  <2>2. CASE k = i
    <3>1. d[k] = N + 1  BY <1>3, <1>7, <2>2
    <3>2. CASE k = m + 1  BY <1>2, <2>2, <3>1, <3>2
    <3>3. CASE k # m + 1
      <4>1. k + 1 \in 1 .. m + 1 /\ k + 1 > i /\ (k + 1) - 1 = i  BY <1>3, <2>2, <3>3
      <4>2. d[k + 1] = c[i]  BY <1>3, <1>7, <4>1
      <4> QED BY <1>2, <2>2, <3>1, <3>3, <4>2
    <3> QED BY <3>2, <3>3
  <2>3. CASE k > i
    <3>1. k - 1 \in 1 .. m /\ d[k] = c[k - 1] /\ k - 1 # i - 1  BY <1>3, <1>7, <2>3
    <3>2. r.next[d[k]] = IF k - 1 = m THEN 0 ELSE c[(k - 1) + 1]  BY <1>1, <1>2, <3>1
    <3>3. CASE k = m + 1
      <4>1. k - 1 = m  BY <1>1, <3>3
      <4> QED BY <3>2, <3>3, <4>1
    <3>4. CASE k # m + 1
      <4>1. k + 1 \in 1 .. m + 1 /\ k + 1 > i /\ (k + 1) - 1 = (k - 1) + 1 /\ k - 1 # m  BY <1>3, <2>3, <3>4
      <4>2. d[k + 1] = c[(k - 1) + 1]  BY <1>3, <1>7, <4>1
      <4> QED BY <3>2, <3>4, <4>1, <4>2
    <3> QED BY <3>3, <3>4
  <2> QED BY <1>3, <2>1, <2>2, <2>3
<1>11. ASSUME NEW k \in 1 .. m + 1  PROVE w[k] = r.val[d[k]]
  <2>1. \A x \in 1 .. m : r.val[c[x]] = s[x]  BY <1>1, <1>4
  <2> QED BY ZenonT(40), <1>3, <1>4, <1>7, <2>1
<1>12. DL!Leads(r, d)
  <2>1. DOMAIN d = 1 .. m + 1 /\ d # <<>>
    <3>1. DOMAIN d = 1 .. Len(d) /\ Len(d) # 0  BY <1>1, <1>5
    <3> QED BY <1>5, <3>1
  <2> QED BY <1>4, <1>5, <1>8, <1>9, <1>10, <2>1 DEF DL!Leads, DL!Nil
<1> QED BY <1>1, <1>2, <1>5, <1>6, <1>11, <1>12 DEF Chained, d, w, N

(* The node at the i-th place of the chain left out. *)
Drops(l, c, i, r) ==
  /\ DL!Allocated(r) /\ ~r.panicked /\ r.length = l.length - 1 /\ r.val = l.val
  /\ r.head = IF i # 1 THEN l.head ELSE IF Len(c) = 1 THEN 0 ELSE c[2]
  /\ \A j \in 1 .. Len(c) : j # i => r.next[c[j]] = IF j # i - 1 THEN l.next[c[j]]
                                                   ELSE IF i = Len(c) THEN 0 ELSE c[i + 1]

LEMMA NodeDropped ==
    ASSUME NEW l, NEW c, NEW s, Chained(l, c, s), NEW i \in 1 .. Len(c), NEW r, Drops(l, c, i, r)
    PROVE  Chained(r, DL!Without(c, i), DL!Without(s, i))
<1> DEFINE N == Len(l.val)
           m == Len(c)
           d == DL!Without(c, i)
           w == DL!Without(s, i)
<1>1. /\ N \in Nat /\ m \in Nat /\ DOMAIN c = 1 .. m /\ c \in Seq(1 .. N)
      /\ \A k \in 1 .. m : c[k] \in 1 .. N
      /\ \A j, k \in 1 .. m : c[j] = c[k] => j = k
      /\ l.head = IF m = 0 THEN 0 ELSE c[1]
      /\ \A k \in 1 .. m : l.next[c[k]] = IF k = m THEN 0 ELSE c[k + 1]
      /\ s \in Seq(Values) /\ Len(s) = m /\ \A k \in 1 .. m : s[k] = l.val[c[k]]
      /\ l.length = m
  <2>1. N \in Nat /\ m \in Nat /\ DOMAIN c = 1 .. m /\ c \in Seq(1 .. N)  BY ChainedIs
  <2>3. \A k \in 1 .. m : c[k] \in 1 .. N  BY ChainedIs
  <2>4. \A j, k \in 1 .. m : c[j] = c[k] => j = k  BY ChainedIs
  <2>5. l.head = IF m = 0 THEN 0 ELSE c[1]  BY ChainedIs
  <2>6. \A k \in 1 .. m : l.next[c[k]] = IF k = m THEN 0 ELSE c[k + 1]  BY ChainedIs
  <2>7. s \in Seq(Values) /\ Len(s) = m /\ l.length = m  BY ZenonT(40), ChainedIs
  <2>8. \A k \in 1 .. m : s[k] = l.val[c[k]]  BY DEF Chained
  <2> HIDE DEF N, m
  <2> QED BY Zenon, <2>1, <2>3, <2>4, <2>5, <2>6, <2>7, <2>8
<1>2. /\ DL!Allocated(r) /\ ~r.panicked /\ r.length = l.length - 1 /\ r.val = l.val
      /\ r.head = IF i # 1 THEN l.head ELSE IF m = 1 THEN 0 ELSE c[2]
      /\ \A j \in 1 .. m : j # i => r.next[c[j]] = IF j # i - 1 THEN l.next[c[j]]
                                                 ELSE IF i = m THEN 0 ELSE c[i + 1]
  BY DEF Drops
<1>3. m \in Nat /\ N \in Nat /\ i \in Nat /\ i >= 1 /\ i <= m
  <2>1. m \in Nat /\ N \in Nat  BY <1>1
  <2> QED BY SMTT(40), <2>1
<1> HIDE DEF N, m
<1>5. /\ d \in Seq(1 .. N) /\ Len(d) = m - 1
      /\ \A k \in 1 .. m - 1 : d[k] = IF k < i THEN c[k] ELSE c[k + 1]
  <2>2. i \in 1 .. Len(c) /\ Len(c) = m  BY DEF m
  <2>3. HasRemoved(1 .. N, d, c, i)  BY <1>1, <2>2, WithoutAt
  <2> HIDE DEF d
  <2> QED BY <2>2, <2>3 DEF HasRemoved
<1>6. /\ w \in Seq(Values) /\ Len(w) = m - 1
      /\ \A k \in 1 .. m - 1 : w[k] = IF k < i THEN s[k] ELSE s[k + 1]
  <2>1. i \in 1 .. Len(s)  BY <1>1, <1>3
  <2>2. HasRemoved(Values, w, s, i)  BY <1>1, <2>1, WithoutAt
  <2> HIDE DEF w
  <2> QED BY <1>1, <2>2 DEF HasRemoved
<1> HIDE DEF d, w
<1> DEFINE At(k) == IF k < i THEN k ELSE k + 1
<1>7. \A k \in 1 .. m - 1 : At(k) \in 1 .. m /\ At(k) # i /\ d[k] = c[At(k)] /\ w[k] = s[At(k)]
  <2> TAKE k \in 1 .. m - 1
  <2>1. At(k) \in 1 .. m /\ At(k) # i  BY <1>3
  <2> QED BY <1>5, <1>6, <2>1
<1>8. ASSUME NEW j \in 1 .. m - 1, NEW k \in 1 .. m - 1, d[j] = d[k]  PROVE j = k
  <2>1. At(j) = At(k)
    <3>1. At(j) \in 1 .. m /\ At(k) \in 1 .. m /\ c[At(j)] = c[At(k)]  BY <1>7, <1>8
    <3> HIDE DEF At
    <3> QED BY <1>1, <3>1
  <2> QED BY <1>3, <2>1
<1>9. r.head = IF m - 1 = 0 THEN 0 ELSE d[1]
  <2>1. l.head = c[1]  BY <1>1, <1>3
  <2>2. CASE m = 1
    <3>1. i = 1  BY <1>3, <2>2
    <3> QED BY <1>2, <2>2, <3>1
  <2>3. CASE m # 1
    <3>1. 1 \in 1 .. m - 1 /\ m - 1 # 0  BY <1>3, <2>3
    <3>2. d[1] = c[At(1)]  BY <1>7, <3>1
    <3>3. At(1) = IF i = 1 THEN 2 ELSE 1  BY <1>3
    <3> HIDE DEF At
    <3> QED BY <1>2, <2>1, <2>3, <3>1, <3>2, <3>3
  <2> QED BY <2>2, <2>3
<1>10. ASSUME NEW k \in 1 .. m - 1  PROVE r.next[d[k]] = IF k = m - 1 THEN 0 ELSE d[k + 1]
  <2>0. k \in 1 .. m - 1  OBVIOUS
  <2>1. d[k] = c[At(k)] /\ At(k) \in 1 .. m /\ At(k) # i  BY <1>7, <2>0
  <2>2. r.next[d[k]] = IF At(k) # i - 1 THEN l.next[c[At(k)]] ELSE IF i = m THEN 0 ELSE c[i + 1]
    <3> HIDE DEF At
    <3> QED BY <1>2, <2>1
  <2>3. l.next[c[At(k)]] = IF At(k) = m THEN 0 ELSE c[At(k) + 1]
    <3> HIDE DEF At
    <3> QED BY <1>1, <2>1
  <2>4. CASE k = i - 1
    <3>1. At(k) = i - 1 /\ (k = m - 1 <=> i = m)  BY <1>3, <2>4
    <3>2. i # m => k + 1 \in 1 .. m - 1 /\ At(k + 1) = i + 1  BY <1>3, <2>4
    <3>3. i # m => d[k + 1] = c[i + 1]
      <4>1. i # m => d[k + 1] = c[At(k + 1)]  BY <1>7, <3>2
      <4> QED BY <3>2, <4>1
    <3> HIDE DEF At
    <3> QED BY <2>2, <3>1, <3>3
  <2>5. CASE k # i - 1
    <3>1. At(k) # i - 1 /\ (k = m - 1 <=> At(k) = m)  BY <1>3, <2>5
    <3>2. k # m - 1 => k + 1 \in 1 .. m - 1 /\ At(k + 1) = At(k) + 1  BY <1>3, <2>5
    <3>3. k # m - 1 => d[k + 1] = c[At(k) + 1]
      <4>1. k # m - 1 => d[k + 1] = c[At(k + 1)]  BY <1>7, <3>2
      <4> QED BY <3>2, <4>1
    <3> HIDE DEF At
    <3> QED BY <2>2, <2>3, <3>1, <3>3
  <2> QED BY <2>4, <2>5
<1>11. ASSUME NEW k \in 1 .. m - 1  PROVE w[k] = r.val[d[k]]
  <2>1. \A x \in 1 .. m : r.val[c[x]] = s[x]  BY <1>1, <1>2
  <2> HIDE DEF At
  <2> QED BY <1>7, <2>1
<1>12. DL!Leads(r, d)
  <2>1. DOMAIN d = 1 .. m - 1 /\ (d = <<>> <=> m - 1 = 0)
    <3>1. d \in Seq(1 .. N)  BY <1>5
    <3>2. DOMAIN d = 1 .. Len(d)  BY <3>1
    <3>3. d = <<>> <=> Len(d) = 0  BY <3>1, EmptySeq
    <3> QED BY <1>5, <3>2, <3>3
  <2>2. r.head = IF d = <<>> THEN 0 ELSE d[1]  BY <1>9, <2>1
  <2>3. Len(r.val) = N  BY <1>2 DEF N
  <2> HIDE DEF At
  <2> QED BY <1>5, <1>8, <1>10, <2>1, <2>2, <2>3 DEF DL!Leads, DL!Nil
<1> HIDE DEF At
<1>13. Chained(r, d, w)  BY <1>1, <1>2, <1>5, <1>6, <1>11, <1>12 DEF Chained
<1> QED BY <1>13 DEF d, w

(* l is the link of these fields, which has not panicked. *)
Link(l, val, next, pre, head, length) ==
  l \in [type : {"DoublyLink"}, val : {val}, next : {next}, pre : {pre}, head : {head}, length : {length},
         panicked : {FALSE}]

LEMMA LinkIs ==
    ASSUME NEW l, NEW c, NEW s, Chained(l, c, s)
    PROVE  Link(l, l.val, l.next, l.pre, l.head, Len(c))
BY DEF Chained, DL!Allocated, Link

(* Such a link, with its fields. *)
Made(l, val, next, pre, head, length) ==
  /\ DL!Allocated(l) /\ ~l.panicked /\ l.val = val /\ l.next = next /\ l.pre = pre
  /\ l.head = head /\ l.length = length

LEMMA LinkAllocated ==
    ASSUME NEW n \in Nat, NEW val \in Seq(Values), Len(val) = n,
           NEW next \in [1 .. n -> 0 .. n], NEW pre \in [1 .. n -> 0 .. n],
           NEW head \in 0 .. n, NEW length \in Nat,
           NEW l, Link(l, val, next, pre, head, length)
    PROVE  Made(l, val, next, pre, head, length)
<1>1. /\ ~l.panicked /\ l.val = val /\ l.next = next /\ l.pre = pre
      /\ l.head = head /\ l.length = length
  BY DEF Link
<1> DEFINE A == Seq(Values)
           P == 0 .. n
           F == [1 .. n -> P]
<1> HIDE DEF A, P, F
<1>2. val \in A /\ next \in F /\ pre \in F /\ head \in P /\ length \in Nat  BY DEF A, P, F
<1>3. l \in [type : {"DoublyLink"}, val : A, next : F, pre : F, head : P, length : Nat, panicked : BOOLEAN]
  BY <1>2 DEF Link
<1>4. DL!Allocated(l)  BY <1>1, <1>3 DEF DL!Allocated, A, P, F
<1> QED BY <1>1, <1>4 DEF Made

(* One node more, which points to x. *)
Extended(g, f, n, x) ==
  g \in [1 .. n + 1 -> 0 .. n + 1] /\ g[n + 1] = x /\ \A k \in 1 .. n : g[k] = f[k]

LEMMA PointersGrow ==
    ASSUME NEW n \in Nat, NEW f \in [1 .. n -> 0 .. n], NEW x \in 0 .. n
    PROVE  Extended(Append(f, x), f, n, x)
<1> DEFINE P == 0 .. n
           g == Append(f, x)
<1>1. P \subseteq 0 .. n + 1 /\ f \in [1 .. n -> P] /\ x \in P  OBVIOUS
<1> HIDE DEF P
<1>2. f \in Seq(P) /\ Len(f) = n  BY <1>1, FunctionIsSeq
<1>3. /\ g \in Seq(P) /\ Len(g) = n + 1 /\ g[n + 1] = x
      /\ \A k \in 1 .. n : g[k] = f[k]
  BY <1>1, <1>2, AppendProperties
<1> HIDE DEF g
<1>4. g \in [1 .. n + 1 -> P]
  <2>1. DOMAIN g = 1 .. n + 1 /\ \A k \in 1 .. n + 1 : g[k] \in P  BY <1>3, ElementOfSeq
  <2>2. g = [k \in 1 .. n + 1 |-> g[k]]  BY <1>3, <2>1
  <2> QED BY <2>1, <2>2
<1>5. g \in [1 .. n + 1 -> 0 .. n + 1]  BY <1>1, <1>4
<1> QED BY <1>3, <1>5 DEF g, Extended

LEMMA DoublyAtHead ==
    ASSUME NEW l, NEW c, NEW s, Chained(l, c, s), NEW v \in Values
    PROVE  Adds(l, c, 1, v, DL!InsertAtHead(l, v))
<1> DEFINE N == Len(l.val)
           m == Len(c)
           r == DL!InsertAtHead(l, v)
           val == Append(l.val, v)
           next == Append(l.next, l.head)
           long == Append(l.pre, 0)
           pre == IF m = 0 THEN long ELSE [long EXCEPT ![l.head] = N + 1]
<1>1. N \in Nat /\ m \in Nat /\ l.val \in Seq(Values)  BY ChainedIs
<1>2. l.next \in [1 .. N -> 0 .. N] /\ l.pre \in [1 .. N -> 0 .. N]  BY ChainedIs
<1>3. \A k \in 1 .. m : c[k] \in 1 .. N  BY ChainedIs
<1>4. l.head = IF m = 0 THEN 0 ELSE c[1]  BY ChainedIs
<1>5. l.length = m /\ Link(l, l.val, l.next, l.pre, l.head, m)  BY ChainedIs, LinkIs
<1>6. l.head \in 0 .. N /\ 0 \in 0 .. N /\ (m # 0 => l.head \in 1 .. N)  BY <1>1, <1>3, <1>4
<1>7. Link(r, val, next, pre, N + 1, m + 1)
  <2>1. CASE m = 0
    <3>1. l.length = 0 /\ l.head = 0 /\ pre = long  BY <1>4, <1>5, <2>1
    <3>2. r = [[l EXCEPT !.val = val, !.next = next, !.pre = long, !.length = @ + 1] EXCEPT !.head = N + 1]
      BY <3>1 DEF DL!InsertAtHead, DL!Alloc, DL!New, DL!Nil
    <3> HIDE DEF val, next, long, pre, r, N, m
    <3> QED BY <1>5, <3>1, <3>2 DEF Link
  <2>2. CASE m # 0
    <3>1. l.length # 0 /\ pre = [long EXCEPT ![l.head] = N + 1]  BY <1>5, <2>2
    <3>2. r = [[[l EXCEPT !.val = val, !.next = next, !.pre = long, !.length = @ + 1] EXCEPT !.head = N + 1]
               EXCEPT !.pre[l.head] = N + 1]
      BY <3>1 DEF DL!InsertAtHead, DL!Alloc, DL!New, DL!Nil
    <3> HIDE DEF val, next, long, pre, r, N, m
    <3> QED BY <1>5, <3>1, <3>2 DEF Link
  <2> QED BY <2>1, <2>2
<1>8. val \in Seq(Values) /\ Len(val) = N + 1  BY <1>1, AppendProperties
<1> HIDE DEF N, m
<1>9. Extended(next, l.next, N, l.head) /\ Extended(long, l.pre, N, 0)  BY <1>1, <1>2, <1>6, PointersGrow
<1> HIDE DEF val, next, long, r
<1>10. /\ next \in [1 .. N + 1 -> 0 .. N + 1] /\ next[N + 1] = l.head
       /\ \A k \in 1 .. N : next[k] = l.next[k]
  BY <1>9 DEF Extended
<1>11. pre \in [1 .. N + 1 -> 0 .. N + 1]
  <2>1. long \in [1 .. N + 1 -> 0 .. N + 1] /\ N + 1 \in 0 .. N + 1  BY <1>1, <1>9 DEF Extended
  <2> QED BY <2>1
<1> HIDE DEF pre
<1>12. /\ DL!Allocated(r) /\ ~r.panicked /\ r.length = m + 1 /\ r.val = val /\ r.head = N + 1 /\ r.next = next
  <2>1. N + 1 \in 0 .. N + 1 /\ m + 1 \in Nat /\ N + 1 \in Nat  BY <1>1
  <2>2. next \in [1 .. N + 1 -> 0 .. N + 1]  BY <1>10
  <2>3. Made(r, val, next, pre, N + 1, m + 1)  BY <1>7, <1>8, <1>11, <2>1, <2>2, LinkAllocated
  <2> QED BY <2>3 DEF Made
<1>13. next[N + 1] = IF 1 = m + 1 THEN 0 ELSE c[1]  BY <1>1, <1>4, <1>10
<1>14. ASSUME NEW j \in 1 .. m  PROVE next[c[j]] = IF j = 1 - 1 THEN N + 1 ELSE l.next[c[j]]
  <2>1. j # 1 - 1 /\ c[j] \in 1 .. N  BY <1>1, <1>3
  <2> QED BY <1>10, <2>1
<1>15. Adds(l, c, 1, v, r)  BY <1>5, <1>12, <1>13, <1>14 DEF Adds, N, m, val
<1> QED BY <1>15 DEF r

(* l with a new node of value v behind current. *)
Behind(l, v, current) ==
  [DL!Alloc(l, v, l.next[current], current) EXCEPT !.next[current] = Len(l.val) + 1]

LEMMA DoublyBehind ==
    ASSUME NEW l, NEW c, NEW s, Chained(l, c, s), NEW v \in Values, NEW i \in 1 .. Len(c)
    PROVE  Adds(l, c, i + 1, v, Behind(l, v, c[i]))
<1> DEFINE N == Len(l.val)
           m == Len(c)
           n == c[i]
           r == Behind(l, v, n)
           val == Append(l.val, v)
           long == Append(l.next, l.next[n])
           next == [long EXCEPT ![n] = N + 1]
           pre == Append(l.pre, n)
<1>1. N \in Nat /\ m \in Nat /\ l.val \in Seq(Values)  BY ChainedIs
<1>2. l.next \in [1 .. N -> 0 .. N] /\ l.pre \in [1 .. N -> 0 .. N]  BY ChainedIs
<1>3. \A k \in 1 .. m : c[k] \in 1 .. N  BY ChainedIs
<1>4. l.head \in 0 .. N
  <2>1. l.head = IF m = 0 THEN 0 ELSE c[1]  BY ChainedIs
  <2> HIDE DEF N, m
  <2> QED BY <1>1, <1>3, <2>1
<1>5. l.length = m /\ Link(l, l.val, l.next, l.pre, l.head, m)  BY ChainedIs, LinkIs
<1>6. i \in 1 .. m  OBVIOUS
<1>7. Link(r, val, next, pre, l.head, m + 1)
  <2>1. r = [[l EXCEPT !.val = val, !.next = long, !.pre = pre, !.length = @ + 1] EXCEPT !.next[n] = N + 1]
    BY DEF Behind, DL!Alloc
  <2> HIDE DEF val, next, long, pre, r, N, m, n
  <2>2. next = [long EXCEPT ![n] = N + 1]  BY DEF next
  <2> QED BY <1>5, <2>1, <2>2 DEF Link
<1>8. val \in Seq(Values) /\ Len(val) = N + 1  BY <1>1, AppendProperties
<1> HIDE DEF N, m
<1>9. n \in 1 .. N /\ n \in 0 .. N /\ l.next[n] \in 0 .. N
  <2>1. n \in 1 .. N  BY <1>3, <1>6
  <2> HIDE DEF n
  <2> QED BY <1>1, <1>2, <2>1
<1> HIDE DEF n
<1>10. Extended(long, l.next, N, l.next[n]) /\ Extended(pre, l.pre, N, n)  BY <1>1, <1>2, <1>9, PointersGrow
<1> HIDE DEF val, long, pre, r
<1>11. /\ long \in [1 .. N + 1 -> 0 .. N + 1] /\ long[N + 1] = l.next[n]
       /\ \A k \in 1 .. N : long[k] = l.next[k]
       /\ pre \in [1 .. N + 1 -> 0 .. N + 1]
  BY <1>10 DEF Extended
<1>12. next \in [1 .. N + 1 -> 0 .. N + 1]
  <2>1. N + 1 \in 0 .. N + 1  BY <1>1
  <2> QED BY <1>11, <2>1
<1>13. \A k \in 1 .. N + 1 : next[k] = IF k = n THEN N + 1 ELSE long[k]  BY <1>11
<1> HIDE DEF next
<1>14. /\ DL!Allocated(r) /\ ~r.panicked /\ r.length = m + 1 /\ r.val = val /\ r.head = l.head /\ r.next = next
  <2>1. l.head \in 0 .. N + 1 /\ m + 1 \in Nat /\ N + 1 \in Nat  BY <1>1, <1>4
  <2>2. Made(r, val, next, pre, l.head, m + 1)  BY <1>7, <1>8, <1>11, <1>12, <2>1, LinkAllocated
  <2> QED BY <2>2 DEF Made
<1>15. next[N + 1] = IF i + 1 = m + 1 THEN 0 ELSE c[i + 1]
  <2>1. N + 1 # n /\ N + 1 \in 1 .. N + 1  BY <1>1, <1>9
  <2>2. next[N + 1] = l.next[n]  BY <1>11, <1>13, <2>1
  <2>3. l.next[c[i]] = IF i = m THEN 0 ELSE c[i + 1]  BY ZenonT(40), ChainedIs DEF m
  <2>4. i = m <=> i + 1 = m + 1  BY <1>1
  <2> QED BY <2>2, <2>3, <2>4 DEF n
<1>16. ASSUME NEW j \in 1 .. m  PROVE next[c[j]] = IF j = (i + 1) - 1 THEN N + 1 ELSE l.next[c[j]]
  <2>1. c[j] \in 1 .. N /\ c[j] \in 1 .. N + 1  BY <1>1, <1>3
  <2>2. next[c[j]] = IF c[j] = n THEN N + 1 ELSE l.next[c[j]]  BY <1>11, <1>13, <2>1
  <2>3. c[j] = n <=> j = i
    <3>1. c[j] = c[i] => j = i  BY ZenonT(40), <1>6, ChainedIs DEF m
    <3> QED BY <3>1 DEF n
  <2>4. (i + 1) - 1 = i  OBVIOUS
  <2> QED BY <2>2, <2>3, <2>4
<1>17. i + 1 # 1  OBVIOUS
<1>18. Adds(l, c, i + 1, v, r)  BY <1>5, <1>14, <1>15, <1>16, <1>17 DEF Adds, N, m, val
<1> QED BY <1>18 DEF r, n

(* Some chain of l holds the values s. *)
HoldsLink(l, s) == \E c : Chained(l, c, s)

LEMMA DoublyInserts ==
    ASSUME NEW l, NEW s, HoldsLink(l, s), NEW v \in Values
    PROVE  /\ HoldsLink(DL!InsertAtHead(l, v), <<v>> \o s)
           /\ HoldsLink(DL!InsertAtTail(l, v), Append(s, v))
           /\ \A i \in Int : HoldsLink(DL!InsertAt(l, i, v), IF i \in 0 .. Len(s) THEN DL!With(s, i + 1, v) ELSE s)
<1>1. PICK c : Chained(l, c, s)  BY DEF HoldsLink
<1> DEFINE m == Len(c)
<1>2. m \in Nat /\ Len(s) = m /\ s \in Seq(Values)  BY ZenonT(40), <1>1, ChainedIs
<1>3. l.length = m /\ (l.head = 0 <=> m = 0)  BY <1>1, ChainedIs
<1>4. DL!Nodes(l) = c /\ (m # 0 => DL!Last(l) = c[m])  BY <1>1, ChainedReads
<1>5. DL!With(s, 1, v) = <<v>> \o s /\ DL!With(s, m + 1, v) = Append(s, v)
  <2>1. SL!With(s, 1, v) = <<v>> \o s /\ SL!With(s, Len(s) + 1, v) = Append(s, v)  BY <1>2, AtEnds
  <2>2. \A k : DL!With(s, k, v) = SL!With(s, k, v)  BY DEF DL!With, SL!With
  <2> QED BY <1>2, <2>1, <2>2
<1>6. \A i \in 1 .. m + 1 : \A r : Adds(l, c, i, v, r) => HoldsLink(r, DL!With(s, i, v))
  <2> TAKE i \in 1 .. m + 1
  <2> TAKE r
  <2> HAVE Adds(l, c, i, v, r)
  <2>1. Chained(r, DL!With(c, i, Len(l.val) + 1), DL!With(s, i, v))  BY <1>1, NodeAdded
  <2> QED BY <2>1 DEF HoldsLink
<1>7. \A i \in 1 .. m : HoldsLink(Behind(l, v, c[i]), DL!With(s, i + 1, v))
  <2> TAKE i \in 1 .. m
  <2>1. Adds(l, c, i + 1, v, Behind(l, v, c[i]))  BY <1>1, DoublyBehind
  <2> HIDE DEF m
  <2>2. i + 1 \in 1 .. m + 1  BY <1>2
  <2> QED BY <1>6, <2>1, <2>2
<1> HIDE DEF m
<1>8. HoldsLink(DL!InsertAtHead(l, v), <<v>> \o s)
  <2>1. Adds(l, c, 1, v, DL!InsertAtHead(l, v)) /\ 1 \in 1 .. m + 1  BY <1>1, <1>2, DoublyAtHead
  <2>2. HoldsLink(DL!InsertAtHead(l, v), DL!With(s, 1, v))  BY <1>6, <2>1
  <2> QED BY <1>5, <2>2
<1>9. HoldsLink(DL!InsertAtTail(l, v), Append(s, v))
  <2>1. CASE m = 0
    <3>1. DL!InsertAtTail(l, v) = DL!InsertAtHead(l, v)  BY <1>3, <2>1 DEF DL!InsertAtTail, DL!Nil
    <3>2. <<v>> \o s = Append(s, v)  BY SMTT(40), <1>5, <2>1
    <3> QED BY <1>8, <3>1, <3>2
  <2>2. CASE m # 0
    <3>1. m \in 1 .. m  BY <1>2, <2>2
    <3>2. l.next[c[m]] = 0  BY <1>1, <3>1, ChainedIs DEF m
    <3>3. DL!InsertAtTail(l, v) = Behind(l, v, c[m])
      BY <1>3, <1>4, <2>2, <3>2 DEF DL!InsertAtTail, Behind, DL!Nil, DL!New
    <3>4. HoldsLink(Behind(l, v, c[m]), DL!With(s, m + 1, v))  BY <1>7, <3>1
    <3> QED BY <1>5, <3>3, <3>4
  <2> QED BY <2>1, <2>2
<1>10. ASSUME NEW i \in Int
       PROVE  HoldsLink(DL!InsertAt(l, i, v), IF i \in 0 .. Len(s) THEN DL!With(s, i + 1, v) ELSE s)
  <2>1. CASE i < 0 \/ i > m
    <3>1. DL!InsertAt(l, i, v) = l /\ ~(i \in 0 .. Len(s))  BY <1>2, <1>3, <2>1 DEF DL!InsertAt
    <3>2. HoldsLink(l, s)  OBVIOUS
    <3> QED BY <3>1, <3>2
  <2>2. CASE i = 0
    <3>1. DL!InsertAt(l, i, v) = DL!InsertAtHead(l, v) /\ i \in 0 .. Len(s) /\ i + 1 = 1
      BY <1>2, <1>3, <2>2 DEF DL!InsertAt
    <3> QED BY <1>5, <1>8, <3>1
  <2>3. CASE i = m /\ i # 0
    <3>1. DL!InsertAt(l, i, v) = DL!InsertAtTail(l, v) /\ i \in 0 .. Len(s)
      BY <1>2, <1>3, <2>3 DEF DL!InsertAt
    <3> QED BY <1>5, <1>9, <2>3, <3>1
  <2>4. CASE i \in 1 .. m - 1
    <3>1. i \in 0 .. Len(s) /\ i \in 1 .. m /\ ~(i < 0 \/ i > m) /\ i # 0 /\ i # m  BY <1>2, <2>4
    <3>2. DL!InsertAt(l, i, v) = Behind(l, v, c[i])
      BY <1>3, <1>4, <3>1 DEF DL!InsertAt, Behind, DL!New
    <3> QED BY <1>7, <3>1, <3>2
  <2> QED BY <1>2, <2>1, <2>2, <2>3, <2>4
<1> QED BY <1>8, <1>9, <1>10

(* l without the node behind current. *)
Cut(l, current) == [l EXCEPT !.next[current] = l.next[l.next[current]], !.length = @ - 1]

LEMMA DoublyCut ==
    ASSUME NEW l, NEW c, NEW s, Chained(l, c, s), NEW i \in 1 .. Len(c) - 1
    PROVE  Drops(l, c, i + 1, Cut(l, c[i]))
<1> DEFINE N == Len(l.val)
           m == Len(c)
           n == c[i]
           x == l.next[l.next[n]]
           r == Cut(l, n)
           next == [l.next EXCEPT ![n] = x]
<1>1. N \in Nat /\ m \in Nat /\ l.val \in Seq(Values)  BY ChainedIs
<1>2. l.next \in [1 .. N -> 0 .. N] /\ l.pre \in [1 .. N -> 0 .. N]  BY ChainedIs
<1>3. \A k \in 1 .. m : c[k] \in 1 .. N  BY ChainedIs
<1>4. l.head \in 0 .. N
  <2>1. l.head = IF m = 0 THEN 0 ELSE c[1]  BY ChainedIs
  <2> HIDE DEF N, m
  <2> QED BY <1>1, <1>3, <2>1
<1>5. l.length = m /\ Link(l, l.val, l.next, l.pre, l.head, m)  BY ChainedIs, LinkIs
<1>6. i \in 1 .. m /\ i + 1 \in 1 .. m /\ m - 1 \in Nat /\ i # m /\ i + 1 # 1 /\ (i + 1) - 1 = i
  <2>1. i \in 1 .. m - 1  OBVIOUS
  <2> HIDE DEF m
  <2> QED BY <1>1, <2>1
<1>7. \A k \in 1 .. m : l.next[c[k]] = IF k = m THEN 0 ELSE c[k + 1]  BY ChainedIs
<1>a. \A j, k \in 1 .. m : c[j] = c[k] => j = k  BY ChainedIs
<1>8. Link(r, l.val, next, l.pre, l.head, m - 1)
  <2>1. r = [l EXCEPT !.next[n] = x, !.length = @ - 1]  BY DEF Cut
  <2> HIDE DEF r, N, m, n, x, next
  <2>2. next = [l.next EXCEPT ![n] = x]  BY DEF next
  <2> QED BY <1>5, <2>1, <2>2 DEF Link
<1> HIDE DEF N, m
<1>9. x = (IF i + 1 = m THEN 0 ELSE c[i + 2]) /\ x \in 0 .. N
  <2>1. l.next[c[i]] = c[i + 1]  BY <1>6, <1>7
  <2>2. l.next[c[i + 1]] = IF i + 1 = m THEN 0 ELSE c[(i + 1) + 1]  BY <1>6, <1>7
  <2>3. (i + 1) + 1 = i + 2 /\ (i + 1 # m => i + 2 \in 1 .. m)  BY <1>1, <1>6
  <2>4. x = IF i + 1 = m THEN 0 ELSE c[i + 2]  BY <2>1, <2>2, <2>3
  <2> HIDE DEF x
  <2> QED BY <1>1, <1>3, <2>3, <2>4
<1>10. n \in 1 .. N  BY <1>3, <1>6
<1> HIDE DEF n, x
<1>11. next \in [1 .. N -> 0 .. N] /\ \A k \in 1 .. N : next[k] = IF k = n THEN x ELSE l.next[k]
  BY <1>2, <1>9, <1>10
<1> HIDE DEF next, r
<1>12. DL!Allocated(r) /\ ~r.panicked /\ r.length = m - 1 /\ r.val = l.val /\ r.head = l.head /\ r.next = next
  <2>1. Len(l.val) = N /\ m - 1 \in Nat  BY <1>6 DEF N
  <2>2. Made(r, l.val, next, l.pre, l.head, m - 1)  BY <1>1, <1>2, <1>4, <1>8, <1>11, <2>1, LinkAllocated
  <2> QED BY <2>2 DEF Made
<1>13. ASSUME NEW j \in 1 .. m
       PROVE  next[c[j]] = IF j # (i + 1) - 1 THEN l.next[c[j]] ELSE IF i + 1 = m THEN 0 ELSE c[(i + 1) + 1]
  <2>1. c[j] \in 1 .. N  BY <1>3
  <2>2. next[c[j]] = IF c[j] = n THEN x ELSE l.next[c[j]]  BY <1>11, <2>1
  <2>3. c[j] = n <=> j = i
    <3>1. c[j] = c[i] => j = i  BY <1>6, <1>a
    <3> QED BY <3>1 DEF n
  <2>4. (i + 1) + 1 = i + 2  OBVIOUS
  <2> QED BY <1>6, <1>9, <2>2, <2>3, <2>4
<1>14. Drops(l, c, i + 1, r)  BY <1>5, <1>6, <1>12, <1>13 DEF Drops, m
<1> QED BY <1>14 DEF r, n

(* What the deletion of the only node leaves: nothing, and a panic. *)
EmptiedLink(l) == DL!Allocated(l) /\ l.panicked /\ l.head = 0

LEMMA DoublyLosesHead ==
    ASSUME NEW l, NEW c, NEW s, Chained(l, c, s)
    PROVE  LET r == DL!DeleteAtHead(l)
           IN  /\ Len(c) = 0 => r = l
               /\ Len(c) = 1 => EmptiedLink(r)
               /\ Len(c) > 1 => Drops(l, c, 1, r)
<1> DEFINE N == Len(l.val)
           m == Len(c)
           r == DL!DeleteAtHead(l)
<1>1. N \in Nat /\ m \in Nat /\ l.val \in Seq(Values)  BY ChainedIs
<1>2. l.next \in [1 .. N -> 0 .. N] /\ l.pre \in [1 .. N -> 0 .. N]  BY ChainedIs
<1>3. \A k \in 1 .. m : c[k] \in 1 .. N  BY ChainedIs
<1>4. l.head = (IF m = 0 THEN 0 ELSE c[1]) /\ (l.head = 0 <=> m = 0)  BY ChainedIs
<1>5. l.length = m /\ Link(l, l.val, l.next, l.pre, l.head, m)  BY ChainedIs, LinkIs
<1>7. \A k \in 1 .. m : l.next[c[k]] = IF k = m THEN 0 ELSE c[k + 1]  BY ChainedIs
<1>8. ASSUME m = 0  PROVE r = l  BY <1>4, <1>8 DEF DL!DeleteAtHead, DL!Nil
<1>9. ASSUME m = 1  PROVE EmptiedLink(r)
  <2>1. l.head # 0 /\ l.next[l.head] = 0
    <3>1. 1 \in 1 .. m /\ l.head = c[1]  BY <1>4, <1>9
    <3> HIDE DEF m
    <3> QED BY <1>4, <1>7, <1>9, <3>1
  <2>2. r = [l EXCEPT !.head = 0, !.panicked = TRUE]  BY <2>1 DEF DL!DeleteAtHead, DL!Nil
  <2> DEFINE A == Seq(Values)
             P == 0 .. N
             F == [1 .. N -> P]
  <2>3. l \in [type : {"DoublyLink"}, val : A, next : F, pre : F, head : P, length : Nat, panicked : BOOLEAN]
    BY DEF Chained, DL!Allocated
  <2>4. 0 \in P  BY <1>1
  <2>5. r.val = l.val
    <3> HIDE DEF A, P, F, r, N
    <3> QED BY <2>2, <2>3
  <2> HIDE DEF A, P, F, r, N
  <2>6. /\ r \in [type : {"DoublyLink"}, val : A, next : F, pre : F, head : P, length : Nat, panicked : BOOLEAN]
        /\ r.panicked /\ r.head = 0
    BY <2>2, <2>3, <2>4
  <2> QED BY <2>5, <2>6 DEF DL!Allocated, EmptiedLink, A, P, F, N
<1>10. ASSUME m > 1  PROVE Drops(l, c, 1, r)
  <2> DEFINE x == l.next[l.head]
             pre == [l.pre EXCEPT ![x] = 0]
  <2>1. 1 \in 1 .. m /\ 2 \in 1 .. m /\ 1 # m /\ m # 0 /\ m - 1 \in Nat
    <3> HIDE DEF m
    <3> QED BY <1>1, <1>10
  <2>2. l.head # 0 /\ l.head = c[1] /\ x = c[2] /\ x \in 1 .. N /\ x # 0
    <3> HIDE DEF m, N
    <3>1. l.head # 0 /\ l.head = c[1]  BY <1>4, <2>1
    <3>2. l.next[c[1]] = c[1 + 1] /\ 1 + 1 = 2  BY <1>7, <2>1
    <3>3. c[2] \in 1 .. N  BY <1>3, <2>1
    <3> QED BY <1>1, <3>1, <3>2, <3>3
  <2>3. r = [l EXCEPT !.head = l.next[@], !.pre[x] = 0, !.length = @ - 1]
    BY <2>2 DEF DL!DeleteAtHead, DL!Nil
  <2>4. Link(r, l.val, l.next, pre, x, m - 1)
    <3> HIDE DEF r, N, m
    <3> QED BY <1>5, <2>3 DEF Link
  <2>5. pre \in [1 .. N -> 0 .. N] /\ x \in 0 .. N
    <3> HIDE DEF x, N
    <3>1. 0 \in 0 .. N  BY <1>1
    <3> QED BY SMTT(40), <1>1, <1>2, <2>2, <3>1
  <2>6. Len(l.val) = N  OBVIOUS
  <2> HIDE DEF N, m, r, x, pre
  <2>7. Made(r, l.val, l.next, pre, x, m - 1)  BY <1>1, <1>2, <2>1, <2>4, <2>5, <2>6, LinkAllocated
  <2>8. DL!Allocated(r) /\ ~r.panicked /\ r.length = m - 1 /\ r.val = l.val /\ r.head = x /\ r.next = l.next
    BY <2>7 DEF Made
  <2>9. \A j \in 1 .. m : j # 1 - 1  BY <1>1
  <2> QED BY <1>5, <2>1, <2>2, <2>8, <2>9 DEF Drops, m
<1> HIDE DEF m
<1> QED BY <1>8, <1>9, <1>10 DEF m

LEMMA DoublyLosesTail ==
    ASSUME NEW l, NEW c, NEW s, Chained(l, c, s)
    PROVE  LET r == DL!DeleteAtTail(l)
           IN  /\ Len(c) = 0 => r = l
               /\ Len(c) = 1 => EmptiedLink(r)
               /\ Len(c) > 1 => Drops(l, c, Len(c), r)
<1> DEFINE m == Len(c)
           r == DL!DeleteAtTail(l)
<1>1. m \in Nat /\ (l.head = 0 <=> m = 0) /\ (m # 0 => l.head = c[1])  BY ChainedIs
<1>2. \A k \in 1 .. m : l.next[c[k]] = IF k = m THEN 0 ELSE c[k + 1]  BY ChainedIs
<1>3. m \in 0 .. 1 => r = DL!DeleteAtHead(l)
  <2>1. CASE m = 0  BY <1>1, <2>1 DEF DL!DeleteAtTail, DL!Nil
  <2>2. CASE m = 1
    <3>1. l.next[l.head] = 0
      <4> HIDE DEF m
      <4> QED BY <1>1, <1>2, <2>2
    <3> QED BY <3>1 DEF DL!DeleteAtTail, DL!Nil
  <2> QED BY <2>1, <2>2
<1>4. m = 0 => r = l
  <2>1. m = 0 => DL!DeleteAtHead(l) = l  BY DoublyLosesHead
  <2> HIDE DEF r, m
  <2> QED BY <1>3, <2>1
<1>5. m = 1 => EmptiedLink(r)
  <2>1. m = 1 => EmptiedLink(DL!DeleteAtHead(l))  BY DoublyLosesHead
  <2> HIDE DEF r, m
  <2> QED BY <1>3, <2>1
<1>6. ASSUME m > 1  PROVE Drops(l, c, m, r)
  <2>1. m - 1 \in 1 .. m - 1 /\ 1 \in 1 .. m /\ m - 1 \in 1 .. m /\ m \in 1 .. m /\ (m - 1) + 1 = m /\ m - 1 # m /\ m # 0 /\ 1 # m
    <3> HIDE DEF m
    <3> QED BY <1>1, <1>6
  <2>2. l.head # 0 /\ l.next[l.head] # 0
    <3>1. \A k \in 1 .. m : c[k] \in 1 .. Len(l.val)  BY ChainedIs
    <3>2. l.next[c[1]] = c[2] /\ 2 \in 1 .. m
      <4> HIDE DEF m
      <4> QED BY <1>1, <1>2, <1>6, <2>1
    <3> HIDE DEF m
    <3> QED BY <1>1, <2>1, <3>1, <3>2
  <2>3. l.next[l.next[c[m - 1]]] = 0
    <3> HIDE DEF m
    <3> QED BY <1>2, <2>1
  <2>4. DL!Nodes(l) = c  BY ChainedReads
  <2>5. r = Cut(l, c[m - 1])  BY SMTT(40), <2>2, <2>3, <2>4 DEF DL!DeleteAtTail, DL!Nil, Cut
  <2>6. Drops(l, c, (m - 1) + 1, Cut(l, c[m - 1]))  BY <2>1, DoublyCut
  <2> HIDE DEF m, r
  <2> QED BY <2>1, <2>5, <2>6
<1> HIDE DEF m
<1> QED BY <1>4, <1>5, <1>6 DEF m

(* What a deletion may leave, when w was asked for. *)
LinkOutcome(d, w) == w \in Seq(Values) /\ (HoldsLink(d, w) \/ (EmptiedLink(d) /\ Len(w) <= 1))

LEMMA DoublyDeletesEnds ==
    ASSUME NEW l, NEW s, HoldsLink(l, s)
    PROVE  /\ LinkOutcome(DL!DeleteAtHead(l), IF s = <<>> THEN s ELSE Tail(s))
           /\ LinkOutcome(DL!DeleteAtTail(l), IF s = <<>> THEN s ELSE DL!Without(s, Len(s)))
<1>1. PICK c : Chained(l, c, s)  BY DEF HoldsLink
<1> DEFINE m == Len(c)
           h == DL!DeleteAtHead(l)
           t == DL!DeleteAtTail(l)
<1>2. m \in Nat /\ Len(s) = m /\ s \in Seq(Values) /\ (s = <<>> <=> m = 0)  BY <1>1, ChainedSizes
<1>3. (m = 0 => h = l) /\ (m = 1 => EmptiedLink(h)) /\ (m > 1 => Drops(l, c, 1, h))
  BY <1>1, DoublyLosesHead
<1>4. (m = 0 => t = l) /\ (m = 1 => EmptiedLink(t)) /\ (m > 1 => Drops(l, c, m, t))
  BY <1>1, DoublyLosesTail
<1>5. \A i \in 1 .. m : DL!Without(s, i) \in Seq(Values) /\ Len(DL!Without(s, i)) = m - 1
  <2> TAKE i \in 1 .. m
  <2>1. i \in 1 .. Len(s)  BY <1>2
  <2>2. HasRemoved(Values, DL!Without(s, i), s, i)  BY <1>2, <2>1, WithoutAt
  <2> QED BY <1>2, <2>2 DEF HasRemoved
<1>6. \A i \in 1 .. m : \A r : Drops(l, c, i, r) => HoldsLink(r, DL!Without(s, i))
  <2> TAKE i \in 1 .. m
  <2> TAKE r
  <2> HAVE Drops(l, c, i, r)
  <2>1. Chained(r, DL!Without(c, i), DL!Without(s, i))  BY <1>1, NodeDropped
  <2> QED BY <2>1 DEF HoldsLink
<1>7. s # <<>> => DL!Without(s, 1) = Tail(s)
  <2>1. ASSUME s # <<>>  PROVE SL!Without(s, 1) = Tail(s)
    <3>1. 1 \in 1 .. Len(s)  BY <1>2, <2>1
    <3>2. s[1] \in Values  BY <1>2, <3>1, ElementOfSeq
    <3> QED BY <1>2, <2>1, <3>2, AtEnds
  <2>2. DL!Without(s, 1) = SL!Without(s, 1)  BY DEF DL!Without, SL!Without
  <2> QED BY <2>1, <2>2
<1> HIDE DEF m, h, t
<1>8. CASE m = 0
  <2>1. s = <<>> /\ h = l /\ t = l  BY <1>2, <1>3, <1>4, <1>8
  <2> QED BY <1>2, <2>1 DEF LinkOutcome, h, t
<1>9. CASE m = 1
  <2>1. s # <<>> /\ 1 \in 1 .. m /\ EmptiedLink(h) /\ EmptiedLink(t)  BY <1>2, <1>3, <1>4, <1>9
  <2>2. Len(s) = 1 /\ DL!Without(s, 1) \in Seq(Values) /\ Len(DL!Without(s, 1)) <= 1  BY <1>2, <1>5, <1>9, <2>1
  <2> QED BY <1>7, <2>1, <2>2 DEF LinkOutcome, h, t
<1>10. CASE m > 1
  <2>1. s # <<>> /\ 1 \in 1 .. m /\ m \in 1 .. m /\ Drops(l, c, 1, h) /\ Drops(l, c, m, t)
    BY <1>2, <1>3, <1>4, <1>10
  <2>2. HoldsLink(h, DL!Without(s, 1)) /\ HoldsLink(t, DL!Without(s, m))  BY <1>6, <2>1
  <2>3. DL!Without(s, 1) \in Seq(Values) /\ DL!Without(s, m) \in Seq(Values)  BY <1>5, <2>1
  <2> QED BY <1>2, <1>7, <2>1, <2>2, <2>3 DEF LinkOutcome, h, t
<1> QED BY <1>2, <1>8, <1>9, <1>10

(* The conditions asked again after a deletion at an end do not delete a   *)
(* second time, but in a link of two nodes, which panics.                  *)
LEMMA DoublyDeletes ==
    ASSUME NEW l, NEW s, HoldsLink(l, s), NEW i \in Int
    PROVE  LinkOutcome(DL!DeleteAt(l, i), IF i + 1 \in DOMAIN s THEN DL!Without(s, i + 1) ELSE s)
<1>1. PICK c : Chained(l, c, s)  BY DEF HoldsLink
<1> DEFINE m == Len(c)
           w == IF i + 1 \in DOMAIN s THEN DL!Without(s, i + 1) ELSE s
           d == DL!DeleteAt(l, i)
           h == IF l.next[l.head] = 0 \/ i = 0 THEN DL!DeleteAtHead(l) ELSE l
           t == IF ~h.panicked /\ i = h.length - 1 THEN DL!DeleteAtTail(h) ELSE h
           current == DL!Nodes(t)[i]
<1>2. m \in Nat /\ Len(s) = m /\ s \in Seq(Values) /\ (s = <<>> <=> m = 0)  BY <1>1, ChainedSizes
<1>3. l.panicked = FALSE /\ l.length = m /\ (l.head = 0 <=> m = 0) /\ DOMAIN s = 1 .. m
  BY <1>1, ChainedSizes
<1>4. d = IF l.head = 0 THEN l
          ELSE IF t.panicked \/ i < 1 \/ i > t.length - 1 THEN t
          ELSE [t EXCEPT !.next[current] = t.next[t.next[current]], !.length = @ - 1]
  BY DEF DL!DeleteAt, DL!Nil
<1>5. m # 0 => (l.next[l.head] = 0 <=> m = 1)
  <2>1. m # 0 => l.head = c[1]  BY <1>1, ChainedIs
  <2>2. \A k \in 1 .. m : l.next[c[k]] = IF k = m THEN 0 ELSE c[k + 1]  BY <1>1, ChainedIs
  <2>3. \A k \in 1 .. m : c[k] \in 1 .. Len(l.val)  BY <1>1, ChainedIs
  <2> HIDE DEF m
  <2>4. m # 0 => 1 \in 1 .. m /\ (m # 1 => 2 \in 1 .. m) /\ 1 + 1 = 2  BY <1>2
  <2>5. m > 1 => c[2] # 0  BY <1>2, <2>3, <2>4
  <2> QED BY <1>2, <2>1, <2>2, <2>4, <2>5
<1>6. /\ LinkOutcome(DL!DeleteAtHead(l), IF s = <<>> THEN s ELSE Tail(s))
      /\ LinkOutcome(DL!DeleteAtTail(l), IF s = <<>> THEN s ELSE DL!Without(s, m))
  BY <1>2, DoublyDeletesEnds
<1>7. \A k \in 1 .. m : DL!Without(s, k) \in Seq(Values) /\ Len(DL!Without(s, k)) = m - 1
  <2> TAKE k \in 1 .. m
  <2>1. k \in 1 .. Len(s)  BY <1>2
  <2>2. HasRemoved(Values, DL!Without(s, k), s, k)  BY <1>2, <2>1, WithoutAt
  <2> QED BY <1>2, <2>2 DEF HasRemoved
<1>8. s # <<>> => DL!Without(s, 1) = Tail(s)
  <2>1. ASSUME s # <<>>  PROVE SL!Without(s, 1) = Tail(s)
    <3>1. 1 \in 1 .. Len(s)  BY <1>2, <2>1
    <3>2. s[1] \in Values  BY <1>2, <3>1, ElementOfSeq
    <3> QED BY <1>2, <2>1, <3>2, AtEnds
  <2>2. DL!Without(s, 1) = SL!Without(s, 1)  BY DEF DL!Without, SL!Without
  <2> QED BY SMTT(40), <2>1, <2>2
<1>9. SUFFICES LinkOutcome(d, w)  OBVIOUS
<1>10. (m = 1 => EmptiedLink(DL!DeleteAtHead(l))) /\ (m > 1 => Drops(l, c, 1, DL!DeleteAtHead(l)))
  BY <1>1, DoublyLosesHead
<1>11. i + 1 \in DOMAIN s <=> i \in 0 .. m - 1  BY <1>2, <1>3
<1> HIDE DEF m, d
<1>12. CASE m = 0
  <2>1. ~(i + 1 \in DOMAIN s)  BY <1>3, <1>12
  <2>2. w = s  BY SMTT(40), <2>1
  <2>3. d = l  BY <1>3, <1>4, <1>12
  <2> HIDE DEF w
  <2> QED BY <1>2, <2>2, <2>3 DEF LinkOutcome
<1>13. CASE m = 1
  <2>1. h = DL!DeleteAtHead(l)  BY <1>5, <1>13
  <2>2. EmptiedLink(h)  BY <1>10, <1>13, <2>1
  <2> HIDE DEF h
  <2>3. h.panicked  BY <2>2 DEF EmptiedLink
  <2>4. t = h  BY <2>3
  <2> HIDE DEF t
  <2>5. d = h  BY <1>3, <1>4, <1>13, <2>3, <2>4
  <2>6. w \in Seq(Values) /\ Len(w) <= 1
    <3>1. CASE i + 1 \in DOMAIN s
      <4>1. i + 1 \in 1 .. m  BY <1>3, <3>1
      <4> QED BY <1>7, <1>13, <3>1, <4>1
    <3>2. CASE ~(i + 1 \in DOMAIN s)
      <4>1. w = s  BY <3>2
      <4>2. s \in Seq(Values) /\ Len(s) <= 1  BY <1>2, <1>13
      <4> HIDE DEF w
      <4> QED BY <4>1, <4>2
    <3> QED BY SMTT(40), <3>1, <3>2
  <2> HIDE DEF w
  <2> QED BY <2>2, <2>5, <2>6 DEF LinkOutcome
<1>14. CASE m > 1 /\ i = 0
  <2>0. l.head # 0 /\ s # <<>> /\ i + 1 \in DOMAIN s /\ i + 1 = 1 /\ 1 \in 1 .. m  BY <1>2, <1>3, <1>14
  <2>1. h = DL!DeleteAtHead(l)  BY <1>14
  <2>2. w = DL!Without(s, 1)  BY <2>0
  <2> HIDE DEF w
  <2>3. Drops(l, c, 1, h)  BY <1>10, <1>14, <2>1
  <2> HIDE DEF h
  <2>4. Chained(h, DL!Without(c, 1), w)
    <3>1. 1 \in 1 .. Len(c)  BY <2>0 DEF m
    <3>2. Chained(h, DL!Without(c, 1), DL!Without(s, 1))  BY <1>1, <2>3, <3>1, NodeDropped
    <3> QED BY <2>2, <3>2
  <2>5. w \in Seq(Values) /\ Len(w) = m - 1  BY <1>7, <2>0, <2>2
  <2>6. ~h.panicked /\ h.length = m - 1 /\ Len(DL!Without(c, 1)) = m - 1  BY <2>4, <2>5, ChainedSizes
  <2>7. CASE m = 2
    <3>1. t = DL!DeleteAtTail(h)  BY <1>14, <2>6, <2>7
    <3>2. EmptiedLink(t)
      <4>1. Len(DL!Without(c, 1)) = 1  BY <2>6, <2>7
      <4>2. EmptiedLink(DL!DeleteAtTail(h))  BY <2>4, <4>1, DoublyLosesTail
      <4> QED BY <3>1, <4>2
    <3> HIDE DEF t
    <3>3. t.panicked  BY <3>2 DEF EmptiedLink
    <3>4. d = t  BY <1>4, <2>0, <3>3
    <3> QED BY <2>5, <2>7, <3>2, <3>4 DEF LinkOutcome
  <2>8. CASE m # 2
    <3>1. t = h  BY <1>2, <1>14, <2>6, <2>8
    <3> HIDE DEF t
    <3>2. d = h  BY <1>4, <1>14, <2>0, <3>1
    <3> QED BY <2>4, <2>5, <3>2 DEF LinkOutcome, HoldsLink
  <2> QED BY <2>7, <2>8
<1>15. CASE m > 1 /\ i # 0
  <2>0. l.head # 0 /\ s # <<>> /\ h = l  BY <1>2, <1>3, <1>5, <1>15
  <2> HIDE DEF h
  <2>1. CASE i = m - 1
    <3>1. t = DL!DeleteAtTail(l)  BY <1>3, <2>0, <2>1
    <3>2. w = DL!Without(s, m)
      <4>1. i + 1 \in DOMAIN s /\ i + 1 = m  BY <1>2, <1>11, <1>15, <2>1
      <4> QED BY <4>1
    <3> HIDE DEF w
    <3>3. Drops(l, c, m, t) /\ m \in 1 .. Len(c)
      <4>1. Len(c) > 1 => Drops(l, c, Len(c), DL!DeleteAtTail(l))  BY <1>1, DoublyLosesTail
      <4>2. m \in 1 .. m  BY <1>2, <1>15
      <4> HIDE DEF t
      <4> QED BY <1>15, <3>1, <4>1, <4>2 DEF m
    <3> HIDE DEF t
    <3>4. Chained(t, DL!Without(c, m), w)
      <4>1. Chained(t, DL!Without(c, m), DL!Without(s, m))  BY <1>1, <3>3, NodeDropped
      <4> QED BY <3>2, <4>1
    <3>5. w \in Seq(Values) /\ Len(w) = m - 1
      <4>1. m \in 1 .. m  BY <1>2, <1>15
      <4> QED BY <1>7, <3>2, <4>1
    <3>6. t.length = m - 1  BY <3>4, <3>5, ChainedSizes
    <3>7. d = t
      <4>1. i > t.length - 1  BY <1>2, <2>1, <3>6
      <4> QED BY <1>4, <2>0, <4>1
    <3> QED BY <3>4, <3>5, <3>7 DEF LinkOutcome, HoldsLink
  <2>2. CASE i < 1 \/ i > m - 1
    <3>1. t = l
      <4>1. i # m - 1  BY <1>2, <1>15, <2>2
      <4> QED BY <1>3, <2>0, <4>1
    <3> HIDE DEF t
    <3>2. d = l
      <4>1. i < 1 \/ i > t.length - 1  BY <1>3, <2>2, <3>1
      <4> QED BY <1>4, <2>0, <3>1, <4>1
    <3>3. w = s
      <4>1. ~(i + 1 \in DOMAIN s)  BY <1>2, <1>11, <1>15, <2>2
      <4> QED BY <4>1
    <3> HIDE DEF w
    <3> QED BY <1>2, <3>2, <3>3 DEF LinkOutcome
  <2>3. CASE i >= 1 /\ i < m - 1
    <3>1. t = l
      <4>1. i # m - 1  BY <1>2, <2>3
      <4> QED BY <1>3, <2>0, <4>1
    <3>2. current = c[i]
      <4>1. DL!Nodes(l) = c  BY <1>1, ChainedReads
      <4> HIDE DEF t
      <4> QED BY <3>1, <4>1
    <3> HIDE DEF t, current
    <3>3. d = Cut(l, c[i])
      <4>1. ~(t.panicked \/ i < 1 \/ i > t.length - 1)  BY <1>2, <1>3, <2>3, <3>1
      <4> QED BY <1>4, <2>0, <3>1, <3>2, <4>1 DEF Cut
    <3>4. i \in 1 .. m - 1 /\ i + 1 \in 1 .. m /\ i + 1 \in DOMAIN s  BY <1>2, <1>3, <2>3
    <3>5. w = DL!Without(s, i + 1)  BY <3>4
    <3> HIDE DEF w
    <3>6. Drops(l, c, i + 1, d)  BY <1>1, <3>3, <3>4, DoublyCut DEF m
    <3>7. Chained(d, DL!Without(c, i + 1), w)
      <4>1. i + 1 \in 1 .. Len(c)  BY <3>4 DEF m
      <4>2. Chained(d, DL!Without(c, i + 1), DL!Without(s, i + 1))  BY <1>1, <3>6, <4>1, NodeDropped
      <4> QED BY <3>5, <4>2
    <3>8. w \in Seq(Values)  BY <1>7, <3>4, <3>5
    <3> QED BY <3>7, <3>8 DEF LinkOutcome, HoldsLink
  <2> QED BY <1>2, <2>1, <2>2, <2>3
<1> QED BY <1>2, <1>12, <1>13, <1>14, <1>15

(* Of a chain whose Pre pointers lead back, Reverse makes the chain of the *)
(* same nodes in the other direction.                                      *)
LEMMA DoublyTurns ==
    ASSUME NEW l, NEW s, HoldsLink(l, s), DL!PreRight(l)
    PROVE  LET w == [i \in DOMAIN s |-> s[Len(s) + 1 - i]]
           IN  w \in Seq(Values) /\ HoldsLink(DL!Reverse(l), w)
<1>1. PICK c : Chained(l, c, s)  BY DEF HoldsLink
<1> DEFINE N == Len(l.val)
           m == Len(c)
           w == [i \in DOMAIN s |-> s[Len(s) + 1 - i]]
           d == [j \in 1 .. m |-> c[m + 1 - j]]
           on == {c[i] : i \in 1 .. m}
           next == [n \in 1 .. N |-> IF n \in on THEN l.pre[n] ELSE l.next[n]]
           pre == [n \in 1 .. N |-> IF n \in on THEN l.next[n] ELSE l.pre[n]]
           last == l.pre[c[m]]
           head == IF l.head = 0 \/ last = 0 THEN l.head ELSE pre[last]
           r == DL!Reverse(l)
<1>2. m \in Nat /\ Len(s) = m /\ s \in Seq(Values) /\ DOMAIN s = 1 .. m /\ l.length = m /\ (l.head = 0 <=> m = 0)
  BY <1>1, ChainedSizes
<1>3. DL!Nodes(l) = c /\ (m # 0 => DL!Last(l) = c[m])  BY <1>1, ChainedReads
<1>4. N \in Nat /\ l.val \in Seq(Values) /\ DOMAIN c = 1 .. m  BY <1>1, ChainedIs
<1>5. l.next \in [1 .. N -> 0 .. N] /\ l.pre \in [1 .. N -> 0 .. N]  BY <1>1, ChainedIs
<1>6. \A k \in 1 .. m : c[k] \in 1 .. N  BY <1>1, ChainedIs
<1>7. \A j, k \in 1 .. m : c[j] = c[k] => j = k  BY <1>1, ChainedIs
<1>8. \A k \in 1 .. m : l.next[c[k]] = IF k = m THEN 0 ELSE c[k + 1]  BY <1>1, ChainedIs
<1>9. l.head = IF m = 0 THEN 0 ELSE c[1]  BY <1>1, ChainedIs
<1>10. \A k \in 1 .. m : s[k] = l.val[c[k]]  BY <1>1 DEF Chained
<1>11. \A k \in 1 .. m : l.pre[c[k]] = IF k = 1 THEN 0 ELSE c[k - 1]
  BY <1>3, <1>4 DEF DL!PreRight, DL!Nil
<1>12. Link(l, l.val, l.next, l.pre, l.head, m)  BY <1>1, LinkIs
<1>13. next \in [1 .. N -> 0 .. N] /\ pre \in [1 .. N -> 0 .. N]
  <2> HIDE DEF N, on
  <2> QED BY <1>5
<1>14. Link(r, l.val, next, pre, head, m)
  <2> DEFINE turned == [l EXCEPT !.next = next, !.pre = pre]
  <2>1. DOMAIN l.next = 1 .. N /\ DOMAIN l.pre = 1 .. N  BY <1>5
  <2>2. {DL!Nodes(l)[i] : i \in DOMAIN DL!Nodes(l)} = on  BY <1>3, <1>4
  <2>3. r = IF l.head = 0 \/ l.pre[DL!Last(l)] = 0 THEN turned
            ELSE [turned EXCEPT !.head = turned.pre[l.pre[DL!Last(l)]]]
    <3> DEFINE visited == {DL!Nodes(l)[i] : i \in DOMAIN DL!Nodes(l)}
               back == [l EXCEPT !.next = [n \in DOMAIN @ |-> IF n \in visited THEN l.pre[n] ELSE @[n]],
                                 !.pre = [n \in DOMAIN @ |-> IF n \in visited THEN l.next[n] ELSE @[n]]]
    <3>1. r = IF l.head = 0 \/ l.pre[DL!Last(l)] = 0 THEN back
              ELSE [back EXCEPT !.head = back.pre[l.pre[DL!Last(l)]]]
      BY DEF DL!Reverse, DL!Nil
    <3>2. visited = on  BY <2>2
    <3> HIDE DEF visited, r, N, on
    <3>3. next = [n \in DOMAIN l.next |-> IF n \in visited THEN l.pre[n] ELSE l.next[n]]  BY <2>1, <3>2
    <3>4. pre = [n \in DOMAIN l.pre |-> IF n \in visited THEN l.next[n] ELSE l.pre[n]]  BY <2>1, <3>2
    <3>5. back = turned
      <4> HIDE DEF next, pre
      <4> QED BY <3>3, <3>4
    <3> HIDE DEF back, turned
    <3> QED BY <3>1, <3>5
  <2> HIDE DEF next, pre, r
  <2>4. turned.pre = pre /\ Link(turned, l.val, next, pre, l.head, m)  BY <1>12 DEF Link
  <2> HIDE DEF turned, m, N
  <2>5. CASE l.head = 0  BY <2>3, <2>4, <2>5
  <2>6. CASE l.head # 0
    <3>1. l.pre[DL!Last(l)] = last  BY <1>2, <1>3, <2>6
    <3> HIDE DEF last
    <3>2. CASE last = 0  BY <2>3, <2>4, <3>1, <3>2
    <3>3. CASE last # 0
      <4>1. head = pre[last] /\ r = [turned EXCEPT !.head = pre[last]]  BY <2>3, <2>4, <2>6, <3>1, <3>3
      <4> HIDE DEF head
      <4> QED BY <2>4, <4>1 DEF Link
    <3> QED BY <3>2, <3>3
  <2> QED BY <2>5, <2>6
<1>15. \A k \in 1 .. m : next[c[k]] = l.pre[c[k]] /\ pre[c[k]] = l.next[c[k]]
  <2> TAKE k \in 1 .. m
  <2>1. c[k] \in 1 .. N /\ c[k] \in on  BY <1>6
  <2> HIDE DEF on, N, m
  <2> QED BY <2>1
<1> HIDE DEF N, m, on, next, pre, r
<1>16. head = (IF m = 0 THEN 0 ELSE c[m]) /\ head \in 0 .. N
  <2>1. CASE m = 0  BY <1>4, <1>9, <2>1
  <2>2. CASE m = 1
    <3>1. 1 \in 1 .. m  BY <2>2
    <3>2. last = 0  BY <1>11, <2>2, <3>1
    <3>3. head = c[m]  BY <1>9, <2>2, <3>2
    <3>4. c[m] \in 1 .. N  BY <1>6, <2>2, <3>1
    <3> QED BY <1>4, <2>2, <3>3, <3>4
  <2>3. CASE m > 1
    <3>1. m \in 1 .. m /\ m - 1 \in 1 .. m /\ (m - 1) + 1 = m /\ m # 1 /\ m - 1 # m /\ m # 0  BY <1>2, <2>3
    <3>2. last = c[m - 1] /\ c[m - 1] \in 1 .. N /\ c[m] \in 1 .. N  BY <1>6, <1>11, <3>1
    <3>3. pre[c[m - 1]] = c[m]  BY <1>8, <1>15, <3>1
    <3>4. l.head # 0 /\ last # 0  BY <1>2, <1>4, <3>1, <3>2
    <3> QED BY <1>4, <3>1, <3>2, <3>3, <3>4
  <2> QED BY <1>2, <2>1, <2>2, <2>3
<1> HIDE DEF head
<1>17. Made(r, l.val, next, pre, head, m)
  <2>1. Len(l.val) = N  BY DEF N
  <2> QED BY <1>2, <1>4, <1>13, <1>14, <1>16, <2>1, LinkAllocated
<1>18. \A j \in 1 .. m : m + 1 - j \in 1 .. m  BY <1>2
<1>19. d \in Seq(1 .. N) /\ Len(d) = m /\ DOMAIN d = 1 .. m
  <2> DEFINE S == 1 .. N
  <2>1. d \in [1 .. m -> S]  BY <1>6, <1>18
  <2> HIDE DEF S, d
  <2>2. d \in Seq(S) /\ Len(d) = m  BY <1>2, <2>1, FunctionIsSeq
  <2> QED BY <2>1, <2>2 DEF S
<1>20. w \in Seq(Values) /\ Len(w) = m
  <2>1. w = [j \in 1 .. m |-> s[m + 1 - j]]  BY <1>2
  <2>2. \A j \in 1 .. m : s[m + 1 - j] \in Values  BY <1>2, <1>18, ElementOfSeq
  <2>3. w \in [1 .. m -> Values]
    <3> HIDE DEF w
    <3> QED BY <2>1, <2>2
  <2> HIDE DEF w
  <2> QED BY <1>2, <2>3, FunctionIsSeq
<1>21. \A j \in 1 .. m : d[j] = c[m + 1 - j] /\ w[j] = s[m + 1 - j]  BY <1>2
<1> HIDE DEF d, w
<1>22. DL!Leads(r, d)
  <2>1. \A j, k \in 1 .. m : d[j] = d[k] => j = k
    <3> TAKE j, k \in 1 .. m
    <3>1. d[j] = d[k] => m + 1 - j = m + 1 - k  BY <1>7, <1>18, <1>21
    <3> QED BY <1>2, <3>1
  <2>2. d = <<>> <=> m = 0  BY <1>19, EmptySeq
  <2>3. r.head = IF d = <<>> THEN 0 ELSE d[1]
    <3>1. r.head = head  BY <1>17 DEF Made
    <3>2. m # 0 => d[1] = c[m]
      <4>1. m # 0 => 1 \in 1 .. m /\ m + 1 - 1 = m  BY <1>2
      <4> QED BY <1>21, <4>1
    <3> QED BY <1>16, <2>2, <3>1, <3>2
  <2>4. \A j \in 1 .. m : r.next[d[j]] = IF j = m THEN 0 ELSE d[j + 1]
    <3> TAKE j \in 1 .. m
    <3>1. r.next = next  BY <1>17 DEF Made
    <3> DEFINE k == m + 1 - j
    <3>2. k \in 1 .. m /\ (k = 1 <=> j = m) /\ d[j] = c[k]  BY <1>2, <1>18, <1>21
    <3>3. j # m => d[j + 1] = c[k - 1]
      <4>1. j # m => j + 1 \in 1 .. m /\ m + 1 - (j + 1) = k - 1  BY <1>2
      <4> HIDE DEF k
      <4> QED BY <1>21, <4>1
    <3> HIDE DEF k
    <3>4. next[c[k]] = IF k = 1 THEN 0 ELSE c[k - 1]  BY <1>11, <1>15, <3>2
    <3> QED BY <3>1, <3>2, <3>3, <3>4
  <2>5. Len(r.val) = N  BY <1>17 DEF Made, N
  <2> QED BY <1>19, <2>1, <2>3, <2>4, <2>5 DEF DL!Leads, DL!Nil
<1>23. \A j \in 1 .. m : w[j] = r.val[d[j]]
  <2>1. r.val = l.val  BY <1>17 DEF Made
  <2> QED BY <1>10, <1>18, <1>21, <2>1
<1>24. Chained(r, d, w)
  <2>1. DL!Allocated(r) /\ ~r.panicked /\ r.length = m  BY <1>17 DEF Made
  <2> QED BY <1>19, <1>20, <1>22, <1>23, <2>1 DEF Chained
<1>25. w \in Seq(Values) /\ HoldsLink(r, w)  BY <1>20, <1>24 DEF HoldsLink
<1> QED BY <1>25 DEF w, r

LEMMA DoublyClears ==
    ASSUME NEW l, NEW s, HoldsLink(l, s)
    PROVE  HoldsLink(DL!Clear(l), <<>>)
<1>1. PICK c : Chained(l, c, s)  BY DEF HoldsLink
<1> DEFINE r == DL!Clear(l)
           N == Len(l.val)
<1>2. N \in Nat /\ l.val \in Seq(Values)  BY <1>1, ChainedIs
<1>3. l.next \in [1 .. N -> 0 .. N] /\ l.pre \in [1 .. N -> 0 .. N]  BY <1>1, ChainedIs
<1>4. Link(l, l.val, l.next, l.pre, l.head, Len(c))  BY <1>1, LinkIs
<1>5. Link(r, l.val, l.next, l.pre, 0, 0)
  <2>1. r = [l EXCEPT !.head = 0, !.length = 0]  BY DEF DL!Clear, DL!Nil
  <2> HIDE DEF r
  <2> QED BY <1>4, <2>1 DEF Link
<1>6. Made(r, l.val, l.next, l.pre, 0, 0)
  <2>1. 0 \in 0 .. N /\ Len(l.val) = N /\ 0 \in Nat  BY <1>2
  <2> HIDE DEF N, r
  <2> QED BY <1>2, <1>3, <1>5, <2>1, LinkAllocated
<1> HIDE DEF r
<1>7. r.head = 0 /\ DL!Allocated(r) /\ ~r.panicked /\ r.length = 0  BY <1>6 DEF Made
<1>8. DL!Leads(r, <<>>)
  <2>1. <<>> \in Seq(1 .. Len(r.val)) /\ DOMAIN <<>> = {}  OBVIOUS
  <2> QED BY <1>7, <2>1 DEF DL!Leads, DL!Nil
<1>9. Chained(r, <<>>, <<>>)
  <2>1. <<>> \in Seq(Values) /\ Len(<<>>) = 0  OBVIOUS
  <2> QED BY <1>7, <1>8, <2>1 DEF Chained
<1> QED BY <1>9 DEF HoldsLink, r

(* The slow pointer is halfway when the fast one has left the chain. *)
LEMMA DoublyMiddle ==
    ASSUME NEW l, NEW c, NEW s, Chained(l, c, s), Len(c) # 0
    PROVE  DL!Middle(l) = c[Len(c) \div 2 + 1]
<1> DEFINE N == Len(l.val)
           m == Len(c)
           q == m \div 2
           first == [fast |-> l.head, slow |-> l.head]
           Round(t) == IF t.fast # 0 /\ l.next[t.fast] # 0
                       THEN [fast |-> l.next[l.next[t.fast]], slow |-> l.next[t.slow]] ELSE t
           Row(i, F) == IF i = 1 - 1 THEN first ELSE Round(F[i - 1])
           W == CHOOSE F : F = [i \in 1 - 1 .. N |-> Row(i, F)]
           At(k) == IF k <= m THEN c[k] ELSE 0
           R(i) == IF i <= q THEN i ELSE q
           F == [i \in 0 .. N |-> [fast |-> At(1 + R(i) + R(i)), slow |-> c[1 + R(i)]]]
<1>1. N \in Nat /\ m \in Nat  BY ChainedIs
<1>2. \A k \in 1 .. m : c[k] \in 1 .. N  BY ChainedIs
<1>3. \A k \in 1 .. m : l.next[c[k]] = IF k = m THEN 0 ELSE c[k + 1]  BY ChainedIs
<1>4. l.head = IF m = 0 THEN 0 ELSE c[1]  BY ChainedIs
<1>5. m <= N  BY ChainedReads
<1>6. q \in Nat /\ q + q <= m /\ m <= q + q + 1
  <2> HIDE DEF m
  <2> QED BY <1>1
<1>7. m > 0 /\ N > 0 /\ m # 0
  <2>1. m # 0  OBVIOUS
  <2> HIDE DEF m, N
  <2> QED BY <1>1, <1>5, <2>1
<1>8. DL!Middle(l) = W[N].slow
  <2>1. ~(N < 1)
    <3> HIDE DEF N
    <3> QED BY <1>1, <1>7
  <2> QED BY Zenon, <2>1 DEF DL!Middle, DL!While, DL!For, DL!Nil
<1> HIDE DEF N, m, q
<1>9. R(0) = 0 /\ \A i \in 0 .. N : R(i) \in 0 .. q  BY <1>6
<1>10. F[0] = first
  <2>1. 0 \in 0 .. N /\ 1 + 0 + 0 = 1 /\ 1 + 0 = 1 /\ 1 <= m  BY <1>1, <1>7
  <2> HIDE DEF R
  <2>2. F[0] = [fast |-> At(1 + R(0) + R(0)), slow |-> c[1 + R(0)]]  BY <2>1
  <2> HIDE DEF F
  <2> QED BY <1>4, <1>7, <1>9, <2>1, <2>2
<1>11. ASSUME NEW i \in 1 .. N  PROVE F[i] = Round(F[i - 1])
  <2> DEFINE a == R(i - 1)
             b == R(i)
  <2>0. i \in 0 .. N /\ i - 1 \in 0 .. N /\ i \in Nat  BY <1>1
  <2>1. a \in Nat /\ a <= q /\ b = (IF a < q THEN a + 1 ELSE q) /\ (~(a < q) => a = q)  BY <1>6, <2>0
  <2> HIDE DEF R
  <2>2. /\ F[i - 1] = [fast |-> At(1 + a + a), slow |-> c[1 + a]]
        /\ F[i] = [fast |-> At(1 + b + b), slow |-> c[1 + b]]
    BY <2>0
  <2> HIDE DEF F, a, b
  <2>3. CASE a < q
    <3>1. 1 + a + a \in 1 .. m /\ 1 + a + a # m /\ (1 + a + a) + 1 \in 1 .. m /\ 1 + a \in 1 .. m /\ 1 + a # m
      BY <1>1, <1>6, <2>1, <2>3
    <3>2. At(1 + a + a) = c[1 + a + a] /\ c[1 + a + a] \in 1 .. N /\ c[(1 + a + a) + 1] \in 1 .. N
      BY <1>2, <3>1
    <3>3. l.next[c[1 + a + a]] = c[(1 + a + a) + 1] /\ l.next[c[1 + a]] = c[(1 + a) + 1]  BY <1>3, <3>1
    <3>4. l.next[c[(1 + a + a) + 1]] = At(((1 + a + a) + 1) + 1)
      <4>1. (1 + a + a) + 1 = m <=> ~(((1 + a + a) + 1) + 1 <= m)  BY <1>1, <2>1, <3>1
      <4> QED BY <1>3, <3>1, <4>1
    <3>5. b = a + 1 /\ 1 + b + b = ((1 + a + a) + 1) + 1 /\ 1 + b = (1 + a) + 1  BY <2>1, <2>3
    <3> HIDE DEF At
    <3>6. c[1 + a + a] # 0 /\ c[(1 + a + a) + 1] # 0  BY <1>1, <3>2
    <3>7. Round(F[i - 1]) = [fast |-> At(((1 + a + a) + 1) + 1), slow |-> c[(1 + a) + 1]]
      BY <2>2, <3>2, <3>3, <3>4, <3>6
    <3> HIDE DEF Round
    <3> QED BY <2>2, <3>5, <3>7
  <2>4. CASE ~(a < q)
    <3>1. a = q /\ b = q  BY <2>1, <2>4
    <3>2. At(1 + q + q) = 0 \/ l.next[At(1 + q + q)] = 0
      <4>1. CASE 1 + q + q = m
        <5>1. m \in 1 .. m  BY <1>1, <1>7
        <5>2. At(1 + q + q) = c[m]  BY <1>1, <4>1
        <5> QED BY <1>3, <5>1, <5>2
      <4>2. CASE 1 + q + q # m
        <5>1. ~(1 + q + q <= m)  BY <1>1, <1>6, <4>2
        <5> QED BY <5>1
      <4> QED BY <4>1, <4>2
    <3> HIDE DEF At
    <3>3. F[i - 1] = F[i] /\ F[i].fast = At(1 + q + q)  BY <2>2, <3>1
    <3> QED BY <3>2, <3>3
  <2> QED BY <2>3, <2>4
<1>12. F = [i \in 1 - 1 .. N |-> Row(i, F)]
  <2> HIDE DEF Round, first, R, At
  <2>1. \A i \in 0 .. N : F[i] = Row(i, F)
    <3> HIDE DEF F
    <3> QED BY <1>1, <1>10, <1>11
  <2>2. F = [i \in 0 .. N |-> F[i]]  OBVIOUS
  <2> HIDE DEF Row, F
  <2> QED BY <2>1, <2>2
<1> HIDE DEF F
<1>13. W = [i \in 1 - 1 .. N |-> Row(i, W)]
  <2> HIDE DEF Row
  <2> QED BY <1>12
<1> HIDE DEF W
<1>14. W[0] = first /\ \A i \in 1 .. N : W[i] = Round(W[i - 1])
  <2>1. \A i \in 0 .. N : W[i] = Row(i, W)
    <3>1. 1 - 1 .. N = 0 .. N  OBVIOUS
    <3> HIDE DEF Row
    <3>2. W = [i \in 0 .. N |-> Row(i, W)]  BY <1>13, <3>1
    <3> QED BY <3>2
  <2> HIDE DEF Round, first
  <2> QED BY <1>1, <2>1
<1> DEFINE T == {i \in Nat : i <= N => W[i] = F[i]}
<1> HIDE DEF Round, first, R, At
<1>15. 0 \in T  BY <1>10, <1>14
<1>16. ASSUME NEW i \in Nat, i \in T, i < N  PROVE i + 1 \in T
  <2>1. i + 1 \in 1 .. N /\ (i + 1) - 1 = i  BY <1>1, <1>16
  <2>2. W[i] = F[i]  BY <1>1, <1>16
  <2>3. W[i + 1] = F[i + 1]  BY <1>11, <1>14, <2>1, <2>2
  <2> QED BY <2>3
<1>17. N \in T
  <2> HIDE DEF T
  <2>1. \A i \in Nat : i \in T /\ i < N => i + 1 \in T  BY <1>16
  <2>2. \A i \in 0 .. N : i \in T  BY <1>1, <1>15, <2>1, Induction
  <2> QED BY <1>1, <2>2
<1>18. W[N] = F[N]  BY <1>1, <1>17
<1>19. F[N].slow = c[1 + R(N)]  BY <1>1 DEF F
<1>20. R(N) = q /\ 1 + q = q + 1  BY <1>1, <1>5, <1>6 DEF R
<1>21. DL!Middle(l) = c[q + 1]  BY <1>8, <1>18, <1>19, <1>20
<1> QED BY <1>21 DEF q, m

LEMMA DoublyStarts ==
    ASSUME DL!Init
    PROVE  DL!Inv
<1>1. /\ obj = [type |-> "DoublyLink", val |-> <<>>, next |-> <<>>, pre |-> <<>>,
                head |-> 0, length |-> 0, panicked |-> FALSE]
      /\ want = <<>> /\ trusted = TRUE
  BY DEF DL!Init, DL!Nil
<1>2. <<>> \in Seq(Values) /\ <<>> \in Seq(1 .. Len(<<>>)) /\ Len(<<>>) = 0 /\ DOMAIN <<>> = {}  OBVIOUS
<1>3. obj.val = <<>> /\ obj.head = 0 /\ obj.length = 0 /\ ~obj.panicked /\ obj.type = "DoublyLink"  BY <1>1
<1>4. DL!Allocated(obj)
  <2>1. 1 .. 0 = {} /\ 0 \in 0 .. 0  OBVIOUS
  <2>2. <<>> \in [1 .. 0 -> 0 .. 0]
    <3>1. <<>> = [i \in {} |-> 0]  OBVIOUS
    <3> QED BY <2>1, <3>1
  <2> DEFINE F == [1 .. 0 -> 0 .. 0]
             P == 0 .. 0
             A == Seq(Values)
  <2>3. <<>> \in F /\ 0 \in P /\ <<>> \in A  BY <1>2, <2>1, <2>2
  <2> HIDE DEF F, P, A
  <2>4. obj \in [type : {"DoublyLink"}, val : A, next : F, pre : F, head : P, length : Nat, panicked : BOOLEAN]
    BY <1>1, <2>3
  <2>5. Len(obj.val) = 0  BY <1>2, <1>3
  <2> QED BY <2>4, <2>5 DEF F, P, A, DL!Allocated
<1>5. Chained(obj, <<>>, <<>>)
  <2>1. <<>> \in Seq(1 .. Len(obj.val))  BY <1>2, <1>3
  <2>2. DL!Leads(obj, <<>>)  BY <1>2, <1>3, <2>1 DEF DL!Leads, DL!Nil
  <2> QED BY <1>2, <1>3, <1>4, <2>2 DEF Chained
<1>6. DL!Nodes(obj) = <<>> /\ DL!Content(obj) = <<>>  BY <1>5, ChainedReads
<1>7. DL!Leads(obj, DL!Nodes(obj))  BY <1>5, <1>6 DEF Chained
<1> QED BY <1>1, <1>2, <1>3, <1>4, <1>6, <1>7 DEF DL!Inv

(* A link that is not empty after a panic holds what was asked for, and    *)
(* every operation leaves an outcome of what it asks for.                  *)
LEMMA DoublyHolds ==
    ASSUME DL!Inv, trusted, ~obj.panicked
    PROVE  HoldsLink(obj, want) /\ want \in Seq(Values)
<1> DEFINE c == DL!Nodes(obj)
<1>1. /\ DL!Allocated(obj) /\ DL!Leads(obj, c) /\ DL!Content(obj) = want /\ obj.length = Len(want)
      /\ want \in Seq(Values)
  BY DEF DL!Inv
<1>2. want = [i \in DOMAIN c |-> obj.val[c[i]]]  BY <1>1 DEF DL!Content, DL!ValuesOf
<1>3. c \in Seq(1 .. Len(obj.val))  BY <1>1 DEF DL!Leads
<1> HIDE DEF c
<1>4. Len(c) \in Nat /\ DOMAIN c = 1 .. Len(c)  BY <1>3
<1>5. Len(want) \in Nat /\ DOMAIN want = 1 .. Len(want)  BY <1>1
<1>6. Len(want) = Len(c) /\ \A i \in 1 .. Len(c) : want[i] = obj.val[c[i]]
  <2>1. DOMAIN want = 1 .. Len(c)  BY <1>2, <1>4
  <2>2. 1 .. Len(want) = 1 .. Len(c)  BY SMTT(40), <1>5, <2>1
  <2> DEFINE n == Len(want)
             m == Len(c)
  <2>3. n \in Nat /\ m \in Nat /\ 1 .. n = 1 .. m  BY <1>4, <1>5, <2>2
  <2> HIDE DEF n, m
  <2>4. \A i \in Nat : (i >= 1 /\ i <= n) <=> (i >= 1 /\ i <= m)  BY <2>3
  <2>5. n = m  BY <2>3, <2>4
  <2> QED BY <1>2, <1>4, <2>5 DEF n, m
<1>7. Chained(obj, c, want)  BY <1>1, <1>6 DEF Chained, c
<1> QED BY <1>1, <1>7 DEF HoldsLink

LEMMA DoublyKeeps ==
    ASSUME NEW l, NEW w, LinkOutcome(l, w), obj' = l, want' = w, trusted'
    PROVE  DL!Inv'
<1>1. w \in Seq(Values)  BY DEF LinkOutcome
<1>2. CASE HoldsLink(l, w)
  <2>1. PICK c : Chained(l, c, w)  BY <1>2 DEF HoldsLink
  <2>2. DL!Nodes(l) = c /\ DL!Content(l) = w  BY <2>1, ChainedReads
  <2>3. DL!Allocated(l) /\ ~l.panicked /\ DL!Leads(l, c) /\ l.length = Len(w)  BY <2>1 DEF Chained
  <2>4. l.type = "DoublyLink"  BY <2>3 DEF DL!Allocated
  <2>5. DL!Leads(l, DL!Nodes(l))  BY <2>2, <2>3
  <2> QED BY <1>1, <2>2, <2>3, <2>4, <2>5 DEF DL!Inv
<1>3. CASE EmptiedLink(l) /\ Len(w) <= 1
  <2>1. DL!Allocated(l) /\ l.panicked /\ l.head = 0 /\ Len(w) <= 1  BY <1>3 DEF EmptiedLink
  <2>2. l.type = "DoublyLink"  BY <2>1 DEF DL!Allocated
  <2> QED BY <1>1, <2>1, <2>2 DEF DL!Inv, DL!Nil
<1> QED BY <1>2, <1>3 DEF LinkOutcome

LEMMA DoublySteps ==
    ASSUME DL!Inv, [DL!Next]_(DL!vars)
    PROVE  DL!Inv'
<1>1. ASSUME NEW l, NEW w, DL!Change(l, w)
      PROVE  obj' = l /\ want' = w /\ trusted /\ HoldsLink(obj, want) /\ want \in Seq(Values)
  <2>1. obj' = l /\ want' = w /\ trusted /\ ~obj.panicked  BY <1>1 DEF DL!Change, DL!Live
  <2> QED BY <2>1, DoublyHolds
<1>2. ASSUME NEW l, NEW w, DL!Change(l, w), UNCHANGED trusted, LinkOutcome(l, w)  PROVE DL!Inv'
  BY <1>1, <1>2, DoublyKeeps
<1>3. ASSUME NEW l, NEW w, DL!Change(l, w), UNCHANGED trusted, HoldsLink(l, w)  PROVE DL!Inv'
  <2>1. PICK c : Chained(l, c, w)  BY <1>3 DEF HoldsLink
  <2>2. w \in Seq(Values)  BY <2>1 DEF Chained
  <2> QED BY <1>2, <1>3, <2>2 DEF LinkOutcome
<1>4. CASE DL!Insert
  <2>1. PICK v \in Values, i \in DL!Indexes :
          /\ DL!Change(DL!InsertAt(obj, i, v), IF i \in 0 .. Len(want) THEN DL!With(want, i + 1, v) ELSE want)
          /\ UNCHANGED trusted
    BY <1>4 DEF DL!Insert
  <2>2. i \in Int  BY ContainersAssumption DEF DL!Indexes, ContainersAssumption
  <2> DEFINE w == IF i \in 0 .. Len(want) THEN DL!With(want, i + 1, v) ELSE want
  <2>3. HoldsLink(DL!InsertAt(obj, i, v), w)  BY <1>1, <2>1, <2>2, DoublyInserts
  <2>4. DL!Change(DL!InsertAt(obj, i, v), w)  BY <2>1
  <2> HIDE DEF w
  <2> QED BY <1>3, <2>1, <2>3, <2>4
<1>5. CASE DL!AddFirst
  <2>1. PICK v \in Values : DL!Change(DL!InsertAtHead(obj, v), <<v>> \o want) /\ UNCHANGED trusted
    BY <1>5 DEF DL!AddFirst
  <2>2. HoldsLink(DL!InsertAtHead(obj, v), <<v>> \o want)  BY <1>1, <2>1, DoublyInserts
  <2> QED BY <1>3, <2>1, <2>2
<1>6. CASE DL!AddLast
  <2>1. PICK v \in Values : DL!Change(DL!InsertAtTail(obj, v), Append(want, v)) /\ UNCHANGED trusted
    BY <1>6 DEF DL!AddLast
  <2>2. HoldsLink(DL!InsertAtTail(obj, v), Append(want, v))  BY <1>1, <2>1, DoublyInserts
  <2> QED BY <1>3, <2>1, <2>2
<1>7. CASE DL!RemoveFirst
  <2> DEFINE w == IF want = <<>> THEN want ELSE Tail(want)
  <2>1. DL!Change(DL!DeleteAtHead(obj), w) /\ UNCHANGED trusted  BY <1>7 DEF DL!RemoveFirst
  <2>2. LinkOutcome(DL!DeleteAtHead(obj), w)  BY <1>1, <2>1, DoublyDeletesEnds
  <2> HIDE DEF w
  <2> QED BY <1>2, <2>1, <2>2
<1>8. CASE DL!RemoveLast
  <2> DEFINE w == IF want = <<>> THEN want ELSE DL!Without(want, Len(want))
  <2>1. DL!Change(DL!DeleteAtTail(obj), w) /\ UNCHANGED trusted  BY <1>8 DEF DL!RemoveLast
  <2>2. LinkOutcome(DL!DeleteAtTail(obj), w)  BY <1>1, <2>1, DoublyDeletesEnds
  <2> HIDE DEF w
  <2> QED BY <1>2, <2>1, <2>2
<1>9. CASE DL!Remove
  <2>1. PICK i \in DL!Indexes :
          /\ DL!Change(DL!DeleteAt(obj, i), IF i + 1 \in DOMAIN want THEN DL!Without(want, i + 1) ELSE want)
          /\ UNCHANGED trusted
    BY <1>9 DEF DL!Remove
  <2>2. i \in Int  BY ContainersAssumption DEF DL!Indexes, ContainersAssumption
  <2> DEFINE w == IF i + 1 \in DOMAIN want THEN DL!Without(want, i + 1) ELSE want
  <2>3. LinkOutcome(DL!DeleteAt(obj, i), w)  BY <1>1, <2>1, <2>2, DoublyDeletes
  <2>4. DL!Change(DL!DeleteAt(obj, i), w)  BY <2>1
  <2> HIDE DEF w
  <2> QED BY <1>2, <2>1, <2>3, <2>4
<1>10. CASE DL!Turn
  <2> DEFINE w == [i \in DOMAIN want |-> want[Len(want) + 1 - i]]
             r == DL!Reverse(obj)
  <2>1. DL!Change(r, w) /\ trusted' = DL!PreRight(obj)  BY <1>10 DEF DL!Turn
  <2> HIDE DEF w, r
  <2>2. obj' = r /\ want' = w /\ trusted /\ HoldsLink(obj, want) /\ want \in Seq(Values)  BY <1>1, <2>1
  <2>3. CASE DL!PreRight(obj)
    <3>1. w \in Seq(Values) /\ HoldsLink(r, w)  BY <2>2, <2>3, DoublyTurns DEF w, r
    <3>2. trusted'  BY <2>1, <2>3
    <3> QED BY <2>2, <3>1, <3>2, DoublyKeeps DEF LinkOutcome
  <2>4. CASE ~DL!PreRight(obj)
    <3>1. ~trusted' /\ trusted' \in BOOLEAN
      <4>1. DL!PreRight(obj) \in BOOLEAN  BY DEF DL!PreRight
      <4>2. DL!PreRight(obj) = FALSE  BY <2>4, <4>1
      <4> QED BY <2>1, <4>2
    <3>2. DL!Allocated(obj) /\ ~obj.panicked  BY <2>1, <2>2 DEF DL!Inv, DL!Change, DL!Live
    <3>3. r.type = "DoublyLink" /\ ~r.panicked
      <4>1. DOMAIN obj = {"type", "val", "next", "pre", "head", "length", "panicked"} /\ obj.type = "DoublyLink"
        BY <3>2 DEF DL!Allocated
      <4>2. PICK f, g, h : r = [obj EXCEPT !.next = f, !.pre = g] \/ r = [[obj EXCEPT !.next = f, !.pre = g] EXCEPT !.head = h]
        BY DEF r, DL!Reverse
      <4> QED BY <3>2, <4>1, <4>2
    <3>4. want' \in Seq(Values)
      <4>1. w \in Seq(Values)
        <5>1. w = [i \in 1 .. Len(want) |-> want[Len(want) + 1 - i]] /\ Len(want) \in Nat  BY <2>2 DEF w
        <5>2. \A i \in 1 .. Len(want) : want[Len(want) + 1 - i] \in Values
          <6>1. \A i \in 1 .. Len(want) : Len(want) + 1 - i \in 1 .. Len(want)  BY <5>1
          <6> QED BY <2>2, <6>1, ElementOfSeq
        <5>3. w \in [1 .. Len(want) -> Values]  BY <5>1, <5>2
        <5> QED BY <5>1, <5>3, FunctionIsSeq
      <4> QED BY <2>2, <4>1
    <3> QED BY <2>2, <3>1, <3>3, <3>4 DEF DL!Inv
  <2> QED BY <2>3, <2>4
<1>11. CASE DL!Empty
  <2>1. DL!Change(DL!Clear(obj), <<>>) /\ UNCHANGED trusted  BY <1>11 DEF DL!Empty
  <2>2. HoldsLink(DL!Clear(obj), <<>>)  BY <1>1, <2>1, DoublyClears
  <2> QED BY <1>3, <2>1, <2>2
<1>12. CASE UNCHANGED DL!vars
  <2>1. obj' = obj /\ want' = want /\ trusted' = trusted  BY <1>12 DEF DL!vars
  <2> QED BY <2>1 DEF DL!Inv
<1> QED BY <1>4, <1>5, <1>6, <1>7, <1>8, <1>9, <1>10, <1>11, <1>12 DEF DL!Next

(* What every step of the doubly linked list keeps holds in all its runs.  *)
THEOREM DoublyHeld == DL!Spec => []DL!Inv
<1>1. DL!Init => DL!Inv  BY DoublyStarts
<1>2. DL!Inv /\ [DL!Next]_(DL!vars) => DL!Inv'  BY DoublySteps
<1> QED BY <1>1, <1>2, PTL DEF DL!Spec

(* Whatever the values and the bounds: both links (singlylink.go and       *)
(* doublylink.go) are the lists that their insertions, deletions and       *)
(* reversals ask for, of the length they count, and GetMiddleNode finds    *)
(* the middle: SinglyLink except after the panics of deleting its last     *)
(* node, DoublyLink until a panic or a Reverse that meets a stale Pre.     *)
THEOREM LinksHeld == (SL!Spec \/ DL!Spec) => []LinksAreLists
<1>1. SL!Inv /\ SL!OneAtATime => LinksAreLists
  <2>1. SL!Inv => obj.type # "DoublyLink"  BY DEF SL!Inv
  <2> QED BY <2>1 DEF LinksAreLists, DL!ChainIsList
<1>2. DL!Inv => LinksAreLists
  <2> SUFFICES ASSUME DL!Inv PROVE LinksAreLists  OBVIOUS
  <2>1. obj.type # "SinglyLink"  BY DEF DL!Inv
  <2>2. ASSUME trusted, ~obj.panicked, want # <<>>
        PROVE  DL!Middle(obj) = DL!Nodes(obj)[Len(want) \div 2 + 1]
    <3>1. PICK c : Chained(obj, c, want)  BY <2>2, DoublyHolds DEF HoldsLink
    <3>2. Len(want) = Len(c) /\ Len(c) # 0
      <4>1. Len(want) = Len(c)  BY <3>1, ChainedSizes
      <4>2. want = <<>> <=> Len(c) = 0  BY <3>1, ChainedSizes
      <4> QED BY <2>2, <4>1, <4>2
    <3>3. DL!Nodes(obj) = c  BY <3>1, ChainedReads
    <3>4. DL!Middle(obj) = c[Len(c) \div 2 + 1]  BY <3>1, <3>2, DoublyMiddle
    <3> QED BY <3>2, <3>3, <3>4
  <2>3. DL!ChainIsList  BY <2>2 DEF DL!Inv, DL!ChainIsList
  <2> QED BY <2>1, <2>3 DEF LinksAreLists, SL!OneAtATime
<1> QED BY <1>1, <1>2, SinglyHeld, SinglyIsList, DoublyHeld, PTL

=============================================================================
