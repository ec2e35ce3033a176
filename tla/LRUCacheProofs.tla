--------------------------- MODULE LRUCacheProofs ---------------------------
(***************************************************************************)
(* The LRU cache holds the most recently used keys, for any keys and       *)
(* values and any capacity, until the only entry is deleted, or evicted as *)
(* the first Put of a cache of capacity 0 does.                            *)
(***************************************************************************)
EXTENDS LRUCache, TLAPS, SequenceTheorems, FiniteSetTheorems

-----------------------------------------------------------------------------
(* Sequences *)

LEMMA FunctionSeq ==
    ASSUME NEW S, NEW n \in Nat, NEW f \in [1 .. n -> S]
    PROVE  f \in Seq(S) /\ Len(f) = n
<1>1. f \in Seq(S)
  BY SeqDef
<1>2. Len(f) \in Nat /\ DOMAIN f = 1 .. Len(f)
  BY <1>1, LenProperties
<1> DEFINE m == Len(f)
<1> HIDE DEF m
<1>3. m \in Nat /\ 1 .. m = 1 .. n
  BY <1>2 DEF m
<1>4. \A i \in Nat : i >= 1 /\ i <= m <=> i >= 1 /\ i <= n
  BY <1>3
<1>5. m = n
  <2>1. m >= 1 => m <= n
    BY <1>3, <1>4
  <2>2. n >= 1 => n <= m
    BY <1>3, <1>4
  <2> QED BY <1>3, <2>1, <2>2
<1> QED BY <1>1, <1>5 DEF m

(* The sequence without its i-th element. *)
LEMMA RemovedAt ==
    ASSUME NEW S, NEW s \in Seq(S), NEW i \in 1 .. Len(s)
    PROVE  /\ RemoveAt(s, i) \in Seq(S)
           /\ Len(RemoveAt(s, i)) = Len(s) - 1
           /\ \A j \in 1 .. Len(s) - 1 : /\ j < i => RemoveAt(s, i)[j] = s[j]
                                         /\ i <= j => RemoveAt(s, i)[j] = s[j + 1]
<1> DEFINE n == Len(s)
           left == SubSeq(s, 1, i - 1)
           right == SubSeq(s, i + 1, n)
<1>1. n \in Nat /\ \A j \in 1 .. n : s[j] \in S
  BY LenProperties, ElementOfSeq
<1>2. left \in Seq(S) /\ Len(left) = i - 1 /\ \A j \in 1 .. i - 1 : left[j] = s[j]
  <2>1. \A j \in 1 .. i - 1 : s[j] \in S
    BY <1>1
  <2>2. /\ left \in Seq(S) /\ Len(left) = IF 1 <= i - 1 THEN (i - 1) - 1 + 1 ELSE 0
        /\ \A j \in 1 .. (i - 1) - 1 + 1 : left[j] = s[1 + j - 1]
    BY <1>1, <2>1, SubSeqProperties
  <2> QED BY <1>1, <2>2
<1>3. right \in Seq(S) /\ Len(right) = n - i /\ \A j \in 1 .. n - i : right[j] = s[i + j]
  <2>1. \A j \in i + 1 .. n : s[j] \in S
    BY <1>1
  <2>2. /\ right \in Seq(S) /\ Len(right) = IF i + 1 <= n THEN n - (i + 1) + 1 ELSE 0
        /\ \A j \in 1 .. n - (i + 1) + 1 : right[j] = s[(i + 1) + j - 1]
    BY <1>1, <2>1, SubSeqProperties
  <2> QED BY <1>1, <2>2
<1>4. RemoveAt(s, i) = left \o right
  BY DEF RemoveAt
<1> HIDE DEF left, right, n
<1>5. /\ left \o right \in Seq(S)
      /\ Len(left \o right) = Len(left) + Len(right)
      /\ \A j \in 1 .. Len(left) + Len(right) :
           (left \o right)[j] = IF j <= Len(left) THEN left[j] ELSE right[j - Len(left)]
  BY <1>2, <1>3, ConcatProperties
<1>6. i \in 1 .. n
  BY DEF n
<1>7. Len(left) + Len(right) = n - 1
  BY <1>1, <1>2, <1>3, <1>6
<1>8. ASSUME NEW j \in 1 .. n - 1, j < i
      PROVE  (left \o right)[j] = s[j]
  BY <1>1, <1>2, <1>5, <1>6, <1>7, <1>8
<1>9. ASSUME NEW j \in 1 .. n - 1, i <= j
      PROVE  (left \o right)[j] = s[j + 1]
  <2>1. j - (i - 1) \in 1 .. n - i /\ i + (j - (i - 1)) = j + 1
    BY <1>1, <1>6, <1>9
  <2>2. (left \o right)[j] = right[j - (i - 1)]
    BY <1>1, <1>2, <1>5, <1>6, <1>7, <1>9
  <2> QED BY <1>3, <2>1, <2>2
<1> QED BY <1>4, <1>5, <1>7, <1>8, <1>9 DEF n

LEMMA Appended ==
    ASSUME NEW S, NEW s \in Seq(S), NEW e \in S
    PROVE  /\ Append(s, e) \in Seq(S)
           /\ Len(Append(s, e)) = Len(s) + 1
           /\ \A j \in 1 .. Len(s) + 1 : Append(s, e)[j] = IF j = Len(s) + 1 THEN e ELSE s[j]
<1> QED OBVIOUS

-----------------------------------------------------------------------------
(* The linked list *)

(* The list's links are all that changes. *)
Relinked(l, r) ==
  r.cache = l.cache /\ r.key = l.key /\ r.val = l.val /\ r.length = l.length

LEMMA AddNode ==
    ASSUME NEW l, Allocated(l), NEW n \in 1 .. Len(l.key)
    PROVE  LET r == addNode(l, n)
           IN  /\ Allocated(r) /\ Relinked(l, r) /\ r.panicked = l.panicked
               /\ r.tail = n /\ r.head = IF l.head = Nil THEN n ELSE l.head
               /\ \A j \in 1 .. Len(l.key) :
                    /\ r.next[j] = IF l.tail = Nil THEN l.next[j]
                                   ELSE IF j = n THEN Nil ELSE IF j = l.tail THEN n ELSE l.next[j]
                    /\ r.pre[j] = IF l.tail # Nil /\ j = n THEN l.tail ELSE l.pre[j]
<1> DEFINE N == Len(l.key)
           r == addNode(l, n)
           next1 == [l.next EXCEPT ![l.tail] = n]
           next2 == [next1 EXCEPT ![n] = Nil]
           pre1 == [l.pre EXCEPT ![n] = l.tail]
<1>1. N \in Nat /\ l \in Caches(N) /\ Len(l.val) = N /\ Len(l.pre) = N /\ Len(l.next) = N
  BY LenProperties DEF Allocated, Caches
<1>2. l.pre \in Seq(0 .. N) /\ l.next \in Seq(0 .. N) /\ l.tail \in 0 .. N /\ l.head \in 0 .. N
  BY <1>1 DEF Caches
<1>3. n \in 0 .. N /\ n \in 1 .. N /\ 0 \in 0 .. N /\ n # Nil
  BY <1>1 DEF Nil
<1>4. CASE l.tail = Nil
  <2>1. r = [l EXCEPT !.tail = n, !.head = IF @ = Nil THEN n ELSE @]
    BY <1>4 DEF addNode
  <2>2. r \in Caches(N)
    BY <1>1, <1>2, <1>3, <2>1 DEF Caches
  <2>3. /\ r.cache = l.cache /\ r.key = l.key /\ r.val = l.val /\ r.length = l.length
        /\ r.next = l.next /\ r.pre = l.pre /\ r.tail = n /\ r.head = IF l.head = Nil THEN n ELSE l.head
        /\ r.panicked = l.panicked
    BY <1>1, <2>1 DEF Caches
  <2> QED BY <1>1, <1>4, <2>2, <2>3 DEF Allocated, Relinked
<1>5. CASE l.tail # Nil
  <2>1. l.tail \in 1 .. N
    BY <1>1, <1>2, <1>5 DEF Nil
  <2>2. next1 \in Seq(0 .. N) /\ Len(next1) = N /\ \A j \in 1 .. N : next1[j] = IF j = l.tail THEN n ELSE l.next[j]
    BY SMTT(40), <1>1, <1>2, <1>3, <2>1, ExceptSeq
  <2> HIDE DEF next1
  <2>3. next2 \in Seq(0 .. N) /\ Len(next2) = N /\ \A j \in 1 .. N : next2[j] = IF j = n THEN 0 ELSE next1[j]
    BY <1>1, <1>3, <2>2, ExceptSeq DEF Nil
  <2>4. pre1 \in Seq(0 .. N) /\ Len(pre1) = N /\ \A j \in 1 .. N : pre1[j] = IF j = n THEN l.tail ELSE l.pre[j]
    BY SMTT(40), <1>1, <1>2, <1>3, ExceptSeq
  <2> HIDE DEF next2, pre1
  <2>5. r = [l EXCEPT !.next = next2, !.pre = pre1, !.tail = n, !.head = IF @ = Nil THEN n ELSE @]
    BY <1>1, <1>5 DEF addNode, Caches, next1, next2, pre1
  <2>6. r \in Caches(N)
    BY ZenonT(40), <1>1, <1>2, <1>3, <2>3, <2>4, <2>5 DEF Caches
  <2>7. /\ r.cache = l.cache /\ r.key = l.key /\ r.val = l.val /\ r.length = l.length
        /\ r.next = next2 /\ r.pre = pre1 /\ r.tail = n /\ r.head = IF l.head = Nil THEN n ELSE l.head
        /\ r.panicked = l.panicked
    BY <1>1, <2>5 DEF Caches
  <2>8. Allocated(r) /\ Relinked(l, r)
    BY <1>1, <2>3, <2>4, <2>6, <2>7 DEF Allocated, Relinked
  <2>9. ASSUME NEW j \in 1 .. N
        PROVE  r.next[j] = IF j = n THEN Nil ELSE IF j = l.tail THEN n ELSE l.next[j]
    BY <2>2, <2>3, <2>7 DEF Nil
  <2>10. ASSUME NEW j \in 1 .. N
         PROVE  r.pre[j] = IF j = n THEN l.tail ELSE l.pre[j]
    BY <2>4, <2>7
  <2> QED BY <1>5, <2>7, <2>8, <2>9, <2>10
<1> QED BY <1>4, <1>5

LEMMA DeleteNode ==
    ASSUME NEW l, Allocated(l), NEW n \in 1 .. Len(l.key)
    PROVE  LET r == deleteNode(l, n)
           IN  /\ Allocated(r) /\ Relinked(l, r)
               /\ n = l.tail =>
                    /\ r.tail = l.pre[n] /\ r.head = l.head /\ r.next = l.next /\ r.pre = l.pre
                    /\ r.panicked = l.panicked
               /\ n # l.tail /\ n = l.head =>
                    /\ r.tail = l.tail /\ r.head = l.next[n] /\ r.next = l.next /\ r.pre = l.pre
                    /\ r.panicked = l.panicked
               /\ n # l.tail /\ n # l.head /\ l.pre[n] # Nil /\ l.next[n] # Nil =>
                    /\ r.tail = l.tail /\ r.head = l.head /\ r.panicked = l.panicked
                    /\ \A j \in 1 .. Len(l.key) :
                         /\ r.next[j] = IF j = l.pre[n] THEN l.next[n] ELSE l.next[j]
                         /\ r.pre[j] = IF j = l.next[n] THEN l.pre[n] ELSE l.pre[j]
<1> DEFINE N == Len(l.key)
           r == deleteNode(l, n)
           next1 == [l.next EXCEPT ![l.pre[n]] = l.next[n]]
           past == [l EXCEPT !.next = next1]
           pre1 == [l.pre EXCEPT ![l.next[n]] = l.pre[n]]
<1>1. N \in Nat /\ l \in Caches(N) /\ Len(l.val) = N /\ Len(l.pre) = N /\ Len(l.next) = N
  BY LenProperties DEF Allocated, Caches
<1>2. l.pre \in Seq(0 .. N) /\ l.next \in Seq(0 .. N) /\ l.tail \in 0 .. N /\ l.head \in 0 .. N
  BY <1>1 DEF Caches
<1>3. n \in 1 .. N /\ n # Nil /\ l.pre[n] \in 0 .. N /\ l.next[n] \in 0 .. N
  <2>1. n \in 1 .. N /\ n # Nil
    BY <1>1 DEF Nil
  <2>2. \A i \in 1 .. Len(l.pre) : l.pre[i] \in 0 .. N
    BY <1>2, ElementOfSeq
  <2>3. \A i \in 1 .. Len(l.next) : l.next[i] \in 0 .. N
    BY <1>2, ElementOfSeq
  <2> QED BY <1>1, <2>1, <2>2, <2>3
<1>4. CASE n = l.tail
  <2>1. r = [l EXCEPT !.tail = l.pre[n]]
    BY <1>3, <1>4 DEF deleteNode
  <2>2. r \in Caches(N)
    BY <1>1, <1>3, <2>1 DEF Caches
  <2>3. /\ r.cache = l.cache /\ r.key = l.key /\ r.val = l.val /\ r.length = l.length
        /\ r.next = l.next /\ r.pre = l.pre /\ r.tail = l.pre[n] /\ r.head = l.head
        /\ r.panicked = l.panicked
    BY <1>1, <2>1 DEF Caches
  <2> QED BY <1>1, <1>4, <2>2, <2>3 DEF Allocated, Relinked
<1>5. CASE n # l.tail /\ n = l.head
  <2>1. r = [l EXCEPT !.head = l.next[n]]
    BY <1>3, <1>5 DEF deleteNode
  <2>2. r \in Caches(N)
    BY <1>1, <1>3, <2>1 DEF Caches
  <2>3. /\ r.cache = l.cache /\ r.key = l.key /\ r.val = l.val /\ r.length = l.length
        /\ r.next = l.next /\ r.pre = l.pre /\ r.tail = l.tail /\ r.head = l.next[n]
        /\ r.panicked = l.panicked
    BY <1>1, <2>1 DEF Caches
  <2> QED BY <1>1, <1>5, <2>2, <2>3 DEF Allocated, Relinked
<1>6. CASE n # l.tail /\ n # l.head /\ l.pre[n] = Nil
  <2>1. r = [l EXCEPT !.panicked = TRUE]
    BY <1>3, <1>6 DEF deleteNode
  <2>2. r \in Caches(N)
    BY <1>1, <2>1 DEF Caches
  <2>3. /\ r.cache = l.cache /\ r.key = l.key /\ r.val = l.val /\ r.length = l.length
        /\ r.next = l.next /\ r.pre = l.pre
    BY <1>1, <2>1 DEF Caches
  <2> QED BY <1>1, <1>6, <2>2, <2>3 DEF Allocated, Relinked
<1>7. CASE n # l.tail /\ n # l.head /\ l.pre[n] # Nil
  <2>1. l.pre[n] \in 1 .. N
    BY <1>1, <1>3, <1>7 DEF Nil
  <2>2. next1 \in Seq(0 .. N) /\ Len(next1) = N
        /\ \A j \in 1 .. N : next1[j] = IF j = l.pre[n] THEN l.next[n] ELSE l.next[j]
    BY SMTT(40), <1>1, <1>2, <1>3, <2>1, ExceptSeq
  <2>3. next1[n] = l.next[n]
    BY <1>3, <2>2
  <2> HIDE DEF next1
  <2>4. past \in Caches(N)
    BY <1>1, <2>2 DEF Caches
  <2>5. /\ past.cache = l.cache /\ past.key = l.key /\ past.val = l.val /\ past.length = l.length
        /\ past.next = next1 /\ past.pre = l.pre /\ past.tail = l.tail /\ past.head = l.head
        /\ past.panicked = l.panicked
    BY <1>1 DEF Caches
  <2>6. r = IF past.next[n] = Nil THEN [past EXCEPT !.panicked = TRUE]
            ELSE [past EXCEPT !.pre = [@ EXCEPT ![past.next[n]] = l.pre[n]]]
    <3>1. past = [l EXCEPT !.next[l.pre[n]] = l.next[n]]
      BY <1>1 DEF Caches, next1
    <3> HIDE DEF past
    <3> QED BY <1>3, <1>7, <3>1 DEF deleteNode
  <2> HIDE DEF past
  <2>7. CASE l.next[n] = Nil
    <3>1. r = [past EXCEPT !.panicked = TRUE]
      BY <2>3, <2>5, <2>6, <2>7
    <3>2. r \in Caches(N)
      BY <2>4, <3>1 DEF Caches
    <3>3. r.cache = past.cache /\ r.key = past.key /\ r.val = past.val /\ r.length = past.length
          /\ r.next = past.next /\ r.pre = past.pre
      BY <2>4, <3>1 DEF Caches
    <3> QED BY <1>1, <1>7, <2>2, <2>5, <2>7, <3>2, <3>3 DEF Allocated, Relinked
  <2>8. CASE l.next[n] # Nil
    <3>1. l.next[n] \in 1 .. N
      BY <1>1, <1>3, <2>8 DEF Nil
    <3>2. pre1 \in Seq(0 .. N) /\ Len(pre1) = N
          /\ \A j \in 1 .. N : pre1[j] = IF j = l.next[n] THEN l.pre[n] ELSE l.pre[j]
      BY SMTT(40), <1>1, <1>2, <1>3, <3>1, ExceptSeq
    <3>3. r = [past EXCEPT !.pre = pre1]
      BY <2>3, <2>4, <2>5, <2>6, <2>8 DEF Caches
    <3> HIDE DEF pre1
    <3>4. r \in Caches(N)
      BY <2>4, <3>2, <3>3 DEF Caches
    <3>5. /\ r.cache = past.cache /\ r.key = past.key /\ r.val = past.val /\ r.length = past.length
          /\ r.next = past.next /\ r.pre = pre1 /\ r.tail = past.tail /\ r.head = past.head
          /\ r.panicked = past.panicked
      BY <2>4, <3>3 DEF Caches
    <3>6. Allocated(r) /\ Relinked(l, r)
      BY <1>1, <2>2, <2>5, <3>2, <3>4, <3>5 DEF Allocated, Relinked
    <3>7. /\ r.tail = l.tail /\ r.head = l.head /\ r.panicked = l.panicked
          /\ r.next = next1 /\ r.pre = pre1
      BY <2>5, <3>5
    <3> QED BY <1>7, <2>2, <3>2, <3>6, <3>7
  <2> QED BY <2>7, <2>8
<1> QED BY <1>4, <1>5, <1>6, <1>7

(* A node added is the last of the list. *)
LEMMA AddLast ==
    ASSUME NEW l, Allocated(l), NEW ns, Linked(l, ns), NEW n \in 1 .. Len(l.key),
           \A i \in 1 .. Len(ns) : ns[i] # n
    PROVE  Linked(addNode(l, n), Append(ns, n))
<1> DEFINE N == Len(l.key)
           m == Len(ns)
           r == addNode(l, n)
           rs == Append(ns, n)
<1>1. /\ Relinked(l, r) /\ r.tail = n /\ r.head = IF l.head = Nil THEN n ELSE l.head
      /\ \A j \in 1 .. N :
           /\ r.next[j] = IF l.tail = Nil THEN l.next[j]
                          ELSE IF j = n THEN Nil ELSE IF j = l.tail THEN n ELSE l.next[j]
           /\ r.pre[j] = IF l.tail # Nil /\ j = n THEN l.tail ELSE l.pre[j]
  BY AddNode
<1>2. /\ ns \in Seq(1 .. N) /\ \A i, j \in 1 .. m : ns[i] = ns[j] => i = j
      /\ m = 0 => l.head = Nil /\ l.tail = Nil
      /\ m # 0 => l.head = ns[1] /\ l.tail = ns[m]
      /\ \A i \in 1 .. m - 1 : l.next[ns[i]] = ns[i + 1] /\ l.pre[ns[i + 1]] = ns[i]
  BY DEF Linked
<1>3. N \in Nat /\ m \in Nat /\ \A i \in 1 .. m : ns[i] \in 1 .. N
  <2>1. N \in Nat
    BY LenProperties DEF Allocated, Caches
  <2> QED BY <1>2, <2>1, LenProperties, ElementOfSeq
<1>4. rs \in Seq(1 .. N) /\ Len(rs) = m + 1 /\ \A j \in 1 .. m + 1 : rs[j] = IF j = m + 1 THEN n ELSE ns[j]
  BY <1>2, Appended
<1>5. Len(r.key) = N /\ n \in 1 .. N /\ \A i \in 1 .. m : ns[i] # n
  BY <1>1 DEF Relinked
<1> HIDE DEF N, m, r, rs
<1>6. ASSUME NEW i \in 1 .. m + 1, NEW j \in 1 .. m + 1, rs[i] = rs[j]
      PROVE  i = j
  <2>1. CASE i = m + 1 /\ j = m + 1
    BY <2>1
  <2>2. CASE i = m + 1 /\ j # m + 1
    BY <1>3, <1>4, <1>5, <1>6, <2>2
  <2>3. CASE i # m + 1 /\ j = m + 1
    BY <1>3, <1>4, <1>5, <1>6, <2>3
  <2>4. CASE i # m + 1 /\ j # m + 1
    <3>1. i \in 1 .. m /\ j \in 1 .. m /\ rs[i] = ns[i] /\ rs[j] = ns[j]
      BY <1>3, <1>4, <2>4
    <3>2. ns[i] = ns[j]
      BY <1>6, <3>1
    <3>3. \A a, b \in 1 .. m : ns[a] = ns[b] => a = b
      BY <1>2
    <3> QED BY <3>1, <3>2, <3>3
  <2> QED BY <2>1, <2>2, <2>3, <2>4
<1>7. r.head = rs[1] /\ r.tail = rs[m + 1]
  <2>1. CASE m = 0
    BY <1>1, <1>2, <1>3, <1>4, <2>1
  <2>2. CASE m # 0
    <3>1. 1 \in 1 .. m /\ l.head = ns[1] /\ ns[1] # Nil
      BY <1>2, <1>3, <2>2 DEF Nil
    <3> QED BY <1>1, <1>3, <1>4, <3>1
  <2> QED BY <2>1, <2>2
<1>8. ASSUME NEW i \in 1 .. m
      PROVE  r.next[rs[i]] = rs[i + 1] /\ r.pre[rs[i + 1]] = rs[i]
  <2>1. m # 0 /\ l.tail = ns[m] /\ l.tail # Nil /\ rs[i] = ns[i] /\ ns[i] \in 1 .. N /\ ns[i] # n
    BY SMTT(40), <1>2, <1>3, <1>4, <1>5 DEF Nil
  <2>2. CASE i = m
    <3>1. rs[i + 1] = n /\ n \in 1 .. N
      BY <1>3, <1>4, <1>5, <2>2
    <3> QED BY <1>1, <2>1, <2>2, <3>1
  <2>3. CASE i < m
    <3>1. i \in 1 .. m - 1 /\ i + 1 \in 1 .. m /\ rs[i + 1] = ns[i + 1] /\ m \in 1 .. m
      BY <1>3, <1>4, <2>3
    <3>2. ns[i] # ns[m] /\ ns[i + 1] # n /\ ns[i + 1] \in 1 .. N
      <4>1. \A a, b \in 1 .. m : ns[a] = ns[b] => a = b
        BY <1>2
      <4>2. i # m
        BY <2>3, <3>1
      <4>3. ns[i] # ns[m]
        BY <3>1, <4>1, <4>2
      <4>4. ns[i + 1] # n /\ ns[i + 1] \in 1 .. N
        BY <1>3, <1>5, <3>1
      <4> QED BY <4>3, <4>4
    <3>3. r.next[ns[i]] = l.next[ns[i]] /\ r.pre[ns[i + 1]] = l.pre[ns[i + 1]]
      BY <1>1, <2>1, <3>2
    <3> QED BY <1>2, <2>1, <3>1, <3>3
  <2> QED BY <1>3, <2>2, <2>3
<1>9. Linked(r, rs)
  BY <1>3, <1>4, <1>5, <1>6, <1>7, <1>8 DEF Linked
<1> QED BY <1>9 DEF r, rs

(* Of a list of several a node is taken out, at either end or between. *)
LEMMA DeleteOne ==
    ASSUME NEW l, Allocated(l), NEW ns, Linked(l, ns), NEW i \in 1 .. Len(ns), Len(ns) >= 2
    PROVE  LET r == deleteNode(l, ns[i])
           IN  Linked(r, RemoveAt(ns, i)) /\ r.panicked = l.panicked
<1> DEFINE N == Len(l.key)
           m == Len(ns)
           n == ns[i]
           r == deleteNode(l, n)
           rs == RemoveAt(ns, i)
<1>1. /\ ns \in Seq(1 .. N) /\ \A a, b \in 1 .. m : ns[a] = ns[b] => a = b
      /\ m # 0 => l.head = ns[1] /\ l.tail = ns[m]
      /\ \A a \in 1 .. m - 1 : l.next[ns[a]] = ns[a + 1] /\ l.pre[ns[a + 1]] = ns[a]
  BY DEF Linked
<1>2. N \in Nat /\ m \in Nat /\ m >= 2 /\ i \in 1 .. m /\ \A a \in 1 .. m : ns[a] \in 1 .. N /\ ns[a] # Nil
  <2>1. N \in Nat
    BY LenProperties DEF Allocated, Caches
  <2>2. \A a \in 1 .. m : ns[a] \in 1 .. N
    BY <1>1, ElementOfSeq
  <2> QED BY <1>1, <2>1, <2>2, LenProperties DEF Nil
<1>3. /\ Relinked(l, r)
      /\ n = l.tail =>
           /\ r.tail = l.pre[n] /\ r.head = l.head /\ r.next = l.next /\ r.pre = l.pre
           /\ r.panicked = l.panicked
      /\ n # l.tail /\ n = l.head =>
           /\ r.tail = l.tail /\ r.head = l.next[n] /\ r.next = l.next /\ r.pre = l.pre
           /\ r.panicked = l.panicked
      /\ n # l.tail /\ n # l.head /\ l.pre[n] # Nil /\ l.next[n] # Nil =>
           /\ r.tail = l.tail /\ r.head = l.head /\ r.panicked = l.panicked
           /\ \A j \in 1 .. N :
                /\ r.next[j] = IF j = l.pre[n] THEN l.next[n] ELSE l.next[j]
                /\ r.pre[j] = IF j = l.next[n] THEN l.pre[n] ELSE l.pre[j]
  <2>1. n \in 1 .. Len(l.key)
    BY <1>2
  <2> HIDE DEF n
  <2> QED BY <2>1, DeleteNode
<1>4. rs \in Seq(1 .. N) /\ Len(rs) = m - 1
      /\ \A j \in 1 .. m - 1 : (j < i => rs[j] = ns[j]) /\ (i <= j => rs[j] = ns[j + 1])
  BY <1>1, RemovedAt
<1>5. Len(r.key) = N
  BY <1>3 DEF Relinked
<1> HIDE DEF N, m, r, rs
<1>6. ASSUME NEW j \in 1 .. m - 1
      PROVE  (j < i => rs[j] = ns[j] /\ j \in 1 .. m) /\ (i <= j => rs[j] = ns[j + 1] /\ j + 1 \in 1 .. m)
  BY <1>2, <1>4
<1>7. ASSUME NEW a \in 1 .. m - 1, NEW b \in 1 .. m - 1, rs[a] = rs[b]
      PROVE  a = b
  <2>1. CASE a < i /\ b < i
    BY <1>1, <1>6, <1>7, <2>1
  <2>2. CASE a < i /\ i <= b
    BY <1>1, <1>2, <1>6, <1>7, <2>2
  <2>3. CASE i <= a /\ b < i
    BY <1>1, <1>2, <1>6, <1>7, <2>3
  <2>4. CASE i <= a /\ i <= b
    BY <1>1, <1>2, <1>6, <1>7, <2>4
  <2> QED BY <2>1, <2>2, <2>3, <2>4
<1>8. /\ r.head = rs[1] /\ r.tail = rs[m - 1] /\ r.panicked = l.panicked
      /\ \A j \in 1 .. m - 2 : r.next[rs[j]] = rs[j + 1] /\ r.pre[rs[j + 1]] = rs[j]
  <2>1. CASE i = m
    <3>1. n = l.tail /\ l.head = ns[1]
      BY <1>1, <1>2, <2>1
    <3>2. r.tail = l.pre[n] /\ r.head = l.head /\ r.next = l.next /\ r.pre = l.pre /\ r.panicked = l.panicked
      BY <1>3, <3>1
    <3>3. \A j \in 1 .. m - 1 : rs[j] = ns[j]
      BY <1>2, <1>6, <2>1
    <3>4. l.pre[n] = ns[m - 1]
      <4>1. m - 1 \in 1 .. m - 1 /\ (m - 1) + 1 = m
        BY <1>2
      <4> QED BY <1>1, <2>1, <4>1
    <3>5. 1 \in 1 .. m - 1 /\ m - 1 \in 1 .. m - 1
      BY <1>2
    <3>6. ASSUME NEW j \in 1 .. m - 2
          PROVE  r.next[rs[j]] = rs[j + 1] /\ r.pre[rs[j + 1]] = rs[j]
      <4>1. j \in 1 .. m - 1 /\ j + 1 \in 1 .. m - 1
        BY <1>2
      <4> QED BY SMTT(40), <1>1, <3>2, <3>3, <4>1
    <3> QED BY <3>1, <3>2, <3>3, <3>4, <3>5, <3>6
  <2>2. CASE i # m /\ i = 1
    <3>1. n # l.tail /\ n = l.head /\ l.tail = ns[m]
      <4>1. m \in 1 .. m /\ m # 0
        BY <1>2
      <4> QED BY <1>1, <1>2, <2>2, <4>1
    <3>2. r.tail = l.tail /\ r.head = l.next[n] /\ r.next = l.next /\ r.pre = l.pre /\ r.panicked = l.panicked
      BY <1>3, <3>1
    <3>3. \A j \in 1 .. m - 1 : rs[j] = ns[j + 1]
      BY <1>2, <1>6, <2>2
    <3>4. l.next[n] = ns[2]
      <4>1. 1 \in 1 .. m - 1 /\ 1 + 1 = 2
        BY <1>2
      <4> QED BY <1>1, <2>2, <4>1
    <3>5. 1 \in 1 .. m - 1 /\ m - 1 \in 1 .. m - 1 /\ 1 + 1 = 2 /\ (m - 1) + 1 = m
      BY <1>2
    <3>6. ASSUME NEW j \in 1 .. m - 2
          PROVE  r.next[rs[j]] = rs[j + 1] /\ r.pre[rs[j + 1]] = rs[j]
      <4>1. j \in 1 .. m - 1 /\ j + 1 \in 1 .. m - 1
        BY <1>2
      <4>2. rs[j] = ns[j + 1] /\ rs[j + 1] = ns[(j + 1) + 1]
        BY <3>3, <4>1
      <4> QED BY <1>1, <3>2, <4>1, <4>2
    <3>7. rs[1] = ns[2] /\ rs[m - 1] = ns[m]
      BY <3>3, <3>5
    <3> QED BY <3>1, <3>2, <3>4, <3>6, <3>7
  <2>3. CASE i # m /\ i # 1
    <3>1. /\ 1 \in 1 .. m - 1 /\ m - 1 \in 1 .. m - 1 /\ (m - 1) + 1 = m /\ 1 < i /\ i <= m - 1
          /\ i - 1 \in 1 .. m - 1 /\ i \in 1 .. m - 1 /\ (i - 1) + 1 = i /\ 1 \in 1 .. m /\ m \in 1 .. m
          /\ i - 1 \in 1 .. m /\ i + 1 \in 1 .. m
      BY <1>2, <2>3
    <3>2. n # l.tail /\ n # l.head /\ l.tail = ns[m] /\ l.head = ns[1]
      BY <1>1, <1>2, <2>3, <3>1
    <3>3. l.pre[n] = ns[i - 1] /\ l.next[n] = ns[i + 1]
      BY <1>1, <3>1
    <3>4. l.pre[n] # Nil /\ l.next[n] # Nil
      BY <1>2, <3>1, <3>3
    <3>5. /\ r.tail = l.tail /\ r.head = l.head /\ r.panicked = l.panicked
          /\ \A j \in 1 .. N :
               /\ r.next[j] = IF j = ns[i - 1] THEN ns[i + 1] ELSE l.next[j]
               /\ r.pre[j] = IF j = ns[i + 1] THEN ns[i - 1] ELSE l.pre[j]
      BY <1>3, <3>2, <3>3, <3>4
    <3>6. rs[1] = ns[1] /\ rs[m - 1] = ns[m]
      BY <1>6, <3>1
    <3> HIDE DEF n
    <3>7. ASSUME NEW j \in 1 .. m - 2
          PROVE  r.next[rs[j]] = rs[j + 1] /\ r.pre[rs[j + 1]] = rs[j]
      <4>1. j \in 1 .. m - 1 /\ j + 1 \in 1 .. m - 1 /\ j \in 1 .. m /\ j + 1 \in 1 .. m /\ (j + 1) + 1 \in 1 .. m
        BY <1>2
      <4>2. CASE j + 1 < i
        <5>1. rs[j] = ns[j] /\ rs[j + 1] = ns[j + 1]
          BY <1>2, <1>6, <4>1, <4>2
        <5>2. j # i - 1 /\ j + 1 # i + 1
          BY <1>2, <3>1, <4>1, <4>2
        <5>4. ns[j] # ns[i - 1] /\ ns[j + 1] # ns[i + 1]
          BY <1>1, <3>1, <4>1, <5>2
        <5>3. r.next[ns[j]] = l.next[ns[j]] /\ r.pre[ns[j + 1]] = l.pre[ns[j + 1]]
          BY <1>2, <3>5, <4>1, <5>4
        <5> QED BY <1>1, <4>1, <5>1, <5>3
      <4>3. CASE j + 1 = i
        <5>1. rs[j] = ns[i - 1] /\ rs[j + 1] = ns[i + 1]
          BY <1>2, <1>6, <4>1, <4>3
        <5> QED BY <1>2, <3>1, <3>5, <5>1
      <4>4. CASE i <= j
        <5>1. rs[j] = ns[j + 1] /\ rs[j + 1] = ns[(j + 1) + 1]
          BY <1>2, <1>6, <4>1, <4>4
        <5>2. j + 1 # i - 1 /\ (j + 1) + 1 # i + 1
          BY <1>2, <3>1, <4>1, <4>4
        <5>4. ns[j + 1] # ns[i - 1] /\ ns[(j + 1) + 1] # ns[i + 1]
          BY <1>1, <3>1, <4>1, <5>2
        <5>3. r.next[ns[j + 1]] = l.next[ns[j + 1]] /\ r.pre[ns[(j + 1) + 1]] = l.pre[ns[(j + 1) + 1]]
          BY <1>2, <3>5, <4>1, <5>4
        <5> QED BY <1>1, <4>1, <5>1, <5>3
      <4> QED BY <1>2, <4>2, <4>3, <4>4
    <3> QED BY <3>2, <3>5, <3>6, <3>7
  <2> QED BY <2>1, <2>2, <2>3
<1>9. Linked(r, rs)
  <2>1. Len(rs) # 0 /\ (m - 1) - 1 = m - 2
    BY <1>2, <1>4
  <2> QED BY <1>4, <1>5, <1>7, <1>8, <2>1 DEF Linked
<1> QED BY <1>8, <1>9 DEF r, rs

(* The node moved is the last of the list. *)
LEMMA MoveLast ==
    ASSUME NEW l, Allocated(l), NEW ns, Linked(l, ns), NEW i \in 1 .. Len(ns), ~l.panicked
    PROVE  LET r == moveToHead(l, ns[i])
           IN  /\ Allocated(r) /\ Relinked(l, r) /\ ~r.panicked
               /\ Linked(r, Append(RemoveAt(ns, i), ns[i]))
<1> DEFINE N == Len(l.key)
           m == Len(ns)
           n == ns[i]
           rest == RemoveAt(ns, i)
           cut == deleteNode(l, n)
<1>1. /\ ns \in Seq(1 .. N) /\ \A a, b \in 1 .. m : ns[a] = ns[b] => a = b
      /\ m # 0 => l.head = ns[1] /\ l.tail = ns[m]
  BY DEF Linked
<1>2. N \in Nat /\ m \in Nat /\ i \in 1 .. m /\ m \in 1 .. m /\ m # 0 /\ n \in 1 .. N
  <2>1. N \in Nat
    BY LenProperties DEF Allocated, Caches
  <2>2. m \in Nat /\ n \in 1 .. N
    BY <1>1, ElementOfSeq, LenProperties
  <2> QED BY <2>1, <2>2
<1>3. rest \in Seq(1 .. N) /\ Len(rest) = m - 1
      /\ \A j \in 1 .. m - 1 : (j < i => rest[j] = ns[j]) /\ (i <= j => rest[j] = ns[j + 1])
  BY <1>1, RemovedAt
<1>4. CASE l.tail = n
  <2>1. i = m
    BY <1>1, <1>2, <1>4
  <2>2. moveToHead(l, n) = l
    BY <1>4 DEF moveToHead
  <2> HIDE DEF rest, n, N
  <2>3. Append(rest, n) \in Seq(1 .. N) /\ Len(Append(rest, n)) = m
        /\ \A j \in 1 .. m : Append(rest, n)[j] = IF j = m THEN n ELSE rest[j]
    <3>1. (m - 1) + 1 = m
      BY <1>2
    <3> HIDE DEF m
    <3> QED BY <1>2, <1>3, <3>1, Appended
  <2>4. ASSUME NEW j \in 1 .. m PROVE Append(rest, n)[j] = ns[j]
    BY <1>2, <1>3, <2>1, <2>3 DEF n
  <2>5. Append(rest, n) = ns
    BY <1>1, <2>3, <2>4, SeqEqual
  <2> QED BY <2>2, <2>5 DEF Relinked, rest, n
<1>5. CASE l.tail # n
  <2>1. i # m /\ m >= 2
    BY <1>1, <1>2, <1>5
  <2>2. Linked(cut, rest) /\ cut.panicked = l.panicked
    BY <2>1, DeleteOne
  <2>3. Allocated(cut) /\ Relinked(l, cut)
    <3> HIDE DEF n
    <3> QED BY <1>2, DeleteNode
  <2>4. moveToHead(l, n) = addNode(cut, n)
    BY <1>5, <2>2 DEF moveToHead
  <2>5. n \in 1 .. Len(cut.key)
    BY <1>2, <2>3 DEF Relinked
  <2>6. ASSUME NEW j \in 1 .. m - 1 PROVE rest[j] # n
    <3>1. CASE j < i
      BY <1>1, <1>2, <1>3, <3>1
    <3>2. CASE i <= j
      <4>1. rest[j] = ns[j + 1] /\ j + 1 \in 1 .. m /\ j + 1 # i
        BY <1>2, <1>3, <3>2
      <4> QED BY <1>1, <1>2, <4>1
    <3> QED BY <1>2, <3>1, <3>2
  <2>7. \A j \in 1 .. Len(rest) : rest[j] # n
    BY <1>3, <2>6
  <2> HIDE DEF n, cut, rest
  <2>8. Linked(addNode(cut, n), Append(rest, n))
    BY <2>2, <2>3, <2>5, <2>7, AddLast
  <2>9. /\ Allocated(addNode(cut, n)) /\ Relinked(cut, addNode(cut, n))
        /\ addNode(cut, n).panicked = cut.panicked
    BY <2>3, <2>5, AddNode
  <2> QED BY <2>2, <2>3, <2>4, <2>8, <2>9 DEF Relinked, n, rest
<1> QED BY <1>4, <1>5

-----------------------------------------------------------------------------
(* The map *)

LEMMA Counted ==
    ASSUME NEW n \in Nat, NEW S, NEW f \in [1 .. n -> S], S = {f[i] : i \in 1 .. n},
           \A i, j \in 1 .. n : f[i] = f[j] => i = j
    PROVE  IsFiniteSet(S) /\ Cardinality(S) = n
<1>1. f \in Bijection(1 .. n, S)
  BY DEF Bijection, Injection, Surjection, IsInjective
<1>2. ExistsBijection(1 .. n, S)
  BY <1>1 DEF ExistsBijection
<1> QED BY <1>2, FS_CountingElements, FS_NatBijection

(* Keys with nodes of their own are no more than the nodes. *)
LEMMA OwnedFinite ==
    ASSUME NEW l, Allocated(l), Owned(l)
    PROVE  IsFiniteSet(Cached(l))
<1> DEFINE N == Len(l.key)
           f == [k \in Cached(l) |-> l.cache[k]]
<1>1. N \in Nat /\ l.cache \in [Keys -> 0 .. N]
  BY LenProperties DEF Allocated, Caches
<1>2. \A k \in Cached(l) : k \in Keys /\ l.cache[k] \in 1 .. N
  BY <1>1 DEF Cached, Nil
<1>3. f \in Injection(Cached(l), 1 .. N)
  <2>1. f \in [Cached(l) -> 1 .. N]
    BY <1>2
  <2>2. \A a, b \in Cached(l) : f[a] = f[b] => a = b
    BY DEF Owned
  <2> QED BY <2>1, <2>2 DEF Injection, IsInjective
<1> HIDE DEF N, f
<1>4. 1 \in Int /\ N \in Int
  BY <1>1
<1>5. IsFiniteSet(1 .. N)
  BY <1>4, FS_Interval
<1> QED BY <1>3, <1>5, FS_Injection

(* The nodes of the keys in order. *)
LEMMA NodesAre ==
    ASSUME NEW l, Allocated(l), NEW w, Holds(l, w)
    PROVE  LET ns == NodesOf(l, w)
           IN  /\ Len(w) \in Nat /\ Len(ns) = Len(w) /\ ns \in Seq(1 .. Len(l.key))
               /\ \A i \in 1 .. Len(w) : /\ w[i] \in [key : Keys, value : Values]
                                          /\ w[i].key \in Keys /\ w[i].value \in Values
                                          /\ ns[i] = l.cache[w[i].key]
                                          /\ l.cache[w[i].key] \in 1 .. Len(l.key)
<1> DEFINE N == Len(l.key)
           ns == NodesOf(l, w)
           m == Len(w)
<1>1. m \in Nat /\ \A i \in 1 .. m : w[i] \in [key : Keys, value : Values]
  BY LenProperties, ElementOfSeq DEF Holds
<1>2. N \in Nat /\ l.cache \in [Keys -> 0 .. N]
  BY LenProperties DEF Allocated, Caches
<1>3. \A i \in 1 .. m : w[i].key \in Cached(l)
  BY DEF Holds
<1>4. ASSUME NEW i \in 1 .. m
      PROVE  w[i].key \in Keys /\ w[i].value \in Values /\ l.cache[w[i].key] \in 1 .. N
  BY <1>1, <1>2, <1>3 DEF Cached, Nil
<1>5. ns = [i \in 1 .. m |-> l.cache[w[i].key]]
  BY DEF NodesOf
<1>6. ns \in [1 .. m -> 1 .. N]
  BY <1>4, <1>5
<1>7. ns \in Seq(1 .. N) /\ Len(ns) = m
  BY <1>1, <1>6, FunctionSeq
<1> QED BY <1>1, <1>4, <1>5, <1>7

LEMMA Sized ==
    ASSUME NEW l, Allocated(l), NEW w, Holds(l, w)
    PROVE  IsFiniteSet(Cached(l)) /\ Cardinality(Cached(l)) = Len(w)
<1> DEFINE f == [i \in 1 .. Len(w) |-> w[i].key]
<1>1. Len(w) \in Nat
  BY NodesAre
<1>2. Cached(l) = {f[i] : i \in 1 .. Len(w)} /\ \A i, j \in 1 .. Len(w) : f[i] = f[j] => i = j
  BY DEF Holds
<1>3. f \in [1 .. Len(w) -> Cached(l)]
  BY <1>2
<1> HIDE DEF f
<1> QED BY <1>1, <1>2, <1>3, Counted

(* Keys and nodes of the same links and values hold the same. *)
LEMMA LinkedSame ==
    ASSUME NEW l, NEW r, NEW ns, Linked(l, ns), Len(r.key) = Len(l.key),
           r.head = l.head, r.tail = l.tail, r.next = l.next, r.pre = l.pre
    PROVE  Linked(r, ns)
<1> QED BY DEF Linked

(* The key of w[i], used, is the last. *)
LEMMA Moved ==
    ASSUME NEW l, Allocated(l), ~l.panicked, NEW w, Holds(l, w), NEW i \in 1 .. Len(w)
    PROVE  LET r == moveToHead(l, l.cache[w[i].key])
           IN  /\ Allocated(r) /\ Relinked(l, r) /\ ~r.panicked
               /\ Holds(r, Append(RemoveAt(w, i), w[i]))
               /\ Len(Append(RemoveAt(w, i), w[i])) = Len(w)
<1> DEFINE N == Len(l.key)
           m == Len(w)
           Entry == [key : Keys, value : Values]
           ns == NodesOf(l, w)
           r == moveToHead(l, ns[i])
           rest == RemoveAt(w, i)
           u == Append(rest, w[i])
           nu == Append(RemoveAt(ns, i), ns[i])
<1>1. /\ m \in Nat /\ Len(ns) = m /\ ns \in Seq(1 .. N)
      /\ \A j \in 1 .. m : /\ w[j] \in Entry /\ w[j].key \in Keys /\ w[j].value \in Values
                            /\ ns[j] = l.cache[w[j].key] /\ ns[j] \in 1 .. N
  BY NodesAre
<1>2. /\ w \in Seq(Entry) /\ \A a, b \in 1 .. m : w[a].key = w[b].key => a = b
      /\ Cached(l) = {w[a].key : a \in 1 .. m}
      /\ \A a \in 1 .. m : l.val[l.cache[w[a].key]] = w[a].value
      /\ Linked(l, ns)
  BY DEF Holds
<1>3. /\ Allocated(r) /\ Relinked(l, r) /\ ~r.panicked /\ Linked(r, nu)
  BY <1>1, <1>2, MoveLast
<1> HIDE DEF Entry, ns
<1>4. /\ rest \in Seq(Entry) /\ Len(rest) = m - 1
      /\ \A j \in 1 .. m - 1 : (j < i => rest[j] = w[j]) /\ (i <= j => rest[j] = w[j + 1])
  BY <1>2, RemovedAt
<1>5. /\ RemoveAt(ns, i) \in Seq(1 .. N) /\ Len(RemoveAt(ns, i)) = m - 1
      /\ \A j \in 1 .. m - 1 : (j < i => RemoveAt(ns, i)[j] = ns[j]) /\ (i <= j => RemoveAt(ns, i)[j] = ns[j + 1])
  BY <1>1, RemovedAt
<1> HIDE DEF rest, m, N
<1>6. i \in 1 .. m /\ (m - 1) + 1 = m
  BY <1>1 DEF m
<1>7. u \in Seq(Entry) /\ Len(u) = m /\ \A j \in 1 .. m : u[j] = IF j = m THEN w[i] ELSE rest[j]
  BY <1>1, <1>4, <1>6, Appended
<1>8. nu \in Seq(1 .. N) /\ Len(nu) = m /\ \A j \in 1 .. m : nu[j] = IF j = m THEN ns[i] ELSE RemoveAt(ns, i)[j]
  BY <1>1, <1>5, <1>6, Appended
<1> HIDE DEF u, nu, r
<1> DEFINE from == [j \in 1 .. m |-> IF j = m THEN i ELSE IF j < i THEN j ELSE j + 1]
<1>9. from \in [1 .. m -> 1 .. m]
  BY <1>1, <1>6
<1>10. \A a, b \in 1 .. m : from[a] = from[b] => a = b
  BY <1>1, <1>6
<1>11. ASSUME NEW a \in 1 .. m
       PROVE  \E b \in 1 .. m : from[b] = a
  <2>1. CASE a = i
    <3>1. m \in 1 .. m /\ from[m] = a
      BY <1>1, <1>6, <2>1
    <3> QED BY <3>1
  <2>2. CASE a < i
    <3>1. from[a] = a
      BY <1>1, <1>6, <2>2
    <3> QED BY <3>1
  <2>3. CASE a > i
    <3>1. a - 1 \in 1 .. m /\ from[a - 1] = a
      BY <1>1, <1>6, <2>3
    <3> QED BY <3>1
  <2> QED BY <1>1, <1>6, <2>1, <2>2, <2>3
<1>12. ASSUME NEW j \in 1 .. m
       PROVE  u[j] = w[from[j]] /\ nu[j] = ns[from[j]]
  <2>1. CASE j = m
    <3>1. from[j] = i
      BY <2>1
    <3> QED BY <1>7, <1>8, <2>1, <3>1
  <2>2. CASE j # m /\ j < i
    <3>1. from[j] = j /\ j \in 1 .. m - 1
      BY <1>1, <2>2
    <3> QED BY <1>4, <1>5, <1>7, <1>8, <2>2, <3>1
  <2>3. CASE j # m /\ ~(j < i)
    <3>1. j \in 1 .. m - 1 /\ i <= j /\ j + 1 \in 1 .. m /\ from[j] = j + 1
      BY <1>1, <1>6, <2>3
    <3> QED BY <1>4, <1>5, <1>7, <1>8, <2>3, <3>1
  <2> QED BY <2>1, <2>2, <2>3
<1> HIDE DEF from
<1>13. \A a, b \in 1 .. m : u[a].key = u[b].key => a = b
  BY <1>2, <1>9, <1>10, <1>12
<1>14. r.cache = l.cache /\ r.val = l.val
  BY <1>3 DEF Relinked
<1>15. Cached(r) = {u[a].key : a \in 1 .. m}
  <2>1. Cached(r) = {w[a].key : a \in 1 .. m}
    BY <1>2, <1>14 DEF Cached
  <2>2. ASSUME NEW k \in {w[a].key : a \in 1 .. m} PROVE k \in {u[a].key : a \in 1 .. m}
    <3>1. PICK a \in 1 .. m : k = w[a].key
      OBVIOUS
    <3>2. PICK b \in 1 .. m : from[b] = a
      BY <1>11
    <3>3. k = u[b].key
      BY <1>12, <3>1, <3>2
    <3> QED BY <3>3
  <2>3. ASSUME NEW k \in {u[a].key : a \in 1 .. m} PROVE k \in {w[a].key : a \in 1 .. m}
    <3>1. PICK a \in 1 .. m : k = u[a].key
      OBVIOUS
    <3>2. from[a] \in 1 .. m /\ k = w[from[a]].key
      BY <1>9, <1>12, <3>1
    <3> QED BY <3>2
  <2> QED BY <2>1, <2>2, <2>3
<1>16. \A a \in 1 .. m : r.val[r.cache[u[a].key]] = u[a].value
  BY <1>2, <1>9, <1>12, <1>14
<1>17. NodesOf(r, u) = nu
  <2> DEFINE q == NodesOf(r, u)
  <2>1. q = [j \in 1 .. m |-> l.cache[u[j].key]]
    BY <1>7, <1>14 DEF NodesOf
  <2>2. ASSUME NEW j \in 1 .. m PROVE l.cache[u[j].key] = nu[j]
    <3>1. from[j] \in 1 .. m
      BY <1>9
    <3> QED BY <1>1, <1>12, <3>1
  <2>3. \A j \in 1 .. m : nu[j] \in 1 .. N
    BY <1>1, <1>9, <1>12
  <2>4. q \in [1 .. m -> 1 .. N]
    BY <2>1, <2>2, <2>3
  <2>5. q \in Seq(1 .. N) /\ Len(q) = m
    BY <1>1, <2>4, FunctionSeq
  <2>6. \A j \in 1 .. m : q[j] = nu[j]
    BY <2>1, <2>2
  <2> HIDE DEF q
  <2>7. q = nu
    BY <1>8, <2>5, <2>6, SeqEqual
  <2> QED BY <2>7 DEF q
<1>18. Holds(r, u) /\ Len(u) = m
  BY <1>3, <1>7, <1>15, <1>16, <1>17, <1>13 DEF Holds, Entry
<1>19. ns[i] = l.cache[w[i].key]
  BY <1>1, <1>6
<1> QED BY <1>3, <1>18, <1>19 DEF r, u, rest, m

LEMMA UncacheKept ==
    ASSUME NEW l, Allocated(l), NEW n \in 1 .. Len(l.key)
    PROVE  LET r == Uncache(l, n)
           IN  /\ Allocated(r) /\ l.key[n] \in Keys
               /\ r.panicked = l.panicked /\ r.length = l.length /\ r.key = l.key /\ r.val = l.val
               /\ r.head = l.head /\ r.tail = l.tail /\ r.next = l.next /\ r.pre = l.pre
               /\ r.cache = IF l.panicked THEN l.cache ELSE [l.cache EXCEPT ![l.key[n]] = Nil]
<1> DEFINE N == Len(l.key)
           r == Uncache(l, n)
<1>1. N \in Nat /\ l \in Caches(N) /\ Len(l.val) = N /\ Len(l.pre) = N /\ Len(l.next) = N
  BY LenProperties DEF Allocated, Caches
<1>2. l.key[n] \in Keys
  BY <1>1, ElementOfSeq DEF Caches
<1>3. CASE l.panicked
  BY <1>2, <1>3 DEF Uncache
<1>4. CASE ~l.panicked
  <2> DEFINE c == [l.cache EXCEPT ![l.key[n]] = Nil]
  <2>1. c \in [Keys -> 0 .. N]
    BY <1>1, <1>2 DEF Caches, Nil
  <2>2. r = [l EXCEPT !.cache = c]
    BY <1>1, <1>4 DEF Uncache, Caches
  <2> HIDE DEF c
  <2>3. r \in Caches(N)
    BY <1>1, <2>1, <2>2 DEF Caches
  <2>4. /\ r.panicked = l.panicked /\ r.length = l.length /\ r.key = l.key /\ r.val = l.val
        /\ r.head = l.head /\ r.tail = l.tail /\ r.next = l.next /\ r.pre = l.pre /\ r.cache = c
    BY <1>1, <2>2 DEF Caches
  <2> QED BY <1>1, <1>2, <1>4, <2>3, <2>4 DEF Allocated, c
<1> QED BY <1>3, <1>4

(* Fewer keys, and each with its own node. *)
LEMMA UncacheOwned ==
    ASSUME NEW l, Allocated(l), Owned(l), NEW n \in 1 .. Len(l.key)
    PROVE  Owned(Uncache(l, n)) /\ Cached(Uncache(l, n)) \subseteq Cached(l)
<1> DEFINE r == Uncache(l, n)
<1>1. /\ r.key = l.key /\ l.key[n] \in Keys
      /\ r.cache = IF l.panicked THEN l.cache ELSE [l.cache EXCEPT ![l.key[n]] = Nil]
  BY UncacheKept
<1>2. l.cache \in [Keys -> 0 .. Len(l.key)]
  BY DEF Allocated, Caches
<1> HIDE DEF r
<1>3. \A k \in Cached(r) : k \in Cached(l) /\ r.cache[k] = l.cache[k]
  BY <1>1, <1>2 DEF Cached
<1>4. Owned(r)
  BY <1>1, <1>3 DEF Owned
<1> QED BY <1>3, <1>4 DEF r

(* The key of w[i], deleted, is no more there; the others stay in order. *)
LEMMA Removed ==
    ASSUME NEW l, Allocated(l), Owned(l), ~l.panicked, NEW w, Holds(l, w), NEW i \in 1 .. Len(w), Len(w) >= 2
    PROVE  LET n == l.cache[w[i].key]
               r == Uncache(deleteNode(l, n), n)
           IN  ~r.panicked /\ Holds(r, RemoveAt(w, i)) /\ Len(RemoveAt(w, i)) = Len(w) - 1
<1> DEFINE N == Len(l.key)
           m == Len(w)
           Entry == [key : Keys, value : Values]
           ns == NodesOf(l, w)
           cut == deleteNode(l, ns[i])
           r == Uncache(cut, ns[i])
           rest == RemoveAt(w, i)
           rs == RemoveAt(ns, i)
<1>1. /\ m \in Nat /\ Len(ns) = m /\ ns \in Seq(1 .. N)
      /\ \A j \in 1 .. m : /\ w[j] \in Entry /\ w[j].key \in Keys /\ w[j].value \in Values
                            /\ ns[j] = l.cache[w[j].key] /\ ns[j] \in 1 .. N
  BY NodesAre
<1>2. /\ w \in Seq(Entry) /\ \A a, b \in 1 .. m : w[a].key = w[b].key => a = b
      /\ Cached(l) = {w[a].key : a \in 1 .. m}
      /\ \A a \in 1 .. m : l.val[l.cache[w[a].key]] = w[a].value
      /\ Linked(l, ns)
  BY DEF Holds
<1>3. Linked(cut, rs) /\ cut.panicked = l.panicked
  BY <1>1, <1>2, DeleteOne
<1>4. ns[i] \in 1 .. N /\ ns[i] = l.cache[w[i].key] /\ w[i].key \in Cached(l)
  BY <1>1, <1>2
<1> HIDE DEF Entry, ns
<1>5. Allocated(cut) /\ Relinked(l, cut)
  BY <1>4, DeleteNode
<1>6. /\ rest \in Seq(Entry) /\ Len(rest) = m - 1
      /\ \A j \in 1 .. m - 1 : (j < i => rest[j] = w[j]) /\ (i <= j => rest[j] = w[j + 1])
  BY <1>2, RemovedAt
<1>7. /\ rs \in Seq(1 .. N) /\ Len(rs) = m - 1
      /\ \A j \in 1 .. m - 1 : (j < i => rs[j] = ns[j]) /\ (i <= j => rs[j] = ns[j + 1])
  BY <1>1, RemovedAt
<1>8. cut.cache = l.cache /\ cut.key = l.key /\ cut.val = l.val
  BY <1>5 DEF Relinked
<1>9. cut.key[ns[i]] = w[i].key
  BY <1>4, <1>8 DEF Owned
<1>10. ns[i] \in 1 .. Len(cut.key)
  BY <1>4, <1>8
<1> HIDE DEF cut
<1>11. /\ r.panicked = cut.panicked /\ r.key = cut.key /\ r.val = cut.val
       /\ r.head = cut.head /\ r.tail = cut.tail /\ r.next = cut.next /\ r.pre = cut.pre
       /\ r.cache = IF cut.panicked THEN cut.cache ELSE [cut.cache EXCEPT ![cut.key[ns[i]]] = Nil]
  BY <1>5, <1>10, UncacheKept
<1> HIDE DEF r, rest, rs, m, N
<1>12. i \in 1 .. m /\ m >= 2
  BY DEF m
<1>13. r.cache = [l.cache EXCEPT ![w[i].key] = Nil] /\ r.val = l.val /\ ~r.panicked
  BY <1>3, <1>8, <1>9, <1>11
<1>14. l.cache \in [Keys -> 0 .. N]
  BY DEF Allocated, Caches, N
<1> DEFINE from == [j \in 1 .. m - 1 |-> IF j < i THEN j ELSE j + 1]
<1>15. ASSUME NEW j \in 1 .. m - 1
       PROVE  from[j] \in 1 .. m /\ from[j] # i /\ rest[j] = w[from[j]] /\ rs[j] = ns[from[j]]
  <2>1. CASE j < i
    <3>1. from[j] = j /\ j \in 1 .. m
      BY <1>1, <1>12, <2>1
    <3> QED BY <1>1, <1>6, <1>7, <1>12, <2>1, <3>1
  <2>2. CASE i <= j
    <3>1. from[j] = j + 1 /\ j + 1 \in 1 .. m /\ j + 1 # i
      BY <1>1, <1>12, <2>2
    <3> QED BY <1>6, <1>7, <2>2, <3>1
  <2> QED BY <1>1, <1>12, <2>1, <2>2
<1>16. \A a, b \in 1 .. m - 1 : from[a] = from[b] => a = b
  BY <1>1, <1>12
<1>17. ASSUME NEW a \in 1 .. m, a # i
       PROVE  \E b \in 1 .. m - 1 : from[b] = a
  <2>1. CASE a < i
    <3>1. a \in 1 .. m - 1 /\ from[a] = a
      BY <1>1, <1>12, <2>1
    <3> QED BY <3>1
  <2>2. CASE a > i
    <3>1. a - 1 \in 1 .. m - 1 /\ from[a - 1] = a
      BY <1>1, <1>12, <2>2
    <3> QED BY <3>1
  <2> QED BY <1>1, <1>12, <1>17, <2>1, <2>2
<1> HIDE DEF from
<1>18. ASSUME NEW j \in 1 .. m - 1
       PROVE  rest[j].key \in Keys /\ rest[j].key # w[i].key /\ r.cache[rest[j].key] = l.cache[rest[j].key]
  <2>1. rest[j].key \in Keys /\ rest[j].key # w[i].key
    <3>1. from[j] \in 1 .. m /\ from[j] # i /\ rest[j] = w[from[j]]
      BY <1>15
    <3>2. w[from[j]].key \in Keys
      BY <1>1, <3>1
    <3>3. w[from[j]].key # w[i].key
      BY <1>2, <1>12, <3>1
    <3> QED BY <3>1, <3>2, <3>3
  <2> QED BY <1>13, <1>14, <2>1
<1>19. ASSUME NEW a \in 1 .. m - 1, NEW b \in 1 .. m - 1, rest[a].key = rest[b].key
       PROVE  a = b
  <2>1. from[a] \in 1 .. m /\ from[b] \in 1 .. m /\ w[from[a]].key = w[from[b]].key
    BY <1>15, <1>19
  <2>2. from[a] = from[b]
    BY <1>2, <2>1
  <2> QED BY <1>16, <2>2
<1>20. Cached(r) = {rest[a].key : a \in 1 .. m - 1}
  <2>1. \A k \in Keys : k \in Cached(r) <=> k \in Cached(l) /\ k # w[i].key
    BY <1>13, <1>14 DEF Cached
  <2>2. ASSUME NEW k \in Cached(r) PROVE k \in {rest[a].key : a \in 1 .. m - 1}
    <3>1. k \in Keys
      BY DEF Cached
    <3>2. PICK a \in 1 .. m : k = w[a].key /\ a # i
      BY <1>2, <2>1, <3>1
    <3>3. PICK b \in 1 .. m - 1 : from[b] = a
      BY <1>17, <3>2
    <3>4. k = rest[b].key
      BY <1>15, <3>2, <3>3
    <3> QED BY <3>4
  <2>3. ASSUME NEW k \in {rest[a].key : a \in 1 .. m - 1} PROVE k \in Cached(r)
    <3>1. PICK a \in 1 .. m - 1 : k = rest[a].key
      OBVIOUS
    <3>2. k \in Keys /\ k # w[i].key /\ from[a] \in 1 .. m /\ k = w[from[a]].key
      BY <1>15, <1>18, <3>1
    <3> QED BY <1>2, <2>1, <3>2
  <2> QED BY <2>2, <2>3
<1>21. ASSUME NEW a \in 1 .. m - 1
       PROVE  r.val[r.cache[rest[a].key]] = rest[a].value
  <2>1. from[a] \in 1 .. m /\ rest[a] = w[from[a]]
    BY <1>15
  <2> QED BY <1>2, <1>13, <1>18, <2>1
<1>22. NodesOf(r, rest) = rs
  <2> DEFINE q == NodesOf(r, rest)
  <2>1. q = [j \in 1 .. m - 1 |-> r.cache[rest[j].key]]
    BY <1>6 DEF NodesOf
  <2>2. ASSUME NEW j \in 1 .. m - 1 PROVE r.cache[rest[j].key] = rs[j] /\ rs[j] \in 1 .. N
    <3>1. from[j] \in 1 .. m /\ rest[j] = w[from[j]] /\ rs[j] = ns[from[j]]
      BY <1>15
    <3> QED BY ZenonT(40), <1>1, <1>18, <3>1
  <2>3. q \in [1 .. m - 1 -> 1 .. N]
    BY <2>1, <2>2
  <2>4. m - 1 \in Nat
    BY <1>1, <1>12
  <2>5. q \in Seq(1 .. N) /\ Len(q) = m - 1
    <3> HIDE DEF q
    <3> DEFINE p == m - 1
    <3>1. p \in Nat /\ q \in [1 .. p -> 1 .. N]
      BY <2>3, <2>4
    <3> HIDE DEF p
    <3>2. q \in Seq(1 .. N) /\ Len(q) = p
      BY <3>1, FunctionSeq
    <3> QED BY <3>2 DEF p
  <2>6. \A j \in 1 .. m - 1 : q[j] = rs[j]
    BY <2>1, <2>2
  <2> HIDE DEF q
  <2>7. q = rs
    BY <1>7, <2>5, <2>6, SeqEqual
  <2> QED BY <2>7 DEF q
<1>23. Linked(r, rs)
  <2>1. Len(r.key) = Len(cut.key)
    BY <1>11
  <2> QED BY <1>3, <1>11, <2>1, LinkedSame
<1>24. Holds(r, rest)
  BY <1>6, <1>19, <1>20, <1>21, <1>22, <1>23 DEF Holds, Entry
<1> QED BY <1>4, <1>6, <1>13, <1>24 DEF r, rest, m, cut

LEMMA NewNode ==
    ASSUME NEW l, Allocated(l), NEW k \in Keys, NEW v \in Values
    PROVE  LET r == newLruNode(l, k, v)
           IN  /\ Allocated(r) /\ Len(l.key) \in Nat /\ Len(r.key) = Len(l.key) + 1
               /\ r.panicked = l.panicked /\ r.length = l.length /\ r.head = l.head /\ r.tail = l.tail
               /\ r.key = Append(l.key, k) /\ r.val = Append(l.val, v)
               /\ r.pre = Append(l.pre, Nil) /\ r.next = Append(l.next, Nil)
               /\ r.cache = [l.cache EXCEPT ![k] = Len(l.key) + 1]
<1> DEFINE N == Len(l.key)
           r == newLruNode(l, k, v)
           c == [l.cache EXCEPT ![k] = N + 1]
<1>1. N \in Nat /\ l \in Caches(N) /\ Len(l.val) = N /\ Len(l.pre) = N /\ Len(l.next) = N
  BY LenProperties DEF Allocated, Caches
<1>2. /\ l.key \in Seq(Keys) /\ l.val \in Seq(Values) /\ l.cache \in [Keys -> 0 .. N]
      /\ l.head \in 0 .. N /\ l.tail \in 0 .. N /\ l.pre \in Seq(0 .. N) /\ l.next \in Seq(0 .. N)
  BY <1>1 DEF Caches
<1>3. /\ r.type = l.type /\ r.panicked = l.panicked /\ r.length = l.length /\ r.head = l.head /\ r.tail = l.tail
      /\ r.key = Append(l.key, k) /\ r.val = Append(l.val, v)
      /\ r.pre = Append(l.pre, Nil) /\ r.next = Append(l.next, Nil) /\ r.cache = c
  BY <1>1 DEF newLruNode, Caches
<1> DEFINE key == Append(l.key, k)
           val == Append(l.val, v)
           pre == Append(l.pre, Nil)
           next == Append(l.next, Nil)
<1>4. r = [l EXCEPT !.key = key, !.val = val, !.pre = pre, !.next = next, !.cache = c]
  BY <1>1 DEF newLruNode, Caches
<1> HIDE DEF N, r, c
<1>5. 0 .. N \subseteq 0 .. N + 1
  BY <1>1
<1>6. key \in Seq(Keys) /\ Len(key) = N + 1
  BY <1>2, Appended DEF N
<1>7. val \in Seq(Values) /\ Len(val) = N + 1
  BY <1>1, <1>2, Appended
<1>8. Nil \in 0 .. N + 1
  BY <1>1 DEF Nil
<1>9. pre \in Seq(0 .. N + 1) /\ Len(pre) = N + 1 /\ next \in Seq(0 .. N + 1) /\ Len(next) = N + 1
  <2> DEFINE S == 0 .. N
             T == 0 .. N + 1
  <2>1. S \subseteq T /\ l.pre \in Seq(S) /\ l.next \in Seq(S) /\ Nil \in T
    BY <1>2, <1>5, <1>8
  <2> HIDE DEF S, T
  <2>2. l.pre \in Seq(T) /\ l.next \in Seq(T)
    BY <2>1, SeqMonotonic
  <2>3. pre \in Seq(T) /\ Len(pre) = N + 1 /\ next \in Seq(T) /\ Len(next) = N + 1
    BY <1>1, <2>1, <2>2, Appended
  <2> QED BY <2>3 DEF T
<1>10. c \in [Keys -> 0 .. N + 1]
  BY <1>1, <1>2 DEF c
<1> HIDE DEF key, val, pre, next
<1>11. l.head \in 0 .. N + 1 /\ l.tail \in 0 .. N + 1 /\ l.type = "LRUCache" /\ l.length \in Nat /\ l.panicked \in BOOLEAN
  BY <1>1, <1>2, <1>5 DEF Caches
<1>12. r \in Caches(N + 1)
  BY <1>1, <1>4, <1>6, <1>7, <1>9, <1>10, <1>11 DEF Caches
<1>13. Allocated(r)
  BY <1>3, <1>6, <1>7, <1>9, <1>12 DEF Allocated, key, val, pre, next
<1> QED BY <1>1, <1>3, <1>6, <1>13 DEF N, r, c, key

(* A key put for the first time is the last. *)
LEMMA Added ==
    ASSUME NEW l, Allocated(l), ~l.panicked, NEW w, Holds(l, w),
           NEW k \in Keys, l.cache[k] = Nil, NEW v \in Values
    PROVE  LET r == addNode(newLruNode(l, k, v), Len(l.key) + 1)
               u == Append(w, [key |-> k, value |-> v])
           IN  ~r.panicked /\ Holds(r, u) /\ Len(u) = Len(w) + 1
<1> DEFINE N == Len(l.key)
           m == Len(w)
           Entry == [key : Keys, value : Values]
           e == [key |-> k, value |-> v]
           ns == NodesOf(l, w)
           p == newLruNode(l, k, v)
           r == addNode(p, N + 1)
           u == Append(w, e)
           nu == Append(ns, N + 1)
<1>1. /\ m \in Nat /\ Len(ns) = m /\ ns \in Seq(1 .. N)
      /\ \A j \in 1 .. m : /\ w[j] \in Entry /\ w[j].key \in Keys /\ w[j].value \in Values
                            /\ ns[j] = l.cache[w[j].key] /\ ns[j] \in 1 .. N
  BY NodesAre
<1>2. /\ w \in Seq(Entry) /\ \A a, b \in 1 .. m : w[a].key = w[b].key => a = b
      /\ Cached(l) = {w[a].key : a \in 1 .. m}
      /\ \A a \in 1 .. m : l.val[l.cache[w[a].key]] = w[a].value
      /\ Linked(l, ns)
  BY DEF Holds
<1>3. /\ Allocated(p) /\ N \in Nat /\ Len(p.key) = N + 1
      /\ p.panicked = l.panicked /\ p.head = l.head /\ p.tail = l.tail
      /\ p.key = Append(l.key, k) /\ p.val = Append(l.val, v)
      /\ p.pre = Append(l.pre, Nil) /\ p.next = Append(l.next, Nil)
      /\ p.cache = [l.cache EXCEPT ![k] = N + 1]
  BY NewNode
<1>4. /\ l.cache \in [Keys -> 0 .. N] /\ l.val \in Seq(Values) /\ Len(l.val) = N
      /\ l.pre \in Seq(0 .. N) /\ Len(l.pre) = N /\ l.next \in Seq(0 .. N) /\ Len(l.next) = N
  BY DEF Allocated, Caches
<1>5. e \in Entry /\ e.key = k /\ e.value = v
  OBVIOUS
<1> HIDE DEF N, m, Entry, e, ns, p
<1>6. /\ \A a \in 1 .. N : p.val[a] = l.val[a] /\ p.pre[a] = l.pre[a] /\ p.next[a] = l.next[a]
      /\ p.val[N + 1] = v
  BY SMTT(40), <1>3, <1>4
<1>7. Linked(p, ns)
  <2>1. /\ \A a, b \in 1 .. Len(ns) : ns[a] = ns[b] => a = b
        /\ Len(ns) = 0 => l.head = Nil /\ l.tail = Nil
        /\ Len(ns) # 0 => l.head = ns[1] /\ l.tail = ns[Len(ns)]
        /\ \A a \in 1 .. Len(ns) - 1 : l.next[ns[a]] = ns[a + 1] /\ l.pre[ns[a + 1]] = ns[a]
    BY <1>2 DEF Linked
  <2>2. 1 .. N \subseteq 1 .. N + 1
    BY <1>3
  <2>3. ns \in Seq(1 .. N + 1)
    BY <1>1, <2>2, SeqMonotonic
  <2>4. ASSUME NEW a \in 1 .. Len(ns) - 1
        PROVE  p.next[ns[a]] = ns[a + 1] /\ p.pre[ns[a + 1]] = ns[a]
    <3>1. a \in 1 .. m /\ a + 1 \in 1 .. m
      BY <1>1
    <3>2. ns[a] \in 1 .. N /\ ns[a + 1] \in 1 .. N
      BY <1>1, <3>1
    <3> QED BY <1>6, <2>1, <3>2
  <2> QED BY <1>3, <2>1, <2>3, <2>4 DEF Linked
<1>8. N + 1 \in 1 .. Len(p.key) /\ \A a \in 1 .. Len(ns) : ns[a] # N + 1
  BY <1>1, <1>3
<1>9. Linked(r, nu)
  BY <1>3, <1>7, <1>8, AddLast
<1>10. Relinked(p, r) /\ r.panicked = p.panicked
  BY <1>3, <1>8, AddNode
<1>11. r.cache = [l.cache EXCEPT ![k] = N + 1] /\ r.val = p.val /\ ~r.panicked
  BY <1>3, <1>10 DEF Relinked
<1> HIDE DEF r
<1>12. u \in Seq(Entry) /\ Len(u) = m + 1 /\ \A j \in 1 .. m + 1 : u[j] = IF j = m + 1 THEN e ELSE w[j]
  BY <1>2, <1>5, Appended DEF m
<1>13. N + 1 \in 1 .. N + 1 /\ ns \in Seq(1 .. N + 1)
  BY <1>3, <1>7 DEF Linked
<1>14. nu \in Seq(1 .. N + 1) /\ Len(nu) = m + 1 /\ \A j \in 1 .. m + 1 : nu[j] = IF j = m + 1 THEN N + 1 ELSE ns[j]
  BY <1>1, <1>13, Appended
<1> HIDE DEF u, nu
<1>15. \A a \in 1 .. m : w[a].key # k /\ r.cache[w[a].key] = l.cache[w[a].key]
  <2>1. \A a \in 1 .. m : w[a].key # k
    BY <1>2 DEF Cached
  <2> QED BY <1>1, <1>4, <1>11, <2>1
<1>16. r.cache[k] = N + 1
  BY <1>4, <1>11
<1>17. ASSUME NEW a \in 1 .. m + 1
       PROVE  r.cache[u[a].key] = nu[a] /\ r.val[nu[a]] = u[a].value /\ nu[a] \in 1 .. N + 1
  <2>1. CASE a = m + 1
    BY <1>5, <1>6, <1>11, <1>12, <1>13, <1>14, <1>16, <2>1
  <2>2. CASE a # m + 1
    <3>1. a \in 1 .. m /\ u[a] = w[a] /\ nu[a] = ns[a]
      BY <1>1, <1>12, <1>14, <2>2
    <3>2. ns[a] = l.cache[w[a].key] /\ ns[a] \in 1 .. N /\ r.cache[w[a].key] = ns[a]
      BY <1>1, <1>15, <3>1
    <3>3. r.val[ns[a]] = w[a].value
      BY <1>2, <1>6, <1>11, <3>1, <3>2
    <3>4. ns[a] \in 1 .. N + 1
      BY <1>3, <3>2
    <3> QED BY <3>1, <3>2, <3>3, <3>4
  <2> QED BY <2>1, <2>2
<1>18. ASSUME NEW a \in 1 .. m + 1, NEW b \in 1 .. m + 1, u[a].key = u[b].key
       PROVE  a = b
  <2>1. CASE a = m + 1 /\ b = m + 1
    BY <2>1
  <2>2. CASE a = m + 1 /\ b # m + 1
    <3>1. b \in 1 .. m /\ u[b] = w[b] /\ u[a] = e
      BY <1>1, <1>12, <2>2
    <3> QED BY <1>5, <1>15, <1>18, <3>1
  <2>3. CASE a # m + 1 /\ b = m + 1
    <3>1. a \in 1 .. m /\ u[a] = w[a] /\ u[b] = e
      BY <1>1, <1>12, <2>3
    <3> QED BY <1>5, <1>15, <1>18, <3>1
  <2>4. CASE a # m + 1 /\ b # m + 1
    <3>1. a \in 1 .. m /\ u[a] = w[a] /\ b \in 1 .. m /\ u[b] = w[b]
      BY <1>1, <1>12, <2>4
    <3>2. w[a].key = w[b].key
      BY <1>18, <3>1
    <3> QED BY <1>2, <3>1, <3>2
  <2> QED BY <2>1, <2>2, <2>3, <2>4
<1>19. Cached(r) = {u[a].key : a \in 1 .. m + 1}
  <2>1. \A x \in Keys : x \in Cached(r) <=> x \in Cached(l) \/ x = k
    BY <1>3, <1>4, <1>11 DEF Cached, Nil
  <2>2. ASSUME NEW x \in Cached(r) PROVE x \in {u[a].key : a \in 1 .. m + 1}
    <3>1. x \in Keys
      BY DEF Cached
    <3>2. CASE x = k
      <4>1. m + 1 \in 1 .. m + 1 /\ u[m + 1].key = k
        BY <1>1, <1>5, <1>12
      <4> QED BY <3>2, <4>1
    <3>3. CASE x # k
      <4>1. PICK a \in 1 .. m : x = w[a].key
        BY <1>2, <2>1, <3>1, <3>3
      <4>2. a \in 1 .. m + 1 /\ u[a] = w[a]
        BY <1>1, <1>12
      <4> QED BY <4>1, <4>2
    <3> QED BY <3>2, <3>3
  <2>3. ASSUME NEW x \in {u[a].key : a \in 1 .. m + 1} PROVE x \in Cached(r)
    <3>1. PICK a \in 1 .. m + 1 : x = u[a].key
      OBVIOUS
    <3>2. CASE a = m + 1
      BY <1>5, <1>12, <2>1, <3>1, <3>2
    <3>3. CASE a # m + 1
      <4>1. a \in 1 .. m /\ u[a] = w[a]
        BY <1>1, <1>12, <3>3
      <4> QED BY <1>1, <1>2, <2>1, <3>1, <4>1
    <3> QED BY <3>2, <3>3
  <2> QED BY <2>2, <2>3
<1>20. NodesOf(r, u) = nu
  <2> DEFINE q == NodesOf(r, u)
             d == m + 1
  <2>1. d \in Nat
    BY <1>1
  <2>2. q = [j \in 1 .. d |-> r.cache[u[j].key]]
    BY <1>12 DEF NodesOf
  <2>3. q \in [1 .. d -> 1 .. N + 1] /\ \A j \in 1 .. d : q[j] = nu[j]
    BY <1>17, <2>2
  <2>4. Len(nu) = d
    BY <1>14
  <2> HIDE DEF q, d
  <2>5. q \in Seq(1 .. N + 1) /\ Len(q) = d
    BY <2>1, <2>3, FunctionSeq
  <2>6. q = nu
    BY <1>14, <2>3, <2>4, <2>5, SeqEqual
  <2> QED BY <2>6 DEF q
<1>21. \A a \in 1 .. m + 1 : r.val[r.cache[u[a].key]] = u[a].value
  BY <1>17
<1>22. Holds(r, u)
  BY <1>9, <1>12, <1>18, <1>19, <1>20, <1>21 DEF Holds, Entry
<1> QED BY <1>11, <1>12, <1>22 DEF r, u, p, e, m, N

-----------------------------------------------------------------------------
(* The actions *)

LEMMA MoveAllocated ==
    ASSUME NEW l, Allocated(l), NEW n \in 1 .. Len(l.key)
    PROVE  Allocated(moveToHead(l, n)) /\ Relinked(l, moveToHead(l, n))
<1> DEFINE cut == deleteNode(l, n)
<1>1. Allocated(cut) /\ Relinked(l, cut)
  BY DeleteNode
<1>2. n \in 1 .. Len(cut.key)
  BY <1>1 DEF Relinked
<1>3. Allocated(addNode(cut, n)) /\ Relinked(cut, addNode(cut, n))
  <2> HIDE DEF cut
  <2> QED BY <1>1, <1>2, AddNode
<1>4. CASE l.tail = n
  BY <1>4 DEF moveToHead, Relinked
<1>5. CASE l.tail # n /\ cut.panicked
  BY <1>1, <1>5 DEF moveToHead
<1>6. CASE l.tail # n /\ ~cut.panicked
  <2>1. moveToHead(l, n) = addNode(cut, n)
    BY <1>6 DEF moveToHead
  <2> QED BY <1>1, <1>3, <2>1 DEF Relinked
<1> QED BY <1>4, <1>5, <1>6

LEMMA RelinkedOwned ==
    ASSUME NEW l, NEW r, Relinked(l, r), Owned(l)
    PROVE  Owned(r) /\ Cached(r) = Cached(l)
<1> QED BY DEF Relinked, Owned, Cached

(* Only the length is set. *)
LEMMA LengthSet ==
    ASSUME NEW l, Allocated(l), Owned(l)
    PROVE  LET r == [l EXCEPT !.length = Cardinality(Cached(l))]
           IN  /\ Allocated(r) /\ Owned(r) /\ r.length >= Cardinality(Cached(r)) /\ r.panicked = l.panicked
               /\ \A w : Holds(l, w) => Holds(r, w)
<1> DEFINE c == Cardinality(Cached(l))
           r == [l EXCEPT !.length = c]
           N == Len(l.key)
<1>1. IsFiniteSet(Cached(l))
  BY OwnedFinite
<1>2. c \in Nat
  BY <1>1, FS_CardinalityType
<1>3. N \in Nat /\ l \in Caches(N) /\ Len(l.val) = N /\ Len(l.pre) = N /\ Len(l.next) = N
  BY LenProperties DEF Allocated, Caches
<1> HIDE DEF c
<1>4. /\ r.cache = l.cache /\ r.key = l.key /\ r.val = l.val /\ r.pre = l.pre /\ r.next = l.next
      /\ r.head = l.head /\ r.tail = l.tail /\ r.panicked = l.panicked /\ r.length = c
  BY <1>3 DEF Caches
<1>5. r \in Caches(N)
  BY <1>2, <1>3 DEF Caches
<1> HIDE DEF r
<1>6. Allocated(r) /\ Owned(r) /\ Cached(r) = Cached(l)
  BY <1>3, <1>4, <1>5 DEF Allocated, Owned, Cached
<1>7. ASSUME NEW w, Holds(l, w) PROVE Holds(r, w)
  <2>1. Linked(l, NodesOf(l, w)) /\ NodesOf(r, w) = NodesOf(l, w)
    BY <1>4, <1>7 DEF Holds, NodesOf
  <2>2. Linked(r, NodesOf(r, w))
    BY <1>4, <2>1, LinkedSame
  <2> QED BY <1>4, <1>6, <1>7, <2>2 DEF Holds
<1>8. r.length >= Cardinality(Cached(r))
  BY <1>2, <1>4, <1>6 DEF c
<1> QED BY <1>4, <1>6, <1>7, <1>8 DEF r, c

LEMMA PlaceIs ==
    ASSUME Holds(obj, want), NEW k, NEW i \in 1 .. Len(want), want[i].key = k
    PROVE  Knows(k) /\ Place(k) = i
<1>1. DOMAIN want = 1 .. Len(want) /\ \A a, b \in 1 .. Len(want) : want[a].key = want[b].key => a = b
  BY LenProperties DEF Holds
<1>2. Knows(k)
  BY <1>1 DEF Knows
<1>3. \A j \in DOMAIN want : want[j].key = k => j = i
  BY <1>1
<1>4. Place(k) \in DOMAIN want /\ want[Place(k)].key = k
  BY <1>2 DEF Place, Knows
<1> QED BY <1>2, <1>3, <1>4

LEMMA GetKept == ASSUME CacheInv, NEW k \in Keys, Get(k) PROVE CacheInv'
<1> DEFINE n == obj.cache[k]
           r == moveToHead(obj, n)
<1>1. /\ Allocated(obj) /\ ~obj.panicked /\ Owned(obj) /\ obj.length >= Cardinality(Cached(obj))
      /\ trusted \in BOOLEAN /\ n # Nil /\ obj' = r /\ trusted' = trusted
  BY DEF CacheInv, Get, Live
<1>2. n \in 1 .. Len(obj.key)
  BY <1>1, LenProperties DEF Allocated, Caches, Nil
<1>3. Allocated(r) /\ Relinked(obj, r)
  BY <1>1, <1>2, MoveAllocated
<1>4. Owned(r) /\ r.length >= Cardinality(Cached(r))
  BY <1>1, <1>3, RelinkedOwned DEF Relinked
<1>5. ASSUME trusted
      PROVE  ~r.panicked /\ Holds(r, want') /\ Len(want') <= Cap
  <2>1. Holds(obj, want) /\ Len(want) <= Cap
    BY <1>5 DEF CacheInv
  <2>2. k \in Cached(obj)
    BY <1>1 DEF Cached
  <2>3. PICK i \in 1 .. Len(want) : want[i].key = k
    BY <2>1, <2>2 DEF Holds
  <2>4. Knows(k) /\ Place(k) = i
    BY <2>1, <2>3, PlaceIs
  <2>5. want' = Append(RemoveAt(want, i), want[i])
    BY <2>4 DEF Get, Without
  <2> QED BY <1>1, <2>1, <2>3, <2>5, Moved
<1> QED BY <1>1, <1>3, <1>4, <1>5 DEF CacheInv

LEMMA DeleteKept == ASSUME Cap \in Nat, CacheInv, NEW k \in Keys, Delete(k) PROVE CacheInv'
<1> DEFINE n == obj.cache[k]
           cut == deleteNode(obj, n)
           r == Uncache(cut, n)
<1>1. /\ Allocated(obj) /\ ~obj.panicked /\ Owned(obj) /\ obj.length >= Cardinality(Cached(obj))
      /\ trusted \in BOOLEAN /\ n # Nil /\ obj' = r /\ want' = Without(k)
      /\ trusted' = (trusted /\ Cardinality(Cached(obj)) > 1)
  BY DEF CacheInv, Delete, Live
<1>2. n \in 1 .. Len(obj.key)
  BY <1>1, LenProperties DEF Allocated, Caches, Nil
<1>3. Allocated(cut) /\ Relinked(obj, cut)
  BY <1>1, <1>2, DeleteNode
<1>4. Owned(cut) /\ Cached(cut) = Cached(obj) /\ n \in 1 .. Len(cut.key)
  BY <1>1, <1>2, <1>3, RelinkedOwned DEF Relinked
<1> HIDE DEF cut
<1>5. Allocated(r) /\ r.length = cut.length
  BY <1>3, <1>4, UncacheKept
<1>6. Owned(r) /\ Cached(r) \subseteq Cached(cut)
  BY <1>3, <1>4, UncacheOwned
<1>7. r.length >= Cardinality(Cached(r))
  <2>1. IsFiniteSet(Cached(obj)) /\ Cardinality(Cached(obj)) \in Nat
    BY <1>1, OwnedFinite, FS_CardinalityType
  <2>2. Cached(r) \in SUBSET Cached(obj)
    BY <1>4, <1>6
  <2>3. Cardinality(Cached(r)) <= Cardinality(Cached(obj)) /\ IsFiniteSet(Cached(r))
    BY <2>1, <2>2, FS_Subset
  <2>4. Cardinality(Cached(r)) \in Nat
    BY <2>3, FS_CardinalityType
  <2>5. r.length = obj.length /\ obj.length \in Nat
    BY <1>1, <1>3, <1>5 DEF Relinked, Allocated, Caches
  <2> QED BY <1>1, <2>1, <2>3, <2>4, <2>5
<1>8. ASSUME trusted'
      PROVE  ~r.panicked /\ Holds(r, want') /\ Len(want') <= Cap
  <2>1. Holds(obj, want) /\ Len(want) <= Cap /\ Cardinality(Cached(obj)) > 1
    BY <1>1, <1>8 DEF CacheInv
  <2>2. Len(want) \in Nat /\ Len(want) >= 2
    <3>1. Len(want) \in Nat
      BY <1>1, <2>1, NodesAre
    <3>2. Cardinality(Cached(obj)) = Len(want)
      BY <1>1, <2>1, Sized
    <3> QED BY <2>1, <3>1, <3>2
  <2>3. k \in Cached(obj)
    BY <1>1 DEF Cached
  <2>4. PICK i \in 1 .. Len(want) : want[i].key = k
    BY <2>1, <2>3 DEF Holds
  <2>5. Knows(k) /\ Place(k) = i
    BY <2>1, <2>4, PlaceIs
  <2>6. want' = RemoveAt(want, i)
    BY <1>1, <2>5 DEF Without
  <2>7. ~r.panicked /\ Holds(r, RemoveAt(want, i)) /\ Len(RemoveAt(want, i)) = Len(want) - 1
    BY <1>1, <2>1, <2>2, <2>4, Removed DEF cut
  <2>8. Len(want) - 1 <= Cap
    BY <2>1, <2>2
  <2> QED BY <2>6, <2>7, <2>8
<1> HIDE DEF r
<1>9. trusted' \in BOOLEAN
  BY <1>1
<1> QED BY <1>1, <1>5, <1>6, <1>7, <1>8, <1>9 DEF CacheInv

(* A key that was not there; over the capacity, the first of want goes.    *)
LEMMA PutNewHolds ==
    ASSUME Cap \in Nat, NEW l, Allocated(l), Owned(l), ~l.panicked,
           NEW k \in Keys, l.cache[k] = Nil, NEW v \in Values
    PROVE  LET r == PutNew(l, k, v)
           IN  /\ Allocated(r) /\ Owned(r)
               /\ \A w : Holds(l, w) /\ Len(w) <= Cap /\ Cap > 0 =>
                    LET u == Newest(Append(w, [key |-> k, value |-> v]))
                    IN  ~r.panicked /\ Holds(r, u) /\ Len(u) <= Cap
<1> DEFINE N == Len(l.key)
           p == newLruNode(l, k, v)
           added == addNode(p, N + 1)
           cut == deleteNode(added, added.head)
           over == Uncache(cut, added.head)
           r == PutNew(l, k, v)
<1>1. /\ Allocated(p) /\ N \in Nat /\ Len(p.key) = N + 1 /\ p.key = Append(l.key, k)
      /\ p.cache = [l.cache EXCEPT ![k] = N + 1] /\ p.panicked = l.panicked
  BY NewNode
<1>2. N + 1 \in 1 .. Len(p.key)
  BY <1>1
<1>3. /\ Allocated(added) /\ Relinked(p, added) /\ added.panicked = p.panicked
      /\ added.head = IF p.head = Nil THEN N + 1 ELSE p.head
  <2> HIDE DEF p, N
  <2> QED BY <1>1, <1>2, AddNode
<1>4. added.key = Append(l.key, k) /\ added.cache = [l.cache EXCEPT ![k] = N + 1] /\ Len(added.key) = N + 1
  BY <1>1, <1>3 DEF Relinked
<1>5. added.head \in 1 .. Len(added.key)
  <2>1. p.head \in 0 .. N + 1
    BY <1>1 DEF Allocated, Caches
  <2> QED BY <1>1, <1>3, <1>4, <2>1 DEF Nil
<1>6. Owned(added)
  <2>1. l.key \in Seq(Keys) /\ l.cache \in [Keys -> 0 .. N]
    BY DEF Allocated, Caches
  <2>2. \A a \in 1 .. N : added.key[a] = l.key[a]
    BY SMTT(40), <1>1, <1>4, <2>1
  <2>3. added.key[N + 1] = k
    BY <1>1, <1>4, <2>1
  <2> HIDE DEF added, N
  <2>4. ASSUME NEW x \in Cached(added) PROVE added.key[added.cache[x]] = x
    <3>1. x \in Keys /\ added.cache[x] # Nil
      BY DEF Cached
    <3>2. CASE x = k
      BY <1>4, <2>1, <2>3, <3>1, <3>2
    <3>3. CASE x # k
      <4>1. added.cache[x] = l.cache[x]
        BY <1>4, <2>1, <3>1, <3>3
      <4>2. x \in Cached(l) /\ l.cache[x] \in 1 .. N
        BY <1>1, <2>1, <3>1, <4>1 DEF Cached, Nil
      <4> QED BY <2>2, <4>1, <4>2 DEF Owned
    <3> QED BY <3>2, <3>3
  <2> QED BY <2>4 DEF Owned
<1>7. r = IF Cardinality(Cached(added)) > Cap THEN over ELSE added
  BY DEF PutNew
<1>8. ASSUME NEW w, Holds(l, w)
      PROVE  LET u == Append(w, [key |-> k, value |-> v])
             IN  /\ Holds(added, u) /\ Len(u) = Len(w) + 1 /\ Len(w) \in Nat
                 /\ Cardinality(Cached(added)) = Len(u)
  <2> DEFINE u == Append(w, [key |-> k, value |-> v])
  <2>1. Holds(added, u) /\ Len(u) = Len(w) + 1
    BY <1>8, Added
  <2>2. Len(w) \in Nat
    BY <1>8, NodesAre
  <2> HIDE DEF u, added
  <2>3. Cardinality(Cached(added)) = Len(u)
    BY <1>3, <2>1, Sized
  <2> QED BY <2>1, <2>2, <2>3 DEF u
<1> HIDE DEF N, p, added
<1>9. ~added.panicked
  BY <1>1, <1>3
<1>10. CASE ~(Cardinality(Cached(added)) > Cap)
  <2>1. r = added
    BY <1>7, <1>10
  <2>2. ASSUME NEW w, Holds(l, w), Len(w) <= Cap, Cap > 0
        PROVE  LET u == Newest(Append(w, [key |-> k, value |-> v]))
               IN  ~r.panicked /\ Holds(r, u) /\ Len(u) <= Cap
    <3> DEFINE u == Append(w, [key |-> k, value |-> v])
    <3>1. /\ Holds(added, u) /\ Len(u) = Len(w) + 1 /\ Len(w) \in Nat
          /\ Cardinality(Cached(added)) = Len(u)
      BY <1>8, <2>2
    <3> HIDE DEF u
    <3>2. Len(u) <= Cap
      BY <1>10, <3>1
    <3>3. Newest(u) = u
      BY <3>1, <3>2 DEF Newest
    <3> HIDE DEF r
    <3> QED BY <1>9, <2>1, <3>1, <3>2, <3>3 DEF u
  <2> QED BY <1>3, <1>6, <2>1, <2>2
<1>11. CASE Cardinality(Cached(added)) > Cap
  <2>1. r = over
    BY <1>7, <1>11
  <2>2. Allocated(cut) /\ Relinked(added, cut)
    BY <1>3, <1>5, DeleteNode
  <2>3. Owned(cut) /\ added.head \in 1 .. Len(cut.key)
    BY <1>5, <1>6, <2>2, RelinkedOwned DEF Relinked
  <2>4. Allocated(over) /\ Owned(over)
    <3> HIDE DEF cut
    <3> QED BY <2>2, <2>3, UncacheKept, UncacheOwned
  <2>5. ASSUME NEW w, Holds(l, w), Len(w) <= Cap, Cap > 0
        PROVE  LET u == Newest(Append(w, [key |-> k, value |-> v]))
               IN  ~r.panicked /\ Holds(r, u) /\ Len(u) <= Cap
    <3> DEFINE u == Append(w, [key |-> k, value |-> v])
               Entry == [key : Keys, value : Values]
    <3>1. /\ Holds(added, u) /\ Len(u) = Len(w) + 1 /\ Len(w) \in Nat
          /\ Cardinality(Cached(added)) = Len(u)
      BY <1>8, <2>5
    <3> HIDE DEF u
    <3>2. Len(u) = Cap + 1 /\ Len(u) >= 2 /\ 1 \in 1 .. Len(u)
      BY <1>11, <2>5, <3>1
    <3>3. added.head = added.cache[u[1].key]
      <4>1. Linked(added, NodesOf(added, u))
        BY <3>1 DEF Holds
      <4>2. Len(NodesOf(added, u)) = Len(u) /\ NodesOf(added, u)[1] = added.cache[u[1].key]
        BY <1>3, <3>1, <3>2, NodesAre
      <4> QED BY <3>2, <4>1, <4>2 DEF Linked
    <3>4. ~over.panicked /\ Holds(over, RemoveAt(u, 1)) /\ Len(RemoveAt(u, 1)) = Len(u) - 1
      BY <1>3, <1>6, <1>9, <3>1, <3>2, <3>3, Removed
    <3>5. Newest(u) = SubSeq(u, 2, Cap + 1)
      <4>1. Len(u) > Cap /\ Len(u) + 1 - Cap = 2
        BY <3>2
      <4> QED BY <3>2, <4>1 DEF Newest
    <3>6. u \in Seq(Entry)
      BY <3>1 DEF Holds
    <3>7. SubSeq(u, 2, Cap + 1) = RemoveAt(u, 1)
      <4>1. SubSeq(u, 1, 1 - 1) = << >>
        BY <3>6, SubSeqEmpty
      <4>2. SubSeq(u, 1 + 1, Len(u)) \in Seq(Entry)
        <5> HIDE DEF Entry
        <5>1. \A a \in 1 .. Len(u) : u[a] \in Entry
          BY <3>6, ElementOfSeq
        <5>2. 2 \in Int /\ Len(u) \in Int
          BY <3>2
        <5>3. \A a \in 1 + 1 .. Len(u) : u[a] \in Entry
          BY <5>1, <5>2
        <5> QED BY <5>2, <5>3, SubSeqProperties
      <4>3. << >> \o SubSeq(u, 1 + 1, Len(u)) = SubSeq(u, 1 + 1, Len(u))
        BY <4>2, ConcatEmptySeq
      <4> QED BY <3>2, <4>1, <4>3 DEF RemoveAt
    <3>8. Len(RemoveAt(u, 1)) <= Cap
      BY <3>2, <3>4
    <3> HIDE DEF r, over
    <3> QED BY <2>1, <3>4, <3>5, <3>7, <3>8 DEF u
  <2> QED BY <2>1, <2>4, <2>5
<1> QED BY <1>10, <1>11

(* A key that was there gets the new value and is the last. *)
LEMMA PutOldHolds ==
    ASSUME Cap \in Nat, NEW l, Allocated(l), Owned(l), ~l.panicked,
           NEW k \in Keys, l.cache[k] # Nil, NEW v \in Values
    PROVE  LET r == PutOld(l, k, v)
           IN  /\ Allocated(r) /\ Owned(r)
               /\ \A w : \A i \in 1 .. Len(w) :
                    Holds(l, w) /\ Len(w) <= Cap /\ w[i].key = k =>
                      LET u == Append(RemoveAt(w, i), [key |-> k, value |-> v])
                      IN  ~r.panicked /\ Holds(r, u) /\ Len(u) <= Cap
<1> DEFINE N == Len(l.key)
           n == l.cache[k]
           val == [l.val EXCEPT ![n] = v]
           p == [l EXCEPT !.val = val]
           r == PutOld(l, k, v)
<1>1. N \in Nat /\ l \in Caches(N) /\ Len(l.val) = N /\ Len(l.pre) = N /\ Len(l.next) = N
  BY LenProperties DEF Allocated, Caches
<1>2. n \in 1 .. N /\ l.val \in Seq(Values)
  BY <1>1 DEF Caches, Nil
<1>3. val \in Seq(Values) /\ Len(val) = N /\ \A a \in 1 .. N : val[a] = IF a = n THEN v ELSE l.val[a]
  BY <1>1, <1>2, ExceptSeq
<1>4. r = moveToHead(p, n)
  <2>1. [l EXCEPT !.val[l.cache[k]] = v] = p
    BY <1>1 DEF Caches
  <2> QED BY <2>1 DEF PutOld
<1> HIDE DEF val
<1>5. /\ p.cache = l.cache /\ p.key = l.key /\ p.val = val /\ p.pre = l.pre /\ p.next = l.next
      /\ p.head = l.head /\ p.tail = l.tail /\ p.panicked = l.panicked
  BY <1>1 DEF Caches
<1>6. p \in Caches(N)
  BY <1>1, <1>3 DEF Caches
<1> HIDE DEF p
<1>7. Allocated(p) /\ Owned(p) /\ Cached(p) = Cached(l) /\ ~p.panicked /\ n \in 1 .. Len(p.key)
  BY <1>1, <1>2, <1>3, <1>5, <1>6 DEF Allocated, Owned, Cached
<1>8. Allocated(r) /\ Owned(r)
  BY <1>4, <1>7, MoveAllocated, RelinkedOwned
<1>9. ASSUME NEW w, NEW i \in 1 .. Len(w), Holds(l, w), Len(w) <= Cap, w[i].key = k
      PROVE  LET u == Append(RemoveAt(w, i), [key |-> k, value |-> v])
             IN  ~r.panicked /\ Holds(r, u) /\ Len(u) <= Cap
  <2> DEFINE Entry == [key : Keys, value : Values]
             e == [key |-> k, value |-> v]
             m == Len(w)
             x == [w EXCEPT ![i] = e]
  <2>1. /\ m \in Nat
        /\ \A j \in 1 .. m : /\ w[j] \in Entry /\ w[j].key \in Keys
                              /\ l.cache[w[j].key] \in 1 .. N
    BY <1>9, NodesAre
  <2>2. /\ w \in Seq(Entry) /\ \A a, b \in 1 .. m : w[a].key = w[b].key => a = b
        /\ Cached(l) = {w[a].key : a \in 1 .. m}
        /\ \A a \in 1 .. m : l.val[l.cache[w[a].key]] = w[a].value
        /\ Linked(l, NodesOf(l, w))
    BY <1>9 DEF Holds
  <2>3. e \in Entry /\ e.key = k /\ e.value = v
    OBVIOUS
  <2> HIDE DEF Entry, e
  <2>4. x \in Seq(Entry) /\ Len(x) = m /\ \A a \in 1 .. m : x[a] = IF a = i THEN e ELSE w[a]
    BY <2>2, <2>3, ExceptSeq
  <2> HIDE DEF x, m
  <2>5. \A a \in 1 .. m : x[a].key = w[a].key
    BY <1>9, <2>3, <2>4
  <2>6. NodesOf(p, x) = NodesOf(l, w)
    BY <1>5, <2>4, <2>5 DEF NodesOf, m
  <2>7. Linked(p, NodesOf(p, x))
    BY <1>5, <2>2, <2>6, LinkedSame
  <2>8. i \in 1 .. m /\ w[i].key = k
    BY <1>9 DEF m
  <2>9. ASSUME NEW a \in 1 .. m
        PROVE  p.val[p.cache[x[a].key]] = x[a].value
    <3>1. CASE a = i
      BY <1>2, <1>3, <1>5, <2>3, <2>4, <2>5, <2>8, <3>1
    <3>2. CASE a # i
      <4>1. x[a] = w[a] /\ w[a].key # k /\ w[a].key \in Cached(l) /\ k \in Cached(l)
        BY <2>2, <2>4, <2>8, <3>2
      <4>2. l.cache[w[a].key] # n
        BY <4>1 DEF Owned
      <4>3. l.cache[w[a].key] \in 1 .. N
        BY <2>1
      <4>4. val[l.cache[w[a].key]] = l.val[l.cache[w[a].key]]
        BY <1>3, <4>2, <4>3
      <4>5. l.val[l.cache[w[a].key]] = w[a].value
        BY <2>2
      <4> QED BY <1>5, <4>1, <4>4, <4>5
    <3> QED BY <3>1, <3>2
  <2>10. Cached(p) = {x[a].key : a \in 1 .. m}
    BY <1>7, <2>2, <2>5
  <2>11. \A a, b \in 1 .. m : x[a].key = x[b].key => a = b
    BY <2>2, <2>5
  <2>12. Holds(p, x)
    BY <2>4, <2>7, <2>9, <2>10, <2>11 DEF Holds, Entry
  <2>13. i \in 1 .. Len(x) /\ x[i] = e /\ p.cache[x[i].key] = n
    BY <1>5, <2>3, <2>4, <2>8
  <2>14. LET q == moveToHead(p, p.cache[x[i].key])
         IN  /\ ~q.panicked /\ Holds(q, Append(RemoveAt(x, i), x[i]))
             /\ Len(Append(RemoveAt(x, i), x[i])) = Len(x)
    BY <1>7, <2>12, <2>13, Moved
  <2>15. RemoveAt(x, i) = RemoveAt(w, i)
    <3> DEFINE a == RemoveAt(x, i)
               b == RemoveAt(w, i)
    <3>1. /\ a \in Seq(Entry) /\ Len(a) = m - 1
          /\ \A j \in 1 .. m - 1 : (j < i => a[j] = x[j]) /\ (i <= j => a[j] = x[j + 1])
      BY ZenonT(40), <2>4, <2>13, RemovedAt
    <3>2. /\ b \in Seq(Entry) /\ Len(b) = m - 1
          /\ \A j \in 1 .. m - 1 : (j < i => b[j] = w[j]) /\ (i <= j => b[j] = w[j + 1])
      BY ZenonT(40), <2>2, <2>8, RemovedAt DEF m
    <3> HIDE DEF a, b
    <3>3. ASSUME NEW j \in 1 .. m - 1 PROVE a[j] = b[j]
      <4>1. CASE j < i
        <5>1. j \in 1 .. m /\ j # i
          BY <2>1, <2>8, <4>1
        <5>2. x[j] = w[j]
          BY <2>4, <5>1
        <5> QED BY <3>1, <3>2, <4>1, <5>2
      <4>2. CASE i <= j
        <5>1. j + 1 \in 1 .. m /\ j + 1 # i
          BY <2>1, <2>8, <4>2
        <5>2. x[j + 1] = w[j + 1]
          BY <2>4, <5>1
        <5> QED BY <3>1, <3>2, <4>2, <5>2
      <4> QED BY <2>8, <4>1, <4>2
    <3>4. a = b
      BY <3>1, <3>2, <3>3, SeqEqual
    <3> QED BY <3>4 DEF a, b
  <2>16. Len(x) <= Cap
    BY <1>9, <2>4 DEF m
  <2> QED BY <1>4, <2>13, <2>14, <2>15, <2>16 DEF e
<1> QED BY <1>8, <1>9 DEF r

LEMMA PutKept == ASSUME Cap \in Nat, CacheInv, NEW k \in Keys, NEW v \in Values, Put(k, v) PROVE CacheInv'
<1> DEFINE e == [key |-> k, value |-> v]
           put == IF obj.cache[k] = Nil THEN PutNew(obj, k, v) ELSE PutOld(obj, k, v)
           r == [put EXCEPT !.length = Cardinality(Cached(put))]
<1>1. /\ Allocated(obj) /\ ~obj.panicked /\ Owned(obj)
      /\ trusted \in BOOLEAN /\ trusted' = (trusted /\ Cap > 0)
      /\ obj' = IF put.panicked THEN put ELSE r
      /\ want' = Newest(Append(Without(k), e))
  BY DEF CacheInv, Put, Live
<1>2. /\ Allocated(put) /\ Owned(put)
      /\ trusted /\ Cap > 0 => ~put.panicked /\ Holds(put, want') /\ Len(want') <= Cap
  <2>1. CASE obj.cache[k] = Nil
    <3>1. put = PutNew(obj, k, v)
      BY <2>1
    <3>2. Allocated(put) /\ Owned(put)
      BY <1>1, <2>1, <3>1, PutNewHolds
    <3>3. ASSUME trusted, Cap > 0
          PROVE  ~put.panicked /\ Holds(put, want') /\ Len(want') <= Cap
      <4>1. Holds(obj, want) /\ Len(want) <= Cap
        BY <3>3 DEF CacheInv
      <4>2. ~Knows(k)
        <5>1. k \notin Cached(obj) /\ DOMAIN want = 1 .. Len(want)
          BY <2>1, <4>1, LenProperties DEF Cached, Holds
        <5> QED BY <4>1, <5>1 DEF Holds, Knows
      <4>3. want' = Newest(Append(want, e))
        BY <1>1, <4>2 DEF Without
      <4> HIDE DEF put
      <4> QED BY <1>1, <2>1, <3>1, <3>3, <4>1, <4>3, PutNewHolds
    <3> QED BY <3>2, <3>3
  <2>2. CASE obj.cache[k] # Nil
    <3>1. put = PutOld(obj, k, v)
      BY <2>2
    <3>2. Allocated(put) /\ Owned(put)
      BY <1>1, <2>2, <3>1, PutOldHolds
    <3>3. ASSUME trusted, Cap > 0
          PROVE  ~put.panicked /\ Holds(put, want') /\ Len(want') <= Cap
      <4>1. Holds(obj, want) /\ Len(want) <= Cap
        BY <3>3 DEF CacheInv
      <4>2. k \in Cached(obj)
        BY <2>2 DEF Cached
      <4>3. PICK i \in 1 .. Len(want) : want[i].key = k
        BY <4>1, <4>2 DEF Holds
      <4>4. Knows(k) /\ Place(k) = i
        BY <4>1, <4>3, PlaceIs
      <4> DEFINE u == Append(RemoveAt(want, i), e)
      <4>5. want' = Newest(u)
        BY <1>1, <4>4 DEF Without
      <4> HIDE DEF put
      <4>6. ~put.panicked /\ Holds(put, u) /\ Len(u) <= Cap
        BY <1>1, <2>2, <3>1, <4>1, <4>3, PutOldHolds
      <4>7. Len(u) \in Nat
        BY <3>2, <4>6, NodesAre
      <4> HIDE DEF u
      <4>8. Newest(u) = u
        BY <4>6, <4>7 DEF Newest
      <4> QED BY <4>5, <4>6, <4>8
    <3> QED BY <3>2, <3>3
  <2> QED BY <2>1, <2>2
<1> HIDE DEF put
<1>3. /\ Allocated(r) /\ Owned(r) /\ r.length >= Cardinality(Cached(r)) /\ r.panicked = put.panicked
      /\ \A w : Holds(put, w) => Holds(r, w)
  BY <1>2, LengthSet
<1> HIDE DEF r
<1>4. CASE put.panicked
  BY <1>1, <1>2, <1>4 DEF CacheInv
<1>5. CASE ~put.panicked
  BY <1>1, <1>2, <1>3, <1>5 DEF CacheInv
<1> QED BY <1>4, <1>5

LEMMA CacheInitHolds == Cap \in Nat /\ CacheInit => CacheInv
<1> SUFFICES ASSUME Cap \in Nat, CacheInit PROVE CacheInv
  OBVIOUS
<1>1. /\ obj.cache = [k \in Keys |-> Nil] /\ obj.key = << >> /\ obj.val = << >> /\ obj.pre = << >>
      /\ obj.next = << >> /\ obj.head = Nil /\ obj.tail = Nil /\ obj.length = 0 /\ obj.panicked = FALSE
      /\ obj.type = "LRUCache" /\ want = << >> /\ trusted = TRUE
  BY DEF CacheInit
<1>2. Len(obj.key) = 0 /\ Len(want) = 0 /\ \A S : << >> \in Seq(S)
  BY <1>1, EmptySeq
<1>3. obj \in Caches(0)
  <2>1. [k \in Keys |-> Nil] \in [Keys -> 0 .. 0] /\ Nil \in 0 .. 0
    BY DEF Nil
  <2> QED BY <1>2, <2>1 DEF CacheInit, Caches
<1>4. Allocated(obj)
  BY <1>1, <1>2, <1>3 DEF Allocated
<1>5. Cached(obj) = {}
  BY <1>1 DEF Cached
<1>6. Owned(obj) /\ obj.length >= Cardinality(Cached(obj))
  BY <1>1, <1>5, FS_EmptySet DEF Owned
<1>7. NodesOf(obj, want) \in Seq(1 .. 0) /\ Len(NodesOf(obj, want)) = 0
  <2>1. NodesOf(obj, want) \in [1 .. 0 -> 1 .. 0]
    BY <1>2 DEF NodesOf
  <2> QED BY <2>1, FunctionSeq
<1>8. Linked(obj, NodesOf(obj, want))
  BY <1>1, <1>2, <1>7 DEF Linked
<1>9. Holds(obj, want)
  BY <1>1, <1>2, <1>5, <1>8 DEF Holds
<1> QED BY <1>1, <1>2, <1>4, <1>6, <1>9 DEF CacheInv

LEMMA CacheNextHolds == Cap \in Nat /\ CacheInv /\ [CacheNext]_vars => CacheInv'
<1> SUFFICES ASSUME Cap \in Nat, CacheInv, [CacheNext]_vars PROVE CacheInv'
  OBVIOUS
<1>1. CASE CacheNext
  BY <1>1, GetKept, DeleteKept, PutKept DEF CacheNext
<1>2. CASE UNCHANGED vars
  BY <1>2 DEF vars, CacheInv
<1> QED BY <1>1, <1>2

LEMMA CacheInvHoldsRecent == CacheInv => CacheHoldsRecent
<1> SUFFICES ASSUME CacheInv PROVE CacheHoldsRecent
  OBVIOUS
<1>1. OwnNodeOnly
  BY DEF CacheInv, OwnNodeOnly, Owned
<1>2. ASSUME trusted
      PROVE  HoldsMostRecent
  <2> DEFINE m == Len(want)
             ns == NodesOf(obj, want)
  <2>1. ~obj.panicked /\ Allocated(obj) /\ Holds(obj, want)
    BY <1>2 DEF CacheInv
  <2>2. /\ m \in Nat /\ Len(ns) = m /\ \A i \in 1 .. m : ns[i] = obj.cache[want[i].key]
        /\ DOMAIN want = 1 .. m
    <3>1. DOMAIN want = 1 .. m
      BY <2>1, LenProperties DEF Holds
    <3> QED BY <2>1, <3>1, NodesAre
  <2>3. /\ Cached(obj) = {want[i].key : i \in 1 .. m}
        /\ \A i \in 1 .. m : obj.val[obj.cache[want[i].key]] = want[i].value
    BY <2>1 DEF Holds
  <2>4. /\ Len(ns) # 0 => obj.head = ns[1] /\ obj.tail = ns[Len(ns)]
        /\ \A i \in 1 .. Len(ns) - 1 : obj.next[ns[i]] = ns[i + 1]
    BY <2>1 DEF Holds, Linked
  <2>5. want # << >> => m # 0
    BY <2>1, EmptySeq DEF Holds
  <2> HIDE DEF m, ns
  <2>6. want # << >> => obj.cache[want[1].key] = obj.head /\ obj.cache[want[m].key] = obj.tail
    <3>1. m # 0 => 1 \in 1 .. m /\ m \in 1 .. m
      BY <2>2
    <3> QED BY <2>2, <2>4, <2>5, <3>1
  <2>7. ASSUME NEW i \in 1 .. m, i < m
        PROVE  obj.next[obj.cache[want[i].key]] = obj.cache[want[i + 1].key]
    <3>1. i \in 1 .. m - 1 /\ i + 1 \in 1 .. m
      BY <2>2, <2>7
    <3> QED BY <2>2, <2>4, <3>1
  <2> QED BY <2>1, <2>2, <2>3, <2>6, <2>7 DEF HoldsMostRecent, m
<1>3. HoldsMostRecent
  BY <1>2 DEF HoldsMostRecent
<1> QED BY <1>1, <1>3 DEF CacheHoldsRecent

(* For any keys, values and capacity, any order of Get, Put and Delete,    *)
(* and any number of nodes: until the only entry has been deleted or       *)
(* evicted, the cache holds the most recently used keys with their last    *)
(* values, linked in order from the head to the tail, and nothing panics;  *)
(* also afterwards no key leads to another key's node, and the length      *)
(* never counts too few (lrucache.go:42-121).                              *)
THEOREM MostRecentKept == CacheSpec => []CacheHoldsRecent
<1>1. CacheInit => CacheInv
  BY CacheAssumption, CacheInitHolds
<1>2. CacheInv /\ [CacheNext]_vars => CacheInv'
  BY CacheAssumption, CacheNextHolds
<1>3. CacheInv => CacheHoldsRecent
  BY CacheInvHoldsRecent
<1> QED BY <1>1, <1>2, <1>3, PTL DEF CacheSpec
=============================================================================
