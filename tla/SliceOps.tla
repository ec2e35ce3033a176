------------------------------ MODULE SliceOps ------------------------------
(***************************************************************************)
(* The functions of util/slice (slice.go) that keep no state, on           *)
(* sequences; Go's index i is i + 1 here. A predicate is the set of the    *)
(* elements it is true of, an iteratee a function on the elements, a       *)
(* comparator a set of pairs.                                              *)
(***************************************************************************)
EXTENDS Loops, FiniteSets

LOCAL SX == INSTANCE SequencesExt

Contain(s, x) == \E i \in DOMAIN s : s[i] = x
ContainBy(s, pred) == \E i \in DOMAIN s : s[i] \in pred
ContainSubSlice(s, sub) == \A i \in DOMAIN sub : Contain(s, sub[i])
Equal(s, t) == Len(s) = Len(t) /\ \A i \in DOMAIN s : s[i] = t[i]
EqualWith(s, t, same) == Len(s) = Len(t) /\ \A i \in DOMAIN s : <<s[i], t[i]>> \in same
Every(s, pred) == \A i \in DOMAIN s : s[i] \in pred
Some(s, pred) == \E i \in DOMAIN s : s[i] \in pred
CountBy(s, pred) == Cardinality({i \in DOMAIN s : s[i] \in pred})
Count(s, x) == CountBy(s, {x})

(* It counts the elements that mismatch. *)
None(s, pred) == Cardinality({i \in DOMAIN s : s[i] \notin pred}) = Len(s)

Filter(s, pred) == SelectSeq(s, LAMBDA x : x \in pred)
Compact(s) == SelectSeq(s, LAMBDA x : x # 0)
Difference(s, t) == SelectSeq(s, LAMBDA x : ~Contain(t, x))
Without(s, items) == IF items = <<>> \/ s = <<>> THEN s ELSE SelectSeq(s, LAMBDA x : ~Contain(items, x))
DifferenceWith(s, t, same) == SelectSeq(s, LAMBDA x : \A j \in DOMAIN t : <<x, t[j]>> \notin same)
GroupBy(s, pred) == <<Filter(s, pred), SelectSeq(s, LAMBDA x : x \notin pred)>>
GroupWith(s, f) == [k \in {f[s[i]] : i \in DOMAIN s} |-> SelectSeq(s, LAMBDA x : f[x] = k)]

Map(s, f) == [i \in DOMAIN s |-> f[s[i]]]
FilterMap(s, f, pred) == Map(Filter(s, pred), f)
FlatMap(s, f) == Each(<<>>, s, LAMBDA r, x : r \o f[x])
DifferenceBy(s, t, f) ==
  Each(<<>>, [i \in DOMAIN s |-> i], LAMBDA r, i : IF Contain(Map(t, f), f[s[i]]) THEN r ELSE Append(r, s[i]))
Reduce(s, f(_, _), initial) == Each(initial, s, f)
KeyBy(s, f) == Each(<<>>, s, LAMBDA m, x : [k \in DOMAIN m \cup {f[x]} |-> IF k = f[x] THEN x ELSE m[k]])

(* The item found, and whether one was. *)
Nobody == [ok |-> FALSE, at |-> -1]
Find(s, pred) ==
  Each(Nobody, [i \in DOMAIN s |-> i], LAMBDA r, i : IF ~r.ok /\ s[i] \in pred THEN [ok |-> TRUE, at |-> i - 1] ELSE r)
FindLast(s, pred) ==
  ForDown(Nobody, Len(s), 1, LAMBDA r, i : IF ~r.ok /\ s[i] \in pred THEN [ok |-> TRUE, at |-> i - 1] ELSE r)

(* Index 0 is not looked at. *)
LastIndexOf(s, x) == ForDown(-1, Len(s), 2, LAMBDA r, i : IF r = -1 /\ s[i] = x THEN i - 1 ELSE r)

Merge(slices) == Each(<<>>, slices, LAMBDA r, s : r \o s)
Concat(s, slices) == s \o Merge(slices)

(* Slices of depth d are sequences of slices of depth d - 1. *)
RECURSIVE flattenRecursive(_, _)
flattenRecursive(s, depth) ==
  IF depth = 0 THEN s ELSE Each(<<>>, s, LAMBDA r, item : r \o flattenRecursive(item, depth - 1))

Chunk(s, size) ==
  IF size <= 0 THEN <<>>
  ELSE Each(<<>>, s, LAMBDA r, x : IF r = <<>> \/ Len(r[Len(r)]) = size THEN Append(r, <<x>>)
                                   ELSE [r EXCEPT ![Len(r)] = Append(@, x)])

(* At most n replacements; any number for a negative n. *)
Replace(s, old, new, n) ==
  For([t |-> s, n |-> n], 1, Len(s), LAMBDA r, i :
    IF r.t[i] = old /\ r.n # 0 THEN [t |-> [r.t EXCEPT ![i] = new], n |-> r.n - 1] ELSE r).t
ReplaceAll(s, old, new) == Replace(s, old, new, -1)
Repeat(x, n) == [i \in 1 .. n |-> x]

----------------------------------------------------------------------------
DeleteAt(s, start) == IF start < 0 \/ start >= Len(s) THEN s ELSE SX!RemoveAt(s, start + 1)
DeleteRange(s, start, end) ==
  IF start < 0 \/ start >= Len(s) \/ end <= start THEN s
  ELSE SubSeq(s, 1, start) \o SubSeq(s, end + 1, Len(s))
InsertAt(s, index, xs) ==
  IF index < 0 \/ index > Len(s) THEN s ELSE SubSeq(s, 1, index) \o xs \o SubSeq(s, index + 1, Len(s))
UpdateAt(s, index, x) == IF index < 0 \/ index >= Len(s) THEN s ELSE [s EXCEPT ![index + 1] = x]
AppendIfAbsent(s, x) == IF Contain(s, x) THEN s ELSE Append(s, x)

Drop(s, n) == IF Len(s) <= n THEN <<>> ELSE IF n <= 0 THEN s ELSE SubSeq(s, n + 1, Len(s))
DropRight(s, n) == IF Len(s) <= n THEN <<>> ELSE IF n <= 0 THEN s ELSE SubSeq(s, 1, Len(s) - n)
RECURSIVE DropWhile(_, _), DropRightWhile(_, _)
DropWhile(s, pred) == IF s # <<>> /\ s[1] \in pred THEN DropWhile(Tail(s), pred) ELSE s
DropRightWhile(s, pred) == IF s # <<>> /\ s[Len(s)] \in pred THEN DropRightWhile(SX!Front(s), pred) ELSE s

Unique(s) == Each(<<>>, s, AppendIfAbsent)
UniqueBy(s, f) == Unique(Map(s, f))
UnionBy(f, slices) ==
  Each(<<>>, Merge(slices), LAMBDA r, x : IF Contain(Map(r, f), f[x]) THEN r ELSE Append(r, x))
Union(slices) == Unique(Merge(slices))

(* Mutant: the elements of t that s has, as often as t has them. *)
reducerRepeats(s, t) == SelectSeq(t, LAMBDA x : Contain(s, x))

(* The elements of t that s has, each once: taken is counted up. *)
reducer(s, t) ==
  Each([out |-> <<>>, taken |-> {}], t, LAMBDA r, x :
    IF Contain(s, x) /\ x \notin r.taken THEN [out |-> Append(r.out, x), taken |-> r.taken \cup {x}] ELSE r).out

Intersection(slices) ==
  CASE Len(slices) = 0 -> <<>>
    [] Len(slices) = 1 -> Unique(slices[1])
    [] OTHER -> Each(slices[1], Tail(slices), reducer)

SymmetricDifference(slices) ==
  CASE Len(slices) = 0 -> <<>>
    [] Len(slices) = 1 -> Unique(slices[1])
    [] OTHER -> Unique(SelectSeq(Merge(slices), LAMBDA x : ~Contain(Intersection(slices), x)))

----------------------------------------------------------------------------
swap(s, i, j) == [s EXCEPT ![i] = s[j], ![j] = s[i]]
RECURSIVE ReverseFrom(_, _, _)
ReverseFrom(s, i, j) == IF i < j THEN ReverseFrom(swap(s, i, j), i + 1, j - 1) ELSE s
Reverse(s) == ReverseFrom(s, 1, Len(s))

IsAscending(s) == \A i \in 2 .. Len(s) : ~(s[i - 1] > s[i])
IsDescending(s) == \A i \in 2 .. Len(s) : ~(s[i - 1] < s[i])
IsSorted(s) == IsAscending(s) \/ IsDescending(s)
IsSortedByKey(s, f) == IsSorted(Map(s, f))

(* The pivot, the last element, to its place between the lesser and the    *)
(* others, and that place.                                                 *)
partition(s, low, high, less(_, _)) ==
  LET r == For([s |-> s, i |-> low], low, high - 1, LAMBDA t, j :
             IF less(t.s[j], s[high]) THEN [s |-> swap(t.s, t.i, j), i |-> t.i + 1] ELSE t)
  IN  [s |-> swap(r.s, r.i, high), i |-> r.i]

RECURSIVE quickSort(_, _, _, _)
quickSort(s, low, high, desc) ==
  LET p == partition(s, low, high, LAMBDA a, b : IF desc THEN a > b ELSE a < b)
  IN  IF low < high THEN quickSort(quickSort(p.s, low, p.i - 1, desc), p.i + 1, high, desc) ELSE s
RECURSIVE quickSortBy(_, _, _, _)
quickSortBy(s, low, high, less) ==
  LET p == partition(s, low, high, LAMBDA a, b : <<a, b>> \in less)
  IN  IF low < high THEN quickSortBy(quickSortBy(p.s, low, p.i - 1, less), p.i + 1, high, less) ELSE s

Sort(s, order) == quickSort(s, 1, Len(s), order = "desc")
SortBy(s, less) == quickSortBy(s, 1, Len(s), less)

(* Shuffled, then the first count: any of the orders. *)
Shuffles(s) == {Map(p, s) : p \in {q \in [DOMAIN s -> DOMAIN s] : \A i, j \in DOMAIN s : q[i] = q[j] => i = j}}
GetUnrepeatedCntInSlice(s, count) == {DropRight(t, Len(t) - count) : t \in Shuffles(s)}

----------------------------------------------------------------------------
ItemsOf(s) == {s[i] : i \in DOMAIN s}
SameItems(s, t) == Len(s) = Len(t) /\ \A x \in ItemsOf(s) : Count(s, x) = Count(t, x)
NoDuplicates(s) == Cardinality(ItemsOf(s)) = Len(s)

(* Slice.go: what belongs to a predicate and what does not make up the     *)
(* slice, and the functions that search, count, drop, group and filter by  *)
(* it agree on where the border is.                                        *)
DividesBy(s, pred) ==
  LET rest == ItemsOf(s) \ pred
      groups == GroupBy(s, pred)
  IN  /\ SameItems(s, Concat(groups[1], <<groups[2]>>))
      /\ Every(groups[1], pred) /\ None(groups[2], pred) /\ CountBy(s, pred) = Len(groups[1])
      /\ Some(s, pred) <=> ~Every(s, rest)
      /\ Find(s, pred).ok <=> ContainBy(s, pred)
      /\ Find(s, pred).ok => Find(s, pred).at = Len(s) - 1 - FindLast(Reverse(s), pred).at
      /\ DropWhile(s, pred) = IF Every(s, pred) THEN <<>> ELSE Drop(s, Find(s, rest).at)
      /\ DropRightWhile(s, pred) = DropRight(s, Len(s) - 1 - FindLast(s, rest).at)
      /\ FlatMap(s, [x \in ItemsOf(s) |-> IF x \in pred THEN <<x>> ELSE <<>>]) = groups[1]

(* Slice.go: the groups by a key hold the slice; KeyBy keeps the last of   *)
(* each, UnionBy the first; and the sorts order by the key and lose        *)
(* nothing.                                                                *)
OrdersBy(s, f) ==
  LET groups == GroupWith(s, f)
      sorted == SortBy(s, {p \in ItemsOf(s) \X ItemsOf(s) : f[p[1]] < f[p[2]]})
  IN  /\ Reduce(s, LAMBDA n, x : n + x, 0) = Reduce(Reverse(sorted), LAMBDA n, x : n + x, 0)
      /\ \A k \in DOMAIN groups : KeyBy(s, f)[k] = groups[k][Len(groups[k])] /\ KeyBy(Reverse(s), f)[k] = groups[k][1]
      /\ ItemsOf(UnionBy(f, <<s>>)) = {groups[k][1] : k \in DOMAIN groups}
      /\ ItemsOf(UniqueBy(s, f)) = DOMAIN groups /\ NoDuplicates(UniqueBy(s, f))
      /\ FilterMap(s, f, ItemsOf(s)) = Map(s, f)
      /\ IsSortedByKey(sorted, f) /\ SameItems(s, sorted)
      /\ IsAscending(Sort(s, "asc")) /\ SameItems(s, Sort(s, "asc"))
      /\ Sort(s, "desc") = Reverse(Sort(s, "asc")) /\ (IsSorted(s) <=> s \in {Sort(s, "asc"), Sort(s, "desc")})

(* Slice.go: at every index, the ones outside included, taking away undoes *)
(* putting in, the parts make up the slice, and a replaced element can be  *)
(* put back; LastIndexOf finds what FindLast finds, unless that is the     *)
(* first element: it misses that one, although slice.go:1083 promises it.  *)
CutsAndMends(s, n, t) ==
  /\ DeleteRange(InsertAt(s, n, t), n, n + Len(t)) = s
  /\ n # Len(s) => InsertAt(DeleteAt(s, n), n, SubSeq(s, n + 1, n + 1)) = s
  /\ n # Len(s) => UpdateAt(s, n, 0) = IF n + 1 \in DOMAIN s THEN InsertAt(DeleteAt(s, n), n, <<0>>) ELSE s
  /\ n >= 0 => DropRight(s, Len(s) - n) \o Drop(s, n) = s
  /\ n > 0 => /\ Merge(Chunk(s, n)) = s /\ flattenRecursive(<<Chunk(s, n), Chunk(t, n)>>, 2) = s \o t
              /\ \A i \in DOMAIN Chunk(s, n) : Len(Chunk(s, n)[i]) = n \/ (i = Len(Chunk(s, n)) /\ Len(Chunk(s, n)[i]) \in 1 .. n)
  /\ \A x \in ItemsOf(s) :
       LET r == Replace(s, x, -1, n)
       IN  /\ ReplaceAll(r, -1, x) = s
           /\ Count(r, -1) = IF n \in 0 .. Count(s, x) THEN n ELSE Count(s, x)
           /\ FindLast(s, {x}).at # 0 => LastIndexOf(s, x) = FindLast(s, {x}).at
  /\ n >= 0 => \A r \in GetUnrepeatedCntInSlice(s, n) :
                 Len(r) = (IF n < Len(s) THEN n ELSE Len(s)) /\ \A x \in ItemsOf(r) : Count(r, x) <= Count(s, x)
  /\ n >= 0 => ReplaceAll(Repeat(0, n), 0, 1) = Repeat(1, n)

(* Slice.go: the functions on several slices are the operations on sets,   *)
(* without duplicates; SymmetricDifference keeps what not all have.        *)
SetsOf(s, t, u) ==
  LET f == [x \in ItemsOf(s) \cup ItemsOf(t) |-> x % 2]
      id == [x \in ItemsOf(s) \cup ItemsOf(t) |-> x]
      pairs == ItemsOf(s) \X ItemsOf(t)
  IN  /\ ItemsOf(Union(<<s, t, u>>)) = ItemsOf(s) \cup ItemsOf(t) \cup ItemsOf(u) /\ NoDuplicates(Union(<<s, t, u>>))
      /\ ItemsOf(Intersection(<<s, t, u>>)) = ItemsOf(s) \cap ItemsOf(t) \cap ItemsOf(u)
      /\ NoDuplicates(Intersection(<<s, t, u>>))
      /\ ItemsOf(SymmetricDifference(<<s, t, u>>)) = ItemsOf(s \o t \o u) \ ItemsOf(Intersection(<<s, t, u>>))
      /\ SymmetricDifference(<<s, t>>) = Union(<<Difference(s, t), Difference(t, s)>>)
      /\ Intersection(<<s>>) = Unique(s) /\ SymmetricDifference(<<s>>) = Unique(s)
      /\ DifferenceBy(s, t, id) = Difference(s, t) /\ Without(s, t) = Difference(s, t)
      /\ DifferenceWith(s, t, {p \in pairs : f[p[1]] = f[p[2]]}) = DifferenceBy(s, t, f)
      /\ ContainSubSlice(s, t) <=> Difference(t, s) = <<>>
      /\ Compact(s) = Difference(s, <<0>>)
      /\ EqualWith(s, t, {p \in pairs : f[p[1]] = f[p[2]]}) <=> Equal(Map(s, f), Map(t, f))
=============================================================================
