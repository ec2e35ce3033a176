------------------------------ MODULE Sorting ------------------------------
(***************************************************************************)
(* The sorts and searches of util/algorithm (sort.go, search.go) on        *)
(* sequences; Go's index i is i + 1 here. The comparator looks at the key  *)
(* of an element only, so that elements with equal keys can be told apart. *)
(***************************************************************************)
EXTENDS Loops, FiniteSets

Key(x) == x \div 10
Less(x, y) == Key(x) < Key(y)

swap(s, i, j) == [s EXCEPT ![i] = s[j], ![j] = s[i]]

BubbleSort(s) ==
  For(s, 1, Len(s), LAMBDA t, i :
    For(t, 1, Len(s) - i, LAMBDA u, j : IF Less(u[j + 1], u[j]) THEN swap(u, j, j + 1) ELSE u))

(* The element at i moves left by gap steps while it is less. *)
RECURSIVE SiftLeft(_, _, _)
SiftLeft(s, i, gap) ==
  IF i > gap /\ Less(s[i], s[i - gap]) THEN SiftLeft(swap(s, i, i - gap), i - gap, gap) ELSE s

InsertionSort(s) == For(s, 1, Len(s), LAMBDA t, i : SiftLeft(t, i, 1))

SelectionSort(s) ==
  For(s, 1, Len(s), LAMBDA t, i :
    swap(t, i, For(i, i + 1, Len(s), LAMBDA min, j : IF Less(t[j], t[min]) THEN j ELSE min)))

RECURSIVE ShellPasses(_, _)
ShellPasses(s, gap) ==
  IF gap < 1 THEN s
  ELSE ShellPasses(For(s, gap + 1, Len(s), LAMBDA t, i : SiftLeft(t, i, gap)), gap \div 3)
ShellSort(s) == ShellPasses(s, While(Len(s), 1, LAMBDA gap : gap < Len(s) \div 3, LAMBDA gap : 3 * gap + 1))

(* The slice with the pivot, its last element, in place, and its index. *)
partition(s, low, high) ==
  LET r == For([s |-> s, i |-> low], low, high - 1, LAMBDA t, j :
             IF Less(t.s[j], s[high]) THEN [s |-> swap(t.s, t.i, j), i |-> t.i + 1] ELSE t)
  IN  [s |-> swap(r.s, r.i, high), i |-> r.i]

RECURSIVE quickSort(_, _, _)
quickSort(s, low, high) ==
  IF low < high
  THEN LET p == partition(s, low, high) IN quickSort(quickSort(p.s, low, p.i - 1), p.i + 1, high)
  ELSE s
QuickSort(s) == quickSort(s, 1, Len(s))

(* temp, the element to place, goes down below greater children. *)
RECURSIVE Place(_, _, _, _)
Place(s, i, high, temp) ==
  LET j == IF 2 * i < high /\ Less(s[2 * i], s[2 * i + 1]) THEN 2 * i + 1 ELSE 2 * i
  IN  IF 2 * i <= high /\ Less(temp, s[j]) THEN Place([s EXCEPT ![i] = s[j]], j, high, temp)
      ELSE [s EXCEPT ![i] = temp]
sift(s, low, high) == Place(s, low, high, s[low])

(* Mutant: the greatest element, moved to the end, stays in the heap. *)
HeapSortLateShrink(s) ==
  ForDown(ForDown(s, Len(s) \div 2, 1, LAMBDA t, i : sift(t, i, Len(s))),
          Len(s), 2, LAMBDA t, j : sift(swap(t, 1, j), 1, j))

HeapSort(s) ==
  ForDown(ForDown(s, Len(s) \div 2, 1, LAMBDA t, i : sift(t, i, Len(s))),
          Len(s), 2, LAMBDA t, j : sift(swap(t, 1, j), 1, j - 1))

(* Of equal elements the right one goes first. *)
RECURSIVE MergeRuns(_, _)
MergeRuns(a, b) ==
  IF a = <<>> THEN b ELSE IF b = <<>> THEN a
  ELSE IF Less(a[1], b[1]) THEN <<a[1]>> \o MergeRuns(Tail(a), b) ELSE <<b[1]>> \o MergeRuns(a, Tail(b))
merge(s, low, mid, high) ==
  SubSeq(s, 1, low - 1) \o MergeRuns(SubSeq(s, low, mid), SubSeq(s, mid + 1, high)) \o SubSeq(s, high + 1, Len(s))

RECURSIVE mergeSort(_, _, _)
mergeSort(s, low, high) ==
  LET mid == (low + high - 2) \div 2 + 1
  IN  IF low < high THEN merge(mergeSort(mergeSort(s, low, mid), mid + 1, high), low, mid, high) ELSE s
MergeSort(s) == mergeSort(s, 1, Len(s))

(* Each element goes where the number of lesser ones says, equal ones to   *)
(* the same slot; a slot that nothing goes to keeps the zero value.        *)
CountSort(s) ==
  For([i \in 1 .. Len(s) |-> 0], 1, Len(s), LAMBDA out, i :
    [out EXCEPT ![Cardinality({j \in 1 .. Len(s) : Less(s[j], s[i])}) + 1] = s[i]])

LinearSearch(s, x) ==
  For(-1, 1, Len(s), LAMBDA found, i : IF found = -1 /\ Key(s[i]) = Key(x) THEN i - 1 ELSE found)

RECURSIVE BinarySearch(_, _, _, _)
BinarySearch(s, x, low, high) ==
  LET mid == low + (high - low) \div 2
  IN  IF high < low \/ s = <<>> THEN -1
      ELSE IF Less(x, s[mid + 1]) THEN BinarySearch(s, x, low, mid - 1)
      ELSE IF Less(s[mid + 1], x) THEN BinarySearch(s, x, mid + 1, high)
      ELSE mid

BinaryIterativeSearch(s, x, low, high) ==
  LET r == While(Len(s) + 1, [from |-> low, to |-> high, at |-> -1], LAMBDA w : w.at = -1 /\ w.from <= w.to, LAMBDA w :
             LET mid == w.from + (w.to - w.from) \div 2
             IN  IF Less(x, s[mid + 1]) THEN [w EXCEPT !.to = mid - 1]
                 ELSE IF Less(s[mid + 1], x) THEN [w EXCEPT !.from = mid + 1]
                 ELSE [w EXCEPT !.at = mid])
  IN  r.at

----------------------------------------------------------------------------
Elements(s) == {s[i] : i \in DOMAIN s}
OfKey(s, k) == SelectSeq(s, LAMBDA x : Key(x) = k)
Near(s) == {0} \cup Elements(s) \cup {x + 10 : x \in Elements(s)}

(* Sort.go: the seven sorts in place give a sorted permutation, also with  *)
(* equal keys, which BubbleSort and InsertionSort keep in their order.     *)
(* CountSort gives the same for different keys; of equal ones, which it    *)
(* loses although sort.go:176 has it sort any slice, nothing is claimed.   *)
SortsAll(s) ==
  LET sorted == BubbleSort(s)
  IN  /\ \A t \in {sorted, InsertionSort(s), SelectionSort(s), ShellSort(s), QuickSort(s), HeapSort(s), MergeSort(s)} :
           /\ \A i \in 2 .. Len(t) : ~Less(t[i], t[i - 1])
           /\ \A x \in Elements(s) \cup Elements(t) : Cardinality({i \in DOMAIN t : t[i] = x}) = Cardinality({i \in DOMAIN s : s[i] = x})
      /\ InsertionSort(s) = sorted /\ \A x \in Elements(s) : OfKey(sorted, Key(x)) = OfKey(s, Key(x))
      /\ (\A i, j \in DOMAIN s : Key(s[i]) = Key(s[j]) => i = j) => CountSort(s) = sorted

(* Search.go: the searches find a key exactly when it is there, the linear *)
(* one at its first place, the binary ones in the sorted slice at the same *)
(* place as each other, and in no part of it where it is not.              *)
SearchesFind(s, x) ==
  LET sorted == BubbleSort(s)
      at == LinearSearch(s, x)
  IN  /\ IF at = -1 THEN OfKey(s, Key(x)) = <<>> ELSE s[at + 1] = OfKey(s, Key(x))[1] /\ \A i \in 1 .. at : Key(s[i]) # Key(x)
      /\ \A low, high \in 0 .. Len(s) - 1 :
           LET found == BinarySearch(sorted, x, low, high)
           IN  /\ found = BinaryIterativeSearch(sorted, x, low, high)
               /\ IF found = -1 THEN \A i \in low .. high : Key(sorted[i + 1]) # Key(x)
                  ELSE found \in low .. high /\ Key(sorted[found + 1]) = Key(x)
=============================================================================
