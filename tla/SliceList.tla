------------------------------ MODULE SliceList ------------------------------
(***************************************************************************)
(* list.List (list.go): a Go slice, kept as its backing array arr, of      *)
(* which the first len slots are the list. Deletions and insertions move   *)
(* values within the array; want is the list it should be. The operations  *)
(* on two lists are compared with those of set.Set.                        *)
(***************************************************************************)
EXTENDS Loops, FiniteSets

CONSTANTS Values,
          Others,   \* the second lists given to the operations on two
          Bound     \* bound on the length

VARIABLES obj, want, trusted

vars == <<obj, want, trusted>>

SX == INSTANCE SequencesExt

(***************************************************************************)
(* set.Set (set.go): a Go map whose keys are the elements, here the        *)
(* function from them to "in". The derived sets are built by iterating in  *)
(* any order and adding, so that the order cannot be told from the result. *)
(***************************************************************************)
NewSet == [x \in {} |-> "in"]

SetContain(s, x) == x \in DOMAIN s
SetSize(s) == Cardinality(DOMAIN s)

SetAdd(s, items) == [x \in DOMAIN s \cup {items[i] : i \in DOMAIN items} |-> "in"]
SetDelete(s, items) == [x \in DOMAIN s \ {items[i] : i \in DOMAIN items} |-> "in"]
NewSetFromSlice(items) == SetAdd(NewSet, items)
AddIfNotExistBy(s, x, Checks(_)) == IF ~SetContain(s, x) /\ Checks(x) THEN SetAdd(s, <<x>>) ELSE s
AddIfNotExist(s, x) == IF ~SetContain(s, x) THEN SetAdd(s, <<x>>) ELSE s

SetContainAll(s, other) == \A x \in DOMAIN other : SetContain(s, x)
SetEqual(s, other) == SetSize(s) = SetSize(other) /\ SetContainAll(s, other) /\ SetContainAll(other, s)

(* The elements in some order, as Iterate hands them out. *)
SetValues(s) == SX!SetToSeq(DOMAIN s)

SetKept(s, keep) == SetAdd(NewSet, Kept(SetValues(s), keep))
SetClone(s) == SetAdd(NewSet, SetValues(s))
SetUnion(s, other) == SetAdd(SetClone(s), SetValues(other))
SetIntersection(s, other) == SetKept(s, DOMAIN other)
SetMinus(s, other) == SetKept(s, DOMAIN s \ DOMAIN other)
SetSymmetricDifference(s, other) == SetAdd(SetMinus(s, other), Kept(SetValues(other), DOMAIN other \ DOMAIN s))

----------------------------------------------------------------------------
(* List *)

Init ==
  /\ \E o \in Others : obj = [type |-> "List", arr |-> o, len |-> Len(o)] /\ want = o
  /\ trusted = TRUE

Live == obj.type = "List"

Data(l) == SubSeq(l.arr, 1, l.len)

(* append(data[:at], xs...): in the array if it is long enough, else in a  *)
(* new one of twice the length or as long as needed.                       *)
AppendAt(l, at, xs) ==
  LET n == at + Len(xs)
      size == IF n > 2 * Len(l.arr) THEN n ELSE 2 * Len(l.arr)
  IN  IF n <= Len(l.arr)
      THEN [l EXCEPT !.len = n, !.arr = [i \in DOMAIN @ |-> IF i \in at + 1 .. n THEN xs[i - at] ELSE @[i]]]
      ELSE [l EXCEPT !.len = n, !.arr = [i \in 1 .. size |-> IF i <= at THEN @[i] ELSE IF i <= n THEN xs[i - at] ELSE 0]]

From(l, i) == SubSeq(l.arr, i + 1, l.len)

Contain(s, v) == \E i \in DOMAIN s : s[i] = v
Elements(s) == {s[i] : i \in DOMAIN s}
IndexOf(s, v) == IF Contain(s, v) THEN CHOOSE i \in 0 .. Len(s) - 1 : s[i + 1] = v /\ \A j \in 1 .. i : s[j] # v ELSE -1
LastIndexOf(s, v) ==
  IF Contain(s, v) THEN CHOOSE i \in 0 .. Len(s) - 1 : s[i + 1] = v /\ \A j \in i + 2 .. Len(s) : s[j] # v ELSE -1

InsertAt(l, i, v) == IF i < 0 \/ i > l.len THEN l ELSE AppendAt(l, i, <<v>> \o From(l, i))
UpdateAt(l, i, v) == IF i < 0 \/ i >= l.len THEN l ELSE AppendAt(l, i, <<v>> \o From(l, i + 1))
DeleteAt(l, i) ==
  IF i < 0 \/ i > l.len - 1 THEN l
  ELSE IF i = l.len - 1 THEN [l EXCEPT !.len = i]
  ELSE AppendAt(l, i, From(l, i + 1))
PopFirst(l) == IF l.len = 0 THEN l ELSE DeleteAt(l, 0)
PopLast(l) == IF l.len = 0 THEN l ELSE DeleteAt(l, l.len - 1)

(* The index stays after a deletion, but not after that of the value that  *)
(* was last at the start.                                                  *)
Forward(t) == [t EXCEPT !.i = @ + 1]

(* Mutant: the index moves on after a deletion. *)
DeleteSkipping(t, size, f) ==
  CASE t.l.arr[t.i + 1] \notin f -> Forward(t)
    [] OTHER -> Forward([t EXCEPT !.l = IF t.i = size - 1 THEN [@ EXCEPT !.len = t.i] ELSE AppendAt(@, t.i, From(@, t.i + 1))])

DeleteRound(t, size, f) ==
  CASE t.l.arr[t.i + 1] \notin f -> Forward(t)
    [] t.l.arr[t.i + 1] \in f /\ t.i = size - 1 -> Forward([t EXCEPT !.l.len = t.i])
    [] OTHER -> [t EXCEPT !.l = AppendAt(@, t.i, From(@, t.i + 1))]
DeleteIf(l, f) ==
  While(l.len, [l |-> l, i |-> 0], LAMBDA t : t.i < t.l.len, LAMBDA t : DeleteRound(t, l.len, f)).l

(* Kept values are written over the ones before them. *)
batchRemove(l, other, complement) ==
  LET kept == For([arr |-> l.arr, w |-> 0], 1, l.len, LAMBDA t, i :
                IF Contain(other, t.arr[i]) = complement
                THEN [arr |-> [t.arr EXCEPT ![t.w + 1] = t.arr[i]], w |-> t.w + 1] ELSE t)
  IN  [l EXCEPT !.arr = kept.arr, !.len = kept.w]
RetainAll(l, other) == batchRemove(l, other, TRUE)
DeleteAll(l, other) == batchRemove(l, other, FALSE)

Swap(l, i, j) ==
  IF {i, j} \subseteq 0 .. l.len - 1
  THEN [l EXCEPT !.arr = [@ EXCEPT ![i + 1] = l.arr[j + 1], ![j + 1] = l.arr[i + 1]]] ELSE l
Reverse(l) ==
  While(l.len, [l |-> l, i |-> 0, j |-> l.len - 1], LAMBDA t : t.i < t.j,
        LAMBDA t : [l |-> Swap(t.l, t.i, t.j), i |-> t.i + 1, j |-> t.j - 1]).l

Distinct(s) == Each(<<>>, s, LAMBDA d, x : IF Contain(d, x) THEN d ELSE Append(d, x))
Unique(l) == [l EXCEPT !.arr = Distinct(Data(l)), !.len = Len(Distinct(Data(l)))]

(* append(l.data, other.data...) may write behind the list before it is    *)
(* copied.                                                                 *)
Merge(l, other) == IF l.len + Len(other) <= Len(l.arr) THEN [AppendAt(l, l.len, other) EXCEPT !.len = l.len] ELSE l
Merged(l, other) == Data(AppendAt(l, l.len, other))
Union(s, other) == Distinct(s \o other)
Intersection(s, other) == Kept(s, Elements(other))
Difference(s, other) == Kept(s, Elements(s) \ Elements(Intersection(s, other)))

(* Mutant: the values only in other forgotten. *)
SymmetricDifferenceOneSided(s, other) == Difference(s, other)

SymmetricDifference(s, other) ==
  Difference(s, other) \o Kept(other, Elements(other) \ Elements(Intersection(s, other)))
Equal(s, other) == Len(s) = Len(other) /\ \A i \in DOMAIN s : s[i] = other[i]

Change(l, s) == Live /\ l.len <= Bound /\ obj' = l /\ want' = s /\ UNCHANGED trusted

Indexes == -1 .. Bound + 1
Cut(s, i, xs, j) == SubSeq(s, 1, i) \o xs \o SubSeq(s, j + 1, Len(s))

Push == \E v \in Values : Change(AppendAt(obj, obj.len, <<v>>), Append(want, v))
Insert == \E v \in Values, i \in Indexes :
            Change(InsertAt(obj, i, v), IF i \in 0 .. Len(want) THEN Cut(want, i, <<v>>, i) ELSE want)
Update == \E v \in Values, i \in Indexes :
            Change(UpdateAt(obj, i, v), IF i + 1 \in DOMAIN want THEN [want EXCEPT ![i + 1] = v] ELSE want)
Remove == \E i \in Indexes : Change(DeleteAt(obj, i), IF i + 1 \in DOMAIN want THEN Cut(want, i, <<>>, i + 1) ELSE want)
Pop == \/ Change(PopFirst(obj), IF want = <<>> THEN want ELSE Tail(want))
       \/ Change(PopLast(obj), Cut(want, Len(want) - 1, <<>>, Len(want)))
RemoveIf == \E f \in SUBSET Values : Change(DeleteIf(obj, f), Kept(want, Values \ f))
Retain == \E o \in Others : \/ Change(RetainAll(obj, o), Kept(want, Elements(o)))
                            \/ Change(DeleteAll(obj, o), Kept(want, Values \ Elements(o)))
Exchange == \E i, j \in Indexes :
              Change(Swap(obj, i, j), IF {i, j} \subseteq 0 .. Len(want) - 1
                                      THEN [want EXCEPT ![i + 1] = want[j + 1], ![j + 1] = want[i + 1]] ELSE want)
Turn == Change(Reverse(obj), [i \in DOMAIN want |-> want[Len(want) + 1 - i]])

(* The k-th of the indexes at which a value comes first. *)
Firsts(s) == {i \in DOMAIN s : \A j \in 1 .. i - 1 : s[j] # s[i]}
First(s, k) == CHOOSE i \in Firsts(s) : Cardinality({j \in Firsts(s) : j <= i}) = k
Dedupe == Change(Unique(obj), [k \in 1 .. Cardinality(Firsts(want)) |-> want[First(want, k)]])
MergeInto == \E o \in Others : Change(Merge(obj, o), want)
Clear == Change([obj EXCEPT !.arr = <<>>, !.len = 0], <<>>)

Next == Push \/ Insert \/ Update \/ Remove \/ Pop \/ RemoveIf \/ Retain \/ Exchange \/ Turn \/ Dedupe \/ MergeInto \/ Clear

Spec == Init /\ [][Next]_vars

(* What every step keeps. *)
Inv ==
  /\ obj \in [type : {"List"}, arr : Seq(Values \cup {0}), len : Nat]
  /\ obj.len <= Len(obj.arr)
  /\ want \in Seq(Values) /\ Data(obj) = want

(* List.go: however values are moved within the array, and whatever lies   *)
(* behind the list in it, the list is the one asked for: no deletion skips *)
(* the value after the deleted one, and Merge leaves the list as it is;    *)
(* the last index of a value is the first in the list turned around.       *)
EditsInPlace ==
  obj.type = "List" =>
    /\ Data(obj) = want
    /\ \A v \in Values : Contain(want, v) => LastIndexOf(want, v) = Len(want) - 1 - IndexOf(Data(Reverse(obj)), v)

(* List.go, set.go: the operations on two lists leave the elements that    *)
(* the operations on the two sets leave, the lists in the order of the     *)
(* first operand; deleting and adding one by one come to the same.         *)
AgreesWithSets ==
  obj.type = "List" =>
    \A o \in Others :
      LET s == NewSetFromSlice(want)
          t == NewSetFromSlice(o)
          SetOf(l) == NewSetFromSlice(l)
      IN  /\ SetEqual(SetOf(Union(want, o)), SetUnion(s, t))
          /\ SetEqual(SetOf(Intersection(want, o)), SetIntersection(s, t))
          /\ SetEqual(SetOf(Difference(want, o)), SetMinus(s, t))
          /\ SetEqual(SetOf(SymmetricDifference(want, o)), SetSymmetricDifference(s, t))
          /\ SetEqual(SetMinus(SetUnion(s, t), SetIntersection(s, t)), SetSymmetricDifference(s, t))
          /\ SetEqual(SetDelete(s, o), SetMinus(s, t))
          /\ \A v \in Values :
               /\ SetEqual(AddIfNotExist(s, v), SetUnion(s, SetOf(<<v>>)))
               /\ SetEqual(AddIfNotExistBy(s, v, LAMBDA x : SetContain(t, x)), SetUnion(s, SetIntersection(SetOf(<<v>>), t)))
          /\ SetEqual(s, t) <=> SetContainAll(s, t) /\ SetSize(s) = SetSize(t)
          /\ \A v \in Values : SetContain(s, v) <=> IndexOf(want, v) \in 0 .. LastIndexOf(want, v)
          /\ Equal(want, o) => Merged(obj, o) = Merged([obj EXCEPT !.arr = o, !.len = Len(o)], want)
=============================================================================
