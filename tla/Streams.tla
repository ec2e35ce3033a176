------------------------------ MODULE Streams ------------------------------
(***************************************************************************)
(* The streams (stream.go): a stream is the slice behind it, which no      *)
(* operation changes. A function is a function on the items, a predicate   *)
(* the set of the items it is true of, a comparator a set of pairs.        *)
(***************************************************************************)
EXTENDS Loops

S == INSTANCE SliceOps

(* Generate collects what the generator gives until it gives none; so does *)
(* FromChannel until the channel is closed.                                *)
Generate(given) == Each(<<>>, given, Append)
FromChannel(sent) == Each(<<>>, sent, Append)

(* Both ends included. *)
FromRange(start, end, step) == [i \in 1 .. (end - start) \div step + 1 |-> start + (i - 1) * step]
Concat(a, b) == a \o b

Distinct(s) == Each(<<>>, s, LAMBDA r, v : IF S!Contain(r, v) THEN r ELSE Append(r, v))
Filter(s, pred) == SelectSeq(s, LAMBDA v : v \in pred)
Map(s, f) == [i \in DOMAIN s |-> f[s[i]]]
Reverse(s) == [i \in DOMAIN s |-> s[Len(s) + 1 - i]]
Skip(s, n) == IF n <= 0 THEN s ELSE SubSeq(s, n + 1, Len(s))
Limit(s, maxSize) == IF maxSize < 0 THEN <<>> ELSE SubSeq(s, 1, IF maxSize < Len(s) THEN maxSize ELSE Len(s))

(* The bounds are moved into the slice before it is cut. *)
Range(s, start, end) ==
  LET from == IF start < 0 THEN 0 ELSE start
      to == IF end < 0 THEN 0 ELSE end
  IN  IF from >= to THEN <<>> ELSE SubSeq(s, from + 1, IF to > Len(s) THEN Len(s) ELSE to)
Sorted(s, less) == S!SortBy(s, less)

AnyMatch(s, pred) == \E i \in DOMAIN s : s[i] \in pred
AllMatch(s, pred) == \A i \in DOMAIN s : s[i] \in pred
NoneMatch(s, pred) == ~AnyMatch(s, pred)
Reduce(s, init, accumulator(_, _)) == Each(init, s, accumulator)
Count(s) == Len(s)
FindFirst(s) == IF s = <<>> THEN [ok |-> FALSE, item |-> 0] ELSE [ok |-> TRUE, item |-> s[1]]

(* Max is given "greater than" and Min "less than" as less. *)
Best(s, less) ==
  [ok |-> s # <<>>, item |-> For(0, 1, Len(s), LAMBDA best, i : IF i = 1 \/ <<s[i], best>> \in less THEN s[i] ELSE best)]
Max(s, less) == Best(s, less)
Min(s, less) == Best(s, less)

----------------------------------------------------------------------------
(* Stream.go: with bounds beyond the ends too, Skip and Limit make up the  *)
(* stream and cut what Range cuts; Range turned around is the Range from   *)
(* the other end.                                                          *)
CutsLikeRange(s, n, m) ==
  /\ Concat(Limit(s, n), Skip(s, n)) = s
  /\ Range(s, n, m) = Skip(Limit(s, m), n)
  /\ m <= Len(s) => Reverse(Range(s, n, m)) = Range(Reverse(s), Len(s) - m, IF n < 0 THEN Len(s) ELSE Len(s) - n)
  /\ n > 0 /\ m >= 0 => LET r == FromRange(0, m, n) IN \A x \in 0 .. m : S!Contain(r, x) <=> x % n = 0

(* Stream.go, slice.go: the streams' functions agree with those on slices, *)
(* and with one another; the extremes are the ends of the sorted stream.   *)
StreamsLikeSlices(s, pred) ==
  LET Elems == S!ItemsOf(s)
      less == {p \in Elems \X Elems : p[1] < p[2]}
      greater == {p \in Elems \X Elems : p[1] > p[2]}
      sorted == Sorted(s, less)
      mark == [x \in Elems |-> IF x \in pred THEN 1 ELSE 0]
  IN  /\ Distinct(s) = S!Unique(s) /\ Generate(s) = FromChannel(s) /\ Reverse(s) = S!Reverse(s)
      /\ Count(Filter(s, pred)) = Reduce(Map(s, mark), 0, LAMBDA n, x : n + x)
      /\ AllMatch(s, pred) <=> S!Every(s, pred)
      /\ NoneMatch(s, pred) <=> S!None(s, pred)
      /\ FindFirst(Filter(s, pred)).ok <=> S!Find(s, pred).ok
      /\ FindFirst(sorted) = Min(s, less) /\ FindFirst(Reverse(sorted)) = Max(s, greater)
=============================================================================
