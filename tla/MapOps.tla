------------------------------- MODULE MapOps -------------------------------
(***************************************************************************)
(* util/maputil (map.go): a Go map is a function, whose iteration order is *)
(* any order of its domain; a predicate is a set of <<key, value>> pairs.  *)
(***************************************************************************)
EXTENDS Loops, FiniteSets

Only(m, keys) == [k \in keys |-> m[k]]
Pairs(m) == {<<k, m[k]>> : k \in DOMAIN m}
Orders(S) == {q \in [1 .. Cardinality(S) -> S] : \A i, j \in DOMAIN q : q[i] = q[j] => i = j}

(* The results over all orders of iteration. *)
KeysOf(m) == Orders(DOMAIN m)
EntriesOf(m) == Orders(Pairs(m))

Merge(maps) == Each(<<>>, maps, LAMBDA r, m : [k \in DOMAIN r \cup DOMAIN m |-> IF k \in DOMAIN m THEN m[k] ELSE r[k]])
Filter(m, predicate) == Only(m, {k \in DOMAIN m : <<k, m[k]>> \in predicate})
FilterByKeys(m, keys) == Only(m, {k \in DOMAIN m : \E i \in DOMAIN keys : keys[i] = k})
FilterByValues(m, values) == Only(m, {k \in DOMAIN m : \E i \in DOMAIN values : values[i] = m[k]})
OmitBy(m, predicate) == Only(m, {k \in DOMAIN m : <<k, m[k]>> \notin predicate})
OmitByKeys(m, keys) == Only(m, {k \in DOMAIN m : \A i \in DOMAIN keys : keys[i] # k})
OmitByValues(m, values) == Only(m, {k \in DOMAIN m : \A i \in DOMAIN values : values[i] # m[k]})

(* No map has nothing in common with the others; the first two are taken   *)
(* together, and the result with each of the rest.                         *)
reducer(m1, m2) == Only(m1, {k \in DOMAIN m1 \cap DOMAIN m2 : m1[k] = m2[k]})
Intersect(maps) == IF maps = <<>> THEN <<>> ELSE Each(maps[1], Tail(maps), reducer)
Minus(mapA, mapB) == Only(mapA, DOMAIN mapA \ DOMAIN mapB)
IsDisjoint(mapA, mapB) == \A k \in DOMAIN mapA : k \notin DOMAIN mapB

(* Of entries with one key the last stays. *)
FromEntries(entries) ==
  Each(<<>>, entries, LAMBDA r, e : [k \in DOMAIN r \cup {e[1]} |-> IF k = e[1] THEN e[2] ELSE r[k]])
MapValues(m, iteratee) == [k \in DOMAIN m |-> iteratee[m[k]]]

(* The maps they may make: of keys that become one, any value stays.       *)
Transform(m, iteratee) == {FromEntries([i \in DOMAIN order |-> iteratee[order[i]]]) : order \in EntriesOf(m)}
MapKeys(m, iteratee) == Transform(m, [p \in Pairs(m) |-> <<iteratee[p[1]], p[2]>>])

----------------------------------------------------------------------------
(* Map.go: Intersect and Merge agree on what maps share in whatever order  *)
(* they are given, and Minus takes away keys, also where the values differ *)
(* (IsDisjoint is about keys, Intersect about pairs); each Omit is what    *)
(* its Filter leaves; and a map is its entries in every order of           *)
(* iteration, but MapKeys depends on the order exactly when keys fall      *)
(* together that have different values.                                    *)
MapsAsSets(s, t, u) ==
  LET half(m) == [k \in DOMAIN m |-> k \div 2]
  IN  /\ Pairs(Intersect(<<s, t, u>>)) = Pairs(s) \cap Pairs(t) \cap Pairs(u)
      /\ Intersect(<<s, t, u>>) = Intersect(<<u, t, s>>) /\ Intersect(<<s>>) = s
      /\ Merge(<<s, t>>) = Merge(<<t, s>>) <=> Intersect(<<s, t>>) = Only(s, DOMAIN s \cap DOMAIN t)
      /\ Merge(<<s, t>>) = Merge(<<Minus(s, t), t>>)
      /\ IsDisjoint(s, t) <=> Minus(s, t) = s /\ Minus(t, s) = t
      /\ Merge(<<FilterByKeys(s, t), OmitByKeys(s, t)>>) = s /\ IsDisjoint(FilterByKeys(s, t), OmitByKeys(s, t))
      /\ Merge(<<FilterByValues(s, t), OmitByValues(s, t)>>) = s
      /\ OmitBy(s, Pairs(t)) = Minus(s, Filter(s, Pairs(t))) /\ Filter(s, Pairs(t)) = Intersect(<<s, t>>)
      /\ \A order \in EntriesOf(s) : FromEntries(order) = s
      /\ Cardinality(MapKeys(s, half(s))) = 1 <=>
           \A j, k \in DOMAIN s : j \div 2 = k \div 2 => s[j] = s[k]
      /\ \A order \in KeysOf(s) : FilterByKeys(s, order) = s
      /\ MapValues(s, [x \in 0 .. 2 |-> x]) = s
=============================================================================
