------------------------------ MODULE LRUCache ------------------------------
(***************************************************************************)
(* algorithm.LRUCache (lrucache.go): a map from keys to nodes, and the     *)
(* nodes in a doubly linked list from the least to the most recently used. *)
(* want is the cache it should be: the entries in that order; trusted that *)
(* the only entry has never been deleted or evicted.                       *)
(***************************************************************************)
EXTENDS Container, Loops, SequencesExt

CONSTANTS Keys,
          Cap,           \* the capacity
          CacheNodes     \* bound on the nodes allocated

ASSUME CacheAssumption == Cap \in Nat

CacheInit ==
  /\ obj = [type |-> "LRUCache", cache |-> [k \in Keys |-> Nil], key |-> <<>>, val |-> <<>>,
            pre |-> <<>>, next |-> <<>>, head |-> Nil, tail |-> Nil, length |-> 0, panicked |-> FALSE]
  /\ want = <<>> /\ trusted = TRUE

Live == obj.type = "LRUCache" /\ ~obj.panicked

Cached(l) == {k \in Keys : l.cache[k] # Nil}

addNode(l, n) ==
  LET linked == IF l.tail = Nil THEN l
                ELSE [l EXCEPT !.next = [@ EXCEPT ![l.tail] = n, ![n] = Nil], !.pre[n] = l.tail]
  IN  [linked EXCEPT !.tail = n, !.head = IF @ = Nil THEN n ELSE @]

(* The tail is asked for first: of a single node the head stays; and no    *)
(* pointer of a neighbour is cleared at either end.                        *)
deleteNode(l, n) ==
  IF n = Nil THEN [l EXCEPT !.panicked = TRUE]
  ELSE IF n = l.tail THEN [l EXCEPT !.tail = l.pre[n]]
  ELSE IF n = l.head THEN [l EXCEPT !.head = l.next[n]]
  ELSE IF l.pre[n] = Nil THEN [l EXCEPT !.panicked = TRUE]
  ELSE LET past == [l EXCEPT !.next[l.pre[n]] = l.next[n]]
       IN  IF past.next[n] = Nil THEN [past EXCEPT !.panicked = TRUE]
           ELSE [past EXCEPT !.pre[past.next[n]] = l.pre[n]]

moveToHead(l, n) ==
  IF l.tail = n THEN l
  ELSE LET cut == deleteNode(l, n) IN IF cut.panicked THEN cut ELSE addNode(cut, n)

Uncache(l, n) == IF l.panicked THEN l ELSE [l EXCEPT !.cache[l.key[n]] = Nil]

(* The node of a key that was not cached: *)
newLruNode(l, k, v) ==
  [l EXCEPT !.key = Append(@, k), !.val = Append(@, v), !.pre = Append(@, Nil), !.next = Append(@, Nil),
            !.cache[k] = Len(l.key) + 1]

(* appended, and over the capacity the head goes, under whatever key it    *)
(* has.                                                                    *)
PutNew(l, k, v) ==
  LET added == addNode(newLruNode(l, k, v), Len(l.key) + 1)
  IN  IF Cardinality(Cached(added)) > Cap THEN Uncache(deleteNode(added, added.head), added.head) ELSE added

(* Mutant: the node of a known key stays where it is. *)
PutOldStays(l, k, v) == [l EXCEPT !.val[l.cache[k]] = v]

PutOld(l, k, v) == moveToHead([l EXCEPT !.val[l.cache[k]] = v], l.cache[k])

(* What want has of a key, and what is left without it. *)
Knows(k) == \E i \in DOMAIN want : want[i].key = k
Place(k) == CHOOSE i \in DOMAIN want : want[i].key = k
Without(k) == IF Knows(k) THEN RemoveAt(want, Place(k)) ELSE want
Newest(s) == IF Len(s) > Cap THEN SubSeq(s, Len(s) + 1 - Cap, Len(s)) ELSE s

Put(k, v) ==
  LET put == IF obj.cache[k] = Nil THEN PutNew(obj, k, v) ELSE PutOld(obj, k, v)
  IN  /\ Live /\ Len(put.key) <= CacheNodes
      /\ obj' = IF put.panicked THEN put ELSE [put EXCEPT !.length = Cardinality(Cached(put))]
      /\ want' = Newest(Append(Without(k), [key |-> k, value |-> v]))
      /\ trusted' = (trusted /\ Cap > 0)

Get(k) ==
  /\ Live /\ obj.cache[k] # Nil
  /\ obj' = moveToHead(obj, obj.cache[k])
  /\ want' = IF Knows(k) THEN Append(Without(k), want[Place(k)]) ELSE want
  /\ UNCHANGED trusted

(* The length stays as it was. *)
Delete(k) ==
  /\ Live /\ obj.cache[k] # Nil
  /\ obj' = Uncache(deleteNode(obj, obj.cache[k]), obj.cache[k])
  /\ want' = Without(k)
  /\ trusted' = (trusted /\ Cardinality(Cached(obj)) > 1)

CacheNext == \E k \in Keys : Get(k) \/ Delete(k) \/ (\E v \in Values : Put(k, v))

CacheSpec == CacheInit /\ [][CacheNext]_vars

(* Lrucache.go: until the only entry is deleted, or evicted as a capacity  *)
(* of 0 does, through every order of Get, Put and Delete, the cache holds  *)
(* the Cap most recently used keys with their last values, in order from   *)
(* the head, and nothing panics.                                           *)
HoldsMostRecent ==
  obj.type = "LRUCache" /\ trusted =>
    /\ ~obj.panicked
    /\ Cached(obj) = {want[i].key : i \in DOMAIN want}
    /\ want # <<>> => obj.cache[want[1].key] = obj.head /\ obj.cache[want[Len(want)].key] = obj.tail
    /\ \A i \in DOMAIN want : /\ obj.val[obj.cache[want[i].key]] = want[i].value
                              /\ i < Len(want) => obj.next[obj.cache[want[i].key]] = obj.cache[want[i + 1].key]

(* Also afterwards: a key leads to a node of its own, never to another     *)
(* key's, and Len, which Delete does not lower, never counts too few.      *)
OwnNodeOnly ==
  obj.type = "LRUCache" /\ ~obj.panicked =>
    /\ \A k \in Cached(obj) : obj.key[obj.cache[k]] = k
    /\ obj.length >= Cardinality(Cached(obj))

(* LRUCache holds the most recently used keys, and never another key's     *)
(* value.                                                                  *)
CacheHoldsRecent == HoldsMostRecent /\ OwnNodeOnly

(***************************************************************************)
(* The inductive invariant. Every pointer is nil or a node, always; and    *)
(* while trusted, the nodes of want's keys, in its order, are linked both  *)
(* ways from head to tail, of which nothing is said where pre leads from   *)
(* the head and next from the tail: they may be stale.                     *)
(***************************************************************************)
Caches(n) ==
  [type : {"LRUCache"}, cache : [Keys -> 0 .. n], key : Seq(Keys), val : Seq(Values), pre : Seq(0 .. n),
   next : Seq(0 .. n), head : 0 .. n, tail : 0 .. n, length : Nat, panicked : BOOLEAN]

Allocated(l) ==
  LET n == Len(l.key) IN l \in Caches(n) /\ Len(l.val) = n /\ Len(l.pre) = n /\ Len(l.next) = n

Owned(l) == \A k \in Cached(l) : l.key[l.cache[k]] = k

Linked(l, ns) ==
  /\ ns \in Seq(1 .. Len(l.key))
  /\ \A i, j \in 1 .. Len(ns) : ns[i] = ns[j] => i = j
  /\ Len(ns) = 0 => l.head = Nil /\ l.tail = Nil
  /\ Len(ns) # 0 => l.head = ns[1] /\ l.tail = ns[Len(ns)]
  /\ \A i \in 1 .. Len(ns) - 1 : l.next[ns[i]] = ns[i + 1] /\ l.pre[ns[i + 1]] = ns[i]

NodesOf(l, w) == [i \in 1 .. Len(w) |-> l.cache[w[i].key]]

Holds(l, w) ==
  /\ w \in Seq([key : Keys, value : Values])
  /\ \A i, j \in 1 .. Len(w) : w[i].key = w[j].key => i = j
  /\ Cached(l) = {w[i].key : i \in 1 .. Len(w)}
  /\ \A i \in 1 .. Len(w) : l.val[l.cache[w[i].key]] = w[i].value
  /\ Linked(l, NodesOf(l, w))

CacheInv ==
  /\ trusted \in BOOLEAN
  /\ Allocated(obj)
  /\ ~obj.panicked => Owned(obj) /\ obj.length >= Cardinality(Cached(obj))
  /\ trusted => ~obj.panicked /\ Holds(obj, want) /\ Len(want) <= Cap
=============================================================================
