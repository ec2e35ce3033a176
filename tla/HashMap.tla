------------------------------ MODULE HashMap ------------------------------
(***************************************************************************)
(* hashmap.HashMap (hashmap.go). A slot holds one key; want is the map it  *)
(* should be. Keys and values are numbers, a value never equals a key.     *)
(***************************************************************************)
EXTENDS Integers, Sequences, FiniteSets

CONSTANTS Keys, Values,
          Mixed,         \* Mixed[x]: the mixed hash of the key (or value) x
          Capacities,    \* the capacities a map is created with, powers of two or 0
          Default,       \* defaultMapCapacity
          MaxCapacity,   \* bound on the capacity
          MaxSize        \* bound on the size

VARIABLES obj, want,
          trusted        \* no collision and no deletion yet

vars == <<obj, want, trusted>>

None == [key |-> 0, value |-> 0]

Slots(n) == [i \in 1 .. n |-> None]

Init ==
  /\ \E c \in Capacities : obj = [type |-> "HashMap", capacity |-> c, size |-> 0, table |-> Slots(c), panicked |-> FALSE]
  /\ want = <<>> /\ trusted = TRUE

Live == obj.type = "HashMap" /\ ~obj.panicked

(* (capacity - 1) & mixed, for a power of two; of capacity 0 the mask is   *)
(* all ones.                                                               *)
Hash(m, x) == IF m.capacity = 0 THEN Mixed[x] ELSE Mixed[x] % m.capacity
InTable(m, h) == h < Len(m.table)
Node(m, k) == m.table[Hash(m, k) + 1]
Contains(m, k) == Node(m, k) # None
Entries(m) == {i \in DOMAIN m.table : m.table[i] # None}

(* Nodes go to the slots of their keys; of two in one slot the later wins. *)
resize(m) ==
  LET wider == [m EXCEPT !.capacity = 2 * @]
      To(h) == {i \in Entries(m) : Hash(wider, m.table[i].key) + 1 = h}
      Last(h) == CHOOSE i \in To(h) : \A j \in To(h) : j <= i
  IN  [wider EXCEPT !.table = [h \in 1 .. 2 * m.capacity |-> IF To(h) = {} THEN None ELSE m.table[Last(h)]]]

(* The map after a number of resizes. *)
Widened(m, n) == LET W[i \in 0 .. n] == IF i = 0 THEN m ELSE resize(W[i - 1]) IN W[n]

(* As long as the slot holds another key, the table is widened, and then   *)
(* the value is what is put, as a key too, into the slot of the capacity   *)
(* before; each call counts.                                               *)
putValue(m, hash, key, value) ==
  LET t == IF m.capacity = 0 THEN [m EXCEPT !.capacity = Default, !.table = Slots(Default)] ELSE m
      Key(n) == IF n = 0 THEN key ELSE value
      Ends(n) == \/ Widened(t, n).capacity > MaxCapacity
                 \/ Widened(t, n).table[hash + 1] = None
                 \/ Widened(t, n).table[hash + 1].key = Key(n)
      last == CHOOSE n \in 0 .. MaxCapacity : Ends(n) /\ \A k \in 0 .. n - 1 : ~Ends(k)
  IN  IF ~InTable(t, hash) THEN [t EXCEPT !.panicked = TRUE]
      ELSE [Widened(t, last) EXCEPT !.table[hash + 1] = [key |-> Key(last), value |-> value], !.size = @ + last + 1]

Put(k, v) ==
  LET put == putValue(obj, Hash(obj, k), k, v)
  IN  /\ Live /\ put.capacity <= MaxCapacity /\ put.size <= MaxSize
      /\ obj' = put
      /\ want' = [x \in DOMAIN want \cup {k} |-> IF x = k THEN v ELSE want[x]]
      /\ trusted' = (trusted /\ obj.capacity \in {0, put.capacity})

(* Get, Contains and Delete index the table with the hash. *)
Misses(k) ==
  /\ Live /\ ~InTable(obj, Hash(obj, k))
  /\ obj' = [obj EXCEPT !.panicked = TRUE]
  /\ UNCHANGED <<want, trusted>>

(* Mutant: the check whether the key is there dropped. *)
DeleteUnchecked(k) ==
  LET h == Hash(obj, k)
  IN  /\ Live /\ InTable(obj, h)
      /\ obj' = [obj EXCEPT !.table = SubSeq(@, 1, h) \o SubSeq(@, h + 2, Len(@)), !.size = @ - 1]
      /\ want' = [x \in DOMAIN want \ {k} |-> want[x]]
      /\ trusted' = FALSE

(* The slot is cut out of the table: the slots behind it move. *)
Delete(k) ==
  LET h == Hash(obj, k)
  IN  /\ Live /\ InTable(obj, h) /\ Contains(obj, k)
      /\ obj' = [obj EXCEPT !.table = SubSeq(@, 1, h) \o SubSeq(@, h + 2, Len(@)), !.size = @ - 1]
      /\ want' = [x \in DOMAIN want \ {k} |-> want[x]]
      /\ trusted' = FALSE

Next == \E k \in Keys : Misses(k) \/ Delete(k) \/ (\E v \in Values : Put(k, v))

Spec == Init /\ [][Next]_vars

(* What every step keeps: a table no longer than the capacity, cut shorter *)
(* only by deletions, whose entries the size counts.                       *)
Inv ==
  /\ obj \in [type : {"HashMap"}, capacity : Nat, size : Nat, panicked : BOOLEAN,
              table : Seq({None} \cup [key : Keys \cup Values, value : Values])]
  /\ Len(obj.table) <= obj.capacity /\ (trusted => Len(obj.table) = obj.capacity)
  /\ trusted \in BOOLEAN /\ DOMAIN want \subseteq Keys /\ \A k \in DOMAIN want : want[k] \in Values
  /\ obj.capacity = 0 => obj.size = 0 /\ DOMAIN want = {}
  /\ Cardinality(Entries(obj)) <= obj.size
  /\ trusted /\ ~obj.panicked => \A k \in DOMAIN want : Node(obj, k) = [key |-> k, value |-> want[k]]
  /\ obj.panicked => Len(obj.table) < obj.capacity \/ obj.size = 0

(* Hashmap.go: until a key meets another's slot or one is deleted, each    *)
(* key that was put has its last value; an index is out of range only      *)
(* after a deletion or in a map made with capacity 0; and the size, which  *)
(* a second Put of a key raises again, never counts fewer than the entries *)
(* that Keys and Values write into slices of that size.                    *)
LastValueFound ==
  obj.type = "HashMap" =>
    /\ trusted /\ ~obj.panicked => \A k \in DOMAIN want : Node(obj, k) = [key |-> k, value |-> want[k]]
    /\ obj.panicked => Len(obj.table) < obj.capacity \/ obj.size = 0
    /\ Cardinality(Entries(obj)) <= obj.size
=============================================================================
