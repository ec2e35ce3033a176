------------------------------ MODULE IndexMemo ------------------------------
(***************************************************************************)
(* slice.IndexOf (slice.go:1043) under the calls of a program that changes *)
(* its slices: the indexes of a slice are remembered under its address and *)
(* the next calls are answered from what is remembered. want keeps what    *)
(* each address held when its memory was made.                             *)
(***************************************************************************)
EXTENDS Integers, Sequences, FiniteSets

CONSTANTS Addresses,
          Contents,    \* what the slices may hold
          Items,       \* the items asked for
          limit,       \* 10 in the code
          MaxCalls     \* bound on the calls

VARIABLES obj, want

vars == <<obj, want>>

Nowhere == [a \in {} |-> 0]

Init ==
  /\ \E arrays \in [Addresses -> Contents] :
       obj = [type |-> "IndexMemo", arrays |-> arrays, memoryHashMap |-> Nowhere, memoryHashCounter |-> Nowhere,
              calls |-> 0, missed |-> 0, last |-> [asked |-> FALSE]]
  /\ want = Nowhere

Live == obj.type = "IndexMemo"

With(m, k, x) == [a \in DOMAIN m \cup {k} |-> IF a = k THEN x ELSE m[a]]
Less1(m, k) == [a \in DOMAIN m \ {k} |-> m[a]]

(* Mutant: of equal elements the last is remembered. *)
IndexesUp(arr) ==
  [v \in {arr[i] : i \in DOMAIN arr} |-> CHOOSE i \in 0 .. Len(arr) - 1 : arr[i + 1] = v /\ \A j \in i + 2 .. Len(arr) : arr[j] # v]

(* From the last element to the first, so that the first of equals stays. *)
Indexes(arr) ==
  [v \in {arr[i] : i \in DOMAIN arr} |-> CHOOSE i \in 0 .. Len(arr) - 1 : arr[i + 1] = v /\ \A j \in 1 .. i : arr[j] # v]

(* One of the entries with the lowest counter but key's, in whatever order *)
(* the map is read, is forgotten; only by a call that found its item.      *)
Forgotten(memo, counter, key) ==
  {k \in DOMAIN memo \ {key} : \A j \in DOMAIN memo \ {key} : counter[k] <= counter[j]}

IndexOf(key, val) ==
  LET memo == IF key \in DOMAIN obj.memoryHashMap THEN obj.memoryHashMap
              ELSE With(obj.memoryHashMap, key, Indexes(obj.arrays[key]))
      made == IF key \in DOMAIN obj.memoryHashMap THEN want ELSE With(want, key, obj.arrays[key])
      counter == With(obj.memoryHashCounter, key,
                      IF key \in DOMAIN obj.memoryHashCounter THEN obj.memoryHashCounter[key] + 1 ELSE 1)
      found == val \in DOMAIN memo[key]
      full == Cardinality(DOMAIN memo) > limit
      Called(m, c) ==
        obj' = [obj EXCEPT !.memoryHashMap = m, !.memoryHashCounter = c, !.calls = @ + 1,
                           !.missed = IF found THEN @ ELSE @ + 1,
                           !.last = [asked |-> TRUE, key |-> key, val |-> val, index |-> IF found THEN memo[key][val] ELSE -1]]
  IN  /\ Live /\ obj.calls < MaxCalls
      /\ IF found /\ full
         THEN \E k \in Forgotten(memo, counter, key) : Called(Less1(memo, k), Less1(counter, k)) /\ want' = Less1(made, k)
         ELSE Called(memo, counter) /\ want' = made

(* The program assigns to an element, or another slice comes to lie at the *)
(* address.                                                                *)
Change(key) ==
  \E arr \in Contents :
    /\ Live /\ arr # obj.arrays[key]
    /\ obj' = [obj EXCEPT !.arrays[key] = arr, !.last = [asked |-> FALSE]]
    /\ UNCHANGED want

Next == \E key \in Addresses : Change(key) \/ \E val \in Items : IndexOf(key, val)

Spec == Init /\ [][Next]_vars

(* The first index of val in arr, or -1.                                   *)
IsFirst(index, arr, val) ==
  IF index = -1 THEN \A i \in DOMAIN arr : arr[i] # val
  ELSE arr[index + 1] = val /\ \A j \in 1 .. index : arr[j] # val

(* Slice.go:1043-1081: an answer is the first index of the item in the     *)
(* slice if the slice is as it was when its memory was made, also when it  *)
(* was another in between and whatever other slices were asked about; a    *)
(* call never forgets the slice it was asked about, the counters are those *)
(* of the remembered slices, and only calls that find nothing let the      *)
(* memory grow past its limit. Of a slice that has changed nothing is      *)
(* claimed here.                                                           *)
AnswersFromMemory ==
  obj.type = "IndexMemo" =>
    /\ DOMAIN obj.memoryHashCounter = DOMAIN obj.memoryHashMap
    /\ Cardinality(DOMAIN obj.memoryHashMap) <= limit + obj.missed
    /\ obj.last.asked =>
         LET arr == obj.arrays[obj.last.key]
         IN  /\ obj.last.key \in DOMAIN obj.memoryHashMap
             /\ arr = want[obj.last.key] => IsFirst(obj.last.index, arr, obj.last.val)

(* Slice.go:1041: "IndexOf returns the index at which the first occurrence *)
(* of an item is found in a slice", whatever was asked before.             *)
FindsFirst ==
  obj.type = "IndexMemo" /\ obj.last.asked => IsFirst(obj.last.index, obj.arrays[obj.last.key], obj.last.val)
=============================================================================
