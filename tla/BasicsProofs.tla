---------------------------- MODULE BasicsProofs ----------------------------
(***************************************************************************)
(* Theorems about the memory of slice.IndexOf, the combinators and the     *)
(* configurations of the log, for any slices, any limit, any numbers and   *)
(* durations and any lists of levels.                                      *)
(***************************************************************************)
EXTENDS Basics, TLAPS, FiniteSetTheorems, WellFoundedInduction

-----------------------------------------------------------------------------
(* The memory of IndexOf *)

(* Every non-empty set of naturals has a least element. *)
LEMMA LeastOf ==
    ASSUME NEW S \in SUBSET Nat, S # {}
    PROVE  \E x \in S : \A y \in S : x <= y
<1>1. PICK x \in S : \A y \in S : ~(<<y, x>> \in OpToRel(<, Nat))
  BY WFMin, NatLessThanWellFounded
<1>2. ASSUME NEW y \in S PROVE x <= y
  <2>1. ~(y < x) BY <1>1 DEF OpToRel
  <2> QED BY <2>1
<1> QED BY <1>2

(* The index remembered for a value is that of its first occurrence. *)
LEMMA IndexesFirst ==
    ASSUME NEW arr \in Seq(Items), NEW v
    PROVE  /\ v \in DOMAIN IM!Indexes(arr) <=> \E i \in 1 .. Len(arr) : arr[i] = v
           /\ v \in DOMAIN IM!Indexes(arr) =>
                /\ IM!Indexes(arr)[v] \in 0 .. Len(arr) - 1
                /\ arr[IM!Indexes(arr)[v] + 1] = v
                /\ \A j \in 1 .. IM!Indexes(arr)[v] : arr[j] # v
<1> DEFINE n == Len(arr)
           First(i) == arr[i + 1] = v /\ \A j \in 1 .. i : arr[j] # v
<1>1. n \in Nat /\ DOMAIN arr = 1 .. n
  OBVIOUS
<1>2. v \in DOMAIN IM!Indexes(arr) <=> \E i \in 1 .. n : arr[i] = v
  BY <1>1 DEF IM!Indexes
<1>3. ASSUME NEW i \in 1 .. n, arr[i] = v
      PROVE  \E k \in 0 .. n - 1 : First(k)
  <2> DEFINE S == {k \in 1 .. n : arr[k] = v}
  <2>1. S \in SUBSET Nat /\ S # {}
    BY <1>1, <1>3
  <2>2. PICK k \in S : \A y \in S : k <= y
    BY <2>1, LeastOf
  <2>3. k - 1 \in 0 .. n - 1 /\ (k - 1) + 1 = k
    BY <1>1, <2>2
  <2>4. ASSUME NEW j \in 1 .. k - 1 PROVE arr[j] # v
    <3>1. j \in 1 .. n /\ ~(k <= j)
      BY <1>1, <2>2
    <3> QED BY <2>2, <3>1
  <2> QED BY <2>2, <2>3, <2>4
<1>4. v \in DOMAIN IM!Indexes(arr) => IM!Indexes(arr)[v] = CHOOSE i \in 0 .. n - 1 : First(i)
  BY <1>1 DEF IM!Indexes
<1> HIDE DEF n
<1>5. ASSUME v \in DOMAIN IM!Indexes(arr)
      PROVE  IM!Indexes(arr)[v] \in 0 .. n - 1 /\ First(IM!Indexes(arr)[v])
  <2>1. \E k \in 0 .. n - 1 : First(k)
    BY <1>2, <1>3, <1>5
  <2> HIDE DEF First
  <2> QED BY <1>4, <1>5, <2>1
<1> QED BY <1>2, <1>5 DEF n

(* The cardinality the module of IndexOf speaks of is that of its users. *)
LEMMA OneCardinality == \A S : IM!Cardinality(S) = Cardinality(S)
  BY Zenon DEF IM!Cardinality, Cardinality

LEMMA MemoStep == BasicsInv /\ IM!Next => MemoInv' /\ obj'.type = "IndexMemo"
<1> SUFFICES ASSUME BasicsInv, IM!Next PROVE MemoInv' /\ obj'.type = "IndexMemo"
  BY SMTT(40)
<1> DEFINE map == obj.memoryHashMap
           known == DOMAIN map
<1>1. /\ obj \in Memos(obj.memoryHashMap, obj.memoryHashCounter, obj.last)
      /\ known \subseteq Addresses /\ IsFiniteSet(known)
      /\ Cardinality(known) <= limit + obj.missed
      /\ DOMAIN obj.memoryHashCounter = known
      /\ want \in [known -> Contents]
      /\ map = [k \in known |-> IM!Indexes(want[k])]
  BY DEF BasicsInv, MemoInv, Is, IM!Next, IM!Change, IM!IndexOf, IM!Live
<1> HIDE DEF map, known
<1>2. ASSUME NEW key \in Addresses, IM!Change(key) PROVE MemoInv' /\ obj'.type = "IndexMemo"
  <2>1. PICK arr \in Contents :
           /\ obj' = [obj EXCEPT !.arrays[key] = arr, !.last = [asked |-> FALSE]]
           /\ want' = want
    BY <1>2 DEF IM!Change
  <2> DEFINE l == [asked |-> FALSE]
             a == [obj.arrays EXCEPT ![key] = arr]
  <2>2. a \in [Addresses -> Contents] /\ l.asked = FALSE
    BY <1>1 DEF Memos
  <2>3. obj' = [obj EXCEPT !.arrays = a, !.last = l]
    BY <2>1
  <2> HIDE DEF l, a
  <2>4. /\ obj' \in Memos(obj.memoryHashMap, obj.memoryHashCounter, l)
        /\ obj'.missed = obj.missed
    BY <1>1, <2>2, <2>3 DEF Memos
  <2>5. /\ obj'.memoryHashMap = map /\ obj'.memoryHashCounter = obj.memoryHashCounter /\ obj'.last = l
    BY <2>4 DEF map, Memos
  <2>6. MemoInv'
    BY <1>1, <2>1, <2>2, <2>4, <2>5 DEF MemoInv, map, known
  <2> QED BY <2>4, <2>6 DEF Memos
<1>3. ASSUME NEW key \in Addresses, NEW val \in Items, IM!IndexOf(key, val) PROVE MemoInv' /\ obj'.type = "IndexMemo"
  <2> DEFINE memo == IF key \in known THEN map ELSE IM!With(map, key, IM!Indexes(obj.arrays[key]))
             made == IF key \in known THEN want ELSE IM!With(want, key, obj.arrays[key])
             counter == IM!With(obj.memoryHashCounter, key,
                                IF key \in DOMAIN obj.memoryHashCounter
                                THEN obj.memoryHashCounter[key] + 1 ELSE 1)
             found == val \in DOMAIN memo[key]
             full == Cardinality(DOMAIN memo) > limit
             l == [asked |-> TRUE, key |-> key, val |-> val,
                   index |-> IF found THEN memo[key][val] ELSE -1]
             Called(m, c) ==
               obj' = [obj EXCEPT !.memoryHashMap = m, !.memoryHashCounter = c, !.calls = @ + 1,
                                  !.missed = IF found THEN @ ELSE @ + 1, !.last = l]
             all == known \cup {key}
  <2>1. IF found /\ full
        THEN \E k \in IM!Forgotten(memo, counter, key) :
               Called(IM!Less1(memo, k), IM!Less1(counter, k)) /\ want' = IM!Less1(made, k)
        ELSE Called(memo, counter) /\ want' = made
    BY <1>3, OneCardinality DEF IM!IndexOf, map, known
  <2>2. /\ made \in [all -> Contents]
        /\ memo = [k \in all |-> IM!Indexes(made[k])]
        /\ DOMAIN counter = all
    <3>1. CASE key \in known
      <4>1. all = known /\ memo = map /\ made = want
        BY <3>1
      <4>2. DOMAIN counter = all
        BY <1>1, <4>1 DEF IM!With
      <4> QED BY <1>1, <4>1, <4>2
    <3>2. CASE key \notin known
      <4>1. memo = [k \in all |-> IF k = key THEN IM!Indexes(obj.arrays[key]) ELSE map[k]]
        BY <1>1, <3>2 DEF IM!With, known
      <4>2. made = [k \in all |-> IF k = key THEN obj.arrays[key] ELSE want[k]]
        BY <1>1, <3>2 DEF IM!With
      <4>3. DOMAIN counter = all
        BY <1>1 DEF IM!With
      <4>4. obj.arrays[key] \in Contents
        BY <1>1 DEF Memos
      <4>5. made \in [all -> Contents]
        BY <1>1, <4>2, <4>4
      <4>6. \A k \in all : memo[k] = IM!Indexes(made[k])
        BY <1>1, <3>2, <4>1, <4>2
      <4> QED BY <4>1, <4>3, <4>5, <4>6
    <3> QED BY <3>1, <3>2
  <2>3. /\ IsFiniteSet(all) /\ all \subseteq Addresses /\ key \in all
        /\ Cardinality(all) \in Nat /\ Cardinality(known) \in Nat
        /\ Cardinality(all) <= Cardinality(known) + 1
    <3>1. IsFiniteSet(all) /\ all \subseteq Addresses /\ key \in all
      BY <1>1, FS_AddElement
    <3>2. Cardinality(all) = Cardinality(known) \/ Cardinality(all) = Cardinality(known) + 1
      BY <1>1, FS_AddElement
    <3>3. Cardinality(all) \in Nat /\ Cardinality(known) \in Nat
      BY <1>1, <3>1, FS_CardinalityType
    <3> QED BY <3>1, <3>2, <3>3
  <2>4. l.asked = TRUE /\ l.key = key /\ l.val = val
        /\ l.index = IF val \in DOMAIN memo[key] THEN memo[key][val] ELSE -1
    OBVIOUS
  <2> HIDE DEF memo, made, counter, l, all
  <2>5. limit \in Nat /\ obj.missed \in Nat /\ obj.calls + 1 \in Nat
    BY <1>1, BasicsAssumption DEF Memos
  <2>6. CASE ~(found /\ full)
    <3> DEFINE missed == IF found THEN obj.missed ELSE obj.missed + 1
    <3>1. obj' = [obj EXCEPT !.memoryHashMap = memo, !.memoryHashCounter = counter, !.calls = @ + 1,
                             !.missed = missed, !.last = l]
          /\ want' = made
      BY <2>1, <2>6
    <3>2. missed \in Nat /\ Cardinality(all) <= limit + missed
      <4>1. CASE ~found
        BY <1>1, <2>3, <2>5, <4>1
      <4>2. CASE found
        <5>1. ~full /\ DOMAIN memo = all
          BY <2>2, <2>6, <4>2
        <5> QED BY <2>3, <2>5, <4>2, <5>1
      <4> QED BY <4>1, <4>2
    <3> HIDE DEF missed
    <3>3. obj' \in [type : {"IndexMemo"}, arrays : [Addresses -> Contents], calls : Nat, missed : {missed},
                    memoryHashMap : {memo}, memoryHashCounter : {counter}, last : {l}]
      BY <1>1, <2>5, <3>1 DEF Memos
    <3>4. obj'.missed = missed /\ obj'.memoryHashMap = memo /\ obj'.memoryHashCounter = counter /\ obj'.last = l
      BY <3>3
    <3>5. obj' \in Memos(obj'.memoryHashMap, obj'.memoryHashCounter, obj'.last)
      BY <3>2, <3>3, <3>4 DEF Memos
    <3>6. DOMAIN memo = all
      BY <2>2
    <3>7. obj'.type = "IndexMemo"
      BY <3>5 DEF Memos
    <3>8. MemoInv'
      BY <2>2, <2>3, <2>4, <3>1, <3>2, <3>4, <3>5, <3>6 DEF MemoInv
    <3> QED BY <3>7, <3>8
  <2>7. CASE found /\ full
    <3>1. PICK k \in IM!Forgotten(memo, counter, key) :
            Called(IM!Less1(memo, k), IM!Less1(counter, k)) /\ want' = IM!Less1(made, k)
      BY <2>1, <2>7
    <3> DEFINE rest == all \ {k}
               m == IM!Less1(memo, k)
               c == IM!Less1(counter, k)
    <3>2. k \in all /\ k # key /\ DOMAIN memo = all
      BY <2>2, <3>1 DEF IM!Forgotten
    <3>3. /\ m = [a \in rest |-> memo[a]] /\ DOMAIN c = rest
          /\ want' = [a \in rest |-> made[a]]
      BY <2>2, <3>1, <3>2 DEF IM!Less1
    <3>4. /\ IsFiniteSet(rest) /\ rest \subseteq Addresses /\ key \in rest
          /\ Cardinality(rest) = Cardinality(all) - 1
      BY <2>3, <3>2, FS_RemoveElement
    <3>5. Cardinality(rest) <= limit + obj.missed
      BY <1>1, <2>3, <2>5, <3>4
    <3>6. want' \in [rest -> Contents] /\ m = [a \in rest |-> IM!Indexes(want'[a])]
      BY <2>2, <3>3
    <3>7. obj' = [obj EXCEPT !.memoryHashMap = m, !.memoryHashCounter = c, !.calls = @ + 1, !.missed = @, !.last = l]
      BY <2>7, <3>1
    <3>8. m[key] = memo[key]
      BY <3>3, <3>4
    <3> HIDE DEF m, c, rest
    <3>9. obj' \in [type : {"IndexMemo"}, arrays : [Addresses -> Contents], calls : Nat, missed : {obj.missed},
                    memoryHashMap : {m}, memoryHashCounter : {c}, last : {l}]
      BY <1>1, <2>5, <3>7 DEF Memos
    <3>10. obj'.missed = obj.missed /\ obj'.memoryHashMap = m /\ obj'.memoryHashCounter = c /\ obj'.last = l
      BY <3>9
    <3>11. obj' \in Memos(obj'.memoryHashMap, obj'.memoryHashCounter, obj'.last)
      BY <2>5, <3>9, <3>10 DEF Memos
    <3>12. DOMAIN m = rest
      BY <3>6
    <3>13. obj'.type = "IndexMemo"
      BY <3>11 DEF Memos
    <3>14. MemoInv'
      BY <2>4, <3>3, <3>4, <3>5, <3>6, <3>8, <3>10, <3>11, <3>12 DEF MemoInv
    <3> QED BY <3>13, <3>14
  <2> QED BY <2>6, <2>7
<1> QED BY <1>2, <1>3 DEF IM!Next

LEMMA MemoAnswers == MemoInv => MemoryAnswers
<1> SUFFICES ASSUME MemoInv, Is("IndexMemo") PROVE IM!AnswersFromMemory
  BY DEF MemoryAnswers, IM!AnswersFromMemory, Is
<1> DEFINE known == DOMAIN obj.memoryHashMap
           arr == want[obj.last.key]
<1>1. DOMAIN obj.memoryHashCounter = known /\ Cardinality(known) <= limit + obj.missed
  BY DEF MemoInv
<1>2. ASSUME obj.last.asked
      PROVE  obj.last.key \in known /\ IM!IsFirst(obj.last.index, arr, obj.last.val)
  <2> DEFINE v == obj.last.val
  <2>1. /\ obj.last.key \in known /\ arr \in Contents
        /\ obj.last.index = IF v \in DOMAIN IM!Indexes(arr) THEN IM!Indexes(arr)[v] ELSE -1
    BY <1>2 DEF MemoInv
  <2>2. arr \in Seq(Items)
    BY <2>1, BasicsAssumption
  <2> HIDE DEF arr, v
  <2>3. DOMAIN arr = 1 .. Len(arr) /\ Len(arr) \in Nat
    BY <2>2
  <2>4. CASE v \in DOMAIN IM!Indexes(arr)
    <3>1. /\ obj.last.index \in 0 .. Len(arr) - 1 /\ arr[obj.last.index + 1] = v
          /\ \A j \in 1 .. obj.last.index : arr[j] # v
      BY <2>1, <2>2, <2>4, IndexesFirst
    <3>2. obj.last.index # -1
      BY <2>3, <3>1
    <3> QED BY <2>1, <3>1, <3>2 DEF v, IM!IsFirst
  <2>5. CASE v \notin DOMAIN IM!Indexes(arr)
    <3>1. obj.last.index = -1
      BY <2>1, <2>5
    <3>2. \A i \in 1 .. Len(arr) : arr[i] # v
      BY <2>2, <2>5, IndexesFirst
    <3> QED BY <2>1, <2>3, <3>1, <3>2 DEF v, IM!IsFirst
  <2> QED BY <2>4, <2>5
<1> QED BY <1>1, <1>2, OneCardinality DEF IM!AnswersFromMemory

-----------------------------------------------------------------------------
(* The combinators *)

(* Each object has its own part of the invariant, and the others nothing   *)
(* to say about it.                                                        *)
LEMMA OnlyMemo ==
    ASSUME obj'.type = "IndexMemo", now' \in Nat, now' > 0, MemoInv'
    PROVE  BasicsInv'
<1>1. /\ RetryInv' /\ CountersInv' /\ DebouncedInv' /\ ScheduleInv' /\ WatcherInv'
      /\ ~Is("LogConfig")' /\ ~Is("Rotation")' /\ obj'.type \in BasicsTypes
  BY DEF RetryInv, CountersInv, DebouncedInv, ScheduleInv, WatcherInv, Is, BasicsTypes
<1>2. CallsCounted'
  BY DEF CallsCounted, CO!CallsCounted, CO!Is
<1> QED BY <1>1, <1>2 DEF BasicsInv

RetryCounted ==
  /\ want <= obj.times
  /\ obj.answer = "failed" => want = obj.times
  /\ obj.answer = "nil" => want < obj.times
  /\ obj.answer = "cancelled" => obj.cancelled /\ want > 0
  /\ obj.at = "loop" => want = obj.i

LEMMA OnlyRetry ==
    ASSUME obj'.type = "Retry", now' \in Nat, now' > 0, RetryInv',
           RetryCounted'
    PROVE  BasicsInv'
<1>1. /\ MemoInv' /\ CountersInv' /\ DebouncedInv' /\ ScheduleInv' /\ WatcherInv'
      /\ ~Is("LogConfig")' /\ ~Is("Rotation")' /\ obj'.type \in BasicsTypes
  BY DEF MemoInv, CountersInv, DebouncedInv, ScheduleInv, WatcherInv, Is, BasicsTypes
<1>2. CallsCounted'
  BY DEF CallsCounted, CO!CallsCounted, CO!Is, RetryCounted
<1> QED BY <1>1, <1>2 DEF BasicsInv

LEMMA RetryKept ==
    BasicsInv /\ (CO!CallSucceeds \/ CO!CallFails \/ CO!WaitOver \/ CO!WaitCancelled \/ CO!GivesUp \/ CO!Cancel)
      => BasicsInv'
<1> SUFFICES ASSUME BasicsInv,
                    CO!CallSucceeds \/ CO!CallFails \/ CO!WaitOver \/ CO!WaitCancelled \/ CO!GivesUp \/ CO!Cancel
             PROVE  BasicsInv'
  OBVIOUS
<1>1. obj.type = "Retry" /\ now \in Nat /\ now > 0
  BY DEF BasicsInv, CO!CallSucceeds, CO!CallFails, CO!WaitOver, CO!WaitCancelled, CO!GivesUp, CO!Cancel, CO!Is
<1>2. obj \in Retries
  BY <1>1 DEF BasicsInv, RetryInv, Is
<1>3. /\ obj.times \in Nat /\ obj.i \in Nat /\ want \in Nat /\ want <= obj.times /\ obj.i <= obj.times
      /\ obj.at = "loop" => want = obj.i
      /\ obj.at = "select" => want = obj.i + 1
      /\ obj.at = "returned" => obj.answer # "running"
      /\ obj.at # "returned" => obj.answer = "running"
  BY <1>1 DEF BasicsInv, RetryInv, Is, Retries
<1>4. RetryCounted
  BY <1>1 DEF BasicsInv, CallsCounted, CO!CallsCounted, CO!Is, RetryCounted
<1>5. now + Wait \in Int /\ obj.i + 1 \in Nat
  BY <1>1, <1>3, BasicsAssumption
<1>6. CASE CO!CallSucceeds
  <2>1. obj' = [obj EXCEPT !.at = "returned", !.answer = "nil"]
    BY <1>6 DEF CO!CallSucceeds
  <2>6. want' = want /\ now' = now /\ obj.at = "loop" /\ obj.i < obj.times
    BY <1>6 DEF CO!CallSucceeds
  <2>2. obj' \in Retries
    BY <1>1, <1>2, <1>5, <2>1 DEF Retries
  <2>3. obj'.at = "returned" /\ obj'.answer = "nil" /\ obj'.i = obj.i /\ obj'.times = obj.times
    BY <1>2, <2>1 DEF Retries
  <2>4. RetryInv'
    <3>1. /\ want' \in Nat /\ want' <= obj'.times /\ obj'.i <= obj'.times
          /\ obj'.at = "loop" => want' = obj'.i
          /\ obj'.at = "select" => want' = obj'.i + 1
          /\ obj'.at = "returned" => obj'.answer # "running"
          /\ obj'.at # "returned" => obj'.answer = "running"
      BY <1>3, <2>3, <2>6
    <3> QED BY <2>2, <3>1 DEF RetryInv
  <2>5. RetryCounted'
    BY <1>3, <1>4, <2>3, <2>6 DEF RetryCounted
  <2> QED BY <1>1, <2>6, <2>2, <2>4, <2>5, OnlyRetry DEF Retries
<1>7. CASE CO!CallFails
  <2>1. obj' = [obj EXCEPT !.at = "select", !.timer = now + Wait]
    BY <1>7 DEF CO!CallFails
  <2>6. want' = want + 1 /\ now' = now /\ obj.at = "loop" /\ obj.i < obj.times
    BY <1>7 DEF CO!CallFails
  <2>2. obj' \in Retries
    BY <1>1, <1>2, <1>5, <2>1 DEF Retries
  <2>3. obj'.at = "select" /\ obj'.answer = obj.answer /\ obj'.i = obj.i /\ obj'.times = obj.times
    BY <1>2, <2>1 DEF Retries
  <2>4. RetryInv'
    <3>1. /\ want' \in Nat /\ want' <= obj'.times /\ obj'.i <= obj'.times
          /\ obj'.at = "loop" => want' = obj'.i
          /\ obj'.at = "select" => want' = obj'.i + 1
          /\ obj'.at = "returned" => obj'.answer # "running"
          /\ obj'.at # "returned" => obj'.answer = "running"
      BY <1>3, <2>3, <2>6
    <3> QED BY <2>2, <3>1 DEF RetryInv
  <2>5. RetryCounted'
    BY <1>3, <1>4, <2>3, <2>6 DEF RetryCounted
  <2> QED BY <1>1, <2>6, <2>2, <2>4, <2>5, OnlyRetry DEF Retries
<1>8. CASE CO!WaitOver
  <2>1. obj' = [obj EXCEPT !.at = "loop", !.i = obj.i + 1]
    BY <1>8 DEF CO!WaitOver
  <2>6. want' = want /\ now' = now /\ obj.at = "select"
    BY <1>8 DEF CO!WaitOver
  <2>2. obj' \in Retries
    BY <1>1, <1>2, <1>5, <2>1 DEF Retries
  <2>3. obj'.at = "loop" /\ obj'.answer = obj.answer /\ obj'.i = obj.i + 1 /\ obj'.times = obj.times
    BY <1>2, <2>1 DEF Retries
  <2>4. RetryInv'
    <3>1. /\ want' \in Nat /\ want' <= obj'.times /\ obj'.i <= obj'.times
          /\ obj'.at = "loop" => want' = obj'.i
          /\ obj'.at = "select" => want' = obj'.i + 1
          /\ obj'.at = "returned" => obj'.answer # "running"
          /\ obj'.at # "returned" => obj'.answer = "running"
      BY <1>3, <2>3, <2>6
    <3> QED BY <2>2, <3>1 DEF RetryInv
  <2>5. RetryCounted'
    BY <1>3, <1>4, <2>3, <2>6 DEF RetryCounted
  <2> QED BY <1>1, <2>6, <2>2, <2>4, <2>5, OnlyRetry DEF Retries
<1>9. CASE CO!WaitCancelled
  <2>1. obj' = [obj EXCEPT !.at = "returned", !.answer = "cancelled"]
    BY <1>9 DEF CO!WaitCancelled
  <2>6. want' = want /\ now' = now /\ obj.at = "select" /\ obj.cancelled
    BY <1>9 DEF CO!WaitCancelled
  <2>2. obj' \in Retries
    BY <1>1, <1>2, <1>5, <2>1 DEF Retries
  <2>3. obj'.at = "returned" /\ obj'.answer = "cancelled" /\ obj'.i = obj.i /\ obj'.cancelled = obj.cancelled /\ obj'.times = obj.times
    BY <1>2, <2>1 DEF Retries
  <2>4. RetryInv'
    <3>1. /\ want' \in Nat /\ want' <= obj'.times /\ obj'.i <= obj'.times
          /\ obj'.at = "loop" => want' = obj'.i
          /\ obj'.at = "select" => want' = obj'.i + 1
          /\ obj'.at = "returned" => obj'.answer # "running"
          /\ obj'.at # "returned" => obj'.answer = "running"
      BY <1>3, <2>3, <2>6
    <3> QED BY <2>2, <3>1 DEF RetryInv
  <2>5. RetryCounted'
    BY <1>3, <1>4, <2>3, <2>6 DEF RetryCounted
  <2> QED BY <1>1, <2>6, <2>2, <2>4, <2>5, OnlyRetry DEF Retries
<1>10. CASE CO!GivesUp
  <2>1. obj' = [obj EXCEPT !.at = "returned", !.answer = "failed"]
    BY <1>10 DEF CO!GivesUp
  <2>6. want' = want /\ now' = now /\ obj.at = "loop" /\ obj.i >= obj.times
    BY <1>10 DEF CO!GivesUp
  <2>2. obj' \in Retries
    BY <1>1, <1>2, <1>5, <2>1 DEF Retries
  <2>3. obj'.at = "returned" /\ obj'.answer = "failed" /\ obj'.i = obj.i /\ obj'.times = obj.times
    BY <1>2, <2>1 DEF Retries
  <2>4. RetryInv'
    <3>1. /\ want' \in Nat /\ want' <= obj'.times /\ obj'.i <= obj'.times
          /\ obj'.at = "loop" => want' = obj'.i
          /\ obj'.at = "select" => want' = obj'.i + 1
          /\ obj'.at = "returned" => obj'.answer # "running"
          /\ obj'.at # "returned" => obj'.answer = "running"
      BY <1>3, <2>3, <2>6
    <3> QED BY <2>2, <3>1 DEF RetryInv
  <2>5. RetryCounted'
    BY <1>3, <1>4, <2>3, <2>6 DEF RetryCounted
  <2> QED BY <1>1, <2>6, <2>2, <2>4, <2>5, OnlyRetry DEF Retries
<1>11. CASE CO!Cancel
  <2>1. obj' = [obj EXCEPT !.cancelled = TRUE]
    BY <1>11 DEF CO!Cancel
  <2>6. want' = want /\ now' = now /\ obj.at # "returned"
    BY <1>11 DEF CO!Cancel
  <2>2. obj' \in Retries
    BY <1>1, <1>2, <1>5, <2>1 DEF Retries
  <2>3. obj'.at = obj.at /\ obj'.answer = obj.answer /\ obj'.i = obj.i /\ obj'.times = obj.times
    BY <1>2, <2>1 DEF Retries
  <2>4. RetryInv'
    <3>1. /\ want' \in Nat /\ want' <= obj'.times /\ obj'.i <= obj'.times
          /\ obj'.at = "loop" => want' = obj'.i
          /\ obj'.at = "select" => want' = obj'.i + 1
          /\ obj'.at = "returned" => obj'.answer # "running"
          /\ obj'.at # "returned" => obj'.answer = "running"
      BY <1>3, <2>3, <2>6
    <3> QED BY <2>2, <3>1 DEF RetryInv
  <2>5. RetryCounted'
    BY <1>3, <1>4, <2>3, <2>6 DEF RetryCounted
  <2> QED BY <1>1, <2>6, <2>2, <2>4, <2>5, OnlyRetry DEF Retries
<1> QED BY <1>6, <1>7, <1>8, <1>9, <1>10, <1>11

CountersCounted ==
  /\ Is("After") => obj.result = IF want.calls < want.n THEN 0 ELSE want.calls - (IF want.n < 1 THEN 1 ELSE want.n) + 1
  /\ Is("Before") => obj.result = IF want.calls < want.n THEN want.calls ELSE want.n

LEMMA OnlyCounters ==
    ASSUME obj'.type \in {"After", "Before"}, now' \in Nat, now' > 0, CountersInv', CountersCounted'
    PROVE  BasicsInv'
<1>1. /\ MemoInv' /\ RetryInv' /\ DebouncedInv' /\ ScheduleInv' /\ WatcherInv'
      /\ ~Is("LogConfig")' /\ ~Is("Rotation")' /\ obj'.type \in BasicsTypes
  BY DEF MemoInv, RetryInv, DebouncedInv, ScheduleInv, WatcherInv, Is, BasicsTypes
<1>2. CallsCounted'
  BY DEF CallsCounted, CO!CallsCounted, CO!Is, Is, CountersCounted
<1> QED BY <1>1, <1>2 DEF BasicsInv

LEMMA CountersKept == BasicsInv /\ (CO!AfterCalled \/ CO!BeforeCalled) => BasicsInv'
<1> SUFFICES ASSUME BasicsInv, CO!AfterCalled \/ CO!BeforeCalled PROVE BasicsInv'
  OBVIOUS
<1>1. now \in Nat /\ now > 0 /\ now' = now
  BY DEF BasicsInv, CO!AfterCalled, CO!BeforeCalled
<1>2. /\ obj.type = "After" \/ obj.type = "Before"
      /\ want' = [want EXCEPT !.calls = want.calls + 1]
  BY DEF CO!AfterCalled, CO!BeforeCalled, CO!Is
<1>3. obj \in Counters /\ want \in CallCounts /\ obj.n = want.n - want.calls
  BY <1>2 DEF BasicsInv, CountersInv, Is
<1>4. CountersCounted
  BY <1>2 DEF BasicsInv, CallsCounted, CO!CallsCounted, CO!Is, CountersCounted, Is
<1>5. obj.n \in Int /\ obj.result \in Nat /\ want.n \in Nat /\ want.calls \in Nat
  BY <1>3 DEF Counters, CallCounts
<1>6. want' \in CallCounts /\ want'.n = want.n /\ want'.calls = want.calls + 1
  BY <1>2, <1>3, <1>5 DEF CallCounts
<1>7. CASE CO!AfterCalled
  <2> DEFINE n == obj.n - 1
             result == IF obj.n - 1 < 1 THEN obj.result + 1 ELSE obj.result
  <2>1. obj.type = "After" /\ obj' = [obj EXCEPT !.n = n, !.result = result]
    BY <1>7 DEF CO!AfterCalled, CO!Is
  <2>2. n \in Int /\ result \in Nat /\ n = want.n - (want.calls + 1)
        /\ result = IF n < 1 THEN obj.result + 1 ELSE obj.result
    BY <1>3, <1>5
  <2> HIDE DEF n, result
  <2>3. obj' \in Counters /\ obj'.type = "After" /\ obj'.n = n /\ obj'.result = result
    BY <1>3, <2>1, <2>2 DEF Counters
  <2>4. CountersInv'
    BY <1>6, <2>2, <2>3 DEF CountersInv
  <2>5. obj.result = IF want.calls < want.n THEN 0 ELSE want.calls - (IF want.n < 1 THEN 1 ELSE want.n) + 1
    BY <1>4, <2>1 DEF CountersCounted, Is
  <2>6. result = IF want.calls + 1 < want.n THEN 0
                 ELSE (want.calls + 1) - (IF want.n < 1 THEN 1 ELSE want.n) + 1
    BY <1>5, <2>2, <2>5
  <2>7. CountersCounted'
    BY <1>6, <2>3, <2>6 DEF CountersCounted, Is
  <2> QED BY <1>1, <2>3, <2>4, <2>7, OnlyCounters
<1>8. CASE CO!BeforeCalled
  <2> DEFINE n == obj.n - 1
             result == IF obj.n > 0 THEN obj.result + 1 ELSE obj.result
  <2>1. obj.type = "Before" /\ obj' = [obj EXCEPT !.n = n, !.result = result]
    BY <1>8 DEF CO!BeforeCalled, CO!Is
  <2>2. n \in Int /\ result \in Nat /\ n = want.n - (want.calls + 1)
        /\ result = IF n >= 0 THEN obj.result + 1 ELSE obj.result
    BY <1>3, <1>5
  <2> HIDE DEF n, result
  <2>3. obj' \in Counters /\ obj'.type = "Before" /\ obj'.n = n /\ obj'.result = result
    BY <1>3, <2>1, <2>2 DEF Counters
  <2>4. CountersInv'
    BY <1>6, <2>2, <2>3 DEF CountersInv
  <2>5. obj.result = IF want.calls < want.n THEN want.calls ELSE want.n
    BY <1>4, <2>1 DEF CountersCounted, Is
  <2>6. result = IF want.calls + 1 < want.n THEN want.calls + 1 ELSE want.n
    BY <1>5, <2>2, <2>5
  <2>7. CountersCounted'
    BY <1>6, <2>3, <2>6 DEF CountersCounted, Is
  <2> QED BY <1>1, <2>3, <2>4, <2>7, OnlyCounters
<1> QED BY <1>7, <1>8

DebouncedCounted == obj.runs + (IF obj.fired THEN 1 ELSE 0) + (IF obj.timer = -1 THEN 0 ELSE 1) <= want

LEMMA OnlyDebounced ==
    ASSUME obj'.type = "Debounced", now' \in Nat, now' > 0, DebouncedInv', DebouncedCounted'
    PROVE  BasicsInv'
<1>1. /\ MemoInv' /\ RetryInv' /\ CountersInv' /\ ScheduleInv' /\ WatcherInv'
      /\ ~Is("LogConfig")' /\ ~Is("Rotation")' /\ obj'.type \in BasicsTypes
  BY DEF MemoInv, RetryInv, CountersInv, ScheduleInv, WatcherInv, Is, BasicsTypes
<1>2. CallsCounted'
  BY DEF CallsCounted, CO!CallsCounted, CO!Is, Is, DebouncedCounted
<1> QED BY <1>1, <1>2 DEF BasicsInv

LEMMA DebouncedKept == BasicsInv /\ (CO!DebouncedCalled \/ CO!DebouncedRuns) => BasicsInv'
<1> SUFFICES ASSUME BasicsInv, CO!DebouncedCalled \/ CO!DebouncedRuns PROVE BasicsInv'
  OBVIOUS
<1>1. now \in Nat /\ now > 0 /\ now' = now /\ Wait \in Nat \ {0}
  BY BasicsAssumption DEF BasicsInv, CO!DebouncedCalled, CO!DebouncedRuns
<1>2. obj.type = "Debounced"
  BY DEF CO!DebouncedCalled, CO!DebouncedRuns, CO!Is
<1>0. obj \in Debouncers
  BY <1>2 DEF BasicsInv, DebouncedInv, Is
<1>3. /\ want \in Nat /\ obj.last >= -1 /\ obj.last <= now
      /\ obj.last = -1 => obj.timer = -1 /\ ~obj.fired
      /\ obj.timer # -1 => obj.timer = obj.last + Wait /\ now < obj.timer
      /\ obj.fired => obj.timer = -1
      /\ obj.last # -1 /\ now < obj.last + Wait => obj.timer # -1
  BY <1>2 DEF BasicsInv, DebouncedInv, Is
<1>4. DebouncedCounted
  BY <1>2 DEF BasicsInv, CallsCounted, CO!CallsCounted, CO!Is, DebouncedCounted
<1>5. obj.timer \in Int /\ obj.last \in Int /\ obj.runs \in Nat /\ obj.fired \in BOOLEAN
  BY <1>0 DEF Debouncers
<1>9. obj.runs + 1 \in Nat
  BY <1>5
<1>6. CASE CO!DebouncedCalled
  <2> DEFINE timer == now + Wait
  <2>1. obj' = [obj EXCEPT !.timer = timer, !.fired = FALSE, !.last = now]
    BY <1>6 DEF CO!DebouncedCalled
  <2>2. want' = IF obj.last = -1 \/ now - obj.last >= Wait THEN want + 1 ELSE want
    BY <1>6 DEF CO!DebouncedCalled
  <2>3. timer \in Int /\ timer > now /\ timer = now + Wait
    BY <1>1
  <2> HIDE DEF timer
  <2>4. /\ obj' \in Debouncers /\ obj'.timer = timer /\ obj'.fired = FALSE /\ obj'.last = now
        /\ obj'.runs = obj.runs
    <3>1. now \in Int /\ timer \in Int
      BY <1>1, <2>3
    <3>2. obj' \in Debouncers
      BY <1>0, <2>1, <3>1 DEF Debouncers
    <3>3. obj'.timer = timer /\ obj'.fired = FALSE /\ obj'.last = now /\ obj'.runs = obj.runs
      BY <1>0, <2>1 DEF Debouncers
    <3> QED BY <3>2, <3>3
  <2>5. want' \in Nat
    BY <1>3, <2>2
  <2>6. DebouncedInv'
    BY <1>1, <2>3, <2>4, <2>5 DEF DebouncedInv
  <2>7. obj.runs + 1 <= want'
    <3>1. obj.last = -1 \/ now - obj.last >= Wait \/ (obj.last # -1 /\ now < obj.last + Wait)
      BY <1>1, <1>5
    <3>2. CASE obj.last = -1 \/ now - obj.last >= Wait
      <4>1. obj.runs <= want
        BY <1>3, <1>4, <1>5 DEF DebouncedCounted
      <4> QED BY <1>3, <1>5, <2>2, <3>2, <4>1
    <3>3. CASE obj.last # -1 /\ now < obj.last + Wait /\ ~(obj.last = -1 \/ now - obj.last >= Wait)
      <4>1. obj.timer # -1
        BY <1>3, <3>3
      <4>2. obj.runs + 1 <= want
        BY <1>3, <1>4, <1>5, <4>1 DEF DebouncedCounted
      <4> QED BY <2>2, <3>3, <4>2
    <3> QED BY <3>1, <3>2, <3>3
  <2>8. DebouncedCounted'
    BY <1>5, <2>3, <2>4, <2>5, <2>7 DEF DebouncedCounted
  <2> QED BY <1>1, <2>4, <2>6, <2>8, OnlyDebounced DEF Debouncers
<1>7. CASE CO!DebouncedRuns
  <2>1. obj' = [obj EXCEPT !.fired = FALSE, !.runs = obj.runs + 1]
    BY <1>7 DEF CO!DebouncedRuns
  <2>2. want' = want /\ obj.fired
    BY <1>7 DEF CO!DebouncedRuns
  <2>3. /\ obj' \in Debouncers /\ obj'.timer = obj.timer /\ obj'.fired = FALSE /\ obj'.last = obj.last
        /\ obj'.runs = obj.runs + 1
    BY <1>0, <1>9, <2>1 DEF Debouncers
  <2>4. DebouncedInv'
    BY <1>1, <1>3, <2>2, <2>3 DEF DebouncedInv
  <2>5. DebouncedCounted'
    BY <1>3, <1>4, <1>5, <2>2, <2>3 DEF DebouncedCounted
  <2> QED BY <1>1, <2>3, <2>4, <2>5, OnlyDebounced DEF Debouncers
<1> QED BY <1>6, <1>7

ScheduleCounted ==
  /\ obj.at = "ended" => obj.quit
  /\ obj.runs > 0 => now >= 1 + (obj.runs - 1) * Wait

LEMMA OnlySchedule ==
    ASSUME obj'.type = "Schedule", now' \in Nat, now' > 0, ScheduleInv', ScheduleCounted'
    PROVE  BasicsInv'
<1>1. /\ MemoInv' /\ RetryInv' /\ CountersInv' /\ DebouncedInv' /\ WatcherInv'
      /\ ~Is("LogConfig")' /\ ~Is("Rotation")' /\ obj'.type \in BasicsTypes
  BY DEF MemoInv, RetryInv, CountersInv, DebouncedInv, WatcherInv, Is, BasicsTypes
<1>2. CallsCounted'
  BY DEF CallsCounted, CO!CallsCounted, CO!Is, Is, ScheduleCounted
<1> QED BY <1>1, <1>2 DEF BasicsInv

LEMMA ScheduleKept ==
    BasicsInv /\ (CO!ScheduleInvokes \/ CO!ScheduleTimer \/ CO!ScheduleQuits \/ CO!CloseQuit) => BasicsInv'
<1> SUFFICES ASSUME BasicsInv, CO!ScheduleInvokes \/ CO!ScheduleTimer \/ CO!ScheduleQuits \/ CO!CloseQuit
             PROVE  BasicsInv'
  OBVIOUS
<1>1. obj.type = "Schedule" /\ now \in Nat /\ now > 0 /\ now' = now
  BY DEF BasicsInv, CO!ScheduleInvokes, CO!ScheduleTimer, CO!ScheduleQuits, CO!CloseQuit, CO!Is
<1>2. obj \in Schedulers
  BY <1>1 DEF BasicsInv, ScheduleInv, Is
<1>3. /\ obj.at = "invoke" => now >= 1 + obj.runs * Wait
      /\ obj.at # "invoke" => obj.runs > 0
      /\ obj.at = "select" => obj.timer >= 1 + obj.runs * Wait
  BY <1>1 DEF BasicsInv, ScheduleInv, Is
<1>4. /\ obj.at = "ended" => obj.quit
      /\ obj.runs > 0 => now >= 1 + (obj.runs - 1) * Wait
  BY <1>1 DEF BasicsInv, CallsCounted, CO!CallsCounted, CO!Is
<1>5. obj.timer \in Int /\ obj.runs \in Nat /\ obj.quit \in BOOLEAN /\ obj.at \in {"invoke", "select", "ended"}
  BY <1>2 DEF Schedulers
<1>6. Wait \in Nat \ {0}
  BY BasicsAssumption
<1>7. CASE CO!ScheduleInvokes
  <2> DEFINE timer == now + Wait
             runs == obj.runs + 1
  <2>1. obj' = [obj EXCEPT !.at = "select", !.timer = timer, !.runs = runs] /\ obj.at = "invoke"
    BY <1>7 DEF CO!ScheduleInvokes
  <2>2. timer \in Int /\ runs \in Nat /\ runs > 0 /\ runs - 1 = obj.runs
    BY <1>1, <1>5, <1>6
  <2>3. timer >= 1 + runs * Wait
    <3>1. runs * Wait = obj.runs * Wait + Wait
      BY <1>5, <1>6
    <3>2. obj.runs * Wait \in Nat
      BY <1>5, <1>6
    <3> QED BY <1>1, <1>3, <1>6, <2>1, <3>1, <3>2
  <2>4. now >= 1 + (runs - 1) * Wait
    BY <1>3, <2>1, <2>2
  <2> HIDE DEF timer, runs
  <2>5. obj' \in Schedulers /\ obj'.at = "select" /\ obj'.timer = timer /\ obj'.runs = runs
    BY <1>2, <2>1, <2>2 DEF Schedulers
  <2>6. ScheduleInv'
    BY <2>2, <2>3, <2>5 DEF ScheduleInv
  <2>7. ScheduleCounted'
    BY <1>1, <2>4, <2>5 DEF ScheduleCounted
  <2> QED BY <1>1, <2>5, <2>6, <2>7, OnlySchedule DEF Schedulers
<1>8. CASE CO!ScheduleTimer
  <2>1. obj' = [obj EXCEPT !.at = "invoke"] /\ obj.at = "select" /\ now >= obj.timer
    BY <1>8 DEF CO!ScheduleTimer
  <2>2. obj' \in Schedulers /\ obj'.at = "invoke" /\ obj'.runs = obj.runs
    BY <1>2, <2>1 DEF Schedulers
  <2>3. now >= 1 + obj.runs * Wait
    <3>1. obj.runs * Wait \in Nat
      BY <1>5, <1>6
    <3> QED BY <1>1, <1>3, <1>5, <2>1, <3>1
  <2>4. ScheduleInv'
    BY <1>1, <2>2, <2>3 DEF ScheduleInv
  <2>5. ScheduleCounted'
    BY <1>1, <1>4, <2>2 DEF ScheduleCounted
  <2> QED BY <1>1, <2>2, <2>4, <2>5, OnlySchedule DEF Schedulers
<1>9. CASE CO!ScheduleQuits
  <2>1. obj' = [obj EXCEPT !.at = "ended"] /\ obj.at = "select" /\ obj.quit
    BY <1>9 DEF CO!ScheduleQuits
  <2>2. obj' \in Schedulers /\ obj'.at = "ended" /\ obj'.runs = obj.runs /\ obj'.quit = obj.quit
    BY <1>2, <2>1 DEF Schedulers
  <2>3. ScheduleInv'
    BY <1>3, <2>1, <2>2 DEF ScheduleInv
  <2>4. ScheduleCounted'
    BY <1>1, <1>4, <2>1, <2>2 DEF ScheduleCounted
  <2> QED BY <1>1, <2>2, <2>3, <2>4, OnlySchedule DEF Schedulers
<1>10. CASE CO!CloseQuit
  <2>1. obj' = [obj EXCEPT !.quit = TRUE]
    BY <1>10 DEF CO!CloseQuit
  <2>2. /\ obj' \in Schedulers /\ obj'.at = obj.at /\ obj'.runs = obj.runs /\ obj'.timer = obj.timer
        /\ obj'.quit = TRUE
    BY <1>2, <2>1 DEF Schedulers
  <2>3. ScheduleInv'
    BY <1>1, <1>3, <2>2 DEF ScheduleInv
  <2>4. ScheduleCounted'
    BY <1>1, <1>4, <2>2 DEF ScheduleCounted
  <2> QED BY <1>1, <2>2, <2>3, <2>4, OnlySchedule DEF Schedulers
<1> QED BY <1>7, <1>8, <1>9, <1>10

WatcherCounted ==
  LET shown == IF obj.excuting THEN now - obj.startTime ELSE obj.stopTime - obj.startTime
  IN  shown >= 0 /\ (~obj.excuting => shown = want)

LEMMA OnlyWatcher ==
    ASSUME obj'.type = "Watcher", now' \in Nat, now' > 0, WatcherInv', WatcherCounted'
    PROVE  BasicsInv'
<1>1. /\ MemoInv' /\ RetryInv' /\ CountersInv' /\ DebouncedInv' /\ ScheduleInv'
      /\ ~Is("LogConfig")' /\ ~Is("Rotation")' /\ obj'.type \in BasicsTypes
  BY DEF MemoInv, RetryInv, CountersInv, DebouncedInv, ScheduleInv, Is, BasicsTypes
<1>2. CallsCounted'
  BY DEF CallsCounted, CO!CallsCounted, CO!Is, Is, CO!GetElapsedTime, WatcherCounted
<1> QED BY <1>1, <1>2 DEF BasicsInv

LEMMA WatcherKept == BasicsInv /\ (CO!Start \/ CO!Stop \/ CO!Reset) => BasicsInv'
<1> SUFFICES ASSUME BasicsInv, CO!Start \/ CO!Stop \/ CO!Reset PROVE BasicsInv'
  OBVIOUS
<1>1. obj.type = "Watcher" /\ now \in Nat /\ now > 0 /\ now' = now
  BY DEF BasicsInv, CO!Start, CO!Stop, CO!Reset, CO!Is
<1>2. obj \in Watchers
  BY <1>1 DEF BasicsInv, WatcherInv, Is
<1>3. obj.startTime \in Nat /\ obj.startTime <= now /\ want \in Int
  BY <1>1, <1>2 DEF BasicsInv, WatcherInv, Is, Watchers
<1>4. CASE CO!Start
  <2>1. obj' = [obj EXCEPT !.startTime = now, !.excuting = TRUE]
    BY <1>4 DEF CO!Start
  <2>2. obj' \in Watchers /\ obj'.startTime = now /\ obj'.excuting = TRUE
    BY <1>1, <1>2, <2>1 DEF Watchers
  <2>3. want' = want
    BY <1>4 DEF CO!Start
  <2>4. WatcherInv' /\ WatcherCounted'
    BY <1>1, <1>3, <2>2, <2>3 DEF WatcherInv, WatcherCounted
  <2> QED BY <1>1, <2>2, <2>4, OnlyWatcher DEF Watchers
<1>5. CASE CO!Stop
  <2>1. obj' = [obj EXCEPT !.stopTime = now, !.excuting = FALSE]
    BY <1>5 DEF CO!Stop
  <2>2. /\ obj' \in Watchers /\ obj'.startTime = obj.startTime /\ obj'.stopTime = now
        /\ obj'.excuting = FALSE
    BY <1>1, <1>2, <2>1 DEF Watchers
  <2>3. want' = now - obj.startTime
    BY <1>5 DEF CO!Stop
  <2>4. WatcherInv' /\ WatcherCounted'
    BY <1>1, <1>3, <2>2, <2>3 DEF WatcherInv, WatcherCounted
  <2> QED BY <1>1, <2>2, <2>4, OnlyWatcher DEF Watchers
<1>6. CASE CO!Reset
  <2>1. obj' = [type |-> "Watcher", startTime |-> 0, stopTime |-> 0, excuting |-> FALSE] /\ want' = 0
    BY <1>6 DEF CO!Reset, CO!Watcher
  <2>2. obj' \in Watchers /\ obj'.startTime = 0 /\ obj'.stopTime = 0 /\ obj'.excuting = FALSE
    BY <2>1 DEF Watchers
  <2>3. WatcherInv' /\ WatcherCounted'
    BY <1>1, <2>1, <2>2 DEF WatcherInv, WatcherCounted
  <2> QED BY <1>1, <2>2, <2>3, OnlyWatcher DEF Watchers
<1> QED BY <1>4, <1>5, <1>6

(* The clock goes on. *)
LEMMA TickKept == BasicsInv /\ CO!Tick => BasicsInv'
<1> SUFFICES ASSUME BasicsInv, CO!Tick PROVE BasicsInv'
  OBVIOUS
<1>1. now \in Nat /\ now > 0 /\ now' = now + 1 /\ want' = want
  BY DEF BasicsInv, CO!Tick
<1>2. now' \in Nat /\ now' > 0
  BY <1>1
<1>3. Wait \in Nat \ {0}
  BY BasicsAssumption
<1>4. CASE obj.type = "Retry"
  <2>1. obj' = obj
    BY <1>4 DEF CO!Tick, CO!Is
  <2>2. RetryInv' /\ RetryCounted'
    BY <1>1, <1>4, <2>1 DEF BasicsInv, RetryInv, Is, CallsCounted, CO!CallsCounted, CO!Is, RetryCounted
  <2> QED BY <1>2, <1>4, <2>1, <2>2, OnlyRetry
<1>5. CASE obj.type = "Schedule"
  <2>1. obj' = obj
    BY <1>5 DEF CO!Tick, CO!Is
  <2>2. obj \in Schedulers
    BY <1>5 DEF BasicsInv, ScheduleInv, Is
  <2>3. /\ obj.at = "invoke" => now >= 1 + obj.runs * Wait
        /\ obj.at # "invoke" => obj.runs > 0
        /\ obj.at = "select" => obj.timer >= 1 + obj.runs * Wait
    BY <1>5 DEF BasicsInv, ScheduleInv, Is
  <2>4. /\ obj.at = "ended" => obj.quit
        /\ obj.runs > 0 => now >= 1 + (obj.runs - 1) * Wait
    BY <1>5 DEF BasicsInv, CallsCounted, CO!CallsCounted, CO!Is
  <2> DEFINE passed == obj.runs * Wait
             before == (obj.runs - 1) * Wait
  <2>5. passed \in Int /\ before \in Int
    BY <1>3, <2>2 DEF Schedulers
  <2> HIDE DEF passed, before
  <2>6. /\ now >= 1 + passed => now' >= 1 + passed
        /\ now >= 1 + before => now' >= 1 + before
    BY <1>1, <2>5
  <2>7. ScheduleInv'
    BY <2>1, <2>2, <2>3, <2>6 DEF ScheduleInv, passed
  <2>8. ScheduleCounted'
    BY <2>1, <2>4, <2>6 DEF ScheduleCounted, before
  <2> QED BY <1>2, <1>5, <2>1, <2>7, <2>8, OnlySchedule
<1>6. CASE obj.type = "Watcher"
  <2>1. obj' = obj
    BY <1>6 DEF CO!Tick, CO!Is
  <2>2. obj \in Watchers
    BY <1>6 DEF BasicsInv, WatcherInv, Is
  <2>3. obj.startTime \in Nat /\ obj.stopTime \in Nat /\ obj.startTime <= now /\ want \in Int
    BY <1>6, <2>2 DEF BasicsInv, WatcherInv, Is, Watchers
  <2>4. WatcherCounted
    BY <1>6 DEF BasicsInv, CallsCounted, CO!CallsCounted, CO!Is, CO!GetElapsedTime, WatcherCounted
  <2>5. WatcherInv'
    BY <1>1, <2>1, <2>2, <2>3 DEF WatcherInv
  <2>6. WatcherCounted'
    BY <1>1, <2>1, <2>3, <2>4 DEF WatcherCounted
  <2> QED BY <1>2, <1>6, <2>1, <2>5, <2>6, OnlyWatcher
<1>7. CASE obj.type = "Debounced"
  <2>1. obj' = IF obj.timer = now + 1 THEN [obj EXCEPT !.timer = -1, !.fired = TRUE] ELSE obj
    BY <1>7 DEF CO!Tick, CO!Is
  <2>2. obj \in Debouncers
    BY <1>7 DEF BasicsInv, DebouncedInv, Is
  <2>3. /\ want \in Nat /\ obj.last >= -1 /\ obj.last <= now
        /\ obj.last = -1 => obj.timer = -1 /\ ~obj.fired
        /\ obj.timer # -1 => obj.timer = obj.last + Wait /\ now < obj.timer
        /\ obj.fired => obj.timer = -1
        /\ obj.last # -1 /\ now < obj.last + Wait => obj.timer # -1
    BY <1>7 DEF BasicsInv, DebouncedInv, Is
  <2>4. DebouncedCounted
    BY <1>7 DEF BasicsInv, CallsCounted, CO!CallsCounted, CO!Is, DebouncedCounted
  <2>5. obj.timer \in Int /\ obj.last \in Int /\ obj.runs \in Nat /\ obj.fired \in BOOLEAN
    BY <2>2 DEF Debouncers
  <2>6. CASE obj.timer = now + 1
    <3> DEFINE none == -1
    <3>0. obj' = [obj EXCEPT !.timer = none, !.fired = TRUE] /\ none \in Int /\ none = -1
      BY <2>1, <2>6
    <3> HIDE DEF none
    <3>1. /\ obj' \in Debouncers /\ obj'.timer = -1 /\ obj'.fired = TRUE /\ obj'.last = obj.last
          /\ obj'.runs = obj.runs
      BY <2>2, <3>0 DEF Debouncers
    <3>2. obj.timer # -1 /\ obj.last # -1 /\ ~obj.fired /\ obj.last + Wait = now + 1
      BY <1>1, <2>3, <2>5, <2>6
    <3>3. DebouncedInv'
      BY <1>1, <1>3, <2>3, <2>5, <3>1, <3>2 DEF DebouncedInv
    <3>4. DebouncedCounted'
      BY <1>1, <2>3, <2>4, <2>5, <3>1, <3>2 DEF DebouncedCounted
    <3> QED BY <1>2, <3>1, <3>3, <3>4, OnlyDebounced DEF Debouncers
  <2>7. CASE obj.timer # now + 1
    <3>1. obj' = obj
      BY <2>1, <2>7
    <3>2. /\ obj.last <= now'
          /\ obj.timer # -1 => obj.timer = obj.last + Wait /\ now' < obj.timer
          /\ obj.last # -1 /\ now' < obj.last + Wait => obj.timer # -1
      BY <1>1, <1>3, <2>3, <2>5, <2>7
    <3>3. DebouncedInv'
      BY <1>1, <2>2, <2>3, <3>1, <3>2 DEF DebouncedInv
    <3>4. DebouncedCounted'
      BY <1>1, <2>4, <3>1 DEF DebouncedCounted
    <3> QED BY <1>2, <1>7, <3>1, <3>3, <3>4, OnlyDebounced
  <2> QED BY <2>6, <2>7
<1> QED BY <1>4, <1>5, <1>6, <1>7 DEF CO!Tick, CO!Is

-----------------------------------------------------------------------------
(* The configurations of the log *)

(* What the names of the levels stand for. *)
LEMMA NamesOfLevels ==
    /\ \A n : LC!LevelsNamed(n) \subseteq LC!Levels
    /\ LC!LevelsNamed("debug") = {-1} /\ LC!LevelsNamed("info") = {0} /\ LC!LevelsNamed("warn") = {1}
    /\ LC!LevelsNamed("all") = {}
<1>1. \A n, x : x \in LC!LevelsNamed(n) <=>
        \/ n = "debug" /\ x = -1
        \/ n = "info" /\ x = 0
        \/ n = "warn" /\ x = 1
        \/ n = "warning" /\ x = 1
        \/ n = "error" /\ x = 2
        \/ n = "fatal" /\ x = 5
        \/ n = "panic" /\ x = 4
  <2> TAKE n, x
  <2>1. x \in LC!LevelsNamed(n) <=> \E q \in LC!Named : q[1] = n /\ x = q[2]
    BY DEF LC!LevelsNamed
  <2> DEFINE Pair(name, level) == <<name, level>>
             below == -1
  <2>2. LC!Named = {Pair("debug", below), Pair("info", 0), Pair("warn", 1), Pair("warning", 1), Pair("error", 2),
                    Pair("fatal", 5), Pair("panic", 4)}
    BY DEF LC!Named, LC!Debug, LC!Info, LC!Warn, LC!ErrorLevel, LC!Fatal, LC!PanicLevel
  <2>3. \A name, level : Pair(name, level)[1] = name /\ Pair(name, level)[2] = level
    OBVIOUS
  <2> HIDE DEF Pair, below
  <2> QED BY <2>1, <2>2, <2>3 DEF below
<1>2. LC!Levels = -1 .. 5
  BY DEF LC!Levels, LC!Debug, LC!Fatal
<1>3. \A n : LC!LevelsNamed(n) \subseteq LC!Levels
  BY <1>1, <1>2
<1> QED BY <1>1, <1>3

LEMMA MinIsLevel == ASSUME NEW c PROVE LC!MinLevel(c) \in LC!Levels
<1>1. LC!Debug \in LC!Levels
  BY DEF LC!Levels, LC!Debug, LC!Fatal
<1>2. CASE LC!LevelsNamed(c.level) = {}
  BY <1>1, <1>2 DEF LC!MinLevel
<1>3. CASE LC!LevelsNamed(c.level) # {}
  <2>1. LC!MinLevel(c) \in LC!LevelsNamed(c.level)
    BY <1>3 DEF LC!MinLevel
  <2> QED BY <2>1, NamesOfLevels
<1> QED BY <1>2, <1>3

(* A list of levels is cut at the minimum; "all" names no level. *)
LEMMA ParsedIsAsked ==
    ASSUME NEW c, NEW parts
    PROVE  LC!parseOutputLevels(parts, LC!MinLevel(c)) = LC!Asked(c, parts)
<1> DEFINE min == LC!MinLevel(c)
           named == UNION {LC!LevelsNamed(parts[i]) : i \in DOMAIN parts}
<1>1. LC!Asked(c, parts) = {l \in named : l >= min}
  BY DEF LC!Asked, LC!Lists
<1>2. CASE parts = <<"all">>
  <2>1. \A i \in DOMAIN parts : LC!LevelsNamed(parts[i]) = {}
    BY <1>2, NamesOfLevels
  <2>2. named = {}
    BY <2>1
  <2> QED BY <1>1, <1>2, <2>2 DEF LC!parseOutputLevels
<1>3. CASE parts # <<"all">>
  <2>1. LC!parseOutputLevels(parts, min) = {l \in named : min <= l}
    BY <1>3 DEF LC!parseOutputLevels
  <2>2. named \subseteq LC!Levels /\ min \in LC!Levels
    BY NamesOfLevels, MinIsLevel
  <2>3. \A l \in named : min <= l <=> l >= min
    BY <2>2 DEF LC!Levels, LC!Debug, LC!Fatal
  <2> QED BY <1>1, <2>1, <2>3
<1> QED BY <1>2, <1>3

LEMMA LowestOf ==
    ASSUME NEW to, NEW L \in SUBSET Int, NEW m \in L, \A k \in L : m <= k
    PROVE  LC!Lowest(LC!Core(to, L)) = m
<1>1. LC!Core(to, L).levels = L
  BY DEF LC!Core
<1>2. LC!Lowest(LC!Core(to, L)) = CHOOSE l \in L : \A k \in L : l <= k
  BY <1>1 DEF LC!Lowest
<1>3. \A l \in L : (\A k \in L : l <= k) => l = m
  OBVIOUS
<1> DEFINE least == CHOOSE l \in L : \A k \in L : l <= k
<1>4. least \in L /\ \A k \in L : least <= k
  OBVIOUS
<1> HIDE DEF least
<1> QED BY <1>2, <1>3, <1>4 DEF least

(* A file of its own is created for a level of at least the minimum that   *)
(* the list does not leave out.                                            *)
FileChosen(c, m) == LC!MinLevel(c) <= m /\ (LC!Asked(c, c.fileLevels) = {} \/ m \in LC!Asked(c, c.fileLevels))

LEMMA FilesBuilt ==
    ASSUME NEW c, NEW core
    PROVE  core \in LC!buildFileCores(c) <=>
             \/ FileChosen(c, -1) /\ core = LC!Core("debug", {-1} \cap LC!GlobalLevel(c))
             \/ FileChosen(c, 0) /\ core = LC!Core("info", {0} \cap LC!GlobalLevel(c))
             \/ FileChosen(c, 1) /\ core = LC!Core("warn", {1} \cap LC!GlobalLevel(c))
             \/ FileChosen(c, 2) /\ core = LC!Core("error", (2 .. 5) \cap LC!GlobalLevel(c))
<1> DEFINE debug == LC!Core("debug", {-1})
           info == LC!Core("info", {0})
           warn == LC!Core("warn", {1})
           error == LC!Core("error", 2 .. 5)
           Built(f) == LC!Core(f.to, f.levels \cap LC!GlobalLevel(c))
           Chosen(m) == FileChosen(c, m)
<1>1. LC!LevelFiles = {debug, info, warn, error}
  BY DEF LC!LevelFiles, LC!Debug, LC!Info, LC!Warn, LC!ErrorLevel, LC!Fatal
<1>2. LC!Lowest(debug) = -1 /\ LC!Lowest(info) = 0 /\ LC!Lowest(warn) = 1 /\ LC!Lowest(error) = 2
  <2>1. LC!Lowest(debug) = -1
    BY LowestOf
  <2>2. LC!Lowest(info) = 0
    BY LowestOf
  <2>3. LC!Lowest(warn) = 1
    BY LowestOf
  <2>4. LC!Lowest(error) = 2
    BY LowestOf
  <2> QED BY <2>1, <2>2, <2>3, <2>4
<1>3. /\ Built(debug) = LC!Core("debug", {-1} \cap LC!GlobalLevel(c))
      /\ Built(info) = LC!Core("info", {0} \cap LC!GlobalLevel(c))
      /\ Built(warn) = LC!Core("warn", {1} \cap LC!GlobalLevel(c))
      /\ Built(error) = LC!Core("error", (2 .. 5) \cap LC!GlobalLevel(c))
  <2>1. \A to, L : LC!Core(to, L).to = to /\ LC!Core(to, L).levels = L
    BY DEF LC!Core
  <2> QED BY <2>1
<1>4. \A m : LC!MinLevel(c) <= m /\ LC!containsExactLevel(LC!parseOutputLevels(c.fileLevels, LC!MinLevel(c)), m)
               <=> Chosen(m)
  BY ParsedIsAsked DEF FileChosen, LC!containsExactLevel
<1>5. core \in LC!buildFileCores(c) <=> \E f \in LC!LevelFiles : Chosen(LC!Lowest(f)) /\ core = Built(f)
  BY <1>4 DEF LC!buildFileCores
<1> HIDE DEF debug, info, warn, error, Built, Chosen
<1>6. core \in LC!buildFileCores(c) <=>
        \/ Chosen(-1) /\ core = Built(debug)
        \/ Chosen(0) /\ core = Built(info)
        \/ Chosen(1) /\ core = Built(warn)
        \/ Chosen(2) /\ core = Built(error)
  BY <1>1, <1>2, <1>5
<1> QED BY <1>3, <1>6 DEF Chosen

LEMMA RecordReaches == ASSUME NEW c PROVE LC!ReachesOutputs(c)
<1> DEFINE min == LC!MinLevel(c)
           global == LC!GlobalLevel(c)
           files == LC!buildFileCores(c)
           Asked(parts) == LC!Asked(c, parts)
<1>1. LC!Levels = -1 .. 5 /\ min \in -1 .. 5
  BY MinIsLevel DEF LC!Levels, LC!Debug, LC!Fatal
<1>2. \A l : l \in global <=> l \in -1 .. 5 /\ l >= min
  BY <1>1 DEF LC!GlobalLevel
<1>3. \A parts : Asked(parts) \subseteq -1 .. 5
  <2> TAKE parts
  <2>1. LC!Lists(parts) \subseteq -1 .. 5
    BY <1>1, NamesOfLevels DEF LC!Lists
  <2> QED BY <2>1 DEF LC!Asked
<1>4. \A to, L : LC!Core(to, L).to = to /\ LC!Core(to, L).levels = L
  BY DEF LC!Core
<1> SUFFICES ASSUME NEW l \in -1 .. 5
             PROVE  LET out == LC!Outputs(c, l)
                        above(parts) == Asked(parts) = {} \/ \E k \in Asked(parts) : l >= k
                        file == IF l >= LC!ErrorLevel THEN "error"
                                ELSE CHOOSE f \in {"debug", "info", "warn"} : l \in LC!LevelsNamed(f)
                        fallback == c.type \notin {"console", "hybrid", "absent", "file"} \/ (LC!FilesOnly(c) /\ files = {})
                    IN  /\ l < min => out = {}
                        /\ l >= min =>
                             /\ fallback => out = {"console"}
                             /\ c.type \in {"console", "hybrid", "absent"} => ("console" \in out <=> above(c.consoleLevels))
                             /\ c.type \in {"file", "hybrid"} /\ c.fileMode = "single" => ("all" \in out <=> above(c.fileLevels))
                             /\ c.type \in {"file", "hybrid"} /\ c.fileMode # "single" /\ min <= LC!ErrorLevel /\ Asked(c.fileLevels) = {}
                                  => out \ {"console"} = {file}
                             /\ c.type \in {"file", "hybrid"} /\ c.fileMode # "single" /\ Asked(c.fileLevels) # {}
                                  => (file \in out <=> (IF l >= LC!ErrorLevel THEN LC!ErrorLevel ELSE l) \in Asked(c.fileLevels))
  BY <1>1 DEF LC!ReachesOutputs
<1> DEFINE out == LC!Outputs(c, l)
           above(parts) == Asked(parts) = {} \/ \E k \in Asked(parts) : l >= k
           lowest == IF l >= 2 THEN 2 ELSE l
           file == IF l >= 2 THEN "error" ELSE CHOOSE f \in {"debug", "info", "warn"} : l \in LC!LevelsNamed(f)
           Console == {LC!Core("console", LC!Chosen(c, c.consoleLevels))}
           Single == {LC!Core("all", LC!Chosen(c, c.fileLevels))}
<1>5. \A to : to \in out <=> \E core \in LC!InitLog(c) : l \in core.levels /\ core.to = to
  BY DEF LC!Outputs
<1>6. \A parts : l \in LC!Chosen(c, parts) <=> l >= min /\ above(parts)
  <2> TAKE parts
  <2>1. l \in LC!Chosen(c, parts) <=> l \in global /\ LC!containsLevel(Asked(parts), l)
    BY ParsedIsAsked DEF LC!Chosen
  <2>2. \A k \in Asked(parts) : k <= l <=> l >= k
    BY <1>3
  <2> QED BY <1>2, <2>1, <2>2 DEF LC!containsLevel
<1>7. /\ l = -1 => file = "debug"
      /\ l = 0 => file = "info"
      /\ l = 1 => file = "warn"
      /\ l >= 2 => file = "error"
  <2>1. \A f \in {"debug", "info", "warn"} : l \in LC!LevelsNamed(f) <=>
           (f = "debug" /\ l = -1) \/ (f = "info" /\ l = 0) \/ (f = "warn" /\ l = 1)
    BY NamesOfLevels
  <2> DEFINE named == CHOOSE f \in {"debug", "info", "warn"} : l \in LC!LevelsNamed(f)
  <2>2. l < 2 => \E f \in {"debug", "info", "warn"} : l \in LC!LevelsNamed(f)
    BY <2>1
  <2>3. l < 2 => named \in {"debug", "info", "warn"} /\ l \in LC!LevelsNamed(named)
    BY <2>2
  <2> HIDE DEF named
  <2>4. /\ l = -1 => named = "debug"
        /\ l = 0 => named = "info"
        /\ l = 1 => named = "warn"
    BY <2>1, <2>3
  <2> QED BY <2>4 DEF named
(* Which files take the record. *)
<1>8. \A to : (\E core \in files : l \in core.levels /\ core.to = to) <=>
                l >= min /\ FileChosen(c, lowest) /\ to = file
  <2> TAKE to
  <2> DEFINE Takes(core) == l \in core.levels /\ core.to = to
  <2>1. (\E core \in files : Takes(core)) <=>
          \/ FileChosen(c, -1) /\ Takes(LC!Core("debug", {-1} \cap global))
          \/ FileChosen(c, 0) /\ Takes(LC!Core("info", {0} \cap global))
          \/ FileChosen(c, 1) /\ Takes(LC!Core("warn", {1} \cap global))
          \/ FileChosen(c, 2) /\ Takes(LC!Core("error", (2 .. 5) \cap global))
    <3> HIDE DEF Takes
    <3> QED BY FilesBuilt
  <2>2. /\ Takes(LC!Core("debug", {-1} \cap global)) <=> l = -1 /\ l >= min /\ to = "debug"
        /\ Takes(LC!Core("info", {0} \cap global)) <=> l = 0 /\ l >= min /\ to = "info"
        /\ Takes(LC!Core("warn", {1} \cap global)) <=> l = 1 /\ l >= min /\ to = "warn"
        /\ Takes(LC!Core("error", (2 .. 5) \cap global)) <=> l >= 2 /\ l >= min /\ to = "error"
    BY <1>2, <1>4
  <2> HIDE DEF Takes, file
  <2>3. lowest = IF l >= 2 THEN 2 ELSE l
    OBVIOUS
  <2> HIDE DEF lowest
  <2>4. l = -1 \/ l = 0 \/ l = 1 \/ l >= 2
    OBVIOUS
  <2>5. (\E core \in files : Takes(core)) <=> l >= min /\ FileChosen(c, lowest) /\ to = file
    BY <1>7, <2>1, <2>2, <2>3, <2>4
  <2> QED BY <2>5 DEF Takes
<1>9. min <= lowest /\ FileChosen(c, lowest) => files # {}
  <2>1. lowest \in {-1, 0, 1, 2}
    OBVIOUS
  <2> HIDE DEF lowest
  <2> QED BY <2>1, FilesBuilt
<1>10. /\ \A to : (\E core \in Console : l \in core.levels /\ core.to = to) <=>
                    to = "console" /\ l >= min /\ above(c.consoleLevels)
       /\ \A to : (\E core \in Single : l \in core.levels /\ core.to = to) <=>
                    to = "all" /\ l >= min /\ above(c.fileLevels)
       /\ \A to : (\E core \in {LC!Core("console", global)} : l \in core.levels /\ core.to = to) <=>
                    to = "console" /\ l >= min
  BY <1>2, <1>4, <1>6
<1>11. file \in {"debug", "info", "warn", "error"}
  BY <1>7
<1> DEFINE toConsole == c.type \in {"console", "hybrid", "absent"}
           toFile == c.type \in {"file", "hybrid"}
           single == c.fileMode = "single"
           fallback == ~toConsole /\ (~toFile \/ (~single /\ files = {}))
           Takes(cores, to) == \E core \in cores : l \in core.levels /\ core.to = to
(* The outputs of the record. *)
<1>12. \A to : to \in out <=>
                 /\ l >= min
                 /\ \/ toConsole /\ to = "console" /\ above(c.consoleLevels)
                    \/ toFile /\ single /\ to = "all" /\ above(c.fileLevels)
                    \/ toFile /\ ~single /\ FileChosen(c, lowest) /\ to = file
                    \/ fallback /\ to = "console"
  <2> DEFINE consoleCores == LC!ConsoleCores(c)
             fileCores == LC!FileCores(c)
             last == {LC!Core("console", global)}
  <2>1. consoleCores = IF toConsole THEN Console ELSE {}
    BY DEF LC!ConsoleCores
  <2>2. fileCores = IF ~toFile THEN {} ELSE IF single THEN Single ELSE files
    BY DEF LC!FileCores
  <2>3. Console # {} /\ Single # {}
    OBVIOUS
  <2>4. LC!InitLog(c) = IF fallback THEN last ELSE consoleCores \cup fileCores
    <3>1. consoleCores \cup fileCores = {} <=> fallback
      <4> HIDE DEF Console, Single, files, toConsole, toFile, single, consoleCores, fileCores
      <4> QED BY <2>1, <2>2, <2>3 DEF fallback
    <3> QED BY <3>1 DEF LC!InitLog
  <2> TAKE to
  <2>5. to \in out <=> Takes(LC!InitLog(c), to)
    BY <1>5
  <2>6. /\ Takes(Console, to) <=> to = "console" /\ l >= min /\ above(c.consoleLevels)
        /\ Takes(Single, to) <=> to = "all" /\ l >= min /\ above(c.fileLevels)
        /\ Takes(last, to) <=> to = "console" /\ l >= min
        /\ Takes(files, to) <=> l >= min /\ FileChosen(c, lowest) /\ to = file
    BY <1>8, <1>10
  <2>7. /\ ~Takes({}, to)
        /\ \A A, B : Takes(A \cup B, to) <=> Takes(A, to) \/ Takes(B, to)
    OBVIOUS
  <2>8. fallback => ~toConsole
    OBVIOUS
  <2>9. fallback => ~(toFile /\ single)
    OBVIOUS
  <2>10. fallback => ~(toFile /\ ~single /\ Takes(files, to))
    OBVIOUS
  <2> HIDE DEF Takes, Console, Single, files, toConsole, toFile, single, fallback, consoleCores, fileCores, last,
               out, above, file, lowest
  <2>11. Takes(consoleCores, to) <=> toConsole /\ to = "console" /\ l >= min /\ above(c.consoleLevels)
    BY <2>1, <2>6, <2>7
  <2>12. Takes(fileCores, to) <=>
           \/ toFile /\ single /\ to = "all" /\ l >= min /\ above(c.fileLevels)
           \/ toFile /\ ~single /\ l >= min /\ FileChosen(c, lowest) /\ to = file
    BY <2>2, <2>6, <2>7
  <2>13. CASE fallback
    <3>1. to \in out <=> to = "console" /\ l >= min
      BY <2>4, <2>5, <2>6, <2>13
    <3> QED BY <2>6, <2>8, <2>9, <2>10, <2>13, <3>1
  <2>14. CASE ~fallback
    <3>1. to \in out <=> Takes(consoleCores, to) \/ Takes(fileCores, to)
      BY <2>4, <2>5, <2>7, <2>14
    <3> QED BY <2>11, <2>12, <2>14, <3>1
  <2> QED BY <2>13, <2>14
<1>13. "console" # "all" /\ file # "console" /\ file # "all"
  BY <1>11
<1>14. toFile /\ ~toConsole <=> c.type = "file"
  OBVIOUS
<1>15. toFile \/ toConsole <=> c.type \in {"console", "hybrid", "absent", "file"}
  OBVIOUS
<1>16. c.type \notin {"console", "hybrid", "absent", "file"} \/ (LC!FilesOnly(c) /\ files = {}) => fallback
  BY <1>14, <1>15 DEF LC!FilesOnly
<1>17. l < min => ~(l >= min)
  BY <1>1
<1>18. lowest \in Int /\ min \in Int /\ (l >= min /\ min <= 2 => min <= lowest)
  BY <1>1
<1>19. \A k \in Asked(c.fileLevels) : min <= k
  BY <1>1, <1>3 DEF LC!Asked
<1>20. FileChosen(c, lowest) <=> min <= lowest /\ (Asked(c.fileLevels) = {} \/ lowest \in Asked(c.fileLevels))
  BY DEF FileChosen
<1> DEFINE listed == Asked(c.fileLevels)
<1> HIDE DEF out, toConsole, toFile, single, fallback, above, file, files, min, lowest, Asked
<1>21. ASSUME l < min PROVE out = {}
  BY <1>12, <1>17, <1>21
<1>22. ASSUME l >= min
       PROVE  /\ fallback => out = {"console"}
              /\ toConsole => ("console" \in out <=> above(c.consoleLevels))
              /\ toFile /\ single => ("all" \in out <=> above(c.fileLevels))
              /\ toFile /\ ~single /\ min <= 2 /\ listed = {} => out \ {"console"} = {file}
              /\ toFile /\ ~single /\ listed # {} => (file \in out <=> lowest \in listed)
  <2>1. ASSUME fallback PROVE out = {"console"}
    <3>1. ~toConsole /\ ~(toFile /\ single)
      BY <2>1 DEF fallback
    <3>2. ~(toFile /\ ~single /\ FileChosen(c, lowest))
      <4> SUFFICES ASSUME toFile, ~single, FileChosen(c, lowest) PROVE FALSE
        OBVIOUS
      <4>1. files = {}
        BY <2>1 DEF fallback
      <4>2. files # {}
        BY <1>9, <1>20
      <4> QED BY <4>1, <4>2
    <3> QED BY <1>12, <1>22, <2>1, <3>1, <3>2
  <2>2. ASSUME toConsole PROVE "console" \in out <=> above(c.consoleLevels)
    <3>1. ~fallback
      BY <2>2 DEF fallback
    <3> QED BY <1>12, <1>13, <1>22, <2>2, <3>1
  <2>3. ASSUME toFile, single PROVE "all" \in out <=> above(c.fileLevels)
    BY <1>12, <1>13, <1>22, <2>3
  <2>4. ASSUME toFile, ~single, min <= 2, listed = {} PROVE out \ {"console"} = {file}
    <3>1. FileChosen(c, lowest)
      BY <1>18, <1>20, <1>22, <2>4
    <3>2. file \in out
      BY <1>12, <1>22, <2>4, <3>1
    <3> QED BY <1>12, <1>13, <2>4, <3>2
  <2>5. ASSUME toFile, ~single, listed # {} PROVE file \in out <=> lowest \in listed
    <3>1. FileChosen(c, lowest) <=> lowest \in listed
      BY <1>19, <1>20, <2>5
    <3> QED BY <1>12, <1>13, <1>22, <2>5, <3>1
  <2> QED BY <2>1, <2>2, <2>3, <2>4, <2>5
<1>23. LC!ErrorLevel = 2
  BY DEF LC!ErrorLevel
<1> QED BY <1>16, <1>21, <1>22, <1>23 DEF out, toConsole, toFile, single, above, file, files, min, lowest, Asked

LEMMA RotationFits ==
    ASSUME NEW r, r.rotationTime.n \in Int, r.rotationTime.unit \in {"d", "h", "m", "s"}
    PROVE  LC!RotationAccepted(r)
<1> DEFINE time == IF r.rotationTime.ok /\ LC!parseDuration(r.rotationTime) > 0
                   THEN LC!parseDuration(r.rotationTime) ELSE LC!Day
           maxAge == LC!Parsed(r.maxAge, 7)
           count == IF LC!Parsed(r.rotationCount, -1) > 0 THEN r.rotationCount.n ELSE -1
           w == LC!getWriter(r)
<1>1. LC!Day = 86400 /\ LC!Hour = 3600 /\ LC!Minute = 60
  BY DEF LC!Day, LC!Hour, LC!Minute
<1>2. LC!parseDuration(r.rotationTime) \in Int
  <2> DEFINE n == r.rotationTime.n
  <2>1. /\ r.rotationTime.unit = "d" => LC!parseDuration(r.rotationTime) = n * LC!Day
        /\ r.rotationTime.unit = "h" => LC!parseDuration(r.rotationTime) = n * LC!Hour
        /\ r.rotationTime.unit = "m" => LC!parseDuration(r.rotationTime) = n * LC!Minute
        /\ r.rotationTime.unit = "s" => LC!parseDuration(r.rotationTime) = n * 1
    BY DEF LC!parseDuration
  <2>2. n * LC!Day \in Int /\ n * LC!Hour \in Int /\ n * LC!Minute \in Int /\ n * 1 \in Int
    BY <1>1
  <2> HIDE DEF n
  <2> QED BY <2>1, <2>2
<1>3. time \in Int
  BY <1>1, <1>2
<1>4. /\ w.time = time /\ w.count = count
      /\ w.unit = IF time >= LC!Day THEN LC!Day ELSE IF time >= LC!Hour THEN LC!Hour ELSE LC!Minute
      /\ w.maxAge = IF count > 0 \/ maxAge < 0 THEN -1 ELSE maxAge * LC!Day
  BY DEF LC!getWriter
<1> HIDE DEF time, count, maxAge, w
<1>5. ~(w.maxAge > 0 /\ w.count > 0)
  BY <1>4
<1>6. w.unit <= w.time \/ w.time < LC!Minute
  BY <1>1, <1>3, <1>4
<1> QED BY <1>5, <1>6 DEF LC!RotationAccepted, w

LEMMA ConfigurationsReach == BasicsInv => LevelsReachOutputs
<1>1. BasicsInv /\ Is("LogConfig") => LC!ReachesOutputs(obj.c)
  BY RecordReaches
<1>2. BasicsInv /\ Is("Rotation") => LC!RotationAccepted(obj.r)
  BY RotationFits, BasicsAssumption DEF BasicsInv
<1> QED BY <1>1, <1>2 DEF LevelsReachOutputs

-----------------------------------------------------------------------------
(* The invariant *)

LEMMA InitHolds == BasicsInit => BasicsInv
<1> SUFFICES ASSUME BasicsInit PROVE BasicsInv
  OBVIOUS
<1>1. now = 1 /\ now \in Nat /\ now > 0
  <2>1. CO!Init => now = 1
    BY DEF CO!Init
  <2>2. now = 1
    BY <2>1 DEF BasicsInit
  <2> QED BY <2>2
<1>2. CASE IM!Init
  <2>1. PICK arrays \in [Addresses -> Contents] :
          obj = [type |-> "IndexMemo", arrays |-> arrays, memoryHashMap |-> IM!Nowhere,
                 memoryHashCounter |-> IM!Nowhere, calls |-> 0, missed |-> 0, last |-> [asked |-> FALSE]]
    BY <1>2 DEF IM!Init
  <2>2. want = IM!Nowhere
    BY <1>2 DEF IM!Init
  <2> DEFINE none == IM!Nowhere
             l == [asked |-> FALSE]
  <2>3. none = [a \in {} |-> 0] /\ DOMAIN none = {}
    BY DEF IM!Nowhere
  <2>4. none \in [{} -> Contents] /\ none = [k \in {} |-> IM!Indexes(want[k])]
    BY <2>3
  <2>5. IsFiniteSet({}) /\ Cardinality({}) = 0
    BY FS_EmptySet
  <2>6. obj = [type |-> "IndexMemo", arrays |-> arrays, memoryHashMap |-> none,
               memoryHashCounter |-> none, calls |-> 0, missed |-> 0, last |-> l] /\ l.asked = FALSE
    BY <2>1
  <2> HIDE DEF none, l
  <2>7. /\ obj.type = "IndexMemo" /\ obj.memoryHashMap = none /\ obj.memoryHashCounter = none
        /\ obj.missed = 0 /\ obj.last = l
        /\ obj \in Memos(obj.memoryHashMap, obj.memoryHashCounter, obj.last)
    BY <2>6 DEF Memos
  <2>8. MemoInv
    BY <2>2, <2>3, <2>4, <2>5, <2>6, <2>7, BasicsAssumption DEF MemoInv, none
  <2>9. /\ RetryInv /\ CountersInv /\ DebouncedInv /\ ScheduleInv /\ WatcherInv
        /\ ~Is("LogConfig") /\ ~Is("Rotation") /\ obj.type \in BasicsTypes
    BY <2>7 DEF RetryInv, CountersInv, DebouncedInv, ScheduleInv, WatcherInv, Is, BasicsTypes
  <2>10. CallsCounted
    BY <2>7 DEF CallsCounted, CO!CallsCounted, CO!Is
  <2> QED BY <1>1, <2>8, <2>9, <2>10 DEF BasicsInv
<1>3. CASE \E c \in LogConfigs : obj = [type |-> "LogConfig", c |-> c]
  <2>1. obj.type = "LogConfig" /\ obj.c \in LogConfigs
    BY <1>3
  <2>2. /\ MemoInv /\ RetryInv /\ CountersInv /\ DebouncedInv /\ ScheduleInv /\ WatcherInv
        /\ ~Is("Rotation") /\ obj.type \in BasicsTypes
    BY <2>1 DEF MemoInv, RetryInv, CountersInv, DebouncedInv, ScheduleInv, WatcherInv, Is, BasicsTypes
  <2>3. CallsCounted
    BY <2>1 DEF CallsCounted, CO!CallsCounted, CO!Is
  <2> QED BY <1>1, <2>1, <2>2, <2>3 DEF BasicsInv
<1>4. CASE \E r \in Rotations : obj = [type |-> "Rotation", r |-> r]
  <2>1. obj.type = "Rotation" /\ obj.r \in Rotations
    BY <1>4
  <2>2. /\ MemoInv /\ RetryInv /\ CountersInv /\ DebouncedInv /\ ScheduleInv /\ WatcherInv
        /\ ~Is("LogConfig") /\ obj.type \in BasicsTypes
    BY <2>1 DEF MemoInv, RetryInv, CountersInv, DebouncedInv, ScheduleInv, WatcherInv, Is, BasicsTypes
  <2>3. CallsCounted
    BY <2>1 DEF CallsCounted, CO!CallsCounted, CO!Is
  <2> QED BY <1>1, <2>1, <2>2, <2>3 DEF BasicsInv
<1>5. CASE obj \in CO!Retry /\ want = 0
  <2>1. PICK n \in Times : obj = [type |-> "Retry", times |-> n, i |-> 0, at |-> "loop", timer |-> -1,
                                  cancelled |-> FALSE, answer |-> "running"]
    BY <1>5 DEF CO!Retry
  <2>2. n \in Nat /\ -1 \in Int
    BY BasicsAssumption
  <2>3. /\ obj.type = "Retry" /\ obj.times = n /\ obj.i = 0 /\ obj.at = "loop" /\ obj.answer = "running"
        /\ obj \in Retries
    BY <2>1, <2>2 DEF Retries
  <2>4. RetryInv
    BY <1>5, <2>2, <2>3 DEF RetryInv
  <2>5. /\ MemoInv /\ CountersInv /\ DebouncedInv /\ ScheduleInv /\ WatcherInv
        /\ ~Is("LogConfig") /\ ~Is("Rotation") /\ obj.type \in BasicsTypes
    BY <2>3 DEF MemoInv, CountersInv, DebouncedInv, ScheduleInv, WatcherInv, Is, BasicsTypes
  <2>6. CallsCounted
    BY <1>5, <2>2, <2>3 DEF CallsCounted, CO!CallsCounted, CO!Is
  <2> QED BY <1>1, <2>4, <2>5, <2>6 DEF BasicsInv
<1>6. CASE obj \in CO!Counters /\ want = [n |-> obj.n, calls |-> 0]
  <2>1. PICK t \in {"After", "Before"}, n \in Times : obj = [type |-> t, n |-> n, result |-> 0]
    BY <1>6 DEF CO!Counters
  <2>2. n \in Nat
    BY BasicsAssumption
  <2>3. /\ obj.type = t /\ obj.n = n /\ obj.result = 0 /\ obj \in Counters
    BY <2>1, <2>2 DEF Counters
  <2>4. want \in CallCounts /\ want.n = n /\ want.calls = 0
    BY <1>6, <2>2, <2>3 DEF CallCounts
  <2>5. CountersInv
    BY <2>2, <2>3, <2>4 DEF CountersInv
  <2>6. /\ MemoInv /\ RetryInv /\ DebouncedInv /\ ScheduleInv /\ WatcherInv
        /\ ~Is("LogConfig") /\ ~Is("Rotation") /\ obj.type \in BasicsTypes
    BY <2>3 DEF MemoInv, RetryInv, DebouncedInv, ScheduleInv, WatcherInv, Is, BasicsTypes
  <2>7. CallsCounted
    BY <2>2, <2>3, <2>4 DEF CallsCounted, CO!CallsCounted, CO!Is
  <2> QED BY <1>1, <2>5, <2>6, <2>7 DEF BasicsInv
<1>7. CASE obj = CO!Debouncer /\ want = 0
  <2>1. obj = [type |-> "Debounced", timer |-> -1, fired |-> FALSE, last |-> -1, runs |-> 0] /\ -1 \in Int
    BY <1>7 DEF CO!Debouncer
  <2>2. /\ obj.type = "Debounced" /\ obj.timer = -1 /\ obj.fired = FALSE /\ obj.last = -1 /\ obj.runs = 0
        /\ obj \in Debouncers
    BY <2>1 DEF Debouncers
  <2>3. DebouncedInv
    BY <1>1, <1>7, <2>2 DEF DebouncedInv
  <2>4. /\ MemoInv /\ RetryInv /\ CountersInv /\ ScheduleInv /\ WatcherInv
        /\ ~Is("LogConfig") /\ ~Is("Rotation") /\ obj.type \in BasicsTypes
    BY <2>2 DEF MemoInv, RetryInv, CountersInv, ScheduleInv, WatcherInv, Is, BasicsTypes
  <2>5. CallsCounted
    BY <1>7, <2>2 DEF CallsCounted, CO!CallsCounted, CO!Is
  <2> QED BY <1>1, <2>3, <2>4, <2>5 DEF BasicsInv
<1>8. CASE obj = CO!Scheduler
  <2>1. obj = [type |-> "Schedule", at |-> "invoke", timer |-> -1, quit |-> FALSE, runs |-> 0] /\ -1 \in Int
    BY <1>8 DEF CO!Scheduler
  <2>2. obj.type = "Schedule" /\ obj.at = "invoke" /\ obj.runs = 0 /\ obj \in Schedulers
    BY <2>1 DEF Schedulers
  <2>3. Wait \in Nat /\ 0 * Wait = 0
    BY BasicsAssumption
  <2>4. ScheduleInv
    BY <1>1, <2>2, <2>3 DEF ScheduleInv
  <2>5. /\ MemoInv /\ RetryInv /\ CountersInv /\ DebouncedInv /\ WatcherInv
        /\ ~Is("LogConfig") /\ ~Is("Rotation") /\ obj.type \in BasicsTypes
    BY <2>2 DEF MemoInv, RetryInv, CountersInv, DebouncedInv, WatcherInv, Is, BasicsTypes
  <2>6. CallsCounted
    BY <2>2 DEF CallsCounted, CO!CallsCounted, CO!Is
  <2> QED BY <1>1, <2>4, <2>5, <2>6 DEF BasicsInv
<1>9. CASE obj = CO!Watcher /\ want = 0
  <2>1. obj = [type |-> "Watcher", startTime |-> 0, stopTime |-> 0, excuting |-> FALSE]
    BY <1>9 DEF CO!Watcher
  <2>2. /\ obj.type = "Watcher" /\ obj.startTime = 0 /\ obj.stopTime = 0 /\ obj.excuting = FALSE
        /\ obj \in Watchers
    BY <2>1 DEF Watchers
  <2>3. WatcherInv
    BY <1>1, <1>9, <2>2 DEF WatcherInv
  <2>4. /\ MemoInv /\ RetryInv /\ CountersInv /\ DebouncedInv /\ ScheduleInv
        /\ ~Is("LogConfig") /\ ~Is("Rotation") /\ obj.type \in BasicsTypes
    BY <2>2 DEF MemoInv, RetryInv, CountersInv, DebouncedInv, ScheduleInv, Is, BasicsTypes
  <2>5. CallsCounted
    BY <1>9, <2>2 DEF CallsCounted, CO!CallsCounted, CO!Is, CO!GetElapsedTime
  <2> QED BY <1>1, <2>3, <2>4, <2>5 DEF BasicsInv
<1> QED BY <1>2, <1>3, <1>4, <1>5, <1>6, <1>7, <1>8, <1>9 DEF BasicsInit, CO!Init

LEMMA NextHolds == BasicsInv /\ [BasicsNext]_basicVars => BasicsInv'
<1> SUFFICES ASSUME BasicsInv, [BasicsNext]_basicVars PROVE BasicsInv'
  OBVIOUS
<1>1. CASE IM!Next /\ UNCHANGED now
  <2>1. MemoInv'
    BY <1>1, MemoStep
  <2>2. now' \in Nat /\ now' > 0
    BY <1>1 DEF BasicsInv
  <2>3. obj'.type = "IndexMemo"
    BY <1>1, MemoStep
  <2> QED BY <2>1, <2>2, <2>3, OnlyMemo
<1>2. CASE CO!Next
  BY <1>2, RetryKept, CountersKept, DebouncedKept, ScheduleKept, WatcherKept, TickKept DEF CO!Next
<1>3. CASE UNCHANGED basicVars
  <2>1. obj' = obj /\ want' = want /\ now' = now
    BY <1>3 DEF basicVars
  <2> QED BY <2>1 DEF BasicsInv, MemoInv, RetryInv, CountersInv, DebouncedInv, ScheduleInv, WatcherInv, Is,
                     CallsCounted, CO!CallsCounted, CO!Is, CO!GetElapsedTime
<1> QED BY <1>1, <1>2, <1>3 DEF BasicsNext

LEMMA BasicsInvariant == BasicsSpec => []BasicsInv
<1> QED BY InitHolds, NextHolds, PTL DEF BasicsSpec

(* An answer of IndexOf is the first index of the item in the slice when   *)
(* the slice is as it was when its memory was made, whatever it held in    *)
(* between and whatever slices were forgotten; only misses let the memory  *)
(* grow past its limit (slice.go:1043-1081).                               *)
THEOREM MemoryRight == BasicsSpec => []MemoryAnswers
<1>1. BasicsInv => MemoryAnswers
  BY MemoAnswers DEF BasicsInv
<1> QED BY <1>1, BasicsInvariant, PTL

(* For any number of calls and any duration: Retry calls as often as it    *)
(* says, After and Before invoke from and up to the n-th call, Debounced   *)
(* runs at most once for a burst of calls, Schedule waits a duration       *)
(* between two invocations and a Watcher never shows a negative time       *)
(* (retry.go:64-98, function.go:15-125, watcher.go:7-43).                  *)
THEOREM CallsRight == BasicsSpec => []CallsCounted
<1>1. BasicsInv => CallsCounted
  BY DEF BasicsInv
<1> QED BY <1>1, BasicsInvariant, PTL

(* For any configuration, with lists of levels of any length: a record     *)
(* reaches the outputs the lists and the minimum leave it, and the library *)
(* of the rotation is never asked for both an age and a number of files    *)
(* (log.go:20-395).                                                        *)
THEOREM RecordsReach == BasicsSpec => []LevelsReachOutputs
<1> QED BY ConfigurationsReach, BasicsInvariant, PTL
=============================================================================
