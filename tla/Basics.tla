------------------------------- MODULE Basics -------------------------------
(***************************************************************************)
(* The memory of slice.IndexOf and the combinators, between two of their   *)
(* calls, and the configurations of the log, which nothing changes: obj is *)
(* one of them, want what it should come to, now the clock.                *)
(***************************************************************************)
EXTENDS Objects, Integers, Sequences, FiniteSets

CONSTANTS Addresses, Contents, Items, limit,   \* slices, what they hold and are asked for
          Times, Wait,                         \* of the combinators
          MaxCalls, MaxTime,                   \* bounds on calls and clock
          LogConfigs, Rotations                \* configurations of the log

(* A time or a number of a rotation that is there is an integer; a number  *)
(* of calls is not negative, and a duration is not zero.                   *)
ASSUME BasicsAssumption ==
  /\ Contents \subseteq Seq(Items) /\ limit \in Nat
  /\ Times \subseteq Nat /\ Wait \in Nat \ {0}
  /\ \A r \in Rotations :
       /\ r.rotationTime.n \in Int /\ r.rotationTime.unit \in {"d", "h", "m", "s"}
       /\ r.maxAge.n \in Int /\ r.rotationCount.n \in Int

VARIABLE now

basicVars == <<obj, want, now>>

IM == INSTANCE IndexMemo
CO == INSTANCE Combinators
LC == INSTANCE LogCores

BasicsInit ==
  \/ CO!Init
  \/ IM!Init /\ now = 1
  \/ /\ \/ \E c \in LogConfigs : obj = [type |-> "LogConfig", c |-> c]
        \/ \E r \in Rotations : obj = [type |-> "Rotation", r |-> r]
     /\ want = 0 /\ now = 1

BasicsNext == CO!Next \/ (IM!Next /\ UNCHANGED now)

BasicsSpec == BasicsInit /\ [][BasicsNext]_basicVars

(* IndexOf answers from its memory, which is bounded but for misses.       *)
MemoryAnswers == IM!AnswersFromMemory

(* IndexOf returns the first index of the item in the slice, as slice.go:1041 *)
(* has it: the memory of a slice that has changed breaks this.             *)
IndexOfFindsFirst == IM!FindsFirst

(* The function combinators count and time their calls as they say.        *)
CallsCounted == CO!CallsCounted

(* A record reaches the outputs the configuration asks for, and every      *)
(* rotation is one the library takes.                                      *)
LevelsReachOutputs ==
  /\ Is("LogConfig") => LC!ReachesOutputs(obj.c)
  /\ Is("Rotation") => LC!RotationAccepted(obj.r)

(***************************************************************************)
(* The inductive invariants. What IndexOf remembers of a slice are the     *)
(* indexes of what it held when they were made, and its last answer came   *)
(* from them.                                                              *)
(***************************************************************************)
Memos(map, counter, last) ==
  [type : {"IndexMemo"}, arrays : [Addresses -> Contents], calls : Nat, missed : Nat,
   memoryHashMap : {map}, memoryHashCounter : {counter}, last : {last}]

MemoInv ==
  Is("IndexMemo") =>
    /\ obj \in Memos(obj.memoryHashMap, obj.memoryHashCounter, obj.last)
    /\ LET known == DOMAIN obj.memoryHashMap
       IN  /\ known \subseteq Addresses /\ IsFiniteSet(known)
           /\ Cardinality(known) <= limit + obj.missed
           /\ DOMAIN obj.memoryHashCounter = known
           /\ want \in [known -> Contents]
           /\ obj.memoryHashMap = [k \in known |-> IM!Indexes(want[k])]
           /\ obj.last.asked =>
                LET memo == obj.memoryHashMap[obj.last.key]
                IN  /\ obj.last.key \in known
                    /\ obj.last.index = IF obj.last.val \in DOMAIN memo THEN memo[obj.last.val] ELSE -1

Retries ==
  [type : {"Retry"}, times : Nat, i : Nat, at : {"loop", "select", "returned"}, timer : Int,
   cancelled : BOOLEAN, answer : {"running", "nil", "failed", "cancelled"}]
Counters == [type : {"After", "Before"}, n : Int, result : Nat]
CallCounts == [n : Nat, calls : Nat]
Debouncers == [type : {"Debounced"}, timer : Int, fired : BOOLEAN, last : Int, runs : Nat]
Schedulers == [type : {"Schedule"}, at : {"invoke", "select", "ended"}, timer : Int, quit : BOOLEAN, runs : Nat]
Watchers == [type : {"Watcher"}, startTime : Nat, stopTime : Nat, excuting : BOOLEAN]

(* Retry has failed once more than its loop counts while it waits. *)
RetryInv ==
  Is("Retry") =>
    /\ obj \in Retries
    /\ want \in Nat /\ want <= obj.times /\ obj.i <= obj.times
    /\ obj.at = "loop" => want = obj.i
    /\ obj.at = "select" => want = obj.i + 1
    /\ obj.at = "returned" => obj.answer # "running"
    /\ obj.at # "returned" => obj.answer = "running"

(* n has gone down by one for every call. *)
CountersInv ==
  Is("After") \/ Is("Before") =>
    /\ obj \in Counters /\ want \in CallCounts
    /\ obj.n = want.n - want.calls

(* The timer runs, or its time waits, from the last call on: a call less   *)
(* than the duration after it finds the timer still running.               *)
DebouncedInv ==
  Is("Debounced") =>
    /\ obj \in Debouncers
    /\ want \in Nat /\ obj.last >= -1 /\ obj.last <= now
    /\ obj.last = -1 => obj.timer = -1 /\ ~obj.fired
    /\ obj.timer # -1 => obj.timer = obj.last + Wait /\ now < obj.timer
    /\ obj.fired => obj.timer = -1
    /\ obj.last # -1 /\ now < obj.last + Wait => obj.timer # -1

(* A duration has passed for every invocation but the last. *)
ScheduleInv ==
  Is("Schedule") =>
    /\ obj \in Schedulers
    /\ obj.at = "invoke" => now >= 1 + obj.runs * Wait
    /\ obj.at # "invoke" => obj.runs > 0
    /\ obj.at = "select" => obj.timer >= 1 + obj.runs * Wait

WatcherInv ==
  Is("Watcher") =>
    /\ obj \in Watchers
    /\ want \in Int /\ obj.startTime <= now

BasicsTypes ==
  {"IndexMemo", "Retry", "After", "Before", "Debounced", "Schedule", "Watcher", "LogConfig", "Rotation"}

BasicsInv ==
  /\ obj.type \in BasicsTypes /\ now \in Nat /\ now > 0
  /\ MemoInv /\ RetryInv /\ CountersInv /\ DebouncedInv /\ ScheduleInv /\ WatcherInv
  /\ CallsCounted
  /\ Is("LogConfig") => obj.c \in LogConfigs
  /\ Is("Rotation") => obj.r \in Rotations
=============================================================================
