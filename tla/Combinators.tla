----------------------------- MODULE Combinators -----------------------------
(***************************************************************************)
(* Retry (retry.go), After, Before, Debounced, Schedule, Compose and       *)
(* Pipeline (function.go), Watcher (watcher.go): obj is one of them        *)
(* between two calls, want what it should have done, now the clock. Every  *)
(* duration is Wait ticks.                                                 *)
(***************************************************************************)
EXTENDS Loops

CONSTANTS Times,      \* the numbers given to Retry, After and Before
          Wait,
          MaxCalls,   \* bound on the calls
          MaxTime     \* bound on the clock

VARIABLES obj, want, now

vars == <<obj, want, now>>

Is(type) == obj.type = type

Retry == {[type |-> "Retry", times |-> n, i |-> 0, at |-> "loop", timer |-> -1, cancelled |-> FALSE, answer |-> "running"] : n \in Times}
Counters == {[type |-> t, n |-> n, result |-> 0] : t \in {"After", "Before"}, n \in Times}
Debouncer == [type |-> "Debounced", timer |-> -1, fired |-> FALSE, last |-> -1, runs |-> 0]
Scheduler == [type |-> "Schedule", at |-> "invoke", timer |-> -1, quit |-> FALSE, runs |-> 0]
Watcher == [type |-> "Watcher", startTime |-> 0, stopTime |-> 0, excuting |-> FALSE]

(* want counts: the failures of Retry's function; the calls of After and   *)
(* Before with their number; the bursts of calls of Debounced; for the     *)
(* Watcher it is what it should show when stopped.                         *)
Init ==
  /\ \/ obj \in Retry /\ want = 0
     \/ obj \in Counters /\ want = [n |-> obj.n, calls |-> 0]
     \/ obj \in {Debouncer, Scheduler, Watcher} /\ want = 0
  /\ now = 1

----------------------------------------------------------------------------
(* Retry: the function is called, and after a failure, the last one        *)
(* included, the timer or the context ends the wait.                       *)
CallSucceeds ==
  /\ Is("Retry") /\ obj.at = "loop" /\ obj.i < obj.times
  /\ obj' = [obj EXCEPT !.at = "returned", !.answer = "nil"]
  /\ UNCHANGED <<want, now>>

CallFails ==
  /\ Is("Retry") /\ obj.at = "loop" /\ obj.i < obj.times
  /\ obj' = [obj EXCEPT !.at = "select", !.timer = now + Wait]
  /\ want' = want + 1
  /\ UNCHANGED now

WaitOver ==
  /\ Is("Retry") /\ obj.at = "select" /\ now >= obj.timer
  /\ obj' = [obj EXCEPT !.at = "loop", !.i = @ + 1]
  /\ UNCHANGED <<want, now>>

WaitCancelled ==
  /\ Is("Retry") /\ obj.at = "select" /\ obj.cancelled
  /\ obj' = [obj EXCEPT !.at = "returned", !.answer = "cancelled"]
  /\ UNCHANGED <<want, now>>

GivesUp ==
  /\ Is("Retry") /\ obj.at = "loop" /\ obj.i >= obj.times
  /\ obj' = [obj EXCEPT !.at = "returned", !.answer = "failed"]
  /\ UNCHANGED <<want, now>>

Cancel ==
  /\ Is("Retry") /\ ~obj.cancelled /\ obj.at # "returned"
  /\ obj' = [obj EXCEPT !.cancelled = TRUE]
  /\ UNCHANGED <<want, now>>

----------------------------------------------------------------------------
(* A call of the function After or Before returned; result counts the      *)
(* invocations of fn.                                                      *)
AfterCalled ==
  /\ Is("After") /\ want.calls < MaxCalls
  /\ obj' = [obj EXCEPT !.n = @ - 1, !.result = IF obj.n - 1 < 1 THEN @ + 1 ELSE @]
  /\ want' = [want EXCEPT !.calls = @ + 1]
  /\ UNCHANGED now

BeforeCalled ==
  /\ Is("Before") /\ want.calls < MaxCalls
  /\ obj' = [obj EXCEPT !.n = @ - 1, !.result = IF obj.n > 0 THEN @ + 1 ELSE @]
  /\ want' = [want EXCEPT !.calls = @ + 1]
  /\ UNCHANGED now

(* Mutant: a timer that runs is left alone. *)
DebouncedCalledKeepsTimer ==
  /\ Is("Debounced") /\ want < MaxCalls
  /\ obj' = [obj EXCEPT !.timer = IF @ = -1 THEN now + Wait ELSE @, !.fired = FALSE, !.last = now]
  /\ want' = IF obj.last = -1 \/ now - obj.last >= Wait THEN want + 1 ELSE want
  /\ UNCHANGED now

(* Debounced: a call sets the timer anew and, since Go 1.23, takes back a  *)
(* time that nobody has received yet.                                      *)
DebouncedCalled ==
  /\ Is("Debounced") /\ want < MaxCalls
  /\ obj' = [obj EXCEPT !.timer = now + Wait, !.fired = FALSE, !.last = now]
  /\ want' = IF obj.last = -1 \/ now - obj.last >= Wait THEN want + 1 ELSE want
  /\ UNCHANGED now

DebouncedRuns ==
  /\ Is("Debounced") /\ obj.fired
  /\ obj' = [obj EXCEPT !.fired = FALSE, !.runs = @ + 1]
  /\ UNCHANGED <<want, now>>

(* Schedule: fn, then the timer or the quit channel, whichever is ready. *)
ScheduleInvokes ==
  /\ Is("Schedule") /\ obj.at = "invoke" /\ obj.runs < MaxCalls
  /\ obj' = [obj EXCEPT !.at = "select", !.timer = now + Wait, !.runs = @ + 1]
  /\ UNCHANGED <<want, now>>

ScheduleTimer ==
  /\ Is("Schedule") /\ obj.at = "select" /\ now >= obj.timer
  /\ obj' = [obj EXCEPT !.at = "invoke"]
  /\ UNCHANGED <<want, now>>

ScheduleQuits ==
  /\ Is("Schedule") /\ obj.at = "select" /\ obj.quit
  /\ obj' = [obj EXCEPT !.at = "ended"]
  /\ UNCHANGED <<want, now>>

CloseQuit ==
  /\ Is("Schedule") /\ ~obj.quit
  /\ obj' = [obj EXCEPT !.quit = TRUE]
  /\ UNCHANGED <<want, now>>

----------------------------------------------------------------------------
Start ==
  /\ Is("Watcher")
  /\ obj' = [obj EXCEPT !.startTime = now, !.excuting = TRUE]
  /\ UNCHANGED <<want, now>>

(* Stopped without having been started it shows the time itself. *)
Stop ==
  /\ Is("Watcher")
  /\ obj' = [obj EXCEPT !.stopTime = now, !.excuting = FALSE]
  /\ want' = now - obj.startTime
  /\ UNCHANGED now

Reset ==
  /\ Is("Watcher")
  /\ obj' = Watcher /\ want' = 0
  /\ UNCHANGED now

GetElapsedTime == IF obj.excuting THEN now - obj.startTime ELSE obj.stopTime - obj.startTime

(* A timer of Debounced that is due goes off: it holds the time until it   *)
(* is received.                                                            *)
Tick ==
  /\ \E type \in {"Retry", "Debounced", "Schedule", "Watcher"} : Is(type)
  /\ now < MaxTime
  /\ now' = now + 1
  /\ obj' = IF Is("Debounced") /\ obj.timer = now + 1 THEN [obj EXCEPT !.timer = -1, !.fired = TRUE] ELSE obj
  /\ UNCHANGED want

Next ==
  \/ CallSucceeds \/ CallFails \/ WaitOver \/ WaitCancelled \/ GivesUp \/ Cancel
  \/ AfterCalled \/ BeforeCalled \/ DebouncedCalled \/ DebouncedRuns
  \/ ScheduleInvokes \/ ScheduleTimer \/ ScheduleQuits \/ CloseQuit
  \/ Start \/ Stop \/ Reset \/ Tick

Spec == Init /\ [][Next]_vars

(* Functions are sequences over their arguments 1, 2, ... *)
Compose(fns, x) ==
  LET From[i \in 1 .. Len(fns)] == fns[i][IF i = Len(fns) THEN x ELSE From[i + 1]] IN From[1]
Pipeline(fns, x) == Each(x, fns, LAMBDA result, fn : fn[result])

(* Retry.go: the function is called at most times times; Retry gives up    *)
(* only after exactly that many failures, and says nil only of a success;  *)
(* cancelled is said at a wait, also at the one after the last failure.    *)
(* Function.go: After invokes fn from the n-th call on, Before in the      *)
(* first n; Debounced runs fn at most once for each burst of calls that    *)
(* are less than the duration apart; Schedule stops only when it was told  *)
(* to, and until then invokes at least a duration apart. Watcher.go: the   *)
(* time shown is never negative, and stands still once stopped.            *)
CallsCounted ==
  /\ Is("Retry") =>
       /\ want <= obj.times
       /\ obj.answer = "failed" => want = obj.times
       /\ obj.answer = "nil" => want < obj.times
       /\ obj.answer = "cancelled" => obj.cancelled /\ want > 0
       /\ obj.at = "loop" => want = obj.i
  /\ Is("After") => obj.result = IF want.calls < want.n THEN 0 ELSE want.calls - (IF want.n < 1 THEN 1 ELSE want.n) + 1
  /\ Is("Before") => obj.result = IF want.calls < want.n THEN want.calls ELSE want.n
  /\ Is("Debounced") => obj.runs + (IF obj.fired THEN 1 ELSE 0) + (IF obj.timer = -1 THEN 0 ELSE 1) <= want
  /\ Is("Schedule") => /\ obj.at = "ended" => obj.quit
                       /\ obj.runs > 0 => now >= 1 + (obj.runs - 1) * Wait
  /\ Is("Watcher") => GetElapsedTime >= 0 /\ (~obj.excuting => GetElapsedTime = want)

ComposeIsPipeline(fns, x) == Compose(fns, x) = Pipeline([i \in DOMAIN fns |-> fns[Len(fns) + 1 - i]], x)
=============================================================================
