------------------------------ MODULE Iterators ------------------------------
(***************************************************************************)
(* The iterators (iterator.go, operation.go): obj.it is an iterator, which *)
(* may be built from others, and want the values it has still to give, by  *)
(* the documentation of Prev as well. The channel of ToChannel and its     *)
(* goroutine belong to obj when there is one.                              *)
(***************************************************************************)
EXTENDS Loops

CONSTANTS Slices,     \* the slices iterated over
          MaxSteps    \* bound on the calls

VARIABLES obj, want

vars == <<obj, want>>

FromSlice(s) == [kind |-> "slice", slice |-> s, index |-> -1]
FromRange(start, end, step) == [kind |-> "range", start |-> start, end |-> end, step |-> step]
Map(it) == [kind |-> "map", it |-> it]
Filter(it) == [kind |-> "filter", it |-> it]
Join(its) == [kind |-> "join", its |-> its]
Take(it, num) == [kind |-> "take", it |-> it, num |-> num]

(* The functions given to Map and Filter. *)
iteratee(x) == 10 * x
predicateFunc(x) == x # 2

RECURSIVE HasNext(_), Next1(_)
HasNext(it) ==
  CASE it.kind = "slice"            -> it.index < Len(it.slice) - 1
    [] it.kind = "range"            -> it.start < it.end
    [] it.kind \in {"map", "filter"} -> HasNext(it.it)
    [] it.kind = "join"             -> \E i \in DOMAIN it.its : HasNext(it.its[i])
    [] it.kind = "take"             -> it.num > 0

(* Next of an iterator: the iterator after it, whether the item is valid,  *)
(* and the item.                                                           *)
Gives(it, item) == [it |-> it, ok |-> TRUE, item |-> item]
Ended(it) == [it |-> it, ok |-> FALSE, item |-> 0]
Inner(it, r) == [r EXCEPT !.it = [it EXCEPT !.it = r.it]]

SliceNext(it) ==
  LET on == [it EXCEPT !.index = @ + 1]
  IN  IF on.index >= 0 /\ on.index < Len(it.slice) THEN Gives(on, it.slice[on.index + 1]) ELSE Ended(on)
RangeNext(it) == IF it.start >= it.end THEN Ended(it) ELSE Gives([it EXCEPT !.start = @ + it.step], it.start)
MapNext(it) == LET r == Inner(it, Next1(it.it)) IN IF r.ok THEN [r EXCEPT !.item = iteratee(@)] ELSE r
(* Mutant: an item the predicate refuses ends the iteration. *)
FilterNextOnce(it) ==
  LET r == Inner(it, Next1(it.it)) IN IF r.ok /\ ~predicateFunc(r.item) THEN Ended(r.it) ELSE r

FilterNext(it) ==
  LET r == Inner(it, Next1(it.it)) IN IF r.ok /\ ~predicateFunc(r.item) THEN Next1(r.it) ELSE r
JoinNext(it) ==
  IF it.its = <<>> THEN Ended(it)
  ELSE LET r == Next1(it.its[1])
       IN  IF r.ok THEN Gives([it EXCEPT !.its[1] = r.it], r.item) ELSE Next1([it EXCEPT !.its = Tail(@)])
TakeNext(it) ==
  IF it.num <= 0 THEN Ended(it)
  ELSE LET r == Inner(it, Next1(it.it)) IN IF r.ok THEN [r EXCEPT !.it.num = @ - 1] ELSE r

Next1(it) ==
  CASE it.kind = "slice"  -> SliceNext(it)
    [] it.kind = "range"  -> RangeNext(it)
    [] it.kind = "map"    -> MapNext(it)
    [] it.kind = "filter" -> FilterNext(it)
    [] it.kind = "join"   -> JoinNext(it)
    [] it.kind = "take"   -> TakeNext(it)

RECURSIVE ToSlice(_), Reduce(_, _)
ToSlice(it) == LET r == Next1(it) IN IF r.ok THEN <<r.item>> \o ToSlice(r.it) ELSE <<>>
Reduce(it, acc) == LET r == Next1(it) IN IF r.ok THEN Reduce(r.it, acc + r.item) ELSE acc

(* What an iterator has to give, from what it is built of. *)
RECURSIVE Content(_)
Content(it) ==
  CASE it.kind = "slice"  -> it.slice
    [] it.kind = "range"  -> [i \in 1 .. (it.end - it.start + it.step - 1) \div it.step |-> it.start + (i - 1) * it.step]
    [] it.kind = "map"    -> [i \in DOMAIN Content(it.it) |-> iteratee(Content(it.it)[i])]
    [] it.kind = "filter" -> SelectSeq(Content(it.it), predicateFunc)
    [] it.kind = "join"   -> Each(<<>>, it.its, LAMBDA s, i : s \o Content(i))
    [] it.kind = "take"   -> SubSeq(Content(it.it), 1, IF it.num < Len(Content(it.it)) THEN it.num ELSE Len(Content(it.it)))

Simple == {FromSlice(s) : s \in Slices} \cup {FromRange(1, end, step) : end \in {1, 4}, step \in {1, 2}}
Built == {Map(it) : it \in Simple} \cup {Filter(it) : it \in Simple} \cup {Take(it, n) : it \in Simple, n \in {0, 1, 3}}
         \cup {Join(<<a, b>>) : a \in Simple, b \in Simple}
Nested == {Take(Filter(Join(<<a, b>>)), 2) : a \in Simple, b \in Simple} \cup {Join(<<>>)}

NoChannel == [at |-> "none", item |-> 0, buffer |-> <<>>, size |-> 0, cancelled |-> FALSE]

Init ==
  \E it \in Simple \cup Built \cup Nested, at \in {"none", "pull"}, size \in 0 .. 2 :
    /\ at = "none" => size = 0
    /\ at = "pull" => it \in Simple
    /\ obj = [type |-> "Iterator", it |-> it, turned |-> FALSE, ended |-> FALSE, steps |-> 0,
              channel |-> [NoChannel EXCEPT !.at = at, !.size = size]]
    /\ want = Content(it)

Live == obj.type = "Iterator" /\ obj.steps < MaxSteps
Alone == Live /\ obj.channel.at = "none"

(* A caller's Next; ended says that it gave none. *)
Pull ==
  LET r == Next1(obj.it)
  IN  /\ Alone
      /\ obj' = [obj EXCEPT !.it = r.it, !.ended = ~r.ok, !.steps = @ + 1]
      /\ want' = IF want = <<>> THEN want ELSE Tail(want)

(* Prev of a slice iterator moves back by one, but from the last element   *)
(* on to the last element, where it stays: turned. By its documentation    *)
(* Next gives the element it moved back to again.                          *)
Prev ==
  LET s == obj.it.slice
  IN  /\ Alone /\ obj.it.kind = "slice" /\ obj.it.index # -1
      /\ obj' = [obj EXCEPT !.it.index = IF HasNext(obj.it) THEN @ - 1 ELSE Len(s) - 1,
                            !.turned = @ \/ (~HasNext(obj.it) /\ s # <<>>),
                            !.steps = @ + 1, !.ended = FALSE]
      /\ want' = IF HasNext(obj.it) THEN <<s[obj.it.index + 1]>> \o want ELSE IF s = <<>> THEN <<>> ELSE <<s[Len(s)]>>

Set ==
  /\ Alone /\ obj.it.kind = "slice" /\ obj.it.index \in 0 .. Len(obj.it.slice) - 1
  /\ obj' = [obj EXCEPT !.it.slice[obj.it.index + 1] = 7, !.steps = @ + 1]
  /\ UNCHANGED want

----------------------------------------------------------------------------
(* ToChannel's goroutine pulls an item, then sends it or meets the end of  *)
(* the context, and closes the channel when it returns.                    *)
GoroutinePulls ==
  LET r == Next1(obj.it)
  IN  /\ Live /\ obj.channel.at = "pull"
      /\ obj' = [obj EXCEPT !.it = r.it, !.channel.item = r.item, !.channel.at = IF r.ok THEN "send" ELSE "closed"]
      /\ UNCHANGED want

Sends ==
  /\ Live /\ obj.channel.at = "send" /\ Len(obj.channel.buffer) < obj.channel.size
  /\ obj' = [obj EXCEPT !.channel.buffer = Append(@, obj.channel.item), !.channel.at = "pull"]
  /\ UNCHANGED want

Quits ==
  /\ Live /\ obj.channel.at = "send" /\ obj.channel.cancelled
  /\ obj' = [obj EXCEPT !.channel.at = "closed"]
  /\ UNCHANGED want

Cancel ==
  /\ Live /\ obj.channel.at # "none" /\ ~obj.channel.cancelled
  /\ obj' = [obj EXCEPT !.channel.cancelled = TRUE]
  /\ UNCHANGED want

(* The consumer, FromChannel's Next: from the buffer, from a goroutine     *)
(* that is sending, or the end when the channel is closed and empty.       *)
Receives ==
  /\ Live /\ obj.channel.buffer # <<>>
  /\ obj' = [obj EXCEPT !.channel.buffer = Tail(@), !.steps = @ + 1]
  /\ want' = Tail(want)
ReceivesDirectly ==
  /\ Live /\ obj.channel.at = "send" /\ obj.channel.buffer = <<>>
  /\ obj' = [obj EXCEPT !.channel.at = "pull", !.steps = @ + 1]
  /\ want' = Tail(want)
ReceivesEnd ==
  /\ Live /\ obj.channel.at = "closed" /\ obj.channel.buffer = <<>> /\ ~obj.ended
  /\ obj' = [obj EXCEPT !.ended = TRUE, !.steps = @ + 1]
  /\ UNCHANGED want

Next ==
  \/ Pull \/ Prev \/ Set
  \/ GoroutinePulls \/ Sends \/ Quits \/ Cancel \/ Receives \/ ReceivesDirectly \/ ReceivesEnd

Spec == Init /\ [][Next]_vars

(* Iterator.go, operation.go: Next gives the items that are left, and none *)
(* only when none is; HasNext never denies an item that is left, and is    *)
(* exact but for Filter and Take, which do not look further; what is left  *)
(* is what ToSlice collects. Nothing is claimed once Prev was called at or *)
(* behind the last element, which Next should then give again              *)
(* (iterator.go:66-71) and does not.                                       *)
GivesWhatIsLeft ==
  obj.type = "Iterator" /\ obj.channel.at = "none" /\ ~obj.turned =>
    /\ want # <<>> => HasNext(obj.it)
    /\ obj.it.kind \notin {"filter", "take"} => (HasNext(obj.it) <=> want # <<>>)
    /\ ToSlice(obj.it) = want
    /\ Reduce(obj.it, 0) = Each(0, want, LAMBDA acc, x : acc + x)
    /\ obj.ended => want = <<>>

(* Iterator.go:190-207: until the goroutine returns, what the consumer has *)
(* still to get is what waits in the channel, what the goroutine holds and *)
(* what the iterator has left, cancelled or not; a closed channel still    *)
(* gives a prefix of it, and all of it unless the context was cancelled;   *)
(* and the consumer's Next ends only then.                                 *)
ChannelGivesAll ==
  obj.type = "Iterator" /\ obj.channel.at # "none" =>
    LET c == obj.channel
    IN  /\ c.at = "pull" => want = c.buffer \o ToSlice(obj.it)
        /\ c.at = "send" => want = c.buffer \o <<c.item>> \o ToSlice(obj.it)
        /\ c.at = "closed" => c.buffer = SubSeq(want, 1, Len(c.buffer)) /\ (~c.cancelled => want = c.buffer)
        /\ obj.ended => c.at = "closed" /\ c.buffer = <<>>
=============================================================================
