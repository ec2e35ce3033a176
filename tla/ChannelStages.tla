--------------------------- MODULE ChannelStages ---------------------------
(***************************************************************************)
(* src/util/concurrency/channel.go: the goroutines behind Generate,        *)
(* Repeat, Take, FanIn, Tee, Bridge, Or and OrDone, in small networks.     *)
(*                                                                         *)
(* All channels are unbuffered: a value passes in one step, from a         *)
(* goroutine that offers it to one that awaits it.  A closed channel hands *)
(* its receivers zero values.  One context is shared by all stages of a    *)
(* network; anybody may cancel it at any time.  A consumer ranges over an  *)
(* output for as long as it likes.                                         *)
(*                                                                         *)
(* A network names its goroutines and says, for each, what it executes,    *)
(* which channels it reads and which it writes.                            *)
(***************************************************************************)
EXTENDS Naturals, Sequences, SequencesExt

CONSTANTS Values,    \* what the generators send: Values["gen1"], Values["gen2"]
          MaxTake    \* bound: the largest number given to Take

Zero == 0            \* the element type's zero value

ASSUME ConstantsAssumption ==
    /\ DOMAIN Values = {"gen1", "gen2"}
    /\ \A g \in DOMAIN Values : Values[g] \in Seq(Nat \ {Zero}) /\ Values[g] # <<>>
    /\ Range(Values["gen1"]) \cap Range(Values["gen2"]) = {}
    /\ MaxTake \in Nat

Stage(kind, in, out) == [kind |-> kind, in |-> in, out |-> out]
Generate(out) == Stage("generate", {}, out)
Consume(in) == Stage("consumer", in, {})

(* "silent" is OrDone over a channel of the caller's that never closes;    *)
(* "or" is Or of five channels: or1 runs the outer call and or2 the nested *)
(* one, which also selects on orDone of the outer call and on its own.     *)
Networks ==
    [orDone |-> [gen1   |-> Generate({"a"}),
                 orDone |-> Stage("orDone", {"a"}, {"x"}),
                 con1   |-> Consume({"x"})],
     silent |-> [gen1   |-> Stage("source", {}, {"a"}),
                 orDone |-> Stage("orDone", {"a"}, {"x"}),
                 con1   |-> Consume({"x"})],
     take   |-> [gen1   |-> Generate({"a"}),
                 take   |-> Stage("take", {"a"}, {"x"}),
                 con1   |-> Consume({"x"})],
     repeat |-> [gen1   |-> Stage("repeat", {}, {"a"}),
                 take   |-> Stage("take", {"a"}, {"x"}),
                 con1   |-> Consume({"x"})],
     fanIn  |-> [gen1   |-> Generate({"a"}),
                 gen2   |-> Generate({"b"}),
                 merge1 |-> Stage("merge", {"a"}, {"x"}),
                 merge2 |-> Stage("merge", {"b"}, {"x"}),
                 joiner |-> Stage("joiner", {}, {"x"}),
                 con1   |-> Consume({"x"})],
     tee    |-> [gen1   |-> Generate({"a"}),
                 orDone |-> Stage("orDone", {"a"}, {"m"}),
                 tee    |-> Stage("tee", {"m"}, {"x", "y"}),
                 con1   |-> Consume({"x"}),
                 con2   |-> Consume({"y"})],
     bridge |-> [gen1   |-> Generate({"a"}),
                 gen2   |-> Generate({"b"}),
                 lister |-> Generate({"s"}),
                 bridge |-> Stage("bridge", {"s"}, {"x"}),
                 inner1 |-> Stage("orDone", {"a"}, {"i"}),
                 inner2 |-> Stage("orDone", {"b"}, {"j"}),
                 con1   |-> Consume({"x"})],
     or     |-> [sig1   |-> Stage("signal", {}, {"a"}),
                 sig2   |-> Stage("signal", {}, {"b"}),
                 sig3   |-> Stage("signal", {}, {"c"}),
                 sig4   |-> Stage("signal", {}, {"d"}),
                 sig5   |-> Stage("signal", {}, {"e"}),
                 or1    |-> Stage("or", {"a", "b", "c", "y"}, {"x"}),
                 or2    |-> Stage("or", {"d", "e", "x", "y"}, {"y"}),
                 con1   |-> Consume({"x"})]]

Inner == <<"inner1", "inner2">>   \* the OrDone that Bridge starts for each stream

AllGoroutines == UNION {DOMAIN Networks[n] : n \in DOMAIN Networks}
AllConsumers == {"con1", "con2"}

VARIABLES
    net,        \* the network that runs
    st,         \* local state of each goroutine
    closed,     \* the closed channels
    cancelled,  \* ctx.Done() is closed
    got,        \* what each consumer received
    limit       \* the number given to Take

vars == <<net, st, closed, cancelled, got, limit>>

Goroutines == DOMAIN Networks[net]
Kind(g) == Networks[net][g].kind
In(g) == Networks[net][g].in
Out(g) == Networks[net][g].out
Consumers == AllConsumers \cap Goroutines

(* pc: where it is; from: the channels its receive names; val: the value   *)
(* in its hands; on: the channels it offers val on; todo: what a generator *)
(* has still to send; n: the rounds left of a counted loop.                *)
Local(pc) == [pc |-> pc, from |-> {}, val |-> Zero, on |-> {}, todo |-> <<>>, n |-> 0]

Sending(g, s, todo) ==
    [s EXCEPT !.pc = "send", !.val = Head(todo), !.todo = Tail(todo), !.on = Out(g)]
Receiving(g, s) == [s EXCEPT !.pc = "recv", !.from = In(g), !.on = {}]
Leaving(s) == [s EXCEPT !.pc = "exit", !.from = {}, !.on = {}]

(* The loop head i < number of Take; the mutant stops a round early. *)
NextRoundShort(g, s) == IF s.n <= 1 THEN Leaving(s) ELSE Receiving(g, s)
NextRound(g, s) == IF s.n = 0 THEN Leaving(s) ELSE Receiving(g, s)

Start(g) ==
    CASE g = "lister" -> Sending(g, Local("send"), <<1, 2>>)
      [] g # "lister" /\ Kind(g) \in {"generate", "repeat", "source"} ->
            Sending(g, Local("send"), Values[g])
      [] Kind(g) = "take" -> NextRound(g, [Local("recv") EXCEPT !.n = limit])
      [] Kind(g) \in {"signal", "joiner"} -> Local("wait")
      [] g \in Range(Inner) -> Local("unborn")
      [] Kind(g) \in {"orDone", "merge", "tee", "bridge", "or", "consumer"}
            /\ g \notin Range(Inner) -> Receiving(g, Local("recv"))

Init ==
    /\ net \in DOMAIN Networks
    /\ limit \in IF net \in {"take", "repeat"} THEN 0 .. MaxTake ELSE {0}
    /\ st = [g \in Goroutines |-> Start(g)]
    /\ closed = {}
    /\ cancelled = FALSE
    /\ got = [g \in Consumers |-> <<>>]
-----------------------------------------------------------------------------
(* What a stage does with a value it received *)

BridgeLists(g) == Kind(g) = "bridge" /\ st[g].from = In(g)

(* Tee sends its copy in two rounds; the mutants in one, or in three. *)
OneTeeRound == 1
ThreeTeeRounds == 3
TeeRounds == 2

(* Bridge's select received a stream: it starts OrDone on it and ranges    *)
(* over what that returns; any other value is passed on.                   *)
Received(g, v) ==
    IF BridgeLists(g)
    THEN [st[g] EXCEPT !.from = Networks[net][Inner[v]].out]
    ELSE [st[g] EXCEPT !.pc = "send", !.val = v, !.on = Out(g),
                       !.n = IF Kind(g) = "tee" THEN TeeRounds ELSE @]

(* The channel a goroutine reads is closed.  Only Take looks at the value  *)
(* without looking at ok.  Bridge lists the next stream.  Mutant of AtEnd: *)
(* Bridge returns at the end of its first stream.                          *)
AtEndBridgeLeaves(g) ==
    IF Kind(g) = "take" THEN Received(g, Zero) ELSE Leaving(st[g])

AtEnd(g) ==
    CASE Kind(g) = "take" -> Received(g, Zero)
      [] Kind(g) = "bridge" /\ ~BridgeLists(g) -> Receiving(g, st[g])
      [] Kind(g) # "take" /\ (Kind(g) = "bridge" => BridgeLists(g)) -> Leaving(st[g])

(* Tee sets the output it served to nil; the mutant does not. *)
StillServed(s, c) == s
Served(s, c) == [s EXCEPT !.on = @ \ {c}]

(* A round of Tee ends, by a send or by ctx.Done(). *)
TeeRound(s) == IF s.n = 1 THEN [s EXCEPT !.pc = "recv", !.on = {}, !.n = 0]
               ELSE [s EXCEPT !.n = @ - 1]

(* Back from the select that sends, with nothing in hand. *)
Resumed(s) == [s EXCEPT !.pc = "recv", !.on = {}]

Sent(g, c) ==
    LET s == st[g] IN
    CASE Kind(g) = "generate" -> IF s.todo = <<>> THEN Leaving(s) ELSE Sending(g, s, s.todo)
      [] Kind(g) = "repeat" -> Sending(g, s, IF s.todo = <<>> THEN Values[g] ELSE s.todo)
      [] Kind(g) = "source" -> IF s.todo = <<>> THEN [Resumed(s) EXCEPT !.pc = "silent"]
                               ELSE Sending(g, s, s.todo)
      [] Kind(g) = "take" -> NextRound(g, [s EXCEPT !.n = @ - 1])
      [] Kind(g) = "tee" -> TeeRound(Served(s, c))
      [] Kind(g) \in {"orDone", "merge", "bridge"} -> Resumed(s)

(* The selects with a case <-ctx.Done().  Take and FanIn's goroutines wait *)
(* for a value without one.  In the mutant OrDone does, too.               *)
HeedsAtDeafReceive(kind) ==
    CASE kind \in {"generate", "repeat", "take", "merge", "tee", "orDone"} -> {"send"}
      [] kind = "bridge" -> {"recv", "send"}
      [] kind \in {"source", "signal", "joiner", "or", "consumer"} -> {}

HeedsAt(kind) ==
    CASE kind \in {"generate", "repeat", "take", "merge", "tee"} -> {"send"}
      [] kind \in {"orDone", "bridge"} -> {"recv", "send"}
      [] kind \in {"source", "signal", "joiner", "or", "consumer"} -> {}

Heeds(g) ==
    /\ st[g].pc \in HeedsAt(Kind(g))
    /\ Kind(g) = "bridge" /\ st[g].pc = "recv" => BridgeLists(g)

(* What a stage does when that case is taken: the stages that return, and  *)
(* those that drop the value in hand and go on.  A round of Tee just ends. *)
Heeded(g) ==
    IF Kind(g) = "tee" THEN TeeRound(st[g])
    ELSE IF Kind(g) \in {"orDone", "bridge"} /\ st[g].pc = "send" THEN Resumed(st[g])
    ELSE Leaving(st[g])
-----------------------------------------------------------------------------
(* Actions *)

Awaits(g, c) == st[g].pc = "recv" /\ c \in st[g].from

Offers(g, c) == st[g].pc = "send" /\ c \in st[g].on

(* An unbuffered channel hands v from s to r. *)
Transfer(s, r, c) ==
    /\ Offers(s, c) /\ Awaits(r, c) /\ c \notin closed
    /\ LET v == st[s].val
           here == [st EXCEPT ![s] = Sent(s, c)]
       IN IF Kind(r) = "consumer"
          THEN /\ st' = here
               /\ got' = [got EXCEPT ![r] = Append(@, v)]
          ELSE /\ st' = [g \in Goroutines |->
                           IF g = r THEN Received(r, v)
                           ELSE IF BridgeLists(r) /\ g = Inner[v] THEN Receiving(g, st[g])
                           ELSE here[g]]
               /\ got' = got
    /\ UNCHANGED <<net, closed, cancelled, limit>>

(* A closed channel hands its receivers zero values. *)
Exhausted(r, c) ==
    /\ Awaits(r, c) /\ c \in closed
    /\ st' = [st EXCEPT ![r] = AtEnd(r)]
    /\ UNCHANGED <<net, closed, cancelled, got, limit>>

(* wg.Wait() returns when every worker has called Done; the mutant waits   *)
(* for one of them.                                                        *)
JoinAny ==
    \E g \in Goroutines : Kind(g) = "merge" /\ st[g].pc = "done"

JoinAll ==
    \A g \in Goroutines : Kind(g) = "merge" => st[g].pc = "done"

Join(g) ==
    /\ Kind(g) = "joiner" /\ st[g].pc = "wait" /\ JoinAll
    /\ st' = [st EXCEPT ![g] = Leaving(@)]
    /\ UNCHANGED <<net, closed, cancelled, got, limit>>

(* The deferred calls: a stage closes what it writes, except that FanIn's  *)
(* workers only call Done.  Mutants: Or forgets its close; every stage     *)
(* closes its outputs.                                                     *)
ClosesNothingInOr(g) == IF Kind(g) \in {"merge", "or"} THEN {} ELSE Out(g)
ClosesAlways(g) == Out(g)
Closes(g) == IF Kind(g) = "merge" THEN {} ELSE Out(g)

Exit(g) ==
    /\ st[g].pc = "exit"
    /\ st' = [st EXCEPT ![g].pc = "done"]
    /\ closed' = closed \cup Closes(g)
    /\ UNCHANGED <<net, cancelled, got, limit>>

Heed(g) ==
    /\ g \in Goroutines
    /\ cancelled /\ Heeds(g)
    /\ st' = [st EXCEPT ![g] = Heeded(g)]
    /\ UNCHANGED <<net, closed, cancelled, got, limit>>

(* The steps that g takes by itself, a receive among them. *)
Own(g) ==
    /\ g \in Goroutines
    /\ \/ \E s \in Goroutines, c \in st[g].from : Transfer(s, g, c)
       \/ \E c \in st[g].from : Exhausted(g, c)
       \/ Join(g)
       \/ Exit(g)

(* A caller's channel given to Or closes. *)
Fire(g) ==
    /\ Kind(g) = "signal" /\ st[g].pc = "wait"
    /\ st' = [st EXCEPT ![g] = Leaving(@)]
    /\ UNCHANGED <<net, closed, cancelled, got, limit>>

Cancel ==
    /\ net # "or" /\ ~cancelled
    /\ cancelled' = TRUE
    /\ UNCHANGED <<net, st, closed, got, limit>>

(* A caller's own goroutine may stay blocked on its send for ever. *)
Terminated ==
    /\ \A g \in Goroutines :
          Kind(g) # "source" => st[g].pc \in {"done", "unborn"}
    /\ UNCHANGED vars

Next ==
    \/ \E g \in Goroutines : Own(g) \/ Heed(g) \/ Fire(g)
    \/ Cancel
    \/ Terminated

Spec == Init /\ [][Next]_vars

Stages == AllGoroutines \ AllConsumers

(* The scheduler runs every goroutine that can run, and a select whose     *)
(* ctx.Done() case stays ready picks it eventually: it picks at random.    *)
(* Nothing is assumed of the consumers.                                    *)
FairSpec == Spec /\ \A g \in Stages : WF_vars(Own(g)) /\ WF_vars(Heed(g))
-----------------------------------------------------------------------------
(* Properties *)

PCs == {"unborn", "wait", "send", "recv", "exit", "done", "silent"}

(* Every goroutine is at a point of its code with something to offer only  *)
(* where it sends; a counted loop never runs below zero rounds.            *)
TypeOK ==
    /\ net \in DOMAIN Networks
    /\ limit \in 0 .. MaxTake
    /\ cancelled \in BOOLEAN
    /\ closed \subseteq UNION {Out(g) : g \in Goroutines}
    /\ DOMAIN got = Consumers
    /\ \A c \in Consumers : got[c] \in Seq(Nat)
    /\ DOMAIN st = Goroutines
    /\ \A g \in Goroutines :
          /\ st[g].pc \in PCs
          /\ st[g].n \in 0 .. MaxTake + TeeRounds
          /\ (st[g].pc = "send") <=> (st[g].on # {})
          /\ (st[g].pc = "recv") => (st[g].from # {})

(* No send on a closed channel and no second close, either of which panics *)
(* in Go: FanIn's out is written by several goroutines and closed by yet   *)
(* another (channel.go:106-124), Tee closes two (136-137).                 *)
NeverPanics ==
    \A g \in Goroutines :
        /\ st[g].on \cap closed = {}
        /\ st[g].pc = "exit" => Closes(g) \cap closed = {}

(* What generator g sends when nobody cancels. *)
Source(g) ==
    IF Kind(g) = "repeat"
    THEN [i \in 1 .. limit |-> Values[g][1 + ((i - 1) % Len(Values[g]))]]
    ELSE Values[g]

Sources == {g \in Goroutines : g \in DOMAIN Values}

(* Where in what a consumer received g's values are. *)
ReceivedOf(c, g) == {i \in DOMAIN got[c] : got[c][i] \in Range(Values[g])}

(* The values w[i], i in places, are some of s[1], ..., s[u] in this order *)
(* and, where all have to be there, each of these once.                    *)
InLine(s, u, places, w, all) ==
    \E at \in [places -> 1 .. u] :
        /\ \A i, j \in places : i < j => at[i] < at[j]
        /\ \A i \in places : w[i] = s[at[i]]
        /\ all => \A m \in 1 .. u : \E i \in places : at[i] = m

(* Nothing is invented, duplicated or reordered on the way through the     *)
(* stages: each consumer has a prefix of each source while the context is  *)
(* live and a subsequence afterwards (OrDone and Bridge drop the value in  *)
(* hand and go on, channel.go:237-240, 177-180).  Only Take hands out zero *)
(* values, after all the real ones and only when its source has closed.    *)
(* Bridge finishes one stream before the next.                             *)
InOrder ==
    \A c \in Consumers :
        /\ \A g \in Sources : \E u \in 0 .. Len(Source(g)) :
              InLine(Source(g), u, ReceivedOf(c, g), got[c], ~cancelled)
        /\ \A i \in DOMAIN got[c] :
              got[c][i] = Zero =>
                  /\ net \in {"take", "repeat"} /\ "a" \in closed
                  /\ \A j \in i .. Len(got[c]) : got[c][j] = Zero
        /\ net = "bridge" =>
              \A i, j \in DOMAIN got[c] :
                  got[c][i] \in Range(Values["gen1"]) /\ got[c][j] \in Range(Values["gen2"])
                      => i < j

Total ==
    CASE net \in {"take", "repeat"} -> limit
      [] net \in {"fanIn", "bridge"} -> Len(Values["gen1"]) + Len(Values["gen2"])
      [] net \in {"orDone", "silent", "tee"} -> Len(Values["gen1"])
      [] net = "or" -> 0

(* A consumer whose range loop ended without a cancellation has received   *)
(* everything: no stage closes its output early (FanIn waits for all its   *)
(* workers, channel.go:122-123; Bridge goes on after each stream, 164;     *)
(* Take hands out exactly number values, 89).                              *)
ClosedMeansComplete ==
    \A g \in Consumers :
        (~cancelled /\ In(g) \subseteq closed) => Len(got[g]) = Total

(* While the context is live Tee's consumers are never more than one value *)
(* apart and never disagree: each copy goes to both (channel.go:139-149).  *)
TeeInStep ==
    (net = "tee" /\ ~cancelled) =>
        /\ Len(got["con1"]) <= Len(got["con2"]) + 1
        /\ Len(got["con2"]) <= Len(got["con1"]) + 1
        /\ IsPrefix(got["con1"], got["con2"]) \/ IsPrefix(got["con2"], got["con1"])

(* Cancelling ends every stage, whatever the consumers do and even when    *)
(* OrDone's channel never closes: no goroutine is left behind.  Take and   *)
(* FanIn, deaf where they receive, end because what they read ends.        *)
CancelTerminates ==
    cancelled ~> \A g \in Goroutines :
                    Kind(g) \notin {"consumer", "source"} => st[g].pc \in {"done", "unborn"}

(* Consumers that keep ranging receive everything, unless the context is   *)
(* cancelled: no cycle of goroutines waits on itself.                      *)
ConsumersFair == \A c \in AllConsumers : WF_vars(Own(c))

Delivers ==
    ConsumersFair => <>(cancelled \/ \A c \in Consumers : Len(got[c]) = Total)

(* Whichever of five channels closes, both levels of Or close: the outer   *)
(* one through the nested one's output, the nested one through orDone,     *)
(* which it was given for that (channel.go:214).                           *)
OrCloses ==
    (net = "or" /\ \E c \in {"a", "b", "c", "d", "e"} : c \in closed) ~> ({"x", "y"} \subseteq closed)

(* channel.go:81: the values of the returned channel "are taken from       *)
(* another channel".                                                       *)
TakeOnlyTakes ==
    (net = "take" /\ ~cancelled) =>
        \A i \in DOMAIN got["con1"] : got["con1"][i] \in Range(Values["gen1"])

-----------------------------------------------------------------------------
(***************************************************************************)
(* The inductive invariants behind the theorems: that every goroutine's    *)
(* local state fits the point of its code it is at, that no value is lost  *)
(* while nobody cancels, and that none overtakes another.                  *)
(***************************************************************************)
(* The points of its code that a goroutine of each kind can be at, *)
Channels == {"a", "b", "c", "d", "e", "s", "i", "j", "m", "x", "y"}

Points ==
    [generate |-> {"send", "exit", "done"},
     repeat   |-> {"send", "exit", "done"},
     source   |-> {"send", "silent"},
     signal   |-> {"wait", "exit", "done"},
     joiner   |-> {"wait", "exit", "done"},
     or       |-> {"recv", "exit", "done"},
     consumer |-> {"recv", "exit", "done"},
     take     |-> {"recv", "send", "exit", "done"},
     merge    |-> {"recv", "send", "exit", "done"},
     tee      |-> {"recv", "send", "exit", "done"},
     bridge   |-> {"recv", "send", "exit", "done"},
     orDone   |-> {"unborn", "recv", "send", "exit", "done"}]

(* what its local state s is like there, *)
LocalOK(g, s) ==
    /\ s \in [pc : PCs, from : SUBSET Channels, val : Nat, on : SUBSET Channels,
              todo : Seq(Nat), n : Nat]
    /\ s.pc \in Points[Kind(g)]
    /\ s.on \subseteq Out(g)
    /\ s.pc = "send" <=> s.on # {}
    /\ s.pc = "recv" => s.from # {}
    /\ Kind(g) \notin {"take", "tee"} => s.n = 0
    /\ Kind(g) = "take" => s.n <= limit /\ (s.pc \in {"recv", "send"} => s.n > 0)
    /\ Kind(g) = "tee" => IF s.pc = "send" THEN s.n = 1 \/ (s.n = 2 /\ s.on = Out(g))
                          ELSE s.n = 0
    /\ Kind(g) # "bridge" /\ s.pc \in {"recv", "send"} => s.from = In(g)
    /\ Kind(g) = "bridge" /\ s.pc = "recv" => s.from \in {{"s"}, {"i"}, {"j"}}
    /\ Kind(g) = "bridge" /\ s.pc = "send" => s.from \in {{"i"}, {"j"}}
    /\ g = "lister" /\ s.pc = "send" => \/ s.val = 1 /\ s.todo = <<2>>
                                        \/ s.val = 2 /\ s.todo = <<>>

AllLocalOK == DOMAIN st = Goroutines /\ \A g \in Goroutines : LocalOK(g, st[g])

(* that a channel is closed by the goroutine that owns it and only after   *)
(* its last send, FanIn's by the joiner after all workers are done,        *)
Owners ==
    /\ \A c \in closed : \E g \in Goroutines : c \in Closes(g) /\ st[g].pc = "done"
    /\ \A g \in Goroutines : Kind(g) = "joiner" /\ st[g].pc # "wait" => JoinAll

(* and that Bridge starts the OrDone of a stream once. *)
Unborn ==
    net = "bridge" /\ st["lister"].pc = "send" =>
        /\ st["inner2"].pc = "unborn"
        /\ st["lister"].val = 1 => st["inner1"].pc = "unborn"

NetOK == net \in DOMAIN Networks /\ limit \in 0 .. MaxTake

GotTyped == DOMAIN got = Consumers /\ \A c \in Consumers : got[c] \in Seq(Nat)

(* Every goroutine is where its code can be, a channel is closed only by   *)
(* its owner, and the OrDone of a stream is not started before the stream  *)
(* was listed.                                                             *)
StagesInv ==
    /\ NetOK /\ cancelled \in BOOLEAN /\ closed \subseteq UNION {Out(g) : g \in Goroutines}
    /\ GotTyped /\ AllLocalOK /\ Owners /\ Unborn

-----------------------------------------------------------------------------
(* While nobody cancels no value is lost.  Left is what a generator has    *)
(* still to send and Held what a stage has in hand;                        *)
Left(g) == IF st[g].pc = "send" THEN 1 + Len(st[g].todo) ELSE 0
Held(g) == IF st[g].pc = "send" THEN 1 ELSE 0
HeldFor(g, c) == IF st[g].pc = "send" /\ c \in st[g].on THEN 1 ELSE 0

(* with what the consumer received they add up to what was to be sent,     *)
Conserved ==
    /\ net \in {"orDone", "silent"} =>
          Len(got["con1"]) + Held("orDone") + Left("gen1") = Total
    /\ net \in {"take", "repeat"} => Len(got["con1"]) + st["take"].n = Total
    /\ net = "fanIn" =>
          Len(got["con1"]) + Held("merge1") + Held("merge2") + Left("gen1") + Left("gen2") = Total
    /\ net = "tee" =>
          Len(got["con1"]) + HeldFor("tee", "x") + Held("orDone") + Left("gen1") = Total
    /\ net = "bridge" =>
          Len(got["con1"]) + Held("bridge") + (Held("inner1") + Left("gen1"))
            + (Held("inner2") + Left("gen2")) = Total
    /\ net = "or" => Len(got["con1"]) = Total

(* a stage returns only when its input is closed, Take after its last      *)
(* round,                                                                  *)
Drained ==
    \A g \in Goroutines :
        st[g].pc \in {"exit", "done"} =>
            /\ Kind(g) \in {"orDone", "merge", "tee"} => In(g) \subseteq closed
            /\ Kind(g) = "take" => st[g].n = 0

(* and Bridge only when it has seen the end of both streams.               *)
Listed ==
    LET l == st["lister"]
        b == st["bridge"]
        both == l.pc \in {"exit", "done"}
        first == l.pc = "send" /\ l.val = 2
    IN  net = "bridge" =>
          /\ b.pc \in {"recv", "send"} /\ b.from = {"i"} => first
          /\ b.pc \in {"recv", "send"} /\ b.from = {"j"} => both /\ "i" \in closed
          /\ b.pc = "recv" /\ b.from = {"s"} =>
                /\ first => "i" \in closed
                /\ both => {"i", "j"} \subseteq closed
          /\ b.pc \in {"exit", "done"} => {"s", "i", "j"} \subseteq closed

(* Tee's consumers have the same, but for the copy in Tee's hands.         *)
Copies ==
    net = "tee" =>
        LET t == st["tee"] IN
        \/ got["con1"] = got["con2"] /\ t.pc # "send"
        \/ got["con1"] = got["con2"] /\ t.n = 2 /\ t.on = {"x", "y"}
        \/ got["con2"] = Append(got["con1"], t.val) /\ t.n = 1 /\ t.on = {"x"}
        \/ got["con1"] = Append(got["con2"], t.val) /\ t.n = 1 /\ t.on = {"y"}

NothingLost == ~cancelled => Conserved /\ Drained /\ Listed /\ Copies

-----------------------------------------------------------------------------
(* What a generator has still to send is the rest of its values.           *)
RestOf(V, s) ==
    s.pc = "send" =>
        /\ Len(s.todo) < Len(V)
        /\ s.val = V[Len(V) - Len(s.todo)]
        /\ \A k \in 1 .. Len(s.todo) : s.todo[k] = V[Len(V) - Len(s.todo) + k]

Rest == \A g \in Sources : RestOf(Values[g], st[g])

Gone(g) == Len(Values[g]) - Left(g)

(* The values of one source on their way to one consumer: those in q that  *)
(* it has, the one in the hands of the stage near it, if that holds one,   *)
(* and the one in the hands of the stage before, if that holds one.        *)
Places(s, q, near, far) ==
    {p \in 1 .. Len(q) + 2 :
        \/ p <= Len(q) /\ q[p] \in Range(s)
        \/ p = Len(q) + 1 /\ near
        \/ p = Len(q) + 2 /\ far}

Along(q, v, w) ==
    [p \in 1 .. Len(q) + 2 |->
        IF p <= Len(q) THEN q[p] ELSE IF p = Len(q) + 1 THEN v ELSE w]

Flow(s, u, q, near, v, far, w, all) ==
    InLine(s, u, Places(s, q, near, far), Along(q, v, w), all)

Flows(g, c, near, n, far, f) ==
    Flow(Values[g], Gone(g), got[c], near, st[n].val, far, st[f].val, ~cancelled)

Sends(g) == st[g].pc = "send"
Ranges(g, c) == Sends(g) /\ st[g].from = {c}

(* They are in line in every network without Take.                         *)
InFlight ==
    /\ net \in {"orDone", "silent"} =>
          Flows("gen1", "con1", Sends("orDone"), "orDone", FALSE, "orDone")
    /\ net = "fanIn" =>
          /\ Flows("gen1", "con1", Sends("merge1"), "merge1", FALSE, "merge1")
          /\ Flows("gen2", "con1", Sends("merge2"), "merge2", FALSE, "merge2")
    /\ net = "tee" =>
          /\ Flows("gen1", "con1", "x" \in st["tee"].on, "tee", Sends("orDone"), "orDone")
          /\ Flows("gen1", "con2", "y" \in st["tee"].on, "tee", Sends("orDone"), "orDone")
    /\ net = "bridge" =>
          /\ Flows("gen1", "con1", Ranges("bridge", "i"), "bridge", Sends("inner1"), "inner1")
          /\ Flows("gen2", "con1", Ranges("bridge", "j"), "bridge", Sends("inner2"), "inner2")

(* Only Take's consumer gets a value that no generator sent.               *)
Genuine ==
    net \notin {"take", "repeat"} =>
        \A c \in Consumers : \A i \in DOMAIN got[c] :
            got[c][i] \in Range(Values["gen1"]) \cup Range(Values["gen2"])

(* Take's has in q, of the values V of a generator that sends them once or *)
(* again and again, r real ones, the first that were sent, and then zeros; *)
(* what Take holds in state t and what the generator offers in s is next.  *)
Item(V, again, p) == IF again THEN V[1 + ((p - 1) % Len(V))] ELSE V[p]

Handing(t, r) == IF t.pc = "send" THEN r + 1 ELSE r

Real(V, again, q, t, s, ended, r) ==
    /\ ~again => r <= Len(V)
    /\ \A p \in 1 .. r : q[p] = Item(V, again, p)
    /\ \A p \in r + 1 .. Len(q) : q[p] = Zero
    /\ r < Len(q) => ended
    /\ t.pc = "send" =>
          \/ t.val = Zero /\ ended
          \/ t.val = Item(V, again, r + 1) /\ r = Len(q) /\ (~again => r < Len(V))
    /\ t.pc \in {"recv", "send"} /\ s.pc = "send" =>
          Len(V) - Len(s.todo) = 1 + (IF again THEN Handing(t, r) % Len(V) ELSE Handing(t, r))

Taken ==
    net \in {"take", "repeat"} =>
        /\ Len(got["con1"]) + st["take"].n = limit
        /\ \E r \in 0 .. Len(got["con1"]) :
              Real(Values["gen1"], net = "repeat", got["con1"], st["take"], st["gen1"],
                   "a" \in closed, r)

(* Bridge ranges over the second stream only after the first.              *)
OneByOne ==
    net = "bridge" =>
        LET b == st["bridge"]
            ranging == b.pc \in {"recv", "send"}
            unlisted == st["inner1"].pc = "unborn"
        IN  /\ unlisted => ~(ranging /\ b.from = {"j"})
            /\ st["lister"].pc = "send" /\ st["lister"].val = 2 => ~unlisted
            /\ unlisted \/ (ranging /\ b.from = {"i"}) => ReceivedOf("con1", "gen2") = {}
            /\ \A i \in ReceivedOf("con1", "gen1"), j \in ReceivedOf("con1", "gen2") : i < j

Ordered == Rest /\ InFlight /\ Genuine /\ Taken /\ OneByOne
=============================================================================
