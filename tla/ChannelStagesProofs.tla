------------------------ MODULE ChannelStagesProofs ------------------------
(***************************************************************************)
(* Theorems about ChannelStages, for any values the generators send and    *)
(* any number given to Take: its types, that no stage panics, what is      *)
(* delivered while nobody cancels, and in which order, cancelled or not.   *)
(***************************************************************************)
EXTENDS ChannelStages, TLAPS, SequenceTheorems

-----------------------------------------------------------------------------
(* The networks *)

LEMMA NetworkNames ==
    DOMAIN Networks = {"orDone", "silent", "take", "repeat", "fanIn", "tee", "bridge", "or"}
BY DEF Networks

LEMMA OrDoneNet ==
    ASSUME net = "orDone"
    PROVE  /\ Goroutines = {"gen1", "orDone", "con1"}
           /\ Kind("gen1") = "generate" /\ In("gen1") = {} /\ Out("gen1") = {"a"}
           /\ Kind("orDone") = "orDone" /\ In("orDone") = {"a"} /\ Out("orDone") = {"x"}
           /\ Kind("con1") = "consumer" /\ In("con1") = {"x"} /\ Out("con1") = {}
BY DEF Goroutines, Kind, In, Out, Networks, Stage, Generate, Consume

LEMMA SilentNet ==
    ASSUME net = "silent"
    PROVE  /\ Goroutines = {"gen1", "orDone", "con1"}
           /\ Kind("gen1") = "source" /\ In("gen1") = {} /\ Out("gen1") = {"a"}
           /\ Kind("orDone") = "orDone" /\ In("orDone") = {"a"} /\ Out("orDone") = {"x"}
           /\ Kind("con1") = "consumer" /\ In("con1") = {"x"} /\ Out("con1") = {}
BY DEF Goroutines, Kind, In, Out, Networks, Stage, Generate, Consume

LEMMA TakeNet ==
    ASSUME net = "take"
    PROVE  /\ Goroutines = {"gen1", "take", "con1"}
           /\ Kind("gen1") = "generate" /\ In("gen1") = {} /\ Out("gen1") = {"a"}
           /\ Kind("take") = "take" /\ In("take") = {"a"} /\ Out("take") = {"x"}
           /\ Kind("con1") = "consumer" /\ In("con1") = {"x"} /\ Out("con1") = {}
BY DEF Goroutines, Kind, In, Out, Networks, Stage, Generate, Consume

LEMMA RepeatNet ==
    ASSUME net = "repeat"
    PROVE  /\ Goroutines = {"gen1", "take", "con1"}
           /\ Kind("gen1") = "repeat" /\ In("gen1") = {} /\ Out("gen1") = {"a"}
           /\ Kind("take") = "take" /\ In("take") = {"a"} /\ Out("take") = {"x"}
           /\ Kind("con1") = "consumer" /\ In("con1") = {"x"} /\ Out("con1") = {}
BY SMTT(40) DEF Goroutines, Kind, In, Out, Networks, Stage, Generate, Consume

LEMMA FanInNet ==
    ASSUME net = "fanIn"
    PROVE  /\ Goroutines = {"gen1", "gen2", "merge1", "merge2", "joiner", "con1"}
           /\ Kind("gen1") = "generate" /\ In("gen1") = {} /\ Out("gen1") = {"a"}
           /\ Kind("gen2") = "generate" /\ In("gen2") = {} /\ Out("gen2") = {"b"}
           /\ Kind("merge1") = "merge" /\ In("merge1") = {"a"} /\ Out("merge1") = {"x"}
           /\ Kind("merge2") = "merge" /\ In("merge2") = {"b"} /\ Out("merge2") = {"x"}
           /\ Kind("joiner") = "joiner" /\ In("joiner") = {} /\ Out("joiner") = {"x"}
           /\ Kind("con1") = "consumer" /\ In("con1") = {"x"} /\ Out("con1") = {}
BY SMTT(40) DEF Goroutines, Kind, In, Out, Networks, Stage, Generate, Consume

LEMMA TeeNet ==
    ASSUME net = "tee"
    PROVE  /\ Goroutines = {"gen1", "orDone", "tee", "con1", "con2"}
           /\ Kind("gen1") = "generate" /\ In("gen1") = {} /\ Out("gen1") = {"a"}
           /\ Kind("orDone") = "orDone" /\ In("orDone") = {"a"} /\ Out("orDone") = {"m"}
           /\ Kind("tee") = "tee" /\ In("tee") = {"m"} /\ Out("tee") = {"x", "y"}
           /\ Kind("con1") = "consumer" /\ In("con1") = {"x"} /\ Out("con1") = {}
           /\ Kind("con2") = "consumer" /\ In("con2") = {"y"} /\ Out("con2") = {}
BY SMTT(40) DEF Goroutines, Kind, In, Out, Networks, Stage, Generate, Consume

LEMMA BridgeNet ==
    ASSUME net = "bridge"
    PROVE  /\ Goroutines = {"gen1", "gen2", "lister", "bridge", "inner1", "inner2", "con1"}
           /\ Kind("gen1") = "generate" /\ In("gen1") = {} /\ Out("gen1") = {"a"}
           /\ Kind("gen2") = "generate" /\ In("gen2") = {} /\ Out("gen2") = {"b"}
           /\ Kind("lister") = "generate" /\ In("lister") = {} /\ Out("lister") = {"s"}
           /\ Kind("bridge") = "bridge" /\ In("bridge") = {"s"} /\ Out("bridge") = {"x"}
           /\ Kind("inner1") = "orDone" /\ In("inner1") = {"a"} /\ Out("inner1") = {"i"}
           /\ Kind("inner2") = "orDone" /\ In("inner2") = {"b"} /\ Out("inner2") = {"j"}
           /\ Kind("con1") = "consumer" /\ In("con1") = {"x"} /\ Out("con1") = {}
BY ZenonT(40) DEF Goroutines, Kind, In, Out, Networks, Stage, Generate, Consume

LEMMA OrNet ==
    ASSUME net = "or"
    PROVE  /\ Goroutines = {"sig1", "sig2", "sig3", "sig4", "sig5", "or1", "or2", "con1"}
           /\ Kind("sig1") = "signal" /\ In("sig1") = {} /\ Out("sig1") = {"a"}
           /\ Kind("sig2") = "signal" /\ In("sig2") = {} /\ Out("sig2") = {"b"}
           /\ Kind("sig3") = "signal" /\ In("sig3") = {} /\ Out("sig3") = {"c"}
           /\ Kind("sig4") = "signal" /\ In("sig4") = {} /\ Out("sig4") = {"d"}
           /\ Kind("sig5") = "signal" /\ In("sig5") = {} /\ Out("sig5") = {"e"}
           /\ Kind("or1") = "or" /\ In("or1") = {"a", "b", "c", "y"} /\ Out("or1") = {"x"}
           /\ Kind("or2") = "or" /\ In("or2") = {"d", "e", "x", "y"} /\ Out("or2") = {"y"}
           /\ Kind("con1") = "consumer" /\ In("con1") = {"x"} /\ Out("con1") = {}
BY ZenonT(40) DEF Goroutines, Kind, In, Out, Networks, Stage, Generate, Consume

(* What every goroutine of every network is like. *)
Wired(g) ==
    /\ Kind(g) \in DOMAIN Points
    /\ In(g) \subseteq Channels /\ Out(g) \subseteq Channels
    /\ Kind(g) \in {"generate", "repeat", "source"} =>
         g \in {"gen1", "gen2", "lister"} /\ In(g) = {} /\ Out(g) # {}
    /\ Kind(g) \in {"repeat", "source"} => g = "gen1"
    /\ Kind(g) \in {"take", "merge", "tee", "bridge", "orDone", "or", "consumer"} => In(g) # {}
    /\ Kind(g) \in {"take", "merge", "tee", "bridge", "orDone"} => Out(g) # {}
    /\ Kind(g) = "take" => net \in {"take", "repeat"}
    /\ Kind(g) = "tee" => net = "tee" /\ g = "tee" /\ Out(g) = {"x", "y"}
    /\ Kind(g) = "bridge" => net = "bridge" /\ g = "bridge" /\ In(g) = {"s"} /\ Out(g) = {"x"}
    /\ g \in {"inner1", "inner2"} => net = "bridge" /\ Kind(g) = "orDone"
    /\ g = "lister" => net = "bridge" /\ Kind(g) = "generate" /\ Out(g) = {"s"}
    /\ "s" \in Out(g) => g = "lister"
    /\ "s" \in In(g) => g = "bridge" /\ Kind(g) = "bridge"
    /\ ({"i", "j"} \cap Out(g)) # {} => g \in {"inner1", "inner2"}
    /\ g \in {"gen1", "gen2"} => Kind(g) \in {"generate", "repeat", "source"}
    /\ Kind(g) = "consumer" <=> g \in AllConsumers
    /\ Kind(g) = "or" <=> net = "or" /\ g \in {"or1", "or2"}
    /\ net = "or" => Kind(g) \in {"signal", "or", "consumer"}

LEMMA Wiring ==
    ASSUME net \in DOMAIN Networks, NEW g \in Goroutines
    PROVE  Wired(g)
<1>1. DOMAIN Points = {"generate", "repeat", "source", "signal", "joiner", "or", "consumer",
                       "take", "merge", "tee", "bridge", "orDone"}
  BY DEF Points
<1> USE <1>1 DEF Wired, Channels, AllConsumers
<1>2. CASE net = "orDone"
  <2> SUFFICES \A h \in Goroutines : Wired(h) OBVIOUS
  <2> QED BY <1>2, OrDoneNet
<1>3. CASE net = "silent"
  <2> SUFFICES \A h \in Goroutines : Wired(h) OBVIOUS
  <2> QED BY <1>3, SilentNet
<1>4. CASE net = "take"
  <2> SUFFICES \A h \in Goroutines : Wired(h) OBVIOUS
  <2> QED BY <1>4, TakeNet
<1>5. CASE net = "repeat"
  <2> SUFFICES \A h \in Goroutines : Wired(h) OBVIOUS
  <2> QED BY <1>5, RepeatNet
<1>6. CASE net = "fanIn"
  <2> SUFFICES \A h \in Goroutines : Wired(h) OBVIOUS
  <2> QED BY <1>6, FanInNet
<1>7. CASE net = "tee"
  <2> SUFFICES \A h \in Goroutines : Wired(h) OBVIOUS
  <2> QED BY <1>7, TeeNet
<1>8. CASE net = "bridge"
  <2> SUFFICES \A h \in Goroutines : Wired(h) OBVIOUS
  <2> QED BY <1>8, BridgeNet
<1>9. CASE net = "or"
  <2> SUFFICES \A h \in Goroutines : Wired(h) OBVIOUS
  <2> QED BY <1>9, OrNet
<1> QED BY <1>2, <1>3, <1>4, <1>5, <1>6, <1>7, <1>8, <1>9, NetworkNames

(* A channel has one goroutine that closes it; FanIn's workers leave that  *)
(* to the joiner.                                                          *)
LEMMA OneOwner ==
    ASSUME net \in DOMAIN Networks, NEW g \in Goroutines, NEW h \in Goroutines, NEW c \in Closes(h)
    PROVE  /\ c \in Closes(g) => g = h
           /\ Kind(g) = "merge" /\ c \in Out(g) => Kind(h) = "joiner"
<1> USE DEF Closes, Goroutines, Kind, Out, Networks, Stage, Generate, Consume
<1>1. CASE net = "orDone" BY <1>1
<1>2. CASE net = "silent" BY <1>2
<1>3. CASE net = "take" BY <1>3
<1>4. CASE net = "repeat" BY <1>4
<1>5. CASE net = "fanIn" BY <1>5
<1>6. CASE net = "tee" BY <1>6
<1>7. CASE net = "bridge" BY <1>7
<1>8. CASE net = "or" BY <1>8
<1> QED BY ZenonT(40), <1>1, <1>2, <1>3, <1>4, <1>5, <1>6, <1>7, <1>8, NetworkNames

-----------------------------------------------------------------------------
(* The local states *)

LEMMA PointsOf ==
    /\ Points["generate"] = {"send", "exit", "done"}
    /\ Points["repeat"] = {"send", "exit", "done"}
    /\ Points["source"] = {"send", "silent"}
    /\ Points["signal"] = {"wait", "exit", "done"}
    /\ Points["joiner"] = {"wait", "exit", "done"}
    /\ Points["or"] = {"recv", "exit", "done"}
    /\ Points["consumer"] = {"recv", "exit", "done"}
    /\ Points["take"] = {"recv", "send", "exit", "done"}
    /\ Points["merge"] = {"recv", "send", "exit", "done"}
    /\ Points["tee"] = {"recv", "send", "exit", "done"}
    /\ Points["bridge"] = {"recv", "send", "exit", "done"}
    /\ Points["orDone"] = {"unborn", "recv", "send", "exit", "done"}
    /\ DOMAIN Points = {"generate", "repeat", "source", "signal", "joiner", "or", "consumer",
                        "take", "merge", "tee", "bridge", "orDone"}
BY DEF Points

LocalStates == [pc : PCs, from : SUBSET Channels, val : Nat, on : SUBSET Channels,
                todo : Seq(Nat), n : Nat]

(* The kinds that receive, and the points they can be at. *)
Receivers == {"take", "merge", "tee", "bridge", "orDone", "or", "consumer"}
Senders == {"generate", "repeat", "source"}

LEMMA PointsOfReceivers ==
    ASSUME NEW k \in Receivers
    PROVE  {"recv", "exit", "done"} \subseteq Points[k]
BY PointsOf DEF Receivers

LEMMA LeavingOK ==
    ASSUME NetOK, NEW g \in Goroutines, NEW s, LocalOK(g, s),
           "exit" \in Points[Kind(g)], Kind(g) = "tee" => s.n = 0
    PROVE  LocalOK(g, Leaving(s)) /\ Leaving(s).pc = "exit"
<1>1. s \in LocalStates BY DEF LocalOK, LocalStates
<1>2. Leaving(s) \in LocalStates
  BY <1>1 DEF LocalStates, Leaving, PCs
<1>3. /\ Leaving(s).pc = "exit" /\ Leaving(s).on = {} /\ Leaving(s).from = {}
      /\ Leaving(s).n = s.n
  BY <1>1 DEF LocalStates, Leaving
<1> QED BY <1>2, <1>3 DEF LocalOK, LocalStates

LEMMA ReceivingOK ==
    ASSUME NetOK, NEW g \in Goroutines, NEW s, LocalOK(g, s), Kind(g) \in Receivers,
           Kind(g) = "take" => s.n > 0, Kind(g) = "tee" => s.n = 0
    PROVE  LocalOK(g, Receiving(g, s)) /\ Receiving(g, s).pc = "recv"
<1>1. s \in LocalStates BY DEF LocalOK, LocalStates
<1>2. Wired(g) BY Wiring DEF NetOK
<1>3. Receiving(g, s) \in LocalStates
  BY <1>1, <1>2 DEF LocalStates, Receiving, PCs, Wired
<1>4. /\ Receiving(g, s).pc = "recv" /\ Receiving(g, s).on = {}
      /\ Receiving(g, s).from = In(g) /\ Receiving(g, s).n = s.n
  BY <1>1 DEF LocalStates, Receiving
<1>5. "recv" \in Points[Kind(g)] BY PointsOfReceivers
<1>6. In(g) # {} /\ (Kind(g) = "bridge" => In(g) = {"s"}) /\ g # "lister"
  BY <1>2 DEF Wired, Receivers
<1> QED BY <1>3, <1>4, <1>5, <1>6 DEF LocalOK, LocalStates

LEMMA SendingType ==
    ASSUME NetOK, NEW g \in Goroutines, Out(g) # {}, NEW s \in LocalStates,
           NEW todo \in Seq(Nat), todo # <<>>
    PROVE  /\ Sending(g, s, todo) \in LocalStates
           /\ Sending(g, s, todo).pc = "send" /\ Sending(g, s, todo).on = Out(g)
           /\ Sending(g, s, todo).from = s.from /\ Sending(g, s, todo).n = s.n
           /\ Sending(g, s, todo).val = Head(todo) /\ Sending(g, s, todo).todo = Tail(todo)
<1>1. Wired(g) BY Wiring DEF NetOK
<1>2. Head(todo) \in Nat /\ Tail(todo) \in Seq(Nat) BY HeadTailProperties
<1> QED BY <1>1, <1>2 DEF LocalStates, Sending, PCs, Wired

LEMMA SendingOK ==
    ASSUME NetOK, NEW g \in Goroutines, g # "lister", Kind(g) \in Senders,
           NEW s \in LocalStates, s.from = {}, s.n = 0,
           NEW todo \in Seq(Nat), todo # <<>>
    PROVE  LocalOK(g, Sending(g, s, todo))
<1>1. Wired(g) BY Wiring DEF NetOK
<1>2. "send" \in Points[Kind(g)] BY PointsOf DEF Senders
<1>3. Out(g) # {} /\ In(g) = {} BY <1>1 DEF Wired, Senders
<1>4. ASSUME NEW t \in LocalStates, t.pc = "send", t.on = Out(g), t.from = {}, t.n = 0
      PROVE  LocalOK(g, t)
  BY <1>2, <1>3, <1>4 DEF LocalOK, LocalStates, Senders
<1>5. Sending(g, s, todo) \in LocalStates
  BY <1>3, SendingType
<1> QED BY <1>3, <1>4, <1>5, SendingType

LEMMA LocalStart ==
    ASSUME NEW p \in PCs
    PROVE  /\ Local(p) \in LocalStates
           /\ Local(p).pc = p /\ Local(p).from = {} /\ Local(p).on = {} /\ Local(p).n = 0
<1>1. <<>> \in Seq(Nat) BY EmptySeq
<1> QED BY <1>1 DEF Local, LocalStates, Zero

LEMMA SourcesSend ==
    /\ Values["gen1"] \in Seq(Nat) /\ Values["gen1"] # <<>>
    /\ Values["gen2"] \in Seq(Nat) /\ Values["gen2"] # <<>>
<1>1. \A g \in {"gen1", "gen2"} : Values[g] \in Seq(Nat \ {Zero}) /\ Values[g] # <<>>
  BY ConstantsAssumption
<1>2. Seq(Nat \ {Zero}) \subseteq Seq(Nat)
  BY SeqMonotonic
<1> QED BY <1>1, <1>2

(* A round of Take begins with a receive, unless there is none left. *)
LEMMA NextRoundOK ==
    ASSUME NetOK, NEW g \in Goroutines, Kind(g) = "take",
           NEW s \in LocalStates, s.n <= limit
    PROVE  LocalOK(g, NextRound(g, s))
<1>1. Wired(g) BY Wiring DEF NetOK
<1>2. CASE s.n = 0
  <2>1. Leaving(s) \in LocalStates
    BY DEF LocalStates, Leaving, PCs
  <2>2. /\ Leaving(s).pc = "exit" /\ Leaving(s).on = {} /\ Leaving(s).n = 0
    BY <1>2 DEF LocalStates, Leaving
  <2> QED BY <1>2, <2>1, <2>2, PointsOf DEF NextRound, LocalOK, LocalStates
<1>3. CASE s.n # 0
  <2>1. Receiving(g, s) \in LocalStates
    BY <1>1 DEF LocalStates, Receiving, PCs, Wired
  <2>2. /\ Receiving(g, s).pc = "recv" /\ Receiving(g, s).on = {}
        /\ Receiving(g, s).from = In(g) /\ Receiving(g, s).n = s.n
    BY DEF LocalStates, Receiving
  <2>3. In(g) # {} /\ g # "lister" /\ s.n > 0
    BY <1>1, <1>3 DEF Wired, LocalStates
  <2> QED BY <1>3, <2>1, <2>2, <2>3, PointsOf DEF NextRound, LocalOK, LocalStates
<1> QED BY <1>2, <1>3

LEMMA StartOK ==
    ASSUME NetOK, NEW g \in Goroutines
    PROVE  LocalOK(g, Start(g))
<1>1. Wired(g) BY Wiring DEF NetOK
<1>2. Range(Inner) = {"inner1", "inner2"}
  BY DEF Range, Inner
<1>3. {"send", "recv", "wait", "unborn"} \subseteq PCs BY DEF PCs
<1>4. CASE g = "lister"
  <2> DEFINE todo == <<1, 2>>
             l == Local("send")
  <2>1. todo \in Seq(Nat) /\ todo # <<>> /\ Head(todo) = 1 /\ Tail(todo) = <<2>>
    OBVIOUS
  <2>2. l \in LocalStates /\ l.from = {} /\ l.n = 0
    BY <1>3, LocalStart
  <2>3. Start(g) = Sending(g, l, todo)
    BY <1>1, <1>2, <1>4 DEF Start, Wired
  <2>4. Kind(g) = "generate" /\ Out(g) # {} /\ In(g) = {}
    BY <1>1, <1>4 DEF Wired
  <2>5. ASSUME NEW t \in LocalStates, t.pc = "send", t.on = Out(g), t.from = {}, t.n = 0,
               t.val = Head(todo), t.todo = Tail(todo)
        PROVE  LocalOK(g, t)
    BY <2>1, <2>4, <2>5, PointsOf DEF LocalOK, LocalStates
  <2> HIDE DEF todo, l
  <2>6. /\ Sending(g, l, todo) \in LocalStates
        /\ Sending(g, l, todo).pc = "send" /\ Sending(g, l, todo).on = Out(g)
        /\ Sending(g, l, todo).from = l.from /\ Sending(g, l, todo).n = l.n
        /\ Sending(g, l, todo).val = Head(todo) /\ Sending(g, l, todo).todo = Tail(todo)
    BY <2>1, <2>2, <2>4, SendingType
  <2> QED BY <2>1, <2>2, <2>3, <2>5, <2>6
<1>5. CASE g # "lister" /\ Kind(g) \in Senders
  <2>1. Start(g) = Sending(g, Local("send"), Values[g])
    BY <1>1, <1>2, <1>5 DEF Start, Senders, Wired
  <2>2. g \in {"gen1", "gen2"} BY <1>1, <1>5 DEF Wired, Senders
  <2> QED BY <1>3, <1>5, <2>1, <2>2, SendingOK, LocalStart, SourcesSend
<1>6. CASE Kind(g) = "take"
  <2>1. Start(g) = NextRound(g, [Local("recv") EXCEPT !.n = limit])
    BY <1>1, <1>2, <1>6 DEF Start, Wired
  <2>2. /\ [Local("recv") EXCEPT !.n = limit] \in LocalStates
        /\ [Local("recv") EXCEPT !.n = limit].n = limit
    <3>1. limit \in Nat BY ConstantsAssumption DEF NetOK
    <3>2. Local("recv") \in LocalStates BY <1>3, LocalStart
    <3> QED BY <3>1, <3>2 DEF LocalStates
  <2>3. limit <= limit BY ConstantsAssumption DEF NetOK
  <2> QED BY <1>6, <2>1, <2>2, <2>3, NextRoundOK
<1>7. CASE Kind(g) \in {"signal", "joiner"}
  <2>1. Start(g) = Local("wait")
    BY <1>1, <1>2, <1>7 DEF Start, Wired
  <2> QED BY <1>1, <1>3, <1>7, <2>1, LocalStart, PointsOf DEF LocalOK, LocalStates, Wired
<1>8. CASE g \in {"inner1", "inner2"}
  <2>1. Start(g) = Local("unborn") /\ Kind(g) = "orDone"
    BY <1>1, <1>2, <1>8 DEF Start, Wired
  <2> QED BY <1>3, <1>8, <2>1, LocalStart, PointsOf DEF LocalOK, LocalStates
<1>9. CASE g \notin {"inner1", "inner2"} /\ Kind(g) \in Receivers \ {"take"}
  <2>1. Start(g) = Receiving(g, Local("recv"))
    BY <1>1, <1>2, <1>9 DEF Start, Wired, Receivers
  <2>2. Receiving(g, Local("recv")) \in LocalStates
    BY <1>1, <1>3, LocalStart DEF LocalStates, Receiving, PCs, Wired
  <2>3. /\ Start(g).pc = "recv" /\ Start(g).on = {} /\ Start(g).from = In(g)
        /\ Start(g).n = 0
    BY <1>3, <2>1, LocalStart DEF LocalStates, Receiving
  <2>4. In(g) # {} /\ (Kind(g) = "bridge" => In(g) = {"s"}) /\ g # "lister"
    BY <1>1, <1>9 DEF Wired, Receivers
  <2>5. "recv" \in Points[Kind(g)] BY <1>9, PointsOfReceivers
  <2> QED BY <1>9, <2>1, <2>2, <2>3, <2>4, <2>5 DEF LocalOK, LocalStates
<1> QED
  BY <1>1, <1>4, <1>5, <1>6, <1>7, <1>8, <1>9, PointsOf DEF Wired, Senders, Receivers

-----------------------------------------------------------------------------
(* What each operation makes of a local state *)

LEMMA ReceivedOK ==
    ASSUME NetOK, NEW g \in Goroutines, LocalOK(g, st[g]), st[g].pc = "recv",
           Kind(g) \in Receivers \ {"or", "consumer"},
           NEW v \in Nat, BridgeLists(g) => v \in {1, 2}
    PROVE  /\ LocalOK(g, Received(g, v))
           /\ Received(g, v).pc \in {"recv", "send"}
<1>1. Wired(g) BY Wiring DEF NetOK
<1>2. st[g] \in LocalStates BY DEF LocalOK, LocalStates
<1>3. CASE BridgeLists(g)
  <2>1. net = "bridge" /\ Kind(g) = "bridge" BY <1>1, <1>3 DEF Wired, BridgeLists
  <2>2. Networks[net][Inner[v]].out \in {{"i"}, {"j"}}
    <3>1. Networks[net][Inner[v]].out = Out(Inner[v]) BY DEF Out
    <3>2. Inner[v] \in {"inner1", "inner2"} BY <1>3 DEF Inner
    <3> QED BY <2>1, <3>1, <3>2, BridgeNet
  <2>3. Received(g, v) = [st[g] EXCEPT !.from = Networks[net][Inner[v]].out]
    BY <1>3 DEF Received
  <2>4. {"i"} \in SUBSET Channels /\ {"j"} \in SUBSET Channels BY DEF Channels
  <2>5. ASSUME NEW t \in LocalStates, t.pc = "recv", t.from \in {{"i"}, {"j"}},
               t.on = {}, t.n = 0
        PROVE  LocalOK(g, t)
    BY <1>1, <2>1, <2>5, PointsOf DEF LocalOK, LocalStates, Wired
  <2>6. st[g].on = {} /\ st[g].n = 0 BY <2>1 DEF LocalOK
  <2>7. /\ Received(g, v) \in LocalStates /\ Received(g, v).pc = "recv"
        /\ Received(g, v).from \in {{"i"}, {"j"}}
        /\ Received(g, v).on = {} /\ Received(g, v).n = 0
    BY <1>2, <2>2, <2>3, <2>4, <2>6 DEF LocalStates
  <2> QED BY <2>5, <2>7
<1>4. CASE ~BridgeLists(g)
  <2> DEFINE n == IF Kind(g) = "tee" THEN 2 ELSE st[g].n
  <2>1. Received(g, v) = [st[g] EXCEPT !.pc = "send", !.val = v, !.on = Out(g), !.n = n]
    BY <1>2, <1>4 DEF Received, LocalStates, TeeRounds
  <2>2. /\ Received(g, v) \in LocalStates /\ Received(g, v).pc = "send"
        /\ Received(g, v).on = Out(g) /\ Received(g, v).from = st[g].from
        /\ Received(g, v).n = n
    <3>1. n \in Nat BY <1>2 DEF LocalStates
    <3>2. Out(g) \in SUBSET Channels BY <1>1 DEF Wired
    <3> HIDE DEF n
    <3> QED BY <1>2, <2>1, <3>1, <3>2 DEF LocalStates, PCs
  <2>3. Out(g) # {} /\ g # "lister" BY <1>1 DEF Wired, Receivers
  <2>4. "send" \in Points[Kind(g)] BY PointsOf DEF Receivers
  <2>5. Kind(g) = "bridge" => st[g].from \in {{"i"}, {"j"}}
    BY <1>1, <1>4 DEF LocalOK, BridgeLists, Wired
  <2>6. Kind(g) # "bridge" => st[g].from = In(g) BY DEF LocalOK
  <2>7. /\ Kind(g) \notin {"take", "tee"} => n = 0
        /\ Kind(g) = "take" => n <= limit /\ n > 0
        /\ Kind(g) = "tee" => n = 2
    BY DEF LocalOK
  <2>8. ASSUME NEW t \in LocalStates, t.pc = "send", t.on = Out(g), t.from = st[g].from,
               t.n = n
        PROVE  LocalOK(g, t)
    <3> HIDE DEF n
    <3> QED BY <2>3, <2>4, <2>5, <2>6, <2>7, <2>8 DEF LocalOK, LocalStates
  <2> QED BY <2>2, <2>8
<1> QED BY <1>3, <1>4

LEMMA AtEndOK ==
    ASSUME NetOK, NEW g \in Goroutines, LocalOK(g, st[g]), st[g].pc = "recv"
    PROVE  LocalOK(g, AtEnd(g)) /\ AtEnd(g).pc \in {"recv", "send", "exit"}
<1>1. Wired(g) BY Wiring DEF NetOK
<1>2. Kind(g) \in Receivers BY <1>1, PointsOf DEF LocalOK, Wired, Receivers
<1>3. CASE Kind(g) = "take"
  <2>1. AtEnd(g) = Received(g, 0) BY <1>3 DEF AtEnd, Zero
  <2>2. ~BridgeLists(g) BY <1>3 DEF BridgeLists
  <2> QED BY <1>2, <1>3, <2>1, <2>2, ReceivedOK
<1>4. CASE Kind(g) = "bridge" /\ ~BridgeLists(g)
  <2>1. AtEnd(g) = Receiving(g, st[g]) BY <1>4 DEF AtEnd
  <2> QED BY <1>2, <1>4, <2>1, ReceivingOK
<1>5. CASE Kind(g) # "take" /\ (Kind(g) = "bridge" => BridgeLists(g))
  <2>1. AtEnd(g) = Leaving(st[g]) BY <1>5 DEF AtEnd
  <2>2. "exit" \in Points[Kind(g)] BY <1>2, PointsOfReceivers
  <2>3. Kind(g) = "tee" => st[g].n = 0 BY DEF LocalOK
  <2> QED BY <2>1, <2>2, <2>3, LeavingOK
<1> QED BY <1>3, <1>4, <1>5

(* Back at the receive after a value was sent or dropped. *)
LEMMA ResumedOK ==
    ASSUME NetOK, NEW g \in Goroutines, LocalOK(g, st[g]), st[g].pc = "send",
           Kind(g) \in {"orDone", "merge", "bridge"}
    PROVE  LocalOK(g, Resumed(st[g])) /\ Resumed(st[g]).pc = "recv"
<1>1. Wired(g) BY Wiring DEF NetOK
<1>2. st[g] \in LocalStates BY DEF LocalOK, LocalStates
<1>3. /\ Resumed(st[g]) \in LocalStates /\ Resumed(st[g]).pc = "recv"
      /\ Resumed(st[g]).on = {} /\ Resumed(st[g]).from = st[g].from
      /\ Resumed(st[g]).n = st[g].n
  BY <1>2 DEF LocalStates, Resumed, PCs
<1>4. In(g) # {} /\ g # "lister" BY <1>1 DEF Wired
<1>5. st[g].n = 0 /\ (Kind(g) = "bridge" => st[g].from \in {{"i"}, {"j"}})
  BY DEF LocalOK
<1>6. Kind(g) # "bridge" => st[g].from = In(g) BY DEF LocalOK
<1>7. ASSUME NEW t \in LocalStates, t.pc = "recv", t.on = {}, t.from = st[g].from,
             t.n = 0
      PROVE  LocalOK(g, t)
  BY ZenonT(40), <1>4, <1>5, <1>6, <1>7, PointsOf DEF LocalOK, LocalStates
<1> QED BY <1>3, <1>5, <1>7

(* A round of Tee that ended, with the outputs it has still to serve. *)
LEMMA TeeRoundOK ==
    ASSUME NetOK, NEW g \in Goroutines, Kind(g) = "tee",
           NEW s \in LocalStates, s.pc = "send", s.from = In(g), s.on \subseteq Out(g),
           s.n \in {1, 2}, s.n = 2 => s.on # {}
    PROVE  LocalOK(g, TeeRound(s)) /\ TeeRound(s).pc \in {"recv", "send"}
<1>1. Wired(g) BY Wiring DEF NetOK
<1>2. In(g) # {} /\ g # "lister" BY <1>1 DEF Wired
<1>3. CASE s.n = 1
  <2>1. /\ TeeRound(s) \in LocalStates /\ TeeRound(s).pc = "recv"
        /\ TeeRound(s).on = {} /\ TeeRound(s).from = In(g) /\ TeeRound(s).n = 0
    BY <1>3 DEF LocalStates, TeeRound, PCs
  <2>2. ASSUME NEW t \in LocalStates, t.pc = "recv", t.on = {}, t.from = In(g), t.n = 0
        PROVE  LocalOK(g, t)
    BY <1>2, <2>2, PointsOf DEF LocalOK, LocalStates
  <2> QED BY <2>1, <2>2
<1>4. CASE s.n = 2
  <2>1. /\ TeeRound(s) \in LocalStates /\ TeeRound(s).pc = "send"
        /\ TeeRound(s).on = s.on /\ TeeRound(s).from = In(g) /\ TeeRound(s).n = 1
    BY SMTT(40), <1>4 DEF LocalStates, TeeRound
  <2>2. ASSUME NEW t \in LocalStates, t.pc = "send", t.on = s.on, t.from = In(g), t.n = 1
        PROVE  LocalOK(g, t)
    BY <1>2, <1>4, <2>2, PointsOf DEF LocalOK, LocalStates
  <2> QED BY <2>1, <2>2
<1> QED BY <1>3, <1>4

LEMMA SourceSentOK ==
    ASSUME NetOK, NEW g \in Goroutines, LocalOK(g, st[g]), st[g].pc = "send",
           Kind(g) \in Senders, NEW c
    PROVE  /\ LocalOK(g, Sent(g, c))
           /\ Sent(g, c).pc \in {"send", "exit", "silent"}
<1>1. Wired(g) BY Wiring DEF NetOK
<1>2. st[g] \in LocalStates BY DEF LocalOK, LocalStates
<1>3. st[g].from = {} /\ st[g].n = 0 /\ Out(g) # {}
  BY <1>1 DEF Wired, LocalOK, Senders
<1>4. st[g].todo \in Seq(Nat) BY <1>2 DEF LocalStates
<1>5. CASE Kind(g) = "repeat"
  <2> DEFINE todo == IF st[g].todo = <<>> THEN Values[g] ELSE st[g].todo
  <2>1. g = "gen1" BY <1>1, <1>5 DEF Wired
  <2>2. todo \in Seq(Nat) /\ todo # <<>> BY <1>4, <2>1, SourcesSend
  <2>3. Sent(g, c) = Sending(g, st[g], todo) BY <1>5 DEF Sent
  <2> HIDE DEF todo
  <2>4. LocalOK(g, Sending(g, st[g], todo)) /\ Sending(g, st[g], todo).pc = "send"
    BY <1>2, <1>3, <2>1, <2>2, SendingOK, SendingType
  <2> QED BY <2>3, <2>4
<1>6. CASE Kind(g) # "repeat" /\ st[g].todo # <<>> /\ g # "lister"
  <2>1. Sent(g, c) = Sending(g, st[g], st[g].todo) BY <1>6 DEF Sent, Senders
  <2>2. LocalOK(g, Sending(g, st[g], st[g].todo)) BY <1>2, <1>3, <1>4, <1>6, SendingOK
  <2>3. Sending(g, st[g], st[g].todo).pc = "send" BY <1>2, <1>3, <1>4, <1>6, SendingType
  <2> QED BY <2>1, <2>2, <2>3
<1>7. CASE Kind(g) # "repeat" /\ st[g].todo # <<>> /\ g = "lister"
  <2> DEFINE todo == <<2>>
  <2>1. st[g].todo = todo BY <1>7 DEF LocalOK
  <2>2. Kind(g) = "generate" /\ In(g) = {} BY <1>1, <1>7 DEF Wired
  <2>3. Sent(g, c) = Sending(g, st[g], todo) BY <1>7, <2>1, <2>2 DEF Sent
  <2>4. todo \in Seq(Nat) /\ todo # <<>> /\ Head(todo) = 2 /\ Tail(todo) = <<>>
    OBVIOUS
  <2>5. ASSUME NEW t \in LocalStates, t.pc = "send", t.on = Out(g), t.from = {}, t.n = 0,
               t.val = 2, t.todo = <<>>
        PROVE  LocalOK(g, t)
    BY <1>3, <2>2, <2>5, PointsOf DEF LocalOK, LocalStates
  <2> HIDE DEF todo
  <2>6. /\ Sending(g, st[g], todo) \in LocalStates
        /\ Sending(g, st[g], todo).pc = "send" /\ Sending(g, st[g], todo).on = Out(g)
        /\ Sending(g, st[g], todo).from = st[g].from /\ Sending(g, st[g], todo).n = st[g].n
        /\ Sending(g, st[g], todo).val = Head(todo) /\ Sending(g, st[g], todo).todo = Tail(todo)
    BY <1>2, <1>3, <2>4, SendingType
  <2> QED BY <1>3, <2>3, <2>4, <2>5, <2>6
<1>8. CASE Kind(g) = "generate" /\ st[g].todo = <<>>
  <2>1. Sent(g, c) = Leaving(st[g]) BY <1>8 DEF Sent
  <2> QED BY <1>8, <2>1, LeavingOK, PointsOf
<1>9. CASE Kind(g) = "source" /\ st[g].todo = <<>>
  <2>1. Sent(g, c) = [Resumed(st[g]) EXCEPT !.pc = "silent"] BY <1>9 DEF Sent
  <2>2. /\ Sent(g, c) \in LocalStates /\ Sent(g, c).pc = "silent"
        /\ Sent(g, c).on = {} /\ Sent(g, c).n = 0
    BY <1>2, <1>3, <2>1 DEF LocalStates, Resumed, PCs
  <2>3. ASSUME NEW t \in LocalStates, t.pc = "silent", t.on = {}, t.n = 0
        PROVE  LocalOK(g, t)
    BY <1>9, <2>3, PointsOf DEF LocalOK, LocalStates
  <2> QED BY <2>2, <2>3
<1> QED BY <1>5, <1>6, <1>7, <1>8, <1>9 DEF Senders

LEMMA SentOK ==
    ASSUME NetOK, NEW g \in Goroutines, LocalOK(g, st[g]), st[g].pc = "send",
           NEW c \in st[g].on
    PROVE  /\ LocalOK(g, Sent(g, c))
           /\ Sent(g, c).pc \in {"recv", "send", "exit", "silent"}
<1>1. Wired(g) BY Wiring DEF NetOK
<1>2. st[g] \in LocalStates BY DEF LocalOK, LocalStates
<1>3. Kind(g) \in Senders \cup {"take", "tee", "orDone", "merge", "bridge"}
  BY <1>1, PointsOf DEF LocalOK, Wired, Senders
<1>4. CASE Kind(g) \in Senders BY <1>4, SourceSentOK
<1>5. CASE Kind(g) \in {"orDone", "merge", "bridge"}
  <2>1. Sent(g, c) = Resumed(st[g]) BY <1>5 DEF Sent
  <2> QED BY <1>5, <2>1, ResumedOK
<1>6. CASE Kind(g) = "take"
  <2> DEFINE s == [st[g] EXCEPT !.n = @ - 1]
  <2>1. Sent(g, c) = NextRound(g, s) BY <1>6 DEF Sent
  <2>2. st[g].n > 0 /\ st[g].n <= limit /\ st[g].n \in Nat
    BY <1>2, <1>6 DEF LocalOK, LocalStates
  <2>3. limit \in Nat BY ConstantsAssumption DEF NetOK
  <2>4. s \in LocalStates /\ s.n <= limit
    <3>1. st[g].n - 1 \in Nat /\ st[g].n - 1 <= limit BY <2>2, <2>3
    <3>2. s = [st[g] EXCEPT !.n = st[g].n - 1] OBVIOUS
    <3> HIDE DEF s
    <3> DEFINE n == st[g].n - 1
    <3>3. n \in Nat /\ n <= limit /\ s = [st[g] EXCEPT !.n = n] BY <3>1, <3>2
    <3> HIDE DEF n
    <3> QED BY <1>2, <3>3 DEF LocalStates
  <2> HIDE DEF s
  <2>5. LocalOK(g, NextRound(g, s)) BY <1>6, <2>4, NextRoundOK
  <2>6. NextRound(g, s).pc \in {"recv", "exit"}
    BY <2>4 DEF NextRound, Leaving, Receiving, LocalStates
  <2> QED BY <2>1, <2>5, <2>6
<1>7. CASE Kind(g) = "tee"
  <2> DEFINE s == Served(st[g], c)
  <2>1. Sent(g, c) = TeeRound(s) BY <1>7 DEF Sent
  <2>2. s = [st[g] EXCEPT !.on = @ \ {c}] BY DEF Served
  <2>3. s \in LocalStates /\ s.pc = "send" /\ s.from = st[g].from /\ s.n = st[g].n
        /\ s.on = st[g].on \ {c}
    BY <1>2, <2>2 DEF LocalStates
  <2>4. /\ st[g].from = In(g) /\ st[g].on \subseteq Out(g)
        /\ st[g].n = 1 \/ (st[g].n = 2 /\ st[g].on = {"x", "y"})
    BY <1>1, <1>7 DEF LocalOK, Wired
  <2>5. s.n \in {1, 2} /\ (s.n = 2 => s.on # {}) /\ s.on \subseteq Out(g) /\ s.from = In(g)
    BY <2>3, <2>4
  <2> HIDE DEF s
  <2> QED BY <1>7, <2>1, <2>3, <2>5, TeeRoundOK
<1> QED BY <1>3, <1>4, <1>5, <1>6, <1>7

LEMMA HeededOK ==
    ASSUME NetOK, NEW g \in Goroutines, LocalOK(g, st[g]), Heeds(g)
    PROVE  /\ LocalOK(g, Heeded(g)) /\ Heeded(g).pc \in {"recv", "send", "exit"}
           /\ st[g].pc \in {"recv", "send"}
<1>1. Wired(g) BY Wiring DEF NetOK
<1>2. st[g] \in LocalStates BY DEF LocalOK, LocalStates
<1>3. /\ st[g].pc \in {"recv", "send"}
      /\ Kind(g) \in {"generate", "repeat", "take", "merge", "tee", "orDone", "bridge"}
      /\ st[g].pc = "recv" => Kind(g) \in {"orDone", "bridge"}
  <2>1. Kind(g) \in DOMAIN Points BY <1>1 DEF Wired
  <2>2. Kind(g) \in {"source", "signal", "joiner", "or", "consumer"} => HeedsAt(Kind(g)) = {}
    BY DEF HeedsAt
  <2>3. Kind(g) \in {"orDone", "bridge"} => HeedsAt(Kind(g)) = {"recv", "send"}
    BY DEF HeedsAt
  <2>4. Kind(g) \in {"generate", "repeat", "take", "merge", "tee"} => HeedsAt(Kind(g)) = {"send"}
    BY DEF HeedsAt
  <2> QED BY <2>1, <2>2, <2>3, <2>4, PointsOf DEF Heeds
<1>4. CASE Kind(g) = "tee"
  <2>1. Heeded(g) = TeeRound(st[g]) BY <1>4 DEF Heeded
  <2>2. st[g].pc = "send" BY <1>3, <1>4
  <2>3. /\ st[g].from = In(g) /\ st[g].on \subseteq Out(g) /\ st[g].on # {}
        /\ st[g].n \in {1, 2}
    BY <1>4, <2>2 DEF LocalOK
  <2> QED BY <1>2, <1>3, <1>4, <2>1, <2>2, <2>3, TeeRoundOK
<1>5. CASE Kind(g) \in {"orDone", "bridge"} /\ st[g].pc = "send"
  <2>1. Heeded(g) = Resumed(st[g]) BY <1>5 DEF Heeded
  <2> QED BY <1>3, <1>5, <2>1, ResumedOK
<1>6. CASE Kind(g) # "tee" /\ ~(Kind(g) \in {"orDone", "bridge"} /\ st[g].pc = "send")
  <2>1. Heeded(g) = Leaving(st[g]) BY <1>6 DEF Heeded
  <2>2. "exit" \in Points[Kind(g)] BY <1>3, PointsOf
  <2> QED BY <1>3, <1>6, <2>1, <2>2, LeavingOK
<1> QED BY <1>4, <1>5, <1>6

-----------------------------------------------------------------------------
(* StagesInv is an invariant *)

LEMMA SameNet ==
    ASSUME net' = net, limit' = limit
    PROVE  /\ Goroutines' = Goroutines /\ Consumers' = Consumers
           /\ NetOK' <=> NetOK
           /\ \A g : /\ Kind(g)' = Kind(g) /\ In(g)' = In(g) /\ Out(g)' = Out(g)
                      /\ Closes(g)' = Closes(g)
BY DEF Goroutines, Consumers, Kind, In, Out, Closes, NetOK

LEMMA LocalKept ==
    ASSUME net' = net, limit' = limit, DOMAIN st' = Goroutines,
           \A g \in Goroutines : LocalOK(g, st'[g])
    PROVE  AllLocalOK'
BY SameNet DEF AllLocalOK, LocalOK

LEMMA OwnersKept ==
    ASSUME Owners, net' = net, limit' = limit, closed' = closed,
           \A g \in Goroutines : st[g].pc = "done" => st'[g].pc = "done",
           \A g \in Goroutines :
              Kind(g) = "joiner" /\ st[g].pc = "wait" => st'[g].pc = "wait" \/ JoinAll
    PROVE  Owners'
<1>1. ASSUME JoinAll PROVE JoinAll' BY <1>1, SameNet DEF JoinAll
<1>2. \A g \in Goroutines : Kind(g) = "joiner" /\ st'[g].pc # "wait" => JoinAll'
  BY <1>1 DEF Owners
<1>3. \A c \in closed : \E g \in Goroutines : c \in Closes(g) /\ st'[g].pc = "done"
  BY DEF Owners
<1> QED BY <1>2, <1>3, SameNet DEF Owners

(* A goroutine other than the lister's moves by itself. *)
LEMMA MoveOK ==
    ASSUME NetOK, AllLocalOK, Owners, Unborn,
           NEW g \in Goroutines, NEW t, LocalOK(g, t), st[g].pc \notin {"done", "unborn"},
           Kind(g) = "joiner" => JoinAll, g = "lister" => t.pc # "send",
           st' = [st EXCEPT ![g] = t], net' = net, limit' = limit
    PROVE  AllLocalOK' /\ Unborn' /\ (closed' = closed => Owners')
<1>1. DOMAIN st = Goroutines BY DEF AllLocalOK
<1>2. st'[g] = t /\ DOMAIN st' = Goroutines /\ \A h \in Goroutines \ {g} : st'[h] = st[h]
  BY <1>1
<1>3. \A h \in Goroutines : LocalOK(h, st'[h])
  BY <1>2 DEF AllLocalOK
<1>4. AllLocalOK' BY <1>2, <1>3, LocalKept
<1>5. Unborn'
  <2> SUFFICES ASSUME net = "bridge", st'["lister"].pc = "send"
               PROVE  /\ st'["inner2"].pc = "unborn"
                      /\ st'["lister"].val = 1 => st'["inner1"].pc = "unborn"
    BY DEF Unborn
  <2>1. {"lister", "inner1", "inner2"} \subseteq Goroutines BY BridgeNet
  <2>2. st'["lister"] = st["lister"] BY <1>2, <2>1
  <2> QED BY <1>2, <2>1, <2>2 DEF Unborn
<1>6. ASSUME closed' = closed PROVE Owners'
  BY <1>2, <1>6, OwnersKept
<1> QED BY <1>4, <1>5, <1>6

(* What a transfer can be of: the sender and the receiver are two, and a   *)
(* Bridge that lists hears of an OrDone that has not been started.         *)
LEMMA TransferEnds ==
    ASSUME NetOK, AllLocalOK, Unborn, NEW s \in Goroutines, NEW r \in Goroutines,
           NEW c, Offers(s, c), Awaits(r, c)
    PROVE  /\ s # r /\ st[s].pc = "send" /\ st[r].pc = "recv"
           /\ c \in st[s].on /\ c \in Out(s) /\ st[s].val \in Nat
           /\ Kind(s) \in Senders \cup {"take", "tee", "orDone", "merge", "bridge"}
           /\ Kind(r) \in Receivers \ {"or"}
           /\ r # "lister" /\ Kind(r) # "joiner" /\ Kind(s) # "joiner"
           /\ s = "lister" => BridgeLists(r)
           /\ BridgeLists(r) =>
                 /\ net = "bridge" /\ s = "lister" /\ r = "bridge"
                 /\ \/ st[s].val = 1 /\ Inner[st[s].val] = "inner1"
                    \/ st[s].val = 2 /\ st[s].todo = <<>> /\ Inner[st[s].val] = "inner2"
                 /\ st[Inner[st[s].val]].pc = "unborn"
<1>1. Wired(s) /\ Wired(r) BY Wiring DEF NetOK
<1>2. /\ st[s].pc = "send" /\ st[r].pc = "recv" /\ c \in st[s].on /\ c \in st[r].from
  BY DEF Offers, Awaits
<1>3. LocalOK(s, st[s]) /\ LocalOK(r, st[r]) BY DEF AllLocalOK
<1>4. c \in Out(s) /\ st[s].val \in Nat BY <1>2, <1>3 DEF LocalOK
<1>5. st[s].pc \in Points[Kind(s)] /\ st[r].pc \in Points[Kind(r)] BY <1>3 DEF LocalOK
<1>6. Kind(s) \in Senders \cup {"take", "tee", "orDone", "merge", "bridge"}
  BY <1>1, <1>2, <1>5, PointsOf DEF Wired, Senders
<1>7. Kind(r) \in Receivers
  BY <1>1, <1>2, <1>5, PointsOf DEF Wired, Receivers
<1>8. Kind(r) # "or" BY <1>1, <1>6 DEF Wired, Senders
<1>9. r # "lister" /\ Kind(r) # "joiner" /\ Kind(s) # "joiner"
  BY <1>1, <1>6, <1>7 DEF Wired, Receivers, Senders
<1>10. ASSUME s = "lister" PROVE BridgeLists(r)
  <2>1. c = "s" BY <1>1, <1>4, <1>10 DEF Wired
  <2>2. Kind(r) = "bridge" BY <1>1, <1>2, <1>3, <2>1 DEF LocalOK, Wired
  <2>3. st[r].from \in {{"s"}, {"i"}, {"j"}} BY <1>2, <1>3, <2>2 DEF LocalOK
  <2>4. st[r].from = {"s"} BY <1>2, <2>1, <2>3
  <2> QED BY <1>1, <2>2, <2>4 DEF BridgeLists, Wired
<1>11. ASSUME BridgeLists(r)
       PROVE  /\ net = "bridge" /\ s = "lister" /\ r = "bridge"
              /\ \/ st[s].val = 1 /\ Inner[st[s].val] = "inner1"
                 \/ st[s].val = 2 /\ st[s].todo = <<>> /\ Inner[st[s].val] = "inner2"
              /\ st[Inner[st[s].val]].pc = "unborn"
  <2>1. net = "bridge" /\ r = "bridge" /\ st[r].from = {"s"}
    BY <1>1, <1>11 DEF BridgeLists, Wired
  <2>2. s = "lister" BY <1>1, <1>2, <1>4, <2>1 DEF Wired
  <2>3. st[s].val = 1 \/ (st[s].val = 2 /\ st[s].todo = <<>>)
    BY <1>2, <1>3, <2>2 DEF LocalOK
  <2>4. Inner[1] = "inner1" /\ Inner[2] = "inner2" BY DEF Inner
  <2>5. /\ st["inner2"].pc = "unborn"
        /\ st["lister"].val = 1 => st["inner1"].pc = "unborn"
    BY <1>2, <2>1, <2>2 DEF Unborn
  <2> QED BY <2>1, <2>2, <2>3, <2>4, <2>5
<1> QED BY <1>2, <1>4, <1>6, <1>7, <1>8, <1>9, <1>10, <1>11

LEMMA TransferMoves ==
    ASSUME NetOK, AllLocalOK, Unborn, NEW s \in Goroutines, NEW r \in Goroutines,
           NEW c, Transfer(s, r, c)
    PROVE  /\ DOMAIN st' = Goroutines
           /\ st'[s] = Sent(s, c)
           /\ st'[r] = IF Kind(r) = "consumer" THEN st[r] ELSE Received(r, st[s].val)
           /\ \A g \in Goroutines \ {s, r} :
                 st'[g] = IF BridgeLists(r) /\ g = Inner[st[s].val] THEN Receiving(g, st[g])
                          ELSE st[g]
<1>1. DOMAIN st = Goroutines BY DEF AllLocalOK
<1>2. Offers(s, c) /\ Awaits(r, c) BY DEF Transfer
<1>3. s # r BY <1>2, TransferEnds
<1>4. CASE Kind(r) = "consumer"
  <2>1. st' = [st EXCEPT ![s] = Sent(s, c)] BY <1>4 DEF Transfer
  <2>2. ~BridgeLists(r) BY <1>4 DEF BridgeLists
  <2> QED BY <1>1, <1>3, <1>4, <2>1, <2>2
<1>5. CASE Kind(r) # "consumer"
  <2>1. st' = [g \in Goroutines |->
                  IF g = r THEN Received(r, st[s].val)
                  ELSE IF BridgeLists(r) /\ g = Inner[st[s].val] THEN Receiving(g, st[g])
                  ELSE [st EXCEPT ![s] = Sent(s, c)][g]]
    BY <1>5 DEF Transfer
  <2>2. BridgeLists(r) => Inner[st[s].val] # s
    <3>1. BridgeLists(r) => s = "lister" /\ Inner[st[s].val] \in {"inner1", "inner2"}
      BY <1>2, TransferEnds
    <3> QED BY <3>1
  <2> QED BY <1>1, <1>3, <1>5, <2>1, <2>2
<1> QED BY <1>4, <1>5

LEMMA TransferOK ==
    ASSUME NetOK, AllLocalOK, Owners, Unborn, NEW s \in Goroutines, NEW r \in Goroutines,
           NEW c, Transfer(s, r, c)
    PROVE  AllLocalOK' /\ Owners' /\ Unborn'
<1> DEFINE v == st[s].val
<1>1. Offers(s, c) /\ Awaits(r, c) /\ net' = net /\ limit' = limit /\ closed' = closed
  BY DEF Transfer
<1>2. /\ s # r /\ st[s].pc = "send" /\ st[r].pc = "recv" /\ c \in st[s].on
      /\ v \in Nat /\ Kind(r) \in Receivers \ {"or"}
      /\ r # "lister" /\ Kind(r) # "joiner" /\ Kind(s) # "joiner"
      /\ s = "lister" => BridgeLists(r)
      /\ BridgeLists(r) =>
            /\ net = "bridge" /\ s = "lister" /\ r = "bridge"
            /\ \/ v = 1 /\ Inner[v] = "inner1"
               \/ v = 2 /\ st[s].todo = <<>> /\ Inner[v] = "inner2"
            /\ st[Inner[v]].pc = "unborn"
  BY <1>1, TransferEnds
<1>3. /\ DOMAIN st' = Goroutines
      /\ st'[s] = Sent(s, c)
      /\ st'[r] = IF Kind(r) = "consumer" THEN st[r] ELSE Received(r, v)
      /\ \A g \in Goroutines \ {s, r} :
            st'[g] = IF BridgeLists(r) /\ g = Inner[v] THEN Receiving(g, st[g]) ELSE st[g]
  BY TransferMoves
<1>4. \A g \in Goroutines : LocalOK(g, st[g]) BY DEF AllLocalOK
<1> HIDE DEF v
<1>5. LocalOK(s, st'[s]) /\ st'[s].pc \in {"recv", "send", "exit", "silent"}
  BY <1>2, <1>3, <1>4, SentOK
<1>6. LocalOK(r, st'[r]) /\ (Kind(r) # "consumer" => st'[r].pc \in {"recv", "send"})
  <2>1. CASE Kind(r) = "consumer" BY <1>3, <1>4, <2>1
  <2>2. CASE Kind(r) # "consumer"
    <3>1. BridgeLists(r) => v \in {1, 2} BY <1>2
    <3> QED BY <1>2, <1>3, <1>4, <2>2, <3>1, ReceivedOK
  <2> QED BY <2>1, <2>2
<1>7. ASSUME BridgeLists(r), NEW g \in Goroutines, g = Inner[v]
      PROVE  LocalOK(g, Receiving(g, st[g])) /\ Kind(g) = "orDone"
  <2>1. Kind(g) = "orDone" BY <1>2, <1>7, BridgeNet
  <2> QED BY <1>4, <2>1, ReceivingOK DEF Receivers
<1>8. \A g \in Goroutines : LocalOK(g, st'[g]) BY <1>3, <1>4, <1>5, <1>6, <1>7
<1>9. AllLocalOK' BY <1>1, <1>3, <1>8, LocalKept
<1>10. Owners'
  <2>1. ASSUME NEW g \in Goroutines, st[g].pc = "done" PROVE st'[g].pc = "done"
    BY <1>2, <1>3, <2>1
  <2>2. ASSUME NEW g \in Goroutines, Kind(g) = "joiner", st[g].pc = "wait"
        PROVE  st'[g].pc = "wait"
    BY <1>2, <1>3, <1>7, <2>2
  <2> QED BY <1>1, <2>1, <2>2, OwnersKept
<1>11. Unborn'
  <2> SUFFICES ASSUME net = "bridge", st'["lister"].pc = "send"
               PROVE  /\ st'["inner2"].pc = "unborn"
                      /\ st'["lister"].val = 1 => st'["inner1"].pc = "unborn"
    BY <1>1 DEF Unborn
  <2>1. {"lister", "inner1", "inner2"} \subseteq Goroutines BY BridgeNet
  <2>2. CASE s = "lister"
    <3>1. st[s].val = v BY DEF v
    <3>2. Kind(s) = "generate" BY <2>2, BridgeNet
    <3>3. Sent(s, c) = IF st[s].todo = <<>> THEN Leaving(st[s])
                       ELSE Sending(s, st[s], st[s].todo)
      BY <3>2 DEF Sent
    <3>4. st[s] \in LocalStates BY <1>4 DEF LocalOK, LocalStates
    <3>5. st[s].todo # <<>>
      <4> SUFFICES ASSUME st[s].todo = <<>> PROVE FALSE OBVIOUS
      <4>1. st'[s].pc = "exit" BY <1>3, <3>3, <3>4 DEF Leaving, LocalStates
      <4> QED BY <2>2, <4>1
    <3>6. v = 1 /\ Inner[v] = "inner1" BY <1>2, <2>2, <3>5
    <3>7. st[s].todo = <<2>> BY <1>2, <1>4, <2>2, <3>1, <3>5 DEF LocalOK
    <3>8. st'[s].val = 2
      <4>1. <<2>> \in Seq(Nat) /\ <<2>> # <<>> /\ Head(<<2>>) = 2 OBVIOUS
      <4>2. st'[s] = Sending(s, st[s], <<2>>) BY <1>3, <3>3, <3>5, <3>7
      <4> QED BY <3>4, <4>1, <4>2 DEF LocalStates, Sending
    <3>9. st["inner2"].pc = "unborn" BY <1>2, <2>2 DEF Unborn
    <3>10. st'["inner2"] = st["inner2"] BY <1>2, <1>3, <2>1, <2>2, <3>6, <3>9
    <3> QED BY <2>2, <3>8, <3>9, <3>10
  <2>3. CASE s # "lister"
    <3>1. ~BridgeLists(r) BY <1>2, <2>3
    <3>2. \A g \in Goroutines \ {s, r} : st'[g] = st[g] BY <1>3, <3>1
    <3>3. st'["lister"] = st["lister"] BY <1>2, <2>1, <2>3, <3>2
    <3>4. /\ st["inner2"].pc = "unborn"
          /\ st["lister"].val = 1 => st["inner1"].pc = "unborn"
      BY <3>3 DEF Unborn
    <3> QED BY <1>2, <2>1, <3>2, <3>3, <3>4
  <2> QED BY <2>2, <2>3
<1> QED BY <1>9, <1>10, <1>11

LEMMA ExhaustedOK ==
    ASSUME NetOK, AllLocalOK, Owners, Unborn, NEW g \in Goroutines, NEW c, Exhausted(g, c)
    PROVE  AllLocalOK' /\ Owners' /\ Unborn'
<1>1. LocalOK(g, st[g]) /\ st[g].pc = "recv" BY DEF AllLocalOK, Exhausted, Awaits
<1>2. LocalOK(g, AtEnd(g)) BY <1>1, AtEndOK
<1>3. Kind(g) # "joiner" /\ g # "lister"
  BY <1>1, Wiring, PointsOf DEF LocalOK, NetOK, Wired
<1> QED BY <1>1, <1>2, <1>3, MoveOK DEF Exhausted

LEMMA JoinOK ==
    ASSUME NetOK, AllLocalOK, Owners, Unborn, NEW g \in Goroutines, Join(g)
    PROVE  AllLocalOK' /\ Owners' /\ Unborn'
<1>1. LocalOK(g, st[g]) /\ st[g].pc = "wait" /\ Kind(g) = "joiner" /\ JoinAll
  BY DEF AllLocalOK, Join
<1>2. LocalOK(g, Leaving(st[g])) /\ g # "lister"
  BY <1>1, LeavingOK, PointsOf, Wiring DEF NetOK, Wired
<1>3. st' = [st EXCEPT ![g] = Leaving(st[g])] BY DEF Join
<1> QED BY <1>1, <1>2, <1>3, MoveOK DEF Join

LEMMA FireOK ==
    ASSUME NetOK, AllLocalOK, Owners, Unborn, NEW g \in Goroutines, Fire(g)
    PROVE  AllLocalOK' /\ Owners' /\ Unborn'
<1>1. LocalOK(g, st[g]) /\ st[g].pc = "wait" /\ Kind(g) = "signal" BY DEF AllLocalOK, Fire
<1>2. LocalOK(g, Leaving(st[g])) /\ g # "lister"
  BY <1>1, LeavingOK, PointsOf, Wiring DEF NetOK, Wired
<1>3. st' = [st EXCEPT ![g] = Leaving(st[g])] BY DEF Fire
<1> QED BY <1>1, <1>2, <1>3, MoveOK DEF Fire

LEMMA HeedOK ==
    ASSUME NetOK, AllLocalOK, Owners, Unborn, NEW g, Heed(g)
    PROVE  AllLocalOK' /\ Owners' /\ Unborn'
<1>1. g \in Goroutines /\ Heeds(g) /\ LocalOK(g, st[g]) BY DEF AllLocalOK, Heed
<1>2. LocalOK(g, Heeded(g)) /\ st[g].pc \in {"recv", "send"} BY <1>1, HeededOK
<1>3. Kind(g) # "joiner" BY <1>1, <1>2, PointsOf DEF LocalOK
<1>4. g = "lister" => Heeded(g).pc # "send"
  <2> SUFFICES ASSUME g = "lister" PROVE Heeded(g).pc # "send" OBVIOUS
  <2>1. Kind(g) = "generate" BY <1>1, Wiring DEF NetOK, Wired
  <2>2. Heeded(g) = Leaving(st[g]) BY <2>1 DEF Heeded
  <2> QED BY <1>1, <2>2 DEF Leaving, LocalOK
<1> QED BY <1>1, <1>2, <1>3, <1>4, MoveOK DEF Heed

(* The deferred calls: the one step that closes channels. *)
LEMMA ExitOK ==
    ASSUME NetOK, AllLocalOK, Owners, Unborn, NEW g \in Goroutines, Exit(g)
    PROVE  AllLocalOK' /\ Owners' /\ Unborn'
<1> DEFINE t == [st[g] EXCEPT !.pc = "done"]
<1>1. /\ LocalOK(g, st[g]) /\ st[g].pc = "exit" /\ st[g] \in LocalStates
      /\ DOMAIN st = Goroutines
  BY DEF AllLocalOK, Exit, LocalOK, LocalStates
<1>2. st' = [st EXCEPT ![g] = t] /\ net' = net /\ limit' = limit BY DEF Exit
<1>3. t \in LocalStates /\ t.pc = "done" /\ t.on = {} /\ t.n = st[g].n
  BY <1>1 DEF LocalStates, PCs, LocalOK
<1>4. "done" \in Points[Kind(g)]
  BY <1>1, Wiring, PointsOf DEF LocalOK, NetOK, Wired
<1> HIDE DEF t
<1>5. LocalOK(g, t) BY <1>1, <1>3, <1>4 DEF LocalOK, LocalStates
<1>6. Kind(g) = "joiner" => JoinAll BY <1>1 DEF Owners
<1>7. AllLocalOK' /\ Unborn' BY <1>1, <1>2, <1>3, <1>5, <1>6, MoveOK
<1>8. st'[g].pc = "done" /\ \A h \in Goroutines \ {g} : st'[h] = st[h]
  BY <1>1, <1>2, <1>3
<1>9. \A c \in closed' : \E h \in Goroutines : c \in Closes(h) /\ st'[h].pc = "done"
  <2> SUFFICES ASSUME NEW c \in closed'
               PROVE  \E h \in Goroutines : c \in Closes(h) /\ st'[h].pc = "done"
    OBVIOUS
  <2>1. CASE c \in closed BY <1>8, <2>1 DEF Owners
  <2>2. CASE c \in Closes(g) BY <1>8, <2>2
  <2> QED BY <2>1, <2>2 DEF Exit
<1>10. ASSUME JoinAll PROVE JoinAll'
  BY <1>2, <1>8, <1>10, SameNet DEF JoinAll
<1>11. \A h \in Goroutines : Kind(h) = "joiner" /\ st'[h].pc # "wait" => JoinAll'
  BY <1>6, <1>8, <1>10 DEF Owners
<1>12. Owners' BY <1>2, <1>9, <1>11, SameNet DEF Owners
<1> QED BY <1>7, <1>12

LEMMA CancelOK ==
    ASSUME NetOK, AllLocalOK, Owners, Unborn, UNCHANGED <<net, st, closed, limit>>
    PROVE  AllLocalOK' /\ Owners' /\ Unborn'
<1>1. AllLocalOK' BY SameNet DEF AllLocalOK, LocalOK
<1>2. Owners' BY OwnersKept
<1>3. Unborn' BY DEF Unborn
<1> QED BY <1>1, <1>2, <1>3

LEMMA StagesStep ==
    ASSUME StagesInv, [Next]_vars
    PROVE  StagesInv'
<1>1. NetOK /\ AllLocalOK /\ Owners /\ Unborn BY DEF StagesInv
<1>2. net' = net /\ limit' = limit /\ cancelled' \in BOOLEAN
  BY ZenonT(40) DEF StagesInv, Next, vars, Own, Transfer, Exhausted, Join, Exit, Heed, Fire, Cancel,
         Terminated
<1>3. AllLocalOK' /\ Owners' /\ Unborn'
  <2>1. ASSUME NEW g \in Goroutines, Own(g) PROVE AllLocalOK' /\ Owners' /\ Unborn'
    BY <1>1, <2>1, TransferOK, ExhaustedOK, JoinOK, ExitOK DEF Own
  <2>2. ASSUME NEW g \in Goroutines, Heed(g) PROVE AllLocalOK' /\ Owners' /\ Unborn'
    BY <1>1, <2>2, HeedOK
  <2>3. ASSUME NEW g \in Goroutines, Fire(g) PROVE AllLocalOK' /\ Owners' /\ Unborn'
    BY <1>1, <2>3, FireOK
  <2>4. CASE Cancel BY <1>1, <2>4, CancelOK DEF Cancel
  <2>5. CASE Terminated \/ UNCHANGED vars BY <1>1, <2>5, CancelOK DEF Terminated, vars
  <2> QED BY <2>1, <2>2, <2>3, <2>4, <2>5 DEF Next
<1>4. GotTyped'
  <2>1. GotTyped /\ Consumers' = Consumers BY <1>2, SameNet DEF StagesInv
  <2>2. ASSUME NEW s \in Goroutines, NEW r \in Goroutines, NEW c, Transfer(s, r, c)
        PROVE  GotTyped'
    <3>1. st[s].val \in Nat BY <1>1, <2>2, TransferEnds DEF Transfer
    <3>2. CASE Kind(r) = "consumer"
      <4>1. got' = [got EXCEPT ![r] = Append(@, st[s].val)] BY <2>2, <3>2 DEF Transfer
      <4> QED BY <2>1, <3>1, <4>1 DEF GotTyped
    <3>3. CASE Kind(r) # "consumer" BY <2>1, <2>2, <3>3 DEF GotTyped, Transfer
    <3> QED BY <3>2, <3>3
  <2>3. CASE UNCHANGED got BY <2>1, <2>3 DEF GotTyped
  <2> QED BY <2>2, <2>3 DEF Next, vars, Own, Exhausted, Join, Exit, Heed, Fire, Cancel,
                            Terminated
<1>5. (closed \subseteq UNION {Out(g) : g \in Goroutines})'
  <2> DEFINE all == UNION {Out(g) : g \in Goroutines}
  <2>1. all' = all BY <1>2, SameNet
  <2>2. closed \subseteq all BY DEF StagesInv
  <2>3. \A g \in Goroutines : Closes(g) \subseteq all BY DEF Closes
  <2> HIDE DEF all
  <2>4. ASSUME NEW g \in Goroutines, Exit(g) PROVE closed' \subseteq all
    BY <2>2, <2>3, <2>4 DEF Exit
  <2>5. closed' \subseteq all
    BY <2>2, <2>4 DEF Next, vars, Own, Transfer, Exhausted, Join, Heed, Fire, Cancel,
                      Terminated
  <2> QED BY <2>1, <2>5 DEF all
<1>6. NetOK' BY <1>1, <1>2, SameNet
<1> QED BY <1>2, <1>3, <1>4, <1>5, <1>6 DEF StagesInv

LEMMA StagesInit ==
    ASSUME Init
    PROVE  StagesInv
<1>1. NetOK
  <2>1. MaxTake \in Nat BY ConstantsAssumption
  <2> QED BY <2>1 DEF Init, NetOK
<1>2. st = [g \in Goroutines |-> Start(g)] BY DEF Init
<1>3. AllLocalOK BY <1>1, <1>2, StartOK DEF AllLocalOK
<1>4. Range(Inner) = {"inner1", "inner2"} BY DEF Range, Inner
<1>5. Owners
  <2>1. ASSUME NEW g \in Goroutines, Kind(g) = "joiner" PROVE st[g].pc = "wait"
    <3>1. Wired(g) BY <1>1, Wiring DEF NetOK
    <3>2. Start(g) = Local("wait") BY <1>4, <2>1, <3>1 DEF Start, Wired
    <3> QED BY <1>2, <3>2 DEF Local
  <2> QED BY <2>1 DEF Owners, Init
<1>6. Unborn
  <2>1. ASSUME net = "bridge", NEW g \in {"inner1", "inner2"} PROVE st[g].pc = "unborn"
    <3>1. g \in Goroutines /\ Kind(g) = "orDone" BY <2>1, BridgeNet
    <3>2. Start(g) = Local("unborn") BY <1>4, <2>1, <3>1 DEF Start
    <3> QED BY <1>2, <3>1, <3>2 DEF Local
  <2> QED BY <2>1 DEF Unborn
<1>7. GotTyped
  <2>1. <<>> \in Seq(Nat) BY EmptySeq
  <2> QED BY <2>1 DEF Init, GotTyped
<1> QED BY <1>1, <1>3, <1>5, <1>6, <1>7 DEF Init, StagesInv

LEMMA StagesAlways == Spec => []StagesInv
BY StagesInit, StagesStep, PTL DEF Spec

-----------------------------------------------------------------------------
(* Every goroutine of every network is always at a point of its code, with *)
(* values to offer exactly where it sends and a channel to read wherever   *)
(* it receives; a loop of Take or Tee (channel.go:89, 142) never counts    *)
(* below zero.                                                             *)
THEOREM StagesTyped == Spec => []TypeOK
<1>1. ASSUME StagesInv PROVE TypeOK
  <2>1. MaxTake \in Nat /\ limit \in Nat /\ limit <= MaxTake
    BY <1>1, ConstantsAssumption DEF StagesInv, NetOK
  <2>2. ASSUME NEW g \in Goroutines
        PROVE  /\ st[g].pc \in PCs
               /\ st[g].n \in 0 .. MaxTake + TeeRounds
               /\ (st[g].pc = "send") <=> (st[g].on # {})
               /\ (st[g].pc = "recv") => (st[g].from # {})
    <3>1. LocalOK(g, st[g]) BY <1>1 DEF StagesInv, AllLocalOK
    <3>2. st[g].pc \in PCs /\ st[g].n \in Nat BY <3>1 DEF LocalOK
    <3>3. \/ st[g].n = 0 \/ st[g].n = 1 \/ st[g].n = 2
          \/ Kind(g) = "take" /\ st[g].n <= limit
      BY <3>1 DEF LocalOK
    <3>4. st[g].n \in 0 .. MaxTake + TeeRounds
      BY <2>1, <3>2, <3>3 DEF TeeRounds
    <3> QED BY <3>1, <3>2, <3>4 DEF LocalOK
  <2> QED BY <1>1, <2>2 DEF TypeOK, StagesInv, NetOK, GotTyped, AllLocalOK
<1> QED BY <1>1, StagesAlways, PTL

(* No goroutine ever sends on a closed channel or closes one twice, either *)
(* of which panics: each channel has one goroutine that closes it, in its  *)
(* deferred calls after its last send, and FanIn's joiner closes the       *)
(* channel its workers share after all of them have called Done            *)
(* (channel.go:106-124).                                                   *)
THEOREM StagesNeverPanic == Spec => []NeverPanics
<1>1. ASSUME StagesInv PROVE NeverPanics
  <2>1. /\ net \in DOMAIN Networks /\ Owners
        /\ \A g \in Goroutines : LocalOK(g, st[g])
    BY <1>1 DEF StagesInv, NetOK, AllLocalOK
  <2> SUFFICES ASSUME NEW g \in Goroutines
               PROVE  /\ st[g].on \cap closed = {}
                      /\ st[g].pc = "exit" => Closes(g) \cap closed = {}
    BY DEF NeverPanics
  <2>2. st[g].on \cap closed = {}
    <3> SUFFICES ASSUME NEW c \in st[g].on, c \in closed PROVE FALSE OBVIOUS
    <3>1. st[g].pc = "send" /\ c \in Out(g) BY <2>1 DEF LocalOK
    <3>2. PICK h \in Goroutines : c \in Closes(h) /\ st[h].pc = "done"
      BY <2>1 DEF Owners
    <3>3. CASE Kind(g) = "merge"
      <4>1. Kind(h) = "joiner" BY <2>1, <3>1, <3>2, <3>3, OneOwner
      <4>2. JoinAll BY <2>1, <3>2, <4>1 DEF Owners
      <4> QED BY <3>1, <3>3, <4>2 DEF JoinAll
    <3>4. CASE Kind(g) # "merge"
      <4>1. c \in Closes(g) BY <3>1, <3>4 DEF Closes
      <4>2. g = h BY <2>1, <3>2, <4>1, OneOwner
      <4> QED BY <3>1, <3>2, <4>2
    <3> QED BY <3>3, <3>4
  <2>3. ASSUME st[g].pc = "exit", NEW c \in Closes(g), c \in closed PROVE FALSE
    <3>1. PICK h \in Goroutines : c \in Closes(h) /\ st[h].pc = "done"
      BY <2>1, <2>3 DEF Owners
    <3>2. g = h BY <2>1, <2>3, <3>1, OneOwner
    <3> QED BY <2>3, <3>1, <3>2
  <2> QED BY <2>2, <2>3
<1> QED BY <1>1, StagesAlways, PTL

-----------------------------------------------------------------------------
(* What a step does to the values in flight *)

LEMMA Wires ==
    ASSUME NetOK, NEW g \in Goroutines
    PROVE  /\ Kind(g) \in {"orDone", "merge", "tee"} => \A c, d \in In(g) : c = d
           /\ Kind(g) = "take" => g = "take"
           /\ net = "tee" => Kind(g) # "take"
<1>1. CASE net = "orDone" BY <1>1, OrDoneNet
<1>2. CASE net = "silent" BY <1>2, SilentNet
<1>3. CASE net = "take" BY <1>3, TakeNet
<1>4. CASE net = "repeat" BY <1>4, RepeatNet
<1>5. CASE net = "fanIn" BY <1>5, FanInNet
<1>6. CASE net = "tee" BY <1>6, TeeNet
<1>7. CASE net = "bridge" BY <1>7, BridgeNet
<1>8. CASE net = "or" BY <1>8, OrNet
<1> QED BY <1>1, <1>2, <1>3, <1>4, <1>5, <1>6, <1>7, <1>8, NetworkNames DEF NetOK

LEMMA LeftAfter ==
    ASSUME NetOK, NEW g \in Goroutines, LocalOK(g, st[g]), st[g].pc = "send",
           Kind(g) \in {"generate", "source"}, NEW c, st'[g] = Sent(g, c)
    PROVE  Left(g) \in Nat /\ Left(g)' \in Nat /\ Left(g)' = Left(g) - 1
<1>1. st[g] \in LocalStates BY DEF LocalOK, LocalStates
<1>2. st[g].todo \in Seq(Nat) BY <1>1 DEF LocalStates
<1>4. Left(g) = 1 + Len(st[g].todo) /\ Len(st[g].todo) \in Nat
  BY <1>2, LenProperties DEF Left
<1>5. CASE st[g].todo = <<>>
  <2>1. Sent(g, c).pc # "send"
    BY <1>1, <1>5 DEF Sent, Leaving, Resumed, LocalStates
  <2>2. Len(st[g].todo) = 0 BY <1>2, <1>5, LenProperties
  <2> QED BY <1>4, <2>1, <2>2 DEF Left
<1>6. CASE st[g].todo # <<>>
  <2>1. Sent(g, c) = Sending(g, st[g], st[g].todo) BY <1>6 DEF Sent
  <2>2. Sent(g, c).pc = "send" /\ Sent(g, c).todo = Tail(st[g].todo)
    BY <1>1, <2>1 DEF LocalStates, Sending
  <2>3. Len(Tail(st[g].todo)) = Len(st[g].todo) - 1 /\ Len(Tail(st[g].todo)) \in Nat
    BY <1>2, <1>6, HeadTailProperties, LenProperties
  <2> QED BY <1>4, <2>2, <2>3 DEF Left
<1> QED BY <1>5, <1>6

LEMMA HeldAfter ==
    ASSUME NEW g \in Goroutines, LocalOK(g, st[g]), st[g].pc = "send",
           Kind(g) \in {"orDone", "merge", "bridge"}, NEW c, st'[g] = Sent(g, c)
    PROVE  Held(g) = 1 /\ Held(g)' = 0
<1>1. st[g] \in LocalStates BY DEF LocalOK, LocalStates
<1>2. Sent(g, c) = Resumed(st[g]) BY DEF Sent
<1>3. Resumed(st[g]).pc = "recv" BY <1>1 DEF Resumed, LocalStates
<1> QED BY <1>2, <1>3 DEF Held

LEMMA HeldReceived ==
    ASSUME NEW g \in Goroutines, LocalOK(g, st[g]), st[g].pc = "recv",
           Kind(g) \in {"orDone", "merge", "bridge"}, ~BridgeLists(g),
           NEW v, st'[g] = Received(g, v)
    PROVE  Held(g) = 0 /\ Held(g)' = 1
<1>1. st[g] \in LocalStates BY DEF LocalOK, LocalStates
<1>2. Received(g, v).pc = "send" BY <1>1 DEF Received, LocalStates
<1> QED BY <1>2 DEF Held

(* A step that hands no value over and drops none. *)
Quiet ==
    /\ net' = net /\ limit' = limit /\ got' = got
    /\ \A g \in Goroutines :
          \/ st'[g] = st[g]
          \/ /\ st[g].pc # "send" /\ st'[g].n = st[g].n
             /\ st'[g].pc = "send" => Kind(g) = "take"

LEMMA AtEndQuiet ==
    ASSUME NetOK, NEW g \in Goroutines, LocalOK(g, st[g]), st[g].pc = "recv"
    PROVE  /\ AtEnd(g).n = st[g].n
           /\ Kind(g) # "take" => AtEnd(g).pc \in {"recv", "exit"}
           /\ Kind(g) = "take" => AtEnd(g).pc = "send"
           /\ AtEnd(g).pc = "recv" => Kind(g) = "bridge" /\ AtEnd(g).from = {"s"}
           /\ AtEnd(g).pc = "exit" /\ Kind(g) = "bridge" => st[g].from = {"s"}
<1>1. st[g] \in LocalStates BY DEF LocalOK, LocalStates
<1>2. CASE Kind(g) = "take"
  <2>1. AtEnd(g) = Received(g, Zero) /\ ~BridgeLists(g) BY <1>2 DEF AtEnd, BridgeLists
  <2>2. Received(g, Zero) = [st[g] EXCEPT !.pc = "send", !.val = Zero, !.on = Out(g), !.n = @]
    BY <1>2, <2>1 DEF Received
  <2> QED BY <1>1, <1>2, <2>1, <2>2 DEF LocalStates
<1>3. CASE Kind(g) = "bridge" /\ ~BridgeLists(g)
  <2>1. AtEnd(g) = Receiving(g, st[g]) BY <1>3 DEF AtEnd
  <2>2. In(g) = {"s"} BY <1>3, Wiring DEF NetOK, Wired
  <2> QED BY <1>1, <1>3, <2>1, <2>2 DEF LocalStates, Receiving
<1>4. CASE Kind(g) # "take" /\ (Kind(g) = "bridge" => BridgeLists(g))
  <2>1. AtEnd(g) = Leaving(st[g]) BY <1>4 DEF AtEnd
  <2>2. Kind(g) = "bridge" => st[g].from = {"s"}
    BY <1>4, Wiring DEF NetOK, Wired, BridgeLists
  <2> QED BY <1>1, <1>4, <2>1, <2>2 DEF LocalStates, Leaving
<1> QED BY <1>2, <1>3, <1>4

LEMMA QuietSteps ==
    ASSUME NetOK, AllLocalOK, NEW g \in Goroutines,
           \/ \E c : Exhausted(g, c)
           \/ Join(g)
           \/ Exit(g)
           \/ Fire(g)
    PROVE  Quiet
<1>1. DOMAIN st = Goroutines /\ LocalOK(g, st[g]) /\ st[g] \in LocalStates
  BY DEF AllLocalOK, LocalOK, LocalStates
<1>2. CASE \E c : Exhausted(g, c)
  <2>1. st' = [st EXCEPT ![g] = AtEnd(g)] /\ st[g].pc = "recv"
    BY <1>2 DEF Exhausted, Awaits
  <2> QED BY <1>1, <1>2, <2>1, AtEndQuiet DEF Quiet, Exhausted
<1>3. CASE Join(g) \/ Fire(g)
  <2>1. st' = [st EXCEPT ![g] = Leaving(st[g])] /\ st[g].pc = "wait" BY <1>3 DEF Join, Fire
  <2>2. Leaving(st[g]).pc = "exit" /\ Leaving(st[g]).n = st[g].n
    BY <1>1 DEF Leaving, LocalStates
  <2> QED BY <1>1, <1>3, <2>1, <2>2 DEF Quiet, Join, Fire
<1>4. CASE Exit(g)
  <2> DEFINE t == [st[g] EXCEPT !.pc = "done"]
  <2>1. st' = [st EXCEPT ![g] = t] /\ st[g].pc = "exit" BY <1>4 DEF Exit
  <2>2. t.pc = "done" /\ t.n = st[g].n BY <1>1 DEF LocalStates
  <2> HIDE DEF t
  <2> QED BY <1>1, <1>4, <2>1, <2>2 DEF Quiet, Exit
<1> QED BY <1>2, <1>3, <1>4

(* What a consumer gets of a transfer. *)
LEMMA Delivered ==
    ASSUME GotTyped, NEW s \in Goroutines, NEW r \in Goroutines, NEW c, Transfer(s, r, c)
    PROVE  /\ \A k \in Consumers : Len(got[k]) \in Nat
           /\ Kind(r) = "consumer" /\ r \in Consumers =>
                 /\ got'[r] = Append(got[r], st[s].val)
                 /\ Len(got'[r]) = Len(got[r]) + 1
           /\ \A k \in Consumers : k # r => got'[k] = got[k]
           /\ Kind(r) # "consumer" => got' = got
<1>1. \A k \in Consumers : Len(got[k]) \in Nat BY LenProperties DEF GotTyped
<1>2. CASE Kind(r) = "consumer" /\ r \in Consumers
  <2>1. got' = [got EXCEPT ![r] = Append(@, st[s].val)] BY <1>2 DEF Transfer
  <2>2. got'[r] = Append(got[r], st[s].val) /\ \A k \in Consumers : k # r => got'[k] = got[k]
    BY <1>2, <2>1 DEF GotTyped
  <2>3. got[r] \in Seq(Nat) BY <1>2 DEF GotTyped
  <2>4. Len(Append(got[r], st[s].val)) = Len(got[r]) + 1 BY <2>3
  <2> QED BY <1>1, <1>2, <2>2, <2>4
<1>3. CASE Kind(r) = "consumer" /\ r \notin Consumers
  <2>1. got' = [got EXCEPT ![r] = Append(@, st[s].val)] BY <1>3 DEF Transfer
  <2> QED BY <1>1, <1>3, <2>1 DEF GotTyped
<1>4. CASE Kind(r) # "consumer" BY <1>1, <1>4 DEF Transfer
<1> QED BY <1>2, <1>3, <1>4

-----------------------------------------------------------------------------
(* Conserved: a hand-over moves one value one stage further *)

LEMMA TotalKept == net' = net /\ limit' = limit => Total' = Total
BY DEF Total

LEMMA LengthsNat ==
    ASSUME AllLocalOK, NEW g \in Goroutines
    PROVE  Left(g) \in Nat /\ Held(g) \in Nat /\ st[g].n \in Nat /\ \A c : HeldFor(g, c) \in Nat
<1>1. LocalOK(g, st[g]) BY DEF AllLocalOK
<1>2. st[g].todo \in Seq(Nat) /\ st[g].n \in Nat BY <1>1 DEF LocalOK
<1> QED BY <1>2, LenProperties DEF Left, Held, HeldFor

LEMMA QuietConserves ==
    ASSUME NetOK, AllLocalOK, Quiet, Conserved
    PROVE  Conserved'
<1>1. net' = net /\ got' = got /\ Total' = Total BY TotalKept DEF Quiet
<1>2. ASSUME NEW g \in Goroutines, Kind(g) # "take"
      PROVE  Left(g)' = Left(g) /\ Held(g)' = Held(g) /\ \A c : HeldFor(g, c)' = HeldFor(g, c)
  BY <1>2 DEF Quiet, Left, Held, HeldFor
<1>3. \A g \in Goroutines : st'[g].n = st[g].n BY DEF Quiet
<1>4. CASE net = "orDone" BY <1>1, <1>2, <1>4, OrDoneNet DEF Conserved
<1>5. CASE net = "silent" BY <1>1, <1>2, <1>5, SilentNet DEF Conserved
<1>6. CASE net = "take" BY <1>1, <1>3, <1>6, TakeNet DEF Conserved
<1>7. CASE net = "repeat" BY <1>1, <1>3, <1>7, RepeatNet DEF Conserved
<1>8. CASE net = "fanIn" BY <1>1, <1>2, <1>8, FanInNet DEF Conserved
<1>9. CASE net = "tee" BY <1>1, <1>2, <1>9, TeeNet DEF Conserved
<1>10. CASE net = "bridge" BY <1>1, <1>2, <1>10, BridgeNet DEF Conserved
<1>11. CASE net = "or" BY <1>1, <1>11 DEF Conserved
<1> QED
  BY <1>4, <1>5, <1>6, <1>7, <1>8, <1>9, <1>10, <1>11, NetworkNames DEF NetOK

(* The facts about a transfer that the networks below share. *)
Handed(s, r, c) ==
    /\ s # r /\ net' = net /\ Total' = Total
    /\ st[s].pc = "send" /\ st[r].pc = "recv" /\ c \in st[s].on /\ c \in Out(s)
    /\ c \in st[r].from /\ (Kind(r) # "bridge" => st[r].from = In(r))
    /\ st'[s] = Sent(s, c)
    /\ st'[r] = IF Kind(r) = "consumer" THEN st[r] ELSE Received(r, st[s].val)
    /\ ~BridgeLists(r) => \A g \in Goroutines \ {s, r} : st'[g] = st[g]
    /\ Kind(r) \notin {"generate", "repeat", "source", "signal", "joiner", "or"}
    /\ Kind(s) \notin {"signal", "joiner", "or", "consumer"}
    /\ \A k \in Consumers : Len(got[k]) \in Nat
    /\ Kind(r) = "consumer" /\ r \in Consumers =>
          got'[r] = Append(got[r], st[s].val) /\ Len(got'[r]) = Len(got[r]) + 1
    /\ \A k \in Consumers : k # r => got'[k] = got[k]
    /\ Kind(r) # "consumer" => got' = got

LEMMA HandedOn ==
    ASSUME StagesInv, NEW s \in Goroutines, NEW r \in Goroutines, NEW c, Transfer(s, r, c)
    PROVE  Handed(s, r, c)
<1>1. NetOK /\ AllLocalOK /\ Unborn /\ GotTyped BY DEF StagesInv
<1>2. Offers(s, c) /\ Awaits(r, c) /\ net' = net /\ limit' = limit BY DEF Transfer
<1>3. /\ s # r /\ st[s].pc = "send" /\ st[r].pc = "recv"
      /\ c \in st[s].on /\ c \in Out(s)
      /\ Kind(s) \in Senders \cup {"take", "tee", "orDone", "merge", "bridge"}
      /\ Kind(r) \in Receivers \ {"or"}
  BY <1>1, <1>2, TransferEnds
<1>4. /\ st'[s] = Sent(s, c)
      /\ st'[r] = IF Kind(r) = "consumer" THEN st[r] ELSE Received(r, st[s].val)
      /\ ~BridgeLists(r) => \A g \in Goroutines \ {s, r} : st'[g] = st[g]
  BY <1>1, TransferMoves
<1>5. c \in st[r].from BY <1>2 DEF Awaits
<1>6. Kind(r) # "bridge" => st[r].from = In(r) BY <1>1, <1>3 DEF AllLocalOK, LocalOK
<1>7. Kind(r) \notin {"generate", "repeat", "source", "signal", "joiner", "or"}
  BY <1>3 DEF Receivers
<1>8. Kind(s) \notin {"signal", "joiner", "or", "consumer"} BY <1>3 DEF Senders
<1>9. /\ \A k \in Consumers : Len(got[k]) \in Nat
      /\ Kind(r) = "consumer" /\ r \in Consumers =>
            got'[r] = Append(got[r], st[s].val) /\ Len(got'[r]) = Len(got[r]) + 1
      /\ \A k \in Consumers : k # r => got'[k] = got[k]
      /\ Kind(r) # "consumer" => got' = got
  BY <1>1, Delivered
<1>10. Total' = Total BY <1>2, TotalKept
<1> QED BY <1>2, <1>3, <1>4, <1>5, <1>6, <1>7, <1>8, <1>9, <1>10 DEF Handed

LEMMA OrDoneConserves ==
    ASSUME StagesInv, Conserved, net \in {"orDone", "silent"},
           NEW s \in Goroutines, NEW r \in Goroutines, NEW c, Transfer(s, r, c)
    PROVE  Conserved'
<1>1. /\ Goroutines = {"gen1", "orDone", "con1"} /\ Consumers = {"con1"}
      /\ Kind("gen1") \in {"generate", "source"} /\ Kind("orDone") = "orDone"
      /\ Kind("con1") = "consumer"
      /\ Out("gen1") = {"a"} /\ Out("orDone") = {"x"}
      /\ In("orDone") = {"a"} /\ In("con1") = {"x"}
  BY OrDoneNet, SilentNet DEF Consumers, AllConsumers
<1>2. Handed(s, r, c) BY HandedOn
<1>3. AllLocalOK /\ \A g \in Goroutines : LocalOK(g, st[g]) BY DEF StagesInv, AllLocalOK
<1>4. ~BridgeLists(r) BY <1>1 DEF BridgeLists
<1>5. Len(got["con1"]) + Held("orDone") + Left("gen1") = Total BY DEF Conserved
<1>6. Held("orDone") \in Nat /\ Left("gen1") \in Nat /\ Len(got["con1"]) \in Nat
  BY <1>1, <1>2, <1>3, LengthsNat DEF Handed
<1>7. CASE s = "gen1" /\ r = "orDone"
  <2>1. Left("gen1")' = Left("gen1") - 1
    BY <1>1, <1>2, <1>3, <1>7, LeftAfter DEF Handed, StagesInv
  <2>2. Held("orDone") = 0 /\ Held("orDone")' = 1
    BY <1>1, <1>2, <1>3, <1>4, <1>7, HeldReceived DEF Handed
  <2>3. got' = got /\ net' = net /\ Total' = Total BY <1>1, <1>2, <1>7 DEF Handed
  <2>4. (Len(got["con1"]) + Held("orDone") + Left("gen1") = Total)'
    BY <1>5, <1>6, <2>1, <2>2, <2>3
  <2> QED BY <2>3, <2>4 DEF Conserved
<1>8. CASE s = "orDone" /\ r = "con1"
  <2>1. Held("orDone") = 1 /\ Held("orDone")' = 0
    BY <1>1, <1>2, <1>3, <1>8, HeldAfter DEF Handed
  <2>2. Left("gen1")' = Left("gen1") BY <1>1, <1>2, <1>4, <1>8 DEF Handed, Left
  <2>3. Len(got'["con1"]) = Len(got["con1"]) + 1 /\ net' = net /\ Total' = Total
    BY <1>1, <1>2, <1>8 DEF Handed
  <2>4. (Len(got["con1"]) + Held("orDone") + Left("gen1") = Total)'
    BY <1>5, <1>6, <2>1, <2>2, <2>3
  <2> QED BY <2>3, <2>4 DEF Conserved
<1> QED BY <1>1, <1>2, <1>7, <1>8 DEF Handed

LEMMA TakeConserves ==
    ASSUME StagesInv, Conserved, net \in {"take", "repeat"},
           NEW s \in Goroutines, NEW r \in Goroutines, NEW c, Transfer(s, r, c)
    PROVE  Conserved'
<1>1. /\ Goroutines = {"gen1", "take", "con1"} /\ Consumers = {"con1"}
      /\ Kind("take") = "take" /\ Kind("con1") = "consumer"
      /\ Kind("gen1") \in {"generate", "repeat"}
      /\ Out("gen1") = {"a"} /\ Out("take") = {"x"}
      /\ In("take") = {"a"} /\ In("con1") = {"x"}
  BY TakeNet, RepeatNet DEF Consumers, AllConsumers
<1>2. Handed(s, r, c) BY HandedOn
<1>3. AllLocalOK /\ \A g \in Goroutines : LocalOK(g, st[g]) BY DEF StagesInv, AllLocalOK
<1>4. ~BridgeLists(r) BY <1>1 DEF BridgeLists
<1>5. Len(got["con1"]) + st["take"].n = Total BY DEF Conserved
<1>6. st["take"].n \in Nat /\ Len(got["con1"]) \in Nat /\ st["take"] \in LocalStates
  BY <1>1, <1>2, <1>3, LengthsNat DEF Handed, LocalOK, LocalStates
<1>7. CASE s = "gen1" /\ r = "take"
  <2>1. st'["take"] = Received("take", st[s].val) BY <1>1, <1>2, <1>7 DEF Handed
  <2>2. Received("take", st[s].val)
          = [st["take"] EXCEPT !.pc = "send", !.val = st[s].val, !.on = Out("take"), !.n = @]
    BY <1>1, <1>4, <1>7 DEF Received
  <2>3. st'["take"].n = st["take"].n BY <1>6, <2>1, <2>2 DEF LocalStates
  <2>4. got' = got /\ net' = net /\ Total' = Total BY <1>1, <1>2, <1>7 DEF Handed
  <2> QED BY <1>5, <2>3, <2>4 DEF Conserved
<1>8. CASE s = "take" /\ r = "con1"
  <2>1. st'["take"] = NextRound("take", [st["take"] EXCEPT !.n = @ - 1])
    BY <1>1, <1>2, <1>8 DEF Handed, Sent
  <2>2. st'["take"].n = st["take"].n - 1
    BY <1>6, <2>1 DEF NextRound, Leaving, Receiving, LocalStates
  <2>3. Len(got'["con1"]) = Len(got["con1"]) + 1 /\ net' = net /\ Total' = Total
    BY <1>1, <1>2, <1>8 DEF Handed
  <2>4. (Len(got["con1"]) + st["take"].n = Total)'
    BY <1>5, <1>6, <2>2, <2>3
  <2> QED BY <2>3, <2>4 DEF Conserved
<1> QED BY <1>1, <1>2, <1>7, <1>8 DEF Handed

LEMMA FanInConserves ==
    ASSUME StagesInv, Conserved, net = "fanIn",
           NEW s \in Goroutines, NEW r \in Goroutines, NEW c, Transfer(s, r, c)
    PROVE  Conserved'
<1>1. /\ Goroutines = {"gen1", "gen2", "merge1", "merge2", "joiner", "con1"}
      /\ Consumers = {"con1"}
      /\ Kind("gen1") = "generate" /\ Kind("gen2") = "generate"
      /\ Kind("merge1") = "merge" /\ Kind("merge2") = "merge"
      /\ Kind("joiner") = "joiner" /\ Kind("con1") = "consumer"
      /\ Out("gen1") = {"a"} /\ Out("gen2") = {"b"}
      /\ Out("merge1") = {"x"} /\ Out("merge2") = {"x"}
      /\ In("merge1") = {"a"} /\ In("merge2") = {"b"} /\ In("con1") = {"x"}
  BY FanInNet DEF Consumers, AllConsumers
<1>2. Handed(s, r, c) BY HandedOn
<1>3. AllLocalOK /\ \A g \in Goroutines : LocalOK(g, st[g]) BY DEF StagesInv, AllLocalOK
<1>4. ~BridgeLists(r) BY <1>1 DEF BridgeLists
<1> DEFINE Sum == Len(got["con1"]) + Held("merge1") + Held("merge2") + Left("gen1") + Left("gen2")
<1>5. Sum = Total BY DEF Conserved
<1>6. /\ Held("merge1") \in Nat /\ Held("merge2") \in Nat /\ Len(got["con1"]) \in Nat
      /\ Left("gen1") \in Nat /\ Left("gen2") \in Nat
  BY <1>1, <1>2, <1>3, LengthsNat DEF Handed
<1>7. \A g \in Goroutines \ {s, r} : Held(g)' = Held(g) /\ Left(g)' = Left(g)
  BY <1>2, <1>4 DEF Handed, Held, Left
<1>8. net' = net /\ Total' = Total BY <1>2 DEF Handed
<1>9. ASSUME s \in {"gen1", "gen2"}, r \in {"merge1", "merge2"}
      PROVE  (Sum = Total)'
  <2>1. Left(s)' = Left(s) - 1
    BY <1>1, <1>2, <1>3, <1>9, LeftAfter DEF Handed, StagesInv
  <2>2. Held(r) = 0 /\ Held(r)' = 1
    BY <1>1, <1>2, <1>3, <1>4, <1>9, HeldReceived DEF Handed
  <2>3. got' = got BY <1>1, <1>2, <1>9 DEF Handed
  <2>4. (s = "gen1" /\ r = "merge1") \/ (s = "gen2" /\ r = "merge2")
    BY <1>1, <1>2, <1>9 DEF Handed
  <2>5. CASE s = "gen1" /\ r = "merge1"
    <3>1. Left("gen2")' = Left("gen2") /\ Held("merge2")' = Held("merge2")
      BY <1>1, <1>7, <2>5
    <3> QED BY <1>5, <1>6, <1>8, <2>1, <2>2, <2>3, <2>5, <3>1
  <2>6. CASE s = "gen2" /\ r = "merge2"
    <3>1. Left("gen1")' = Left("gen1") /\ Held("merge1")' = Held("merge1")
      BY <1>1, <1>7, <2>6
    <3> QED BY <1>5, <1>6, <1>8, <2>1, <2>2, <2>3, <2>6, <3>1
  <2> QED BY <2>4, <2>5, <2>6
<1>10. ASSUME s \in {"merge1", "merge2"}, r = "con1"
       PROVE  (Sum = Total)'
  <2>1. Held(s) = 1 /\ Held(s)' = 0
    BY <1>1, <1>2, <1>3, <1>10, HeldAfter DEF Handed
  <2>2. Len(got'["con1"]) = Len(got["con1"]) + 1
    BY <1>1, <1>2, <1>10 DEF Handed
  <2>3. Left("gen1")' = Left("gen1") /\ Left("gen2")' = Left("gen2")
    BY <1>1, <1>7, <1>10
  <2>4. CASE s = "merge1"
    <3>1. Held("merge2")' = Held("merge2") BY <1>1, <1>7, <1>10, <2>4
    <3> QED BY <1>5, <1>6, <1>8, <2>1, <2>2, <2>3, <2>4, <3>1
  <2>5. CASE s = "merge2"
    <3>1. Held("merge1")' = Held("merge1") BY <1>1, <1>7, <1>10, <2>5
    <3> QED BY <1>5, <1>6, <1>8, <2>1, <2>2, <2>3, <2>5, <3>1
  <2> QED BY <1>10, <2>4, <2>5
<1>11. (Sum = Total)' BY <1>1, <1>2, <1>9, <1>10 DEF Handed
<1> QED BY <1>8, <1>11 DEF Conserved

LEMMA TeeConserves ==
    ASSUME StagesInv, Conserved, Copies, net = "tee",
           NEW s \in Goroutines, NEW r \in Goroutines, NEW c, Transfer(s, r, c)
    PROVE  Conserved' /\ Copies'
<1>1. /\ Goroutines = {"gen1", "orDone", "tee", "con1", "con2"}
      /\ Consumers = {"con1", "con2"}
      /\ Kind("gen1") = "generate" /\ Kind("orDone") = "orDone" /\ Kind("tee") = "tee"
      /\ Kind("con1") = "consumer" /\ Kind("con2") = "consumer"
      /\ Out("gen1") = {"a"} /\ Out("orDone") = {"m"} /\ Out("tee") = {"x", "y"}
      /\ In("orDone") = {"a"} /\ In("tee") = {"m"} /\ In("con1") = {"x"} /\ In("con2") = {"y"}
  BY TeeNet DEF Consumers, AllConsumers
<1>2. Handed(s, r, c) BY HandedOn
<1>3. /\ NetOK /\ AllLocalOK /\ \A g \in Goroutines : LocalOK(g, st[g])
      /\ \A g \in Goroutines : st[g] \in LocalStates
  BY DEF StagesInv, AllLocalOK, LocalOK, LocalStates
<1>4. ~BridgeLists(r) BY <1>1 DEF BridgeLists
<1> DEFINE t == st["tee"]
           Sum == Len(got["con1"]) + HeldFor("tee", "x") + Held("orDone") + Left("gen1")
<1>5. Sum = Total BY DEF Conserved
<1>6. /\ Held("orDone") \in Nat /\ Left("gen1") \in Nat /\ Len(got["con1"]) \in Nat
      /\ HeldFor("tee", "x") \in Nat
  BY <1>1, <1>2, <1>3, LengthsNat DEF Handed
<1>7. \A g \in Goroutines \ {s, r} : st'[g] = st[g]
  BY <1>2, <1>4 DEF Handed
<1>8. net' = net /\ Total' = Total BY <1>2 DEF Handed
<1>9. CASE s = "gen1" /\ r = "orDone"
  <2>1. Left("gen1")' = Left("gen1") - 1
    BY <1>1, <1>2, <1>3, <1>9, LeftAfter DEF Handed
  <2>2. Held("orDone") = 0 /\ Held("orDone")' = 1
    BY <1>1, <1>2, <1>3, <1>4, <1>9, HeldReceived DEF Handed
  <2>3. got' = got /\ t' = t BY <1>1, <1>2, <1>7, <1>9 DEF Handed
  <2>4. HeldFor("tee", "x")' = HeldFor("tee", "x") BY <2>3 DEF HeldFor
  <2>5. (Sum = Total)' BY <1>5, <1>6, <1>8, <2>1, <2>2, <2>3, <2>4
  <2> QED BY <1>8, <2>3, <2>5 DEF Conserved, Copies
<1>10. CASE s = "orDone" /\ r = "tee"
  <2>1. Held("orDone") = 1 /\ Held("orDone")' = 0
    BY <1>1, <1>2, <1>3, <1>10, HeldAfter DEF Handed
  <2>2. got' = got /\ Left("gen1")' = Left("gen1")
    BY <1>1, <1>2, <1>7, <1>10 DEF Handed, Left
  <2>3. t' = [t EXCEPT !.pc = "send", !.val = st[s].val, !.on = {"x", "y"}, !.n = 2]
    BY <1>1, <1>2, <1>4, <1>10 DEF Handed, Received, TeeRounds
  <2>4. t'.pc = "send" /\ t'.on = {"x", "y"} /\ t'.n = 2 /\ t.pc = "recv"
    BY <1>1, <1>2, <1>3, <1>10, <2>3 DEF LocalStates, Handed
  <2>5. HeldFor("tee", "x") = 0 /\ HeldFor("tee", "x")' = 1 BY <2>4 DEF HeldFor
  <2>6. Sum' = Sum BY <1>6, <2>1, <2>2, <2>5
  <2>7. t.on = {} BY <1>1, <1>3, <2>4 DEF LocalOK
  <2>8. got["con1"] = got["con2"] BY <2>7 DEF Copies
  <2>9. Copies' BY <2>2, <2>4, <2>8 DEF Copies
  <2> QED BY <1>5, <1>8, <2>6, <2>9 DEF Conserved
<1>11. CASE s = "tee" /\ r \in {"con1", "con2"}
  <2>1. Left("gen1")' = Left("gen1") /\ Held("orDone")' = Held("orDone")
    BY <1>1, <1>7, <1>11 DEF Left, Held
  <2>2. t.pc = "send" /\ c \in t.on /\ c = IF r = "con1" THEN "x" ELSE "y"
    BY <1>1, <1>2, <1>11 DEF Handed
  <2>3. t' = TeeRound([t EXCEPT !.on = @ \ {c}])
    BY <1>1, <1>2, <1>11 DEF Handed, Sent, Served
  <2>4. t \in LocalStates BY <1>1, <1>3
  <2>5. /\ got'[r] = Append(got[r], t.val) /\ Len(got'[r]) = Len(got[r]) + 1
        /\ \A k \in {"con1", "con2"} \ {r} : got'[k] = got[k]
    BY <1>1, <1>2, <1>11 DEF Handed
  <2>6. CASE t.n = 2
    <3>1. got["con1"] = got["con2"] /\ t.on = {"x", "y"} BY <2>2, <2>6 DEF Copies
    <3>2. t'.pc = "send" /\ t'.n = 1 /\ t'.on = t.on \ {c} /\ t'.val = t.val
      BY <2>2, <2>3, <2>4, <2>6 DEF TeeRound, LocalStates
    <3>3. Copies' BY <1>11, <2>2, <2>5, <3>1, <3>2 DEF Copies
    <3>4. HeldFor("tee", "x") = 1 /\ HeldFor("tee", "x")' = IF r = "con1" THEN 0 ELSE 1
      BY <1>11, <2>2, <3>1, <3>2 DEF HeldFor
    <3>5. Sum' = Sum BY <1>6, <1>11, <2>1, <2>5, <3>4
    <3> QED BY <1>5, <1>8, <3>3, <3>5 DEF Conserved
  <2>7. CASE t.n # 2
    <3>1. /\ t.n = 1
          /\ \/ got["con2"] = Append(got["con1"], t.val) /\ t.on = {"x"}
             \/ got["con1"] = Append(got["con2"], t.val) /\ t.on = {"y"}
      BY <2>2, <2>7 DEF Copies
    <3>2. t'.pc = "recv" /\ t'.n = 0 /\ t'.on = {}
      BY <2>2, <2>3, <2>4, <3>1 DEF TeeRound, LocalStates
    <3>3. Copies' BY <1>11, <2>2, <2>5, <3>1, <3>2 DEF Copies
    <3>4. HeldFor("tee", "x") = (IF r = "con1" THEN 1 ELSE 0) /\ HeldFor("tee", "x")' = 0
      BY <1>11, <2>2, <3>1, <3>2 DEF HeldFor
    <3>5. Sum' = Sum BY <1>6, <1>11, <2>1, <2>5, <3>4
    <3> QED BY <1>5, <1>8, <3>3, <3>5 DEF Conserved
  <2> QED BY <2>6, <2>7
<1> QED BY <1>1, <1>2, <1>9, <1>10, <1>11 DEF Handed

(* Who can hand a value to whom in Bridge's network. *)
LEMMA BridgeHands ==
    ASSUME StagesInv, net = "bridge",
           NEW s \in Goroutines, NEW r \in Goroutines, NEW c, Transfer(s, r, c)
    PROVE  /\ Goroutines = {"gen1", "gen2", "lister", "bridge", "inner1", "inner2", "con1"}
           /\ Consumers = {"con1"}
           /\ \/ s = "gen1" /\ r = "inner1" /\ ~BridgeLists(r)
              \/ s = "gen2" /\ r = "inner2" /\ ~BridgeLists(r)
              \/ s = "lister" /\ r = "bridge" /\ BridgeLists(r) /\ st[r].from = {"s"}
              \/ s = "inner1" /\ r = "bridge" /\ ~BridgeLists(r) /\ st[r].from = {"i"}
              \/ s = "inner2" /\ r = "bridge" /\ ~BridgeLists(r) /\ st[r].from = {"j"}
              \/ s = "bridge" /\ r = "con1" /\ ~BridgeLists(r)
<1>1. Goroutines = {"gen1", "gen2", "lister", "bridge", "inner1", "inner2", "con1"}
  BY BridgeNet
<1>2. Consumers = {"con1"} BY <1>1 DEF Consumers, AllConsumers
<1>3. Handed(s, r, c) BY HandedOn
<1>4. \A g \in Goroutines : LocalOK(g, st[g]) BY DEF StagesInv, AllLocalOK
<1>5. r = "bridge" => st[r].from \in {{"s"}, {"i"}, {"j"}} /\ In(r) = {"s"}
  BY <1>3, <1>4, BridgeNet DEF Handed, LocalOK
<1>6. CASE r = "bridge"
  <2>1. c \in st[r].from /\ c \in Out(s) BY <1>3 DEF Handed
  <2>2. \/ s = "lister" /\ st[r].from = {"s"}
        \/ s = "inner1" /\ st[r].from = {"i"}
        \/ s = "inner2" /\ st[r].from = {"j"}
    BY <1>1, <1>5, <1>6, <2>1, BridgeNet
  <2>3. BridgeLists(r) <=> st[r].from = {"s"}
    BY <1>5, <1>6, BridgeNet DEF BridgeLists
  <2> QED BY <1>1, <1>2, <1>6, <2>2, <2>3
<1>7. CASE r # "bridge"
  <2>1. ~BridgeLists(r) BY <1>1, <1>7, BridgeNet DEF BridgeLists
  <2>2. c \in In(r) /\ c \in Out(s) BY <1>1, <1>3, <1>7, BridgeNet DEF Handed
  <2> QED BY <1>1, <1>2, <1>7, <2>1, <2>2, BridgeNet
<1> QED BY <1>6, <1>7

(* Listing a stream starts its OrDone and moves nothing else. *)
LEMMA ListerHands ==
    ASSUME StagesInv, net = "bridge", NEW c, Transfer("lister", "bridge", c),
           BridgeLists("bridge")
    PROVE  /\ got' = got
           /\ \/ /\ st["lister"].val = 1 /\ st'["lister"].pc = "send" /\ st'["lister"].val = 2
                 /\ st'["bridge"] = [st["bridge"] EXCEPT !.from = {"i"}]
                 /\ st["inner1"].pc = "unborn" /\ st'["inner1"].pc = "recv"
                 /\ st'["inner2"] = st["inner2"]
              \/ /\ st["lister"].val = 2 /\ st'["lister"].pc = "exit"
                 /\ st'["bridge"] = [st["bridge"] EXCEPT !.from = {"j"}]
                 /\ st["inner2"].pc = "unborn" /\ st'["inner2"].pc = "recv"
                 /\ st'["inner1"] = st["inner1"]
           /\ st'["gen1"] = st["gen1"] /\ st'["gen2"] = st["gen2"]
           /\ st["lister"].pc = "send"
<1>1. /\ Goroutines = {"gen1", "gen2", "lister", "bridge", "inner1", "inner2", "con1"}
      /\ Kind("bridge") = "bridge" /\ Kind("lister") = "generate" /\ Out("lister") = {"s"}
      /\ Out("inner1") = {"i"} /\ Out("inner2") = {"j"}
  BY BridgeNet
<1>2. NetOK /\ AllLocalOK /\ Unborn BY DEF StagesInv
<1>3. Offers("lister", c) /\ Awaits("bridge", c) BY DEF Transfer
<1> DEFINE v == st["lister"].val
<1>4. /\ st["lister"].pc = "send"
      /\ \/ v = 1 /\ Inner[v] = "inner1"
         \/ v = 2 /\ st["lister"].todo = <<>> /\ Inner[v] = "inner2"
      /\ st[Inner[v]].pc = "unborn"
  BY <1>1, <1>2, <1>3, TransferEnds
<1>5. /\ st'["lister"] = Sent("lister", c)
      /\ st'["bridge"] = Received("bridge", v)
      /\ \A g \in Goroutines \ {"lister", "bridge"} :
            st'[g] = IF g = Inner[v] THEN Receiving(g, st[g]) ELSE st[g]
  BY <1>1, <1>2, TransferMoves
<1>6. Received("bridge", v) = [st["bridge"] EXCEPT !.from = Out(Inner[v])]
  BY DEF Received, Out
<1>7. \A g \in Goroutines : st[g] \in LocalStates /\ LocalOK(g, st[g])
  BY <1>2 DEF AllLocalOK, LocalOK, LocalStates
<1>8. got' = got BY <1>1 DEF Transfer
<1>9. \A g \in Goroutines : Receiving(g, st[g]).pc = "recv"
  BY <1>7 DEF Receiving, LocalStates
<1>10. CASE v = 1
  <2>1. st["lister"].todo = <<2>>
    BY <1>1, <1>4, <1>7, <1>10 DEF LocalOK
  <2>2. <<2>> # <<>> /\ Head(<<2>>) = 2 OBVIOUS
  <2>3. st'["lister"] = Sending("lister", st["lister"], <<2>>)
    BY <1>1, <1>5, <2>1, <2>2 DEF Sent
  <2>4. st'["lister"].pc = "send" /\ st'["lister"].val = 2
    BY <1>1, <1>7, <2>2, <2>3 DEF Sending, LocalStates
  <2> QED BY <1>1, <1>4, <1>5, <1>6, <1>8, <1>9, <1>10, <2>4
<1>11. CASE v = 2
  <2>1. st["lister"].todo = <<>> BY <1>4, <1>11
  <2>2. st'["lister"] = Leaving(st["lister"]) BY <1>1, <1>5, <2>1 DEF Sent
  <2>3. st'["lister"].pc = "exit" BY <1>1, <1>7, <2>2 DEF Leaving, LocalStates
  <2> QED BY <1>1, <1>4, <1>5, <1>6, <1>8, <1>9, <1>11, <2>3
<1> QED BY <1>4, <1>10, <1>11

LEMMA BridgeConserves ==
    ASSUME StagesInv, Conserved, net = "bridge",
           NEW s \in Goroutines, NEW r \in Goroutines, NEW c, Transfer(s, r, c)
    PROVE  Conserved'
<1>1. /\ Goroutines = {"gen1", "gen2", "lister", "bridge", "inner1", "inner2", "con1"}
      /\ Consumers = {"con1"}
      /\ Kind("gen1") = "generate" /\ Kind("gen2") = "generate"
      /\ Kind("inner1") = "orDone" /\ Kind("inner2") = "orDone"
      /\ Kind("bridge") = "bridge" /\ Kind("con1") = "consumer"
  BY BridgeNet, BridgeHands
<1>2. Handed(s, r, c) BY HandedOn
<1>3. /\ NetOK /\ AllLocalOK /\ \A g \in Goroutines : LocalOK(g, st[g])
      /\ \A g \in Goroutines : st[g] \in LocalStates
  BY DEF StagesInv, AllLocalOK, LocalOK, LocalStates
<1> DEFINE Sum == Len(got["con1"]) + Held("bridge") + (Held("inner1") + Left("gen1"))
                    + (Held("inner2") + Left("gen2"))
<1>4. Sum = Total BY DEF Conserved
<1>5. /\ Held("inner1") \in Nat /\ Held("inner2") \in Nat /\ Held("bridge") \in Nat
      /\ Left("gen1") \in Nat /\ Left("gen2") \in Nat /\ Len(got["con1"]) \in Nat
  BY <1>1, <1>2, <1>3, LengthsNat DEF Handed
<1>6. net' = net /\ Total' = Total BY <1>2 DEF Handed
<1>7. ASSUME ~BridgeLists(r), NEW g \in Goroutines \ {s, r}
      PROVE  Held(g)' = Held(g) /\ Left(g)' = Left(g)
  BY <1>2, <1>7 DEF Handed, Held, Left
<1>8. ASSUME s = "gen1", r = "inner1", ~BridgeLists(r) PROVE (Sum = Total)'
  <2>1. Left("gen1")' = Left("gen1") - 1
    BY <1>1, <1>2, <1>3, <1>8, LeftAfter DEF Handed
  <2>2. Held("inner1") = 0 /\ Held("inner1")' = 1
    BY <1>1, <1>2, <1>3, <1>8, HeldReceived DEF Handed
  <2>3. /\ Held("inner2")' = Held("inner2") /\ Held("bridge")' = Held("bridge")
        /\ Left("gen2")' = Left("gen2") /\ got' = got
    BY <1>1, <1>2, <1>7, <1>8 DEF Handed
  <2>4. (Held("inner1") + Left("gen1"))' = Held("inner1") + Left("gen1")
    BY <1>5, <2>1, <2>2
  <2> QED BY <1>4, <1>6, <2>3, <2>4
<1>9. ASSUME s = "gen2", r = "inner2", ~BridgeLists(r) PROVE (Sum = Total)'
  <2>1. Left("gen2")' = Left("gen2") - 1
    BY <1>1, <1>2, <1>3, <1>9, LeftAfter DEF Handed
  <2>2. Held("inner2") = 0 /\ Held("inner2")' = 1
    BY <1>1, <1>2, <1>3, <1>9, HeldReceived DEF Handed
  <2>3. /\ Held("inner1")' = Held("inner1") /\ Held("bridge")' = Held("bridge")
        /\ Left("gen1")' = Left("gen1") /\ got' = got
    BY <1>1, <1>2, <1>7, <1>9 DEF Handed
  <2>4. (Held("inner2") + Left("gen2"))' = Held("inner2") + Left("gen2")
    BY <1>5, <2>1, <2>2
  <2> QED BY <1>4, <1>6, <2>3, <2>4
<1>10. ASSUME s = "inner1", r = "bridge", ~BridgeLists(r) PROVE (Sum = Total)'
  <2>1. Held("inner1") = 1 /\ Held("inner1")' = 0
    BY <1>1, <1>2, <1>3, <1>10, HeldAfter DEF Handed
  <2>2. Held("bridge") = 0 /\ Held("bridge")' = 1
    BY <1>1, <1>2, <1>3, <1>10, HeldReceived DEF Handed
  <2>3. /\ Held("inner2")' = Held("inner2") /\ Left("gen1")' = Left("gen1")
        /\ Left("gen2")' = Left("gen2") /\ got' = got
    BY <1>1, <1>2, <1>7, <1>10 DEF Handed
  <2> QED BY <1>4, <1>5, <1>6, <2>1, <2>2, <2>3
<1>11. ASSUME s = "inner2", r = "bridge", ~BridgeLists(r) PROVE (Sum = Total)'
  <2>1. Held("inner2") = 1 /\ Held("inner2")' = 0
    BY <1>1, <1>2, <1>3, <1>11, HeldAfter DEF Handed
  <2>2. Held("bridge") = 0 /\ Held("bridge")' = 1
    BY <1>1, <1>2, <1>3, <1>11, HeldReceived DEF Handed
  <2>3. /\ Held("inner1")' = Held("inner1") /\ Left("gen1")' = Left("gen1")
        /\ Left("gen2")' = Left("gen2") /\ got' = got
    BY <1>1, <1>2, <1>7, <1>11 DEF Handed
  <2> QED BY <1>4, <1>5, <1>6, <2>1, <2>2, <2>3
<1>12. ASSUME s = "bridge", r = "con1", ~BridgeLists(r) PROVE (Sum = Total)'
  <2>1. Held("bridge") = 1 /\ Held("bridge")' = 0
    BY <1>1, <1>2, <1>3, <1>12, HeldAfter DEF Handed
  <2>2. Len(got'["con1"]) = Len(got["con1"]) + 1
    BY <1>1, <1>2, <1>12 DEF Handed
  <2>3. /\ Held("inner1")' = Held("inner1") /\ Held("inner2")' = Held("inner2")
        /\ Left("gen1")' = Left("gen1") /\ Left("gen2")' = Left("gen2")
    BY <1>1, <1>7, <1>12
  <2> QED BY <1>4, <1>5, <1>6, <2>1, <2>2, <2>3
<1>13. ASSUME s = "lister", r = "bridge", BridgeLists(r) PROVE (Sum = Total)'
  <2>1. /\ got' = got /\ st'["gen1"] = st["gen1"] /\ st'["gen2"] = st["gen2"]
        /\ st["bridge"].pc = "recv" /\ st'["bridge"].pc = "recv"
    BY <1>1, <1>2, <1>3, <1>13, ListerHands DEF Handed, LocalStates
  <2>2. \A g \in {"inner1", "inner2"} :
          st'[g] = st[g] \/ (st[g].pc = "unborn" /\ st'[g].pc = "recv")
    BY <1>13, ListerHands
  <2>3. /\ Held("inner1")' = Held("inner1") /\ Held("inner2")' = Held("inner2")
        /\ Held("bridge")' = Held("bridge")
    BY <2>1, <2>2 DEF Held
  <2>4. Left("gen1")' = Left("gen1") /\ Left("gen2")' = Left("gen2")
    BY <2>1 DEF Left
  <2> QED BY <1>4, <1>6, <2>1, <2>3, <2>4
<1> QED
  <2>1. (Sum = Total)'
    BY <1>8, <1>9, <1>10, <1>11, <1>12, <1>13, BridgeHands
  <2> QED BY <1>6, <2>1 DEF Conserved

LEMMA TransferConserves ==
    ASSUME StagesInv, Conserved, Copies,
           NEW s \in Goroutines, NEW r \in Goroutines, NEW c, Transfer(s, r, c)
    PROVE  Conserved' /\ Copies'
<1>1. net' = net BY DEF Transfer
<1>2. CASE net = "tee" BY <1>2, TeeConserves
<1>3. ASSUME net # "tee" PROVE Copies' BY <1>1, <1>3 DEF Copies
<1>4. CASE net \in {"orDone", "silent"} BY <1>3, <1>4, OrDoneConserves
<1>5. CASE net \in {"take", "repeat"} BY <1>3, <1>5, TakeConserves
<1>6. CASE net = "fanIn" BY <1>3, <1>6, FanInConserves
<1>7. CASE net = "bridge" BY <1>3, <1>7, BridgeConserves
<1>8. CASE net = "or"
  <2>1. Kind(s) \in {"signal", "or", "consumer"} BY <1>8, Wiring DEF Wired, StagesInv, NetOK
  <2> QED BY <2>1, HandedOn DEF Handed
<1> QED
  BY <1>2, <1>4, <1>5, <1>6, <1>7, <1>8, NetworkNames DEF StagesInv, NetOK

LEMMA QuietCopies ==
    ASSUME NetOK, AllLocalOK, Quiet, Copies
    PROVE  Copies'
<1>1. CASE net = "tee"
  <2>1. "tee" \in Goroutines /\ Kind("tee") = "tee" BY <1>1, TeeNet
  <2>2. LocalOK("tee", st["tee"]) BY <2>1 DEF AllLocalOK
  <2>3. st'["tee"] = st["tee"] \/ (st["tee"].pc # "send" /\ st'["tee"].pc # "send")
    BY <2>1 DEF Quiet
  <2>4. st["tee"].pc # "send" => got["con1"] = got["con2"]
    BY <1>1, <2>1, <2>2 DEF Copies, LocalOK
  <2> QED BY <2>3, <2>4 DEF Copies, Quiet
<1> QED BY <1>1 DEF Quiet, Copies

-----------------------------------------------------------------------------
(* Drained and Listed: a stage returns only at the end of what it reads *)

LEMMA TransferDrains ==
    ASSUME StagesInv, Drained, NEW s \in Goroutines, NEW r \in Goroutines,
           NEW c, Transfer(s, r, c)
    PROVE  Drained'
<1>1. NetOK /\ AllLocalOK /\ Unborn BY DEF StagesInv
<1>2. Handed(s, r, c) BY HandedOn
<1>3. net' = net /\ limit' = limit /\ closed' = closed BY DEF Transfer
<1>4. \A g \in Goroutines : LocalOK(g, st[g]) /\ st[g] \in LocalStates
  BY <1>1 DEF AllLocalOK, LocalOK, LocalStates
<1> SUFFICES ASSUME NEW g \in Goroutines, st'[g].pc \in {"exit", "done"}
             PROVE  /\ Kind(g) \in {"orDone", "merge", "tee"} => In(g) \subseteq closed
                    /\ Kind(g) = "take" => st'[g].n = 0
  BY <1>3, SameNet DEF Drained
<1>5. CASE g = s
  <2>1. st'[g] = Sent(g, c) /\ st[g].pc = "send" /\ c \in st[g].on BY <1>2, <1>5 DEF Handed
  <2>2. Kind(g) \notin {"orDone", "merge"}
    <3> SUFFICES ASSUME Kind(g) \in {"orDone", "merge"} PROVE FALSE OBVIOUS
    <3>1. st'[g] = Resumed(st[g]) BY <2>1 DEF Sent
    <3> QED BY <1>4, <3>1 DEF Resumed, LocalStates
  <2>3. Kind(g) # "tee"
    <3> SUFFICES ASSUME Kind(g) = "tee" PROVE FALSE OBVIOUS
    <3>1. st'[g] = TeeRound(Served(st[g], c)) BY <2>1 DEF Sent
    <3>2. st'[g].pc \in {"recv", "send"}
      BY <1>4, <2>1, <3>1 DEF TeeRound, Served, LocalStates
    <3> QED BY <3>2
  <2>4. Kind(g) = "take" => st'[g].n = 0
    <3> SUFFICES ASSUME Kind(g) = "take" PROVE st'[g].n = 0 OBVIOUS
    <3> DEFINE t == [st[g] EXCEPT !.n = @ - 1]
    <3>1. st'[g] = NextRound(g, t) BY <2>1 DEF Sent
    <3>2. t.n # 0 => st'[g].pc = "recv" BY <1>4, <3>1 DEF NextRound, Receiving, LocalStates
    <3>3. t.n = 0 => st'[g].n = 0 BY <1>4, <3>1 DEF NextRound, Leaving, LocalStates
    <3> QED BY <3>2, <3>3
  <2> QED BY <2>2, <2>3, <2>4
<1>6. CASE g = r
  <2>1. CASE Kind(g) = "consumer" BY <2>1
  <2>2. CASE Kind(g) # "consumer"
    <3>1. Offers(s, c) /\ Awaits(r, c) BY DEF Transfer
    <3>2. /\ Kind(g) \in Receivers \ {"or", "consumer"} /\ st[s].val \in Nat
          /\ BridgeLists(r) => st[s].val \in {1, 2}
      BY <1>1, <1>6, <2>2, <3>1, TransferEnds
    <3>3. st'[g] = Received(g, st[s].val) /\ st[g].pc = "recv"
      BY <1>2, <1>6, <2>2 DEF Handed
    <3>4. st'[g].pc \in {"recv", "send"}
      BY <1>1, <1>4, <1>6, <3>2, <3>3, ReceivedOK
    <3> QED BY <3>4
  <2> QED BY <2>1, <2>2
<1>7. CASE g \notin {s, r}
  <2>1. st'[g] = st[g] \/ st'[g] = Receiving(g, st[g]) BY <1>1, <1>7, TransferMoves
  <2>2. Receiving(g, st[g]).pc = "recv" BY <1>4 DEF Receiving, LocalStates
  <2>3. st'[g] = st[g] BY <2>1, <2>2
  <2> QED BY <2>3 DEF Drained
<1> QED BY <1>5, <1>6, <1>7

LEMMA ExhaustedDrains ==
    ASSUME StagesInv, Drained, NEW g \in Goroutines, NEW c, Exhausted(g, c)
    PROVE  Drained'
<1>1. /\ NetOK /\ LocalOK(g, st[g]) /\ DOMAIN st = Goroutines
      /\ st[g].pc = "recv" /\ c \in st[g].from /\ c \in closed
      /\ st' = [st EXCEPT ![g] = AtEnd(g)]
      /\ net' = net /\ limit' = limit /\ closed' = closed
  BY DEF StagesInv, AllLocalOK, Exhausted, Awaits
<1>2. Kind(g) \in {"orDone", "merge", "tee"} => In(g) \subseteq closed
  BY <1>1, Wires DEF LocalOK
<1>3. Kind(g) = "take" => st'[g].pc = "send" BY <1>1, AtEndQuiet
<1> QED BY <1>1, <1>2, <1>3, SameNet DEF Drained

LEMMA OthersDrain ==
    ASSUME StagesInv, Drained, NEW g \in Goroutines, Join(g) \/ Fire(g) \/ Exit(g)
    PROVE  Drained'
<1>1. /\ NetOK /\ DOMAIN st = Goroutines /\ st[g] \in LocalStates
      /\ net' = net /\ limit' = limit /\ closed \subseteq closed'
  BY DEF StagesInv, AllLocalOK, LocalOK, LocalStates, Join, Fire, Exit
<1>2. CASE Join(g) \/ Fire(g)
  <2>1. Kind(g) \in {"joiner", "signal"} BY <1>2 DEF Join, Fire
  <2>2. \A h \in Goroutines \ {g} : st'[h] = st[h] BY <1>1, <1>2 DEF Join, Fire
  <2> QED BY <1>1, <2>1, <2>2, SameNet DEF Drained
<1>3. CASE Exit(g)
  <2> DEFINE t == [st[g] EXCEPT !.pc = "done"]
  <2>1. st' = [st EXCEPT ![g] = t] /\ st[g].pc = "exit" BY <1>3 DEF Exit
  <2>2. t.n = st[g].n BY <1>1 DEF LocalStates
  <2> HIDE DEF t
  <2>3. /\ st'[g].n = st[g].n /\ st[g].pc = "exit"
        /\ \A h \in Goroutines \ {g} : st'[h] = st[h]
    BY <1>1, <2>1, <2>2
  <2> QED BY <1>1, <2>3, SameNet DEF Drained
<1> QED BY <1>2, <1>3

(* Bridge's own step and the lister's, seen from Listed. *)
LEMMA TransferLists ==
    ASSUME StagesInv, Listed, NEW s \in Goroutines, NEW r \in Goroutines,
           NEW c, Transfer(s, r, c)
    PROVE  Listed'
<1>1. net' = net /\ closed' = closed BY DEF Transfer
<1> SUFFICES ASSUME net = "bridge" PROVE Listed'
  BY <1>1 DEF Listed
<1>2. Handed(s, r, c) BY HandedOn
<1>3. {"lister", "bridge"} \subseteq Goroutines /\ Kind("bridge") = "bridge" BY BridgeNet
<1>4. st["lister"] \in LocalStates /\ st["bridge"] \in LocalStates
  BY <1>3 DEF StagesInv, AllLocalOK, LocalOK, LocalStates
<1>5. CASE s = "lister" /\ r = "bridge" /\ BridgeLists(r) /\ st[r].from = {"s"}
  <2>1. st["bridge"].pc = "recv" BY <1>2, <1>5 DEF Handed
  <2>2. \/ /\ st'["lister"].pc = "send" /\ st'["lister"].val = 2
           /\ st'["bridge"] = [st["bridge"] EXCEPT !.from = {"i"}]
        \/ /\ st["lister"].pc = "send" /\ st["lister"].val = 2 /\ st'["lister"].pc = "exit"
           /\ st'["bridge"] = [st["bridge"] EXCEPT !.from = {"j"}]
    BY <1>5, ListerHands
  <2>3. CASE st'["lister"].pc = "send" /\ st'["lister"].val = 2
                /\ st'["bridge"] = [st["bridge"] EXCEPT !.from = {"i"}]
    <3>1. st'["bridge"].pc = "recv" /\ st'["bridge"].from = {"i"}
      BY <1>4, <2>1, <2>3 DEF LocalStates
    <3> QED BY <1>1, <2>3, <3>1 DEF Listed
  <2>4. CASE st["lister"].pc = "send" /\ st["lister"].val = 2 /\ st'["lister"].pc = "exit"
                /\ st'["bridge"] = [st["bridge"] EXCEPT !.from = {"j"}]
    <3>1. st'["bridge"].pc = "recv" /\ st'["bridge"].from = {"j"}
      BY <1>4, <2>1, <2>4 DEF LocalStates
    <3>2. "i" \in closed BY <1>5, <2>1, <2>4 DEF Listed
    <3> QED BY <1>1, <2>4, <3>1, <3>2 DEF Listed
  <2> QED BY <2>2, <2>3, <2>4
<1>6. CASE r = "bridge" /\ s # "lister" /\ ~BridgeLists(r) /\ st[r].from \in {{"i"}, {"j"}}
  <2>1. st'["lister"] = st["lister"] BY <1>2, <1>3, <1>6 DEF Handed
  <2>2. st'["bridge"] = [st["bridge"] EXCEPT !.pc = "send", !.val = st[s].val,
                                             !.on = Out("bridge"), !.n = @]
    BY <1>2, <1>3, <1>6 DEF Handed, Received
  <2>3. st["bridge"].pc = "recv" /\ st'["bridge"].pc = "send"
        /\ st'["bridge"].from = st["bridge"].from
    BY <1>2, <1>4, <1>6, <2>2 DEF LocalStates, Handed
  <2> QED BY <1>1, <1>6, <2>1, <2>3 DEF Listed
<1>7. CASE s = "bridge" /\ r = "con1" /\ ~BridgeLists(r)
  <2>1. st'["lister"] = st["lister"] BY <1>2, <1>3, <1>7 DEF Handed
  <2>2. st'["bridge"] = Resumed(st["bridge"]) BY <1>2, <1>3, <1>7 DEF Handed, Sent
  <2>3. st["bridge"].pc = "send" /\ st'["bridge"].pc = "recv"
        /\ st'["bridge"].from = st["bridge"].from
    BY <1>2, <1>4, <1>7, <2>2 DEF LocalStates, Handed, Resumed
  <2>4. st["bridge"].from \in {{"i"}, {"j"}}
    BY <1>3, <2>3 DEF StagesInv, AllLocalOK, LocalOK
  <2> QED BY <1>1, <2>1, <2>3, <2>4 DEF Listed
<1>8. CASE s \in {"gen1", "gen2"} /\ r \in {"inner1", "inner2"} /\ ~BridgeLists(r)
  <2>1. st'["lister"] = st["lister"] /\ st'["bridge"] = st["bridge"]
    BY <1>2, <1>3, <1>8 DEF Handed
  <2> QED BY <1>1, <2>1 DEF Listed
<1> QED BY <1>5, <1>6, <1>7, <1>8, BridgeHands

LEMMA OthersList ==
    ASSUME StagesInv, Listed, NEW g \in Goroutines,
           Join(g) \/ Fire(g) \/ Exit(g) \/ \E c : Exhausted(g, c)
    PROVE  Listed'
<1>1. net' = net /\ closed \subseteq closed' BY DEF Join, Fire, Exit, Exhausted
<1> SUFFICES ASSUME net = "bridge" PROVE Listed'
  BY <1>1 DEF Listed
<1>2. /\ Goroutines = {"gen1", "gen2", "lister", "bridge", "inner1", "inner2", "con1"}
      /\ Kind("bridge") = "bridge" /\ Kind("lister") = "generate"
      /\ \A h \in Goroutines : Kind(h) \notin {"joiner", "signal"}
  BY BridgeNet
<1>3. /\ NetOK /\ DOMAIN st = Goroutines /\ Owners
      /\ \A h \in Goroutines : LocalOK(h, st[h]) /\ st[h] \in LocalStates
  BY ZenonT(40) DEF StagesInv, AllLocalOK, LocalOK, LocalStates
<1>4. CASE \E c : Exhausted(g, c)
  <2>1. PICK c : Exhausted(g, c) BY <1>4
  <2>2. /\ st[g].pc = "recv" /\ c \in st[g].from /\ c \in closed /\ closed' = closed
        /\ st' = [st EXCEPT ![g] = AtEnd(g)]
    BY <2>1 DEF Exhausted, Awaits
  <2>3. g # "lister"
    <3>1. st[g].pc \in Points[Kind(g)] BY <1>3 DEF LocalOK
    <3>2. g = "lister" => Points[Kind(g)] = {"send", "exit", "done"} BY <1>2, PointsOf
    <3> QED BY <2>2, <3>1, <3>2
  <2>4. st'["lister"] = st["lister"] BY <1>2, <1>3, <2>2, <2>3
  <2>5. CASE g # "bridge"
    <3>1. st'["bridge"] = st["bridge"] BY <1>2, <1>3, <2>2, <2>5
    <3> QED BY <1>1, <2>2, <2>4, <3>1 DEF Listed
  <2>6. CASE g = "bridge"
    <3>1. /\ st["bridge"].from \in {{"s"}, {"i"}, {"j"}}
          /\ st'["bridge"] = AtEnd("bridge")
      BY <1>2, <1>3, <2>2, <2>6 DEF LocalOK
    <3>2. CASE st["bridge"].from = {"s"}
      <4>1. BridgeLists("bridge") BY <3>2, BridgeNet DEF BridgeLists
      <4>2. st'["bridge"] = Leaving(st["bridge"]) BY <1>2, <3>1, <4>1 DEF AtEnd
      <4>3. st'["bridge"].pc = "exit" BY <1>2, <1>3, <4>2 DEF Leaving, LocalStates
      <4>4. c = "s" BY <2>2, <2>6, <3>2
      <4>5. PICK h \in Goroutines : "s" \in Closes(h) /\ st[h].pc = "done"
        BY <1>3, <2>2, <4>4 DEF Owners
      <4>6. h = "lister" BY <1>3, <4>5, Wiring DEF Closes, NetOK, Wired
      <4>7. {"i", "j"} \subseteq closed BY <2>2, <2>6, <3>2, <4>5, <4>6 DEF Listed
      <4> QED BY <1>1, <2>2, <4>3, <4>4, <4>7 DEF Listed
    <3>3. CASE st["bridge"].from # {"s"}
      <4>1. ~BridgeLists("bridge") BY <3>3, BridgeNet DEF BridgeLists
      <4>2. st'["bridge"] = Receiving("bridge", st["bridge"])
        BY <1>2, <3>1, <4>1 DEF AtEnd
      <4>3. st'["bridge"].pc = "recv" /\ st'["bridge"].from = {"s"}
        BY <1>2, <1>3, <4>2, BridgeNet DEF Receiving, LocalStates
      <4>4. CASE st["bridge"].from = {"i"}
        <5>1. c = "i" BY <2>2, <2>6, <4>4
        <5>2. st["lister"].pc = "send" /\ st["lister"].val = 2
          BY <2>2, <2>6, <4>4 DEF Listed
        <5> QED BY <1>1, <2>2, <2>4, <4>3, <5>1, <5>2 DEF Listed
      <4>5. CASE st["bridge"].from = {"j"}
        <5>1. c = "j" BY <2>2, <2>6, <4>5
        <5>2. st["lister"].pc \in {"exit", "done"} /\ "i" \in closed
          BY <2>2, <2>6, <4>5 DEF Listed
        <5> QED BY <1>1, <2>2, <2>4, <4>3, <5>1, <5>2 DEF Listed
      <4> QED BY <3>1, <3>3, <4>4, <4>5
    <3> QED BY <3>2, <3>3
  <2> QED BY <2>5, <2>6
<1>5. CASE Exit(g)
  <2> DEFINE t == [st[g] EXCEPT !.pc = "done"]
  <2>1. st' = [st EXCEPT ![g] = t] /\ st[g].pc = "exit" BY <1>5 DEF Exit
  <2>2. t.pc = "done" BY <1>3 DEF LocalStates
  <2> HIDE DEF t
  <2>3. \A h \in {"lister", "bridge"} :
          st'[h] = st[h] \/ (st[h].pc = "exit" /\ st'[h].pc = "done")
    BY <1>2, <1>3, <2>1, <2>2
  <2> QED BY <1>1, <2>3 DEF Listed
<1>6. CASE Join(g) \/ Fire(g) BY <1>2, <1>6 DEF Join, Fire
<1> QED BY <1>4, <1>5, <1>6

-----------------------------------------------------------------------------
(* NothingLost is an invariant *)

LEMMA StartOf ==
    ASSUME NetOK, NEW g \in Goroutines
    PROVE  /\ g # "lister" /\ Kind(g) \in Senders =>
                 Start(g).pc = "send" /\ Start(g).todo = Tail(Values[g])
           /\ g = "lister" => Start(g).pc = "send" /\ Start(g).val = 1
           /\ Kind(g) = "take" => /\ Start(g).n = limit
                                  /\ Start(g).pc = "exit" => limit = 0
                                  /\ Start(g).pc # "done"
           /\ Kind(g) \in Receivers \ {"take"} => Start(g).pc \in {"recv", "unborn"}
           /\ Kind(g) = "bridge" => Start(g).pc = "recv" /\ Start(g).from = {"s"}
<1>1. Wired(g) BY Wiring DEF NetOK
<1>2. Range(Inner) = {"inner1", "inner2"} BY DEF Range, Inner
<1>3. ASSUME g # "lister", Kind(g) \in Senders
      PROVE  Start(g).pc = "send" /\ Start(g).todo = Tail(Values[g])
  <2>1. Start(g) = Sending(g, Local("send"), Values[g])
    BY <1>1, <1>2, <1>3 DEF Start, Senders, Wired
  <2> QED BY <2>1 DEF Sending, Local
<1>4. ASSUME g = "lister" PROVE Start(g).pc = "send" /\ Start(g).val = 1
  <2>1. Start(g) = Sending(g, Local("send"), <<1, 2>>)
    BY <1>1, <1>2, <1>4 DEF Start, Wired
  <2>2. Head(<<1, 2>>) = 1 OBVIOUS
  <2> QED BY <2>1, <2>2 DEF Sending, Local
<1>5. ASSUME Kind(g) = "take"
      PROVE  /\ Start(g).n = limit /\ Start(g).pc # "done"
             /\ Start(g).pc = "exit" => limit = 0
  <2>1. Start(g) = NextRound(g, [Local("recv") EXCEPT !.n = limit])
    BY <1>1, <1>2, <1>5 DEF Start, Wired
  <2>2. CASE limit = 0 BY <2>1, <2>2 DEF NextRound, Leaving, Local
  <2>3. CASE limit # 0 BY <2>1, <2>3 DEF NextRound, Receiving, Local
  <2> QED BY <2>2, <2>3
<1>6. ASSUME g \in {"inner1", "inner2"} PROVE Start(g).pc = "unborn" /\ Kind(g) = "orDone"
  <2>1. Start(g) = Local("unborn") /\ Kind(g) = "orDone"
    BY <1>1, <1>2, <1>6 DEF Start, Wired
  <2> QED BY <2>1 DEF Local
<1>7. ASSUME g \notin {"inner1", "inner2"}, Kind(g) \in Receivers \ {"take"}
      PROVE  Start(g).pc = "recv" /\ Start(g).from = In(g)
  <2>1. Start(g) = Receiving(g, Local("recv"))
    BY <1>1, <1>2, <1>7 DEF Start, Wired, Receivers
  <2> QED BY <2>1 DEF Receiving, Local
<1>8. Kind(g) = "bridge" => g \notin {"inner1", "inner2"} /\ In(g) = {"s"}
  BY <1>1 DEF Wired
<1> QED BY <1>3, <1>4, <1>5, <1>6, <1>7, <1>8 DEF Receivers

LEMMA SourceLeft ==
    ASSUME Init, NetOK, NEW g \in Goroutines \cap {"gen1", "gen2"},
           Kind(g) \in {"generate", "source"}
    PROVE  Left(g) = Len(Values[g]) /\ Left(g) \in Nat
<1>1. st[g].pc = "send" /\ st[g].todo = Tail(Values[g])
  BY StartOf DEF Init, Senders
<1>2. Len(Tail(Values[g])) = Len(Values[g]) - 1 /\ Len(Values[g]) \in Nat
  BY SourcesSend, HeadTailProperties, LenProperties
<1> QED BY <1>1, <1>2 DEF Left

LEMMA ConservedInit ==
    ASSUME Init, NetOK
    PROVE  Conserved
<1>1. /\ \A g \in Goroutines : st[g] = Start(g)
      /\ "con1" \in Consumers => Len(got["con1"]) = 0
  <2>1. \A k \in Consumers : got[k] = <<>> BY DEF Init
  <2> QED BY <2>1, EmptySeq, LenProperties DEF Init
<1>2. Consumers = AllConsumers \cap Goroutines BY DEF Consumers
<1> USE <1>2 DEF AllConsumers
<1>3. ASSUME NEW g \in Goroutines, Kind(g) \in Receivers \ {"take"}
      PROVE  Held(g) = 0 /\ \A c : HeldFor(g, c) = 0
  BY <1>1, <1>3, StartOf DEF Held, HeldFor
<1>4. CASE net \in {"orDone", "silent"}
  <2>1. Held("orDone") = 0 BY <1>3, <1>4, OrDoneNet, SilentNet DEF Receivers
  <2>2. Left("gen1") = Len(Values["gen1"]) /\ Left("gen1") \in Nat
    BY <1>4, SourceLeft, OrDoneNet, SilentNet
  <2>3. Len(got["con1"]) = 0 BY <1>1, <1>4, OrDoneNet, SilentNet
  <2>4. Total = Len(Values["gen1"]) BY <1>4 DEF Total
  <2> QED BY <1>4, <2>1, <2>2, <2>3, <2>4 DEF Conserved
<1>5. CASE net \in {"take", "repeat"}
  <2>1. st["take"].n = limit BY <1>1, <1>5, StartOf, TakeNet, RepeatNet
  <2>2. Len(got["con1"]) = 0 BY <1>1, <1>5, TakeNet, RepeatNet
  <2>3. Total = limit /\ limit \in Nat BY <1>5, ConstantsAssumption DEF Total, NetOK
  <2> QED BY <1>5, <2>1, <2>2, <2>3 DEF Conserved
<1>6. CASE net = "fanIn"
  <2>1. Held("merge1") = 0 /\ Held("merge2") = 0 BY <1>3, <1>6, FanInNet DEF Receivers
  <2>2. /\ Left("gen1") = Len(Values["gen1"]) /\ Left("gen1") \in Nat
        /\ Left("gen2") = Len(Values["gen2"]) /\ Left("gen2") \in Nat
    BY <1>6, SourceLeft, FanInNet
  <2>3. Len(got["con1"]) = 0 BY <1>1, <1>6, FanInNet
  <2>4. Total = Left("gen1") + Left("gen2") BY <1>6, <2>2 DEF Total
  <2> QED BY <1>6, <2>1, <2>2, <2>3, <2>4 DEF Conserved
<1>7. CASE net = "tee"
  <2>1. Held("orDone") = 0 /\ HeldFor("tee", "x") = 0 BY <1>3, <1>7, TeeNet DEF Receivers
  <2>2. Left("gen1") = Len(Values["gen1"]) /\ Left("gen1") \in Nat
    BY <1>7, SourceLeft, TeeNet
  <2>3. Len(got["con1"]) = 0 BY <1>1, <1>7, TeeNet
  <2>4. Total = Len(Values["gen1"]) BY <1>7 DEF Total
  <2> QED BY <1>7, <2>1, <2>2, <2>3, <2>4 DEF Conserved
<1>8. CASE net = "bridge"
  <2>1. Held("bridge") = 0 /\ Held("inner1") = 0 /\ Held("inner2") = 0
    BY <1>3, <1>8, BridgeNet DEF Receivers
  <2>2. /\ Left("gen1") = Len(Values["gen1"]) /\ Left("gen1") \in Nat
        /\ Left("gen2") = Len(Values["gen2"]) /\ Left("gen2") \in Nat
    BY <1>8, SourceLeft, BridgeNet
  <2>3. Len(got["con1"]) = 0 BY <1>1, <1>8, BridgeNet
  <2>4. Total = Left("gen1") + Left("gen2") BY <1>8, <2>2 DEF Total
  <2> QED BY <1>8, <2>1, <2>2, <2>3, <2>4 DEF Conserved
<1>9. CASE net = "or"
  <2>1. Len(got["con1"]) = 0 BY <1>1, <1>9, OrNet
  <2>2. Total = 0 BY <1>9 DEF Total
  <2> QED BY <1>9, <2>1, <2>2 DEF Conserved
<1> QED BY <1>4, <1>5, <1>6, <1>7, <1>8, <1>9, NetworkNames DEF NetOK

LEMMA NothingLostInit ==
    ASSUME Init, NetOK
    PROVE  NothingLost
<1>1. \A g \in Goroutines : st[g] = Start(g) BY DEF Init
<1>2. Conserved BY ConservedInit
<1>3. Drained
  <2> SUFFICES ASSUME NEW g \in Goroutines, st[g].pc \in {"exit", "done"}
               PROVE  /\ Kind(g) \in {"orDone", "merge", "tee"} => In(g) \subseteq closed
                      /\ Kind(g) = "take" => st[g].n = 0
    BY DEF Drained
  <2>1. Kind(g) \notin {"orDone", "merge", "tee"} BY <1>1, StartOf DEF Receivers
  <2>2. Kind(g) = "take" => st[g].n = 0 BY <1>1, StartOf
  <2> QED BY <2>1, <2>2
<1>4. Listed
  <2> SUFFICES ASSUME net = "bridge" PROVE Listed BY DEF Listed
  <2>1. /\ st["lister"].pc = "send" /\ st["lister"].val = 1
        /\ st["bridge"].pc = "recv" /\ st["bridge"].from = {"s"}
    BY <1>1, StartOf, BridgeNet
  <2> QED BY <2>1 DEF Listed
<1>5. Copies
  <2> SUFFICES ASSUME net = "tee" PROVE Copies BY DEF Copies
  <2>1. st["tee"].pc # "send" BY <1>1, StartOf, TeeNet DEF Receivers
  <2>2. got["con1"] = <<>> /\ got["con2"] = <<>>
    BY TeeNet DEF Init, Consumers, AllConsumers
  <2> QED BY <2>1, <2>2 DEF Copies
<1> QED BY <1>2, <1>3, <1>4, <1>5 DEF NothingLost

LEMMA NothingLostStep ==
    ASSUME StagesInv, NothingLost, [Next]_vars
    PROVE  NothingLost'
<1> SUFFICES ASSUME ~cancelled'
             PROVE  Conserved' /\ Drained' /\ Listed' /\ Copies'
  BY DEF NothingLost
<1>1. ~cancelled
  BY DEF Next, vars, Own, Transfer, Exhausted, Join, Exit, Heed, Fire, Cancel, Terminated
<1>2. Conserved /\ Drained /\ Listed /\ Copies /\ NetOK /\ AllLocalOK
  BY <1>1 DEF NothingLost, StagesInv
<1>3. ASSUME NEW s \in Goroutines, NEW r \in Goroutines, NEW c, Transfer(s, r, c)
      PROVE  Conserved' /\ Drained' /\ Listed' /\ Copies'
  BY <1>2, <1>3, TransferConserves, TransferDrains, TransferLists
<1>4. ASSUME NEW g \in Goroutines, Join(g) \/ Fire(g) \/ Exit(g) \/ \E c : Exhausted(g, c)
      PROVE  Conserved' /\ Drained' /\ Listed' /\ Copies'
  <2>1. Quiet BY <1>2, <1>4, QuietSteps
  <2>2. Conserved' /\ Copies' BY <1>2, <2>1, QuietConserves, QuietCopies
  <2>3. Drained' BY <1>2, <1>4, ExhaustedDrains, OthersDrain
  <2>4. Listed' BY <1>2, <1>4, OthersList
  <2> QED BY <2>2, <2>3, <2>4
<1>5. ASSUME UNCHANGED vars PROVE Conserved' /\ Drained' /\ Listed' /\ Copies'
  <2>1. UNCHANGED <<net, st, closed, got, limit>> BY <1>5 DEF vars
  <2>2. Conserved' BY ZenonT(40), <1>2, <2>1 DEF Conserved, Left, Held, HeldFor, Total
  <2>3. Drained' BY <1>2, <2>1, SameNet DEF Drained
  <2>4. Listed' BY <1>2, <2>1 DEF Listed
  <2>5. Copies' BY <1>2, <2>1 DEF Copies
  <2> QED BY <2>2, <2>3, <2>4, <2>5
<1>6. CASE \E g \in Goroutines : Own(g) \/ Heed(g) \/ Fire(g)
  BY <1>1, <1>3, <1>4, <1>6 DEF Own, Heed
<1>7. CASE Cancel BY <1>7 DEF Cancel
<1>8. CASE Terminated \/ UNCHANGED vars BY <1>5, <1>8 DEF Terminated
<1> QED BY <1>6, <1>7, <1>8 DEF Next

LEMMA NothingLostAlways == Spec => [](StagesInv /\ NothingLost)
<1>1. Init => StagesInv /\ NothingLost BY StagesInit, NothingLostInit DEF StagesInv
<1>2. StagesInv /\ NothingLost /\ [Next]_vars => (StagesInv /\ NothingLost)'
  BY StagesStep, NothingLostStep
<1> QED BY <1>1, <1>2, PTL DEF Spec

-----------------------------------------------------------------------------
(* The owner of a closed channel is done and has nothing left. *)
LEMMA ClosedByOwner ==
    ASSUME StagesInv, NEW c \in closed
    PROVE  \E h \in Goroutines : /\ c \in Out(h) /\ Kind(h) # "merge"
                                 /\ st[h].pc = "done" /\ Left(h) = 0 /\ Held(h) = 0
                                 /\ \A d : HeldFor(h, d) = 0
<1>1. PICK h \in Goroutines : c \in Closes(h) /\ st[h].pc = "done"
  BY DEF StagesInv, Owners
<1> QED BY <1>1 DEF Closes, Left, Held, HeldFor

LEMMA LostNothing ==
    ASSUME StagesInv, NothingLost, ~cancelled, NEW k \in Consumers, In(k) \subseteq closed
    PROVE  Len(got[k]) = Total
<1>1. Conserved /\ Drained /\ Listed /\ Copies /\ NetOK /\ AllLocalOK /\ Owners
  BY DEF NothingLost, StagesInv
<1>2. Consumers = AllConsumers \cap Goroutines /\ \A g \in Consumers : Len(got[g]) \in Nat
  BY LenProperties DEF Consumers, StagesInv, GotTyped
<1> USE DEF AllConsumers
<1>3. ASSUME NEW g \in Goroutines, Kind(g) \in {"orDone", "merge", "tee"}, st[g].pc = "done"
      PROVE  In(g) \subseteq closed
  BY <1>1, <1>3 DEF Drained
<1>4. CASE net \in {"orDone", "silent"}
  <2>1. k = "con1" /\ "x" \in closed BY <1>2, <1>4, OrDoneNet, SilentNet
  <2>2. st["orDone"].pc = "done" /\ Held("orDone") = 0
    BY <1>4, <2>1, ClosedByOwner, OrDoneNet, SilentNet
  <2>3. "a" \in closed BY <1>3, <1>4, <2>2, OrDoneNet, SilentNet
  <2>4. Left("gen1") = 0 BY <1>4, <2>3, ClosedByOwner, OrDoneNet, SilentNet
  <2> QED BY <1>1, <1>2, <1>4, <2>1, <2>2, <2>4 DEF Conserved
<1>5. CASE net \in {"take", "repeat"}
  <2>1. k = "con1" /\ "x" \in closed BY <1>2, <1>5, TakeNet, RepeatNet
  <2>2. st["take"].pc = "done" BY <1>5, <2>1, ClosedByOwner, TakeNet, RepeatNet
  <2>3. st["take"].n = 0 BY <1>1, <1>5, <2>2, TakeNet, RepeatNet DEF Drained
  <2> QED BY <1>1, <1>2, <1>5, <2>1, <2>3 DEF Conserved
<1>6. CASE net = "fanIn"
  <2>1. k = "con1" /\ "x" \in closed BY <1>2, <1>6, FanInNet
  <2>2. st["joiner"].pc = "done" BY <1>6, <2>1, ClosedByOwner, FanInNet
  <2>3. JoinAll BY <1>1, <1>6, <2>2, FanInNet DEF Owners
  <2>4. st["merge1"].pc = "done" /\ st["merge2"].pc = "done"
    BY <1>6, <2>3, FanInNet DEF JoinAll
  <2>5. "a" \in closed /\ "b" \in closed BY <1>3, <1>6, <2>4, FanInNet
  <2>6. Left("gen1") = 0 BY <1>6, <2>5, ClosedByOwner, FanInNet
  <2>7. Left("gen2") = 0 BY <1>6, <2>5, ClosedByOwner, FanInNet
  <2>8. Held("merge1") = 0 /\ Held("merge2") = 0 BY <2>4 DEF Held
  <2> QED BY <1>1, <1>2, <1>6, <2>1, <2>6, <2>7, <2>8 DEF Conserved
<1>7. CASE net = "tee"
  <2>1. k \in {"con1", "con2"} /\ ("x" \in closed \/ "y" \in closed) BY <1>2, <1>7, TeeNet
  <2>2. st["tee"].pc = "done" /\ HeldFor("tee", "x") = 0
    BY <1>7, <2>1, ClosedByOwner, TeeNet
  <2>3. "m" \in closed BY <1>3, <1>7, <2>2, TeeNet
  <2>4. st["orDone"].pc = "done" /\ Held("orDone") = 0
    BY <1>7, <2>3, ClosedByOwner, TeeNet
  <2>5. "a" \in closed BY <1>3, <1>7, <2>4, TeeNet
  <2>6. Left("gen1") = 0 BY <1>7, <2>5, ClosedByOwner, TeeNet
  <2>7. "con1" \in Consumers /\ Len(got["con1"]) \in Nat BY <1>2, <1>7, TeeNet
  <2>8. Len(got["con1"]) = Total BY <1>1, <1>7, <2>2, <2>4, <2>6, <2>7 DEF Conserved
  <2>9. st["tee"].on = {} BY <1>1, <1>7, <2>2, TeeNet DEF AllLocalOK, LocalOK
  <2>10. got["con1"] = got["con2"] BY <1>1, <1>7, <2>9 DEF Copies
  <2> QED BY <2>1, <2>8, <2>10
<1>8. CASE net = "bridge"
  <2>1. k = "con1" /\ "x" \in closed BY <1>2, <1>8, BridgeNet
  <2>2. st["bridge"].pc = "done" /\ Held("bridge") = 0
    BY <1>8, <2>1, ClosedByOwner, BridgeNet
  <2>3. "i" \in closed /\ "j" \in closed BY <1>1, <1>8, <2>2 DEF Listed
  <2>4. st["inner1"].pc = "done" /\ Held("inner1") = 0
    BY <1>8, <2>3, ClosedByOwner, BridgeNet
  <2>5. st["inner2"].pc = "done" /\ Held("inner2") = 0
    BY <1>8, <2>3, ClosedByOwner, BridgeNet
  <2>6. "a" \in closed /\ "b" \in closed BY <1>3, <1>8, <2>4, <2>5, BridgeNet
  <2>7. Left("gen1") = 0 BY <1>8, <2>6, ClosedByOwner, BridgeNet
  <2>8. Left("gen2") = 0 BY <1>8, <2>6, ClosedByOwner, BridgeNet
  <2> QED BY <1>1, <1>2, <1>8, <2>1, <2>2, <2>4, <2>5, <2>7, <2>8 DEF Conserved
<1>9. CASE net = "or"
  <2>1. k = "con1" BY <1>2, <1>9, OrNet
  <2> QED BY <1>1, <1>9, <2>1 DEF Conserved
<1> QED BY <1>1, <1>4, <1>5, <1>6, <1>7, <1>8, <1>9, NetworkNames DEF NetOK

(* A consumer whose range loop ends while the context is live has received *)
(* every value that was sent, or exactly the number given to Take: no      *)
(* stage closes its output while it, or a stage before it, still holds a   *)
(* value (FanIn waits for all its workers, channel.go:122-123, and Bridge  *)
(* goes on after each stream, 164).                                        *)
THEOREM ClosedIsComplete == Spec => []ClosedMeansComplete
<1>1. StagesInv /\ NothingLost => ClosedMeansComplete
  BY LostNothing DEF ClosedMeansComplete
<1> QED BY <1>1, NothingLostAlways, PTL

LEMMA PrefixOfAppend ==
    ASSUME NEW t \in Seq(Nat), NEW v \in Nat
    PROVE  /\ IsPrefix(t, Append(t, v)) /\ IsPrefix(t, t)
           /\ Len(Append(t, v)) = Len(t) + 1 /\ Len(t) \in Nat
<1>1. Len(Append(t, v)) = Len(t) + 1 /\ Len(t) \in Nat OBVIOUS
<1>2. SubSeq(t, 1, Len(t)) = SubSeq(Append(t, v), 1, Len(t)) OBVIOUS
<1> QED BY <1>1, <1>2 DEF IsPrefix

(* While the context is live Tee's two consumers never disagree and are    *)
(* never more than one value apart: each value goes to both before the     *)
(* next one is read (channel.go:139-149).                                  *)
THEOREM TeeStaysInStep == Spec => []TeeInStep
<1>1. ASSUME StagesInv, NothingLost PROVE TeeInStep
  <2> SUFFICES ASSUME net = "tee", ~cancelled
               PROVE  /\ Len(got["con1"]) <= Len(got["con2"]) + 1
                      /\ Len(got["con2"]) <= Len(got["con1"]) + 1
                      /\ IsPrefix(got["con1"], got["con2"]) \/ IsPrefix(got["con2"], got["con1"])
    BY DEF TeeInStep
  <2>1. got["con1"] \in Seq(Nat) /\ got["con2"] \in Seq(Nat)
    BY <1>1, TeeNet DEF StagesInv, GotTyped, Consumers, AllConsumers
  <2>2. st["tee"].val \in Nat BY <1>1, TeeNet DEF StagesInv, AllLocalOK, LocalOK
  <2>3. \/ got["con1"] = got["con2"]
        \/ got["con2"] = Append(got["con1"], st["tee"].val)
        \/ got["con1"] = Append(got["con2"], st["tee"].val)
    BY <1>1 DEF NothingLost, Copies
  <2>4. CASE got["con1"] = got["con2"] BY <2>1, <2>2, <2>4, PrefixOfAppend
  <2>5. CASE got["con2"] = Append(got["con1"], st["tee"].val)
    BY <2>1, <2>2, <2>5, PrefixOfAppend
  <2>6. CASE got["con1"] = Append(got["con2"], st["tee"].val)
    BY <2>1, <2>2, <2>6, PrefixOfAppend
  <2> QED BY <2>3, <2>4, <2>5, <2>6
<1> QED BY <1>1, NothingLostAlways, PTL
-----------------------------------------------------------------------------
(* Values in line *)

(* f says which of the places D of one line each of the places E of        *)
(* another takes its value from.                                           *)
Carries(f, D, w, E, v, onto) ==
    /\ D \in SUBSET Nat /\ E \in SUBSET Nat /\ f \in [E -> D]
    /\ \A i, j \in E : i < j => f[i] < f[j]
    /\ \A i \in E : v[i] = w[f[i]]
    /\ onto => \A d \in D : \E e \in E : f[e] = d

LEMMA Relabelled ==
    ASSUME NEW s, NEW u \in Nat, NEW D, NEW w, NEW all, InLine(s, u, D, w, all),
           NEW f, NEW E, NEW v, NEW now, Carries(f, D, w, E, v, now),
           NEW x \in Nat, u <= x, now => all /\ u = x
    PROVE  InLine(s, x, E, v, now)
<1> USE DEF Carries
<1>1. PICK at \in [D -> 1 .. u] :
          /\ \A i, j \in D : i < j => at[i] < at[j]
          /\ \A i \in D : w[i] = s[at[i]]
          /\ all => \A m \in 1 .. u : \E i \in D : at[i] = m
  BY DEF InLine
<1> DEFINE by == [e \in E |-> at[f[e]]]
<1>2. by \in [E -> 1 .. x]
  <2>1. ASSUME NEW e \in E PROVE at[f[e]] \in 1 .. x
    <3>1. f[e] \in D OBVIOUS
    <3>2. at[f[e]] \in 1 .. u BY <1>1, <3>1
    <3> QED BY <3>2
  <2> QED BY <2>1
<1>3. \A i, j \in E : i < j => by[i] < by[j] BY <1>1
<1>4. \A i \in E : v[i] = s[by[i]] BY <1>1
<1>5. ASSUME now, NEW m \in 1 .. x PROVE \E i \in E : by[i] = m
  <2>1. PICK d \in D : at[d] = m BY <1>1, <1>5
  <2>2. PICK e \in E : f[e] = d BY <1>5, <2>1
  <2> QED BY <2>1, <2>2
<1> HIDE DEF by
<1> QED BY <1>2, <1>3, <1>4, <1>5 DEF InLine

Above(top, D, v, w) ==
    D \in SUBSET Nat /\ top \in Nat /\ \A d \in D : d < top /\ v[d] = w[d]

LEMMA Extended ==
    ASSUME NEW s, NEW u \in Nat, NEW D, NEW w, NEW all, InLine(s, u, D, w, all),
           NEW top, NEW v, Above(top, D, v, w), v[top] = s[u + 1]
    PROVE  InLine(s, u + 1, D \cup {top}, v, all)
<1>0. top \in Nat /\ \A d \in D \cup {top} : d \in Nat /\ d <= top BY DEF Above
<1> USE DEF Above
<1>1. PICK at \in [D -> 1 .. u] :
          /\ \A i, j \in D : i < j => at[i] < at[j]
          /\ \A i \in D : w[i] = s[at[i]]
          /\ all => \A m \in 1 .. u : \E i \in D : at[i] = m
  BY DEF InLine
<1> DEFINE by == [d \in D \cup {top} |-> IF d = top THEN u + 1 ELSE at[d]]
<1>2. top \notin D OBVIOUS
<1>3. by \in [D \cup {top} -> 1 .. u + 1] OBVIOUS
<1>4. ASSUME NEW i \in D \cup {top}, NEW j \in D \cup {top}, i < j PROVE by[i] < by[j]
  <2>0. i # top
    <3> HIDE DEF Above, by
    <3>1. j <= top /\ j \in Nat /\ top \in Nat BY <1>0
    <3> QED BY <3>1, <1>4
  <2>1. i \in D /\ by[i] = at[i] /\ at[i] \in 1 .. u BY <1>1, <2>0
  <2>2. CASE j = top BY <2>1, <2>2
  <2>3. CASE j # top BY <1>1, <1>4, <2>1, <2>3
  <2> QED BY <2>2, <2>3
<1>5. \A i \in D \cup {top} : v[i] = s[by[i]] BY <1>1, <1>2
<1>6. ASSUME all, NEW m \in 1 .. u + 1 PROVE \E i \in D \cup {top} : by[i] = m
  <2>1. CASE m = u + 1 BY <2>1
  <2>2. CASE m # u + 1
    <3>1. m \in 1 .. u BY <2>2
    <3>2. PICK d \in D : at[d] = m BY <1>1, <1>6, <3>1
    <3> QED BY <1>2, <3>2
  <2> QED BY <2>1, <2>2
<1> HIDE DEF by
<1> QED BY <1>3, <1>4, <1>5, <1>6 DEF InLine

(* Without its last value a line is one of fewer values. *)
LEMMA Shortened ==
    ASSUME NEW s, NEW u \in Nat, NEW D, NEW w, NEW all, InLine(s, u, D, w, all),
           NEW top \in D, Above(top, D \ {top}, w, w)
    PROVE  \E x \in 0 .. u : InLine(s, x, D \ {top}, w, all)
<1> USE DEF Above
<1>1. PICK at \in [D -> 1 .. u] :
          /\ \A i, j \in D : i < j => at[i] < at[j]
          /\ \A i \in D : w[i] = s[at[i]]
          /\ all => \A m \in 1 .. u : \E i \in D : at[i] = m
  BY DEF InLine
<1> DEFINE x == at[top] - 1
           by == [d \in D \ {top} |-> at[d]]
<1>2. x \in 0 .. u OBVIOUS
<1>3. by \in [D \ {top} -> 1 .. x]
  <2>1. ASSUME NEW d \in D \ {top} PROVE at[d] \in 1 .. x
    <3>1. at[d] < at[top] /\ at[d] \in 1 .. u BY <1>1
    <3> QED BY <3>1
  <2> QED BY <2>1
<1>4. \A i, j \in D \ {top} : i < j => by[i] < by[j] BY <1>1
<1>5. \A i \in D \ {top} : w[i] = s[by[i]] BY <1>1
<1>6. ASSUME all, NEW m \in 1 .. x PROVE \E i \in D \ {top} : by[i] = m
  <2>1. m \in 1 .. u /\ m # at[top] OBVIOUS
  <2>2. PICK d \in D : at[d] = m BY <1>1, <1>6, <2>1
  <2> QED BY <2>1, <2>2
<1> HIDE DEF x, by
<1>7. InLine(s, x, D \ {top}, w, all) BY <1>3, <1>4, <1>5, <1>6 DEF InLine
<1> QED BY <1>2, <1>7

(* A value in line is one of the source's. *)
LEMMA InRange ==
    ASSUME NEW s \in Seq(Nat), NEW u \in 0 .. Len(s), NEW D \in SUBSET Nat, NEW w, NEW all,
           InLine(s, u, D, w, all), NEW i \in D
    PROVE  w[i] \in Range(s)
<1>1. PICK at \in [D -> 1 .. u] : \A j \in D : w[j] = s[at[j]]
  BY DEF InLine
<1>2. Len(s) \in Nat /\ DOMAIN s = 1 .. Len(s) BY LenProperties
<1>3. at[i] \in DOMAIN s BY <1>2
<1> QED BY <1>1, <1>3 DEF Range

-----------------------------------------------------------------------------
(* The values on their way to a consumer *)

IsLine(s, q, near, v, far, w, D, line) ==
    /\ Len(q) \in Nat /\ DOMAIN q = 1 .. Len(q)
    /\ D \in SUBSET Nat
    /\ \A p \in D : \/ p \in 1 .. Len(q) /\ q[p] \in Range(s) /\ line[p] = q[p]
                    \/ p = Len(q) + 1 /\ near /\ line[p] = v
                    \/ p = Len(q) + 2 /\ far /\ line[p] = w
    /\ \A p \in 1 .. Len(q) : q[p] \in Range(s) => p \in D
    /\ near => Len(q) + 1 \in D
    /\ far => Len(q) + 2 \in D

LEMMA LineOf ==
    ASSUME NEW s, NEW q \in Seq(Nat), NEW near \in BOOLEAN, NEW far \in BOOLEAN, NEW v, NEW w
    PROVE  IsLine(s, q, near, v, far, w, Places(s, q, near, far), Along(q, v, w))
<1>1. Len(q) \in Nat /\ DOMAIN q = 1 .. Len(q) BY LenProperties
<1> QED BY <1>1 DEF Places, Along, IsLine

(* Nothing moves; something may be dropped, and then not all are there. *)
Thinned(u, near, v, far, w, all, x, near2, v2, far2, w2, all2) ==
    /\ u \in Nat /\ x \in Nat /\ u <= x
    /\ {near, far, all, near2, far2, all2} \subseteq BOOLEAN
    /\ near2 => near /\ v2 = v
    /\ far2 => far /\ w2 = w
    /\ all2 => all /\ u = x /\ near2 = near /\ far2 = far

LEMMA FlowKept ==
    ASSUME NEW s, NEW q \in Seq(Nat), NEW u, NEW near, NEW v, NEW far, NEW w, NEW all,
           NEW x, NEW near2, NEW v2, NEW far2, NEW w2, NEW all2,
           Flow(s, u, q, near, v, far, w, all),
           Thinned(u, near, v, far, w, all, x, near2, v2, far2, w2, all2)
    PROVE  Flow(s, x, q, near2, v2, far2, w2, all2)
<1> USE DEF Thinned
<1> DEFINE D == Places(s, q, near, far)
           E == Places(s, q, near2, far2)
           f == [p \in E |-> p]
           line == Along(q, v, w)
           line2 == Along(q, v2, w2)
<1>1. IsLine(s, q, near, v, far, w, D, line) /\ IsLine(s, q, near2, v2, far2, w2, E, line2)
  BY LineOf
<1>3. InLine(s, u, D, line, all) BY DEF Flow
<1> HIDE DEF D, E, line, line2
<1>2. /\ D \in SUBSET Nat /\ E \in SUBSET Nat
      /\ \A p \in E : p \in D /\ line2[p] = line[p]
      /\ all2 => \A p \in D : p \in E
  <2>1. D \in SUBSET Nat /\ E \in SUBSET Nat BY <1>1 DEF IsLine
  <2>2. ASSUME NEW p \in E PROVE p \in D /\ line2[p] = line[p]
    <3>1. Len(q) \in Nat /\ (p \in 1 .. Len(q) => p \in D /\ line2[p] = line[p])
      BY <1>1, <2>2 DEF IsLine
    <3>2. CASE p = Len(q) + 1 BY <1>1, <2>2, <3>1, <3>2 DEF IsLine
    <3>3. CASE p = Len(q) + 2 BY <1>1, <2>2, <3>1, <3>3 DEF IsLine
    <3> QED BY <1>1, <3>1, <3>2, <3>3 DEF IsLine
  <2>3. ASSUME all2, NEW p \in D PROVE p \in E
    <3>1. near2 = near /\ far2 = far BY <2>3
    <3> QED BY <1>1, <2>3, <3>1 DEF IsLine
  <2> QED BY <2>1, <2>2, <2>3
<1>4. f \in [E -> D] /\ \A i \in E : f[i] = i BY <1>2
<1> HIDE DEF f
<1>5. Carries(f, D, line, E, line2, all2) BY <1>2, <1>4 DEF Carries
<1>6. InLine(s, x, E, line2, all2) BY <1>3, <1>5, Relabelled
<1> QED BY <1>6 DEF Flow, E, line2

(* The generator hands its next value to the stage before the near one, *)
LEMMA FlowFed ==
    ASSUME NEW s, NEW u \in Nat, NEW q \in Seq(Nat), NEW near \in BOOLEAN, NEW v,
           NEW w, NEW all \in BOOLEAN, Flow(s, u, q, near, v, FALSE, w, all)
    PROVE  Flow(s, u + 1, q, near, v, TRUE, s[u + 1], all)
<1> DEFINE D == Places(s, q, near, FALSE)
           E == Places(s, q, near, TRUE)
           line == Along(q, v, w)
           line2 == Along(q, v, s[u + 1])
           top == Len(q) + 2
<1>1. /\ IsLine(s, q, near, v, FALSE, w, D, line)
      /\ IsLine(s, q, near, v, TRUE, s[u + 1], E, line2)
  BY LineOf
<1>3. InLine(s, u, D, line, all) BY DEF Flow
<1> HIDE DEF D, E, line, line2
<1>2. E = D \cup {top} BY <1>1 DEF IsLine
<1>4. Above(top, D, line2, line) /\ line2[top] = s[u + 1]
  BY <1>1, <1>2 DEF IsLine, Above
<1> HIDE DEF top
<1>5. InLine(s, u + 1, D \cup {top}, line2, all) BY <1>3, <1>4, Extended
<1> QED BY <1>2, <1>5 DEF Flow, E, line2

(* that stage to the near one, *)
LEMMA FlowPassed ==
    ASSUME NEW s, NEW u \in Nat, NEW q \in Seq(Nat), NEW v, NEW w, NEW w2,
           NEW all \in BOOLEAN, Flow(s, u, q, FALSE, v, TRUE, w, all)
    PROVE  Flow(s, u, q, TRUE, w, FALSE, w2, all)
<1> DEFINE D == Places(s, q, FALSE, TRUE)
           E == Places(s, q, TRUE, FALSE)
           line == Along(q, v, w)
           line2 == Along(q, w, w2)
           f == [p \in E |-> IF p = Len(q) + 1 THEN Len(q) + 2 ELSE p]
<1>0. IsLine(s, q, FALSE, v, TRUE, w, D, line) /\ IsLine(s, q, TRUE, w, FALSE, w2, E, line2)
  BY LineOf
<1>5. InLine(s, u, D, line, all) BY DEF Flow
<1> HIDE DEF D, E, line, line2
<1>1. Len(q) \in Nat /\ D \in SUBSET Nat /\ E \in SUBSET Nat BY <1>0 DEF IsLine
<1>2. \A p \in E : f[p] \in D /\ line2[p] = line[f[p]] BY <1>0 DEF IsLine
<1>3. \A i, j \in E : i < j => f[i] < f[j] BY <1>0 DEF IsLine
<1>4. \A d \in D : \E e \in E : f[e] = d
  <2> TAKE d \in D
  <2>1. CASE d = Len(q) + 2
    <3>1. Len(q) + 1 \in E BY <1>0 DEF IsLine
    <3>2. f[Len(q) + 1] = d BY <2>1, <3>1
    <3> QED BY <3>1, <3>2
  <2>2. CASE d # Len(q) + 2
    <3>1. d \in E /\ d # Len(q) + 1 BY <1>0, <2>2 DEF IsLine
    <3> QED BY <3>1
  <2> QED BY <2>1, <2>2
<1>6. f \in [E -> D] BY <1>2
<1> HIDE DEF f
<1>7. Carries(f, D, line, E, line2, all) BY <1>1, <1>2, <1>3, <1>4, <1>6 DEF Carries
<1>8. InLine(s, u, E, line2, all) BY <1>5, <1>7, Relabelled
<1> QED BY <1>8 DEF Flow, E, line2

(* and the near one, which holds a value of the source, to the consumer. *)
LEMMA NearInRange ==
    ASSUME NEW s \in Seq(Nat), NEW u \in 0 .. Len(s), NEW q \in Seq(Nat), NEW v \in Nat,
           NEW far \in BOOLEAN, NEW w, NEW all, Flow(s, u, q, TRUE, v, far, w, all)
    PROVE  v \in Range(s)
<1> DEFINE D == Places(s, q, TRUE, far)
           line == Along(q, v, w)
<1>1. InLine(s, u, D, line, all) BY DEF Flow
<1>2. IsLine(s, q, TRUE, v, far, w, D, line) BY LineOf
<1> HIDE DEF D, line
<1>3. Len(q) + 1 \in D /\ line[Len(q) + 1] = v /\ D \in SUBSET Nat
  BY <1>2 DEF IsLine
<1> QED BY <1>1, <1>3, InRange

LEMMA FlowDelivered ==
    ASSUME NEW s \in Seq(Nat), NEW u \in 0 .. Len(s), NEW q \in Seq(Nat), NEW v \in Nat,
           NEW far \in BOOLEAN, NEW w, NEW v2,
           NEW all \in BOOLEAN, Flow(s, u, q, TRUE, v, far, w, all)
    PROVE  Flow(s, u, Append(q, v), FALSE, v2, far, w, all)
<1> DEFINE q2 == Append(q, v)
           D == Places(s, q, TRUE, far)
           E == Places(s, q2, FALSE, far)
           line == Along(q, v, w)
           line2 == Along(q2, v2, w)
           f == [p \in E |-> IF p = Len(q) + 3 THEN Len(q) + 2 ELSE p]
<1>1. /\ q2 \in Seq(Nat) /\ Len(q2) = Len(q) + 1 /\ q2[Len(q) + 1] = v
      /\ \A p \in 1 .. Len(q) : q2[p] = q[p]
      /\ Len(q) \in Nat
  BY LenProperties
<1>2. InLine(s, u, D, line, all) BY DEF Flow
<1>3. IsLine(s, q, TRUE, v, far, w, D, line) /\ IsLine(s, q2, FALSE, v2, far, w, E, line2)
  BY <1>1, LineOf
<1> HIDE DEF D, E, line, line2
<1>4. v \in Range(s) BY NearInRange
<1> HIDE DEF q2
<1>5. D \in SUBSET Nat /\ E \in SUBSET Nat BY <1>3 DEF IsLine
<1>6. \A p \in D : \/ p \in 1 .. Len(q) /\ q[p] \in Range(s) /\ line[p] = q[p]
                   \/ p = Len(q) + 1 /\ line[p] = v
                   \/ p = Len(q) + 2 /\ far /\ line[p] = w
  BY <1>3 DEF IsLine
<1>7. \A p \in E : \/ p \in 1 .. Len(q) /\ q[p] \in Range(s) /\ line2[p] = q[p]
                   \/ p = Len(q) + 1 /\ line2[p] = v
                   \/ p = Len(q) + 3 /\ far /\ line2[p] = w
  BY <1>1, <1>3 DEF IsLine
<1>8. /\ \A p \in 1 .. Len(q) : q[p] \in Range(s) => p \in D /\ p \in E /\ line[p] = q[p]
      /\ Len(q) + 1 \in D /\ Len(q) + 1 \in E /\ line[Len(q) + 1] = v
      /\ far => Len(q) + 2 \in D /\ Len(q) + 3 \in E /\ line[Len(q) + 2] = w
  <2>1. ASSUME NEW p \in 1 .. Len(q), q[p] \in Range(s) PROVE p \in D /\ p \in E /\ line[p] = q[p]
    <3>0. IsLine(s, q, TRUE, v, far, w, D, line) /\ Len(q) \in Nat BY <1>1, <1>3
    <3>1. p \in D BY <2>1, <3>0 DEF IsLine
    <3>3. line[p] = q[p]
      <4>1. p # Len(q) + 1 /\ p # Len(q) + 2 BY <3>0
      <4> QED BY <3>0, <3>1, <4>1 DEF IsLine
    <3>2. p \in 1 .. Len(q2) /\ q2[p] \in Range(s) BY <1>1, <2>1
    <3> QED BY <1>3, <3>1, <3>2, <3>3 DEF IsLine
  <2>2. Len(q) + 1 \in D /\ Len(q) + 1 \in E /\ line[Len(q) + 1] = v
    BY <1>1, <1>3, <1>4 DEF IsLine
  <2>3. ASSUME far PROVE Len(q) + 2 \in D /\ Len(q) + 3 \in E /\ line[Len(q) + 2] = w
    <3>1. Len(q) + 2 \in D /\ Len(q2) + 2 \in E BY <1>3, <2>3 DEF IsLine
    <3>2. line[Len(q) + 2] = w BY <1>1, <1>3, <3>1 DEF IsLine
    <3> QED BY <1>1, <3>1, <3>2
  <2> QED BY <2>1, <2>2, <2>3
<1>18. \A p \in E : f[p] = IF p = Len(q) + 3 THEN Len(q) + 2 ELSE p OBVIOUS
<1>14. ASSUME NEW p \in E PROVE f[p] \in D /\ line2[p] = line[f[p]]
  <2>1. CASE p \in 1 .. Len(q) /\ q[p] \in Range(s) /\ line2[p] = q[p]
    <3>1. p # Len(q) + 3 BY <1>1, <2>1
    <3>2. f[p] = p BY <1>18, <3>1
    <3> QED BY <1>8, <2>1, <3>2
  <2>2. CASE p = Len(q) + 1 /\ line2[p] = v
    <3>1. p # Len(q) + 3 BY <1>1, <2>2
    <3>2. f[p] = p BY <1>18, <3>1
    <3> QED BY <1>8, <2>2, <3>2
  <2>3. CASE p = Len(q) + 3 /\ far /\ line2[p] = w
    <3>2. f[p] = Len(q) + 2 BY <1>18, <2>3
    <3> QED BY <1>8, <2>3, <3>2
  <2> QED BY <1>7, <2>1, <2>2, <2>3
<1>19. f \in [E -> D] BY <1>14
<1> HIDE DEF f
<1>12. \A i, j \in E : i < j => f[i] < f[j]
  <2>1. \A p \in E : p \in 1 .. Len(q) + 1 \/ p = Len(q) + 3 BY <1>1, <1>7
  <2>2. ASSUME NEW i \in E, NEW j \in E, i < j PROVE f[i] < f[j]
    <3>5. j \in 1 .. Len(q) + 1 \/ j = Len(q) + 3 BY <2>1
    <3>6. i \in 1 .. Len(q) + 1 \/ i = Len(q) + 3 BY <2>1
    <3>7. Len(q) \in Nat BY <1>1
    <3>1. i # Len(q) + 3 /\ i \in 1 .. Len(q) + 1 BY <2>2, <3>5, <3>6, <3>7
    <3>2. f[i] = i BY <1>18, <3>1
    <3>3. CASE j = Len(q) + 3 BY SMTT(40), <1>1, <1>18, <3>1, <3>2, <3>3
    <3>4. CASE j # Len(q) + 3 BY <1>18, <2>2, <3>2, <3>4
    <3> QED BY <3>3, <3>4
  <2> QED BY <2>2
<1>13. \A d \in D : \E e \in E : f[e] = d
  <2> TAKE d \in D
  <2>1. CASE d = Len(q) + 2 /\ far
    <3>1. Len(q) + 3 \in E BY <1>8, <2>1
    <3>2. f[Len(q) + 3] = d BY <1>18, <2>1, <3>1
    <3> QED BY <3>1, <3>2
  <2>2. CASE d \in 1 .. Len(q) /\ q[d] \in Range(s)
    <3>1. d \in E /\ d # Len(q) + 3 BY <1>1, <1>8, <2>2
    <3> QED BY <1>18, <3>1
  <2>3. CASE d = Len(q) + 1
    <3>1. d \in E /\ d # Len(q) + 3 BY <1>1, <1>8, <2>3
    <3> QED BY <1>18, <3>1
  <2> QED BY <1>6, <2>1, <2>2, <2>3
<1>15. u \in Nat BY LenProperties
<1>17. Carries(f, D, line, E, line2, all) BY <1>5, <1>12, <1>13, <1>14, <1>19 DEF Carries
<1>16. InLine(s, u, E, line2, all) BY <1>2, <1>15, <1>17, Relabelled
<1> QED BY <1>16 DEF Flow, E, line2, q2

(* A value of another source comes between. *)
LEMMA FlowPast ==
    ASSUME NEW s, NEW u \in Nat, NEW q \in Seq(Nat), NEW near \in BOOLEAN, NEW v,
           NEW far \in BOOLEAN, NEW w, NEW all \in BOOLEAN,
           Flow(s, u, q, near, v, far, w, all),
           NEW other \in Nat, other \notin Range(s)
    PROVE  Flow(s, u, Append(q, other), near, v, far, w, all)
<1> DEFINE q2 == Append(q, other)
           D == Places(s, q, near, far)
           E == Places(s, q2, near, far)
           line == Along(q, v, w)
           line2 == Along(q2, v, w)
           f == [p \in E |-> IF p <= Len(q) THEN p ELSE p - 1]
<1>1. /\ q2 \in Seq(Nat) /\ Len(q2) = Len(q) + 1 /\ q2[Len(q) + 1] = other
      /\ \A p \in 1 .. Len(q) : q2[p] = q[p]
      /\ Len(q) \in Nat
  BY LenProperties
<1>0. Len(q) \in Nat /\ Len(q2) = Len(q) + 1 BY <1>1
<1>2. InLine(s, u, D, line, all) BY DEF Flow
<1> HIDE DEF q2
<1>3. IsLine(s, q, near, v, far, w, D, line) /\ IsLine(s, q2, near, v, far, w, E, line2)
  BY <1>1, LineOf
<1> HIDE DEF D, E, line, line2
<1>4. D \in SUBSET Nat /\ E \in SUBSET Nat BY <1>3 DEF IsLine
<1>5. \A p \in E : \/ p \in 1 .. Len(q) /\ q[p] \in Range(s) /\ line2[p] = q[p]
                   \/ p = Len(q) + 2 /\ near /\ line2[p] = v
                   \/ p = Len(q) + 3 /\ far /\ line2[p] = w
  BY <1>1, <1>3 DEF IsLine
<1>6. /\ \A p \in 1 .. Len(q) : q[p] \in Range(s) => p \in D /\ p \in E /\ line[p] = q[p]
      /\ near => Len(q) + 1 \in D /\ Len(q) + 2 \in E /\ line[Len(q) + 1] = v
      /\ far => Len(q) + 2 \in D /\ Len(q) + 3 \in E /\ line[Len(q) + 2] = w
  <2> HIDE DEF f
  <2>1. ASSUME NEW p \in 1 .. Len(q), q[p] \in Range(s)
        PROVE  p \in D /\ p \in E /\ line[p] = q[p]
    <3>1. p \in D BY <1>3, <2>1 DEF IsLine
    <3>2. p \in 1 .. Len(q2) /\ q2[p] \in Range(s) BY <1>1, <2>1
    <3>3. p \in E BY <1>3, <3>2 DEF IsLine
    <3>4. p # Len(q) + 1 /\ p # Len(q) + 2 BY <1>0
    <3>5. line[p] = q[p] BY <1>3, <3>1, <3>4 DEF IsLine
    <3> QED BY <3>1, <3>3, <3>5
  <2>2. ASSUME near
        PROVE  Len(q) + 1 \in D /\ Len(q) + 2 \in E /\ line[Len(q) + 1] = v
    <3>1. Len(q) + 1 \in D BY <1>3, <2>2 DEF IsLine
    <3>2. Len(q2) + 1 \in E BY <1>3, <2>2 DEF IsLine
    <3>3. Len(q) + 1 \notin 1 .. Len(q) /\ Len(q) + 1 # Len(q) + 2 BY <1>0
    <3>4. line[Len(q) + 1] = v BY <1>3, <3>1, <3>3 DEF IsLine
    <3> QED BY <3>1, <3>2, <3>4, <1>0
  <2>3. ASSUME far
        PROVE  Len(q) + 2 \in D /\ Len(q) + 3 \in E /\ line[Len(q) + 2] = w
    <3>1. Len(q) + 2 \in D BY <1>3, <2>3 DEF IsLine
    <3>2. Len(q2) + 2 \in E BY <1>3, <2>3 DEF IsLine
    <3>3. Len(q) + 2 \notin 1 .. Len(q) /\ Len(q) + 1 # Len(q) + 2 BY <1>0
    <3>4. line[Len(q) + 2] = w BY <1>3, <3>1, <3>3 DEF IsLine
    <3> QED BY <3>1, <3>2, <3>4, <1>0
  <2> QED BY <2>1, <2>2, <2>3
<1>7. \A p \in D : \/ p \in 1 .. Len(q) /\ q[p] \in Range(s)
                   \/ p = Len(q) + 1 /\ near
                   \/ p = Len(q) + 2 /\ far
  BY <1>3 DEF IsLine
<1>18. \A p \in E : f[p] = IF p <= Len(q) THEN p ELSE p - 1 OBVIOUS
<1> HIDE DEF f
<1>8. ASSUME NEW p \in E PROVE f[p] \in D /\ line2[p] = line[f[p]]
  <2>1. CASE p \in 1 .. Len(q) /\ q[p] \in Range(s) /\ line2[p] = q[p]
    <3>1. p <= Len(q) BY <1>0, <2>1
    <3>2. f[p] = p BY <1>18, <3>1
    <3> QED BY <1>6, <2>1, <3>2
  <2>2. CASE p = Len(q) + 2 /\ near /\ line2[p] = v
    <3>1. ~(p <= Len(q)) /\ p - 1 = Len(q) + 1 BY <1>0, <2>2
    <3>2. f[p] = Len(q) + 1 BY <1>18, <3>1
    <3> QED BY <1>6, <2>2, <3>2
  <2>3. CASE p = Len(q) + 3 /\ far /\ line2[p] = w
    <3>1. ~(p <= Len(q)) /\ p - 1 = Len(q) + 2 BY <1>0, <2>3
    <3>2. f[p] = Len(q) + 2 BY <1>18, <3>1
    <3> QED BY <1>6, <2>3, <3>2
  <2> QED BY <1>5, <2>1, <2>2, <2>3
<1>9. ASSUME NEW i \in E, NEW j \in E, i < j PROVE f[i] < f[j]
  <2>1. ASSUME NEW p \in E PROVE p \in Nat /\ p # Len(q) + 1
    <3>1. p \in Nat BY <1>4
    <3>2. p \in 1 .. Len(q) \/ p = Len(q) + 2 \/ p = Len(q) + 3 BY <1>5
    <3> QED BY <1>0, <3>1, <3>2
  <2>2. i \in Nat /\ j \in Nat /\ i # Len(q) + 1 /\ j # Len(q) + 1 BY <2>1
  <2>3. /\ f[i] = IF i <= Len(q) THEN i ELSE i - 1
        /\ f[j] = IF j <= Len(q) THEN j ELSE j - 1
    BY <1>18
  <2> QED BY <1>0, <1>9, <2>2, <2>3
<1>10. ASSUME NEW d \in D PROVE \E e \in E : f[e] = d
  <2>1. CASE d \in 1 .. Len(q) /\ q[d] \in Range(s)
    <3>1. d \in E /\ d <= Len(q) BY <1>0, <1>6, <2>1
    <3>2. f[d] = d BY <1>18, <3>1
    <3> QED BY <3>1, <3>2
  <2>2. CASE d = Len(q) + 1 /\ near
    <3>1. Len(q) + 2 \in E /\ ~(Len(q) + 2 <= Len(q)) BY <1>0, <1>6, <2>2
    <3>2. f[Len(q) + 2] = d BY <1>0, <1>18, <2>2, <3>1
    <3> QED BY <3>1, <3>2
  <2>3. CASE d = Len(q) + 2 /\ far
    <3>1. Len(q) + 3 \in E /\ ~(Len(q) + 3 <= Len(q)) BY <1>0, <1>6, <2>3
    <3>2. f[Len(q) + 3] = d BY <1>0, <1>18, <2>3, <3>1
    <3> QED BY <3>1, <3>2
  <2> QED BY <1>7, <2>1, <2>2, <2>3
<1>11. f \in [E -> D]
  <2>1. f = [p \in E |-> f[p]] BY DEF f
  <2> QED BY <1>8, <2>1
<1>12. Carries(f, D, line, E, line2, all) BY <1>4, <1>8, <1>9, <1>10, <1>11 DEF Carries
<1>13. InLine(s, u, E, line2, all) BY <1>2, <1>12, Relabelled
<1> QED BY <1>13 DEF Flow, E, line2, q2

(* What the consumer has is in line by itself. *)
LEMMA FlowReceived ==
    ASSUME NEW s, NEW u \in Nat, NEW q \in Seq(Nat), NEW near \in BOOLEAN, NEW v,
           NEW far \in BOOLEAN, NEW w, NEW all \in BOOLEAN,
           Flow(s, u, q, near, v, far, w, all)
    PROVE  \E x \in 0 .. u : InLine(s, x, {i \in DOMAIN q : q[i] \in Range(s)}, q, all)
<1> DEFINE line == Along(q, v, w)
           D == Places(s, q, near, far)
           D1 == D \ {Len(q) + 2}
           D2 == D1 \ {Len(q) + 1}
<1>1. InLine(s, u, D, line, all) BY DEF Flow
<1>0. IsLine(s, q, near, v, far, w, D, line) BY LineOf
<1> HIDE DEF D, line
<1>2. /\ Len(q) \in Nat /\ DOMAIN q = 1 .. Len(q) /\ D \in SUBSET Nat
      /\ \A p \in D : p < Len(q) + 2 \/ p = Len(q) + 2
      /\ \A p \in D2 : p \in 1 .. Len(q) /\ q[p] \in Range(s) /\ line[p] = q[p]
      /\ \A p \in 1 .. Len(q) : q[p] \in Range(s) => p \in D2
  BY <1>0 DEF IsLine
<1>3. \E x \in 0 .. u : InLine(s, x, D1, line, all)
  <2>1. CASE Len(q) + 2 \in D
    <3>1. D1 \in SUBSET Nat /\ Len(q) + 2 \in Nat /\ \A d \in D1 : d < Len(q) + 2
      <4>1. D1 \subseteq D /\ \A d \in D1 : d # Len(q) + 2 OBVIOUS
      <4>2. D \subseteq Nat /\ Len(q) \in Nat BY <1>2
      <4>3. \A p \in D : p < Len(q) + 2 \/ p = Len(q) + 2 BY <1>2
      <4> HIDE DEF D1, D2
      <4>4. \A d \in D1 : d < Len(q) + 2 BY <4>1, <4>3
      <4> QED BY <4>1, <4>2, <4>4
    <3>2. Above(Len(q) + 2, D1, line, line) BY <3>1 DEF Above
    <3> QED BY <1>1, <2>1, <3>2, Shortened
  <2>2. CASE Len(q) + 2 \notin D
    <3>1. D1 = D BY <2>2
    <3>2. u \in 0 .. u OBVIOUS
    <3> QED BY <1>1, <3>1, <3>2
  <2> QED BY <2>1, <2>2
<1>4. PICK y \in 0 .. u : InLine(s, y, D1, line, all) BY <1>3
<1>5. Above(Len(q) + 1, D2, line, line)
  <2>1. D2 \in SUBSET Nat /\ Len(q) + 1 \in Nat /\ \A d \in D2 : d < Len(q) + 1
    <3> HIDE DEF D2
    <3> QED BY <1>2
  <2> HIDE DEF D2
  <2> QED BY <2>1 DEF Above
<1> HIDE DEF D1
<1>6. \E x \in 0 .. u : InLine(s, x, D2, line, all)
  <2>1. CASE Len(q) + 1 \in D1
    <3>1. y \in Nat BY <1>4
    <3>2. PICK x \in 0 .. y : InLine(s, x, D2, line, all)
      BY <1>4, <1>5, <2>1, <3>1, Shortened
    <3>3. x \in 0 .. u BY <1>4
    <3> QED BY <3>2, <3>3
  <2>2. CASE Len(q) + 1 \notin D1
    <3>1. D2 = D1 BY <2>2
    <3> QED BY <1>4, <3>1
  <2> QED BY <2>1, <2>2
<1>7. PICK x \in 0 .. u : InLine(s, x, D2, line, all) BY <1>6
<1>8. D2 = {i \in DOMAIN q : q[i] \in Range(s)} BY <1>2
<1> HIDE DEF D2
<1>9. InLine(s, x, D2, q, all)
  <2>1. D2 \in SUBSET Nat /\ \A p \in D2 : line[p] = q[p] BY <1>2, <1>8
  <2>2. \A at \in [D2 -> 1 .. x] : (\A p \in D2 : line[p] = s[at[p]]) =>
            \A p \in D2 : q[p] = s[at[p]]
    BY <2>1
  <2> QED BY <1>7, <2>2 DEF InLine
<1> QED BY <1>8, <1>9

-----------------------------------------------------------------------------
(* What the generators have still to send *)

LEMMA RestSending ==
    ASSUME NEW g \in Goroutines, NEW V \in Seq(Nat), NEW s \in LocalStates
    PROVE  /\ V # <<>> => RestOf(V, Sending(g, s, V))
           /\ s.pc = "send" /\ RestOf(V, s) /\ s.todo # <<>> => RestOf(V, Sending(g, s, s.todo))
<1>1. Len(V) \in Nat /\ Len(s.todo) \in Nat /\ s.todo \in Seq(Nat)
  BY LenProperties DEF LocalStates
<1>2. ASSUME NEW t \in Seq(Nat), t # <<>>
      PROVE  /\ Sending(g, s, t).val = t[1] /\ Len(Sending(g, s, t).todo) = Len(t) - 1
             /\ \A k \in 1 .. Len(t) - 1 : Sending(g, s, t).todo[k] = t[k + 1]
             /\ Len(t) \in Nat \ {0}
  <2>1. Sending(g, s, t).val = Head(t) /\ Sending(g, s, t).todo = Tail(t)
    BY <1>2 DEF Sending, LocalStates
  <2>2. Head(t) = t[1] /\ Len(Tail(t)) = Len(t) - 1 /\ Len(t) \in Nat \ {0}
    BY <1>2, HeadTailProperties, EmptySeq
  <2>3. \A k \in 1 .. Len(t) - 1 : Tail(t)[k] = t[k + 1] BY <1>2, HeadTailProperties
  <2> QED BY <2>1, <2>2, <2>3
<1>3. ASSUME V # <<>> PROVE RestOf(V, Sending(g, s, V))
  <2> DEFINE n == Sending(g, s, V)
  <2>1. /\ n.val = V[1] /\ Len(n.todo) = Len(V) - 1
        /\ \A k \in 1 .. Len(V) - 1 : n.todo[k] = V[k + 1]
        /\ Len(V) \in Nat \ {0}
    BY <1>2, <1>3
  <2> HIDE DEF n
  <2>2. Len(V) - Len(n.todo) = 1 BY <2>1
  <2>3. \A k \in 1 .. Len(n.todo) : n.todo[k] = V[1 + k] BY <2>1
  <2>4. RestOf(V, n) BY <2>1, <2>2, <2>3 DEF RestOf
  <2> QED BY <2>4 DEF n
<1>4. ASSUME s.pc = "send", RestOf(V, s), s.todo # <<>>
      PROVE  RestOf(V, Sending(g, s, s.todo))
  <2> DEFINE n == Sending(g, s, s.todo)
             d == Len(V) - Len(s.todo)
  <2>1. /\ n.val = s.todo[1] /\ Len(n.todo) = Len(s.todo) - 1
        /\ \A k \in 1 .. Len(s.todo) - 1 : n.todo[k] = s.todo[k + 1]
        /\ Len(s.todo) \in Nat \ {0}
    BY <1>1, <1>2, <1>4
  <2>2. /\ Len(s.todo) < Len(V)
        /\ \A k \in 1 .. Len(s.todo) : s.todo[k] = V[d + k]
    BY <1>4 DEF RestOf
  <2> HIDE DEF n
  <2>3. Len(V) - Len(n.todo) = d + 1 BY <1>1, <2>1
  <2>4. n.val = V[d + 1]
    <3>1. 1 \in 1 .. Len(s.todo) BY <2>1
    <3>2. s.todo[1] = V[d + 1] BY <2>2, <3>1
    <3> QED BY <2>1, <3>2
  <2>5. \A k \in 1 .. Len(n.todo) : n.todo[k] = V[d + 1 + k]
    <3> TAKE k \in 1 .. Len(n.todo)
    <3>1. k \in 1 .. Len(s.todo) - 1 /\ k + 1 \in 1 .. Len(s.todo) BY <2>1
    <3>2. n.todo[k] = V[d + (k + 1)] BY <2>1, <2>2, <3>1
    <3>3. d + (k + 1) = d + 1 + k BY <1>1, <3>1
    <3> QED BY <3>2, <3>3
  <2>6. Len(n.todo) < Len(V) BY <1>1, <2>1, <2>2
  <2> HIDE DEF d
  <2>7. RestOf(V, n) BY <2>3, <2>4, <2>5, <2>6 DEF RestOf
  <2> QED BY <2>7 DEF n
<1> QED BY <1>3, <1>4

(* A step that hands no value over; if it drops one, the context is        *)
(* cancelled.                                                              *)
NoneHanded ==
    /\ net' = net /\ limit' = limit /\ got' = got /\ (cancelled => cancelled')
    /\ \A g \in Goroutines :
          Kind(g) # "take" =>
              \/ st'[g] = st[g]
              \/ st'[g].pc # "send" /\ (st[g].pc # "send" \/ cancelled')
              \/ /\ Kind(g) = "tee" /\ cancelled' /\ st[g].pc = "send" /\ st'[g].pc = "send"
                 /\ st'[g].val = st[g].val /\ st'[g].on = st[g].on

LEMMA NoneHandedBy ==
    ASSUME StagesInv,
           \/ \E g \in Goroutines : Join(g) \/ Exit(g) \/ Fire(g) \/ Heed(g) \/ \E c : Exhausted(g, c)
           \/ Cancel \/ UNCHANGED vars
    PROVE  NoneHanded
<1>1. NetOK /\ AllLocalOK BY DEF StagesInv
<1>2. ASSUME NEW g \in Goroutines, Join(g) \/ Exit(g) \/ Fire(g) \/ \E c : Exhausted(g, c)
      PROVE  NoneHanded
  <2>1. Quiet BY <1>1, <1>2, QuietSteps
  <2>2. cancelled' = cancelled BY <1>2 DEF Join, Exit, Fire, Exhausted
  <2> QED BY <2>1, <2>2 DEF Quiet, NoneHanded
<1>3. ASSUME NEW g \in Goroutines, Heed(g) PROVE NoneHanded
  <2>1. /\ st' = [st EXCEPT ![g] = Heeded(g)] /\ cancelled /\ cancelled' = cancelled
        /\ net' = net /\ limit' = limit /\ got' = got /\ Heeds(g)
    BY <1>3 DEF Heed
  <2>2. LocalOK(g, st[g]) /\ st[g] \in LocalStates /\ DOMAIN st = Goroutines
    BY <1>1 DEF AllLocalOK, LocalOK, LocalStates
  <2>3. st'[g] = Heeded(g) /\ \A h \in Goroutines \ {g} : st'[h] = st[h] BY <2>1, <2>2
  <2>4. CASE Kind(g) = "tee"
    <3>1. Heeded(g) = TeeRound(st[g]) BY <2>4 DEF Heeded
    <3>2. st[g].pc = "send" BY <2>1, <2>4 DEF Heeds, HeedsAt
    <3>3. TeeRound(st[g]).pc = "send" => /\ TeeRound(st[g]).val = st[g].val
                                         /\ TeeRound(st[g]).on = st[g].on
      BY <2>2 DEF TeeRound, LocalStates
    <3> QED BY <2>1, <2>3, <2>4, <3>1, <3>2, <3>3 DEF NoneHanded
  <2>5. CASE Kind(g) # "tee"
    <3>1. Heeded(g) = Resumed(st[g]) \/ Heeded(g) = Leaving(st[g]) BY <2>5 DEF Heeded
    <3>2. Heeded(g).pc # "send" BY <2>2, <3>1 DEF Resumed, Leaving, LocalStates
    <3> QED BY <2>1, <2>3, <3>2 DEF NoneHanded
  <2> QED BY <2>4, <2>5
<1>4. ASSUME Cancel \/ UNCHANGED vars PROVE NoneHanded
  BY <1>4 DEF Cancel, vars, NoneHanded
<1> QED BY <1>2, <1>3, <1>4

LEMMA SourcesAre ==
    ASSUME NetOK, NEW g \in Goroutines
    PROVE  /\ g \in Sources <=> g \in {"gen1", "gen2"}
           /\ g \in {"gen1", "gen2"} => g # "lister" /\ Kind(g) \in Senders
<1>1. Wired(g) BY Wiring DEF NetOK
<1> QED BY <1>1, ConstantsAssumption DEF Sources, Wired, Senders

LEMMA RestInit ==
    ASSUME Init, NetOK
    PROVE  Rest
<1> SUFFICES ASSUME NEW g \in Sources PROVE RestOf(Values[g], st[g]) BY DEF Rest
<1>1. g \in Goroutines /\ g \in {"gen1", "gen2"} BY SourcesAre DEF Sources
<1>2. Start(g) = Sending(g, Local("send"), Values[g])
  <2>1. Wired(g) /\ g # "lister" /\ Kind(g) \in Senders BY <1>1, SourcesAre, Wiring DEF NetOK
  <2>2. Range(Inner) = {"inner1", "inner2"} BY DEF Range, Inner
  <2> QED BY <2>1, <2>2 DEF Start, Senders, Wired
<1>3. st[g] = Start(g) BY <1>1 DEF Init
<1>4. Local("send") \in LocalStates BY LocalStart DEF PCs
<1> QED BY <1>1, <1>2, <1>3, <1>4, RestSending, SourcesSend

LEMMA RestNoneHanded ==
    ASSUME NetOK, Rest, NoneHanded
    PROVE  Rest'
<1>1. Sources' = Sources BY SameNet DEF Sources, NoneHanded
<1>2. ASSUME NEW g \in Sources PROVE st'[g] = st[g] \/ st'[g].pc # "send"
  <2>1. g \in Goroutines /\ Kind(g) \in Senders BY SourcesAre DEF Sources
  <2> QED BY <2>1 DEF NoneHanded, Senders
<1>3. \A g \in Sources : RestOf(Values[g], st'[g]) BY <1>2 DEF Rest, RestOf
<1> QED BY <1>1, <1>3 DEF Rest

LEMMA RestHanded ==
    ASSUME StagesInv, Rest, NEW s \in Goroutines, NEW r \in Goroutines, NEW c, Transfer(s, r, c)
    PROVE  Rest'
<1>1. NetOK /\ AllLocalOK /\ Unborn BY DEF StagesInv
<1>2. Handed(s, r, c) BY HandedOn
<1>3. Sources' = Sources /\ net' = net
  <2>1. net' = net /\ limit' = limit BY DEF Transfer
  <2> QED BY <2>1, SameNet DEF Sources
<1> SUFFICES ASSUME NEW g \in Sources PROVE RestOf(Values[g], st'[g])
  BY <1>3 DEF Rest
<1>4. /\ g \in Goroutines /\ g \in {"gen1", "gen2"} /\ g # "lister" /\ Kind(g) \in Senders
      /\ RestOf(Values[g], st[g])
  BY <1>1, SourcesAre DEF Sources, Rest
<1>5. /\ Values[g] \in Seq(Nat) /\ Values[g] # <<>> BY <1>4, SourcesSend
<1>6. st[g] \in LocalStates BY <1>1, <1>4 DEF AllLocalOK, LocalOK, LocalStates
<1>7. CASE g = s
  <2>1. st'[g] = Sent(g, c) /\ st[g].pc = "send" BY <1>2, <1>7 DEF Handed
  <2>2. CASE st[g].todo # <<>>
    <3>1. Sent(g, c) = Sending(g, st[g], st[g].todo) BY <1>4, <2>2 DEF Sent, Senders
    <3> QED BY <1>4, <1>5, <1>6, <2>1, <2>2, <3>1, RestSending
  <2>3. CASE st[g].todo = <<>> /\ Kind(g) = "repeat"
    <3>1. Sent(g, c) = Sending(g, st[g], Values[g]) BY <2>3 DEF Sent
    <3> QED BY <1>4, <1>5, <1>6, <2>1, <3>1, RestSending
  <2>4. CASE st[g].todo = <<>> /\ Kind(g) # "repeat"
    <3>1. Sent(g, c).pc # "send" BY <1>4, <1>6, <2>4 DEF Sent, Senders, Leaving, Resumed, LocalStates
    <3> QED BY <2>1, <3>1 DEF RestOf
  <2> QED BY <2>2, <2>3, <2>4
<1>8. CASE g # s
  <2>1. g # r BY <1>2, <1>4 DEF Handed, Senders
  <2>2. st'[g] = st[g] \/ st'[g] = Receiving(g, st[g]) BY <1>1, <1>4, <1>8, <2>1, TransferMoves
  <2>3. Receiving(g, st[g]).pc = "recv" BY <1>6 DEF Receiving, LocalStates
  <2> QED BY <1>4, <2>2, <2>3 DEF RestOf
<1> QED BY <1>7, <1>8

(* The value a generator hands over is the next of its source. *)
LEMMA NextOf ==
    ASSUME StagesInv, Rest, NEW g \in Goroutines, g \in {"gen1", "gen2"},
           Kind(g) \in {"generate", "source"}
    PROVE  /\ Values[g] \in Seq(Nat) /\ Gone(g) \in 0 .. Len(Values[g])
           /\ \A r \in Goroutines : \A c : Transfer(g, r, c) =>
                 st[g].val = Values[g][Gone(g) + 1] /\ Gone(g)' = Gone(g) + 1
<1>1. NetOK /\ AllLocalOK /\ LocalOK(g, st[g]) BY DEF StagesInv, AllLocalOK
<1>2. RestOf(Values[g], st[g]) BY <1>1, SourcesAre DEF Rest
<1>3. Values[g] \in Seq(Nat) /\ Len(Values[g]) \in Nat BY SourcesSend, LenProperties
<1>4. Len(st[g].todo) \in Nat BY <1>1, LenProperties DEF LocalOK
<1>5. Gone(g) \in 0 .. Len(Values[g])
  <2> DEFINE l == Len(Values[g])
             t == Len(st[g].todo)
  <2>1. (Gone(g) = l - (1 + t) /\ t < l) \/ Gone(g) = l - 0
    <3>1. CASE st[g].pc = "send" BY <1>2, <3>1 DEF RestOf, Left, Gone
    <3>2. CASE st[g].pc # "send" BY <3>2 DEF Left, Gone
    <3> QED BY <3>1, <3>2
  <2>2. l \in Nat /\ t \in Nat BY <1>3, <1>4
  <2> HIDE DEF l, t
  <2>3. Gone(g) \in 0 .. l BY <2>1, <2>2
  <2> QED BY <2>3 DEF l
<1>6. ASSUME NEW r \in Goroutines, NEW c, Transfer(g, r, c)
      PROVE  st[g].val = Values[g][Gone(g) + 1] /\ Gone(g)' = Gone(g) + 1
  <2>1. Handed(g, r, c) BY <1>6, HandedOn
  <2>2. st[g].pc = "send" /\ st'[g] = Sent(g, c) BY <2>1 DEF Handed
  <2>3. Left(g) \in Nat /\ Left(g)' = Left(g) - 1 BY <1>1, <2>2, LeftAfter
  <2>4. Gone(g) + 1 = Len(Values[g]) - Len(st[g].todo) BY <1>3, <1>4, <2>2 DEF Gone, Left
  <2>5. st[g].val = Values[g][Gone(g) + 1] BY <1>2, <2>2, <2>4 DEF RestOf
  <2>6. Gone(g)' = Len(Values[g]) - Left(g)' BY DEF Gone
  <2> QED BY <1>3, <2>3, <2>5, <2>6 DEF Gone
<1> QED BY <1>3, <1>5, <1>6

-----------------------------------------------------------------------------
(* InFlight, by a step that hands no value over *)

(* A stage still holds what it held, unless the context is cancelled. *)
LEMMA HeldOn ==
    ASSUME NoneHanded, NEW g \in Goroutines, Kind(g) \notin {"take", "tee"}
    PROVE  /\ Sends(g)' => Sends(g) /\ st'[g] = st[g]
           /\ ~cancelled' => ~cancelled /\ Sends(g)' = Sends(g)
<1>1. \/ st'[g] = st[g]
      \/ st'[g].pc # "send" /\ (st[g].pc # "send" \/ cancelled')
  BY DEF NoneHanded
<1>2. cancelled => cancelled' BY DEF NoneHanded
<1> QED BY <1>1, <1>2 DEF Sends

LEMMA TeeHeldOn ==
    ASSUME AllLocalOK, AllLocalOK', NoneHanded, "tee" \in Goroutines, Kind("tee") = "tee"
    PROVE  /\ st'["tee"].on # {} => st'["tee"].on = st["tee"].on /\ st'["tee"].val = st["tee"].val
           /\ ~cancelled' => st'["tee"].on = st["tee"].on
<1>1. LocalOK("tee", st["tee"]) BY DEF AllLocalOK
<1>2. st["tee"].pc = "send" <=> st["tee"].on # {} BY <1>1 DEF LocalOK
<1>3. Goroutines' = Goroutines BY SameNet DEF NoneHanded
<1>4. st'["tee"].pc = "send" <=> st'["tee"].on # {} BY <1>3 DEF AllLocalOK, LocalOK
<1>5. Kind("tee") # "take" OBVIOUS
<1> QED BY <1>2, <1>4, <1>5 DEF NoneHanded

LEMMA GoneOn ==
    ASSUME StagesInv, Rest, NoneHanded, NEW g \in Goroutines, g \in {"gen1", "gen2"},
           Kind(g) \in {"generate", "source"}
    PROVE  /\ Values[g] \in Seq(Nat)
           /\ Gone(g) \in Nat /\ Gone(g)' \in Nat /\ Gone(g) <= Gone(g)'
           /\ ~cancelled' => Gone(g)' = Gone(g)
<1>1. Values[g] \in Seq(Nat) /\ Gone(g) \in 0 .. Len(Values[g]) /\ Len(Values[g]) \in Nat
  BY NextOf, LenProperties
<1>2. /\ Sends(g)' => Sends(g) /\ st'[g] = st[g]
      /\ ~cancelled' => Sends(g)' = Sends(g)
  BY HeldOn
<1>3. CASE Sends(g)'
  <2>1. Left(g)' = Left(g) BY <1>2, <1>3 DEF Left, Sends
  <2>2. Gone(g)' = Gone(g) BY <2>1 DEF Gone
  <2> QED BY <1>1, <2>2
<1>4. CASE ~Sends(g)'
  <2>1. Left(g)' = 0 BY <1>4 DEF Left, Sends
  <2>2. Gone(g)' = Len(Values[g]) - 0 BY <2>1 DEF Gone
  <2>3. ~cancelled' => Left(g) = 0 BY <1>2, <1>4 DEF Left, Sends
  <2>4. ~cancelled' => Gone(g)' = Gone(g) BY <2>2, <2>3 DEF Gone
  <2> QED BY <1>1, <2>2, <2>4
<1> QED BY <1>3, <1>4

(* Whether stage n holds a value of the line, before the step and after. *)
StillOn(near, near2, n) ==
    /\ near \in BOOLEAN /\ near2 \in BOOLEAN
    /\ near2 => near /\ st'[n].val = st[n].val
    /\ ~cancelled' => near2 = near

Feeds(g) ==
    g \in Goroutines /\ g \in {"gen1", "gen2"} /\ Kind(g) \in {"generate", "source"}

LEMMA FlowsOn ==
    ASSUME StagesInv, Rest, NoneHanded, NEW g, Feeds(g), NEW c \in Consumers,
           NEW near, NEW n, NEW far, NEW f, Flows(g, c, near, n, far, f),
           NEW near2, StillOn(near, near2, n), NEW far2, StillOn(far, far2, f)
    PROVE  Flow(Values[g], Gone(g)', got'[c], near2, st'[n].val, far2, st'[f].val, ~cancelled')
<1>1. /\ Gone(g) \in Nat /\ Gone(g)' \in Nat /\ Gone(g) <= Gone(g)'
      /\ ~cancelled' => Gone(g)' = Gone(g)
  BY GoneOn DEF Feeds
<1>2. got[c] \in Seq(Nat) /\ got' = got BY DEF StagesInv, GotTyped, NoneHanded
<1>3. ~cancelled' => ~cancelled BY DEF NoneHanded
<1>4. Flow(Values[g], Gone(g), got[c], near, st[n].val, far, st[f].val, ~cancelled)
  BY DEF Flows
<1>5. (~cancelled) \in BOOLEAN /\ (~cancelled') \in BOOLEAN OBVIOUS
<1>7. Thinned(Gone(g), near, st[n].val, far, st[f].val, ~cancelled,
              Gone(g)', near2, st'[n].val, far2, st'[f].val, ~cancelled')
  BY <1>1, <1>3, <1>5 DEF Thinned, StillOn
<1>8. Flow(Values[g], Gone(g)', got[c], near2, st'[n].val, far2, st'[f].val, ~cancelled')
  BY <1>2, <1>4, <1>7, FlowKept
<1> QED BY <1>2, <1>8

LEMMA InFlightOn ==
    ASSUME StagesInv, StagesInv', Rest, InFlight, NoneHanded
    PROVE  InFlight'
<1>1. net' = net /\ NetOK /\ AllLocalOK /\ AllLocalOK'
  BY DEF StagesInv, NoneHanded
<1>0. StillOn(FALSE, FALSE, "orDone") /\ StillOn(FALSE, FALSE, "merge1")
      /\ StillOn(FALSE, FALSE, "merge2")
  BY DEF StillOn
<1>2. ASSUME NEW m \in Goroutines, Kind(m) \notin {"take", "tee"}
      PROVE  StillOn(Sends(m), Sends(m)', m)
  <2>1. /\ Sends(m)' => Sends(m) /\ st'[m] = st[m]
        /\ ~cancelled' => ~cancelled /\ Sends(m)' = Sends(m)
    BY <1>2, HeldOn
  <2>2. Sends(m) \in BOOLEAN /\ Sends(m)' \in BOOLEAN BY DEF Sends
  <2> QED BY <2>1, <2>2 DEF StillOn
<1> DEFINE Goes(g, c, near, n, far, f) ==
               Flow(Values[g], Gone(g)', got'[c], near, st'[n].val, far, st'[f].val, ~cancelled')
<1>3. ASSUME net \in {"orDone", "silent"}
      PROVE  Goes("gen1", "con1", Sends("orDone")', "orDone", FALSE, "orDone")
  <2>1. /\ Feeds("gen1") /\ "orDone" \in Goroutines /\ "con1" \in Consumers
        /\ Kind("orDone") = "orDone"
    BY <1>3, OrDoneNet, SilentNet DEF Consumers, AllConsumers, Feeds
  <2>2. StillOn(Sends("orDone"), Sends("orDone")', "orDone") BY <1>2, <2>1
  <2>3. Flows("gen1", "con1", Sends("orDone"), "orDone", FALSE, "orDone")
    BY <1>3 DEF InFlight
  <2> QED BY <1>0, <2>1, <2>2, <2>3, FlowsOn
<1>4. ASSUME net = "fanIn"
      PROVE  /\ Goes("gen1", "con1", Sends("merge1")', "merge1", FALSE, "merge1")
             /\ Goes("gen2", "con1", Sends("merge2")', "merge2", FALSE, "merge2")
  <2>1. /\ Feeds("gen1") /\ Feeds("gen2") /\ {"merge1", "merge2"} \subseteq Goroutines
        /\ "con1" \in Consumers /\ Kind("merge1") = "merge" /\ Kind("merge2") = "merge"
    BY <1>4, FanInNet DEF Consumers, AllConsumers, Feeds
  <2>2. /\ StillOn(Sends("merge1"), Sends("merge1")', "merge1")
        /\ StillOn(Sends("merge2"), Sends("merge2")', "merge2")
    BY <1>2, <2>1
  <2>3. Flows("gen1", "con1", Sends("merge1"), "merge1", FALSE, "merge1")
    BY <1>4, Zenon DEF InFlight
  <2>4. Flows("gen2", "con1", Sends("merge2"), "merge2", FALSE, "merge2")
    BY <1>4, Zenon DEF InFlight
  <2>5. Goes("gen1", "con1", Sends("merge1")', "merge1", FALSE, "merge1")
    BY <1>0, <2>1, <2>2, <2>3, FlowsOn
  <2>6. Goes("gen2", "con1", Sends("merge2")', "merge2", FALSE, "merge2")
    BY <1>0, <2>1, <2>2, <2>4, FlowsOn
  <2> QED BY <2>5, <2>6
<1>5. ASSUME net = "tee"
      PROVE  /\ Goes("gen1", "con1", "x" \in st'["tee"].on, "tee", Sends("orDone")', "orDone")
             /\ Goes("gen1", "con2", "y" \in st'["tee"].on, "tee", Sends("orDone")', "orDone")
  <2>1. /\ Feeds("gen1") /\ {"orDone", "tee"} \subseteq Goroutines
        /\ {"con1", "con2"} \subseteq Consumers
        /\ Kind("orDone") = "orDone" /\ Kind("tee") = "tee"
    BY <1>5, TeeNet DEF Consumers, AllConsumers, Feeds
  <2>2. StillOn(Sends("orDone"), Sends("orDone")', "orDone") BY <1>2, <2>1
  <2>3. ASSUME NEW d PROVE StillOn(d \in st["tee"].on, d \in st'["tee"].on, "tee")
    <3>1. /\ d \in st'["tee"].on => d \in st["tee"].on /\ st'["tee"].val = st["tee"].val
          /\ ~cancelled' => (d \in st'["tee"].on) = (d \in st["tee"].on)
      BY <1>1, <2>1, TeeHeldOn
    <3>2. (d \in st["tee"].on) \in BOOLEAN /\ (d \in st'["tee"].on) \in BOOLEAN OBVIOUS
    <3> QED BY <3>1, <3>2 DEF StillOn
  <2>4. /\ Flows("gen1", "con1", "x" \in st["tee"].on, "tee", Sends("orDone"), "orDone")
        /\ Flows("gen1", "con2", "y" \in st["tee"].on, "tee", Sends("orDone"), "orDone")
    BY <1>5 DEF InFlight
  <2>5. /\ StillOn("x" \in st["tee"].on, "x" \in st'["tee"].on, "tee")
        /\ StillOn("y" \in st["tee"].on, "y" \in st'["tee"].on, "tee")
    BY <2>3
  <2> QED BY <2>1, <2>2, <2>4, <2>5, FlowsOn
<1>6. ASSUME net = "bridge"
      PROVE  /\ Goes("gen1", "con1", Ranges("bridge", "i")', "bridge", Sends("inner1")', "inner1")
             /\ Goes("gen2", "con1", Ranges("bridge", "j")', "bridge", Sends("inner2")', "inner2")
  <2>1. /\ Feeds("gen1") /\ Feeds("gen2")
        /\ {"inner1", "inner2", "bridge"} \subseteq Goroutines /\ "con1" \in Consumers
        /\ Kind("inner1") = "orDone" /\ Kind("inner2") = "orDone" /\ Kind("bridge") = "bridge"
    BY <1>6, BridgeNet DEF Consumers, AllConsumers, Feeds
  <2>2. /\ StillOn(Sends("inner1"), Sends("inner1")', "inner1")
        /\ StillOn(Sends("inner2"), Sends("inner2")', "inner2")
    BY <1>2, <2>1
  <2>3. ASSUME NEW d PROVE StillOn(Ranges("bridge", d), Ranges("bridge", d)', "bridge")
    <3>1. /\ Sends("bridge")' => Sends("bridge") /\ st'["bridge"] = st["bridge"]
          /\ ~cancelled' => ~cancelled /\ Sends("bridge")' = Sends("bridge")
      BY <2>1, HeldOn
    <3>2. Ranges("bridge", d) \in BOOLEAN /\ Ranges("bridge", d)' \in BOOLEAN BY DEF Ranges
    <3>3. Ranges("bridge", d)' => Ranges("bridge", d) /\ st'["bridge"].val = st["bridge"].val
      BY <3>1 DEF Ranges
    <3>4. ~cancelled' => (Ranges("bridge", d) => Ranges("bridge", d)')
      BY <3>1 DEF Ranges
    <3> QED BY <3>2, <3>3, <3>4 DEF StillOn
  <2>4. /\ Flows("gen1", "con1", Ranges("bridge", "i"), "bridge", Sends("inner1"), "inner1")
        /\ Flows("gen2", "con1", Ranges("bridge", "j"), "bridge", Sends("inner2"), "inner2")
    BY <1>6 DEF InFlight
  <2>5. /\ StillOn(Ranges("bridge", "i"), Ranges("bridge", "i")', "bridge")
        /\ StillOn(Ranges("bridge", "j"), Ranges("bridge", "j")', "bridge")
    BY <2>3
  <2> QED BY <2>1, <2>2, <2>4, <2>5, FlowsOn
<1> QED BY <1>1, <1>3, <1>4, <1>5, <1>6 DEF InFlight, Flows

-----------------------------------------------------------------------------
(* InFlight, by a value handed over *)

(* The stage that receives it holds it, *)
LEMMA Picked ==
    ASSUME StagesInv, NEW s \in Goroutines, NEW r \in Goroutines, NEW k, Transfer(s, r, k),
           Kind(r) \in {"orDone", "merge", "tee", "bridge"}, ~BridgeLists(r)
    PROVE  /\ st[r].pc = "recv" /\ st[r].on = {}
           /\ st'[r].pc = "send" /\ st'[r].val = st[s].val /\ st'[r].on = Out(r)
           /\ st'[r].from = st[r].from
           /\ got' = got
<1>1. Handed(s, r, k) BY HandedOn
<1>2. LocalOK(r, st[r]) /\ st[r] \in LocalStates
  BY DEF StagesInv, AllLocalOK, LocalOK, LocalStates
<1>3. st'[r] = Received(r, st[s].val) BY <1>1 DEF Handed
<1>4. Received(r, st[s].val)
        = [st[r] EXCEPT !.pc = "send", !.val = st[s].val, !.on = Out(r),
                        !.n = IF Kind(r) = "tee" THEN TeeRounds ELSE @]
  BY DEF Received
<1>5. /\ st'[r].pc = "send" /\ st'[r].val = st[s].val /\ st'[r].on = Out(r)
      /\ st'[r].from = st[r].from
  BY <1>2, <1>3, <1>4 DEF LocalStates
<1>6. st[r].pc = "recv" /\ got' = got BY <1>1 DEF Handed
<1>7. st[r].on = {} BY <1>2, <1>6 DEF LocalOK
<1> QED BY <1>5, <1>6, <1>7

(* and the one that handed it over no longer does. *)
LEMMA HandedOff ==
    ASSUME StagesInv, NEW s \in Goroutines, NEW r \in Goroutines, NEW k, Transfer(s, r, k),
           Kind(s) \in {"orDone", "merge", "bridge"}
    PROVE  st[s].pc = "send" /\ st'[s].pc = "recv" /\ st'[s].val = st[s].val
<1>1. Handed(s, r, k) BY HandedOn
<1>2. st[s] \in LocalStates BY DEF StagesInv, AllLocalOK, LocalOK, LocalStates
<1>3. st'[s] = Resumed(st[s]) /\ st[s].pc = "send" BY <1>1 DEF Handed, Sent
<1> QED BY <1>2, <1>3 DEF Resumed, LocalStates

(* Only its own hand-over takes a generator forward. *)
LEMMA GoneStays ==
    ASSUME StagesInv, Rest, NEW g, Feeds(g), NEW s \in Goroutines, NEW r \in Goroutines,
           NEW k, Transfer(s, r, k), g # s
    PROVE  Gone(g)' = Gone(g)
<1>1. NetOK /\ AllLocalOK /\ Unborn /\ Handed(s, r, k) BY HandedOn DEF StagesInv
<1>2. g # r BY <1>1 DEF Handed, Feeds
<1>3. \/ st'[g] = st[g]
      \/ st'[g] = Receiving(g, st[g]) /\ BridgeLists(r) /\ g = Inner[st[s].val]
  BY <1>1, <1>2, TransferMoves DEF Feeds
<1>4. BridgeLists(r) => Inner[st[s].val] \in {"inner1", "inner2"}
  BY <1>1, TransferEnds DEF Transfer
<1>5. st'[g] = st[g] BY <1>3, <1>4 DEF Feeds
<1> QED BY <1>5 DEF Gone, Left

(* The line after the step. *)
Goes(g, c, near, n, far, f) ==
    Flow(Values[g], Gone(g)', got'[c], near, st'[n].val, far, st'[f].val, ~cancelled')

LEMMA FlowsFed ==
    ASSUME StagesInv, Rest, NEW g, Feeds(g), NEW r \in Goroutines, NEW k, Transfer(g, r, k),
           Kind(r) = "orDone", NEW c \in Consumers,
           NEW near \in BOOLEAN, NEW n, st'[n].val = st[n].val,
           NEW far, far = FALSE, Flows(g, c, near, n, far, r), NEW far2, far2 = TRUE
    PROVE  Goes(g, c, near, n, far2, r)
<1>1. /\ Gone(g) \in Nat /\ st[g].val = Values[g][Gone(g) + 1]
      /\ Gone(g)' = Gone(g) + 1
  BY NextOf DEF Feeds
<1>2. ~BridgeLists(r) BY DEF BridgeLists
<1>3. st'[r].val = st[g].val /\ got' = got BY <1>2, Picked DEF Feeds
<1>4. got[c] \in Seq(Nat) BY DEF StagesInv, GotTyped
<1>5. cancelled' = cancelled BY DEF Transfer
<1>6. Flow(Values[g], Gone(g), got[c], near, st[n].val, FALSE, st[r].val, ~cancelled)
  BY DEF Flows
<1>7. Flow(Values[g], Gone(g) + 1, got[c], near, st[n].val, TRUE, Values[g][Gone(g) + 1], ~cancelled)
  BY <1>1, <1>4, <1>6, FlowFed
<1> QED BY <1>1, <1>3, <1>5, <1>7 DEF Goes

LEMMA FlowsFedNear ==
    ASSUME StagesInv, Rest, NEW g, Feeds(g), NEW r \in Goroutines, NEW k, Transfer(g, r, k),
           Kind(r) \in {"orDone", "merge"}, NEW c \in Consumers,
           NEW near, near = FALSE, Flows(g, c, near, r, FALSE, r), NEW near2, near2 = TRUE
    PROVE  Goes(g, c, near2, r, FALSE, r)
<1>1. /\ Gone(g) \in Nat /\ Gone(g)' = Gone(g) + 1 /\ st[g].val = Values[g][Gone(g) + 1]
  BY NextOf DEF Feeds
<1>2. ~BridgeLists(r) BY DEF BridgeLists
<1>3. st'[r].val = st[g].val /\ got' = got BY <1>2, Picked DEF Feeds
<1>4. got[c] \in Seq(Nat) BY DEF StagesInv, GotTyped
<1>5. cancelled' = cancelled BY DEF Transfer
<1>6. Flow(Values[g], Gone(g), got[c], FALSE, st[r].val, FALSE, st[r].val, ~cancelled)
  BY DEF Flows
<1>7. Flow(Values[g], Gone(g) + 1, got[c], FALSE, st[r].val, TRUE, Values[g][Gone(g) + 1], ~cancelled)
  BY <1>1, <1>4, <1>6, FlowFed
<1>9. Gone(g) + 1 \in Nat /\ (~cancelled) \in BOOLEAN BY <1>1
<1>8. Flow(Values[g], Gone(g) + 1, got[c], TRUE, Values[g][Gone(g) + 1], FALSE, st'[r].val, ~cancelled)
  BY ONLY <1>9, <1>4, <1>7, FlowPassed
<1> QED BY <1>1, <1>3, <1>5, <1>8 DEF Goes

LEMMA FlowsPassed ==
    ASSUME StagesInv, Rest, NEW g, Feeds(g), NEW s \in Goroutines, NEW r \in Goroutines,
           NEW k, Transfer(s, r, k), Kind(s) = "orDone",
           Kind(r) \in {"tee", "bridge"}, ~BridgeLists(r), NEW c \in Consumers,
           NEW near, near = FALSE, NEW far, far = TRUE, Flows(g, c, near, r, far, s),
           NEW near2, near2 = TRUE, NEW far2, far2 = FALSE
    PROVE  Goes(g, c, near2, r, far2, s)
<1>1. Gone(g) \in Nat /\ Gone(g)' = Gone(g)
  BY NextOf, GoneStays DEF Feeds
<1>2. st'[r].val = st[s].val /\ got' = got BY Picked
<1>3. got[c] \in Seq(Nat) BY DEF StagesInv, GotTyped
<1>4. cancelled' = cancelled BY DEF Transfer
<1>5. Flow(Values[g], Gone(g), got[c], FALSE, st[r].val, TRUE, st[s].val, ~cancelled)
  BY DEF Flows
<1>6. Flow(Values[g], Gone(g), got[c], TRUE, st[s].val, FALSE, st'[s].val, ~cancelled)
  BY <1>1, <1>3, <1>5, FlowPassed
<1> QED BY <1>1, <1>2, <1>4, <1>6 DEF Goes

LEMMA FlowsDelivered ==
    ASSUME StagesInv, Rest, NEW g, Feeds(g), NEW s \in Goroutines, NEW c \in Consumers,
           NEW k, Transfer(s, c, k), g # s, Kind(c) = "consumer",
           NEW near, near = TRUE, NEW far \in BOOLEAN, NEW f, st'[f].val = st[f].val,
           Flows(g, c, near, s, far, f), NEW near2, near2 = FALSE
    PROVE  Goes(g, c, near2, s, far, f) /\ st[s].val \in Range(Values[g])
<1>0. c \in Goroutines BY DEF Consumers
<1>1. Gone(g) \in 0 .. Len(Values[g]) /\ Gone(g)' = Gone(g) /\ Values[g] \in Seq(Nat)
  BY <1>0, NextOf, GoneStays DEF Feeds
<1>2. got'[c] = Append(got[c], st[s].val) BY <1>0, HandedOn DEF Handed
<1>3. got[c] \in Seq(Nat) /\ st[s].val \in Nat BY DEF StagesInv, GotTyped, AllLocalOK, LocalOK
<1>4. cancelled' = cancelled BY DEF Transfer
<1>5. Flow(Values[g], Gone(g), got[c], TRUE, st[s].val, far, st[f].val, ~cancelled)
  BY DEF Flows
<1>6. /\ Flow(Values[g], Gone(g), Append(got[c], st[s].val), FALSE, st'[s].val, far, st[f].val,
              ~cancelled)
      /\ st[s].val \in Range(Values[g])
  <2>1. (~cancelled) \in BOOLEAN OBVIOUS
  <2> DEFINE l == ~cancelled
  <2> HIDE DEF l
  <2>2. l \in BOOLEAN /\ far \in BOOLEAN BY <2>1 DEF l
  <2>3. Flow(Values[g], Gone(g), got[c], TRUE, st[s].val, far, st[f].val, l) BY <1>5 DEF l
  <2>5. Flow(Values[g], Gone(g), Append(got[c], st[s].val), FALSE, st'[s].val, far,
             st[f].val, l)
    BY ONLY <1>1, <1>3, <2>2, <2>3, FlowDelivered
  <2>4. st[s].val \in Range(Values[g])
    BY ONLY <1>1, <1>3, <2>2, <2>3, NearInRange
  <2> QED BY <2>4, <2>5 DEF l
<1> QED BY <1>1, <1>2, <1>4, <1>6 DEF Goes

LEMMA FlowsPast ==
    ASSUME StagesInv, Rest, NEW g, Feeds(g), NEW s \in Goroutines, NEW c \in Consumers,
           NEW k, Transfer(s, c, k), g # s, Kind(c) = "consumer",
           NEW near \in BOOLEAN, NEW n, st'[n].val = st[n].val,
           NEW far \in BOOLEAN, NEW f, st'[f].val = st[f].val,
           Flows(g, c, near, n, far, f), st[s].val \notin Range(Values[g])
    PROVE  Goes(g, c, near, n, far, f)
<1>0. c \in Goroutines BY DEF Consumers
<1>1. Gone(g) \in Nat /\ Gone(g)' = Gone(g)
  BY <1>0, NextOf, GoneStays DEF Feeds
<1>2. got'[c] = Append(got[c], st[s].val) BY <1>0, HandedOn DEF Handed
<1>3. got[c] \in Seq(Nat) /\ st[s].val \in Nat BY DEF StagesInv, GotTyped, AllLocalOK, LocalOK
<1>4. cancelled' = cancelled BY DEF Transfer
<1>5. Flow(Values[g], Gone(g), got[c], near, st[n].val, far, st[f].val, ~cancelled)
  BY DEF Flows
<1>6. Flow(Values[g], Gone(g), Append(got[c], st[s].val), near, st[n].val, far, st[f].val,
           ~cancelled)
  <2> DEFINE l == ~cancelled
  <2> HIDE DEF l
  <2>2. l \in BOOLEAN /\ far \in BOOLEAN /\ near \in BOOLEAN BY DEF l
  <2>3. Flow(Values[g], Gone(g), got[c], near, st[n].val, far, st[f].val, l) BY <1>5 DEF l
  <2>4. st[s].val \in Nat /\ st[s].val \notin Range(Values[g]) BY <1>3
  <2>5. Flow(Values[g], Gone(g), Append(got[c], st[s].val), near, st[n].val, far, st[f].val, l)
    BY ONLY <1>1, <1>3, <2>2, <2>3, <2>4, FlowPast
  <2> QED BY <2>5 DEF l
<1> QED BY <1>1, <1>2, <1>4, <1>6 DEF Goes

LEMMA FlowsStill ==
    ASSUME StagesInv, Rest, NEW g, Feeds(g), NEW s \in Goroutines, NEW r \in Goroutines,
           NEW k, Transfer(s, r, k), g # s, NEW c \in Consumers, got'[c] = got[c],
           NEW near, NEW n, NEW far, NEW f, Flows(g, c, near, n, far, f),
           NEW near2, StillOn(near, near2, n), NEW far2, StillOn(far, far2, f)
    PROVE  Goes(g, c, near2, n, far2, f)
<1>1. Gone(g) \in Nat /\ Gone(g)' = Gone(g)
  BY NextOf, GoneStays DEF Feeds
<1>3. got[c] \in Seq(Nat) BY DEF StagesInv, GotTyped
<1>4. cancelled' = cancelled BY DEF Transfer
<1>5. Flow(Values[g], Gone(g), got[c], near, st[n].val, far, st[f].val, ~cancelled)
  BY DEF Flows
<1>6. (~cancelled) \in BOOLEAN OBVIOUS
<1>7. Thinned(Gone(g), near, st[n].val, far, st[f].val, ~cancelled,
              Gone(g), near2, st'[n].val, far2, st'[f].val, ~cancelled)
  BY <1>1, <1>4, <1>6 DEF Thinned, StillOn
<1>8. Flow(Values[g], Gone(g), got[c], near2, st'[n].val, far2, st'[f].val, ~cancelled)
  BY <1>3, <1>5, <1>7, FlowKept
<1> QED BY <1>1, <1>4, <1>8 DEF Goes

LEMMA OrDoneFlows ==
    ASSUME StagesInv, Rest, InFlight, net \in {"orDone", "silent"},
           NEW s \in Goroutines, NEW r \in Goroutines, NEW k, Transfer(s, r, k)
    PROVE  Goes("gen1", "con1", Sends("orDone")', "orDone", FALSE, "orDone")
<1>1. /\ Goroutines = {"gen1", "orDone", "con1"} /\ Consumers = {"con1"}
      /\ Kind("gen1") \in {"generate", "source"} /\ Kind("orDone") = "orDone"
      /\ Kind("con1") = "consumer"
      /\ Out("gen1") = {"a"} /\ Out("orDone") = {"x"}
      /\ In("orDone") = {"a"} /\ In("con1") = {"x"}
  BY OrDoneNet, SilentNet DEF Consumers, AllConsumers
<1>2. Handed(s, r, k) BY HandedOn
<1>3. Feeds("gen1") BY <1>1 DEF Feeds
<1>4. Flows("gen1", "con1", Sends("orDone"), "orDone", FALSE, "orDone") BY DEF InFlight
<1>5. CASE s = "gen1" /\ r = "orDone"
  <2>1. ~BridgeLists(r) BY <1>1, <1>5 DEF BridgeLists
  <2>2. Sends("orDone") = FALSE /\ Sends("orDone")' = TRUE
    BY <1>1, <1>5, <2>1, Picked DEF Sends
  <2> QED BY <1>1, <1>3, <1>4, <1>5, <2>2, FlowsFedNear
<1>6. CASE s = "orDone" /\ r = "con1"
  <2>1. Sends("orDone") = TRUE /\ Sends("orDone")' = FALSE /\ st'["orDone"].val = st["orDone"].val
    BY <1>1, <1>6, HandedOff DEF Sends
  <2> QED BY <1>1, <1>3, <1>4, <1>6, <2>1, FlowsDelivered
<1>7. (s = "gen1" /\ r = "orDone") \/ (s = "orDone" /\ r = "con1")
  BY <1>1, <1>2 DEF Handed
<1> QED BY <1>5, <1>6, <1>7

(* FanIn: the two lines go past each other at the consumer. *)
LEMMA FanInFlows ==
    ASSUME StagesInv, Rest, InFlight, net = "fanIn",
           NEW s \in Goroutines, NEW r \in Goroutines, NEW k, Transfer(s, r, k)
    PROVE  /\ Goes("gen1", "con1", Sends("merge1")', "merge1", FALSE, "merge1")
           /\ Goes("gen2", "con1", Sends("merge2")', "merge2", FALSE, "merge2")
<1>1. /\ Goroutines = {"gen1", "gen2", "merge1", "merge2", "joiner", "con1"}
      /\ Consumers = {"con1"}
      /\ Kind("gen1") = "generate" /\ Kind("gen2") = "generate"
      /\ Kind("merge1") = "merge" /\ Kind("merge2") = "merge"
      /\ Kind("joiner") = "joiner" /\ Kind("con1") = "consumer"
      /\ Out("gen1") = {"a"} /\ Out("gen2") = {"b"}
      /\ Out("merge1") = {"x"} /\ Out("merge2") = {"x"}
      /\ In("merge1") = {"a"} /\ In("merge2") = {"b"} /\ In("con1") = {"x"}
  BY FanInNet DEF Consumers, AllConsumers
<1>2. Handed(s, r, k) BY HandedOn
<1>3. Feeds("gen1") /\ Feeds("gen2") BY <1>1 DEF Feeds
<1>4. Flows("gen1", "con1", Sends("merge1"), "merge1", FALSE, "merge1")
  BY Zenon DEF InFlight
<1>5. Flows("gen2", "con1", Sends("merge2"), "merge2", FALSE, "merge2")
  BY Zenon DEF InFlight
<1>6. ~BridgeLists(r) BY <1>1 DEF BridgeLists
<1>7. ASSUME NEW m \in {"merge1", "merge2"}, m # s, m # r
      PROVE  StillOn(Sends(m), Sends(m)', m) /\ Sends(m)' = Sends(m) /\ st'[m].val = st[m].val
  <2>1. st'[m] = st[m] BY <1>1, <1>2, <1>6, <1>7 DEF Handed
  <2>2. Sends(m) \in BOOLEAN /\ Sends(m)' = Sends(m) BY <2>1 DEF Sends
  <2> QED BY <2>1, <2>2 DEF StillOn
<1>8. StillOn(FALSE, FALSE, "merge1") /\ StillOn(FALSE, FALSE, "merge2") BY DEF StillOn
<1>9. CASE s = "gen1" /\ r = "merge1"
  <2>1. Sends("merge1") = FALSE /\ Sends("merge1")' = TRUE
    BY <1>1, <1>6, <1>9, Picked DEF Sends
  <2>2. Goes("gen1", "con1", Sends("merge1")', "merge1", FALSE, "merge1")
    BY <1>1, <1>3, <1>4, <1>9, <2>1, FlowsFedNear
  <2>3. got'["con1"] = got["con1"] BY <1>1, <1>2, <1>9 DEF Handed
  <2>4. Goes("gen2", "con1", Sends("merge2")', "merge2", FALSE, "merge2")
    BY <1>1, <1>3, <1>5, <1>7, <1>8, <1>9, <2>3, FlowsStill
  <2> QED BY <2>2, <2>4
<1>10. CASE s = "gen2" /\ r = "merge2"
  <2>1. Sends("merge2") = FALSE /\ Sends("merge2")' = TRUE
    BY <1>1, <1>6, <1>10, Picked DEF Sends
  <2>2. Goes("gen2", "con1", Sends("merge2")', "merge2", FALSE, "merge2")
    BY <1>1, <1>3, <1>5, <1>10, <2>1, FlowsFedNear
  <2>3. got'["con1"] = got["con1"] BY <1>1, <1>2, <1>10 DEF Handed
  <2>4. Goes("gen1", "con1", Sends("merge1")', "merge1", FALSE, "merge1")
    BY <1>1, <1>3, <1>4, <1>7, <1>8, <1>10, <2>3, FlowsStill
  <2> QED BY <2>2, <2>4
<1>11. CASE s = "merge1" /\ r = "con1"
  <2>1. Sends("merge1") = TRUE /\ Sends("merge1")' = FALSE /\ st'["merge1"].val = st["merge1"].val
    BY <1>1, <1>11, HandedOff DEF Sends
  <2>2. Goes("gen1", "con1", Sends("merge1")', "merge1", FALSE, "merge1")
        /\ st["merge1"].val \in Range(Values["gen1"])
    BY <1>1, <1>3, <1>4, <1>11, <2>1, FlowsDelivered
  <2>3. st["merge1"].val \notin Range(Values["gen2"]) BY <2>2, ConstantsAssumption
  <2>4. Sends("merge2") \in BOOLEAN BY DEF Sends
  <2>5. Sends("merge2")' = Sends("merge2") /\ st'["merge2"].val = st["merge2"].val BY <1>7, <1>11
  <2>6. Goes("gen2", "con1", Sends("merge2"), "merge2", FALSE, "merge2")
    BY <1>1, <1>3, <1>5, <1>11, <2>3, <2>4, <2>5, FlowsPast
  <2> QED BY <2>2, <2>5, <2>6
<1>12. CASE s = "merge2" /\ r = "con1"
  <2>1. Sends("merge2") = TRUE /\ Sends("merge2")' = FALSE /\ st'["merge2"].val = st["merge2"].val
    BY <1>1, <1>12, HandedOff DEF Sends
  <2>2. Goes("gen2", "con1", Sends("merge2")', "merge2", FALSE, "merge2")
        /\ st["merge2"].val \in Range(Values["gen2"])
    BY <1>1, <1>3, <1>5, <1>12, <2>1, FlowsDelivered
  <2>3. st["merge2"].val \notin Range(Values["gen1"]) BY <2>2, ConstantsAssumption
  <2>4. Sends("merge1") \in BOOLEAN BY DEF Sends
  <2>5. Sends("merge1")' = Sends("merge1") /\ st'["merge1"].val = st["merge1"].val BY <1>7, <1>12
  <2>6. Goes("gen1", "con1", Sends("merge1"), "merge1", FALSE, "merge1")
    BY <1>1, <1>3, <1>4, <1>12, <2>3, <2>4, <2>5, FlowsPast
  <2> QED BY <2>2, <2>5, <2>6
<1> QED
  <2>1. \/ s = "gen1" /\ r = "merge1"
        \/ s = "gen2" /\ r = "merge2"
        \/ s = "merge1" /\ r = "con1"
        \/ s = "merge2" /\ r = "con1"
    BY <1>1, <1>2 DEF Handed
  <2> QED BY <1>9, <1>10, <1>11, <1>12, <2>1

(* Tee: two lines, of which the second consumer's waits for its copy. *)
LEMMA TeeServes ==
    ASSUME StagesInv, NothingLost, net = "tee",
           NEW s \in Goroutines, NEW r \in Goroutines, NEW k, Transfer(s, r, k), s = "tee"
    PROVE  /\ r \in {"con1", "con2"} /\ k = (IF r = "con1" THEN "x" ELSE "y")
           /\ k \in st["tee"].on /\ k \notin st'["tee"].on
           /\ st'["tee"].val = st["tee"].val
           /\ \A d : d \in st'["tee"].on => d \in st["tee"].on
           /\ ~cancelled => st'["tee"].on = st["tee"].on \ {k}
<1>1. /\ Goroutines = {"gen1", "orDone", "tee", "con1", "con2"}
      /\ Kind("gen1") = "generate" /\ Kind("orDone") = "orDone" /\ Kind("tee") = "tee"
      /\ Out("tee") = {"x", "y"}
      /\ In("orDone") = {"a"} /\ In("tee") = {"m"} /\ In("con1") = {"x"} /\ In("con2") = {"y"}
      /\ Kind("con1") = "consumer" /\ Kind("con2") = "consumer"
  BY TeeNet
<1>2. Handed(s, r, k) BY HandedOn
<1>3. LocalOK("tee", st["tee"]) /\ st["tee"] \in LocalStates
  BY <1>1 DEF StagesInv, AllLocalOK, LocalOK, LocalStates
<1> DEFINE t == st["tee"]
<1>4. /\ r \in {"con1", "con2"} /\ k = (IF r = "con1" THEN "x" ELSE "y")
      /\ k \in t.on /\ t.pc = "send"
  BY <1>1, <1>2 DEF Handed
<1>5. st'["tee"] = TeeRound([t EXCEPT !.on = @ \ {k}])
  BY <1>1, <1>2 DEF Handed, Sent, Served
<1>6. CASE t.n = 1
  <2>1. st'["tee"].on = {} /\ st'["tee"].val = t.val
    BY <1>3, <1>5, <1>6 DEF TeeRound, LocalStates
  <2>2. ~cancelled => Copies BY DEF NothingLost
  <2>3. ~cancelled => t.on = {"x"} \/ t.on = {"y"}
    BY <1>4, <1>6, <2>2 DEF Copies
  <2>4. ~cancelled => st'["tee"].on = t.on \ {k} BY <1>4, <2>1, <2>3
  <2> QED BY <1>4, <2>1, <2>4
<1>7. CASE t.n # 1
  <2>1. st'["tee"].on = t.on \ {k} /\ st'["tee"].val = t.val
    BY <1>3, <1>5, <1>7 DEF TeeRound, LocalStates
  <2> QED BY <1>4, <2>1
<1> QED BY <1>6, <1>7

LEMMA TeeFlows ==
    ASSUME StagesInv, NothingLost, Rest, InFlight, net = "tee",
           NEW s \in Goroutines, NEW r \in Goroutines, NEW k, Transfer(s, r, k)
    PROVE  /\ Goes("gen1", "con1", "x" \in st'["tee"].on, "tee", Sends("orDone")', "orDone")
           /\ Goes("gen1", "con2", "y" \in st'["tee"].on, "tee", Sends("orDone")', "orDone")
<1>1. /\ Goroutines = {"gen1", "orDone", "tee", "con1", "con2"}
      /\ Consumers = {"con1", "con2"}
      /\ Kind("gen1") = "generate" /\ Kind("orDone") = "orDone" /\ Kind("tee") = "tee"
      /\ Kind("con1") = "consumer" /\ Kind("con2") = "consumer"
      /\ Out("gen1") = {"a"} /\ Out("orDone") = {"m"} /\ Out("tee") = {"x", "y"}
      /\ In("orDone") = {"a"} /\ In("tee") = {"m"} /\ In("con1") = {"x"} /\ In("con2") = {"y"}
  BY TeeNet DEF Consumers, AllConsumers
<1>2. Handed(s, r, k) BY HandedOn
<1>3. Feeds("gen1") BY <1>1 DEF Feeds
<1>4. /\ Flows("gen1", "con1", "x" \in st["tee"].on, "tee", Sends("orDone"), "orDone")
      /\ Flows("gen1", "con2", "y" \in st["tee"].on, "tee", Sends("orDone"), "orDone")
  BY DEF InFlight
<1>5. ~BridgeLists(r) BY <1>1 DEF BridgeLists
<1>6. ASSUME s = "gen1", r = "orDone", NEW c \in Consumers, NEW d,
             Flows("gen1", c, d \in st["tee"].on, "tee", Sends("orDone"), "orDone")
      PROVE  Goes("gen1", c, d \in st'["tee"].on, "tee", Sends("orDone")', "orDone")
  <2>1. Sends("orDone") = FALSE /\ Sends("orDone")' = TRUE
    BY <1>1, <1>5, <1>6, Picked DEF Sends
  <2>2. st'["tee"] = st["tee"] BY <1>1, <1>2, <1>5, <1>6 DEF Handed
  <2> DEFINE near == d \in st["tee"].on
             far == Sends("orDone")
             far2 == Sends("orDone")'
  <2>3. near \in BOOLEAN /\ far = FALSE /\ far2 = TRUE /\ st'["tee"].val = st["tee"].val
    BY <2>1, <2>2
  <2>4. Flows("gen1", c, near, "tee", far, "orDone") BY <1>6
  <2>6. Transfer("gen1", "orDone", k) /\ "orDone" \in Goroutines /\ Kind("orDone") = "orDone"
    BY <1>1, <1>6
  <2> HIDE DEF near, far, far2
  <2>5. Goes("gen1", c, near, "tee", far2, "orDone")
    BY <1>3, <2>3, <2>4, <2>6, FlowsFed
  <2> QED BY <2>2, <2>5 DEF near, far2
<1>7. ASSUME s = "orDone", r = "tee", NEW c \in Consumers, NEW d \in {"x", "y"},
             Flows("gen1", c, d \in st["tee"].on, "tee", Sends("orDone"), "orDone")
      PROVE  Goes("gen1", c, d \in st'["tee"].on, "tee", Sends("orDone")', "orDone")
  <2>1. Sends("orDone") = TRUE /\ Sends("orDone")' = FALSE
    BY <1>1, <1>7, HandedOff DEF Sends
  <2>2. (d \in st["tee"].on) = FALSE /\ (d \in st'["tee"].on) = TRUE
    BY <1>1, <1>5, <1>7, Picked
  <2> QED BY <1>1, <1>3, <1>5, <1>7, <2>1, <2>2, FlowsPassed
<1>8. ASSUME s = "tee", NEW c \in Consumers, NEW d, d = (IF c = "con1" THEN "x" ELSE "y"),
             Flows("gen1", c, d \in st["tee"].on, "tee", Sends("orDone"), "orDone")
      PROVE  Goes("gen1", c, d \in st'["tee"].on, "tee", Sends("orDone")', "orDone")
  <2>1. /\ r \in {"con1", "con2"} /\ k = (IF r = "con1" THEN "x" ELSE "y")
        /\ k \in st["tee"].on /\ k \notin st'["tee"].on
        /\ st'["tee"].val = st["tee"].val
        /\ \A e : e \in st'["tee"].on => e \in st["tee"].on
        /\ ~cancelled => st'["tee"].on = st["tee"].on \ {k}
    BY <1>8, TeeServes
  <2>2. st'["orDone"] = st["orDone"] BY <1>1, <1>2, <1>5, <1>8, <2>1 DEF Handed
  <2>3. Sends("orDone") \in BOOLEAN /\ Sends("orDone")' = Sends("orDone")
        /\ st'["orDone"].val = st["orDone"].val
    BY <2>2 DEF Sends
  <2>4. CASE c = r
    <3>1. (d \in st["tee"].on) = TRUE /\ (d \in st'["tee"].on) = FALSE BY <1>8, <2>1, <2>4
    <3> DEFINE near == d \in st["tee"].on
               near2 == d \in st'["tee"].on
               far == Sends("orDone")
    <3>2. near = TRUE /\ near2 = FALSE /\ far \in BOOLEAN BY <2>3, <3>1
    <3>3. Flows("gen1", c, near, "tee", far, "orDone") BY <1>8
    <3>4. c \in Goroutines /\ Kind(c) = "consumer" /\ "tee" \in Goroutines BY <1>1
    <3>5. Transfer("tee", c, k) BY <1>8, <2>4
    <3> HIDE DEF near, near2, far
    <3>6. Goes("gen1", c, near2, "tee", far, "orDone")
      BY <1>3, <2>3, <3>2, <3>3, <3>4, <3>5, FlowsDelivered
    <3> QED BY <2>3, <3>6 DEF near2, far
  <2>5. CASE c # r
    <3>1. got'[c] = got[c] BY <1>2, <2>5 DEF Handed
    <3>2. d # k BY <1>1, <1>8, <2>1, <2>5
    <3>3. cancelled' = cancelled BY DEF Transfer
    <3>4. ~cancelled => (d \in st'["tee"].on) = (d \in st["tee"].on) BY <2>1, <3>2
    <3>5. StillOn(d \in st["tee"].on, d \in st'["tee"].on, "tee")
      <4>1. (d \in st["tee"].on) \in BOOLEAN /\ (d \in st'["tee"].on) \in BOOLEAN OBVIOUS
      <4> QED BY <2>1, <3>3, <3>4, <4>1 DEF StillOn
    <3>6. StillOn(Sends("orDone"), Sends("orDone")', "orDone") BY <2>3 DEF StillOn
    <3> QED BY <1>1, <1>3, <1>8, <3>1, <3>5, <3>6, FlowsStill
  <2> QED BY <2>4, <2>5
<1>9. \/ s = "gen1" /\ r = "orDone"
      \/ s = "orDone" /\ r = "tee"
      \/ s = "tee"
  BY <1>1, <1>2 DEF Handed
<1>10. CASE s = "gen1" /\ r = "orDone" BY <1>1, <1>4, <1>6, <1>10
<1>11. CASE s = "orDone" /\ r = "tee" BY <1>1, <1>4, <1>7, <1>11
<1>12. CASE s = "tee" BY <1>1, <1>4, <1>8, <1>12
<1> QED BY <1>9, <1>10, <1>11, <1>12

LEMMA Unmoved ==
    ASSUME NEW n, st'[n] = st[n]
    PROVE  /\ StillOn(Sends(n), Sends(n)', n)
           /\ \A d : StillOn(Ranges(n, d), Ranges(n, d)', n)
<1>1. Sends(n) \in BOOLEAN /\ Sends(n)' = Sends(n) BY DEF Sends
<1>2. ASSUME NEW d PROVE Ranges(n, d) \in BOOLEAN /\ Ranges(n, d)' = Ranges(n, d)
  BY DEF Ranges, Sends
<1> QED BY <1>1, <1>2 DEF StillOn

(* Bridge: the values of the stream it ranges over. *)
LEMMA BridgeFlows ==
    ASSUME StagesInv, Rest, InFlight, net = "bridge",
           NEW s \in Goroutines, NEW r \in Goroutines, NEW k, Transfer(s, r, k)
    PROVE  /\ Goes("gen1", "con1", Ranges("bridge", "i")', "bridge", Sends("inner1")', "inner1")
           /\ Goes("gen2", "con1", Ranges("bridge", "j")', "bridge", Sends("inner2")', "inner2")
<1>1. /\ Goroutines = {"gen1", "gen2", "lister", "bridge", "inner1", "inner2", "con1"}
      /\ Consumers = {"con1"}
      /\ Kind("gen1") = "generate" /\ Kind("gen2") = "generate"
      /\ Kind("inner1") = "orDone" /\ Kind("inner2") = "orDone"
      /\ Kind("bridge") = "bridge" /\ Kind("con1") = "consumer"
  BY BridgeNet DEF Consumers, AllConsumers
<1>2. Handed(s, r, k) BY HandedOn
<1>3. Feeds("gen1") /\ Feeds("gen2") BY <1>1 DEF Feeds
<1>4. Flows("gen1", "con1", Ranges("bridge", "i"), "bridge", Sends("inner1"), "inner1")
  BY DEF InFlight
<1>5. Flows("gen2", "con1", Ranges("bridge", "j"), "bridge", Sends("inner2"), "inner2")
  BY DEF InFlight
<1>6. ASSUME s = "gen1", r = "inner1"
       PROVE  /\ Goes("gen1", "con1", Ranges("bridge", "i")', "bridge", Sends("inner1")', "inner1")
              /\ Goes("gen2", "con1", Ranges("bridge", "j")', "bridge", Sends("inner2")', "inner2")
  <2>0. ~BridgeLists(r) BY <1>1, <1>6 DEF BridgeLists
  <2>1. /\ got'["con1"] = got["con1"] /\ st'["bridge"] = st["bridge"]
        /\ st'["inner2"] = st["inner2"]
    BY <1>1, <1>2, <1>6, <2>0 DEF Handed
  <2>2. Sends("inner1") = FALSE /\ Sends("inner1")' = TRUE
    BY <1>1, <1>6, <2>0, Picked DEF Sends
  <2>3. Ranges("bridge", "i")' = Ranges("bridge", "i") /\ Ranges("bridge", "i") \in BOOLEAN
    BY <2>1 DEF Ranges, Sends
  <2>4. Goes("gen1", "con1", Ranges("bridge", "i"), "bridge", Sends("inner1")', "inner1")
    BY <1>1, <1>3, <1>4, <1>6, <2>1, <2>2, <2>3, FlowsFed
  <2>5. /\ StillOn(Ranges("bridge", "j"), Ranges("bridge", "j")', "bridge")
        /\ StillOn(Sends("inner2"), Sends("inner2")', "inner2")
    BY <2>1, Unmoved
  <2>6. Goes("gen2", "con1", Ranges("bridge", "j")', "bridge", Sends("inner2")', "inner2")
    BY <1>1, <1>3, <1>5, <1>6, <2>1, <2>5, FlowsStill
  <2> QED BY <2>3, <2>4, <2>6
<1>7. ASSUME s = "gen2", r = "inner2"
       PROVE  /\ Goes("gen2", "con1", Ranges("bridge", "j")', "bridge", Sends("inner2")', "inner2")
              /\ Goes("gen1", "con1", Ranges("bridge", "i")', "bridge", Sends("inner1")', "inner1")
  <2>0. ~BridgeLists(r) BY <1>1, <1>7 DEF BridgeLists
  <2>1. /\ got'["con1"] = got["con1"] /\ st'["bridge"] = st["bridge"]
        /\ st'["inner1"] = st["inner1"]
    BY <1>1, <1>2, <1>7, <2>0 DEF Handed
  <2>2. Sends("inner2") = FALSE /\ Sends("inner2")' = TRUE
    BY <1>1, <1>7, <2>0, Picked DEF Sends
  <2>3. Ranges("bridge", "j")' = Ranges("bridge", "j") /\ Ranges("bridge", "j") \in BOOLEAN
    BY <2>1 DEF Ranges, Sends
  <2>4. Goes("gen2", "con1", Ranges("bridge", "j"), "bridge", Sends("inner2")', "inner2")
    BY <1>1, <1>3, <1>5, <1>7, <2>1, <2>2, <2>3, FlowsFed
  <2>5. /\ StillOn(Ranges("bridge", "i"), Ranges("bridge", "i")', "bridge")
        /\ StillOn(Sends("inner1"), Sends("inner1")', "inner1")
    BY <2>1, Unmoved
  <2>6. Goes("gen1", "con1", Ranges("bridge", "i")', "bridge", Sends("inner1")', "inner1")
    BY <1>1, <1>3, <1>4, <1>7, <2>1, <2>5, FlowsStill
  <2> QED BY <2>3, <2>4, <2>6
<1>8. ASSUME s = "inner1", r = "bridge", ~BridgeLists(r), st[r].from = {"i"}
       PROVE  /\ Goes("gen1", "con1", Ranges("bridge", "i")', "bridge", Sends("inner1")', "inner1")
              /\ Goes("gen2", "con1", Ranges("bridge", "j")', "bridge", Sends("inner2")', "inner2")
  <2>1. got' = got /\ st'["inner2"] = st["inner2"]
    BY <1>1, <1>2, <1>8 DEF Handed
  <2>2. Sends("inner1") = TRUE /\ Sends("inner1")' = FALSE
    BY <1>1, <1>8, HandedOff DEF Sends
  <2>3. st["bridge"].pc = "recv" /\ st'["bridge"].pc = "send" /\ st'["bridge"].from = {"i"}
    BY <1>1, <1>8, Picked
  <2>4. Ranges("bridge", "i") = FALSE /\ Ranges("bridge", "i")' = TRUE
    BY <2>3 DEF Ranges, Sends
  <2>5. Goes("gen1", "con1", Ranges("bridge", "i")', "bridge", Sends("inner1")', "inner1")
    BY <1>1, <1>3, <1>4, <1>8, <2>2, <2>4, FlowsPassed
  <2>6. Ranges("bridge", "j") = FALSE /\ Ranges("bridge", "j")' = FALSE
    BY <2>3 DEF Ranges, Sends
  <2>7. StillOn(Ranges("bridge", "j"), Ranges("bridge", "j")', "bridge") BY <2>6 DEF StillOn
  <2>8. StillOn(Sends("inner2"), Sends("inner2")', "inner2") BY <2>1, Unmoved
  <2>9. Goes("gen2", "con1", Ranges("bridge", "j")', "bridge", Sends("inner2")', "inner2")
    BY <1>1, <1>3, <1>5, <1>8, <2>1, <2>7, <2>8, FlowsStill
  <2> QED BY <2>5, <2>9
<1>9. ASSUME s = "inner2", r = "bridge", ~BridgeLists(r), st[r].from = {"j"}
       PROVE  /\ Goes("gen2", "con1", Ranges("bridge", "j")', "bridge", Sends("inner2")', "inner2")
              /\ Goes("gen1", "con1", Ranges("bridge", "i")', "bridge", Sends("inner1")', "inner1")
  <2>1. got' = got /\ st'["inner1"] = st["inner1"]
    BY <1>1, <1>2, <1>9 DEF Handed
  <2>2. Sends("inner2") = TRUE /\ Sends("inner2")' = FALSE
    BY <1>1, <1>9, HandedOff DEF Sends
  <2>3. st["bridge"].pc = "recv" /\ st'["bridge"].pc = "send" /\ st'["bridge"].from = {"j"}
    BY <1>1, <1>9, Picked
  <2>4. Ranges("bridge", "j") = FALSE /\ Ranges("bridge", "j")' = TRUE
    BY <2>3 DEF Ranges, Sends
  <2>5. Goes("gen2", "con1", Ranges("bridge", "j")', "bridge", Sends("inner2")', "inner2")
    BY <1>1, <1>3, <1>5, <1>9, <2>2, <2>4, FlowsPassed
  <2>6. Ranges("bridge", "i") = FALSE /\ Ranges("bridge", "i")' = FALSE
    BY <2>3 DEF Ranges, Sends
  <2>7. StillOn(Ranges("bridge", "i"), Ranges("bridge", "i")', "bridge") BY <2>6 DEF StillOn
  <2>8. StillOn(Sends("inner1"), Sends("inner1")', "inner1") BY <2>1, Unmoved
  <2>9. Goes("gen1", "con1", Ranges("bridge", "i")', "bridge", Sends("inner1")', "inner1")
    BY <1>1, <1>3, <1>4, <1>9, <2>1, <2>7, <2>8, FlowsStill
  <2> QED BY <2>5, <2>9
<1>10. ASSUME s = "bridge", r = "con1", st[s].from = {"i"}
       PROVE  /\ Goes("gen1", "con1", Ranges("bridge", "i")', "bridge", Sends("inner1")', "inner1")
              /\ Goes("gen2", "con1", Ranges("bridge", "j")', "bridge", Sends("inner2")', "inner2")
  <2>0. ~BridgeLists(r) BY <1>1, <1>10 DEF BridgeLists
  <2>1. st'["inner1"] = st["inner1"] /\ st'["inner2"] = st["inner2"]
    BY <1>1, <1>2, <1>10, <2>0 DEF Handed
  <2>2. st["bridge"].pc = "send" /\ st'["bridge"].pc = "recv" /\ st'["bridge"].val = st["bridge"].val
    BY <1>1, <1>10, HandedOff
  <2>3. /\ Ranges("bridge", "i") = TRUE /\ Ranges("bridge", "i")' = FALSE
        /\ Ranges("bridge", "j") = FALSE /\ Ranges("bridge", "j")' = FALSE
    BY <1>10, <2>2 DEF Ranges, Sends
  <2>4. /\ Sends("inner1") \in BOOLEAN /\ Sends("inner1")' = Sends("inner1")
        /\ Sends("inner2") \in BOOLEAN /\ Sends("inner2")' = Sends("inner2")
    BY <2>1 DEF Sends
  <2>5. Goes("gen1", "con1", Ranges("bridge", "i")', "bridge", Sends("inner1"), "inner1")
        /\ st["bridge"].val \in Range(Values["gen1"])
    BY <1>1, <1>3, <1>4, <1>10, <2>1, <2>3, <2>4, FlowsDelivered
  <2>6. st["bridge"].val \notin Range(Values["gen2"]) BY <2>5, ConstantsAssumption
  <2> DEFINE near == Ranges("bridge", "j")
             far == Sends("inner2")
  <2>8. near \in BOOLEAN /\ far \in BOOLEAN /\ st'["inner2"].val = st["inner2"].val
    BY <2>1, <2>3, <2>4
  <2>9. Flows("gen2", "con1", near, "bridge", far, "inner2") BY <1>5
  <2>10. Transfer("bridge", "con1", k) /\ "bridge" \in Goroutines BY <1>1, <1>10
  <2> HIDE DEF near, far
  <2>11. Goes("gen2", "con1", near, "bridge", far, "inner2")
    BY <1>1, <1>3, <2>2, <2>6, <2>8, <2>9, <2>10, FlowsPast
  <2>7. Goes("gen2", "con1", Ranges("bridge", "j"), "bridge", Sends("inner2"), "inner2")
    BY <2>11 DEF near, far
  <2> QED BY <2>3, <2>4, <2>5, <2>7
<1>11. ASSUME s = "bridge", r = "con1", st[s].from = {"j"}
       PROVE  /\ Goes("gen2", "con1", Ranges("bridge", "j")', "bridge", Sends("inner2")', "inner2")
              /\ Goes("gen1", "con1", Ranges("bridge", "i")', "bridge", Sends("inner1")', "inner1")
  <2>0. ~BridgeLists(r) BY <1>1, <1>11 DEF BridgeLists
  <2>1. st'["inner1"] = st["inner1"] /\ st'["inner2"] = st["inner2"]
    BY <1>1, <1>2, <1>11, <2>0 DEF Handed
  <2>2. st["bridge"].pc = "send" /\ st'["bridge"].pc = "recv" /\ st'["bridge"].val = st["bridge"].val
    BY <1>1, <1>11, HandedOff
  <2>3. /\ Ranges("bridge", "j") = TRUE /\ Ranges("bridge", "j")' = FALSE
        /\ Ranges("bridge", "i") = FALSE /\ Ranges("bridge", "i")' = FALSE
    BY <1>11, <2>2 DEF Ranges, Sends
  <2>4. /\ Sends("inner1") \in BOOLEAN /\ Sends("inner1")' = Sends("inner1")
        /\ Sends("inner2") \in BOOLEAN /\ Sends("inner2")' = Sends("inner2")
    BY <2>1 DEF Sends
  <2>5. Goes("gen2", "con1", Ranges("bridge", "j")', "bridge", Sends("inner2"), "inner2")
        /\ st["bridge"].val \in Range(Values["gen2"])
    BY <1>1, <1>3, <1>5, <1>11, <2>1, <2>3, <2>4, FlowsDelivered
  <2>6. st["bridge"].val \notin Range(Values["gen1"]) BY <2>5, ConstantsAssumption
  <2> DEFINE near == Ranges("bridge", "i")
             far == Sends("inner1")
  <2>8. near \in BOOLEAN /\ far \in BOOLEAN /\ st'["inner1"].val = st["inner1"].val
    BY <2>1, <2>3, <2>4
  <2>9. Flows("gen1", "con1", near, "bridge", far, "inner1") BY <1>4
  <2>10. Transfer("bridge", "con1", k) /\ "bridge" \in Goroutines BY <1>1, <1>11
  <2> HIDE DEF near, far
  <2>11. Goes("gen1", "con1", near, "bridge", far, "inner1")
    BY <1>1, <1>3, <2>2, <2>6, <2>8, <2>9, <2>10, FlowsPast
  <2>7. Goes("gen1", "con1", Ranges("bridge", "i"), "bridge", Sends("inner1"), "inner1")
    BY <2>11 DEF near, far
  <2> QED BY <2>3, <2>4, <2>5, <2>7
<1>12. ASSUME s = "lister", r = "bridge", BridgeLists(r)
       PROVE  /\ Goes("gen1", "con1", Ranges("bridge", "i")', "bridge", Sends("inner1")', "inner1")
              /\ Goes("gen2", "con1", Ranges("bridge", "j")', "bridge", Sends("inner2")', "inner2")
  <2>1. /\ got' = got /\ st["bridge"].pc = "recv" /\ st'["bridge"].pc = "recv"
        /\ \A g \in {"inner1", "inner2"} :
              st'[g] = st[g] \/ (st[g].pc = "unborn" /\ st'[g].pc = "recv")
    <3>1. st["bridge"].pc = "recv" /\ st["bridge"] \in LocalStates
      BY <1>1, <1>2, <1>12 DEF Handed, StagesInv, AllLocalOK, LocalOK, LocalStates
    <3> QED BY <1>12, <3>1, ListerHands DEF LocalStates
  <2>2. \A d : Ranges("bridge", d) = FALSE /\ Ranges("bridge", d)' = FALSE
    BY <2>1 DEF Ranges, Sends
  <2>3. \A d : StillOn(Ranges("bridge", d), Ranges("bridge", d)', "bridge")
    BY <2>2 DEF StillOn
  <2>4. ASSUME NEW g \in {"inner1", "inner2"} PROVE StillOn(Sends(g), Sends(g)', g)
    <3>1. CASE st'[g] = st[g] BY <3>1, Unmoved
    <3>2. CASE st[g].pc = "unborn" /\ st'[g].pc = "recv"
      <4>1. Sends(g) = FALSE /\ Sends(g)' = FALSE BY <3>2 DEF Sends
      <4> QED BY <4>1 DEF StillOn
    <3> QED BY <2>1, <3>1, <3>2
  <2>5. Goes("gen1", "con1", Ranges("bridge", "i")', "bridge", Sends("inner1")', "inner1")
    BY <1>1, <1>3, <1>4, <1>12, <2>1, <2>3, <2>4, FlowsStill
  <2>6. Goes("gen2", "con1", Ranges("bridge", "j")', "bridge", Sends("inner2")', "inner2")
    BY <1>1, <1>3, <1>5, <1>12, <2>1, <2>3, <2>4, FlowsStill
  <2> QED BY <2>5, <2>6
<1>13. s = "bridge" => st[s].from = {"i"} \/ st[s].from = {"j"}
  BY ZenonT(40), <1>1, <1>2 DEF Handed, StagesInv, AllLocalOK, LocalOK
<1> QED BY <1>6, <1>7, <1>8, <1>9, <1>10, <1>11, <1>12, <1>13, BridgeHands

LEMMA InFlightHanded ==
    ASSUME StagesInv, NothingLost, Rest, InFlight,
           NEW s \in Goroutines, NEW r \in Goroutines, NEW k, Transfer(s, r, k)
    PROVE  InFlight'
<1>1. net' = net BY DEF Transfer
<1> QED BY <1>1, OrDoneFlows, FanInFlows, TeeFlows, BridgeFlows DEF InFlight, Flows, Goes

LEMMA FlowStart ==
    ASSUME NEW s, NEW v, NEW w, NEW all
    PROVE  Flow(s, 0, <<>>, FALSE, v, FALSE, w, all)
<1> DEFINE D == Places(s, <<>>, FALSE, FALSE)
           line == Along(<<>>, v, w)
<1>1. Len(<<>>) = 0 OBVIOUS
<1>2. D = {} BY <1>1 DEF Places
<1> HIDE DEF D, line
<1> DEFINE at == [p \in D |-> 0]
<1>3. at \in [D -> 1 .. 0] BY <1>2
<1>4. \A m \in 1 .. 0 : FALSE OBVIOUS
<1>5. InLine(s, 0, D, line, all) BY <1>2, <1>3, <1>4 DEF InLine
<1> QED BY <1>5 DEF Flow, D, line

LEMMA InFlightInit ==
    ASSUME Init, StagesInv
    PROVE  InFlight
<1>1. NetOK BY DEF StagesInv
<1>2. ASSUME NEW g, Feeds(g), NEW c \in Consumers, NEW n, NEW f
      PROVE  Flows(g, c, FALSE, n, FALSE, f)
  <2>1. Left(g) = Len(Values[g]) /\ Left(g) \in Nat BY <1>1, <1>2, SourceLeft DEF Feeds
  <2>2. Gone(g) = 0 BY <2>1 DEF Gone
  <2>3. got[c] = <<>> BY DEF Init
  <2> QED BY <2>2, <2>3, FlowStart DEF Flows
<1>3. ASSUME NEW g \in Goroutines, Kind(g) \in {"orDone", "merge", "tee", "bridge"}
      PROVE  Sends(g) = FALSE /\ st[g].on = {}
  <2>1. st[g].pc \in {"recv", "unborn"} BY <1>1, <1>3, StartOf DEF Receivers, Init
  <2>2. LocalOK(g, st[g]) BY DEF StagesInv, AllLocalOK
  <2> QED BY <2>1, <2>2 DEF Sends, LocalOK
<1>4. ASSUME net \in {"orDone", "silent"}
      PROVE  Flows("gen1", "con1", Sends("orDone"), "orDone", FALSE, "orDone")
  <2>1. /\ Feeds("gen1") /\ "orDone" \in Goroutines /\ "con1" \in Consumers
        /\ Kind("orDone") = "orDone"
    BY <1>4, OrDoneNet, SilentNet DEF Consumers, AllConsumers, Feeds
  <2>2. Sends("orDone") = FALSE BY <1>3, <2>1
  <2> QED BY <1>2, <2>1, <2>2
<1>5. ASSUME net = "fanIn"
      PROVE  /\ Flows("gen1", "con1", Sends("merge1"), "merge1", FALSE, "merge1")
             /\ Flows("gen2", "con1", Sends("merge2"), "merge2", FALSE, "merge2")
  <2>1. /\ Feeds("gen1") /\ Feeds("gen2") /\ {"merge1", "merge2"} \subseteq Goroutines
        /\ "con1" \in Consumers /\ Kind("merge1") = "merge" /\ Kind("merge2") = "merge"
    BY <1>5, FanInNet DEF Consumers, AllConsumers, Feeds
  <2>2. Sends("merge1") = FALSE /\ Sends("merge2") = FALSE BY <1>3, <2>1
  <2> QED BY <1>2, <2>1, <2>2
<1>6. ASSUME net = "tee"
      PROVE  /\ Flows("gen1", "con1", "x" \in st["tee"].on, "tee", Sends("orDone"), "orDone")
             /\ Flows("gen1", "con2", "y" \in st["tee"].on, "tee", Sends("orDone"), "orDone")
  <2>1. /\ Feeds("gen1") /\ {"orDone", "tee"} \subseteq Goroutines
        /\ {"con1", "con2"} \subseteq Consumers
        /\ Kind("orDone") = "orDone" /\ Kind("tee") = "tee"
    BY <1>6, TeeNet DEF Consumers, AllConsumers, Feeds
  <2>2. Sends("orDone") = FALSE BY <1>3, <2>1
  <2>3. st["tee"].on = {} BY <1>3, <2>1
  <2>4. ("x" \in st["tee"].on) = FALSE /\ ("y" \in st["tee"].on) = FALSE BY <2>3
  <2> QED BY <1>2, <2>1, <2>2, <2>4
<1>7. ASSUME net = "bridge"
      PROVE  /\ Flows("gen1", "con1", Ranges("bridge", "i"), "bridge", Sends("inner1"), "inner1")
             /\ Flows("gen2", "con1", Ranges("bridge", "j"), "bridge", Sends("inner2"), "inner2")
  <2>1. /\ Feeds("gen1") /\ Feeds("gen2")
        /\ {"inner1", "inner2", "bridge"} \subseteq Goroutines /\ "con1" \in Consumers
        /\ Kind("inner1") = "orDone" /\ Kind("inner2") = "orDone" /\ Kind("bridge") = "bridge"
    BY <1>7, BridgeNet DEF Consumers, AllConsumers, Feeds
  <2>2. Sends("inner1") = FALSE /\ Sends("inner2") = FALSE /\ Sends("bridge") = FALSE
    BY <1>3, <2>1
  <2>3. Ranges("bridge", "i") = FALSE /\ Ranges("bridge", "j") = FALSE
    BY <2>2 DEF Ranges
  <2> QED BY <1>2, <2>1, <2>2, <2>3
<1> QED BY <1>4, <1>5, <1>6, <1>7 DEF InFlight

-----------------------------------------------------------------------------
(* Genuine *)

LEMMA HeldGenuine ==
    ASSUME StagesInv, Rest, NEW g, Feeds(g), NEW c \in Consumers, NEW near, NEW n,
           NEW far \in BOOLEAN, NEW f, Flows(g, c, near, n, far, f), near = TRUE,
           n \in Goroutines
    PROVE  st[n].val \in Range(Values[g])
<1>1. Gone(g) \in 0 .. Len(Values[g]) /\ Values[g] \in Seq(Nat) BY NextOf DEF Feeds
<1>2. got[c] \in Seq(Nat) /\ st[n].val \in Nat BY DEF StagesInv, GotTyped, AllLocalOK, LocalOK
<1>3. Flow(Values[g], Gone(g), got[c], TRUE, st[n].val, far, st[f].val, ~cancelled)
  BY DEF Flows
<1> QED BY <1>1, <1>2, <1>3, NearInRange

LEMMA DeliversGenuine ==
    ASSUME StagesInv, Rest, InFlight, net \notin {"take", "repeat"},
           NEW s \in Goroutines, NEW r \in Consumers, NEW k, Transfer(s, r, k)
    PROVE  /\ st[s].val \in Range(Values["gen1"]) \cup Range(Values["gen2"])
           /\ net = "bridge" =>
                 /\ s = "bridge"
                 /\ st[s].from = {"i"} => st[s].val \in Range(Values["gen1"])
                 /\ st[s].from # {"i"} => /\ st[s].from = {"j"}
                                          /\ st[s].val \in Range(Values["gen2"])
<1>0. r \in Goroutines BY DEF Consumers
<1>1. Handed(s, r, k) BY <1>0, HandedOn
<1>2. CASE net \in {"orDone", "silent"}
  <2>1. /\ s = "orDone" /\ Feeds("gen1") /\ "con1" \in Consumers
    BY <1>0, <1>1, <1>2, OrDoneNet, SilentNet DEF Consumers, AllConsumers, Feeds, Handed
  <2>2. Sends("orDone") = TRUE BY <1>1, <2>1 DEF Handed, Sends
  <2>3. Flows("gen1", "con1", Sends("orDone"), "orDone", FALSE, "orDone") BY <1>2 DEF InFlight
  <2> QED BY <1>2, <2>1, <2>2, <2>3, HeldGenuine
<1>3. CASE net = "fanIn"
  <2>1. /\ s \in {"merge1", "merge2"} /\ Feeds("gen1") /\ Feeds("gen2") /\ "con1" \in Consumers
    BY <1>0, <1>1, <1>3, FanInNet DEF Consumers, AllConsumers, Feeds, Handed
  <2>2. Sends(s) = TRUE BY <1>1, <2>1 DEF Handed, Sends
  <2>3. Flows("gen1", "con1", Sends("merge1"), "merge1", FALSE, "merge1")
    BY <1>3, Zenon DEF InFlight
  <2>4. Flows("gen2", "con1", Sends("merge2"), "merge2", FALSE, "merge2")
    BY <1>3, Zenon DEF InFlight
  <2>5. CASE s = "merge1" BY <1>3, <2>1, <2>2, <2>3, <2>5, HeldGenuine
  <2>6. CASE s = "merge2" BY <1>3, <2>1, <2>2, <2>4, <2>6, HeldGenuine
  <2> QED BY <2>1, <2>5, <2>6
<1>4. CASE net = "tee"
  <2>1. /\ s = "tee" /\ Feeds("gen1") /\ {"con1", "con2"} \subseteq Consumers
        /\ k \in {"x", "y"} /\ k \in st["tee"].on
    BY <1>0, <1>1, <1>4, TeeNet DEF Consumers, AllConsumers, Feeds, Handed
  <2>2. /\ Flows("gen1", "con1", "x" \in st["tee"].on, "tee", Sends("orDone"), "orDone")
        /\ Flows("gen1", "con2", "y" \in st["tee"].on, "tee", Sends("orDone"), "orDone")
    BY <1>4 DEF InFlight
  <2>3. Sends("orDone") \in BOOLEAN BY DEF Sends
  <2>4. CASE k = "x"
    <3>1. ("x" \in st["tee"].on) = TRUE BY <2>1, <2>4
    <3> QED BY <1>4, <2>1, <2>2, <2>3, <3>1, HeldGenuine
  <2>5. CASE k = "y"
    <3>1. ("y" \in st["tee"].on) = TRUE BY <2>1, <2>5
    <3> QED BY <1>4, <2>1, <2>2, <2>3, <3>1, HeldGenuine
  <2> QED BY <2>1, <2>4, <2>5
<1>5. CASE net = "bridge"
  <2>1. /\ s = "bridge" /\ Feeds("gen1") /\ Feeds("gen2") /\ "con1" \in Consumers
        /\ Kind("bridge") = "bridge" /\ "bridge" \in Goroutines
    BY <1>0, <1>1, <1>5, BridgeNet DEF Consumers, AllConsumers, Feeds, Handed
  <2>2. /\ Flows("gen1", "con1", Ranges("bridge", "i"), "bridge", Sends("inner1"), "inner1")
        /\ Flows("gen2", "con1", Ranges("bridge", "j"), "bridge", Sends("inner2"), "inner2")
    BY <1>5 DEF InFlight
  <2>3. Sends("inner1") \in BOOLEAN /\ Sends("inner2") \in BOOLEAN BY DEF Sends
  <2>4. st["bridge"].pc = "send" BY <1>1, <2>1 DEF Handed
  <2>5. st["bridge"].from = {"i"} \/ st["bridge"].from = {"j"}
    BY <2>1, <2>4 DEF StagesInv, AllLocalOK, LocalOK
  <2>6. CASE st["bridge"].from = {"i"}
    <3>1. Ranges("bridge", "i") = TRUE BY <2>4, <2>6 DEF Ranges, Sends
    <3>2. st["bridge"].val \in Range(Values["gen1"])
      BY <2>1, <2>2, <2>3, <3>1, HeldGenuine
    <3> QED BY <2>1, <2>6, <3>2
  <2>7. CASE st["bridge"].from = {"j"}
    <3>1. Ranges("bridge", "j") = TRUE BY <2>4, <2>7 DEF Ranges, Sends
    <3>2. st["bridge"].val \in Range(Values["gen2"])
      BY <2>1, <2>2, <2>3, <3>1, HeldGenuine
    <3> QED BY <2>1, <2>7, <3>2
  <2> QED BY <2>5, <2>6, <2>7
<1>6. CASE net = "or"
  <2>1. Kind(s) \in {"signal", "or", "consumer"} BY <1>6, OrNet
  <2> QED BY <1>1, <2>1 DEF Handed
<1>7. net \in {"orDone", "silent", "fanIn", "tee", "bridge", "or"}
  BY NetworkNames DEF StagesInv, NetOK
<1> QED BY <1>2, <1>3, <1>4, <1>5, <1>6, <1>7

LEMMA AppendedAt ==
    ASSUME NEW q \in Seq(Nat), NEW v \in Nat
    PROVE  /\ Append(q, v) \in Seq(Nat) /\ Len(Append(q, v)) = Len(q) + 1 /\ Len(q) \in Nat
           /\ DOMAIN q = 1 .. Len(q) /\ DOMAIN Append(q, v) = 1 .. Len(q) + 1
           /\ \A i \in 1 .. Len(q) : Append(q, v)[i] = q[i]
           /\ Append(q, v)[Len(q) + 1] = v
  BY LenProperties, AppendProperties

LEMMA GenuineHanded ==
    ASSUME StagesInv, Rest, InFlight, Genuine,
           NEW s \in Goroutines, NEW r \in Goroutines, NEW k, Transfer(s, r, k)
    PROVE  Genuine'
<1>1. Handed(s, r, k) BY HandedOn
<1>2. net' = net /\ Consumers' = Consumers
  <2>1. net' = net /\ limit' = limit BY DEF Transfer
  <2> QED BY <2>1, SameNet
<1> SUFFICES ASSUME net \notin {"take", "repeat"}, NEW c \in Consumers, NEW i \in DOMAIN got'[c]
             PROVE  got'[c][i] \in Range(Values["gen1"]) \cup Range(Values["gen2"])
  BY <1>2 DEF Genuine
<1>3. CASE c # r BY <1>1, <1>3 DEF Handed, Genuine
<1>4. CASE c = r /\ Kind(r) = "consumer"
  <2>1. got'[c] = Append(got[c], st[s].val) BY <1>1, <1>4 DEF Handed
  <2>2. got[c] \in Seq(Nat) /\ st[s].val \in Nat
    BY DEF StagesInv, GotTyped, AllLocalOK, LocalOK
  <2>3. st[s].val \in Range(Values["gen1"]) \cup Range(Values["gen2"])
    BY <1>4, DeliversGenuine
  <2>4. i \in DOMAIN got[c] \/ i = Len(got[c]) + 1 BY <2>1, <2>2, AppendedAt
  <2>5. i \in DOMAIN got[c] => got'[c][i] = got[c][i] BY <2>1, <2>2, AppendedAt
  <2>6. i = Len(got[c]) + 1 => got'[c][i] = st[s].val BY <2>1, <2>2, AppendedAt
  <2> QED BY <2>3, <2>4, <2>5, <2>6 DEF Genuine
<1>5. CASE Kind(r) # "consumer" BY <1>1, <1>5 DEF Handed, Genuine
<1> QED BY <1>3, <1>4, <1>5

-----------------------------------------------------------------------------
(* OneByOne *)

(* The steps of Bridge's network that list no stream and deliver nothing. *)
RangingOn ==
    /\ net' = net /\ got' = got
    /\ st'["inner1"].pc = "unborn" => st["inner1"].pc = "unborn"
    /\ st'["lister"].pc = "send" => st'["lister"] = st["lister"]
    /\ st'["bridge"].pc \in {"recv", "send"} /\ st'["bridge"].from # {"s"} =>
          st["bridge"].pc \in {"recv", "send"} /\ st'["bridge"].from = st["bridge"].from

LEMMA OneByOneOn ==
    ASSUME OneByOne, net = "bridge" => RangingOn, net' = net
    PROVE  OneByOne'
<1> SUFFICES ASSUME net = "bridge" PROVE OneByOne' BY DEF OneByOne
<1>1. RangingOn OBVIOUS
<1>2. {"i"} # {"s"} /\ {"j"} # {"s"} OBVIOUS
<1>3. ReceivedOf("con1", "gen1")' = ReceivedOf("con1", "gen1")
      /\ ReceivedOf("con1", "gen2")' = ReceivedOf("con1", "gen2")
  BY <1>1 DEF RangingOn, ReceivedOf
<1>4. \A c \in {"i", "j"} :
         st'["bridge"].pc \in {"recv", "send"} /\ st'["bridge"].from = {c} =>
         st["bridge"].pc \in {"recv", "send"} /\ st["bridge"].from = {c}
  BY <1>1, <1>2 DEF RangingOn
<1> QED BY <1>1, <1>3, <1>4 DEF OneByOne, RangingOn

LEMMA RangingOnBy ==
    ASSUME StagesInv, net = "bridge",
           \/ \E g \in Goroutines : Join(g) \/ Exit(g) \/ Fire(g) \/ Heed(g) \/ \E c : Exhausted(g, c)
           \/ Cancel \/ UNCHANGED vars
    PROVE  RangingOn
<1>1. NetOK /\ AllLocalOK /\ \A g \in Goroutines : st[g] \in LocalStates /\ LocalOK(g, st[g])
  BY ZenonT(40) DEF StagesInv, AllLocalOK, LocalOK, LocalStates
<1>2. /\ Goroutines = {"gen1", "gen2", "lister", "bridge", "inner1", "inner2", "con1"}
      /\ Kind("bridge") = "bridge" /\ In("bridge") = {"s"} /\ Kind("lister") = "generate"
      /\ \A g \in Goroutines : Kind(g) # "take"
  BY BridgeNet
<1>3. ASSUME NEW g \in Goroutines, NEW t, st' = [st EXCEPT ![g] = t], net' = net, got' = got,
             t.pc # "unborn", g = "lister" => t.pc # "send",
             g = "bridge" /\ t.pc \in {"recv", "send"} /\ t.from # {"s"} =>
                 st[g].pc \in {"recv", "send"} /\ t.from = st[g].from
      PROVE  RangingOn
  <2>1. st'[g] = t /\ \A h \in Goroutines \ {g} : st'[h] = st[h]
    BY <1>1, <1>3 DEF AllLocalOK
  <2>2. st'["inner1"].pc = "unborn" => st["inner1"].pc = "unborn"
    BY <1>2, <1>3, <2>1
  <2>3. st'["lister"].pc = "send" => st'["lister"] = st["lister"]
    BY <1>2, <1>3, <2>1
  <2>4. CASE g = "bridge" BY <1>3, <2>1, <2>2, <2>3, <2>4 DEF RangingOn
  <2>5. CASE g # "bridge" BY <1>2, <1>3, <2>1, <2>2, <2>3, <2>5 DEF RangingOn
  <2> QED BY <2>4, <2>5
<1>4. ASSUME NEW g \in Goroutines, Join(g) \/ Fire(g) PROVE RangingOn
  <2>1. /\ st' = [st EXCEPT ![g] = Leaving(st[g])] /\ net' = net /\ got' = got
    BY <1>4 DEF Join, Fire
  <2>2. Leaving(st[g]).pc = "exit" BY <1>1 DEF Leaving, LocalStates
  <2> QED BY <1>3, <2>1, <2>2
<1>5. ASSUME NEW g \in Goroutines, Exit(g) PROVE RangingOn
  <2>1. /\ st' = [st EXCEPT ![g] = [st[g] EXCEPT !.pc = "done"]] /\ net' = net /\ got' = got
    BY <1>5 DEF Exit
  <2>2. [st[g] EXCEPT !.pc = "done"].pc = "done" BY <1>1 DEF LocalStates
  <2> QED BY <1>3, <2>1, <2>2
<1>6. ASSUME NEW g \in Goroutines, NEW c, Exhausted(g, c) PROVE RangingOn
  <2>1. /\ st' = [st EXCEPT ![g] = AtEnd(g)] /\ net' = net /\ got' = got
        /\ st[g].pc = "recv"
    BY <1>6 DEF Exhausted, Awaits
  <2>3. g # "lister"
    <3>1. st["lister"].pc \in {"send", "exit", "done"} BY <1>1, <1>2, PointsOf DEF LocalOK
    <3> QED BY <2>1, <3>1
  <2>2. AtEnd(g).pc \in {"recv", "exit"} /\ (AtEnd(g).pc = "recv" => AtEnd(g).from = {"s"})
    BY <1>1, <1>2, <2>1, AtEndQuiet
  <2> QED BY <1>3, <2>1, <2>2, <2>3
<1>7. ASSUME NEW g \in Goroutines, Heed(g) PROVE RangingOn
  <2>1. st' = [st EXCEPT ![g] = Heeded(g)] /\ net' = net /\ got' = got /\ Heeds(g)
    BY <1>7 DEF Heed
  <2>2. Heeded(g).pc \in {"recv", "send", "exit"} /\ st[g].pc \in {"recv", "send"}
    BY <1>1, <2>1, HeededOK
  <2>3. g = "lister" => Heeded(g).pc # "send"
    <3>1. g = "lister" => Heeded(g) = Leaving(st[g]) BY <1>2 DEF Heeded
    <3> QED BY <1>1, <3>1 DEF Leaving, LocalStates
  <2>4. ASSUME g = "bridge", Heeded(g).pc \in {"recv", "send"}
        PROVE  Heeded(g).from = st[g].from
    <3>1. Heeded(g) = Resumed(st[g]) \/ Heeded(g) = Leaving(st[g]) BY <1>2, <2>4 DEF Heeded
    <3>2. Leaving(st[g]).pc = "exit" BY <1>1 DEF Leaving, LocalStates
    <3>3. Resumed(st[g]).from = st[g].from BY <1>1 DEF Resumed, LocalStates
    <3> QED BY <2>4, <3>1, <3>2, <3>3
  <2> QED BY <1>3, <2>1, <2>2, <2>3, <2>4
<1>8. ASSUME Cancel \/ UNCHANGED vars PROVE RangingOn
  BY <1>8 DEF Cancel, vars, RangingOn
<1> QED BY <1>4, <1>5, <1>6, <1>7, <1>8

LEMMA OneByOneHanded ==
    ASSUME StagesInv, Rest, InFlight, OneByOne, net = "bridge",
           NEW s \in Goroutines, NEW r \in Goroutines, NEW k, Transfer(s, r, k)
    PROVE  OneByOne'
<1>1. /\ Goroutines = {"gen1", "gen2", "lister", "bridge", "inner1", "inner2", "con1"}
      /\ Consumers = {"con1"}
      /\ Kind("gen1") = "generate" /\ Kind("gen2") = "generate"
      /\ Kind("inner1") = "orDone" /\ Kind("inner2") = "orDone"
      /\ Kind("bridge") = "bridge" /\ Kind("con1") = "consumer"
  BY BridgeNet DEF Consumers, AllConsumers
<1>2. Handed(s, r, k) BY HandedOn
<1>3. net' = net BY DEF Transfer
<1>4. CASE (s = "gen1" /\ r = "inner1") \/ (s = "gen2" /\ r = "inner2")
  <2>1. ~BridgeLists(r) BY <1>1, <1>4 DEF BridgeLists
  <2>2. got' = got /\ st'["bridge"] = st["bridge"] /\ st'["lister"] = st["lister"]
    BY <1>1, <1>2, <1>4, <2>1 DEF Handed
  <2>3. st'[r].pc = "send" BY <1>1, <1>4, <2>1, Picked
  <2>4. st'["inner1"].pc = "unborn" => st["inner1"].pc = "unborn"
    BY <1>1, <1>2, <1>4, <2>1, <2>3 DEF Handed
  <2>5. RangingOn BY <1>3, <2>2, <2>4 DEF RangingOn
  <2> QED BY <1>3, <2>5, OneByOneOn
<1>5. CASE s \in {"inner1", "inner2"} /\ r = "bridge" /\ ~BridgeLists(r)
  <2>1. got' = got /\ st'["lister"] = st["lister"] BY <1>1, <1>2, <1>5 DEF Handed
  <2>2. st'[s].pc = "recv" /\ Kind(s) = "orDone" BY <1>1, <1>5, HandedOff
  <2>3. st["bridge"].pc = "recv" /\ st'["bridge"].from = st["bridge"].from
    BY <1>1, <1>5, Picked
  <2>4. st'["inner1"].pc = "unborn" => st["inner1"].pc = "unborn"
    BY <1>1, <1>2, <1>5, <2>2 DEF Handed
  <2>5. RangingOn BY <1>3, <2>1, <2>3, <2>4 DEF RangingOn
  <2> QED BY <1>3, <2>5, OneByOneOn
<1>6. CASE s = "lister" /\ r = "bridge" /\ BridgeLists(r)
  <2>1. st["bridge"] \in LocalStates BY <1>1 DEF StagesInv, AllLocalOK, LocalOK, LocalStates
  <2>2. got' = got /\ st["lister"].pc = "send" BY <1>6, ListerHands
  <2>3. ReceivedOf("con1", "gen1")' = ReceivedOf("con1", "gen1")
        /\ ReceivedOf("con1", "gen2")' = ReceivedOf("con1", "gen2")
    BY <2>2 DEF ReceivedOf
  <2>4. CASE st["lister"].val = 1
    <3>1. /\ st'["lister"].pc = "send" /\ st'["lister"].val = 2
          /\ st'["bridge"] = [st["bridge"] EXCEPT !.from = {"i"}]
          /\ st["inner1"].pc = "unborn" /\ st'["inner1"].pc = "recv"
      BY <1>6, <2>4, ListerHands
    <3>2. st'["bridge"].from = {"i"} BY <2>1, <3>1 DEF LocalStates
    <3>3. ReceivedOf("con1", "gen2") = {} BY <3>1 DEF OneByOne
    <3> QED BY <2>3, <3>1, <3>2, <3>3 DEF OneByOne
  <2>5. CASE st["lister"].val # 1
    <3>1. /\ st["lister"].val = 2 /\ st'["lister"].pc = "exit"
          /\ st'["bridge"] = [st["bridge"] EXCEPT !.from = {"j"}]
          /\ st'["inner1"] = st["inner1"]
      BY <1>6, <2>5, ListerHands
    <3>2. st'["bridge"].from = {"j"} BY <2>1, <3>1 DEF LocalStates
    <3>3. st["inner1"].pc # "unborn" BY <2>2, <3>1 DEF OneByOne
    <3> QED BY <2>3, <3>1, <3>2, <3>3 DEF OneByOne
  <2> QED BY <2>4, <2>5
<1>7. CASE s = "bridge" /\ r = "con1"
  <2>0. ~BridgeLists(r) BY <1>1, <1>7 DEF BridgeLists
  <2>1. /\ st'["inner1"] = st["inner1"] /\ st'["lister"] = st["lister"]
        /\ got'["con1"] = Append(got["con1"], st["bridge"].val)
    BY <1>1, <1>2, <1>7, <2>0 DEF Handed
  <2>2. st["bridge"].pc = "send" /\ st'["bridge"].pc = "recv" /\ st'["bridge"].from = st["bridge"].from
    <3>1. st'["bridge"] = Resumed(st["bridge"]) BY <1>1, <1>2, <1>7 DEF Handed, Sent
    <3>2. st["bridge"] \in LocalStates BY <1>1 DEF StagesInv, AllLocalOK, LocalOK, LocalStates
    <3> QED BY <1>1, <1>2, <1>7, <3>1, <3>2 DEF Resumed, LocalStates, Handed
  <2> DEFINE q == got["con1"]
             v == st["bridge"].val
             q2 == Append(q, v)
             R1 == ReceivedOf("con1", "gen1")
             R2 == ReceivedOf("con1", "gen2")
  <2>3. /\ Len(q) \in Nat /\ DOMAIN q = 1 .. Len(q) /\ DOMAIN q2 = 1 .. Len(q) + 1
        /\ \A i \in 1 .. Len(q) : q2[i] = q[i]
        /\ q2[Len(q) + 1] = v
    <3>1. q \in Seq(Nat) /\ v \in Nat BY <1>1 DEF StagesInv, GotTyped, AllLocalOK, LocalOK
    <3> QED BY <3>1, AppendedAt
  <2>4. /\ R1' = {i \in DOMAIN q2 : q2[i] \in Range(Values["gen1"])}
        /\ R2' = {i \in DOMAIN q2 : q2[i] \in Range(Values["gen2"])}
        /\ R1 = {i \in DOMAIN q : q[i] \in Range(Values["gen1"])}
        /\ R2 = {i \in DOMAIN q : q[i] \in Range(Values["gen2"])}
    BY <2>1 DEF ReceivedOf
  <2>5. \A i \in R1, j \in R2 : i < j BY DEF OneByOne
  <2>6. /\ \A i \in R1' : i \in R1 \/ (i = Len(q) + 1 /\ v \in Range(Values["gen1"]))
        /\ \A i \in R2' : i \in R2 \/ (i = Len(q) + 1 /\ v \in Range(Values["gen2"]))
        /\ \A i \in R1 : i \in 1 .. Len(q)
    <3> HIDE DEF q2, q, v, R1, R2
    <3> QED BY <2>3, <2>4
  <2>7. Range(Values["gen1"]) \cap Range(Values["gen2"]) = {} BY ConstantsAssumption
  <2>8. CASE st["bridge"].from = {"i"}
    <3>1. v \in Range(Values["gen1"]) BY <1>1, <1>7, <2>8, DeliversGenuine
    <3>2. R2 = {} BY <2>2, <2>8 DEF OneByOne
    <3>3. R2' = {}
      <4> HIDE DEF R2, v
      <4> QED BY <2>6, <2>7, <3>1, <3>2
    <3>4. \A i \in R1', j \in R2' : i < j BY <3>3
    <3> HIDE DEF R1, R2
    <3>5. st["lister"].pc = "send" /\ st["lister"].val = 2 => st["inner1"].pc # "unborn"
      BY DEF OneByOne
    <3>6. {"i"} # {"j"} OBVIOUS
    <3> QED BY <2>1, <2>2, <2>8, <3>3, <3>4, <3>5, <3>6 DEF OneByOne, R1, R2
  <2>9. CASE st["bridge"].from # {"i"}
    <3>1. v \in Range(Values["gen2"]) /\ st["bridge"].from = {"j"}
      BY <1>1, <1>7, <2>9, DeliversGenuine
    <3>2. st["inner1"].pc # "unborn" BY <2>2, <3>1 DEF OneByOne
    <3>3. \A i \in R1', j \in R2' : i < j
      <4> HIDE DEF q, q2, R1, R2, v
      <4>1. \A i \in R1' : i \in R1 BY <2>6, <2>7, <3>1
      <4> QED BY <2>3, <2>5, <2>6, <4>1
    <3> HIDE DEF R1, R2
    <3>4. {"j"} # {"i"} OBVIOUS
    <3> QED BY <2>1, <2>2, <3>1, <3>2, <3>3, <3>4 DEF OneByOne, R1, R2
  <2> QED BY <2>8, <2>9
<1> QED BY <1>4, <1>5, <1>6, <1>7, BridgeHands

-----------------------------------------------------------------------------
(* Taken *)

LEMMA ModRange ==
    ASSUME NEW a \in Nat, NEW l \in Nat \ {0}
    PROVE  a % l \in 0 .. l - 1 /\ 0 % l = 0
<1>1. a % l \in 0 .. l - 1 BY Z3
<1>2. 0 % l = 0 OBVIOUS
<1> QED BY <1>1, <1>2

LEMMA ModOf ==
    ASSUME NEW l \in Nat \ {0}, NEW k \in Nat, NEW e \in 0 .. l - 1
    PROVE  (k * l + e) % l = e
  BY Z3

LEMMA ModNext ==
    ASSUME NEW a \in Nat, NEW l \in Nat \ {0}
    PROVE  (a + 1) % l = IF (a % l) + 1 = l THEN 0 ELSE (a % l) + 1
<1>1. a % l \in 0 .. l - 1 BY ModRange
<1>2. \E k \in Nat : a = k * l + (a % l)
  <2>1. a \div l \in Nat OBVIOUS
  <2>2. a = (a \div l) * l + (a % l) OBVIOUS
  <2> WITNESS a \div l \in Nat
  <2> QED BY <2>2
<1>3. PICK k \in Nat : a = k * l + (a % l) BY <1>2
<1>4. CASE (a % l) + 1 = l
  <2>1. a + 1 = (k + 1) * l BY <1>3, <1>4
  <2> QED BY <2>1, <1>4
<1>5. CASE (a % l) + 1 # l
  <2>1. a + 1 = k * l + ((a % l) + 1) /\ (a % l) + 1 \in 0 .. l - 1 BY <1>1, <1>3, <1>5
  <2>2. (k * l + ((a % l) + 1)) % l = (a % l) + 1 BY <2>1, ModOf
  <2> QED BY <1>5, <2>1, <2>2
<1> QED BY <1>4, <1>5

LEMMA RealKept ==
    ASSUME NEW V, NEW again, NEW q, NEW t, NEW s, NEW ended, NEW r,
           Real(V, again, q, t, s, ended, r),
           NEW t2, t2 = t \/ t2.pc \notin {"recv", "send"},
           NEW s2, s2 = s \/ s2.pc # "send", NEW ended2, ended => ended2
    PROVE  Real(V, again, q, t2, s2, ended2, r)
<1>1. CASE t2 = t
  <2>1. CASE s2 = s BY <1>1, <2>1 DEF Real
  <2>2. CASE s2.pc # "send" BY <1>1, <2>2 DEF Real
  <2> QED BY <2>1, <2>2
<1>2. CASE t2.pc \notin {"recv", "send"} BY <1>2 DEF Real
<1> QED BY <1>1, <1>2

(* Take gets a zero value of a closed channel, *)
LEMMA RealEnded ==
    ASSUME NEW V, NEW again, NEW q, NEW t, NEW s, NEW ended, ended, NEW r,
           Real(V, again, q, t, s, ended, r), s.pc # "send",
           NEW t2, t2.pc = "send", t2.val = Zero
    PROVE  Real(V, again, q, t2, s, ended, r)
  BY DEF Real

(* or the generator's next, *)
LEMMA RealPicked ==
    ASSUME NEW V \in Seq(Nat), V # <<>>, NEW again \in BOOLEAN, NEW q, Len(q) \in Nat,
           NEW t, NEW s, NEW ended, ~ended, NEW r \in 0 .. Len(q),
           Real(V, again, q, t, s, ended, r),
           t.pc = "recv", s.pc = "send", s.todo \in Seq(Nat), RestOf(V, s),
           NEW t2, t2.pc = "send", t2.val = s.val,
           NEW s2, s2.pc = "send" => \/ s.todo # <<>> /\ Len(s2.todo) = Len(s.todo) - 1
                                     \/ again /\ s.todo = <<>> /\ Len(s2.todo) = Len(V) - 1
    PROVE  Real(V, again, q, t2, s2, ended, r)
<1> DEFINE l == Len(V)
           n == Len(s.todo)
           m == r % l
<1>1. l \in Nat \ {0} /\ n \in Nat /\ (s.todo = <<>> <=> n = 0) /\ r \in Nat
  BY LenProperties, EmptySeq
<1>2. r = Len(q) BY DEF Real
<1>3. l - n = 1 + (IF again THEN m ELSE r) BY DEF Real, Handing
<1>9. /\ again => l - n = 1 + m
      /\ ~again => l - n = 1 + r /\ l - n = r + 1 /\ l - (n - 1) = 1 + (r + 1) /\ r < l
  <2> HIDE DEF l, n, m
  <2>1. again => l - n = 1 + m BY <1>3
  <2>2. ~again => l - n = 1 + r BY <1>3
  <2>3. l \in Nat /\ n \in Nat /\ r \in Nat BY <1>1
  <2>4. l - n = 1 + r => l - n = r + 1 /\ l - (n - 1) = 1 + (r + 1) /\ r < l BY <2>3
  <2> QED BY <2>1, <2>2, <2>4
<1>4. s.val = V[l - n] /\ n < l BY DEF RestOf
<1>5. s.val = Item(V, again, r + 1)
  <2>1. (r + 1) - 1 = r BY <1>1
  <2>2. CASE again BY <1>3, <1>4, <2>1, <2>2 DEF Item
  <2>3. CASE ~again
    <3>1. l - n = r + 1 BY <1>9, <2>3
    <3> QED BY <1>4, <2>3, <3>1 DEF Item
  <2> QED BY <2>2, <2>3
<1>6. ~again => r < l BY <1>9
<1>7. s2.pc = "send" => l - Len(s2.todo) = 1 + (IF again THEN (r + 1) % l ELSE r + 1)
  <2> SUFFICES ASSUME s2.pc = "send"
               PROVE  l - Len(s2.todo) = 1 + (IF again THEN (r + 1) % l ELSE r + 1)
    OBVIOUS
  <2>1. CASE again
    <3>1. m \in 0 .. l - 1 BY <1>1, ModRange
    <3>2. (r + 1) % l = IF m + 1 = l THEN 0 ELSE m + 1 BY <1>1, ModNext
    <3>6. l - n = 1 + m BY <1>9, <2>1
    <3> HIDE DEF l, m, n
    <3>3. n = l - 1 - m BY <1>1, <3>1, <3>6
    <3>4. CASE n = 0
      <4>1. Len(s2.todo) = l - 1 BY <1>1, <3>4 DEF l, n
      <4>2. m + 1 = l BY <1>1, <3>1, <3>3, <3>4
      <4> QED BY <1>1, <2>1, <3>2, <4>1, <4>2
    <3>5. CASE n # 0
      <4>1. Len(s2.todo) = n - 1 BY <1>1, <3>5 DEF l, n
      <4>2. m + 1 # l BY <1>1, <3>1, <3>3, <3>5
      <4>3. l - (n - 1) = 1 + (m + 1) BY <1>1, <3>1, <3>3
      <4> QED BY <2>1, <3>2, <4>1, <4>2, <4>3
    <3> QED BY <3>4, <3>5
  <2>2. CASE ~again
    <3>1. Len(s2.todo) = n - 1 BY <2>2
    <3>2. l - (n - 1) = 1 + (r + 1) BY <1>9, <2>2
    <3> HIDE DEF l, n
    <3> QED BY <2>2, <3>1, <3>2
  <2> QED BY <2>1, <2>2
<1>8. Handing(t2, r) = r + 1 BY DEF Handing
<1> HIDE DEF m, n
<1> QED BY <1>2, <1>5, <1>6, <1>7, <1>8 DEF Real

(* and hands it to the consumer. *)
LEMMA RealDelivered ==
    ASSUME NEW V \in Seq(Nat), NEW again, NEW q \in Seq(Nat), NEW t, NEW s, NEW ended,
           NEW r \in 0 .. Len(q), Real(V, again, q, t, s, ended, r),
           t.pc = "send", t.val \in Nat, ended => s.pc # "send", NEW t2, t2.pc # "send"
    PROVE  \E x \in 0 .. Len(Append(q, t.val)) :
              Real(V, again, Append(q, t.val), t2, s, ended, x)
<1> DEFINE v == t.val
           q2 == Append(q, v)
<1>1. /\ Len(q) \in Nat /\ Len(q2) = Len(q) + 1 /\ q2[Len(q) + 1] = v
      /\ \A i \in 1 .. Len(q) : q2[i] = q[i]
  BY AppendedAt
<1> HIDE DEF q2
<1>2. \A p \in 1 .. r : q2[p] = Item(V, again, p)
  <2> TAKE p \in 1 .. r
  <2>1. q[p] = Item(V, again, p) BY DEF Real
  <2>2. p \in 1 .. Len(q)
    <3> DEFINE l == Len(q)
    <3>1. l \in Nat /\ r \in 0 .. l BY <1>1
    <3> HIDE DEF l
    <3>2. p \in 1 .. l BY <3>1
    <3> QED BY <3>2 DEF l
  <2> QED BY <1>1, <2>1, <2>2
<1>3. CASE v = Zero /\ ended
  <2>1. \A p \in r + 1 .. Len(q2) : q2[p] = Zero
    <3> TAKE p \in r + 1 .. Len(q2)
    <3>1. CASE p = Len(q) + 1 BY <1>1, <1>3, <3>1
    <3>2. CASE p # Len(q) + 1
      <4>1. p \in 1 .. Len(q) /\ p \in r + 1 .. Len(q)
        <5> DEFINE l == Len(q)
        <5>1. l \in Nat /\ r \in 0 .. l /\ p \in r + 1 .. l + 1 /\ p # l + 1 BY <1>1, <3>2
        <5> HIDE DEF l
        <5>2. p \in 1 .. l /\ p \in r + 1 .. l BY <5>1
        <5> QED BY <5>2 DEF l
      <4> QED BY <1>1, <4>1 DEF Real
    <3> QED BY <3>1, <3>2
  <2>2. s.pc # "send" BY <1>3
  <2>3. r \in 0 .. Len(q2) BY <1>1
  <2>4. Real(V, again, q2, t2, s, ended, r)
    BY <1>2, <1>3, <2>1, <2>2 DEF Real
  <2> QED BY <2>3, <2>4 DEF q2
<1>4. CASE ~(v = Zero /\ ended)
  <2>1. v = Item(V, again, r + 1) /\ r = Len(q) /\ (~again => r < Len(V))
    BY <1>4 DEF Real
  <2>2. r + 1 \in 0 .. Len(q2) /\ r \in Nat BY <1>1, <2>1
  <2>3. \A p \in 1 .. r + 1 : q2[p] = Item(V, again, p)
    <3> TAKE p \in 1 .. r + 1
    <3>1. CASE p = r + 1 BY <1>1, <2>1, <3>1
    <3>2. CASE p # r + 1
      <4>1. p \in 1 .. r BY <2>2, <3>2
      <4> QED BY <1>2, <4>1
    <3> QED BY <3>1, <3>2
  <2>4. \A p \in (r + 1) + 1 .. Len(q2) : FALSE BY <1>1, <2>1
  <2>5. ~(r + 1 < Len(q2)) BY <1>1, <2>1
  <2>6. Handing(t2, r + 1) = Handing(t, r) BY DEF Handing
  <2>7. ~again => r + 1 <= Len(V)
    <3>1. r \in Nat /\ Len(V) \in Nat BY <2>2, LenProperties
    <3>2. r < Len(V) => r + 1 <= Len(V) BY <3>1
    <3> QED BY <2>1, <3>2
  <2>8. t2.pc \in {"recv", "send"} /\ s.pc = "send" =>
          Len(V) - Len(s.todo)
            = 1 + (IF again THEN Handing(t2, r + 1) % Len(V) ELSE Handing(t2, r + 1))
    BY <2>6 DEF Real
  <2>9. Real(V, again, q2, t2, s, ended, r + 1)
    BY <2>3, <2>4, <2>5, <2>7, <2>8 DEF Real
  <2> QED BY <2>2, <2>9 DEF q2
<1> QED BY <1>3, <1>4


(* At first the consumer has none and the generator offers its first. *)
LEMMA RealStart ==
    ASSUME NEW V \in Seq(Nat), V # <<>>, NEW again \in BOOLEAN, NEW q \in Seq(Nat), q = <<>>,
           NEW t, t.pc # "send", NEW s, s.todo = Tail(V), NEW ended
    PROVE  Real(V, again, q, t, s, ended, 0)
<1>1. Len(q) = 0 BY EmptySeq
<1>2. Len(V) \in Nat \ {0} /\ Len(Tail(V)) = Len(V) - 1
  BY HeadTailProperties, EmptySeq, LenProperties
<1>3. Handing(t, 0) = 0 BY DEF Handing
<1> DEFINE l == Len(V)
           k == Len(s.todo)
<1>4. l \in Nat \ {0} /\ k = l - 1 BY <1>2
<1> HIDE DEF l, k
<1>5. 0 % l = 0 BY <1>4, ModRange
<1>6. l - k = 1 + 0 /\ 0 <= l BY <1>4
<1>7. l - k = 1 + (IF again THEN Handing(t, 0) % l ELSE Handing(t, 0)) BY <1>3, <1>5, <1>6
<1>8. /\ \A p \in 1 .. 0 : FALSE
      /\ \A p \in 0 + 1 .. Len(q) : FALSE
      /\ ~(0 < Len(q))
  BY <1>1
<1> QED BY <1>6, <1>7, <1>8 DEF Real, l, k

TakeNetIs ==
    /\ Goroutines = {"gen1", "take", "con1"} /\ Consumers = {"con1"}
    /\ Kind("take") = "take" /\ Kind("con1") = "consumer"
    /\ Kind("gen1") = IF net = "repeat" THEN "repeat" ELSE "generate"
    /\ Out("gen1") = {"a"} /\ Out("take") = {"x"}
    /\ In("take") = {"a"} /\ In("con1") = {"x"}

(* Its input is closed only when the generator has left. *)
LEMMA TakesFrom ==
    ASSUME StagesInv, net \in {"take", "repeat"}
    PROVE  /\ TakeNetIs
           /\ st["gen1"] \in LocalStates /\ st["take"] \in LocalStates
           /\ st["gen1"].pc \in {"send", "exit", "done"}
           /\ st["take"].pc = "recv" => st["take"].from = {"a"}
           /\ got["con1"] \in Seq(Nat)
           /\ "a" \in closed => st["gen1"].pc # "send"
           /\ Conserved <=> Len(got["con1"]) + st["take"].n = limit
<1>1. TakeNetIs BY TakeNet, RepeatNet DEF TakeNetIs, Consumers, AllConsumers
<1>2. \A g \in Goroutines : LocalOK(g, st[g]) BY DEF StagesInv, AllLocalOK
<1>3. st["gen1"] \in LocalStates /\ st["take"] \in LocalStates
  BY <1>1, <1>2 DEF LocalOK, LocalStates, TakeNetIs
<1>4. st["gen1"].pc \in {"send", "exit", "done"} BY <1>1, <1>2, PointsOf DEF LocalOK, TakeNetIs
<1>5. st["take"].pc = "recv" => st["take"].from = {"a"} BY <1>1, <1>2 DEF LocalOK, TakeNetIs
<1>6. got["con1"] \in Seq(Nat) BY <1>1 DEF StagesInv, GotTyped, TakeNetIs
<1>7. ASSUME "a" \in closed PROVE st["gen1"].pc # "send"
  <2>1. PICK h \in Goroutines : "a" \in Out(h) /\ st[h].pc = "done" BY <1>7, ClosedByOwner
  <2>2. h # "take" BY <1>1, <2>1 DEF TakeNetIs
  <2>3. h # "con1"
    <3>1. Out("con1") = {} BY TakeNet, RepeatNet
    <3> QED BY <2>1, <3>1
  <2> QED BY <1>1, <2>1, <2>2, <2>3 DEF TakeNetIs
<1>8. Conserved <=> Len(got["con1"]) + st["take"].n = limit BY DEF Conserved, Total
<1> QED BY <1>1, <1>3, <1>4, <1>5, <1>6, <1>7, <1>8

LEMMA TakenInit ==
    ASSUME Init, StagesInv
    PROVE  Taken
<1> SUFFICES ASSUME net \in {"take", "repeat"}
             PROVE  /\ Len(got["con1"]) + st["take"].n = limit
                    /\ Real(Values["gen1"], net = "repeat", got["con1"], st["take"],
                            st["gen1"], "a" \in closed, 0)
                    /\ 0 \in 0 .. Len(got["con1"])
  BY DEF Taken
<1>1. TakeNetIs /\ got["con1"] \in Seq(Nat) /\ st["take"] \in LocalStates BY TakesFrom
<1>2. got["con1"] = <<>> /\ Len(got["con1"]) = 0 BY <1>1, EmptySeq DEF Init, TakeNetIs
<1>3. NetOK BY DEF StagesInv
<1>4. st["take"].n = limit /\ st["take"].pc # "send" /\ limit \in Nat
  <2>1. st["take"] = Start("take") BY <1>1 DEF Init, TakeNetIs
  <2>2. Start("take").n = limit BY <1>1, <1>3, StartOf DEF TakeNetIs
  <2>3. st["take"].pc # "send"
    <3>0. "take" \notin Range(Inner) BY DEF Range, Inner
    <3>1. "take" # "lister" /\ Kind("take") \notin {"generate", "repeat", "source", "signal", "joiner"}
      BY <1>1 DEF TakeNetIs
    <3>2. Start("take") = NextRound("take", [Local("recv") EXCEPT !.n = limit])
      BY <1>1, <3>0, <3>1 DEF Start, TakeNetIs
    <3>3. Start("take").pc # "send" BY <3>2 DEF NextRound, Leaving, Receiving, Local
    <3> QED BY <2>1, <3>3
  <2> QED BY <1>3, <2>1, <2>2, <2>3, ConstantsAssumption DEF NetOK
<1>5. st["gen1"].todo = Tail(Values["gen1"])
  <2>1. st["gen1"] = Start("gen1") BY <1>1 DEF Init, TakeNetIs
  <2>2. "gen1" # "lister" /\ Kind("gen1") \in Senders BY <1>1 DEF TakeNetIs, Senders
  <2> QED BY <1>1, <1>3, <2>1, <2>2, StartOf DEF TakeNetIs
<1>6. (net = "repeat") \in BOOLEAN OBVIOUS
<1>7. Real(Values["gen1"], net = "repeat", got["con1"], st["take"], st["gen1"], "a" \in closed, 0)
  BY <1>1, <1>2, <1>4, <1>5, <1>6, SourcesSend, RealStart
<1> QED BY <1>2, <1>4, <1>7


(* A step that hands nothing over; of a closed channel Take gets a zero.   *)
LEMMA TakenOn ==
    ASSUME StagesInv, net \in {"take", "repeat"}, Taken,
           net' = net, limit' = limit, got' = got, closed \subseteq closed',
           st'["take"].n = st["take"].n,
           \/ st'["take"] = st["take"]
           \/ st'["take"].pc \notin {"recv", "send"}
           \/ /\ st'["take"].pc = "send" /\ st'["take"].val = Zero /\ "a" \in closed
              /\ st'["gen1"] = st["gen1"],
           st'["gen1"] = st["gen1"] \/ st'["gen1"].pc # "send"
    PROVE  Taken'
<1> DEFINE V == Values["gen1"]
           again == (net = "repeat")
           q == got["con1"]
           ended == ("a" \in closed)
           ended2 == ("a" \in closed')
<1>1. ended => st["gen1"].pc # "send" BY TakesFrom
<1>2. Len(q) + st["take"].n = limit
      /\ \E r \in 0 .. Len(q) : Real(V, again, q, st["take"], st["gen1"], ended, r)
  BY DEF Taken
<1>3. PICK r \in 0 .. Len(q) : Real(V, again, q, st["take"], st["gen1"], ended, r) BY <1>2
<1>4. ended => ended2 OBVIOUS
<1>5. again' = again /\ q' = q /\ ended2 = ("a" \in closed)' OBVIOUS
<1> HIDE DEF V, again, q, ended, ended2
<1>6. Real(V, again, q, st'["take"], st'["gen1"], ended2, r)
  <2>1. CASE st'["take"] = st["take"] \/ st'["take"].pc \notin {"recv", "send"}
    BY <1>3, <1>4, <2>1, RealKept
  <2>2. CASE st'["take"].pc = "send" /\ st'["take"].val = Zero /\ ended
             /\ st'["gen1"] = st["gen1"]
    <3>1. Real(V, again, q, st'["take"], st["gen1"], ended, r)
      BY <1>1, <1>3, <2>2, RealEnded
    <3> QED BY <1>4, <2>2, <3>1, RealKept
  <2> QED BY <2>1, <2>2 DEF ended
<1>7. Len(q) + st'["take"].n = limit BY <1>2
<1> QED BY <1>6, <1>7 DEF Taken, V, again, q, ended, ended2

LEMMA TakenNoneHanded ==
    ASSUME StagesInv, net \in {"take", "repeat"}, Taken,
           \/ \E g \in Goroutines : Join(g) \/ Exit(g) \/ Fire(g) \/ Heed(g) \/ \E c : Exhausted(g, c)
           \/ Cancel \/ UNCHANGED vars
    PROVE  Taken'
<1>1. /\ TakeNetIs
      /\ st["gen1"] \in LocalStates /\ st["take"] \in LocalStates
      /\ st["gen1"].pc \in {"send", "exit", "done"}
      /\ st["take"].pc = "recv" => st["take"].from = {"a"}
  BY TakesFrom
<1>2. NetOK /\ DOMAIN st = Goroutines /\ \A g \in Goroutines : LocalOK(g, st[g])
  BY DEF StagesInv, AllLocalOK
<1>3. ASSUME NEW g \in Goroutines, Join(g) \/ Fire(g) PROVE FALSE
  BY <1>1, <1>3 DEF Join, Fire, TakeNetIs
<1>4. ASSUME NEW g \in Goroutines, Exit(g) PROVE Taken'
  <2> DEFINE t == [st[g] EXCEPT !.pc = "done"]
  <2>1. /\ st' = [st EXCEPT ![g] = t] /\ closed \subseteq closed'
        /\ net' = net /\ limit' = limit /\ got' = got
    BY <1>4 DEF Exit
  <2>2. g \in {"gen1", "take"} => t.pc = "done" /\ t.n = st[g].n BY <1>1 DEF LocalStates
  <2> HIDE DEF t
  <2>3. /\ g = "gen1" => st'["gen1"] = t /\ st'["take"] = st["take"]
        /\ g = "take" => st'["take"] = t /\ st'["gen1"] = st["gen1"]
        /\ g \notin {"gen1", "take"} => st'["gen1"] = st["gen1"] /\ st'["take"] = st["take"]
    BY <1>1, <1>2, <2>1 DEF TakeNetIs
  <2>4. CASE g = "gen1" BY <2>1, <2>2, <2>3, <2>4, TakenOn
  <2>5. CASE g = "take" BY <2>1, <2>2, <2>3, <2>5, TakenOn
  <2>6. CASE g \notin {"gen1", "take"} BY <2>1, <2>3, <2>6, TakenOn
  <2> QED BY <2>4, <2>5, <2>6
<1>5. ASSUME NEW g \in Goroutines, NEW c, Exhausted(g, c) PROVE Taken'
  <2>1. /\ st' = [st EXCEPT ![g] = AtEnd(g)] /\ closed' = closed
        /\ net' = net /\ limit' = limit /\ got' = got
        /\ st[g].pc = "recv" /\ c \in st[g].from /\ c \in closed
    BY <1>5 DEF Exhausted, Awaits
  <2>2. g # "gen1" BY <1>1, <2>1
  <2>3. CASE g = "take"
    <3>1. "a" \in closed BY <1>1, <2>1, <2>3
    <3>2. AtEnd("take") = Received("take", Zero) /\ ~BridgeLists("take")
      BY <1>1 DEF AtEnd, BridgeLists, TakeNetIs
    <3>3. /\ AtEnd("take").pc = "send" /\ AtEnd("take").val = Zero
          /\ AtEnd("take").n = st["take"].n
      BY <1>1, <3>2 DEF Received, LocalStates, TakeNetIs
    <3>4. st'["take"] = AtEnd("take") /\ st'["gen1"] = st["gen1"]
      BY <1>1, <1>2, <2>1, <2>3 DEF TakeNetIs
    <3> QED BY <2>1, <3>1, <3>3, <3>4, TakenOn
  <2>4. CASE g # "take"
    <3>1. st'["take"] = st["take"] /\ st'["gen1"] = st["gen1"]
      BY <1>1, <1>2, <2>1, <2>2, <2>4 DEF TakeNetIs
    <3> QED BY <2>1, <3>1, TakenOn
  <2> QED BY <2>3, <2>4
<1>6. ASSUME NEW g \in Goroutines, Heed(g) PROVE Taken'
  <2>1. /\ st' = [st EXCEPT ![g] = Heeded(g)] /\ closed' = closed
        /\ net' = net /\ limit' = limit /\ got' = got /\ Heeds(g)
    BY <1>6 DEF Heed
  <2>2. g # "con1" BY <1>1, <2>1 DEF Heeds, HeedsAt, TakeNetIs
  <2>3. Heeded(g) = Leaving(st[g]) BY <1>1, <2>2 DEF Heeded, TakeNetIs
  <2>4. Heeded(g).pc = "exit" /\ Heeded(g).n = st[g].n
    BY <1>1, <2>2, <2>3 DEF Leaving, LocalStates, TakeNetIs
  <2>5. CASE g = "gen1"
    <3>1. st'["gen1"] = Heeded(g) /\ st'["take"] = st["take"]
      BY <1>1, <1>2, <2>1, <2>5 DEF TakeNetIs
    <3> QED BY <2>1, <2>4, <3>1, TakenOn
  <2>6. CASE g = "take"
    <3>1. st'["take"] = Heeded(g) /\ st'["gen1"] = st["gen1"]
      BY <1>1, <1>2, <2>1, <2>6 DEF TakeNetIs
    <3> QED BY <2>1, <2>4, <2>6, <3>1, TakenOn
  <2> QED BY <1>1, <2>2, <2>5, <2>6 DEF TakeNetIs
<1>7. ASSUME Cancel \/ UNCHANGED vars PROVE Taken'
  <2>1. UNCHANGED <<net, st, closed, got, limit>> BY <1>7 DEF Cancel, vars
  <2> QED BY <2>1, TakenOn
<1> QED BY <1>3, <1>4, <1>5, <1>6, <1>7

LEMMA TakenHanded ==
    ASSUME StagesInv, Rest, net \in {"take", "repeat"}, Taken,
           NEW s \in Goroutines, NEW r \in Goroutines, NEW c, Transfer(s, r, c)
    PROVE  Taken'
<1>1. /\ TakeNetIs
      /\ st["gen1"] \in LocalStates /\ st["take"] \in LocalStates
      /\ got["con1"] \in Seq(Nat)
      /\ "a" \in closed => st["gen1"].pc # "send"
      /\ Conserved <=> Len(got["con1"]) + st["take"].n = limit
  BY TakesFrom
<1>2. Handed(s, r, c) BY HandedOn
<1>3. net' = net /\ limit' = limit /\ closed' = closed /\ c \notin closed BY DEF Transfer
<1>4. StagesInv'
  <2>1. Next BY DEF Next, Own, Transfer, Awaits
  <2> QED BY <2>1, StagesStep
<1>5. Len(got'["con1"]) + st'["take"].n = limit
  <2>1. Conserved BY <1>1 DEF Taken
  <2>2. Conserved' BY <2>1, TakeConserves
  <2> QED BY <1>3, <2>2 DEF Conserved, Total
<1> DEFINE V == Values["gen1"]
           again == (net = "repeat")
           q == got["con1"]
           ended == ("a" \in closed)
<1>6. PICK x \in 0 .. Len(q) : Real(V, again, q, st["take"], st["gen1"], ended, x)
  BY DEF Taken
<1>7. V \in Seq(Nat) /\ V # <<>> /\ Len(q) \in Nat BY <1>1, SourcesSend, LenProperties
<1>8. SUFFICES \E y \in 0 .. Len(got'["con1"]) :
                  Real(V, again, got'["con1"], st'["take"], st'["gen1"], ended, y)
  BY <1>3, <1>5 DEF Taken
<1>9. again \in BOOLEAN OBVIOUS
<1> HIDE DEF V, again, ended
<1>10. CASE s = "gen1" /\ r = "take"
  <2>1. /\ got' = got /\ st["take"].pc = "recv" /\ st["gen1"].pc = "send"
        /\ st'["gen1"] = Sent("gen1", c) /\ st'["take"] = Received("take", st["gen1"].val)
        /\ c = "a"
    BY <1>1, <1>2, <1>10 DEF Handed, TakeNetIs
  <2>2. ~ended BY <1>3, <2>1 DEF ended
  <2>3. RestOf(V, st["gen1"])
    <3>1. "gen1" \in Sources BY <1>1, SourcesAre DEF StagesInv, TakeNetIs
    <3> QED BY <3>1 DEF Rest, V
  <2>4. st["gen1"].todo \in Seq(Nat) BY <1>1 DEF LocalStates
  <2>5. st'["take"].pc = "send" /\ st'["take"].val = st["gen1"].val
    <3>1. ~BridgeLists("take") BY <1>1 DEF BridgeLists, TakeNetIs
    <3> QED BY <1>1, <2>1, <3>1 DEF Received, LocalStates, TakeNetIs
  <2>6. st'["gen1"].pc = "send" =>
           \/ st["gen1"].todo # <<>> /\ Len(st'["gen1"].todo) = Len(st["gen1"].todo) - 1
           \/ again /\ st["gen1"].todo = <<>> /\ Len(st'["gen1"].todo) = Len(V) - 1
    <3>1. ASSUME NEW todo \in Seq(Nat), todo # <<>>
          PROVE  Len(Sending("gen1", st["gen1"], todo).todo) = Len(todo) - 1
      <4>1. Sending("gen1", st["gen1"], todo).todo = Tail(todo)
        BY <1>1 DEF Sending, LocalStates
      <4> QED BY <3>1, <4>1, HeadTailProperties
    <3>2. CASE st["gen1"].todo # <<>>
      <4>1. Sent("gen1", c) = Sending("gen1", st["gen1"], st["gen1"].todo)
        BY <1>1, <3>2 DEF Sent, TakeNetIs
      <4> QED BY <2>1, <2>4, <3>1, <3>2, <4>1
    <3>3. CASE st["gen1"].todo = <<>> /\ again
      <4>1. Sent("gen1", c) = Sending("gen1", st["gen1"], V)
        BY <1>1, <3>3 DEF Sent, TakeNetIs, again, V
      <4> QED BY <1>7, <2>1, <3>1, <3>3, <4>1
    <3>4. CASE st["gen1"].todo = <<>> /\ ~again
      <4>1. Sent("gen1", c) = Leaving(st["gen1"]) BY <1>1, <3>4 DEF Sent, TakeNetIs, again
      <4>2. Leaving(st["gen1"]).pc = "exit" BY <1>1 DEF Leaving, LocalStates
      <4> QED BY <2>1, <4>1, <4>2
    <3> QED BY <3>2, <3>3, <3>4
  <2>7. Real(V, again, q, st'["take"], st'["gen1"], ended, x)
    BY <1>6, <1>7, <1>9, <2>1, <2>2, <2>3, <2>4, <2>5, <2>6, RealPicked
  <2> QED BY <2>1, <2>7
<1>11. CASE s = "take" /\ r = "con1"
  <2>1. /\ got'["con1"] = Append(q, st["take"].val) /\ st["take"].pc = "send"
        /\ st'["gen1"] = st["gen1"] /\ st'["take"] = Sent("take", c)
    <3>1. ~BridgeLists(r) BY <1>1, <1>11 DEF BridgeLists, TakeNetIs
    <3> QED BY <1>1, <1>2, <1>11, <3>1 DEF Handed, TakeNetIs
  <2>2. st["take"].val \in Nat BY <1>1 DEF LocalStates
  <2>3. st'["take"].pc # "send"
    <3>1. Sent("take", c) = NextRound("take", [st["take"] EXCEPT !.n = @ - 1])
      BY <1>1 DEF Sent, TakeNetIs
    <3>2. NextRound("take", [st["take"] EXCEPT !.n = @ - 1]).pc \in {"recv", "exit"}
      BY <1>1 DEF NextRound, Leaving, Receiving, LocalStates
    <3> QED BY <2>1, <3>1, <3>2
  <2>4. ended => st["gen1"].pc # "send" BY <1>1 DEF ended
  <2>5. q \in Seq(Nat) BY <1>1
  <2> HIDE DEF q
  <2>6. \E y \in 0 .. Len(Append(q, st["take"].val)) :
            Real(V, again, Append(q, st["take"].val), st'["take"], st["gen1"], ended, y)
    BY <1>6, <1>7, <2>1, <2>2, <2>3, <2>4, <2>5, RealDelivered
  <2> QED BY <2>1, <2>6
<1> QED BY <1>1, <1>2, <1>10, <1>11 DEF Handed, TakeNetIs


-----------------------------------------------------------------------------
(* Ordered is an invariant *)

LEMMA OneByOneInit ==
    ASSUME Init, NetOK
    PROVE  OneByOne
<1> SUFFICES ASSUME net = "bridge" PROVE OneByOne BY DEF OneByOne
<1>1. /\ {"bridge", "lister"} \subseteq Goroutines /\ Kind("bridge") = "bridge"
      /\ Consumers = {"con1"}
  BY BridgeNet DEF Consumers, AllConsumers
<1>2. /\ st["bridge"].from = {"s"} /\ st["lister"].val = 1
  BY <1>1, StartOf DEF Init
<1>3. ReceivedOf("con1", "gen1") = {} /\ ReceivedOf("con1", "gen2") = {}
  <2>1. got["con1"] = <<>> BY <1>1 DEF Init
  <2> QED BY <2>1 DEF ReceivedOf
<1>4. {"s"} # {"j"} OBVIOUS
<1> QED BY <1>2, <1>3, <1>4 DEF OneByOne

LEMMA OrderedInit ==
    ASSUME Init, StagesInv
    PROVE  Ordered
<1>1. NetOK BY DEF StagesInv
<1>2. Genuine BY DEF Genuine, Init
<1> QED BY <1>1, <1>2, RestInit, InFlightInit, TakenInit, OneByOneInit DEF Ordered

LEMMA OrderedStep ==
    ASSUME StagesInv, NothingLost, Ordered, [Next]_vars
    PROVE  Ordered'
<1>1. Rest /\ InFlight /\ Genuine /\ Taken /\ OneByOne /\ NetOK
  BY DEF Ordered, StagesInv
<1>2. StagesInv' BY StagesStep
<1>3. ASSUME NEW s \in Goroutines, NEW r \in Goroutines, NEW c, Transfer(s, r, c)
      PROVE  Ordered'
  <2>1. Rest' /\ InFlight' /\ Genuine' BY <1>1, <1>3, RestHanded, InFlightHanded, GenuineHanded
  <2>2. net' = net BY <1>3 DEF Transfer
  <2>3. Taken'
    <3>1. CASE net \in {"take", "repeat"} BY <1>1, <1>3, <3>1, TakenHanded
    <3>2. CASE net \notin {"take", "repeat"} BY <2>2, <3>2 DEF Taken
    <3> QED BY <3>1, <3>2
  <2>4. OneByOne'
    <3>1. CASE net = "bridge" BY <1>1, <1>3, <3>1, OneByOneHanded
    <3>2. CASE net # "bridge" BY <2>2, <3>2 DEF OneByOne
    <3> QED BY <3>1, <3>2
  <2> QED BY <2>1, <2>3, <2>4 DEF Ordered
<1>4. ASSUME \/ \E g \in Goroutines : \/ Join(g) \/ Exit(g) \/ Fire(g) \/ Heed(g)
                                      \/ \E c : Exhausted(g, c)
             \/ Cancel \/ UNCHANGED vars
      PROVE  Ordered'
  <2>1. NoneHanded BY <1>4, NoneHandedBy
  <2>2. net' = net /\ got' = got /\ Consumers' = Consumers BY <2>1, SameNet DEF NoneHanded
  <2>3. Rest' BY <1>1, <2>1, RestNoneHanded
  <2>4. InFlight' BY <1>1, <1>2, <2>1, InFlightOn
  <2>5. Genuine' BY <1>1, <2>2 DEF Genuine
  <2>6. Taken'
    <3>1. CASE net \in {"take", "repeat"} BY <1>1, <1>4, <3>1, TakenNoneHanded
    <3>2. CASE net \notin {"take", "repeat"} BY <2>2, <3>2 DEF Taken
    <3> QED BY <3>1, <3>2
  <2>7. OneByOne'
    <3>1. net = "bridge" => RangingOn BY <1>4, RangingOnBy
    <3> QED BY <1>1, <2>2, <3>1, OneByOneOn
  <2> QED BY <2>3, <2>4, <2>5, <2>6, <2>7 DEF Ordered
<1>5. CASE \E g \in Goroutines : Own(g) \/ Heed(g) \/ Fire(g)
  BY <1>3, <1>4, <1>5 DEF Own
<1>6. CASE Cancel \/ Terminated \/ UNCHANGED vars BY <1>4, <1>6 DEF Terminated
<1> QED BY <1>5, <1>6 DEF Next

LEMMA OrderedAlways == Spec => [](StagesInv /\ Ordered)
<1>1. Init => StagesInv /\ Ordered BY StagesInit, OrderedInit
<1>2. StagesInv /\ NothingLost /\ Ordered /\ [Next]_vars => Ordered' BY OrderedStep
<1> QED BY <1>1, <1>2, StagesAlways, NothingLostAlways, PTL DEF Spec

-----------------------------------------------------------------------------
(* and implies InOrder *)

LEMMA FlowsInOrder ==
    ASSUME StagesInv, Rest, NEW g, Feeds(g), NEW c \in Consumers, NEW near \in BOOLEAN, NEW n,
           NEW far \in BOOLEAN, NEW f, Flows(g, c, near, n, far, f)
    PROVE  \E u \in 0 .. Len(Source(g)) :
              InLine(Source(g), u, ReceivedOf(c, g), got[c], ~cancelled)
<1>1. Values[g] \in Seq(Nat) /\ Gone(g) \in 0 .. Len(Values[g]) /\ Len(Values[g]) \in Nat
  BY NextOf, LenProperties DEF Feeds
<1>2. Source(g) = Values[g] BY DEF Source, Feeds
<1>3. got[c] \in Seq(Nat) BY DEF StagesInv, GotTyped
<1>4. Flow(Values[g], Gone(g), got[c], near, st[n].val, far, st[f].val, ~cancelled)
  BY DEF Flows
<1>5. Gone(g) \in Nat /\ (~cancelled) \in BOOLEAN BY <1>1
<1>6. PICK x \in 0 .. Gone(g) :
          InLine(Values[g], x, {i \in DOMAIN got[c] : got[c][i] \in Range(Values[g])},
                 got[c], ~cancelled)
  BY ZenonT(40), <1>3, <1>4, <1>5, FlowReceived
<1>7. x \in 0 .. Len(Values[g]) BY <1>1
<1> QED BY <1>2, <1>6, <1>7 DEF ReceivedOf

(* Take's consumer: the first r are the first r of the source. *)
FirstOnes(V, again, q, ended, r, all) ==
    /\ {i \in DOMAIN q : q[i] \in Range(V)} = 1 .. r
    /\ \A S : (\A p \in 1 .. r : S[p] = Item(V, again, p)) => InLine(S, r, 1 .. r, q, all)
    /\ \A i \in DOMAIN q : q[i] = Zero => ended /\ \A j \in i .. Len(q) : q[j] = Zero

LEMMA RealInOrder ==
    ASSUME NEW V \in Seq(Nat), V # <<>>, Zero \notin Range(V), NEW again \in BOOLEAN,
           NEW q \in Seq(Nat), NEW t, NEW s, NEW ended, NEW r \in 0 .. Len(q),
           Real(V, again, q, t, s, ended, r), NEW all
    PROVE  FirstOnes(V, again, q, ended, r, all)
<1> DEFINE l == Len(V)
           m == Len(q)
<1>1. l \in Nat \ {0} /\ DOMAIN V = 1 .. l /\ m \in Nat /\ DOMAIN q = 1 .. m /\ r \in 0 .. m
  BY LenProperties, EmptySeq
<1>2. /\ ~again => r <= l
      /\ \A p \in 1 .. r : q[p] = Item(V, again, p)
      /\ \A p \in r + 1 .. m : q[p] = Zero
      /\ r < m => ended
  BY DEF Real
<1> HIDE DEF l, m
<1>3. \A p \in 1 .. r : Item(V, again, p) \in Range(V)
  <2> TAKE p \in 1 .. r
  <2>1. CASE again
    <3>1. p - 1 \in Nat BY <1>1
    <3>2. (p - 1) % l \in 0 .. l - 1 BY <1>1, <3>1, ModRange
    <3> DEFINE o == (p - 1) % l
    <3> HIDE DEF o
    <3>3. 1 + o \in 1 .. l BY <1>1, <3>2 DEF o
    <3>4. Item(V, again, p) = V[1 + o] BY <2>1 DEF Item, o, l
    <3> QED BY <1>1, <3>3, <3>4 DEF Range
  <2>2. CASE ~again
    <3>1. p \in 1 .. l BY <1>1, <1>2, <2>2
    <3> QED BY <1>1, <2>2, <3>1 DEF Range, Item
  <2> QED BY <2>1, <2>2
<1>4. \A p \in 1 .. m : p \in 1 .. r \/ p \in r + 1 .. m BY <1>1
<1>5. \A p \in 1 .. r : p \in 1 .. m BY <1>1
<1>6. {i \in DOMAIN q : q[i] \in Range(V)} = 1 .. r BY <1>1, <1>2, <1>3, <1>4, <1>5
<1>7. ASSUME NEW S, \A p \in 1 .. r : S[p] = Item(V, again, p)
      PROVE  InLine(S, r, 1 .. r, q, all)
  <2> DEFINE at == [p \in 1 .. r |-> p]
  <2>1. at \in [1 .. r -> 1 .. r] OBVIOUS
  <2>2. \A i, j \in 1 .. r : i < j => at[i] < at[j] OBVIOUS
  <2>3. \A i \in 1 .. r : q[i] = S[at[i]] BY <1>2, <1>7
  <2>4. \A k \in 1 .. r : \E i \in 1 .. r : at[i] = k OBVIOUS
  <2> HIDE DEF at
  <2> QED BY <2>1, <2>2, <2>3, <2>4 DEF InLine
<1>8. ASSUME NEW i \in DOMAIN q, q[i] = Zero
      PROVE  ended /\ \A j \in i .. m : q[j] = Zero
  <2>1. i \in r + 1 .. m BY <1>1, <1>2, <1>3, <1>4, <1>8
  <2>2. r < m /\ \A j \in i .. m : j \in r + 1 .. m BY <1>1, <2>1
  <2> QED BY <1>2, <2>2
<1> QED BY <1>6, <1>7, <1>8 DEF m, FirstOnes


LEMMA TakeInOrder ==
    ASSUME StagesInv, Taken, net \in {"take", "repeat"}, NEW c \in Consumers
    PROVE  /\ \A g \in Sources : \E u \in 0 .. Len(Source(g)) :
                  InLine(Source(g), u, ReceivedOf(c, g), got[c], ~cancelled)
           /\ \A i \in DOMAIN got[c] :
                  got[c][i] = Zero => /\ "a" \in closed
                                      /\ \A j \in i .. Len(got[c]) : got[c][j] = Zero
<1>1. TakeNetIs /\ got["con1"] \in Seq(Nat) /\ st["take"] \in LocalStates BY TakesFrom
<1>2. c = "con1" BY <1>1 DEF TakeNetIs
<1> DEFINE V == Values["gen1"]
           again == (net = "repeat")
           q == got["con1"]
<1>3. PICK r \in 0 .. Len(q) : Real(V, again, q, st["take"], st["gen1"], "a" \in closed, r)
  BY DEF Taken
<1>4. V \in Seq(Nat) /\ V # <<>> /\ Zero \notin Range(V) /\ again \in BOOLEAN
  <2>1. V \in Seq(Nat \ {Zero}) BY ConstantsAssumption
  <2>2. \A i \in 1 .. Len(V) : V[i] # Zero BY <2>1, ElementOfSeq
  <2>3. DOMAIN V = 1 .. Len(V) BY <2>1, LenProperties
  <2> QED BY <2>2, <2>3, SourcesSend DEF Range
<1>5. Len(q) \in Nat /\ limit \in Nat /\ st["take"].n \in Nat /\ Len(q) + st["take"].n = limit
  <2>1. limit \in Nat BY ConstantsAssumption DEF StagesInv, NetOK
  <2> QED BY <1>1, <2>1, LenProperties DEF Taken, LocalStates
<1>6. /\ {i \in DOMAIN q : q[i] \in Range(V)} = 1 .. r
      /\ \A S : (\A p \in 1 .. r : S[p] = Item(V, again, p)) => InLine(S, r, 1 .. r, q, ~cancelled)
      /\ \A i \in DOMAIN q : q[i] = Zero =>
            "a" \in closed /\ \A j \in i .. Len(q) : q[j] = Zero
  <2> DEFINE ended == ("a" \in closed)
             all == ~cancelled
  <2>1. q \in Seq(Nat) /\ Real(V, again, q, st["take"], st["gen1"], ended, r)
    BY <1>1, <1>3
  <2> HIDE DEF V, again, q, ended, all
  <2>2. FirstOnes(V, again, q, ended, r, all) BY <1>3, <1>4, <2>1, RealInOrder
  <2> QED BY <2>2 DEF ended, all, FirstOnes
<1>7. ASSUME NEW g \in Sources
      PROVE  \E u \in 0 .. Len(Source(g)) :
                InLine(Source(g), u, ReceivedOf(c, g), got[c], ~cancelled)
  <2>1. g = "gen1" BY <1>1, SourcesAre DEF TakeNetIs, Sources, StagesInv
  <2>2. ReceivedOf(c, g) = 1 .. r BY <1>2, <1>6, <2>1 DEF ReceivedOf
  <2> DEFINE S == Source(g)
  <2>3. r \in 0 .. Len(S) /\ \A p \in 1 .. r : S[p] = Item(V, again, p)
    <3>1. CASE again
      <4>1. S = [i \in 1 .. limit |-> V[1 + ((i - 1) % Len(V))]]
        BY <1>1, <2>1, <3>1 DEF Source, TakeNetIs
      <4>2. r \in 0 .. limit
        <5> DEFINE m == Len(q)
        <5>1. m \in Nat /\ r \in 0 .. m /\ m + st["take"].n = limit BY <1>5
        <5> HIDE DEF m
        <5> QED BY <1>5, <5>1
      <4>3. Len(S) = limit BY <1>5, <4>1
      <4>4. \A p \in 1 .. r : p \in 1 .. limit BY <1>5, <4>2
      <4> HIDE DEF V
      <4> QED BY <3>1, <4>1, <4>2, <4>3, <4>4 DEF Item
    <3>2. CASE ~again
      <4>1. S = V BY <1>1, <2>1, <3>2 DEF Source, TakeNetIs
      <4>2. r <= Len(V) /\ Len(V) \in Nat BY <1>3, <1>4, <3>2, LenProperties DEF Real
      <4> QED BY <3>2, <4>1, <4>2 DEF Item
    <3> QED BY <3>1, <3>2
  <2> HIDE DEF S
  <2>4. InLine(S, r, 1 .. r, q, ~cancelled) BY <1>6, <2>3
  <2> QED BY <1>2, <2>2, <2>3, <2>4 DEF S
<1> QED BY <1>2, <1>6, <1>7

LEMMA OrderedInOrder ==
    ASSUME StagesInv, Ordered
    PROVE  InOrder
<1>1. NetOK /\ Rest /\ InFlight /\ Genuine /\ Taken /\ OneByOne
  BY DEF StagesInv, Ordered
<1>2. ASSUME NEW c \in Consumers, NEW g \in Sources
      PROVE  \E u \in 0 .. Len(Source(g)) :
                InLine(Source(g), u, ReceivedOf(c, g), got[c], ~cancelled)
  <2>1. g \in Goroutines /\ g \in {"gen1", "gen2"} BY <1>1, SourcesAre DEF Sources
  <2>2. \A h : Sends(h) \in BOOLEAN /\ \A d : Ranges(h, d) \in BOOLEAN
    BY DEF Sends, Ranges
  <2>3. CASE net \in {"take", "repeat"} BY <1>1, <2>3, TakeInOrder
  <2>4. CASE net \in {"orDone", "silent"}
    <3>1. g = "gen1" /\ c = "con1" /\ Feeds(g)
      BY <2>1, <2>4, OrDoneNet, SilentNet DEF Consumers, AllConsumers, Feeds
    <3>2. Flows(g, c, Sends("orDone"), "orDone", FALSE, "orDone")
      BY <1>1, <2>4, <3>1 DEF InFlight
    <3> QED BY <1>1, <2>2, <3>1, <3>2, FlowsInOrder
  <2>5. CASE net = "fanIn"
    <3>1. c = "con1" /\ Feeds(g)
      BY <2>1, <2>5, FanInNet DEF Consumers, AllConsumers, Feeds
    <3>2. /\ Flows("gen1", "con1", Sends("merge1"), "merge1", FALSE, "merge1")
          /\ Flows("gen2", "con1", Sends("merge2"), "merge2", FALSE, "merge2")
      BY Zenon, <1>1, <2>5 DEF InFlight
    <3>3. CASE g = "gen1" BY <1>1, <2>2, <3>1, <3>2, <3>3, FlowsInOrder
    <3>4. CASE g = "gen2" BY <1>1, <2>2, <3>1, <3>2, <3>4, FlowsInOrder
    <3> QED BY <2>1, <3>3, <3>4
  <2>6. CASE net = "tee"
    <3>1. g = "gen1" /\ c \in {"con1", "con2"} /\ Feeds(g)
      BY <2>1, <2>6, TeeNet DEF Consumers, AllConsumers, Feeds
    <3>2. /\ Flows("gen1", "con1", "x" \in st["tee"].on, "tee", Sends("orDone"), "orDone")
          /\ Flows("gen1", "con2", "y" \in st["tee"].on, "tee", Sends("orDone"), "orDone")
      BY <1>1, <2>6 DEF InFlight
    <3>3. ("x" \in st["tee"].on) \in BOOLEAN /\ ("y" \in st["tee"].on) \in BOOLEAN OBVIOUS
    <3>4. CASE c = "con1" BY <1>1, <2>2, <3>1, <3>2, <3>3, <3>4, FlowsInOrder
    <3>5. CASE c = "con2" BY <1>1, <2>2, <3>1, <3>2, <3>3, <3>5, FlowsInOrder
    <3> QED BY <3>1, <3>4, <3>5
  <2>7. CASE net = "bridge"
    <3>1. c = "con1" /\ Feeds(g)
      BY <2>1, <2>7, BridgeNet DEF Consumers, AllConsumers, Feeds
    <3>2. /\ Flows("gen1", "con1", Ranges("bridge", "i"), "bridge", Sends("inner1"), "inner1")
          /\ Flows("gen2", "con1", Ranges("bridge", "j"), "bridge", Sends("inner2"), "inner2")
      BY <1>1, <2>7 DEF InFlight
    <3>3. CASE g = "gen1" BY <1>1, <2>2, <3>1, <3>2, <3>3, FlowsInOrder
    <3>4. CASE g = "gen2" BY <1>1, <2>2, <3>1, <3>2, <3>4, FlowsInOrder
    <3> QED BY <2>1, <3>3, <3>4
  <2>8. CASE net = "or" BY <2>1, <2>8, OrNet
  <2> QED BY <1>1, <2>3, <2>4, <2>5, <2>6, <2>7, <2>8, NetworkNames DEF NetOK
<1>3. ASSUME NEW c \in Consumers, NEW i \in DOMAIN got[c], got[c][i] = Zero
      PROVE  /\ net \in {"take", "repeat"} /\ "a" \in closed
             /\ \A j \in i .. Len(got[c]) : got[c][j] = Zero
  <2>1. net \in {"take", "repeat"}
    <3>1. \A g \in {"gen1", "gen2"} : Zero \notin Range(Values[g])
      <4> TAKE g \in {"gen1", "gen2"}
      <4>1. Values[g] \in Seq(Nat \ {Zero}) BY ConstantsAssumption
      <4>2. \A k \in 1 .. Len(Values[g]) : Values[g][k] # Zero BY <4>1, ElementOfSeq
      <4>3. DOMAIN Values[g] = 1 .. Len(Values[g]) BY <4>1, LenProperties
      <4> QED BY <4>2, <4>3 DEF Range
    <3>2. net \notin {"take", "repeat"} =>
            got[c][i] \in Range(Values["gen1"]) \cup Range(Values["gen2"])
      BY <1>1 DEF Genuine
    <3> QED BY <1>3, <3>1, <3>2
  <2> QED BY <1>1, <1>3, <2>1, TakeInOrder
<1>4. ASSUME NEW c \in Consumers, net = "bridge"
      PROVE  \A i, j \in DOMAIN got[c] :
                got[c][i] \in Range(Values["gen1"]) /\ got[c][j] \in Range(Values["gen2"]) => i < j
  <2>1. c = "con1" BY <1>4, BridgeNet DEF Consumers, AllConsumers
  <2>2. \A i \in ReceivedOf("con1", "gen1"), j \in ReceivedOf("con1", "gen2") : i < j
    BY <1>1, <1>4 DEF OneByOne
  <2> QED BY <2>1, <2>2 DEF ReceivedOf
<1> QED BY <1>2, <1>3, <1>4 DEF InOrder

(* Nothing is invented, duplicated or reordered on the way through the     *)
(* stages of any network: a consumer has a prefix of what each generator   *)
(* sends while the context is live and a subsequence of it once OrDone and *)
(* Bridge may drop what they hold (channel.go:177-180, 237-240); only Take *)
(* adds anything, zeros after the last real value and after its source has *)
(* closed (89-95); Bridge delivers one stream after the other.             *)
THEOREM StagesInOrder == Spec => []InOrder
  BY OrderedInOrder, OrderedAlways, PTL
=============================================================================
