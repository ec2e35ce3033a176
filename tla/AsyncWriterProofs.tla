------------------------- MODULE AsyncWriterProofs -------------------------
(***************************************************************************)
(* Theorems about AsyncWriter, for any sets of goroutines, any capacity of *)
(* the channel and any number of calls: its types and phases, that the     *)
(* pending counter covers the records underway, that Close keeps what was  *)
(* queued before, that it implements LogSink, that every call of Write     *)
(* hands its record over exactly once, and that until Close is called the  *)
(* records of a goroutine keep their order.                                *)
(***************************************************************************)
EXTENDS AsyncWriter, TLAPS, SequenceTheorems, FiniteSetTheorems

-----------------------------------------------------------------------------
(* Sequences *)

LEMMA EmptyIsSeq == \A S : <<>> \in Seq(S)
BY EmptySeq

LEMMA NonEmpty == \A s : Len(s) = 1 => s # <<>>
OBVIOUS

LEMMA RangeEmpty == Range(<<>>) = {}
BY DEF Range

LEMMA RangeOne == \A e : Range(<<e>>) = {e}
BY DEF Range

LEMMA RangeAppend ==
    ASSUME NEW S, NEW s \in Seq(S), NEW e \in S
    PROVE  Range(Append(s, e)) = Range(s) \cup {e}
<1>1. Append(s, e) = s \o <<e>> BY AppendIsConcat
<1>2. <<e>> \in Seq(S) OBVIOUS
<1>3. Range(s \o <<e>>) = Range(s) \cup Range(<<e>>)
  BY <1>2, RangeConcatenation
<1> QED BY <1>1, <1>3, RangeOne, Zenon

LEMMA HeadThenTail ==
    ASSUME NEW S, NEW s \in Seq(S), s # <<>>
    PROVE  /\ <<Head(s)>> \in Seq(S)
           /\ <<Head(s)>> \o Tail(s) = s
<1>1. Head(s) \in S /\ Tail(s) \in Seq(S) BY HeadTailProperties
<1>2. <<Head(s)>> \in Seq(S) BY <1>1
<1>3. /\ s \in [1 .. Len(s) -> S] /\ Len(s) \in Nat \ {0}
      /\ Head(s) = s[1]
  BY LenProperties, EmptySeq
<1>4. Len(<<Head(s)>> \o Tail(s)) = Len(s)
  BY <1>1, <1>2, <1>3, ConcatProperties, HeadTailProperties
<1>5. \A i \in 1 .. Len(s) : (<<Head(s)>> \o Tail(s))[i] = s[i]
  <2> SUFFICES ASSUME NEW i \in 1 .. Len(s)
               PROVE  (<<Head(s)>> \o Tail(s))[i] = s[i]
    OBVIOUS
  <2>1. CASE i = 1 BY <2>1, <1>1, <1>2, <1>3, ConcatProperties, HeadTailProperties
  <2>2. CASE i # 1
    <3>1. /\ i - 1 \in 1 .. Len(Tail(s))
          /\ Len(Tail(s)) = Len(s) - 1
          /\ Tail(s)[i - 1] = s[(i - 1) + 1]
      BY <2>2, <1>3, HeadTailProperties
    <3>2. (<<Head(s)>> \o Tail(s))[i] = Tail(s)[i - 1]
      BY <2>2, <3>1, <1>1, <1>2, <1>3, ConcatProperties
    <3> QED BY <3>1, <3>2, <1>3
  <2> QED BY <2>1, <2>2
<1>6. <<Head(s)>> \o Tail(s) \in Seq(S) BY <1>1, <1>2, ConcatProperties
<1> QED BY <1>2, <1>4, <1>5, <1>6, SeqEqual

LEMMA RangeHeadTail ==
    ASSUME NEW S, NEW s \in Seq(S), s # <<>>
    PROVE  Range(s) = {Head(s)} \cup Range(Tail(s))
<1>1. Tail(s) \in Seq(S) BY HeadTailProperties
<1>2. Range(<<Head(s)>> \o Tail(s)) = Range(<<Head(s)>>) \cup Range(Tail(s))
  <2>1. <<Head(s)>> \in Seq(S) BY HeadThenTail
  <2>2. \A t1, t2 \in Seq(S) : Range(t1 \o t2) = Range(t1) \cup Range(t2)
    BY RangeConcatenation
  <2> QED BY <1>1, <2>1, <2>2, Zenon
<1>3. <<Head(s)>> \o Tail(s) = s BY HeadThenTail
<1>4. Range(<<Head(s)>>) = {Head(s)} BY RangeOne, Zenon
<1> QED BY <1>2, <1>3, <1>4, Zenon

-----------------------------------------------------------------------------
(* Types *)

(* The record of a call of Write that still carries it is a record. *)
LEMMA RecIsRecord ==
    ASSUME TypeOK, NEW p \in Loggers, Carrying(p)
    PROVE  Rec(p) \in Records
BY ConstantsAssumption DEF TypeOK, Rec, Records

LEMMA TypeLogger ==
    ASSUME TypeOK, NEW p \in Loggers, LoggerStep(p)
    PROVE  TypeOK'
<1> USE ConstantsAssumption DEF TypeOK, Goto, writerVars, callVars, runVars, sinkVars,
                                LoggerLabels, CloserLabels, Carrying
<1>1. CASE WriteBegin(p) BY <1>1 DEF WriteBegin
<1>2. CASE Send(p)
  <2>1. Rec(p) \in Records BY <1>2, RecIsRecord DEF Send, Sending
  <2>2. /\ Append(ch, Rec(p)) \in Seq(Records)
        /\ Len(Append(ch, Rec(p))) = Len(ch) + 1
    BY <2>1, AppendProperties
  <2> QED BY <1>2, <2>1, <2>2 DEF Send
<1>3. CASE SendOnClosed(p) BY <1>3 DEF SendOnClosed
<1>4. CASE SendCancelled(p) BY <1>4 DEF SendCancelled, Sending
<1>5. CASE WriteBlocks(p) BY <1>5 DEF WriteBlocks
<1>6. CASE CountPending(p) BY <1>6 DEF CountPending
<1>7. CASE DirectWrite(p)
  <2>1. Rec(p) \in Records BY <1>7, RecIsRecord DEF DirectWrite
  <2>2. /\ Append(sink, Rec(p)) \in Seq(Records)
        /\ Len(Append(sink, Rec(p))) = Len(sink) + 1
    BY <2>1, AppendProperties
  <2> QED BY <1>7, <2>2, LenProperties DEF DirectWrite
<1>8. CASE SyncBegin(p) BY <1>8 DEF SyncBegin
<1>9. CASE SyncSignal(p) BY <1>9 DEF SyncSignal
<1>10. CASE SyncPoll(p) BY <1>10 DEF SyncPoll
<1>11. CASE SyncTick(p) BY <1>11 DEF SyncTick
<1>12. CASE SyncTimeout(p) BY <1>12 DEF SyncTimeout
<1>13. CASE SyncCancelled(p) BY <1>13 DEF SyncCancelled
<1>14. CASE SyncFlush(p) BY <1>14, LenProperties DEF SyncFlush
<1> QED BY <1>1, <1>2, <1>3, <1>4, <1>5, <1>6, <1>7, <1>8, <1>9, <1>10, <1>11,
           <1>12, <1>13, <1>14 DEF LoggerStep

LEMMA TypeCloser ==
    ASSUME TypeOK, NEW c \in Closers, CloserStep(c)
    PROVE  TypeOK'
<1> USE ConstantsAssumption DEF TypeOK, Goto, writerVars, callVars, runVars, sinkVars,
                                LoggerLabels, CloserLabels, Carrying
<1>1. CASE CloseCall(c) BY <1>1 DEF CloseCall
<1>2. CASE CloseBegin(c) BY <1>2 DEF CloseBegin
<1>3. CASE CloseAgain(c) BY <1>3 DEF CloseAgain
<1>4. CASE CloseCancel(c) BY <1>4 DEF CloseCancel
<1>5. CASE CloseChannel(c) BY <1>5 DEF CloseChannel
<1>6. CASE CloseJoin(c) BY <1>6 DEF CloseJoin
<1>7. CASE CloseSync(c) BY <1>7, LenProperties DEF CloseSync
<1> QED BY <1>1, <1>2, <1>3, <1>4, <1>5, <1>6, <1>7 DEF CloserStep

LEMMA TypeRun ==
    ASSUME TypeOK, RunStep
    PROVE  TypeOK'
<1> USE ConstantsAssumption DEF TypeOK, writerVars, callVars, sinkVars, Carrying
<1>1. CASE Receive
  <2>1. /\ Head(ch) \in Records
        /\ Tail(ch) \in Seq(Records)
        /\ Len(Tail(ch)) = Len(ch) - 1
    BY <1>1, HeadTailProperties DEF Receive
  <2>2. Len(ch) \in Nat BY LenProperties
  <2> QED BY <1>1, <2>1, <2>2 DEF Receive
<1>2. CASE ReceiveClosed BY <1>2 DEF ReceiveClosed
<1>3. CASE ReceiveSync BY <1>3 DEF ReceiveSync, runVars
<1>4. CASE StartDraining BY <1>4 DEF StartDraining
<1>5. CASE Drained BY <1>5 DEF Drained
<1>6. CASE WriteOut
  <2>1. hand # <<>> BY <1>6, NonEmpty DEF WriteOut
  <2>2. Head(hand) \in Records BY <2>1, HeadTailProperties
  <2>3. /\ Append(sink, Head(hand)) \in Seq(Records)
        /\ Len(Append(sink, Head(hand))) = Len(sink) + 1
    BY <2>2, AppendProperties
  <2> QED BY <1>6, <2>3, EmptyIsSeq, LenProperties DEF WriteOut
<1>7. CASE UncountPending BY <1>7 DEF UncountPending
<1> QED BY <1>1, <1>2, <1>3, <1>4, <1>5, <1>6, <1>7 DEF RunStep

LEMMA TypeStep == TypeOK /\ [Next]_vars => TypeOK'
<1> SUFFICES ASSUME TypeOK, [Next]_vars PROVE TypeOK'
  OBVIOUS
<1>1. CASE UNCHANGED vars BY <1>1 DEF TypeOK, vars, Carrying
<1> QED BY <1>1, TypeLogger, TypeCloser, TypeRun DEF Next, Terminated

LEMMA TypeInit == Init => TypeOK
<1> SUFFICES ASSUME Init PROVE TypeOK
  OBVIOUS
<1>1. ch \in Seq(Records) /\ sink \in Seq(Records) /\ hand \in Seq(Records)
  BY EmptyIsSeq DEF Init
<1>2. /\ pc \in [Loggers \cup Closers -> LoggerLabels \cup CloserLabels]
      /\ \A p \in Loggers : pc[p] \in LoggerLabels /\ ~Carrying(p)
      /\ \A c \in Closers : pc[c] \in CloserLabels
  BY DEF Init, LoggerLabels, CloserLabels, Carrying
<1>3. /\ writes \in [Loggers -> 0 .. MaxWrites]
      /\ syncs \in [Loggers -> 0 .. MaxSyncs]
      /\ via \in [Loggers -> {"none", "drained", "timeout", "closed"}]
  BY ConstantsAssumption DEF Init
<1>4. Len(ch) = 0 /\ Len(sink) = 0 /\ Len(hand) = 0
  BY DEF Init
<1>5. Len(ch) <= Capacity /\ synced \in 0 .. Len(sink) /\ pending \in Nat
  BY <1>4, ConstantsAssumption DEF Init
<1> QED BY <1>1, <1>2, <1>3, <1>4, <1>5 DEF Init, TypeOK

(* Type correctness: in every reachable state each variable has its type,  *)
(* the channel is within its capacity and run holds a record exactly while *)
(* it is about to write one.                                               *)
THEOREM TypeCorrect == Spec => []TypeOK
BY TypeInit, TypeStep, PTL DEF Spec

-----------------------------------------------------------------------------
(* The counter *)

LEMMA CountingFinite ==
    /\ IsFiniteSet(Counting)
    /\ Cardinality(Counting) \in Nat
<1>1. IsFiniteSet(Counting)
  BY FS_Subset, ConstantsAssumption DEF Counting
<1> QED BY <1>1, FS_CardinalityType

LEMMA CountingFinitePrime ==
    /\ IsFiniteSet(Counting')
    /\ Cardinality(Counting') \in Nat
<1>1. Counting' \subseteq Loggers
  BY DEF Counting
<1>2. IsFiniteSet(Counting')
  BY <1>1, FS_Subset, ConstantsAssumption
<1> QED BY <1>2, FS_CardinalityType

(* A logger's step that neither enters nor leaves the window between the   *)
(* send and the increment.                                                 *)
LEMMA CountingKept ==
    ASSUME TypeOK, NEW p \in Loggers, NEW label,
           Goto(p, label), pc[p] # "count", label # "count"
    PROVE  Counting' = Counting
BY DEF TypeOK, Goto, Counting

LEMMA CountLogger ==
    ASSUME TypeOK, CountCovers, NEW p \in Loggers, LoggerStep(p)
    PROVE  CountCovers'
<1>0. Len(ch) \in Nat /\ pending \in Nat
  BY LenProperties DEF TypeOK
<1>1. CASE Send(p)
  <2>1. /\ Rec(p) \in Records
        /\ p \notin Counting
    BY <1>1, RecIsRecord DEF Send, Sending, Carrying, Counting
  <2>2. Len(ch') = Len(ch) + 1
    BY <1>1, <2>1, AppendProperties DEF Send, TypeOK
  <2>3. Counting' = Counting \cup {p}
    BY <1>1 DEF Send, Goto, Counting, TypeOK
  <2>4. Cardinality(Counting') = Cardinality(Counting) + 1
    BY <2>1, <2>3, CountingFinite, FS_AddElement
  <2>5. pending' = pending /\ runPc' = runPc
    BY <1>1 DEF Send, runVars
  <2> QED BY <1>0, <2>2, <2>4, <2>5, CountingFinite DEF CountCovers, Backlog
<1>2. CASE CountPending(p)
  <2>1. /\ p \notin Counting'
        /\ Counting = Counting' \cup {p}
    BY <1>2 DEF CountPending, Goto, Counting, TypeOK
  <2>2. Cardinality(Counting) = Cardinality(Counting') + 1
    BY <2>1, CountingFinitePrime, FS_AddElement
  <2>3. pending' = pending + 1 /\ ch' = ch /\ runPc' = runPc
    BY <1>2 DEF CountPending, runVars
  <2> QED BY <1>0, <2>2, <2>3, CountingFinite, CountingFinitePrime DEF CountCovers, Backlog
<1>3. CASE /\ ch' = ch /\ pending' = pending /\ runPc' = runPc
           /\ Counting' = Counting
  BY <1>3 DEF CountCovers, Backlog
<1>4. CASE SendOnClosed(p)
  BY <1>3, <1>4 DEF SendOnClosed, runVars, Counting
<1>5. ASSUME ch' = ch, pending' = pending, runVars' = runVars,
             \E label : Goto(p, label) /\ label # "count" /\ pc[p] # "count"
      PROVE  CountCovers'
  <2>1. Counting' = Counting BY <1>5, CountingKept
  <2> QED BY <1>3, <1>5, <2>1 DEF runVars
<1>6. CASE WriteBegin(p) BY <1>5, <1>6 DEF WriteBegin
<1>7. CASE SendCancelled(p) BY <1>5, <1>7 DEF SendCancelled, Sending
<1>8. CASE WriteBlocks(p) BY <1>5, <1>8 DEF WriteBlocks
<1>9. CASE DirectWrite(p) BY <1>5, <1>9 DEF DirectWrite
<1>10. CASE SyncBegin(p) BY <1>5, <1>10 DEF SyncBegin
<1>11. CASE SyncSignal(p) BY <1>5, <1>11 DEF SyncSignal
<1>12. CASE SyncPoll(p) BY <1>5, <1>12 DEF SyncPoll
<1>13. CASE SyncTick(p) BY <1>5, <1>13 DEF SyncTick
<1>14. CASE SyncTimeout(p) BY <1>5, <1>14 DEF SyncTimeout
<1>15. CASE SyncCancelled(p) BY <1>5, <1>15 DEF SyncCancelled
<1>16. CASE SyncFlush(p) BY <1>5, <1>16 DEF SyncFlush
<1> QED BY <1>1, <1>2, <1>4, <1>6, <1>7, <1>8, <1>9, <1>10, <1>11, <1>12, <1>13,
           <1>14, <1>15, <1>16 DEF LoggerStep

LEMMA CountCloser ==
    ASSUME TypeOK, CountCovers, NEW c \in Closers, CloserStep(c)
    PROVE  CountCovers'
<1>1. \A p \in Loggers : pc'[p] = pc[p]
  BY ConstantsAssumption DEF TypeOK, Goto, CloserStep, CloseCall, CloseBegin, CloseAgain,
         CloseCancel, CloseChannel, CloseJoin, CloseSync
<1>2. ch' = ch /\ pending' = pending /\ runPc' = runPc
  BY DEF CloserStep, CloseCall, CloseBegin, CloseAgain, CloseCancel, CloseChannel,
         CloseJoin, CloseSync, runVars
<1>3. Counting' = Counting BY <1>1 DEF Counting
<1> QED BY <1>2, <1>3 DEF CountCovers, Backlog

LEMMA CountRun ==
    ASSUME TypeOK, CountCovers, RunStep
    PROVE  CountCovers'
<1>0. Len(ch) \in Nat /\ pending \in Nat
  BY LenProperties DEF TypeOK
<1>1. Counting' = Counting
  BY DEF Counting, RunStep, Receive, ReceiveClosed, ReceiveSync, StartDraining, Drained,
         WriteOut, UncountPending
<1> USE CountingFinite, <1>0, <1>1 DEF CountCovers, Backlog
<1>2. CASE Receive
  <2>1. Len(ch') = Len(ch) - 1
    BY <1>2, HeadTailProperties DEF Receive, TypeOK
  <2> QED BY <1>2, <2>1 DEF Receive
<1>3. CASE ReceiveClosed BY <1>3 DEF ReceiveClosed
<1>4. CASE ReceiveSync BY <1>4 DEF ReceiveSync, runVars
<1>5. CASE StartDraining BY <1>5 DEF StartDraining
<1>6. CASE Drained BY <1>6 DEF Drained
<1>7. CASE WriteOut BY <1>7 DEF WriteOut
<1>8. CASE UncountPending BY <1>8 DEF UncountPending
<1> QED BY <1>2, <1>3, <1>4, <1>5, <1>6, <1>7, <1>8 DEF RunStep

LEMMA CountStep == TypeOK /\ CountCovers /\ [Next]_vars => CountCovers'
<1> SUFFICES ASSUME TypeOK, CountCovers, [Next]_vars PROVE CountCovers'
  OBVIOUS
<1>1. CASE UNCHANGED vars
  BY <1>1 DEF vars, CountCovers, Backlog, Counting
<1> QED BY <1>1, CountLogger, CountCloser, CountRun DEF Next, Terminated

LEMMA CountInit == Init => CountCovers
<1> SUFFICES ASSUME Init PROVE CountCovers
  OBVIOUS
<1>1. Backlog = 0 /\ pending = 0
  BY DEF Init, Backlog
<1> QED BY <1>1, CountingFinite DEF CountCovers

(* The counter falls short of the backlog by at most the number of writers *)
(* between their send and their increment.                                 *)
THEOREM CounterCovers == Spec => []CountCovers
BY TypeInit, TypeStep, CountInit, CountStep, PTL DEF Spec

(* A Sync that reads zero while no writer is in that window finds nothing  *)
(* left to write.                                                          *)
THEOREM ZeroIsEmpty == Spec => []ZeroMeansEmpty
<1>1. TypeOK /\ CountCovers => ZeroMeansEmpty
  <2> SUFFICES ASSUME TypeOK, CountCovers, pending = 0, Counting = {}
               PROVE  ch = <<>> /\ hand = <<>>
    BY DEF ZeroMeansEmpty
  <2>1. Cardinality(Counting) = 0
    BY FS_EmptySet
  <2>2. Len(ch) \in Nat
    BY LenProperties DEF TypeOK
  <2>3. Len(ch) = 0 /\ runPc # "write"
    BY <2>1, <2>2 DEF CountCovers, Backlog
  <2>4. Len(hand) = 0
    BY <2>3 DEF TypeOK
  <2> QED BY <2>3, <2>4, EmptySeq DEF TypeOK
<1> QED BY <1>1, TypeCorrect, CounterCovers, PTL

-----------------------------------------------------------------------------
(* Closing *)

LEMMA PhaseLogger ==
    ASSUME TypeOK, ClosePhase, NEW p \in Loggers, LoggerStep(p)
    PROVE  ClosePhase'
<1>1. /\ closed' = closed /\ cancelled' = cancelled /\ chClosed' = chClosed
      /\ once' = once /\ draining' = draining /\ runPc' = runPc
  BY DEF LoggerStep, WriteBegin, Send, SendOnClosed, SendCancelled, WriteBlocks,
         CountPending, DirectWrite, SyncBegin, SyncSignal, SyncPoll, SyncTick,
         SyncTimeout, SyncCancelled, SyncFlush, writerVars, runVars
<1>2. \A c \in Closers : pc'[c] = pc[c]
  BY ConstantsAssumption
     DEF TypeOK, Goto, LoggerStep, WriteBegin, Send, SendOnClosed, SendCancelled,
         WriteBlocks, CountPending, DirectWrite, SyncBegin, SyncSignal, SyncPoll,
         SyncTick, SyncTimeout, SyncCancelled, SyncFlush
<1>3. pc'[p] = "direct" => closed
  BY DEF ClosePhase, TypeOK, Goto, LoggerStep, WriteBegin, Send, SendOnClosed,
         SendCancelled, WriteBlocks, CountPending, DirectWrite, SyncBegin, SyncSignal,
         SyncPoll, SyncTick, SyncTimeout, SyncCancelled, SyncFlush
<1>4. \A q \in Loggers \ {p} : pc'[q] = pc[q]
  BY DEF TypeOK, Goto, LoggerStep, WriteBegin, Send, SendOnClosed, SendCancelled,
         WriteBlocks, CountPending, DirectWrite, SyncBegin, SyncSignal, SyncPoll,
         SyncTick, SyncTimeout, SyncCancelled, SyncFlush
<1> QED BY <1>1, <1>2, <1>3, <1>4 DEF ClosePhase

LEMMA PhaseCloser ==
    ASSUME TypeOK, ClosePhase, NEW c \in Closers, CloserStep(c)
    PROVE  ClosePhase'
<1> USE ConstantsAssumption DEF TypeOK, ClosePhase, Goto, runVars
<1>1. CASE CloseCall(c) BY <1>1 DEF CloseCall, writerVars
<1>2. CASE CloseBegin(c) BY <1>2 DEF CloseBegin
<1>3. CASE CloseAgain(c) BY <1>3 DEF CloseAgain, writerVars
<1>4. CASE CloseCancel(c) BY <1>4 DEF CloseCancel
<1>5. CASE CloseChannel(c) BY <1>5 DEF CloseChannel
<1>6. CASE CloseJoin(c) BY <1>6 DEF CloseJoin, writerVars
<1>7. CASE CloseSync(c) BY <1>7 DEF CloseSync
<1> QED BY <1>1, <1>2, <1>3, <1>4, <1>5, <1>6, <1>7 DEF CloserStep

LEMMA PhaseRun ==
    ASSUME TypeOK, ClosePhase, RunStep
    PROVE  ClosePhase'
<1> USE DEF ClosePhase
<1>1. CASE Receive BY <1>1 DEF Receive, writerVars
<1>2. CASE ReceiveClosed BY <1>2 DEF ReceiveClosed, writerVars
<1>3. CASE ReceiveSync BY <1>3 DEF ReceiveSync, runVars
<1>4. CASE StartDraining BY <1>4 DEF StartDraining, writerVars
<1>5. CASE Drained BY <1>5 DEF Drained, writerVars
<1>6. CASE WriteOut BY <1>6 DEF WriteOut, writerVars
<1>7. CASE UncountPending BY <1>7 DEF UncountPending, writerVars
<1> QED BY <1>1, <1>2, <1>3, <1>4, <1>5, <1>6, <1>7 DEF RunStep

LEMMA PhaseStep == TypeOK /\ ClosePhase /\ [Next]_vars => ClosePhase'
<1> SUFFICES ASSUME TypeOK, ClosePhase, [Next]_vars PROVE ClosePhase'
  OBVIOUS
<1>1. CASE UNCHANGED vars
  BY <1>1 DEF vars, ClosePhase
<1> QED BY <1>1, PhaseLogger, PhaseCloser, PhaseRun DEF Next, Terminated

LEMMA PhaseInit == Init => ClosePhase
BY DEF Init, ClosePhase

(* What each step of Close implies about the steps before it, and that     *)
(* nobody writes past the channel before Close was called.                 *)
THEOREM ClosePhases == Spec => []ClosePhase
BY TypeInit, TypeStep, PhaseInit, PhaseStep, PTL DEF Spec

-----------------------------------------------------------------------------
(* Records accepted before Close *)

LEMMA EarlyLogger ==
    ASSUME TypeOK, ClosePhase, EarlyPlaced, NEW p \in Loggers, LoggerStep(p)
    PROVE  EarlyPlaced'
<1>1. CASE Send(p)
  <2>1. Rec(p) \in Records
    BY <1>1, RecIsRecord DEF Send, Sending, Carrying
  <2>2. Range(ch') = Range(ch) \cup {Rec(p)}
    BY <1>1, <2>1, RangeAppend DEF Send, TypeOK
  <2>3. /\ sink' = sink /\ synced' = synced /\ hand' = hand
        /\ once' = once /\ runPc' = runPc
        /\ early' = IF closed THEN early ELSE early \cup {Rec(p)}
    BY <1>1 DEF Send, sinkVars, runVars, writerVars
  <2>4. ~closed => runPc # "stopped" /\ once # "done"
    BY DEF ClosePhase
  <2> QED BY <2>2, <2>3, <2>4 DEF EarlyPlaced, Durable
<1>2. CASE DirectWrite(p)
  <2>1. Rec(p) \in Records
    BY <1>2, RecIsRecord DEF DirectWrite, Carrying
  <2>2. Range(sink') = Range(sink) \cup {Rec(p)}
    BY <1>2, <2>1, RangeAppend DEF DirectWrite, TypeOK
  <2>3. \A i \in 1 .. synced : sink'[i] = sink[i]
    BY <1>2, <2>1, AppendProperties, LenProperties DEF DirectWrite, TypeOK
  <2>4. /\ synced' = synced /\ hand' = hand /\ ch' = ch /\ once' = once
        /\ runPc' = runPc /\ early' = early
    BY <1>2 DEF DirectWrite, runVars, writerVars
  <2>5. Durable' = Durable
    BY <2>3, <2>4 DEF Durable
  <2> QED BY <2>2, <2>4, <2>5 DEF EarlyPlaced
<1>3. CASE SyncFlush(p)
  <2>1. /\ sink' = sink /\ synced' = Len(sink) /\ hand' = hand /\ ch' = ch
        /\ once' = once /\ runPc' = runPc /\ early' = early
    BY <1>3 DEF SyncFlush, runVars, writerVars
  <2>2. Durable \subseteq Durable'
    BY <2>1, LenProperties DEF Durable, TypeOK
  <2> QED BY <2>1, <2>2 DEF EarlyPlaced
<1>4. CASE /\ UNCHANGED <<sink, synced, hand, ch, once, runPc, early>>
  BY <1>4 DEF EarlyPlaced, Durable
<1>5. ASSUME LoggerStep(p), ~Send(p), ~DirectWrite(p), ~SyncFlush(p)
      PROVE  UNCHANGED <<sink, synced, hand, ch, once, runPc, early>>
  BY <1>5 DEF LoggerStep, WriteBegin, SendOnClosed, SendCancelled, WriteBlocks,
       CountPending, SyncBegin, SyncSignal, SyncPoll, SyncTick, SyncTimeout,
       SyncCancelled, sinkVars, runVars, writerVars
<1> QED BY <1>1, <1>2, <1>3, <1>4, <1>5

LEMMA EarlyCloser ==
    ASSUME TypeOK, ClosePhase, EarlyPlaced, NEW c \in Closers, CloserStep(c)
    PROVE  EarlyPlaced'
<1>1. CASE CloseBegin(c)
  <2>1. /\ UNCHANGED <<sink, synced, hand, ch, runPc, early>>
        /\ once' = "busy"
    BY <1>1 DEF CloseBegin, sinkVars, runVars
  <2> QED BY <2>1 DEF EarlyPlaced
<1>2. CASE CloseSync(c)
  <2>1. /\ UNCHANGED <<sink, hand, ch, runPc, early>>
        /\ synced' = Len(sink)
        /\ runPc = "stopped"
    BY <1>2 DEF CloseSync, runVars, ClosePhase
  <2>2. Durable' = Range(sink)
    BY <2>1, RangeEquality DEF Durable, TypeOK
  <2> QED BY <2>1, <2>2 DEF EarlyPlaced
<1>3. ASSUME CloserStep(c), ~CloseBegin(c), ~CloseSync(c)
      PROVE  UNCHANGED <<sink, synced, hand, ch, once, runPc, early>>
  BY <1>3 DEF CloserStep, CloseCall, CloseAgain, CloseCancel, CloseChannel, CloseJoin,
       sinkVars, runVars, writerVars
<1> QED BY <1>1, <1>2, <1>3 DEF EarlyPlaced, Durable

LEMMA EarlyRun ==
    ASSUME TypeOK, ClosePhase, EarlyPlaced, RunStep
    PROVE  EarlyPlaced'
<1>1. CASE Receive
  <2>1. Range(ch) = {Head(ch)} \cup Range(ch')
    BY <1>1, RangeHeadTail DEF Receive, TypeOK
  <2>2. Range(hand') = {Head(ch)}
    BY <1>1, RangeOne, Zenon DEF Receive
  <2>3. Range(hand) = {}
    <3>1. hand = <<>> BY <1>1, EmptySeq DEF Receive, TypeOK
    <3> QED BY <3>1, RangeEmpty
  <2>4. /\ UNCHANGED <<sink, synced, once, early>>
        /\ runPc = "select" /\ runPc' = "write"
    BY <1>1 DEF Receive, sinkVars, writerVars
  <2> QED BY <2>1, <2>2, <2>3, <2>4 DEF EarlyPlaced
<1>2. CASE ReceiveClosed \/ Drained
  <2>1. /\ UNCHANGED <<sink, synced, hand, ch, once, early>>
        /\ runPc = "select" /\ runPc' = "stopped"
        /\ ch = <<>>
    BY <1>2 DEF ReceiveClosed, Drained, sinkVars, writerVars
  <2>2. hand = <<>>
    BY <2>1, EmptySeq DEF TypeOK
  <2>3. Range(hand) = {} /\ Range(ch) = {}
    BY <2>1, <2>2, RangeEmpty
  <2> QED BY <2>1, <2>3 DEF EarlyPlaced, Durable
<1>3. CASE WriteOut
  <2>1. hand # <<>>
    BY <1>3, NonEmpty DEF WriteOut, TypeOK
  <2>2. /\ Head(hand) \in Records
        /\ Range(hand) = {Head(hand)}
    <3>1. Len(Tail(hand)) = 0 /\ Tail(hand) \in Seq(Records) /\ Head(hand) \in Records
      BY <1>3, <2>1, HeadTailProperties DEF WriteOut, TypeOK
    <3>2. Tail(hand) = <<>>
      BY <3>1, EmptySeq
    <3>3. Range(hand) = {Head(hand)} \cup Range(Tail(hand))
      BY <2>1, RangeHeadTail DEF TypeOK
    <3> QED BY <3>1, <3>2, <3>3, RangeEmpty
  <2>3. Range(sink') = Range(sink) \cup {Head(hand)}
    BY <1>3, <2>2, RangeAppend DEF WriteOut, TypeOK
  <2>4. Range(hand') = {}
    BY <1>3, RangeEmpty DEF WriteOut
  <2>5. /\ UNCHANGED <<ch, once, early>>
        /\ runPc = "write" /\ runPc' = "uncount"
    BY <1>3 DEF WriteOut, writerVars
  <2> QED BY <2>2, <2>3, <2>4, <2>5 DEF EarlyPlaced
<1>4. CASE UncountPending
  <2>1. /\ UNCHANGED <<sink, synced, hand, ch, once, early>>
        /\ runPc = "uncount" /\ runPc' = "select"
    BY <1>4 DEF UncountPending, sinkVars, writerVars
  <2> QED BY <2>1 DEF EarlyPlaced
<1>5. CASE ReceiveSync \/ StartDraining
  <2>1. UNCHANGED <<sink, synced, hand, ch, once, runPc, early>>
    BY <1>5 DEF ReceiveSync, StartDraining, sinkVars, runVars, writerVars
  <2> QED BY <2>1 DEF EarlyPlaced, Durable
<1> QED BY <1>1, <1>2, <1>3, <1>4, <1>5 DEF RunStep

LEMMA EarlyStep == TypeOK /\ ClosePhase /\ EarlyPlaced /\ [Next]_vars => EarlyPlaced'
<1> SUFFICES ASSUME TypeOK, ClosePhase, EarlyPlaced, [Next]_vars PROVE EarlyPlaced'
  OBVIOUS
<1>1. CASE UNCHANGED vars
  BY <1>1 DEF vars, EarlyPlaced, Durable
<1> QED BY <1>1, EarlyLogger, EarlyCloser, EarlyRun DEF Next, Terminated

LEMMA EarlyInit == Init => EarlyPlaced
BY DEF Init, EarlyPlaced

(* When any call of Close has returned, every record sent before a.closed  *)
(* was set has been written and synced, however the steps of the loggers,  *)
(* the closers and run interleave.                                         *)
THEOREM CloseKeeps == Spec => []CloseKeepsEarlier
<1>1. Spec => []EarlyPlaced
  BY TypeInit, TypeStep, PhaseInit, PhaseStep, EarlyInit, EarlyStep, PTL DEF Spec
<1>2. ClosePhase /\ EarlyPlaced => CloseKeepsEarlier
  BY DEF ClosePhase, EarlyPlaced, CloseKeepsEarlier
<1> QED BY <1>1, <1>2, ClosePhases, PTL

-----------------------------------------------------------------------------
(* A record is handed over once *)

LEMMA PlacedAreRecords == TypeOK => Placed \subseteq Records
BY RangeOfSeq DEF TypeOK, Placed

LEMMA DeliveredType ==
    ASSUME TypeOK, NEW p \in Loggers
    PROVE  /\ writes[p] \in Nat
           /\ Delivered(p) \in Int
BY ConstantsAssumption DEF TypeOK, Delivered

(* The number of delivered records of a goroutine never falls, and the     *)
(* places of records change only by a Send or a DirectWrite of a logger.   *)
LEMMA DeliveredGrows ==
    ASSUME TypeOK, NEW p \in Loggers, LoggerStep(p), NEW q \in Loggers
    PROVE  Delivered(q) <= Delivered(q)'
<1> USE ConstantsAssumption DEF TypeOK, Goto, Delivered, Carrying
<1>1. CASE q # p
  <2>1. pc'[q] = pc[q] /\ writes'[q] = writes[q]
    BY <1>1 DEF LoggerStep, WriteBegin, Send, SendOnClosed, SendCancelled, WriteBlocks,
         CountPending, DirectWrite, SyncBegin, SyncSignal, SyncPoll, SyncTick,
         SyncTimeout, SyncCancelled, SyncFlush, callVars
  <2> QED BY <2>1
<1>2. CASE q = p /\ WriteBegin(p)
  BY <1>2 DEF WriteBegin
<1>3. CASE q = p /\ ~WriteBegin(p)
  <2>1. writes'[p] = writes[p] /\ (Carrying(p)' => Carrying(p))
    BY <1>3 DEF LoggerStep, Send, SendOnClosed, SendCancelled, WriteBlocks,
         CountPending, DirectWrite, SyncBegin, SyncSignal, SyncPoll, SyncTick,
         SyncTimeout, SyncCancelled, SyncFlush, callVars, Sending
  <2> QED BY <1>3, <2>1
<1> QED BY <1>1, <1>2, <1>3

LEMMA IssuedLogger ==
    ASSUME TypeOK, Issued, NEW p \in Loggers, LoggerStep(p)
    PROVE  Issued'
<1>1. \A r \in Placed : r[1] \in Loggers /\ r[2] \in Nat
  BY PlacedAreRecords DEF Records
<1>2. TypeOK' BY TypeLogger
<1>3. \A r \in Placed : r[2] <= Delivered(r[1])'
  <2> SUFFICES ASSUME NEW r \in Placed PROVE r[2] <= Delivered(r[1])'
    OBVIOUS
  <2>1. r[1] \in Loggers /\ r[2] \in Nat BY <1>1
  <2>2. Delivered(r[1]) <= Delivered(r[1])' BY <2>1, DeliveredGrows
  <2>3. Delivered(r[1]) \in Int BY <2>1, DeliveredType
  <2>4. Delivered(r[1])' \in Int
    <3>1. writes'[r[1]] \in 0 .. MaxWrites
      BY <1>2, <2>1 DEF TypeOK
    <3> QED BY <3>1, ConstantsAssumption DEF Delivered
  <2>5. r[2] <= Delivered(r[1]) BY DEF Issued
  <2> QED BY <2>1, <2>2, <2>3, <2>4, <2>5
<1>4. CASE Send(p) \/ DirectWrite(p)
  <2>1. Rec(p) \in Records
    BY <1>4, RecIsRecord DEF Send, Sending, Carrying, DirectWrite
  <2>2. Placed' = Placed \cup {Rec(p)}
    <3>1. CASE Send(p)
      <4>1. Range(ch') = Range(ch) \cup {Rec(p)}
        BY <3>1, <2>1, RangeAppend DEF Send, TypeOK
      <4> QED BY <3>1, <4>1 DEF Send, Placed, sinkVars, runVars
    <3>2. CASE DirectWrite(p)
      <4>1. Range(sink') = Range(sink) \cup {Rec(p)}
        BY <3>2, <2>1, RangeAppend DEF DirectWrite, TypeOK
      <4> QED BY <3>2, <4>1 DEF DirectWrite, Placed, runVars
    <3> QED BY <1>4, <3>1, <3>2
  <2>3. Rec(p)[1] = p /\ Rec(p)[2] = writes[p]
    BY DEF Rec
  <2>4. writes[p] <= Delivered(p)'
    <3>1. writes'[p] = writes[p] /\ ~Carrying(p)'
      BY <1>4 DEF Send, DirectWrite, callVars, Goto, Carrying, TypeOK
    <3> QED BY <3>1, DeliveredType DEF Delivered
  <2> QED BY <1>3, <2>2, <2>3, <2>4 DEF Issued
<1>5. ASSUME ~Send(p), ~DirectWrite(p)
      PROVE  Placed' = Placed
  BY <1>5 DEF Placed, LoggerStep, WriteBegin, SendOnClosed, SendCancelled, WriteBlocks,
       CountPending, SyncBegin, SyncSignal, SyncPoll, SyncTick, SyncTimeout,
       SyncCancelled, SyncFlush, sinkVars, runVars
<1> QED BY <1>3, <1>4, <1>5 DEF Issued

LEMMA IssuedCloser ==
    ASSUME TypeOK, Issued, NEW c \in Closers, CloserStep(c)
    PROVE  Issued'
<1>1. /\ \A p \in Loggers : pc'[p] = pc[p]
      /\ writes' = writes
      /\ Placed' = Placed
  BY ConstantsAssumption
     DEF TypeOK, Goto, Placed, CloserStep, CloseCall, CloseBegin, CloseAgain, CloseCancel,
         CloseChannel, CloseJoin, CloseSync, sinkVars, runVars, callVars
<1>2. \A r \in Placed : Delivered(r[1])' = Delivered(r[1])
  BY <1>1, PlacedAreRecords DEF Delivered, Carrying, Records
<1> QED BY <1>1, <1>2 DEF Issued

LEMMA IssuedRun ==
    ASSUME TypeOK, Issued, RunStep
    PROVE  Issued'
<1>1. \A r : Delivered(r[1])' = Delivered(r[1])
  BY DEF Delivered, Carrying, RunStep, Receive, ReceiveClosed, ReceiveSync, StartDraining,
         Drained, WriteOut, UncountPending, callVars
<1>2. Placed' \subseteq Placed
  <2>1. CASE Receive
    <3>1. Range(ch) = {Head(ch)} \cup Range(ch')
      BY <2>1, RangeHeadTail DEF Receive, TypeOK
    <3>2. Range(hand') = {Head(ch)}
      BY <2>1, RangeOne, Zenon DEF Receive
    <3> QED BY <2>1, <3>1, <3>2 DEF Receive, Placed, sinkVars
  <2>2. CASE WriteOut
    <3>1. hand # <<>>
      BY <2>2, NonEmpty DEF WriteOut, TypeOK
    <3>2. /\ Head(hand) \in Records
          /\ Range(hand) = {Head(hand)} \cup Range(Tail(hand))
      BY <3>1, RangeHeadTail, HeadTailProperties DEF TypeOK
    <3>3. Range(sink') = Range(sink) \cup {Head(hand)}
      BY <2>2, <3>2, RangeAppend DEF WriteOut, TypeOK
    <3>4. Range(hand') = {}
      BY <2>2, RangeEmpty DEF WriteOut
    <3> QED BY <2>2, <3>2, <3>3, <3>4 DEF WriteOut, Placed
  <2>3. ASSUME ~Receive, ~WriteOut PROVE Placed' = Placed
    BY <2>3 DEF RunStep, ReceiveClosed, ReceiveSync, StartDraining, Drained,
         UncountPending, Placed, sinkVars, runVars
  <2> QED BY <2>1, <2>2, <2>3
<1> QED BY <1>1, <1>2 DEF Issued

LEMMA IssuedStep == TypeOK /\ Issued /\ [Next]_vars => Issued'
<1> SUFFICES ASSUME TypeOK, Issued, [Next]_vars PROVE Issued'
  OBVIOUS
<1>1. CASE UNCHANGED vars
  BY <1>1 DEF vars, Issued, Placed, Delivered, Carrying
<1> QED BY <1>1, IssuedLogger, IssuedCloser, IssuedRun DEF Next, Terminated

LEMMA IssuedInit == Init => Issued
BY RangeEmpty DEF Init, Issued, Placed

(* A record a call of Write still carries is in none of the places records *)
(* go to.                                                                  *)
LEMMA CarriedIsFresh ==
    ASSUME TypeOK, Issued, NEW p \in Loggers, Carrying(p)
    PROVE  Rec(p) \notin Placed
<1> SUFFICES ASSUME Rec(p) \in Placed PROVE FALSE
  OBVIOUS
<1>1. Rec(p)[1] = p /\ Rec(p)[2] = writes[p]
  BY DEF Rec
<1>2. writes[p] <= Delivered(p)
  BY <1>1 DEF Issued
<1> QED BY <1>2, DeliveredType DEF Delivered

-----------------------------------------------------------------------------
(* Refinement of LogSink *)

LEMMA QueueType ==
    ASSUME TypeOK
    PROVE  /\ hand \o ch \in Seq(Records)
           /\ Len(hand \o ch) = Len(hand) + Len(ch)
           /\ Len(hand) \in Nat /\ Len(ch) \in Nat
           /\ Range(hand \o ch) = Range(hand) \cup Range(ch)
<1>1. hand \in Seq(Records) /\ ch \in Seq(Records)
  BY DEF TypeOK
<1>2. /\ hand \o ch \in Seq(Records)
      /\ Len(hand \o ch) = Len(hand) + Len(ch)
  BY <1>1, ConcatProperties
<1>3. Len(hand) \in Nat /\ Len(ch) \in Nat
  BY <1>1, LenProperties
<1>4. Range(hand \o ch) = Range(hand) \cup Range(ch)
  BY <1>1, RangeConcatenation
<1> QED BY <1>2, <1>3, <1>4

(* A send is the acceptance of a fresh record. *)
LEMMA RefineSend ==
    ASSUME TypeOK, Issued, NEW p \in Loggers, Send(p)
    PROVE  Sink!Accept(Rec(p))
<1>1. Rec(p) \in Records /\ Rec(p) \notin Placed
  BY RecIsRecord, CarriedIsFresh DEF Send, Sending, Carrying
<1>2. Rec(p) \notin Range(hand \o ch) \cup Range(sink)
  BY <1>1, QueueType DEF Placed
<1>3. Len(hand \o ch) < Capacity + 1
  BY QueueType, ConstantsAssumption DEF Send, TypeOK
<1>4. hand' \o ch' = Append(hand \o ch, Rec(p))
  <2>1. <<Rec(p)>> \in Seq(Records) /\ ch' = ch \o <<Rec(p)>>
    BY <1>1, AppendIsConcat DEF Send, TypeOK
  <2>2. hand \o (ch \o <<Rec(p)>>) = (hand \o ch) \o <<Rec(p)>>
    BY SMTT(40), <2>1, ConcatAssociative DEF TypeOK
  <2>3. Append(hand \o ch, Rec(p)) = (hand \o ch) \o <<Rec(p)>>
    BY <1>1, QueueType, AppendIsConcat
  <2>4. hand' = hand BY DEF Send, runVars
  <2> QED BY <2>1, <2>2, <2>3, <2>4, Zenon
<1>5. UNCHANGED <<sink, closed>>
  BY DEF Send, sinkVars, writerVars
<1> QED BY <1>2, <1>3, <1>4, <1>5
        DEF Sink!Accept, Sink!Fresh, Sink!Range, Range

(* A direct write bypasses the queue, which is only done once closed. *)
LEMMA RefineDirect ==
    ASSUME TypeOK, ClosePhase, Issued, NEW p \in Loggers, DirectWrite(p)
    PROVE  Sink!Bypass(Rec(p))
<1>1. Rec(p) \notin Placed
  BY CarriedIsFresh DEF DirectWrite, Carrying
<1>2. Rec(p) \notin Range(hand \o ch) \cup Range(sink)
  BY <1>1, QueueType DEF Placed
<1>3. closed BY DEF ClosePhase, DirectWrite
<1>4. UNCHANGED <<hand, ch, closed>> /\ sink' = Append(sink, Rec(p))
  BY DEF DirectWrite, runVars, writerVars
<1> QED BY <1>2, <1>3, <1>4 DEF Sink!Bypass, Sink!Fresh, Sink!Range, Range

(* run writing the record in its hand delivers the head of the queue. *)
LEMMA RefineWriteOut ==
    ASSUME TypeOK, WriteOut
    PROVE  Sink!Deliver
<1>1. hand # <<>> BY NonEmpty DEF WriteOut, TypeOK
<1>2. PICK h \in Records : hand = <<h>>
  <2>1. Head(hand) \in Records /\ Tail(hand) \in Seq(Records) /\ Len(Tail(hand)) = 0
    BY <1>1, HeadTailProperties DEF WriteOut, TypeOK
  <2>2. Tail(hand) = <<>> BY <2>1, EmptySeq
  <2>3. hand = <<Head(hand)>> \o <<>>
    BY <1>1, <2>2, HeadThenTail DEF TypeOK
  <2>4. <<Head(hand)>> \o <<>> = <<Head(hand)>>
    BY <2>1, ConcatEmptySeq
  <2> QED BY <2>1, <2>3, <2>4
<1>3. /\ <<h>> \o ch # <<>>
      /\ Head(<<h>> \o ch) = h
      /\ Tail(<<h>> \o ch) = ch
  BY <1>2 DEF TypeOK
<1>4. hand' \o ch' = ch
  <2>1. hand' = <<>> /\ ch' = ch BY DEF WriteOut
  <2> QED BY <2>1, ConcatEmptySeq DEF TypeOK
<1>5. sink' = Append(sink, h) /\ closed' = closed
  BY <1>2 DEF WriteOut, writerVars
<1> QED BY <1>2, <1>3, <1>4, <1>5 DEF Sink!Deliver

(* run receiving a record moves the head of the queue from the channel to  *)
(* its hand: no change of the queue.                                       *)
LEMMA RefineReceive ==
    ASSUME TypeOK, Receive
    PROVE  UNCHANGED Sink!sinkVars
<1>1. hand = <<>> BY EmptySeq DEF Receive, TypeOK
<1>2. hand \o ch = ch BY <1>1, ConcatEmptySeq DEF TypeOK
<1>3. hand' \o ch' = ch BY HeadThenTail DEF Receive, TypeOK
<1>4. UNCHANGED <<sink, closed>> BY DEF Receive, sinkVars, writerVars
<1> QED BY <1>2, <1>3, <1>4 DEF Sink!sinkVars

LEMMA RefineStep ==
    ASSUME TypeOK, ClosePhase, Issued, [Next]_vars
    PROVE  [Sink!Next]_(Sink!sinkVars)
<1>1. ASSUME UNCHANGED <<hand, ch, sink, closed>>
      PROVE  UNCHANGED Sink!sinkVars
  BY <1>1 DEF Sink!sinkVars
<1>2. ASSUME NEW p \in Loggers, LoggerStep(p)
      PROVE  [Sink!Next]_(Sink!sinkVars)
  <2>1. CASE Send(p)
    <3>1. Rec(p) \in Records
      BY <2>1, RecIsRecord DEF Send, Sending, Carrying
    <3> QED BY <2>1, <3>1, RefineSend DEF Sink!Next
  <2>2. CASE DirectWrite(p)
    <3>1. Rec(p) \in Records
      BY <2>2, RecIsRecord DEF DirectWrite, Carrying
    <3> QED BY <2>2, <3>1, RefineDirect DEF Sink!Next
  <2>3. CASE ~Send(p) /\ ~DirectWrite(p)
    <3>1. UNCHANGED <<hand, ch, sink, closed>>
      BY <1>2, <2>3 DEF LoggerStep, WriteBegin, SendOnClosed, SendCancelled,
           WriteBlocks, CountPending, SyncBegin, SyncSignal, SyncPoll, SyncTick,
           SyncTimeout, SyncCancelled, SyncFlush, sinkVars, runVars, writerVars
    <3> QED BY <1>1, <3>1
  <2> QED BY <2>1, <2>2, <2>3
<1>3. ASSUME NEW c \in Closers, CloserStep(c)
      PROVE  [Sink!Next]_(Sink!sinkVars)
  <2>1. CASE CloseBegin(c)
    <3>1. UNCHANGED <<hand, ch, sink>> /\ closed' = TRUE
      BY <2>1 DEF CloseBegin, sinkVars, runVars
    <3> QED BY <3>1 DEF Sink!Next, Sink!Shut
  <2>2. CASE ~CloseBegin(c)
    <3>1. UNCHANGED <<hand, ch, sink, closed>>
      BY <1>3, <2>2 DEF CloserStep, CloseCall, CloseAgain, CloseCancel, CloseChannel,
           CloseJoin, CloseSync, sinkVars, runVars, writerVars
    <3> QED BY <1>1, <3>1
  <2> QED BY <2>1, <2>2
<1>4. ASSUME RunStep
      PROVE  [Sink!Next]_(Sink!sinkVars)
  <2>1. CASE Receive BY <2>1, RefineReceive
  <2>2. CASE WriteOut BY <2>2, RefineWriteOut DEF Sink!Next
  <2>3. CASE ~Receive /\ ~WriteOut
    <3>1. UNCHANGED <<hand, ch, sink, closed>>
      BY <1>4, <2>3 DEF RunStep, ReceiveClosed, ReceiveSync, StartDraining, Drained,
           UncountPending, sinkVars, runVars, writerVars
    <3> QED BY <1>1, <3>1
  <2> QED BY <2>1, <2>2, <2>3
<1>5. CASE UNCHANGED vars
  BY <1>1, <1>5 DEF vars
<1> QED BY <1>2, <1>3, <1>4, <1>5 DEF Next, Terminated

LEMMA RefineInit == Init => Sink!Init
<1> SUFFICES ASSUME Init PROVE Sink!Init
  OBVIOUS
<1>1. hand = <<>> /\ ch = <<>> /\ sink = <<>> /\ closed = FALSE
  BY DEF Init
<1>2. hand \o ch = <<>>
  BY <1>1, EmptyIsSeq, ConcatEmptySeq
<1> QED BY <1>1, <1>2 DEF Sink!Init

(* The loggers, the closers and run together implement the bounded FIFO of *)
(* LogSink: every accepted record is fresh and leaves in the order of its  *)
(* acceptance, and only once closing has begun does a record bypass it.    *)
THEOREM ImplementsSink == Spec => SinkSpec
<1>1. Init => TypeOK /\ ClosePhase /\ Issued
  BY TypeInit, PhaseInit, IssuedInit
<1>2. TypeOK /\ ClosePhase /\ Issued /\ [Next]_vars => (TypeOK /\ ClosePhase /\ Issued)'
  BY TypeStep, PhaseStep, IssuedStep
<1>3. TypeOK /\ ClosePhase /\ Issued /\ [Next]_vars => [Sink!Next]_(Sink!sinkVars)
  BY RefineStep
<1> QED BY <1>1, <1>2, <1>3, RefineInit, PTL DEF Spec, SinkSpec, Sink!Spec

-----------------------------------------------------------------------------
(* Sequences without repetition *)

(* Appending an element that does not occur yet repeats nothing. *)
LEMMA InjectiveAppend ==
    ASSUME NEW S, NEW s \in Seq(S), NEW e \in S, IsInjective(s), e \notin Range(s)
    PROVE  IsInjective(Append(s, e))
<1>1. /\ DOMAIN s = 1 .. Len(s) /\ Len(s) \in Nat
      /\ DOMAIN Append(s, e) = 1 .. Len(s) + 1
      /\ \A i \in 1 .. Len(s) : Append(s, e)[i] = s[i]
      /\ Append(s, e)[Len(s) + 1] = e
  BY AppendProperties, LenProperties
<1>2. \A i \in 1 .. Len(s) : s[i] # e
  BY <1>1 DEF Range
<1>3. \A i \in 1 .. Len(s) + 1 : i = Len(s) + 1 \/ i \in 1 .. Len(s)
  BY <1>1
<1>4. \A i, j \in 1 .. Len(s) : s[i] = s[j] => i = j
  BY <1>1 DEF IsInjective
<1> QED BY <1>1, <1>2, <1>3, <1>4 DEF IsInjective

(* The head of a sequence without repetition is not in its tail. *)
LEMMA InjectiveHeadTail ==
    ASSUME NEW S, NEW s \in Seq(S), s # <<>>, IsInjective(s)
    PROVE  /\ IsInjective(Tail(s))
           /\ Head(s) \notin Range(Tail(s))
<1>1. /\ DOMAIN s = 1 .. Len(s) /\ Len(s) \in Nat \ {0}
      /\ Head(s) = s[1]
  BY LenProperties, EmptySeq
<1>2. /\ DOMAIN Tail(s) = 1 .. Len(s) - 1
      /\ \A i \in 1 .. Len(s) - 1 : Tail(s)[i] = s[i + 1]
  BY <1>1, HeadTailProperties, LenProperties
<1>3. \A i, j \in 1 .. Len(s) : s[i] = s[j] => i = j
  BY <1>1 DEF IsInjective
<1>4. IsInjective(Tail(s))
  BY <1>1, <1>2, <1>3 DEF IsInjective
<1>5. \A i \in 1 .. Len(s) - 1 : Tail(s)[i] # s[1]
  BY <1>1, <1>2, <1>3
<1> QED BY <1>1, <1>2, <1>4, <1>5 DEF Range

(* Sequences without repetition and without a common element. *)
LEMMA InjectiveConcat ==
    ASSUME NEW S, NEW s \in Seq(S), NEW t \in Seq(S), IsInjective(s), IsInjective(t),
           Range(s) \cap Range(t) = {}
    PROVE  IsInjective(s \o t)
<1>1. /\ DOMAIN s = 1 .. Len(s) /\ Len(s) \in Nat
      /\ DOMAIN t = 1 .. Len(t) /\ Len(t) \in Nat
      /\ DOMAIN (s \o t) = 1 .. Len(s) + Len(t)
      /\ \A i \in 1 .. Len(s) + Len(t) :
             (s \o t)[i] = IF i <= Len(s) THEN s[i] ELSE t[i - Len(s)]
  BY ConcatProperties, LenProperties
<1>2. \A i \in 1 .. Len(s), j \in 1 .. Len(t) : s[i] # t[j]
  BY <1>1 DEF Range
<1>3. /\ \A i, j \in 1 .. Len(s) : s[i] = s[j] => i = j
      /\ \A i, j \in 1 .. Len(t) : t[i] = t[j] => i = j
  BY <1>1 DEF IsInjective
<1>4. ASSUME NEW i \in 1 .. Len(s) + Len(t), NEW j \in 1 .. Len(s) + Len(t),
             (s \o t)[i] = (s \o t)[j]
      PROVE  i = j
  <2>1. CASE i <= Len(s) /\ j <= Len(s)
    BY <1>1, <1>3, <1>4, <2>1
  <2>2. CASE i <= Len(s) /\ ~(j <= Len(s))
    <3>1. i \in 1 .. Len(s) /\ j - Len(s) \in 1 .. Len(t) BY <1>1, <2>2
    <3> QED BY <1>1, <1>2, <1>4, <2>2, <3>1
  <2>3. CASE ~(i <= Len(s)) /\ j <= Len(s)
    <3>1. j \in 1 .. Len(s) /\ i - Len(s) \in 1 .. Len(t) BY <1>1, <2>3
    <3> QED BY <1>1, <1>2, <1>4, <2>3, <3>1
  <2>4. CASE ~(i <= Len(s)) /\ ~(j <= Len(s))
    <3>1. i - Len(s) \in 1 .. Len(t) /\ j - Len(s) \in 1 .. Len(t) BY <1>1, <2>4
    <3>2. t[i - Len(s)] = t[j - Len(s)] BY <1>1, <1>4, <2>4
    <3> QED BY <1>1, <1>3, <3>1, <3>2
  <2> QED BY <2>1, <2>2, <2>3, <2>4
<1> QED BY <1>1, <1>4 DEF IsInjective

-----------------------------------------------------------------------------
(* Every record is in one place *)

LEMMA PlacesTyped ==
    TypeOK => /\ sink \in Seq(Records) /\ hand \in Seq(Records) /\ ch \in Seq(Records)
              /\ Range(sink) \subseteq Placed
              /\ Range(hand) \subseteq Placed
              /\ Range(ch) \subseteq Placed
BY DEF TypeOK, Placed

LEMMA InjectiveShort == IsInjective(<<>>) /\ \A e : IsInjective(<<e>>)
BY DEF IsInjective

(* The two steps that hand a record over add it to what is placed. *)
LEMMA PlacedGrows ==
    ASSUME TypeOK, NEW p \in Loggers, Send(p) \/ DirectWrite(p)
    PROVE  Placed' = Placed \cup {Rec(p)}
<1>1. Rec(p) \in Records
  BY RecIsRecord DEF Send, Sending, Carrying, DirectWrite
<1>2. CASE Send(p)
  <2>1. Range(ch') = Range(ch) \cup {Rec(p)}
    BY <1>1, <1>2, RangeAppend DEF Send, TypeOK
  <2> QED BY <1>2, <2>1 DEF Send, Placed, sinkVars, runVars
<1>3. CASE DirectWrite(p)
  <2>1. Range(sink') = Range(sink) \cup {Rec(p)}
    BY <1>1, <1>3, RangeAppend DEF DirectWrite, TypeOK
  <2> QED BY <1>3, <2>1 DEF DirectWrite, Placed, runVars
<1> QED BY <1>2, <1>3

(* The other steps of a logger leave the three places alone. *)
LEMMA PlacesKept ==
    ASSUME NEW p \in Loggers, LoggerStep(p), ~Send(p), ~DirectWrite(p)
    PROVE  UNCHANGED <<sink, hand, ch>>
BY DEF LoggerStep, WriteBegin, SendOnClosed, SendCancelled, WriteBlocks, CountPending,
     SyncBegin, SyncSignal, SyncPoll, SyncTick, SyncTimeout, SyncCancelled, SyncFlush,
     sinkVars, runVars

LEMMA OnceLogger ==
    ASSUME TypeOK, Issued, Unrepeated, NEW p \in Loggers, LoggerStep(p)
    PROVE  Unrepeated'
<1> USE DEF Unrepeated
<1>1. CASE Send(p)
  <2>1. Rec(p) \in Records /\ Rec(p) \notin Placed
    BY <1>1, RecIsRecord, CarriedIsFresh DEF Send, Sending, Carrying
  <2>2. Rec(p) \notin Range(sink) /\ Rec(p) \notin Range(hand) /\ Rec(p) \notin Range(ch)
    BY <2>1, PlacesTyped
  <2>3. ch' = Append(ch, Rec(p)) /\ UNCHANGED <<sink, hand>>
    BY <1>1 DEF Send, sinkVars, runVars
  <2>4. IsInjective(ch') /\ Range(ch') = Range(ch) \cup {Rec(p)}
    BY <2>1, <2>2, <2>3, PlacesTyped, InjectiveAppend, RangeAppend
  <2> QED BY <2>2, <2>3, <2>4
<1>2. CASE DirectWrite(p)
  <2>1. Rec(p) \in Records /\ Rec(p) \notin Placed
    BY <1>2, RecIsRecord, CarriedIsFresh DEF DirectWrite, Carrying
  <2>2. Rec(p) \notin Range(sink) /\ Rec(p) \notin Range(hand) /\ Rec(p) \notin Range(ch)
    BY <2>1, PlacesTyped
  <2>3. sink' = Append(sink, Rec(p)) /\ UNCHANGED <<hand, ch>>
    BY <1>2 DEF DirectWrite, runVars
  <2>4. IsInjective(sink') /\ Range(sink') = Range(sink) \cup {Rec(p)}
    BY <2>1, <2>2, <2>3, PlacesTyped, InjectiveAppend, RangeAppend
  <2> QED BY <2>2, <2>3, <2>4
<1>3. CASE ~Send(p) /\ ~DirectWrite(p)
  BY <1>3, PlacesKept
<1> QED BY <1>1, <1>2, <1>3

LEMMA OnceRun ==
    ASSUME TypeOK, Unrepeated, RunStep
    PROVE  Unrepeated'
<1> USE DEF Unrepeated
<1>1. CASE Receive
  <2>1. hand = <<>> BY <1>1, EmptySeq DEF Receive, TypeOK
  <2>2. ch # <<>> /\ hand' = <<Head(ch)>> /\ ch' = Tail(ch) /\ sink' = sink
    BY <1>1 DEF Receive, sinkVars
  <2>3. IsInjective(ch') /\ Head(ch) \notin Range(ch')
    BY <2>2, PlacesTyped, InjectiveHeadTail
  <2>4. Range(ch) = {Head(ch)} \cup Range(ch')
    BY <2>2, PlacesTyped, RangeHeadTail
  <2>5. IsInjective(hand') /\ Range(hand') = {Head(ch)}
    BY <2>2, InjectiveShort, RangeOne, Zenon
  <2> QED BY <2>2, <2>3, <2>4, <2>5
<1>2. CASE WriteOut
  <2>1. hand # <<>> BY <1>2, NonEmpty DEF WriteOut, TypeOK
  <2>2. /\ Head(hand) \in Records
        /\ Range(hand) = {Head(hand)} \cup Range(Tail(hand))
    BY <2>1, PlacesTyped, RangeHeadTail, HeadTailProperties
  <2>3. hand' = <<>> /\ ch' = ch /\ sink' = Append(sink, Head(hand))
    BY <1>2 DEF WriteOut
  <2>4. Head(hand) \notin Range(sink) /\ Head(hand) \notin Range(ch)
    BY <2>2
  <2>5. IsInjective(sink') /\ Range(sink') = Range(sink) \cup {Head(hand)}
    BY <2>2, <2>3, <2>4, PlacesTyped, InjectiveAppend, RangeAppend
  <2>6. IsInjective(hand') /\ Range(hand') = {}
    BY <2>3, InjectiveShort, RangeEmpty
  <2> QED BY <2>3, <2>4, <2>5, <2>6
<1>3. CASE ~Receive /\ ~WriteOut
  <2>1. UNCHANGED <<sink, hand, ch>>
    BY <1>3 DEF RunStep, ReceiveClosed, ReceiveSync, StartDraining, Drained,
         UncountPending, sinkVars, runVars
  <2> QED BY <2>1
<1> QED BY <1>1, <1>2, <1>3

LEMMA OnceStep == TypeOK /\ Issued /\ Unrepeated /\ [Next]_vars => Unrepeated'
<1> SUFFICES ASSUME TypeOK, Issued, Unrepeated, [Next]_vars PROVE Unrepeated'
  OBVIOUS
<1>1. CASE UNCHANGED vars
  BY <1>1 DEF vars, Unrepeated
<1>2. ASSUME NEW c \in Closers, CloserStep(c)
      PROVE  Unrepeated'
  <2>1. UNCHANGED <<sink, hand, ch>>
    BY <1>2 DEF CloserStep, CloseCall, CloseBegin, CloseAgain, CloseCancel, CloseChannel,
         CloseJoin, CloseSync, sinkVars, runVars
  <2> QED BY <2>1 DEF Unrepeated
<1> QED BY <1>1, <1>2, OnceLogger, OnceRun DEF Next, Terminated

LEMMA OnceInit == Init => Unrepeated
BY InjectiveShort, RangeEmpty DEF Init, Unrepeated

-----------------------------------------------------------------------------
(* Every record handed over is somewhere *)

LEMMA HandedLogger ==
    ASSUME TypeOK, HandedOver, NEW p \in Loggers, LoggerStep(p)
    PROVE  HandedOver'
<1>1. Placed \subseteq Placed'
  <2>1. CASE Send(p) \/ DirectWrite(p) BY <2>1, PlacedGrows
  <2>2. CASE ~Send(p) /\ ~DirectWrite(p) BY <2>2, PlacesKept DEF Placed
  <2> QED BY <2>1, <2>2
<1> SUFFICES ASSUME NEW r \in Records, r[2] <= Delivered(r[1])'
             PROVE  r \in Placed'
  BY DEF HandedOver
<1>2. r[1] \in Loggers /\ r[2] \in 1 .. MaxWrites /\ r = <<r[1], r[2]>>
  BY DEF Records
<1>3. CASE r[2] <= Delivered(r[1])
  BY <1>1, <1>3 DEF HandedOver
(* Only the number of the logger that hands its record over rises. *)
<1>4. CASE ~(r[2] <= Delivered(r[1]))
  <2> USE ConstantsAssumption DEF TypeOK, Goto, Delivered, Carrying
  <2>1. r[1] = p
    <3>1. ASSUME r[1] # p PROVE FALSE
      <4>1. pc'[r[1]] = pc[r[1]] /\ writes'[r[1]] = writes[r[1]]
        BY <1>2, <3>1 DEF LoggerStep, WriteBegin, Send, SendOnClosed, SendCancelled,
             WriteBlocks, CountPending, DirectWrite, SyncBegin, SyncSignal, SyncPoll,
             SyncTick, SyncTimeout, SyncCancelled, SyncFlush, callVars
      <4> QED BY <1>4, <4>1
    <3> QED BY <3>1
  <2>2. Send(p) \/ DirectWrite(p)
    <3>1. ASSUME ~Send(p), ~DirectWrite(p) PROVE FALSE
      <4>1. CASE WriteBegin(p)
        <5>1. Delivered(p)' = Delivered(p)
          BY <4>1 DEF WriteBegin
        <5> QED BY <1>4, <2>1, <5>1
      <4>2. CASE ~WriteBegin(p)
        <5>1. writes'[p] = writes[p] /\ (Carrying(p)' <=> Carrying(p))
          BY <3>1, <4>2 DEF LoggerStep, SendOnClosed, SendCancelled, WriteBlocks,
               CountPending, SyncBegin, SyncSignal, SyncPoll, SyncTick, SyncTimeout,
               SyncCancelled, SyncFlush, callVars, Sending
        <5>2. Delivered(p)' = Delivered(p) BY <5>1
        <5> QED BY <1>4, <2>1, <5>2
      <4> QED BY <4>1, <4>2
    <3> QED BY <3>1
  <2>3. Carrying(p) /\ writes'[p] = writes[p]
    BY <2>2 DEF Send, Sending, DirectWrite, callVars
  <2>4. r[2] = writes[p]
    <3>1. writes[p] \in Nat BY <1>2, <2>1
    <3>2. ~(r[2] <= writes[p] - 1) BY <1>4, <2>1, <2>3
    <3>3. Delivered(p)' \in {writes[p] - 1, writes[p]} BY <2>3
    <3>4. r[2] <= Delivered(p)' BY <2>1
    <3>5. r[2] <= writes[p] BY SMTT(40), <1>2, <3>1, <3>3, <3>4
    <3> QED BY SMTT(40), <1>2, <3>1, <3>2, <3>5
  <2>5. r = Rec(p) BY <1>2, <2>1, <2>4 DEF Rec
  <2> QED BY <2>2, <2>5, PlacedGrows
<1> QED BY <1>3, <1>4

(* run only moves records on. *)
LEMMA HandedRun ==
    ASSUME TypeOK, HandedOver, RunStep
    PROVE  HandedOver'
<1>1. \A p : Delivered(p)' = Delivered(p)
  BY DEF Delivered, Carrying, RunStep, Receive, ReceiveClosed, ReceiveSync, StartDraining,
         Drained, WriteOut, UncountPending, callVars
<1>2. Placed \subseteq Placed'
  <2>1. CASE Receive
    <3>1. hand = <<>> BY <2>1, EmptySeq DEF Receive, TypeOK
    <3>2. Range(ch) = {Head(ch)} \cup Range(ch')
      BY <2>1, RangeHeadTail DEF Receive, TypeOK
    <3>3. Range(hand') = {Head(ch)}
      BY <2>1, RangeOne, Zenon DEF Receive
    <3> QED BY <2>1, <3>1, <3>2, <3>3, RangeEmpty DEF Receive, Placed, sinkVars
  <2>2. CASE WriteOut
    <3>1. Len(hand) = 1 /\ hand # <<>>
      BY <2>2, NonEmpty DEF WriteOut, TypeOK
    <3>2. Tail(hand) = <<>>
      <4>1. Tail(hand) \in Seq(Records) /\ Len(Tail(hand)) = 0
        BY <3>1, PlacesTyped, HeadTailProperties
      <4> QED BY <4>1, EmptySeq
    <3>3. Range(hand) = {Head(hand)}
      BY <3>1, <3>2, PlacesTyped, RangeHeadTail, RangeEmpty
    <3>4. Range(sink') = Range(sink) \cup {Head(hand)}
      <4>1. Head(hand) \in Records BY <3>1, PlacesTyped, HeadTailProperties
      <4> QED BY <2>2, <4>1, PlacesTyped, RangeAppend DEF WriteOut
    <3> QED BY <2>2, <3>3, <3>4 DEF WriteOut, Placed
  <2>3. CASE ~Receive /\ ~WriteOut
    BY <2>3 DEF RunStep, ReceiveClosed, ReceiveSync, StartDraining, Drained,
         UncountPending, Placed, sinkVars, runVars
  <2> QED BY <2>1, <2>2, <2>3
<1> QED BY <1>1, <1>2 DEF HandedOver

LEMMA HandedStep == TypeOK /\ HandedOver /\ [Next]_vars => HandedOver'
<1> SUFFICES ASSUME TypeOK, HandedOver, [Next]_vars PROVE HandedOver'
  OBVIOUS
<1>1. CASE UNCHANGED vars
  BY <1>1 DEF vars, HandedOver, Placed, Delivered, Carrying
<1>2. ASSUME NEW c \in Closers, CloserStep(c)
      PROVE  HandedOver'
  <2>1. /\ \A p \in Loggers : pc'[p] = pc[p]
        /\ writes' = writes
        /\ Placed' = Placed
    BY <1>2, ConstantsAssumption
       DEF TypeOK, Goto, Placed, CloserStep, CloseCall, CloseBegin, CloseAgain,
           CloseCancel, CloseChannel, CloseJoin, CloseSync, sinkVars, runVars, callVars
  <2>2. \A r \in Records : Delivered(r[1])' = Delivered(r[1])
    BY <2>1 DEF Delivered, Carrying, Records
  <2> QED BY <2>1, <2>2 DEF HandedOver
<1> QED BY <1>1, <1>2, HandedLogger, HandedRun DEF Next, Terminated

LEMMA HandedInit == Init => HandedOver
BY DEF Init, HandedOver, Delivered, Carrying, Records

(* The three places are one stream that repeats nothing. *)
LEMMA StreamType ==
    ASSUME TypeOK
    PROVE  /\ Stream \in Seq(Records)
           /\ DOMAIN Stream = 1 .. Len(Stream)
           /\ Len(Stream) \in Nat
           /\ Range(Stream) = Placed
<1>1. sink \o hand \in Seq(Records) /\ Range(sink \o hand) = Range(sink) \cup Range(hand)
  BY PlacesTyped, ConcatProperties, RangeConcatenation
<1>2. /\ (sink \o hand) \o ch \in Seq(Records)
      /\ Range((sink \o hand) \o ch) = Range(sink \o hand) \cup Range(ch)
  <2>1. sink \o hand \in Seq(Records) /\ ch \in Seq(Records)
    BY <1>1, PlacesTyped
  <2>2. (sink \o hand) \o ch \in Seq(Records)
    BY <2>1, ConcatProperties
  <2>3. Range((sink \o hand) \o ch) = Range(sink \o hand) \cup Range(ch)
    BY ZenonT(40), <2>1, RangeConcatenation
  <2> QED BY <2>2, <2>3
<1> QED BY <1>1, <1>2, LenProperties DEF Stream, Placed

LEMMA StreamRepeatsNothing == TypeOK /\ Unrepeated => IsInjective(Stream)
<1> SUFFICES ASSUME TypeOK, Unrepeated PROVE IsInjective(Stream)
  OBVIOUS
<1>1. /\ sink \o hand \in Seq(Records)
      /\ Range(sink \o hand) = Range(sink) \cup Range(hand)
      /\ IsInjective(sink \o hand)
  BY PlacesTyped, ConcatProperties, RangeConcatenation, InjectiveConcat DEF Unrepeated
<1>2. Range(sink \o hand) \cap Range(ch) = {}
  BY <1>1 DEF Unrepeated
<1>3. IsInjective((sink \o hand) \o ch)
  BY <1>1, <1>2, PlacesTyped, InjectiveConcat DEF Unrepeated
<1> QED BY <1>3 DEF Stream

(* Every call of Write that has got rid of its record has put it, by the   *)
(* channel or directly, into exactly one place exactly once, and one that  *)
(* has not into none, whatever the other loggers, run and Close do.        *)
THEOREM WritesOnce == Spec => []EveryWriteOnce
<1>1. TypeOK /\ Issued /\ HandedOver /\ Unrepeated => EveryWriteOnce
  <2> SUFFICES ASSUME TypeOK, Issued, HandedOver, Unrepeated,
                      NEW p \in Loggers, NEW k \in 1 .. MaxWrites
               PROVE  Cardinality({i \in DOMAIN Stream : Stream[i] = <<p, k>>})
                          = IF k <= Delivered(p) THEN 1 ELSE 0
    BY DEF EveryWriteOnce
  <2> DEFINE At == {i \in DOMAIN Stream : Stream[i] = <<p, k>>}
  <2>1. <<p, k>> \in Records
    BY DEF Records
  <2>2. <<p, k>> \in Placed <=> k <= Delivered(p)
    BY <2>1 DEF Issued, HandedOver
  <2>3. CASE k <= Delivered(p)
    <3>1. PICK i \in DOMAIN Stream : Stream[i] = <<p, k>>
      BY <2>2, <2>3, StreamType DEF Range
    <3>2. At = {i}
      BY <3>1, StreamRepeatsNothing DEF IsInjective
    <3> QED BY <2>3, <3>2, FS_Singleton
  <2>4. CASE ~(k <= Delivered(p))
    <3>1. At = {}
      BY <2>2, <2>4, StreamType DEF Range
    <3> QED BY <2>4, <3>1, FS_EmptySet
  <2> QED BY <2>3, <2>4
<1>2. Init => TypeOK /\ Issued /\ HandedOver /\ Unrepeated
  BY TypeInit, IssuedInit, HandedInit, OnceInit
<1>3. TypeOK /\ Issued /\ HandedOver /\ Unrepeated /\ [Next]_vars
        => (TypeOK /\ Issued /\ HandedOver /\ Unrepeated)'
  BY TypeStep, IssuedStep, HandedStep, OnceStep
<1> QED BY <1>1, <1>2, <1>3, PTL DEF Spec

-----------------------------------------------------------------------------
(* The order of the records *)

(* The stream before and after a step, while nobody has called Close. *)
LEMMA StreamSend ==
    ASSUME TypeOK, NEW p \in Loggers, Send(p)
    PROVE  Rec(p) \in Records /\ Stream' = Append(Stream, Rec(p))
<1>1. Rec(p) \in Records
  BY RecIsRecord DEF Send, Sending, Carrying
<1>2. <<Rec(p)>> \in Seq(Records) /\ ch' = ch \o <<Rec(p)>>
  BY <1>1, AppendIsConcat DEF Send, TypeOK
<1>3. sink \o hand \in Seq(Records)
  BY PlacesTyped, ConcatProperties
<1>4. (sink \o hand) \o (ch \o <<Rec(p)>>) = ((sink \o hand) \o ch) \o <<Rec(p)>>
  BY SMTT(40), <1>2, <1>3, ConcatAssociative DEF TypeOK
<1>5. Append(Stream, Rec(p)) = Stream \o <<Rec(p)>>
  BY <1>1, StreamType, AppendIsConcat
<1>6. hand' = hand /\ sink' = sink BY DEF Send, runVars, sinkVars
<1> QED BY <1>1, <1>2, <1>4, <1>5, <1>6, Zenon DEF Stream

LEMMA StreamReceive ==
    ASSUME TypeOK, Receive
    PROVE  Stream' = Stream
<1>1. hand = <<>> BY EmptySeq DEF Receive, TypeOK
<1>2. sink \o hand = sink BY <1>1, ConcatEmptySeq DEF TypeOK
<1>3. /\ <<Head(ch)>> \in Seq(Records)
      /\ Tail(ch) \in Seq(Records)
      /\ <<Head(ch)>> \o Tail(ch) = ch
  BY HeadThenTail, HeadTailProperties DEF Receive, TypeOK
<1>4. (sink \o <<Head(ch)>>) \o Tail(ch) = sink \o (<<Head(ch)>> \o Tail(ch))
  BY SMTT(40), <1>3, ConcatAssociative DEF TypeOK
<1>5. sink' = sink /\ hand' = <<Head(ch)>> /\ ch' = Tail(ch)
  BY DEF Receive, sinkVars
<1> QED BY <1>2, <1>3, <1>4, <1>5, Zenon DEF Stream

LEMMA StreamWriteOut ==
    ASSUME TypeOK, WriteOut
    PROVE  Stream' = Stream
<1>1. hand # <<>> BY NonEmpty DEF WriteOut, TypeOK
<1>2. Head(hand) \in Records /\ Tail(hand) = <<>>
  <2>1. Head(hand) \in Records /\ Tail(hand) \in Seq(Records) /\ Len(Tail(hand)) = 0
    BY <1>1, HeadTailProperties DEF WriteOut, TypeOK
  <2> QED BY <2>1, EmptySeq
<1>3. hand = <<Head(hand)>>
  <2>1. <<Head(hand)>> \in Seq(Records) BY <1>2
  <2>2. <<Head(hand)>> \o <<>> = hand BY <1>1, <1>2, HeadThenTail DEF TypeOK
  <2>3. <<Head(hand)>> \o <<>> = <<Head(hand)>> BY <2>1, ConcatEmptySeq
  <2> QED BY <2>2, <2>3
<1>4. Append(sink, Head(hand)) = sink \o <<Head(hand)>>
  BY <1>2, PlacesTyped, AppendIsConcat
<1>5. Append(sink, Head(hand)) \o <<>> = Append(sink, Head(hand))
  <2>1. Append(sink, Head(hand)) \in Seq(Records) BY <1>2, PlacesTyped, AppendProperties
  <2> QED BY <2>1, ConcatEmptySeq
<1>6. sink' = Append(sink, Head(hand)) /\ hand' = <<>> /\ ch' = ch
  BY DEF WriteOut
<1> QED BY <1>3, <1>4, <1>5, <1>6, Zenon DEF Stream

(* The record a logger sends is younger than all its records in the stream. *)
LEMMA OrderSend ==
    ASSUME TypeOK, Issued, InOrderWhileOpen, NEW p \in Loggers, Send(p)
    PROVE  InOrderWhileOpen'
<1> SUFFICES ASSUME ~closed', NEW i \in DOMAIN Stream', NEW j \in DOMAIN Stream', i < j,
                    Stream'[i][1] = Stream'[j][1]
             PROVE  Stream'[i][2] < Stream'[j][2]
  BY DEF InOrderWhileOpen
<1>1. ~closed BY DEF Send, writerVars
<1>2. Rec(p) \in Records /\ Stream' = Append(Stream, Rec(p))
  BY StreamSend
<1>3. /\ DOMAIN Stream' = 1 .. Len(Stream) + 1
      /\ \A n \in 1 .. Len(Stream) : Stream'[n] = Stream[n]
      /\ Stream'[Len(Stream) + 1] = Rec(p)
      /\ Len(Stream) \in Nat /\ DOMAIN Stream = 1 .. Len(Stream)
  BY <1>2, StreamType, AppendProperties
<1>4. i \in DOMAIN Stream /\ Stream'[i] = Stream[i]
  BY <1>3
<1>5. CASE j \in DOMAIN Stream
  BY <1>1, <1>3, <1>4, <1>5 DEF InOrderWhileOpen
<1>6. CASE j \notin DOMAIN Stream
  <2>1. Stream'[j] = Rec(p) BY <1>3, <1>6
  <2>2. Rec(p)[1] = p /\ Rec(p)[2] = writes[p] BY DEF Rec
  <2>3. Stream[i] \in Placed /\ Stream[i] \in Records
    BY <1>4, StreamType, PlacedAreRecords DEF Range
  <2>4. Stream[i][1] = p BY <1>4, <2>1, <2>2
  <2>5. Stream[i][2] <= Delivered(p) BY <2>3, <2>4 DEF Issued
  <2>6. Delivered(p) = writes[p] - 1
    BY DEF Send, Sending, Delivered, Carrying
  <2>7. Stream[i][2] \in Nat BY <2>3 DEF Records
  <2> QED BY <1>4, <2>1, <2>2, <2>5, <2>6, <2>7, DeliveredType
<1> QED BY <1>5, <1>6

LEMMA OrderStep ==
    TypeOK /\ ClosePhase /\ Issued /\ InOrderWhileOpen /\ [Next]_vars => InOrderWhileOpen'
<1> SUFFICES ASSUME TypeOK, ClosePhase, Issued, InOrderWhileOpen, [Next]_vars
             PROVE  InOrderWhileOpen'
  OBVIOUS
<1>1. ASSUME Stream' = Stream, ~closed' => ~closed
      PROVE  InOrderWhileOpen'
  BY <1>1 DEF InOrderWhileOpen
<1>2. ASSUME UNCHANGED <<sink, hand, ch>>, ~closed' => ~closed
      PROVE  InOrderWhileOpen'
  BY <1>1, <1>2 DEF Stream
<1>3. CASE UNCHANGED vars
  BY <1>2, <1>3 DEF vars
<1>4. ASSUME NEW p \in Loggers, LoggerStep(p)
      PROVE  InOrderWhileOpen'
  <2>1. CASE Send(p) BY <2>1, OrderSend
  <2>2. CASE DirectWrite(p)
    <3>1. closed' BY <2>2 DEF DirectWrite, ClosePhase, writerVars
    <3> QED BY <3>1 DEF InOrderWhileOpen
  <2>3. CASE ~Send(p) /\ ~DirectWrite(p)
    <3>1. closed' = closed
      BY <1>4, <2>3 DEF LoggerStep, WriteBegin, SendOnClosed, SendCancelled, WriteBlocks,
           CountPending, SyncBegin, SyncSignal, SyncPoll, SyncTick, SyncTimeout,
           SyncCancelled, SyncFlush, writerVars
    <3> QED BY <1>2, <1>4, <2>3, <3>1, PlacesKept
  <2> QED BY <2>1, <2>2, <2>3
<1>5. ASSUME NEW c \in Closers, CloserStep(c)
      PROVE  InOrderWhileOpen'
  <2>1. UNCHANGED <<sink, hand, ch>> /\ (~closed' => ~closed)
    BY <1>5 DEF CloserStep, CloseCall, CloseBegin, CloseAgain, CloseCancel, CloseChannel,
         CloseJoin, CloseSync, sinkVars, runVars, writerVars
  <2> QED BY <1>2, <2>1
<1>6. CASE RunStep
  <2>1. closed' = closed
    BY <1>6 DEF RunStep, Receive, ReceiveClosed, ReceiveSync, StartDraining, Drained,
         WriteOut, UncountPending, writerVars
  <2>2. CASE Receive BY <1>1, <2>1, <2>2, StreamReceive
  <2>3. CASE WriteOut BY <1>1, <2>1, <2>3, StreamWriteOut
  <2>4. CASE ~Receive /\ ~WriteOut
    <3>1. UNCHANGED <<sink, hand, ch>>
      BY <1>6, <2>4 DEF RunStep, ReceiveClosed, ReceiveSync, StartDraining, Drained,
           UncountPending, sinkVars, runVars
    <3> QED BY <1>2, <2>1, <3>1
  <2> QED BY <2>2, <2>3, <2>4
<1> QED BY <1>3, <1>4, <1>5, <1>6 DEF Next, Terminated

LEMMA OrderInit == Init => InOrderWhileOpen
<1> SUFFICES ASSUME Init PROVE DOMAIN Stream = {}
  BY DEF InOrderWhileOpen
<1>1. Stream = <<>>
  BY EmptyIsSeq, ConcatEmptySeq DEF Init, Stream
<1> QED BY <1>1

(* As long as Close has not been called, the records of each goroutine are *)
(* in the order of its calls all the way from the channel into the         *)
(* underlying writer.                                                      *)
THEOREM RecordsInOrder == Spec => []InOrderWhileOpen
<1>1. Init => TypeOK /\ ClosePhase /\ Issued /\ InOrderWhileOpen
  BY TypeInit, PhaseInit, IssuedInit, OrderInit
<1>2. TypeOK /\ ClosePhase /\ Issued /\ InOrderWhileOpen /\ [Next]_vars
        => (TypeOK /\ ClosePhase /\ Issued /\ InOrderWhileOpen)'
  BY TypeStep, PhaseStep, IssuedStep, OrderStep
<1> QED BY <1>1, <1>2, PTL DEF Spec
=============================================================================
