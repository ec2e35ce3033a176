---------------------------- MODULE AsyncWriter ----------------------------
(***************************************************************************)
(* src/log/async_writer.go: the asynchronous zapcore.WriteSyncer.          *)
(*                                                                         *)
(* Loggers are goroutines that call Write and Sync, Closers goroutines     *)
(* that call Close, and one more goroutine executes run.  An action is one *)
(* atomic step of one of them: a channel operation, a select, an atomic    *)
(* load or store, or a critical section of a.mu.  A panic in a goroutine   *)
(* that nobody recovers ends the process: crashed, after which no          *)
(* goroutine takes a step.                                                 *)
(*                                                                         *)
(* A record is <<p, k>>, the k-th record logged by goroutine p.            *)
(***************************************************************************)
EXTENDS Naturals, Sequences, FiniteSets, Functions

CONSTANTS Loggers,     \* goroutines that call Write and Sync
          Closers,     \* goroutines that call Close
          Capacity,    \* capacity of a.ch (10000 in the code)
          MaxWrites,   \* bound: calls of Write per logger
          MaxSyncs     \* bound: calls of Sync per logger

ASSUME ConstantsAssumption ==
    /\ IsFiniteSet(Loggers)
    /\ Loggers \cap Closers = {}
    /\ Capacity \in Nat \ {0}
    /\ MaxWrites \in Nat
    /\ MaxSyncs \in Nat

VARIABLES
    closed,      \* a.closed = 1
    cancelled,   \* a.ctx.Done() is closed
    chClosed,    \* close(a.ch) was called
    ch,          \* the buffer of a.ch
    syncCh,      \* number of tokens in a.syncCh
    pending,     \* a.pending
    once,        \* a.closeOnce: "new", "busy" or "done"
    sink,        \* what the underlying writer received, oldest first
    synced,      \* length of the prefix of sink the last writer.Sync covered
    pc,          \* where each logger and each closer is
    writes,      \* calls of Write begun by each logger
    syncs,       \* calls of Sync begun by each logger
    via,         \* why a logger's Sync stopped waiting
    runPc,       \* where run is
    hand,        \* the record run received and has not written, as a sequence
    draining,    \* run is in the loop after ctx.Done()
    crashed,     \* a goroutine panicked
    early        \* ghost: records put into a.ch before a.closed was set

writerVars == <<closed, cancelled, chClosed, syncCh, once>>
callVars == <<writes, syncs, via>>
runVars == <<runPc, hand, draining>>
sinkVars == <<sink, synced>>
vars == <<closed, cancelled, chClosed, ch, syncCh, pending, once, sink, synced,
          pc, writes, syncs, via, runPc, hand, draining, crashed, early>>

Records == Loggers \X (1 .. MaxWrites)

Init ==
    /\ closed = FALSE
    /\ cancelled = FALSE
    /\ chClosed = FALSE
    /\ ch = <<>>
    /\ syncCh = 0
    /\ pending = 0
    /\ once = "new"
    /\ sink = <<>>
    /\ synced = 0
    /\ pc = [p \in Loggers \cup Closers |-> "idle"]
    /\ writes = [p \in Loggers |-> 0]
    /\ syncs = [p \in Loggers |-> 0]
    /\ via = [p \in Loggers |-> "none"]
    /\ runPc = "select"
    /\ hand = <<>>
    /\ draining = FALSE
    /\ crashed = FALSE
    /\ early = {}

Goto(p, label) == pc' = [pc EXCEPT ![p] = label]

(* The record a logger's current (or last) call of Write carries. *)
Rec(p) == <<p, writes[p]>>

-----------------------------------------------------------------------------
(* Write(p) *)

(* The call, up to the check of a.closed. *)
WriteBegin(p) ==
    /\ pc[p] = "idle"
    /\ writes[p] < MaxWrites
    /\ writes' = [writes EXCEPT ![p] = @ + 1]
    /\ Goto(p, IF closed THEN "direct" ELSE "select")
    /\ UNCHANGED <<writerVars, sinkVars, runVars, ch, pending, syncs, via, crashed, early>>

(* "select" stands for the outer select, "blocked" for the inner one that  *)
(* the default branch enters.  A goroutine that is parked in the inner     *)
(* select and one that is about to evaluate it are not told apart: every   *)
(* step of the first is a step of the second.                              *)
Sending(p) == pc[p] \in {"select", "blocked"}

(* Mutants of Send: no limit on the buffer; the send of the inner select   *)
(* is not counted.                                                         *)
SendUnbounded(p) ==
    /\ Sending(p)
    /\ ~chClosed
    /\ ch' = Append(ch, Rec(p))
    /\ early' = IF closed THEN early ELSE early \cup {Rec(p)}
    /\ Goto(p, "count")
    /\ UNCHANGED <<writerVars, sinkVars, callVars, runVars, pending, crashed>>

SendUncounted(p) ==
    /\ Sending(p)
    /\ ~chClosed
    /\ Len(ch) < Capacity
    /\ ch' = Append(ch, Rec(p))
    /\ early' = IF closed THEN early ELSE early \cup {Rec(p)}
    /\ Goto(p, IF pc[p] = "blocked" THEN "idle" ELSE "count")
    /\ UNCHANGED <<writerVars, sinkVars, callVars, runVars, pending, crashed>>

(* case a.ch <- cp *)
Send(p) ==
    /\ Sending(p)
    /\ ~chClosed
    /\ Len(ch) < Capacity
    /\ ch' = Append(ch, Rec(p))
    /\ early' = IF closed THEN early ELSE early \cup {Rec(p)}
    /\ Goto(p, "count")
    /\ UNCHANGED <<writerVars, sinkVars, callVars, runVars, pending, crashed>>

(* case a.ch <- cp when a.ch is closed: a select treats the send as ready  *)
(* and panics when it picks it.                                            *)
SendOnClosed(p) ==
    /\ Sending(p)
    /\ chClosed
    /\ crashed' = TRUE
    /\ UNCHANGED <<writerVars, sinkVars, callVars, runVars, ch, pending, pc, early>>

(* case <-a.ctx.Done() *)
SendCancelled(p) ==
    /\ Sending(p)
    /\ cancelled
    /\ Goto(p, "direct")
    /\ UNCHANGED <<writerVars, sinkVars, callVars, runVars, ch, pending, crashed, early>>

(* Mutants of WriteBlocks: a full channel drops the record, or lets it go  *)
(* straight to the underlying writer.                                      *)
WriteDropsWhenFull(p) ==
    /\ pc[p] = "select" /\ Len(ch) = Capacity /\ ~chClosed /\ ~cancelled
    /\ Goto(p, "idle")
    /\ UNCHANGED <<writerVars, sinkVars, callVars, runVars, ch, pending, crashed, early>>

WriteOvertakesWhenFull(p) ==
    /\ pc[p] = "select" /\ Len(ch) = Capacity /\ ~chClosed /\ ~cancelled
    /\ Goto(p, "direct")
    /\ UNCHANGED <<writerVars, sinkVars, callVars, runVars, ch, pending, crashed, early>>

(* default: neither case of the outer select is ready *)
WriteBlocks(p) ==
    /\ pc[p] = "select"
    /\ Len(ch) = Capacity
    /\ ~chClosed
    /\ ~cancelled
    /\ Goto(p, "blocked")
    /\ UNCHANGED <<writerVars, sinkVars, callVars, runVars, ch, pending, crashed, early>>

(* a.pending++ under a.mu, after the record is already in the channel *)
CountPending(p) ==
    /\ pc[p] = "count"
    /\ pending' = pending + 1
    /\ Goto(p, "idle")
    /\ UNCHANGED <<writerVars, sinkVars, callVars, runVars, ch, crashed, early>>

(* a.writer.Write(p) in the caller's goroutine *)
DirectWrite(p) ==
    /\ pc[p] = "direct"
    /\ sink' = Append(sink, Rec(p))
    /\ Goto(p, "idle")
    /\ UNCHANGED <<writerVars, synced, callVars, runVars, ch, pending, crashed, early>>

-----------------------------------------------------------------------------
(* Sync() *)

(* The call, up to the check of a.closed. *)
SyncBegin(p) ==
    /\ pc[p] = "idle"
    /\ syncs[p] < MaxSyncs
    /\ syncs' = [syncs EXCEPT ![p] = @ + 1]
    /\ via' = [via EXCEPT ![p] = IF closed THEN "closed" ELSE "none"]
    /\ Goto(p, IF closed THEN "flush" ELSE "signal")
    /\ UNCHANGED <<writerVars, sinkVars, runVars, ch, pending, writes, crashed, early>>

(* Mutant of SyncSignal: no default branch. *)
SyncSignalBlocking(p) ==
    /\ pc[p] = "signal"
    /\ syncCh = 0
    /\ syncCh' = 1
    /\ Goto(p, "poll")
    /\ UNCHANGED <<closed, cancelled, chClosed, once, sinkVars, callVars, runVars,
                   ch, pending, crashed, early>>

(* a.syncCh <- struct{}{}, or the default branch's sleep when it is full *)
SyncSignal(p) ==
    /\ pc[p] = "signal"
    /\ syncCh' = 1
    /\ Goto(p, "poll")
    /\ UNCHANGED <<closed, cancelled, chClosed, once, sinkVars, callVars, runVars,
                   ch, pending, crashed, early>>

(* Read a.pending under a.mu; zero ends the loop. *)
SyncPoll(p) ==
    /\ pc[p] = "poll"
    /\ via' = [via EXCEPT ![p] = IF pending = 0 THEN "drained" ELSE @]
    /\ Goto(p, IF pending = 0 THEN "flush" ELSE "wait")
    /\ UNCHANGED <<writerVars, sinkVars, runVars, ch, pending, writes, syncs, crashed, early>>

(* case <-ticker.C *)
SyncTick(p) ==
    /\ pc[p] = "wait"
    /\ Goto(p, "poll")
    /\ UNCHANGED <<writerVars, sinkVars, callVars, runVars, ch, pending, crashed, early>>

(* case <-timeout.C, five seconds after the loop was entered: the model has *)
(* no clock, the timer may have fired at any round of the loop.             *)
SyncTimeout(p) ==
    /\ pc[p] = "wait"
    /\ via' = [via EXCEPT ![p] = "timeout"]
    /\ Goto(p, "flush")
    /\ UNCHANGED <<writerVars, sinkVars, runVars, ch, pending, writes, syncs, crashed, early>>

(* case <-a.ctx.Done() *)
SyncCancelled(p) ==
    /\ pc[p] = "wait"
    /\ cancelled
    /\ via' = [via EXCEPT ![p] = "closed"]
    /\ Goto(p, "flush")
    /\ UNCHANGED <<writerVars, sinkVars, runVars, ch, pending, writes, syncs, crashed, early>>

(* a.writer.Sync() and the return *)
SyncFlush(p) ==
    /\ pc[p] = "flush"
    /\ synced' = Len(sink)
    /\ via' = [via EXCEPT ![p] = "none"]
    /\ Goto(p, "idle")
    /\ UNCHANGED <<writerVars, sink, writes, syncs, runVars, ch, pending, crashed, early>>

-----------------------------------------------------------------------------
(* Close() *)

(* The call, up to closeOnce.Do, which admits one caller and holds the     *)
(* others until that one has finished.                                     *)
CloseCall(c) ==
    /\ pc[c] = "idle"
    /\ Goto(c, "once")
    /\ UNCHANGED <<writerVars, sinkVars, callVars, runVars, ch, pending, crashed, early>>

(* The first caller enters and stores a.closed. *)
CloseBegin(c) ==
    /\ pc[c] = "once"
    /\ once = "new"
    /\ once' = "busy"
    /\ closed' = TRUE
    /\ Goto(c, "cancel")
    /\ UNCHANGED <<cancelled, chClosed, syncCh, sinkVars, callVars, runVars, ch,
                   pending, crashed, early>>

(* A later caller returns without doing anything. *)
CloseAgain(c) ==
    /\ pc[c] = "once"
    /\ once = "done"
    /\ Goto(c, "returned")
    /\ UNCHANGED <<writerVars, sinkVars, callVars, runVars, ch, pending, crashed, early>>

CloseCancel(c) ==
    /\ pc[c] = "cancel"
    /\ cancelled' = TRUE
    /\ Goto(c, "closeCh")
    /\ UNCHANGED <<closed, chClosed, syncCh, once, sinkVars, callVars, runVars, ch,
                   pending, crashed, early>>

CloseChannel(c) ==
    /\ pc[c] = "closeCh"
    /\ chClosed' = TRUE
    /\ Goto(c, "join")
    /\ UNCHANGED <<closed, cancelled, syncCh, once, sinkVars, callVars, runVars, ch,
                   pending, crashed, early>>

(* Mutant of CloseJoin: also wait for the counter. *)
CloseJoinOnCount(c) ==
    /\ pc[c] = "join"
    /\ runPc = "stopped"
    /\ pending = 0
    /\ Goto(c, "closeSync")
    /\ UNCHANGED <<writerVars, sinkVars, callVars, runVars, ch, pending, crashed, early>>

(* a.wg.Wait() *)
CloseJoin(c) ==
    /\ pc[c] = "join"
    /\ runPc = "stopped"
    /\ Goto(c, "closeSync")
    /\ UNCHANGED <<writerVars, sinkVars, callVars, runVars, ch, pending, crashed, early>>

(* a.writer.Sync() and the return *)
CloseSync(c) ==
    /\ pc[c] = "closeSync"
    /\ synced' = Len(sink)
    /\ once' = "done"
    /\ Goto(c, "returned")
    /\ UNCHANGED <<closed, cancelled, chClosed, syncCh, sink, callVars, runVars, ch,
                   pending, crashed, early>>

-----------------------------------------------------------------------------
(* run() *)

(* case p, ok := <-a.ch with ok, in either loop *)
Receive ==
    /\ runPc = "select"
    /\ ch # <<>>
    /\ hand' = <<Head(ch)>>
    /\ ch' = Tail(ch)
    /\ runPc' = "write"
    /\ UNCHANGED <<writerVars, sinkVars, callVars, draining, pending, pc, crashed, early>>

(* case p, ok := <-a.ch with !ok, in either loop *)
ReceiveClosed ==
    /\ runPc = "select"
    /\ ch = <<>>
    /\ chClosed
    /\ runPc' = "stopped"
    /\ UNCHANGED <<writerVars, sinkVars, callVars, hand, draining, ch, pending, pc,
                   crashed, early>>

(* Mutant of ReceiveSync: return instead of continue. *)
ReceiveSyncReturns ==
    /\ runPc = "select"
    /\ ~draining
    /\ syncCh = 1
    /\ syncCh' = 0
    /\ runPc' = "stopped"
    /\ UNCHANGED <<closed, cancelled, chClosed, once, sinkVars, callVars, hand,
                   draining, ch, pending, pc, crashed, early>>

(* case <-a.syncCh: the token is dropped *)
ReceiveSync ==
    /\ runPc = "select"
    /\ ~draining
    /\ syncCh = 1
    /\ syncCh' = 0
    /\ UNCHANGED <<closed, cancelled, chClosed, once, sinkVars, callVars, runVars,
                   ch, pending, pc, crashed, early>>

(* Mutant of StartDraining: return without emptying the channel. *)
StopWithoutDraining ==
    /\ runPc = "select"
    /\ ~draining
    /\ cancelled
    /\ runPc' = "stopped"
    /\ UNCHANGED <<writerVars, sinkVars, callVars, draining, hand, ch, pending, pc,
                   crashed, early>>

(* case <-a.ctx.Done(): enter the inner loop *)
StartDraining ==
    /\ runPc = "select"
    /\ ~draining
    /\ cancelled
    /\ draining' = TRUE
    /\ UNCHANGED <<writerVars, sinkVars, callVars, runPc, hand, ch, pending, pc,
                   crashed, early>>

(* default of the inner loop: nothing in the channel at this moment *)
Drained ==
    /\ runPc = "select"
    /\ draining
    /\ ch = <<>>
    /\ ~chClosed
    /\ runPc' = "stopped"
    /\ UNCHANGED <<writerVars, sinkVars, callVars, hand, draining, ch, pending, pc,
                   crashed, early>>

(* a.writer.Write(p) *)
WriteOut ==
    /\ runPc = "write"
    /\ sink' = Append(sink, Head(hand))
    /\ hand' = <<>>
    /\ runPc' = "uncount"
    /\ UNCHANGED <<writerVars, synced, callVars, draining, ch, pending, pc, crashed, early>>

(* if a.pending > 0 { a.pending-- } under a.mu *)
UncountPending ==
    /\ runPc = "uncount"
    /\ pending' = IF pending > 0 THEN pending - 1 ELSE pending
    /\ runPc' = "select"
    /\ UNCHANGED <<writerVars, sinkVars, callVars, hand, draining, ch, pc, crashed, early>>

-----------------------------------------------------------------------------
LoggerStep(p) ==
    \/ WriteBegin(p) \/ Send(p) \/ SendOnClosed(p) \/ SendCancelled(p)
    \/ WriteBlocks(p) \/ CountPending(p) \/ DirectWrite(p)
    \/ SyncBegin(p) \/ SyncSignal(p) \/ SyncPoll(p) \/ SyncTick(p)
    \/ SyncTimeout(p) \/ SyncCancelled(p) \/ SyncFlush(p)

CloserStep(c) ==
    \/ CloseCall(c) \/ CloseBegin(c) \/ CloseAgain(c)
    \/ CloseCancel(c) \/ CloseChannel(c) \/ CloseJoin(c) \/ CloseSync(c)

RunStep ==
    \/ Receive \/ ReceiveClosed \/ ReceiveSync \/ StartDraining
    \/ Drained \/ WriteOut \/ UncountPending

(* Nothing is left to do: the process died, or every call has returned and *)
(* the bounds allow no more.                                               *)
Finished ==
    \/ crashed
    \/ /\ \A p \in Loggers : /\ pc[p] = "idle"
                             /\ writes[p] = MaxWrites
                             /\ syncs[p] = MaxSyncs
       /\ \A c \in Closers : pc[c] = "returned"

Terminated == Finished /\ UNCHANGED vars

Next ==
    \/ ~crashed /\ \E p \in Loggers : LoggerStep(p)
    \/ ~crashed /\ \E c \in Closers : CloserStep(c)
    \/ ~crashed /\ RunStep
    \/ Terminated

Spec == Init /\ [][Next]_vars

(***************************************************************************)
(* Fairness: the Go scheduler runs every runnable goroutine.  Between two  *)
(* rounds of Sync's loop the timer's case is not enabled, but once the     *)
(* timer has fired it is ready at every round, and select picks among the  *)
(* ready cases at random: strong fairness.  Nobody is obliged to start a   *)
(* call.                                                                   *)
(***************************************************************************)
Fairness ==
    /\ WF_vars(~crashed /\ RunStep)
    /\ \A p \in Loggers :
         /\ WF_vars(~crashed /\ pc[p] # "idle" /\ LoggerStep(p))
         /\ SF_vars(~crashed /\ SyncTimeout(p))
    /\ \A c \in Closers : WF_vars(~crashed /\ pc[c] # "idle" /\ CloserStep(c))

FairSpec == Spec /\ Fairness

-----------------------------------------------------------------------------
(* Properties *)

LoggerLabels == {"idle", "select", "blocked", "count", "direct",
                 "signal", "poll", "wait", "flush"}
CloserLabels == {"idle", "once", "cancel", "closeCh", "join", "closeSync", "returned"}

(* p is in a call of Write and has its record still to hand over. *)
Carrying(p) == pc[p] \in {"select", "blocked", "direct"}

(* Every variable has its type; run holds a record exactly while it is     *)
(* about to write one, and the channel never exceeds its capacity.         *)
TypeOK ==
    /\ closed \in BOOLEAN /\ cancelled \in BOOLEAN /\ chClosed \in BOOLEAN
    /\ draining \in BOOLEAN /\ crashed \in BOOLEAN
    /\ ch \in Seq(Records) /\ Len(ch) <= Capacity
    /\ syncCh \in {0, 1}
    /\ pending \in Nat
    /\ once \in {"new", "busy", "done"}
    /\ sink \in Seq(Records)
    /\ synced \in 0 .. Len(sink)
    /\ pc \in [Loggers \cup Closers -> LoggerLabels \cup CloserLabels]
    /\ \A p \in Loggers : pc[p] \in LoggerLabels /\ (Carrying(p) => writes[p] > 0)
    /\ \A c \in Closers : pc[c] \in CloserLabels
    /\ writes \in [Loggers -> 0 .. MaxWrites]
    /\ syncs \in [Loggers -> 0 .. MaxSyncs]
    /\ via \in [Loggers -> {"none", "drained", "timeout", "closed"}]
    /\ runPc \in {"select", "write", "uncount", "stopped"}
    /\ hand \in Seq(Records) /\ Len(hand) = IF runPc = "write" THEN 1 ELSE 0
    /\ early \subseteq Records

(* All accepted records in the order of the path they take. *)
Stream == sink \o hand \o ch

(* Calls of Write that have got rid of their record. *)
Delivered(p) == IF Carrying(p) THEN writes[p] - 1 ELSE writes[p]

(* Write hands every record over exactly once: by the channel or directly, *)
(* never both and never neither, whatever Close does meanwhile.  (Handed   *)
(* over is not written: what is in the channel when run stops stays there.) *)
EveryWriteOnce ==
    \A p \in Loggers : \A k \in 1 .. MaxWrites :
        Cardinality({i \in DOMAIN Stream : Stream[i] = <<p, k>>})
            = IF k <= Delivered(p) THEN 1 ELSE 0

(* Until Close is called the records of one goroutine keep their order     *)
(* through the channel and run into the underlying writer.                 *)
InOrderWhileOpen ==
    ~closed => \A i, j \in DOMAIN Stream :
                   i < j /\ Stream[i][1] = Stream[j][1] => Stream[i][2] < Stream[j][2]

(* Goroutines that sent a record and have not counted it yet. *)
Counting == {p \in Loggers : pc[p] = "count"}

(* Records sent and not yet taken off the counter by run. *)
Backlog == Len(ch) + IF runPc \in {"write", "uncount"} THEN 1 ELSE 0

(* a.pending, incremented after the send and decremented only when         *)
(* positive, may drift above the backlog but falls short of it by at most  *)
(* the writers that are between the send and the increment.                *)
CountCovers == Backlog <= pending + Cardinality(Counting)

(* So a Sync that reads zero while no writer is in that window has nothing *)
(* left to wait for.                                                       *)
ZeroMeansEmpty == pending = 0 /\ Counting = {} => ch = <<>> /\ hand = <<>>

Durable == {sink[i] : i \in 1 .. synced}

(* When any call of Close has returned, every record that was in the       *)
(* channel before a.closed was set has been written and synced.            *)
CloseKeepsEarlier ==
    (\E c \in Closers : pc[c] = "returned") => early \subseteq Durable

(* The goroutines together implement the bounded FIFO of LogSink; the      *)
(* record in run's hand still counts as queued.                            *)
Sink == INSTANCE LogSink WITH Depth <- Capacity + 1,
                              queue <- hand \o ch, out <- sink, closing <- closed
SinkSpec == Sink!Spec

(* The facts the proofs of the above need of one another.  What a phase of *)
(* Close implies: *)
ClosePhase ==
    /\ once = "new" <=> ~closed
    /\ cancelled => closed
    /\ chClosed => cancelled
    /\ draining => cancelled
    /\ runPc = "stopped" => closed
    /\ \A c \in Closers :
         /\ pc[c] \in {"cancel", "closeCh", "join", "closeSync"} => closed
         /\ pc[c] = "closeCh" => cancelled
         /\ pc[c] = "closeSync" => runPc = "stopped"
         /\ pc[c] = "returned" => once = "done"
    /\ \A p \in Loggers : pc[p] = "direct" => closed

(* where the early records are, *)
EarlyPlaced ==
    /\ early \subseteq Range(sink) \cup Range(hand) \cup Range(ch)
    /\ runPc = "stopped" => early \subseteq Range(sink)
    /\ once = "done" => runPc = "stopped" /\ early \subseteq Durable

(* and that a record a Write has still to get rid of is nowhere yet. *)
Placed == Range(sink) \cup Range(hand) \cup Range(ch)
Issued == \A r \in Placed : r[2] <= Delivered(r[1])

(* Conversely a record a Write has got rid of is somewhere, *)
HandedOver == \A r \in Records : r[2] <= Delivered(r[1]) => r \in Placed

(* and no record is in two places or twice in one. *)
Unrepeated ==
    /\ IsInjective(sink) /\ IsInjective(hand) /\ IsInjective(ch)
    /\ Range(sink) \cap Range(hand) = {}
    /\ Range(sink) \cap Range(ch) = {}
    /\ Range(hand) \cap Range(ch) = {}

(* A call of Write returns, also when the channel is full and when the     *)
(* writer is being closed.                                                 *)
WriteReturns ==
    \A p \in Loggers : pc[p] \in {"select", "blocked", "count", "direct"}
                           ~> pc[p] = "idle" \/ crashed

(* A call of Sync returns. *)
SyncReturns ==
    \A p \in Loggers : pc[p] \in {"signal", "poll", "wait", "flush"}
                           ~> pc[p] = "idle" \/ crashed

(* A call of Close returns: run always stops. *)
CloseReturns ==
    \A c \in Closers : pc[c] = "once" ~> pc[c] = "returned" \/ crashed

(* A record put into the channel before Close began is eventually written. *)
EarlyIsWritten ==
    \A r \in Records : r \in early ~> r \in Range(sink) \/ crashed

-----------------------------------------------------------------------------
(* What the comments of the code say and the code does not do *)

(* async_writer.go:56, "avoid the panic of writing to a closed channel". *)
NoPanic == ~crashed

(* async_writer.go:117, Sync "waits until all pending data is written": a  *)
(* Sync that stopped because the count was zero has its caller's records   *)
(* written.                                                                *)
SyncCoversOwnWrites ==
    \A p \in Loggers :
        pc[p] = "flush" /\ via[p] = "drained"
            => \A k \in 1 .. writes[p] : <<p, k>> \in Range(sink)

(* async_writer.go:204, Close "waits for all data to be written": once it  *)
(* has returned, no record of a completed Write is left in the channel.    *)
CloseWritesAll ==
    (\E c \in Closers : pc[c] = "returned") /\ Counting = {} => ch = <<>>
=============================================================================
