------------------------------ MODULE LogSink ------------------------------
(***************************************************************************)
(* What the asynchronous log writer promises its callers, without its      *)
(* goroutines: a bounded FIFO of accepted records in front of the          *)
(* underlying writer.  Records leave the FIFO in the order in which they   *)
(* were accepted and each reaches the underlying writer at most once.      *)
(* Once the writer is being closed a record may bypass the FIFO, and       *)
(* nothing obliges the records still queued to be delivered.               *)
(*                                                                         *)
(* AsyncWriter refines this specification (see Sink there).                *)
(***************************************************************************)
EXTENDS Naturals, Sequences, Functions

CONSTANTS Records,   \* the records a caller may log
          Depth      \* how many accepted records may be waiting

VARIABLES queue,     \* accepted and not yet written, oldest first
          out,       \* what the underlying writer received, oldest first
          closing    \* closing has begun

sinkVars == <<queue, out, closing>>

Init == /\ queue = <<>>
        /\ out = <<>>
        /\ closing = FALSE

Fresh(r) == r \notin Range(queue) \cup Range(out)

Accept(r) == /\ Len(queue) < Depth
             /\ Fresh(r)
             /\ queue' = Append(queue, r)
             /\ UNCHANGED <<out, closing>>

Deliver == /\ queue # <<>>
           /\ out' = Append(out, Head(queue))
           /\ queue' = Tail(queue)
           /\ UNCHANGED closing

Bypass(r) == /\ closing
             /\ Fresh(r)
             /\ out' = Append(out, r)
             /\ UNCHANGED <<queue, closing>>

Shut == /\ closing' = TRUE
        /\ UNCHANGED <<queue, out>>

Next == \/ \E r \in Records : Accept(r) \/ Bypass(r)
        \/ Deliver
        \/ Shut

Spec == Init /\ [][Next]_sinkVars
=============================================================================
