-------------------------------- MODULE Fifo --------------------------------
(***************************************************************************)
(* What a pipe promises: a bounded queue of bytes with two ends that can   *)
(* be closed for good.  Bytes leave in the order in which they entered,    *)
(* none is lost, made up or delivered twice, nothing enters once the write *)
(* end is closed, and only then, and when all bytes have left, can a       *)
(* reader be told that there are no more.                                  *)
(***************************************************************************)
EXTENDS Integers, Sequences

CONSTANTS Byte, Capacity

VARIABLES
    queue, rclosed, wclosed,
    out,    \* the byte that left last
    ended   \* the last answer to a reader was that there are no more bytes

fvars == <<queue, rclosed, wclosed, out, ended>>

Init ==
    /\ queue = << >>
    /\ rclosed = FALSE
    /\ wclosed = FALSE
    /\ out \in Byte
    /\ ended = FALSE

Put(b) ==
    /\ ~wclosed
    /\ Len(queue) < Capacity
    /\ queue' = Append(queue, b)
    /\ UNCHANGED <<rclosed, wclosed, out, ended>>

Get ==
    /\ ~rclosed
    /\ queue # << >>
    /\ queue' = Tail(queue)
    /\ out' = Head(queue)
    /\ UNCHANGED <<rclosed, wclosed, ended>>

CloseWrite == ~wclosed /\ wclosed' = TRUE /\ UNCHANGED <<queue, rclosed, out, ended>>

CloseRead == ~rclosed /\ rclosed' = TRUE /\ UNCHANGED <<queue, wclosed, out, ended>>

\* A reader asks; the answer is the end only at the end.
Answer ==
    /\ ended' \in BOOLEAN
    /\ ended' => ended \/ (wclosed /\ queue = << >>)
    /\ UNCHANGED <<queue, rclosed, wclosed, out>>

Next == Answer \/ (\E b \in Byte : Put(b)) \/ Get \/ CloseWrite \/ CloseRead

Spec == Init /\ [][Next]_fvars
=============================================================================
