----------------------------- MODULE AtomicDisk -----------------------------
(***************************************************************************)
(* What log.c promises to the file system: a disk on which the writes of   *)
(* several system calls become durable together, and only at a moment when *)
(* no system call is half way.                                             *)
(*                                                                         *)
(*   mem      what a running system call reads (the cached blocks)         *)
(*   durable  what a machine that lost power now would boot into           *)
(*   active   the system calls between begin_op() and end_op()             *)
(***************************************************************************)
CONSTANTS Proc, Block, Val, InitVal

VARIABLES mem, durable, active

avars == <<mem, durable, active>>

Init ==
    /\ mem = [b \in Block |-> InitVal]
    /\ durable = mem
    /\ active = {}

Begin(p) ==
    /\ p \notin active
    /\ active' = active \cup {p}
    /\ UNCHANGED <<mem, durable>>

Write(p, b, v) ==
    /\ p \in active
    /\ mem' = [mem EXCEPT ![b] = v]
    /\ UNCHANGED <<durable, active>>

End(p) ==
    /\ p \in active
    /\ active' = active \ {p}
    /\ UNCHANGED <<mem, durable>>

\* The group of finished system calls becomes durable at once.
Commit ==
    /\ active = {}
    /\ durable' = mem
    /\ UNCHANGED <<mem, active>>

\* Power loss: the machine comes back with the last committed group.
Crash ==
    /\ mem' = durable
    /\ active' = {}
    /\ UNCHANGED durable

Next ==
    \/ \E p \in Proc : Begin(p) \/ End(p)
    \/ \E p \in Proc, b \in Block, v \in Val : Write(p, b, v)
    \/ Commit
    \/ Crash

Spec == Init /\ [][Next]_avars
=============================================================================
