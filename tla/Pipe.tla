-------------------------------- MODULE Pipe --------------------------------
(***************************************************************************)
(* pipe.c: one pipe, the processes that hold its two ends, and kill().     *)
(*                                                                         *)
(* p->lock is held from acquire() to release() or sleep().  kill() takes   *)
(* only ptable.lock, so it may fall between the test of p->killed and the  *)
(* moment sleep() makes the process SLEEPING: the two are separate steps.  *)
(* The counters nread and nwrite are unsigned and wrap around at UINT, of  *)
(* which PIPESIZE is a divisor (2^32 and 512 in the code).                 *)
(*                                                                         *)
(* fileclose() calls pipeclose() when the last descriptor of an end is     *)
(* closed; a process holds a descriptor of one end (open).                 *)
(***************************************************************************)
EXTENDS Integers, Sequences, FiniteSets

CONSTANTS
    Writer, Reader, \* processes that hold the write end, the read end
    Nobody,         \* p->lock is free
    Byte,           \* contents of a byte
    PIPESIZE,       \* size of the buffer
    UINT,           \* number of values of an unsigned int
    MaxN,           \* largest n of a read or write
    Killable        \* processes that are killed

Proc == Writer \cup Reader

ASSUME PipeAssumption ==
    /\ Writer \cap Reader = {}
    /\ Nobody \notin Proc
    /\ IsFiniteSet(Proc)
    /\ PIPESIZE \in Nat \ {0}
    /\ UINT \in Nat /\ UINT > PIPESIZE /\ UINT % PIPESIZE = 0
    /\ MaxN \in Nat
    /\ Killable \subseteq Proc

VARIABLES
    data, nread, nwrite,        \* struct pipe
    readopen, writeopen, freed, \* the same, and whether kfree(p) was called
    got,    \* the byte that piperead() copied last to the caller's buffer
    lock,   \* holder of p->lock
    open,   \* processes whose descriptor of the pipe is open
    killed, \* processes with p->killed set
    pc,     \* where each process is
    n, i,   \* locals of its call
    eof     \* history: readers whose last call returned 0 though n > 0

pipeVars == <<data, nread, nwrite, readopen, writeopen, freed, got>>
vars == <<pipeVars, lock, open, killed, pc, n, i, eof>>

PC == {"idle", "acquire", "loop", "copy", "sleep", "asleep", "pipeclose",
       "closed"}

TypeOK ==
    /\ data \in [0 .. PIPESIZE - 1 -> Byte]
    /\ nread \in 0 .. UINT - 1
    /\ nwrite \in 0 .. UINT - 1
    /\ (nwrite - nread) % UINT <= PIPESIZE
    /\ {readopen, writeopen, freed} \subseteq BOOLEAN
    /\ got \in Byte
    /\ lock \in Proc \cup {Nobody}
    /\ open \subseteq Proc
    /\ killed \subseteq Proc
    /\ pc \in [Proc -> PC]
    /\ n \in [Proc -> 0 .. MaxN]
    /\ i \in [Proc -> 0 .. MaxN]
    /\ eof \subseteq Reader

-----------------------------------------------------------------------------
\* After pipealloc() and the forks that share the two ends.
Init ==
    /\ data \in {[k \in 0 .. PIPESIZE - 1 |-> b] : b \in Byte}
    /\ nread = 0
    /\ nwrite = 0
    /\ readopen = TRUE
    /\ writeopen = TRUE
    /\ freed = FALSE
    /\ got \in Byte
    /\ lock = Nobody
    /\ open = Proc
    /\ killed = {}
    /\ pc = [p \in Proc |-> "idle"]
    /\ n = [p \in Proc |-> 0]
    /\ i = [p \in Proc |-> 0]
    /\ eof = {}

Empty == nread = nwrite

Full == nwrite = (nread + PIPESIZE) % UINT

Goto(p, place) == pc' = [pc EXCEPT ![p] = place]

\* wakeup() of the sleepers in set, by p, which goes on at place.
WakeupGoto(set, p, place) ==
    pc' = [q \in Proc |-> CASE q = p -> place
                            [] q # p /\ q \in set /\ pc[q] = "asleep" -> "acquire"
                            [] OTHER -> pc[q]]

\* A read or write system call; a killed process makes none.
Call(p, k) ==
    /\ pc[p] = "idle"
    /\ p \in open
    /\ p \notin killed
    /\ n' = [n EXCEPT ![p] = k]
    /\ i' = [i EXCEPT ![p] = 0]
    /\ eof' = eof \ {p}
    /\ Goto(p, "acquire")
    /\ UNCHANGED <<pipeVars, lock, open, killed>>

\* acquire(&p->lock), at the start of the call or at the end of sleep().
Acquire(p) ==
    /\ pc[p] = "acquire"
    /\ lock = Nobody
    /\ lock' = p
    /\ Goto(p, "loop")
    /\ UNCHANGED <<pipeVars, open, killed, n, i, eof>>

\* sleep(): p->lock is released once the process is SLEEPING.
Sleep(p) ==
    /\ pc[p] = "sleep"
    /\ lock' = Nobody
    /\ Goto(p, "asleep")
    /\ UNCHANGED <<pipeVars, open, killed, n, i, eof>>

\* release(&p->lock) and return.
Return(p) ==
    /\ lock' = Nobody
    /\ n' = [n EXCEPT ![p] = 0]
    /\ i' = [i EXCEPT ![p] = 0]
    /\ UNCHANGED <<pipeVars, open, killed>>

-----------------------------------------------------------------------------
\* pipewrite().

\* Mutant: the byte is stored at ++nwrite instead of nwrite++.
WriteByteAhead(p, b) ==
    /\ p \in Writer
    /\ pc[p] = "loop"
    /\ i[p] < n[p]
    /\ ~Full
    /\ data' = [data EXCEPT ![(nwrite + 1) % PIPESIZE] = b]
    /\ nwrite' = (nwrite + 1) % UINT
    /\ i' = [i EXCEPT ![p] = @ + 1]
    /\ UNCHANGED <<nread, readopen, writeopen, freed, got, lock, open, killed,
                   pc, n, eof>>

WriteByte(p, b) ==
    /\ p \in Writer
    /\ pc[p] = "loop"
    /\ i[p] < n[p]
    /\ ~Full
    /\ data' = [data EXCEPT ![nwrite % PIPESIZE] = b]
    /\ nwrite' = (nwrite + 1) % UINT
    /\ i' = [i EXCEPT ![p] = @ + 1]
    /\ UNCHANGED <<nread, readopen, writeopen, freed, got, lock, open, killed,
                   pc, n, eof>>

\* No room: give up if nobody can make some, or wake the readers and sleep.
WriteGiveUp(p) ==
    /\ p \in Writer
    /\ pc[p] = "loop"
    /\ i[p] < n[p]
    /\ Full
    /\ ~readopen \/ p \in killed
    /\ Goto(p, "idle")
    /\ Return(p)
    /\ UNCHANGED eof

\* Mutant: a writer that finds the pipe full sleeps without waking readers.
WriteFullSilently(p) ==
    /\ p \in Writer
    /\ pc[p] = "loop"
    /\ i[p] < n[p]
    /\ Full
    /\ readopen
    /\ p \notin killed
    /\ Goto(p, "sleep")
    /\ UNCHANGED <<pipeVars, lock, open, killed, n, i, eof>>

WriteFull(p) ==
    /\ p \in Writer
    /\ pc[p] = "loop"
    /\ i[p] < n[p]
    /\ Full
    /\ readopen
    /\ p \notin killed
    /\ WakeupGoto(Reader, p, "sleep")
    /\ UNCHANGED <<pipeVars, lock, open, killed, n, i, eof>>

WriteReturn(p) ==
    /\ p \in Writer
    /\ pc[p] = "loop"
    /\ i[p] = n[p]
    /\ WakeupGoto(Reader, p, "idle")
    /\ Return(p)
    /\ UNCHANGED eof

-----------------------------------------------------------------------------
\* piperead().

\* Nothing to read yet: give up if killed, or sleep.
ReadEmpty(p) ==
    /\ p \in Reader
    /\ pc[p] = "loop"
    /\ Empty
    /\ writeopen
    /\ p \notin killed
    /\ Goto(p, "sleep")
    /\ UNCHANGED <<pipeVars, lock, open, killed, n, i, eof>>

ReadGiveUp(p) ==
    /\ p \in Reader
    /\ pc[p] = "loop"
    /\ Empty
    /\ writeopen
    /\ p \in killed
    /\ Goto(p, "idle")
    /\ Return(p)
    /\ UNCHANGED eof

ReadStart(p) ==
    /\ p \in Reader
    /\ pc[p] = "loop"
    /\ ~Empty \/ ~writeopen
    /\ Goto(p, "copy")
    /\ UNCHANGED <<pipeVars, lock, open, killed, n, i, eof>>

ReadByte(p) ==
    /\ p \in Reader
    /\ pc[p] = "copy"
    /\ i[p] < n[p]
    /\ ~Empty
    /\ got' = data[nread % PIPESIZE]
    /\ nread' = (nread + 1) % UINT
    /\ i' = [i EXCEPT ![p] = @ + 1]
    /\ UNCHANGED <<data, nwrite, readopen, writeopen, freed, lock, open,
                   killed, pc, n, eof>>

ReadReturn(p) ==
    /\ p \in Reader
    /\ pc[p] = "copy"
    /\ i[p] = n[p] \/ Empty
    /\ WakeupGoto(Writer, p, "idle")
    /\ Return(p)
    /\ eof' = IF i[p] = 0 /\ n[p] > 0 THEN eof \cup {p} ELSE eof

-----------------------------------------------------------------------------
\* fileclose(), pipeclose() and kill().

\* The other processes with a descriptor of the same end.
Sharers(p) == {q \in open \ {p} : q \in Writer <=> p \in Writer}

\* Mutant: fileclose() does not look at the reference count.
FilecloseAlways(p) ==
    /\ pc[p] = "idle"
    /\ p \in open
    /\ open' = open \ {p}
    /\ Goto(p, "pipeclose")
    /\ UNCHANGED <<pipeVars, lock, killed, n, i, eof>>

\* fileclose(): the last descriptor of an end goes on to pipeclose().
Fileclose(p) ==
    /\ pc[p] = "idle"
    /\ p \in open
    /\ open' = open \ {p}
    /\ Goto(p, IF Sharers(p) = {} THEN "pipeclose" ELSE "closed")
    /\ UNCHANGED <<pipeVars, lock, killed, n, i, eof>>

Pipeclose(p) ==
    /\ pc[p] = "pipeclose"
    /\ lock = Nobody
    /\ writeopen' = (writeopen /\ p \notin Writer)
    /\ readopen' = (readopen /\ p \notin Reader)
    /\ freed' = (~writeopen' /\ ~readopen')
    /\ WakeupGoto(IF p \in Writer THEN Reader ELSE Writer, p, "closed")
    /\ UNCHANGED <<data, nread, nwrite, got, lock, open, killed, n, i, eof>>

Kill(p) ==
    /\ p \in Killable \ killed
    /\ killed' = killed \cup {p}
    /\ pc' = [pc EXCEPT ![p] = IF @ = "asleep" THEN "acquire" ELSE @]
    /\ UNCHANGED <<pipeVars, lock, open, n, i, eof>>

-----------------------------------------------------------------------------
Write(p) ==
    \/ \E b \in Byte : WriteByte(p, b)
    \/ WriteGiveUp(p)
    \/ WriteFull(p)
    \/ WriteReturn(p)

Read(p) ==
    \/ ReadEmpty(p)
    \/ ReadGiveUp(p)
    \/ ReadStart(p)
    \/ ReadByte(p)
    \/ ReadReturn(p)

\* The steps of a call or close that has begun.
Proceed(p) == Acquire(p) \/ Sleep(p) \/ Write(p) \/ Read(p) \/ Pipeclose(p)

Next ==
    \E p \in Proc :
        \/ \E k \in 0 .. MaxN : Call(p, k)
        \/ Proceed(p)
        \/ Fileclose(p)
        \/ Kill(p)

Spec == Init /\ [][Next]_vars

-----------------------------------------------------------------------------
\* Properties.

\* The bytes between nread and nwrite.
Contents == [k \in 1 .. (nwrite - nread) % UINT |->
                data[(nread + k - 1) % PIPESIZE]]

\* The ring buffer with wrapping counters is a bounded FIFO queue, whatever
\* calls, sleeps, kills and closes are interleaved, a reader gets the byte that
\* leaves the queue, and read() reports the end of the file (0) only when every writer has closed the pipe and every byte
\* has been read.
FifoImpl == INSTANCE Fifo WITH
    Capacity <- PIPESIZE,
    queue <- Contents,
    out <- got,
    rclosed <- ~readopen,
    wclosed <- ~writeopen,
    ended <- eof # {}

FifoSpec == FifoImpl!Spec

\* No wakeup is lost: when nobody is in a section of pipe.c, a reader sleeps
\* only because the pipe is empty (pipe-empty), a writer only because it is
\* full (pipewrite-full), and the other end is open.
SleepersHaveReason ==
    lock = Nobody =>
        \A p \in Proc : pc[p] = "asleep" =>
            IF p \in Reader THEN Empty /\ writeopen ELSE Full /\ readopen

\* The pipe is freed once, after the last use: no process is, or will be, in
\* a call on it (pipeclose); and the counters never differ by more than the
\* buffer holds.
FreedIsUnused ==
    /\ TypeOK
    /\ freed => open = {} /\ \A p \in Proc : pc[p] = "closed"
=============================================================================
