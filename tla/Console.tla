------------------------------ MODULE Console -------------------------------
(***************************************************************************)
(* console.c: the input side of the console.  The keyboard handler edits   *)
(* the ring buffer input, consoleread() empties it, and consoleget(), the  *)
(* system call getch, takes characters from the keyboard before the        *)
(* handler sees them.                                                      *)
(*                                                                         *)
(* cons.lock is held from acquire() to release() or sleep(); kill() does   *)
(* not take it.  The indices r, w and e are unsigned and wrap around at    *)
(* UINT, of which INPUT_BUF is a divisor (2^32 and 128 in the code).       *)
(* consoleintr() handles every character that has arrived under one hold   *)
(* of the lock; here it takes it once per character, which is what it does *)
(* when they arrive one by one.  The echo goes to the screen, on which     *)
(* nothing here depends.                                                   *)
(***************************************************************************)
EXTENDS Integers, Sequences, FiniteSets

CONSTANTS
    Proc,      \* processes that use the console
    Nobody,    \* cons.lock is free
    Key,       \* what kbdgetc() may return while there is data
    INPUT_BUF, \* size of the ring buffer
    UINT,      \* number of values of an unsigned int
    MaxKeys,   \* bound: results waiting in the keyboard controller
    MaxN,      \* bound: largest n of a read
    Killable   \* processes that are killed

\* "NUL" is the result 0 of kbdgetc(): a key release or an escape prefix.
Keys == {"NUL", "CR", "NL", "EOT", "^P", "^U", "BS", "a", "b"}

ASSUME ConsoleAssumption ==
    /\ Nobody \notin Proc
    /\ IsFiniteSet(Proc)
    /\ Key \subseteq Keys
    /\ INPUT_BUF \in Nat \ {0}
    /\ UINT \in Nat /\ UINT > INPUT_BUF /\ UINT % INPUT_BUF = 0
    /\ {MaxKeys, MaxN} \subseteq Nat
    /\ Killable \subseteq Proc

VARIABLES
    buf, r, w, e,   \* input
    keys,           \* results that kbdgetc() has still to return
    lock,           \* holder of cons.lock
    killed,         \* processes with p->killed set
    pc,             \* where each process is
    target, n, dst  \* locals of consoleread(), and what it has stored

input == <<buf, r, w, e>>
vars == <<input, keys, lock, killed, pc, target, n, dst>>

PC == {"user", "acquire", "loop", "sleep", "asleep", "break", "getch", "poll"}

Char == {"NL", "EOT", "a", "b"}

\* Number of characters between two indices.
Dist(from, to) == (to - from) % UINT

TypeOK ==
    /\ buf \in [0 .. INPUT_BUF - 1 -> Char \cup {"NUL"}]
    /\ {r, w, e} \subseteq 0 .. UINT - 1
    /\ Dist(r, w) + Dist(w, e) <= INPUT_BUF
    /\ keys \in Seq(Key) /\ Len(keys) <= MaxKeys
    /\ lock \in Proc \cup {Nobody}
    /\ killed \subseteq Proc
    /\ pc \in [Proc -> PC]
    /\ {target, n} \subseteq [Proc -> 0 .. MaxN]
    /\ dst \in [Proc -> Seq(Char)]
    /\ \A p \in Proc : Len(dst[p]) <= MaxN

-----------------------------------------------------------------------------
Init ==
    /\ buf = [k \in 0 .. INPUT_BUF - 1 |-> "NUL"]
    /\ r = 0
    /\ w = 0
    /\ e = 0
    /\ keys = << >>
    /\ lock = Nobody
    /\ killed = {}
    /\ pc = [p \in Proc |-> "user"]
    /\ target = [p \in Proc |-> 0]
    /\ n = [p \in Proc |-> 0]
    /\ dst = [p \in Proc |-> << >>]

Goto(p, place) == pc' = [pc EXCEPT ![p] = place]

\* wakeup(&input.r)
Wakeup == pc' = [p \in Proc |-> IF pc[p] = "asleep" THEN "acquire" ELSE pc[p]]

\* The characters from one index to another.
Window(from, to) ==
    [k \in 1 .. Dist(from, to) |-> buf[(from + k - 1) % INPUT_BUF]]

-----------------------------------------------------------------------------
\* The keyboard, and the cases of consoleintr().

Press(c) ==
    /\ Len(keys) < MaxKeys
    /\ keys' = Append(keys, c)
    /\ UNCHANGED <<input, lock, killed, pc, target, n, dst>>

\* The handler gets cons.lock and reads a character of the set.
Getc(set) ==
    /\ lock = Nobody
    /\ keys # << >>
    /\ Head(keys) \in set
    /\ keys' = Tail(keys)
    /\ UNCHANGED <<lock, killed, target, n, dst>>

\* ^U stops at the last newline of the line, if there is one.
IntrKillLine ==
    /\ Getc({"^U"})
    /\ \E k \in 0 .. Dist(w, e) :
        /\ \A j \in k + 1 .. Dist(w, e) : Window(w, e)[j] # "NL"
        /\ k > 0 => Window(w, e)[k] = "NL"
        /\ e' = (w + k) % UINT
    /\ UNCHANGED <<buf, r, w, pc>>

IntrErase ==
    /\ Getc({"BS"})
    /\ e' = IF e # w THEN (e - 1) % UINT ELSE e
    /\ UNCHANGED <<buf, r, w, pc>>

\* 0, ^P (which prints the process table) and what finds the ring full.
IntrIgnore ==
    /\ \/ Getc({"NUL", "^P"})
       \/ Dist(r, e) >= INPUT_BUF /\ Getc({"CR"} \cup Char)
    /\ UNCHANGED <<input, pc>>

Cook(c) == IF c = "CR" THEN "NL" ELSE c

\* Mutant: the readers are woken at the end of a line only.
IntrCharFullSilently ==
    /\ Dist(r, e) < INPUT_BUF
    /\ Getc({"CR"} \cup Char)
    /\ LET c == Cook(Head(keys)) IN
        /\ buf' = [buf EXCEPT ![e % INPUT_BUF] = c]
        /\ e' = (e + 1) % UINT
        /\ IF c \in {"NL", "EOT"} \/ e' = (r + INPUT_BUF) % UINT
           THEN w' = e' /\ IF c \in {"NL", "EOT"} THEN Wakeup ELSE UNCHANGED pc
           ELSE UNCHANGED <<w, pc>>
    /\ UNCHANGED r

\* A character goes into the ring; the end of a line, ^D or the last free
\* place makes the line readable.
IntrChar ==
    /\ Dist(r, e) < INPUT_BUF
    /\ Getc({"CR"} \cup Char)
    /\ LET c == Cook(Head(keys)) IN
        /\ buf' = [buf EXCEPT ![e % INPUT_BUF] = c]
        /\ e' = (e + 1) % UINT
        /\ IF c \in {"NL", "EOT"} \/ e' = (r + INPUT_BUF) % UINT
           THEN w' = e' /\ Wakeup
           ELSE UNCHANGED <<w, pc>>
    /\ UNCHANGED r

Consoleintr == IntrKillLine \/ IntrErase \/ IntrIgnore \/ IntrChar

-----------------------------------------------------------------------------
\* consoleread(); a killed process makes no call.

Call(p, k) ==
    /\ pc[p] = "user"
    /\ p \notin killed
    /\ target' = [target EXCEPT ![p] = k]
    /\ n' = [n EXCEPT ![p] = k]
    /\ Goto(p, "acquire")
    /\ UNCHANGED <<input, keys, lock, killed, dst>>

\* acquire(&cons.lock), at the start of the call or at the end of sleep().
Acquire(p) ==
    /\ pc[p] = "acquire"
    /\ lock = Nobody
    /\ lock' = p
    /\ Goto(p, "loop")
    /\ UNCHANGED <<input, keys, killed, target, n, dst>>

\* After the loop: release(&cons.lock), and the caller gets what is in dst.
ReadReturn(p) ==
    /\ \/ pc[p] = "break"
       \/ pc[p] = "loop" /\ n[p] = 0
    /\ lock' = Nobody
    /\ target' = [target EXCEPT ![p] = 0]
    /\ n' = [n EXCEPT ![p] = 0]
    /\ dst' = [dst EXCEPT ![p] = << >>]
    /\ Goto(p, "user")
    /\ UNCHANGED <<input, keys, killed>>

\* Nothing to read: return -1 if killed, or sleep.
ReadWait(p) ==
    /\ pc[p] = "loop"
    /\ n[p] > 0
    /\ r = w
    /\ Goto(p, IF p \in killed THEN "break" ELSE "sleep")
    /\ UNCHANGED <<input, keys, lock, killed, target, n, dst>>

\* sleep(): cons.lock is released once the process is SLEEPING.
Sleep(p) ==
    /\ pc[p] = "sleep"
    /\ lock' = Nobody
    /\ Goto(p, "asleep")
    /\ UNCHANGED <<input, keys, killed, target, n, dst>>

\* Mutant: ^D is consumed by the read that it ends.
ReadEofAlways(p) ==
    /\ pc[p] = "loop"
    /\ n[p] > 0
    /\ r # w
    /\ buf[r % INPUT_BUF] = "EOT"
    /\ r' = (r + 1) % UINT
    /\ Goto(p, "break")
    /\ UNCHANGED <<buf, w, e, keys, lock, killed, target, n, dst>>

\* ^D ends the read; if the read has something it stays for the next one.
ReadEof(p) ==
    /\ pc[p] = "loop"
    /\ n[p] > 0
    /\ r # w
    /\ buf[r % INPUT_BUF] = "EOT"
    /\ r' = IF n[p] < target[p] THEN r ELSE (r + 1) % UINT
    /\ Goto(p, "break")
    /\ UNCHANGED <<buf, w, e, keys, lock, killed, target, n, dst>>

ReadChar(p) ==
    /\ pc[p] = "loop"
    /\ n[p] > 0
    /\ r # w
    /\ LET c == buf[r % INPUT_BUF] IN
        /\ c # "EOT"
        /\ r' = (r + 1) % UINT
        /\ dst' = [dst EXCEPT ![p] = Append(@, c)]
        /\ n' = [n EXCEPT ![p] = @ - 1]
        /\ Goto(p, IF c = "NL" THEN "break" ELSE "loop")
    /\ UNCHANGED <<buf, w, e, keys, lock, killed, target>>

-----------------------------------------------------------------------------
\* consoleget() polls the keyboard and holds cons.lock until a key comes.

Getch(p) ==
    /\ pc[p] = "user"
    /\ p \notin killed
    /\ Goto(p, "getch")
    /\ UNCHANGED <<input, keys, lock, killed, target, n, dst>>

GetchAcquire(p) ==
    /\ pc[p] = "getch"
    /\ lock = Nobody
    /\ lock' = p
    /\ Goto(p, "poll")
    /\ UNCHANGED <<input, keys, killed, target, n, dst>>

\* After a 0 the result of another kbdgetc() is dropped.
GetchSkip(p) ==
    /\ pc[p] = "poll"
    /\ keys # << >>
    /\ Head(keys) = "NUL"
    /\ keys' = IF Len(keys) > 1 THEN Tail(Tail(keys)) ELSE << >>
    /\ UNCHANGED <<input, lock, killed, pc, target, n, dst>>

GetchReturn(p) ==
    /\ pc[p] = "poll"
    /\ keys # << >>
    /\ Head(keys) # "NUL"
    /\ keys' = Tail(keys)
    /\ lock' = Nobody
    /\ Goto(p, "user")
    /\ UNCHANGED <<input, killed, target, n, dst>>

Kill(p) ==
    /\ p \in Killable \ killed
    /\ killed' = killed \cup {p}
    /\ pc' = [pc EXCEPT ![p] = IF @ = "asleep" THEN "acquire" ELSE @]
    /\ UNCHANGED <<input, keys, lock, target, n, dst>>

-----------------------------------------------------------------------------
Consoleread(p) ==
    \/ Acquire(p)
    \/ ReadWait(p)
    \/ Sleep(p)
    \/ ReadEof(p)
    \/ ReadChar(p)
    \/ ReadReturn(p)

Consoleget(p) == GetchAcquire(p) \/ GetchSkip(p) \/ GetchReturn(p)

Next ==
    \/ \E c \in Key : Press(c)
    \/ Consoleintr
    \/ \E p \in Proc :
        \/ \E k \in 0 .. MaxN : Call(p, k)
        \/ Getch(p)
        \/ Consoleread(p)
        \/ Consoleget(p)
        \/ Kill(p)

Spec == Init /\ [][Next]_vars

-----------------------------------------------------------------------------
\* Properties.

\* The ring buffer with its three wrapping indices is a line discipline: a
\* character can be erased until its line is finished and never after, a
\* finished line is read in order and each character by one read only, and a
\* read that got something leaves ^D for the next one.
TtyImpl == INSTANCE Tty WITH
    Capacity <- INPUT_BUF,
    line <- Window(w, e),
    ready <- Window(r, w)

TtySpec == TtyImpl!Spec

\* No wakeup is lost: while nobody holds cons.lock, a process sleeps in
\* consoleread() only if there is nothing to read.  The wakeup for a line
\* that was finished because the ring is full counts, and so does the ^D that
\* consoleread() puts back without a wakeup.  And r, w and e follow each other
\* within one turn of the ring.
SleepersHaveNothing ==
    /\ TypeOK
    /\ lock = Nobody => \A p \in Proc : pc[p] = "asleep" => r = w
=============================================================================
