-------------------------------- MODULE Tty ---------------------------------
(***************************************************************************)
(* What the console promises its readers: characters are edited in a line  *)
(* that nobody reads yet, a finished line joins the characters ready to be *)
(* read, and these are handed out in order, each to one read.              *)
(***************************************************************************)
EXTENDS Integers, Sequences

CONSTANTS Proc, Char, Capacity

VARIABLES
    line,  \* what has been typed since the last finished line
    ready, \* finished and not yet read
    dst    \* what the current read of each process has got so far

tvars == <<line, ready, dst>>

Init ==
    /\ line = << >>
    /\ ready = << >>
    /\ dst = [p \in Proc |-> << >>]

\* A line is finished by a newline, by ^D, or because there is no more room.
Type(c) ==
    /\ Len(line) + Len(ready) < Capacity
    /\ IF \/ c \in {"NL", "EOT"}
          \/ Len(line) + Len(ready) + 1 = Capacity
       THEN /\ ready' = ready \o Append(line, c)
            /\ line' = << >>
       ELSE /\ line' = Append(line, c)
            /\ UNCHANGED ready
    /\ UNCHANGED dst

Erase ==
    /\ line # << >>
    /\ line' = SubSeq(line, 1, Len(line) - 1)
    /\ UNCHANGED <<ready, dst>>

KillLine ==
    /\ line' = << >>
    /\ UNCHANGED <<ready, dst>>

Return(p) ==
    /\ dst' = [dst EXCEPT ![p] = << >>]
    /\ UNCHANGED <<line, ready>>

Take(p) ==
    /\ ready # << >>
    /\ Head(ready) # "EOT"
    /\ dst' = [dst EXCEPT ![p] = Append(@, Head(ready))]
    /\ ready' = Tail(ready)
    /\ UNCHANGED line

\* Only a read that returns nothing consumes the end of file.
TakeEof(p) ==
    /\ ready # << >>
    /\ Head(ready) = "EOT"
    /\ dst[p] = << >>
    /\ ready' = Tail(ready)
    /\ UNCHANGED <<line, dst>>

Next ==
    \/ \E c \in Char : Type(c)
    \/ Erase
    \/ KillLine
    \/ \E p \in Proc : Return(p) \/ Take(p) \/ TakeEof(p)

Spec == Init /\ [][Next]_tvars
=============================================================================
