------------------------------- MODULE MCProc -------------------------------
EXTENDS Proc, TLC

Symmetry == Permutations(Cpu)

\* What the steps of Proc read.  They never read the history named, and an
\* idle CPU sets its loop variable before it reads it again.
View ==
    <<lock, at, proc, [c \in Cpu |-> IF at[c] = "idle" THEN 1 ELSE scan[c]],
      state, pid, parent, killed, chan, nextpid, kpc, frame, np>>
=============================================================================
