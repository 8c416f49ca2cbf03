----------------------------- MODULE BlockStore -----------------------------
(***************************************************************************)
(* What the buffer cache promises (the interface comment of bio.c): a      *)
(* value per block, which only the one process that has the block locked   *)
(* reads or changes.                                                       *)
(***************************************************************************)
CONSTANTS Proc, Block, Val, InitVal, Nobody

VARIABLES val, owner

svars == <<val, owner>>

Init ==
    /\ val = [b \in Block |-> InitVal]
    /\ owner = [b \in Block |-> Nobody]

Lock(p, b) ==
    /\ owner[b] = Nobody
    /\ owner' = [owner EXCEPT ![b] = p]
    /\ UNCHANGED val

Store(p, b, v) ==
    /\ owner[b] = p
    /\ val' = [val EXCEPT ![b] = v]
    /\ UNCHANGED owner

Unlock(p, b) ==
    /\ owner[b] = p
    /\ owner' = [owner EXCEPT ![b] = Nobody]
    /\ UNCHANGED val

Next ==
    \E p \in Proc, b \in Block :
        \/ Lock(p, b)
        \/ \E v \in Val : Store(p, b, v)
        \/ Unlock(p, b)

Spec == Init /\ [][Next]_svars
=============================================================================
