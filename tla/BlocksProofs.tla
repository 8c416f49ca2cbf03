---------------------------- MODULE BlocksProofs ----------------------------
(***************************************************************************)
(* The theorems about Blocks: the blocks of the disk are accounted for, a  *)
(* file holds what was written to it, a crash loses neither, and no panic  *)
(* but "balloc: out of blocks" is reached, for every size of disk, file,   *)
(* inode table and transaction and any number of processes.                *)
(*                                                                         *)
(* The invariant and the other steps are in BlocksSteps; here are the end  *)
(* of a write, itrunc, a crash and mkfs, each with a lemma of its own, and *)
(* then the theorems.                                                      *)
(***************************************************************************)
EXTENDS BlocksSteps

\* The prover of the leaves that name none.
USE Zenon

\* Disk d2 is disk d with inode i as ino.
Updated(d, i, ino, d2) ==
    /\ d2 \in Disk /\ d2.used = d.used /\ d2.content = d.content /\ d2.freeinode = d.freeinode
    /\ d2.inode[i] = ino /\ \A j \in Inum : j # i => d2.inode[j] = d.inode[j]

\* iupdate() changes the inode alone.
LEMMA UpdateInode ==
  ASSUME NEW d \in Disk, NEW i \in Inum, NEW ino \in Inode
  PROVE  Updated(d, i, ino, [d EXCEPT !.inode[i] = ino])
<1>1. PICK t : t = [d.inode EXCEPT ![i] = ino]
  OBVIOUS
<1>2. t \in [Inum -> Inode] /\ t[i] = ino /\ \A j \in Inum : j # i => t[j] = d.inode[j]
  BY <1>1, DiskFields
<1>3. PICK d2 : d2 = [d EXCEPT !.inode = t]
  OBVIOUS
<1>4. d2 \in Disk
  BY <1>2, <1>3 DEF Disk
<1>5. d2.used = d.used /\ d2.content = d.content /\ d2.inode = t /\ d2.freeinode = d.freeinode
  BY <1>3 DEF Disk
<1>6. [d EXCEPT !.inode[i] = ino] = d2
  BY <1>1, <1>3
<1> QED BY <1>2, <1>4, <1>5, <1>6 DEF Updated

\* What a file consists of depends on the blocks of the disk alone.
LEMMA SameContent ==
  ASSUME NEW d, NEW d2, d2.content = d.content, NEW a
  PROVE  Alike(d, d2, a)
<1>1. Entries(d2, a) = Entries(d, a)
  BY EntriesSame
<1>2. ASSUME NEW u PROVE Unit(d2, a, u) = Unit(d, a, u)
  BY DEF Unit, Address
<1> QED BY <1>1, <1>2 DEF Alike

\* No entry of an inode changes when no block and no address does.
LEMMA HeldSame ==
  ASSUME disk'.content = disk.content, \A j \in Inum : Gone(j)' <=> Gone(j),
         \A j \in Inum : Current'[j].addrs = Current[j].addrs
  PROVE  Held' = Held
<1>1. ASSUME NEW j \in Inum
      PROVE  (IF Gone(j)' THEN Pointers(Current'[j].addrs) ELSE Entries(disk', Current'[j].addrs))
               = IF Gone(j) THEN Pointers(Current[j].addrs) ELSE Entries(disk, Current[j].addrs)
  <2>1. Entries(disk', Current[j].addrs) = Entries(disk, Current[j].addrs)
    BY SameContent DEF Alike
  <2> QED BY <2>1
<1> QED BY <1>1 DEF Held

\* The larger of o and n; the contents s of a file with v from off to o.
Larger(z, o, n) == z = IF o > n THEN o ELSE n
Overwritten(t, z, off, o, v, s) == t = [k \in 1 .. z |-> IF k > off /\ k <= o THEN v ELSE s[k]]

\* A write that is done: the file has the contents before, the size of what
\* was written, and what was written where it was written.
LEMMA WriteFinished ==
  ASSUME NEW p, NEW c \in Calls, NEW h \in Handle, NEW x \in Cached, WriteCall(p, c, h, x),
         c.tot = c.n1, NEW d, NEW s, Writing(d, x, c, h, s), NEW o, o = h.off + c.n1,
         NEW z, Larger(z, o, x.size),
         NEW ino, ino = [size |-> z, addrs |-> x.addrs], NEW d2, d2.content = d.content,
         NEW t, Overwritten(t, z, h.off, o, c.val, s)
  PROVE  Written(d2, ino, t)
<1>1. c.n1 \in Nat /\ c.val \in Nat /\ h.off \in 0 .. MAXFILE * BSIZE /\ x.size \in 0 .. MAXFILE * BSIZE
      /\ x.addrs \in Addrs
  BY DEF Calls, Handle, Cached
<1>2. h.off <= x.size /\ o <= MAXFILE * BSIZE
  BY DEF WriteCall
<1>3. z \in 0 .. MAXFILE * BSIZE /\ o \in Nat
  BY <1>1, <1>2, Sizes, SMT DEF Larger
<1>4. ino \in Inode /\ ino.size = z /\ ino.addrs = x.addrs
  BY <1>1, <1>3 DEF Inode
<1>5. ASSUME NEW u \in Offset, u < z
      PROVE  Unit(d2, x.addrs, u) = (IF h.off <= u /\ u < o THEN c.val ELSE s[u + 1])
             /\ Unit(d2, x.addrs, u) # -1
  <2>1. Unit(d2, x.addrs, u) = Unit(d, x.addrs, u)
    <3>1. Alike(d, d2, x.addrs)
      BY SameContent
    <3> QED BY <3>1 DEF Alike
  <2>2. u < x.size \/ u < o
    BY <1>5 DEF Larger
  <2>3. Unit(d, x.addrs, u) = IF h.off <= u /\ u < o THEN c.val ELSE s[u + 1]
    BY <2>2 DEF Writing, Partly
  <2>4. c.val # -1
    BY <1>1, SMT
  <2>5. CASE h.off <= u /\ u < o
    BY <2>1, <2>3, <2>4, <2>5
  <2>6. CASE ~(h.off <= u /\ u < o)
    <3>1. u < x.size
      BY <2>2, <2>6, <1>1, <1>2, <1>3, Sizes, SMT DEF Offset
    <3>2. Unit(d, x.addrs, u) # -1
      BY <3>1 DEF Writing, Present
    <3> QED BY <3>2, <2>1, <2>3
  <2> QED BY <2>5, <2>6
<1>6. Present(d2, ino)
  BY <1>4, <1>5 DEF Present
<1>7. Contents(d2, ino) = [k \in 1 .. z |-> Unit(d2, x.addrs, k - 1)]
  BY <1>4, ContentsUnits
<1>8. ASSUME NEW k \in 1 .. z
      PROVE  Unit(d2, x.addrs, k - 1) = IF k > h.off /\ k <= o THEN c.val ELSE s[k]
  <2>1. PICK u \in Offset : u = k - 1 /\ u < z
    BY <1>3, InodeSize
  <2>2. u + 1 = k /\ (h.off <= u /\ u < o <=> k > h.off /\ k <= o)
    BY <2>1, <1>1, <1>3, SMT DEF Offset
  <2> QED BY <2>1, <2>2, <1>5
<1>9. Contents(d2, ino) = t
  BY <1>7, <1>8 DEF Overwritten
<1> QED BY <1>4, <1>6, <1>9 DEF Written

\* The end of writei(), and the commit if nobody else is in a transaction.
LEMMA StepWriteDone ==
  ASSUME IInv, NEW p \in Proc, WriteDone(p)
  PROVE  IInv'
<1>0. Types /\ made /\ panicked = "no" /\ (\A q \in Proc : CallOK(q)) /\ Sound(durable, dwant)
      /\ (\A j \in Inum : InodeOK(j)) /\ Named(Held, disk.used)
  BY DEF IInv, WriteDone, Running
<1>1. PICK c : c = call[p]
  OBVIOUS
<1>2. PICK i : i = c.ip
  OBVIOUS
<1>3. PICK f : f = c.f
  OBVIOUS
<1>4. PICK h : h = file[f]
  OBVIOUS
<1>5. PICK x : x = icache[i]
  OBVIOUS
<1>6. PICK o : o = h.off + c.n1
  OBVIOUS
<1>7. PICK z : z = IF o > x.size THEN o ELSE x.size
  OBVIOUS
<1>8. PICK ino : ino = [size |-> z, addrs |-> x.addrs]
  OBVIOUS
<1>9. PICK t : t = [k \in 1 .. z |-> IF k > h.off /\ k <= o THEN c.val ELSE want[i][k]]
  OBVIOUS
<1>10. c.at = "writei" /\ c.tot = c.n1
  BY <1>1 DEF WriteDone
<1>11. WriteCall(p, c, h, x)
  BY <1>0, <1>1, <1>2, <1>3, <1>4, <1>5, <1>10, WritesFile
<1>12. i \in Inum /\ f \in File /\ x.valid /\ x.lock = p /\ h.ip = i
  BY <1>2, <1>3, <1>11 DEF WriteCall
<1>13. c \in Calls /\ h \in Handle /\ x \in Cached
  BY <1>0, <1>1, <1>4, <1>5, <1>12 DEF Types
<1>14. Writing(disk, x, c, h, want[i])
  <2>1. Locked(i)
    BY <1>0, <1>5, <1>12, NoZero DEF InodeOK, Unlocked
  <2> QED BY <2>1, <1>1, <1>3, <1>4, <1>5, <1>10, <1>12 DEF Locked
<1>15. c.n \in Nat /\ c.n1 \in Nat /\ c.n1 <= c.n /\ x.size \in 0 .. MAXFILE * BSIZE
       /\ h.off \in 0 .. MAXFILE * BSIZE /\ o \in 0 .. MAXFILE * BSIZE /\ z \in 0 .. MAXFILE * BSIZE
  <2>1. c.n \in Nat /\ c.n1 \in Nat /\ h.off \in 0 .. MAXFILE * BSIZE
        /\ x.size \in 0 .. MAXFILE * BSIZE
    BY <1>13 DEF Calls, Handle, Cached
  <2>2. c.n1 <= c.n /\ h.off + c.n1 <= MAXFILE * BSIZE
    BY <1>11 DEF WriteCall
  <2>3. o \in 0 .. MAXFILE * BSIZE
    BY <2>1, <2>2, <1>6, Sizes, SMT
  <2> QED BY <2>1, <2>2, <2>3, <1>7
<1>16. x.addrs \in Addrs /\ ino \in Inode /\ ino.size = z /\ ino.addrs = x.addrs
  BY <1>8, <1>13, <1>15 DEF Cached, Inode
<1>17. PICK x2 : x2 = [x EXCEPT !.size = z, !.lock = 0]
  OBVIOUS
<1>18. 0 \in 0 .. NPROC
  BY Constants, SMT
<1>19. x2 \in Cached /\ x2.valid /\ x2.lock = 0 /\ x2.size = z /\ x2.addrs = x.addrs
  BY <1>12, <1>13, <1>15, <1>17, <1>18 DEF Cached
<1>20. PICK left \in Nat : left = c.n - c.n1
  BY <1>15, SMT
<1>21. PICK c2 : c2 = IF left = 0 THEN NoCall ELSE [c EXCEPT !.at = "chunk", !.ip = 0, !.n = left]
  OBVIOUS
<1>22. PICK h2 : h2 = [h EXCEPT !.off = o]
  OBVIOUS
<1>23. h2 \in Handle /\ h2.ip = i
  BY <1>12, <1>13, <1>15, <1>22 DEF Handle
<1>24. /\ icache' = [icache EXCEPT ![i] = x2] /\ disk'.content = disk.content
       /\ Updated(disk, i, ino, disk') /\ want' = [want EXCEPT ![i] = t]
  <2>1. CASE o > x.size
    <3>1. PICK y : y = [icache EXCEPT ![i].size = o]
      OBVIOUS
    <3>2. y = [icache EXCEPT ![i] = [x EXCEPT !.size = o]] /\ z = o
      BY <3>1, <2>1, <1>5, <1>7
    <3>3. y[i] = [x EXCEPT !.size = o] /\ y[i].size = z /\ y[i].addrs = x.addrs
      BY <3>2, <1>0, <1>12, <1>13 DEF Types, Cached
    <3>4. /\ icache' = [y EXCEPT ![i].lock = 0]
          /\ disk' = iupdate(disk, y, i)
          /\ want' = [want EXCEPT ![i] = [k \in 1 .. y[i].size |->
                IF k > h.off /\ k <= o THEN c.val ELSE @[k]]]
      BY <3>1, <2>1, <1>1, <1>2, <1>3, <1>4, <1>5, <1>6 DEF WriteDone
    <3>5. icache' = [icache EXCEPT ![i] = x2]
      <4>1. [y EXCEPT ![i].lock = 0] = [y EXCEPT ![i] = [y[i] EXCEPT !.lock = 0]]
        OBVIOUS
      <4>2. [y[i] EXCEPT !.lock = 0] = x2
        BY <3>2, <3>3, <1>17
      <4> QED BY <4>1, <4>2, <3>2, <3>4
    <3>6. disk' = [disk EXCEPT !.inode[i] = ino]
      BY <3>3, <3>4, <1>8 DEF iupdate
    <3>7. Updated(disk, i, ino, disk')
      BY <3>6, <1>0, <1>12, <1>16, UpdateInode DEF Types
    <3>8. want' = [want EXCEPT ![i] = t]
      BY <3>3, <3>4, <1>9
    <3> QED BY <3>5, <3>7, <3>8 DEF Updated
  <2>2. CASE ~(o > x.size)
    <3>1. z = x.size
      BY <2>2, <1>7
    <3>2. /\ icache' = [icache EXCEPT ![i].lock = 0]
          /\ disk' = disk
          /\ want' = [want EXCEPT ![i] = [k \in 1 .. icache[i].size |->
                IF k > h.off /\ k <= o THEN c.val ELSE @[k]]]
      BY <2>2, <1>1, <1>2, <1>3, <1>4, <1>5, <1>6 DEF WriteDone
    <3>3. icache' = [icache EXCEPT ![i] = x2]
      <4>1. [x EXCEPT !.lock = 0] = x2
        BY <3>1, <1>13, <1>17 DEF Cached
      <4> QED BY <4>1, <3>2, <1>5
    <3>4. h.off + c.tot <= x.size
      BY <2>2, <1>6, <1>10, <1>15, Sizes, SMT
    <3>5. disk.inode[i].size = z /\ disk.inode[i].addrs = x.addrs
      BY <3>1, <3>4, <1>2, <1>14 DEF Writing
    <3>6. disk \in Disk /\ disk.inode[i] \in Inode
      BY <1>0, <1>12, DiskFields DEF Types
    <3>7. disk.inode[i] = ino
      BY <3>5, <3>6, <1>8 DEF Inode
    <3>8. want' = [want EXCEPT ![i] = t]
      BY <3>1, <3>2, <1>5, <1>9
    <3> QED BY <3>2, <3>3, <3>6, <3>7, <3>8 DEF Updated
  <2> QED BY <2>1, <2>2
<1>25. /\ file' = [file EXCEPT ![f] = h2] /\ call' = [call EXCEPT ![p] = c2]
       /\ end_op(p, disk', want') /\ panicked' = panicked /\ ncalls' = ncalls
       /\ made' = made /\ ncrashes' = ncrashes
  <2>1. /\ end_op(p, disk', want') /\ panicked' = panicked /\ ncalls' = ncalls
        /\ made' = made /\ ncrashes' = ncrashes
    BY DEF WriteDone, noCrash
  <2>2. file' = [file EXCEPT ![f] = h2]
    BY <1>1, <1>3, <1>4, <1>6, <1>22 DEF WriteDone
  <2>3. call' = [call EXCEPT ![p] = c2]
    BY <1>1, <1>20, <1>21 DEF WriteDone
  <2> QED BY <2>1, <2>2, <2>3
<1>26. c2 \in Calls /\ c2.ip = 0 /\ (IdleCall(c2) \/ ChunkCall(c2, h2)) /\ c2.at \in {"none", "chunk"}
       /\ c2.f \in {0, f}
  <2>1. CASE left = 0
    BY <2>1, <1>21, NoCallFields DEF IdleCall
  <2>2. CASE left # 0
    <3>1. c2 = [c EXCEPT !.at = "chunk", !.ip = 0, !.n = left]
      BY <2>2, <1>21
    <3>2. 0 \in 0 .. NINODES
      BY Constants, SMT
    <3>3. c2 \in Calls /\ c2.at = "chunk" /\ c2.ip = 0 /\ c2.n = left /\ c2.f = f /\ c2.wrote = c.wrote
      BY <3>1, <3>2, <1>3, <1>13 DEF Calls
    <3>4. Small(c.wrote)
      BY <1>11, <1>13, WriteSmall
    <3>5. left > 0
      BY <2>2, <1>20, SMT
    <3> QED BY <3>3, <3>4, <3>5, <1>12, <1>23 DEF ChunkCall
  <2> QED BY <2>1, <2>2
<1>27. call'[p] = c2 /\ \A q \in Proc : q # p => call'[q] = call[q]
  BY <1>0, <1>25, CallOthers
<1>28. icache' \in [Inum -> Cached] /\ icache'[i] = x2 /\ \A j \in Inum : j # i => icache'[j] = icache[j]
  <2>1. icache \in [Inum -> Cached]
    BY <1>0 DEF Types
  <2> QED BY <2>1, <1>12, <1>19, <1>24
<1>29. file' \in [File -> Handle] /\ file'[f] = h2 /\ \A g \in File : g # f => file'[g] = file[g]
  <2>1. file \in [File -> Handle]
    BY <1>0 DEF Types
  <2> QED BY <2>1, <1>12, <1>23, <1>25
<1>30. DOMAIN want' = Inum /\ want'[i] = t /\ \A j \in Inum : j # i => want'[j] = want[j]
  <2>1. DOMAIN want = Inum
    BY <1>0 DEF Types
  <2> QED BY <2>1, <1>12, <1>24
<1>31. disk' \in Disk /\ disk'.used = disk.used /\ disk'.inode[i] = ino
       /\ \A j \in Inum : j # i => disk'.inode[j] = disk.inode[j]
  BY <1>24 DEF Updated
<1>32. durable' \in Disk
  BY <1>0, <1>25, <1>31 DEF Types, end_op
<1>33. Types'
  <2>1. call' \in [Proc -> Calls]
    BY <1>0, <1>25, <1>26, CallsType
  <2> QED BY <2>1, <1>0, <1>25, <1>28, <1>29, <1>30, <1>31, <1>32 DEF Types
<1>34. \A g \in File : file'[g].ip = file[g].ip
  BY <1>4, <1>12, <1>23, <1>29
<1>35. ASSUME NEW q \in Proc, q # p, call[q].at = "writei" PROVE file'[call[q].f] = file[call[q].f]
  <2>1. WriteCall(q, call[q], file[call[q].f], icache[call[q].ip])
    BY <1>0, <1>35, WritesFile
  <2>2. call[q].f \in File /\ file[call[q].f].ip = call[q].ip /\ icache[call[q].ip].lock = q
    BY <2>1 DEF WriteCall
  <2>3. call[q].f # f
    BY <2>2, <1>4, <1>5, <1>12, <1>35
  <2> QED BY <2>2, <2>3, <1>29
<1>36. ASSUME NEW q \in Proc PROVE CallOK(q)'
  <2>1. CASE q = p
    <3>1. IdleCall(c2) \/ ChunkCall(c2, file'[c2.f])
      BY <1>26, <1>29, NoZero DEF ChunkCall
    <3> QED BY <2>1, <3>1, <1>27 DEF CallOK
  <2>2. CASE q # p
    <3>1. call[q].ip \in Inum => call[q].ip # i
      BY <2>2, <1>0, <1>5, <1>12, Owner
    <3>2. CallKept(q)
      BY <3>1, <2>2, <1>27, <1>28, <1>34, <1>35 DEF CallKept
    <3> QED BY <3>2, <1>0, CallFrame
  <2> QED BY <2>1, <2>2
<1>37. ASSUME NEW j \in Inum PROVE InodeOK(j)'
  <2>1. CASE j = i
    <3>1. Written(disk', ino, t)
      <4>1. PICK s : s = want[i]
        OBVIOUS
      <4>2. Overwritten(t, z, h.off, o, c.val, s) /\ Larger(z, o, x.size)
        BY <4>1, <1>7, <1>9 DEF Overwritten, Larger
      <4>3. Writing(disk, x, c, h, s) /\ c.tot = c.n1 /\ disk'.content = disk.content
        BY <4>1, <1>10, <1>14, <1>24
      <4> QED BY <4>2, <4>3, <1>6, <1>8, <1>11, <1>13, WriteFinished
    <3>2. Current'[i] = ino
      BY <1>8, <1>12, <1>19, <1>28 DEF Current
    <3>3. Unlocked(i)'
      BY <3>1, <3>2, <1>19, <1>28, <1>30, <1>31 DEF Unlocked
    <3> QED BY <2>1, <3>3 DEF InodeOK
  <2>2. CASE j # i
    <3>1. icache[j].lock \in Proc => icache[j].lock # p
      BY <2>2, <1>0, <1>1, <1>2, LockHolder
    <3>2. Alike(disk, disk', Current[j].addrs)
      BY <1>24, SameContent
    <3>3. InodeKept(j)
      BY <3>1, <3>2, <2>2, <1>27, <1>28, <1>30, <1>31, <1>35 DEF InodeKept
    <3> QED BY <3>3, <1>0, InodeFrame
  <2> QED BY <2>1, <2>2
<1>38. Held' = Held
  <2>1. call'[p].at # "ind" /\ call[p].at # "ind"
    BY <1>1, <1>10, <1>26, <1>27
  <2>2. \A j \in Inum : Gone(j)' <=> Gone(j)
    BY <2>1, <1>27 DEF Gone
  <2>3. ASSUME NEW j \in Inum PROVE Current'[j].addrs = Current[j].addrs
    <3>1. CASE j = i
      <4>1. Current[i].addrs = x.addrs
        BY <1>5, <1>12, CurrentAddrs
      <4>2. Current'[i].addrs = x.addrs
        BY <1>12, <1>19, <1>28 DEF Current
      <4> QED BY <3>1, <4>1, <4>2
    <3>2. CASE j # i
      BY <3>2, <1>28, <1>31 DEF Current
    <3> QED BY <3>1, <3>2
  <2> QED BY <2>2, <2>3, <1>24, HeldSame
<1>39. Named(Held', disk'.used) /\ panicked' = "no"
  BY <1>0, <1>25, <1>31, <1>38
<1>40. ~InOp(p)'
  BY <1>26, <1>27 DEF InOp
<1>41. Sound(durable', dwant')
  BY <1>0, <1>25, <1>27, <1>33, <1>36, <1>37, <1>39, <1>40, EndOp
<1> QED BY <1>0, <1>25, <1>33, <1>36, <1>37, <1>39, <1>41 DEF IInv

-----------------------------------------------------------------------------
\* The entries h of an inode become h2, and S are the blocks that it names no
\* more.
Freed(S, h, h2) ==
    /\ \A k \in Slot : h2[k] = 0 \/ h2[k] = h[k]
    /\ \A b \in S : \E k \in Slot : h[k] = b /\ b # 0 /\ h2[k] = 0
    /\ \A k \in Slot : h[k] # 0 /\ h2[k] = 0 => h[k] \in S

\* The blocks of S were marked, and the others are named once.
Removed(H, i, h, U, S) == S \subseteq U /\ Named([H EXCEPT ![i] = h], U \ S)

\* The blocks that an inode names no more are marked, and no other inode names
\* them: once they are free, all the others are still accounted for.
LEMMA NamedRemove ==
  ASSUME NEW H \in Naming, NEW U \in SUBSET Block, Named(H, U), NEW i \in Inum,
         NEW h \in [Slot -> Nat], NEW S, Freed(S, H[i], h)
  PROVE  Removed(H, i, h, U, S)
<1>1. PICK G : G = [H EXCEPT ![i] = h]
  OBVIOUS
<1>2. G[i] = h /\ \A j \in Inum : j # i => G[j] = H[j]
  BY <1>1 DEF Naming
<1>3. ASSUME NEW b \in S PROVE b \in U /\ b >= nmeta /\ \E k \in Slot : H[i][k] = b /\ b # 0 /\ h[k] = 0
  <2>1. PICK k \in Slot : H[i][k] = b /\ b # 0 /\ h[k] = 0
    BY DEF Freed
  <2> QED BY <2>1 DEF Named, Marked
<1>4. 0 .. nmeta - 1 \subseteq U \ S
  <2>1. ASSUME NEW b \in 0 .. nmeta - 1 PROVE b \notin S
    <3>1. ~(b >= nmeta)
      BY Layout, SMT
    <3> QED BY <3>1, <1>3
  <2> QED BY <2>1 DEF Named
<1>5. ASSUME NEW j \in Inum, NEW k \in Slot, G[j][k] # 0 PROVE G[j][k] = H[j][k]
  <2>1. CASE j = i
    BY <2>1, <1>2, <1>5 DEF Freed
  <2>2. CASE j # i
    BY <2>2, <1>2
  <2> QED BY <2>1, <2>2
<1>6. Marked(G, U \ S)
  <2>1. ASSUME NEW j \in Inum, NEW k \in Slot, G[j][k] # 0
        PROVE  G[j][k] \in U \ S /\ G[j][k] >= nmeta
    <3>1. G[j][k] = H[j][k] /\ H[j][k] # 0
      BY <2>1, <1>5
    <3>2. H[j][k] \in U /\ H[j][k] >= nmeta
      BY <3>1 DEF Named, Marked
    <3>3. ASSUME H[j][k] \in S PROVE FALSE
      <4>1. PICK l \in Slot : H[i][l] = H[j][k] /\ h[l] = 0
        BY <3>3, <1>3
      <4>2. j = i /\ k = l
        BY <4>1, <3>1, SMT DEF Named, Once
      <4> QED BY <4>1, <4>2, <2>1, <1>2
    <3> QED BY <3>1, <3>2, <3>3
  <2> QED BY <2>1 DEF Marked
<1>7. Once(G)
  <2>1. ASSUME NEW j \in Inum, NEW l \in Inum, NEW k \in Slot, NEW m \in Slot,
               G[j][k] = G[l][m], G[j][k] # 0
        PROVE  j = l /\ k = m
    <3>1. G[j][k] = H[j][k] /\ G[l][m] = H[l][m]
      BY <2>1, <1>5
    <3>2. H[j][k] = H[l][m] /\ H[j][k] # 0
      BY <3>1, <2>1
    <3>3. Once(H)
      BY DEF Named
    <3> QED BY <3>2, <3>3, SMT DEF Once
  <2> QED BY <2>1, SMT DEF Once
<1>8. NoLeak(G, U \ S)
  <2>1. ASSUME NEW b \in U \ S, b >= nmeta PROVE \E j \in Inum : \E k \in Slot : G[j][k] = b
    <3>1. PICK j \in Inum : \E k \in Slot : H[j][k] = b
      BY <2>1 DEF Named, NoLeak
    <3>2. PICK k \in Slot : H[j][k] = b
      BY <3>1
    <3>3. b # 0
      BY <2>1, Layout, SMT
    <3>4. CASE j # i
      BY <3>2, <3>4, <1>2
    <3>5. CASE j = i
      <4>1. h[k] # 0
        BY <2>1, <3>2, <3>3, <3>5 DEF Freed
      <4>2. G[j][k] = b
        BY <4>1, <3>2, <3>5, <1>2, <1>5
      <4> QED BY <4>2
    <3> QED BY <3>4, <3>5
  <2> QED BY <2>1 DEF NoLeak
<1>9. Named(G, U \ S)
  BY <1>4, <1>6, <1>7, <1>8 DEF Named
<1>10. S \subseteq U
  BY <1>3
<1> QED BY <1>1, <1>9, <1>10 DEF Removed

\* bfree() changes the bitmap alone.
LEMMA BfreeFields ==
  ASSUME NEW d \in Disk, NEW S
  PROVE  /\ Bfree(d, S) \in Disk /\ Bfree(d, S).used = d.used \ S
         /\ Bfree(d, S).content = d.content /\ Bfree(d, S).inode = d.inode
         /\ Bfree(d, S).freeinode = d.freeinode
<1>1. d.used \ S \in SUBSET Block
  BY DiskFields
<1>2. PICK u : u = d.used \ S
  OBVIOUS
<1>3. Bfree(d, S) = [d EXCEPT !.used = u]
  BY <1>2 DEF Bfree
<1>4. [d EXCEPT !.used = u] \in Disk
  BY <1>1, <1>2 DEF Disk
<1>5. /\ [d EXCEPT !.used = u].used = u /\ [d EXCEPT !.used = u].content = d.content
      /\ [d EXCEPT !.used = u].inode = d.inode /\ [d EXCEPT !.used = u].freeinode = d.freeinode
  BY DEF Disk
<1> QED BY <1>2, <1>3, <1>4, <1>5

\* The entries of one inode change, and no block does.
LEMMA HeldChange ==
  ASSUME Types, Types', NEW i \in Inum, disk'.content = disk.content,
         \A j \in Inum : j # i => (Gone(j)' <=> Gone(j)),
         \A j \in Inum : j # i => Current'[j].addrs = Current[j].addrs
  PROVE  Held' = [Held EXCEPT ![i] = Held'[i]]
<1>1. ASSUME NEW j \in Inum, j # i PROVE Held'[j] = Held[j]
  <2>1. Entries(disk', Current[j].addrs) = Entries(disk, Current[j].addrs)
    BY SameContent DEF Alike
  <2> QED BY <2>1, <1>1 DEF Held
<1>2. DOMAIN Held = Inum /\ DOMAIN Held' = Inum /\ Held' = [j \in Inum |-> Held'[j]]
  BY DEF Held
<1> QED BY <1>1, <1>2

\* A step of itrunc(), which frees blocks of inode i.
LEMMA TruncStep ==
  ASSUME IInv, made, panicked = "no", NEW p \in Proc, NEW i, i = call[p].ip, call[p].at \in {"direct", "indirect"},
         NEW S, Freed(S, Held[i], Held'[i]), NEW at, at \in {"indirect", "ind"},
         disk' = Bfree(disk, S), panicked' = (IF S \subseteq disk.used THEN "no" ELSE "yes"),
         call' = [call EXCEPT ![p].at = at, ![p].wrote = @ \cup {BBLOCK(b) : b \in S}],
         NEW x, icache' = [icache EXCEPT ![i] = x], x \in Cached, x.valid, x.lock = p,
         \A k \in 0 .. NDIRECT - 1 : x.addrs[k] = 0,
         durable' = durable, file' = file, ncalls' = ncalls, want' = want, dwant' = dwant,
         made' = made, ncrashes' = ncrashes
  PROVE  IInv'
<1>0. Types /\ (\A q \in Proc : CallOK(q)) /\ Sound(durable, dwant)
      /\ (\A j \in Inum : InodeOK(j)) /\ Named(Held, disk.used)
  BY DEF IInv
<1>1. TruncCall(p, call[p], icache[i])
  BY <1>0 DEF CallOK, IdleCall, ChunkCall, WriteCall
<1>2. i \in Inum /\ call[p] \in Calls /\ call[p].f = 0 /\ icache[i].lock = p
      /\ call[p].wrote \subseteq bmapstart .. nmeta - 1
  BY <1>0, <1>1 DEF TruncCall, Types
<1>3. disk \in Disk
  BY <1>0 DEF Types
<1>4. disk' \in Disk /\ disk'.used = disk.used \ S /\ disk'.content = disk.content
      /\ disk'.inode = disk.inode
  BY <1>3, BfreeFields
<1>5. icache' \in [Inum -> Cached] /\ icache'[i] = x /\ \A j \in Inum : j # i => icache'[j] = icache[j]
  <2>1. icache \in [Inum -> Cached]
    BY <1>0 DEF Types
  <2> QED BY <2>1, <1>2
<1>6. S \subseteq disk.used /\ Named([Held EXCEPT ![i] = Held'[i]], disk.used \ S)
  <2>1. Held'[i] \in [Slot -> Nat]
    <3>1. Current'[i].addrs = x.addrs /\ x.addrs \in Addrs
      BY <1>2, <1>5 DEF Current, Cached
    <3>2. Pointers(x.addrs) \in [Slot -> Nat] /\ Entries(disk', x.addrs) \in [Slot -> Nat]
      BY <3>1, <1>4, PointersType, EntriesType
    <3> QED BY <3>1, <3>2, <1>2 DEF Held
  <2>2. Held \in Naming /\ disk.used \in SUBSET Block
    BY <1>0, <1>3, HeldType, DiskFields
  <2>3. Removed(Held, i, Held'[i], disk.used, S)
    BY <2>1, <2>2, <1>0, <1>2, NamedRemove
  <2> QED BY <2>3 DEF Removed
<1>7. panicked' = "no"
  BY <1>6
<1>8. PICK w : w = call[p].wrote \cup {BBLOCK(b) : b \in S}
  OBVIOUS
<1>9. w \subseteq bmapstart .. nmeta - 1 /\ w \subseteq Nat
  <2>1. ASSUME NEW b \in S PROVE BBLOCK(b) \in bmapstart .. nmeta - 1
    <3>1. b \in Block
      BY <1>3, <1>6, DiskFields
    <3> QED BY <3>1, BitmapBlock
  <2>2. bmapstart .. nmeta - 1 \subseteq Nat
    BY Layout, SMT
  <2> QED BY <2>1, <2>2, <1>2, <1>8
<1>10. PICK c : c = [call[p] EXCEPT !.at = at, !.wrote = w]
  OBVIOUS
<1>11. c \in Calls /\ c.at = at /\ c.f = 0 /\ c.ip = i /\ c.wrote = w
  BY <1>2, <1>9, <1>10 DEF Calls, Trunc
<1>12. call' = [call EXCEPT ![p] = c]
  <2>1. [call EXCEPT ![p].at = at, ![p].wrote = @ \cup {BBLOCK(b) : b \in S}] = [call EXCEPT ![p] = c]
    BY <1>0, <1>8, <1>10 DEF Types
  <2> QED BY <2>1
<1>13. call'[p] = c /\ \A q \in Proc : q # p => call'[q] = call[q]
  BY <1>0, <1>12, CallOthers
<1>14. Types'
  <2>1. call' \in [Proc -> Calls]
    BY <1>0, <1>11, <1>12, CallsType
  <2> QED BY <2>1, <1>0, <1>4, <1>5, <1>7 DEF Types
<1>15. ASSUME NEW q \in Proc PROVE CallOK(q)'
  <2>1. CASE q = p
    <3>1. TruncCall(p, c, x)
      BY <1>2, <1>9, <1>11 DEF TruncCall, Trunc
    <3>2. TruncCall(p, call'[p], icache'[call'[p].ip])
      <4>1. call'[p] = c /\ c.ip = i /\ icache'[i] = x
        BY <1>5, <1>11, <1>13
      <4> QED BY <3>1, <4>1
    <3> QED BY <2>1, <3>2 DEF CallOK
  <2>2. CASE q # p
    <3>1. call[q].ip \in Inum => call[q].ip # i
      BY <2>2, <1>0, <1>2, Owner
    <3>2. CallKept(q)
      BY <3>1, <2>2, <1>5, <1>13 DEF CallKept
    <3> QED BY <3>2, <1>0, CallFrame
  <2> QED BY <2>1, <2>2
<1>16. ASSUME NEW j \in Inum PROVE InodeOK(j)'
  <2>1. CASE j = i
    <3>1. Locked(i)'
      BY <1>5, <1>11, <1>13 DEF Locked
    <3> QED BY <2>1, <3>1 DEF InodeOK
  <2>2. CASE j # i
    <3>1. icache[j].lock \in Proc => icache[j].lock # p
      BY <2>2, <1>0, LockHolder
    <3>2. Alike(disk, disk', Current[j].addrs)
      BY <1>4, SameContent
    <3>3. InodeKept(j)
      BY <3>1, <3>2, <2>2, <1>4, <1>5, <1>13 DEF InodeKept
    <3> QED BY <3>3, <1>0, InodeFrame
  <2> QED BY <2>1, <2>2
<1>17. \A j \in Inum : j # i => (Gone(j)' <=> Gone(j))
  BY <1>11, <1>13, ZenonT(30) DEF Gone
<1>18. \A j \in Inum : j # i => Current'[j].addrs = Current[j].addrs
  BY <1>4, <1>5 DEF Current
<1>19. Held' = [Held EXCEPT ![i] = Held'[i]]
  BY <1>0, <1>2, <1>4, <1>14, <1>17, <1>18, HeldChange
<1>20. Named(Held', disk'.used)
  BY <1>4, <1>6, <1>19
<1> QED BY <1>0, <1>14, <1>15, <1>16, <1>20 DEF IInv

\* The slots of the direct blocks, of the indirect block and of those it lists.
LEMMA SlotKinds ==
  ASSUME NEW k \in Slot
  PROVE  \/ k \in 0 .. NDIRECT - 1 /\ k <= NDIRECT /\ k # NDIRECT
         \/ k = NDIRECT /\ k <= NDIRECT
         \/ ~(k <= NDIRECT) /\ k - NDIRECT - 1 \in 0 .. BSIZE - 1
BY Constants, SMT DEF Slot, MAXFILE, NINDIRECT

\* The entry of a direct block.
LEMMA DirectSlot ==
  ASSUME NEW k \in 0 .. NDIRECT - 1
  PROVE  k \in Slot /\ k \in 0 .. NDIRECT /\ k <= NDIRECT /\ k # NDIRECT
BY Constants, SMT DEF Slot, MAXFILE, NINDIRECT

\* An inode that has its indirect block alone.
LEMMA OnlyIndirect ==
  ASSUME NEW a \in Addrs, NEW a2, a2 = [NoAddrs EXCEPT ![NDIRECT] = a[NDIRECT]]
  PROVE  /\ a2 \in Addrs /\ a2[NDIRECT] = a[NDIRECT]
         /\ \A k \in 0 .. NDIRECT - 1 : a2[k] = 0
<1>1. NDIRECT \in 0 .. NDIRECT
  BY Constants, SMT
<1>2. a[NDIRECT] \in Block /\ 0 \in Block
  BY <1>1, Layout DEF Addrs
<1>3. NoAddrs \in Addrs
  BY <1>2 DEF NoAddrs, Addrs
<1>4. a2 \in Addrs /\ a2[NDIRECT] = a[NDIRECT]
  BY <1>1, <1>2, <1>3 DEF Addrs
<1>5. ASSUME NEW k \in 0 .. NDIRECT - 1 PROVE a2[k] = 0
  <2>1. k \in 0 .. NDIRECT /\ k # NDIRECT
    BY DirectSlot
  <2>2. a2[k] = NoAddrs[k]
    BY <2>1, <1>3 DEF Addrs
  <2> QED BY <2>1, <2>2 DEF NoAddrs
<1> QED BY <1>4, <1>5

\* itrunc() frees the direct blocks.
LEMMA FreeDirect ==
  ASSUME NEW d, NEW d2, d2.content = d.content, NEW a, NEW a2, a2[NDIRECT] = a[NDIRECT],
         \A k \in 0 .. NDIRECT - 1 : a2[k] = 0,
         NEW S, S = {a[k] : k \in 0 .. NDIRECT - 1} \ {0}
  PROVE  Freed(S, Entries(d, a), Entries(d2, a2))
<1>1. PICK h : h = Entries(d, a)
  OBVIOUS
<1>2. PICK h2 : h2 = Entries(d2, a2)
  OBVIOUS
<1>3. ASSUME NEW k \in 0 .. NDIRECT - 1 PROVE k \in Slot /\ h[k] = a[k] /\ h2[k] = 0
  <2>1. k \in Slot /\ k <= NDIRECT
    BY DirectSlot
  <2> QED BY <2>1, <1>1, <1>2 DEF Entries, Entry
<1>4. ASSUME NEW k \in Slot, k \notin 0 .. NDIRECT - 1 PROVE h2[k] = h[k]
  <2>1. h[k] = Entry(d, a, k) /\ h2[k] = Entry(d2, a2, k)
    BY <1>1, <1>2 DEF Entries
  <2>2. k = NDIRECT \/ ~(k <= NDIRECT)
    BY <1>4, SlotKinds
  <2> QED BY <2>1, <2>2 DEF Entry
<1>5. \A k \in Slot : h2[k] = 0 \/ h2[k] = h[k]
  BY <1>3, <1>4
<1>6. ASSUME NEW b \in S PROVE \E k \in Slot : h[k] = b /\ b # 0 /\ h2[k] = 0
  <2>1. PICK k \in 0 .. NDIRECT - 1 : a[k] = b
    OBVIOUS
  <2> QED BY <2>1, <1>3
<1>7. ASSUME NEW k \in Slot, h[k] # 0, h2[k] = 0 PROVE h[k] \in S
  <2>1. k \in 0 .. NDIRECT - 1
    BY <1>4, <1>7
  <2> QED BY <2>1, <1>3, <1>7
<1> QED BY <1>1, <1>2, <1>5, <1>6, <1>7 DEF Freed

\* itrunc() frees the blocks that the indirect block lists.
LEMMA FreeListed ==
  \A d, a, S :
    /\ S = Listed(d, a[NDIRECT])
    =>  Freed(S, Entries(d, a), Pointers(a))

\* The entry of a block that the indirect block lists.
<1>ListedSlot.
  ASSUME NEW l \in 0 .. NINDIRECT - 1
  PROVE  \E k \in Slot : ~(k <= NDIRECT) /\ k - NDIRECT - 1 = l
  <2>1. NDIRECT + 1 + l \in Slot /\ ~(NDIRECT + 1 + l <= NDIRECT) /\ (NDIRECT + 1 + l) - NDIRECT - 1 = l
    BY Constants, SMT DEF Slot, MAXFILE, NINDIRECT
  <2> QED BY <2>1

<1> QED
  <2> SUFFICES
      ASSUME NEW d, NEW a, NEW S, S = Listed(d, a[NDIRECT])
      PROVE  Freed(S, Entries(d, a), Pointers(a))
    OBVIOUS
  <2>1. PICK h : h = Entries(d, a)
    OBVIOUS
  <2>2. PICK h2 : h2 = Pointers(a)
    OBVIOUS
  <2>3. ASSUME NEW k \in Slot, k <= NDIRECT PROVE h2[k] = h[k]
    BY <2>1, <2>2, <2>3 DEF Entries, Entry, Pointers
  <2>4. ASSUME NEW k \in Slot, ~(k <= NDIRECT)
        PROVE  h2[k] = 0 /\ h[k] = IF a[NDIRECT] = 0 THEN 0 ELSE d.content[a[NDIRECT]][k - NDIRECT - 1]
    BY <2>1, <2>2, <2>4 DEF Entries, Entry, Pointers
  <2>5. \A k \in Slot : h2[k] = 0 \/ h2[k] = h[k]
    BY <2>3, <2>4
  <2>6. ASSUME NEW b \in S PROVE \E k \in Slot : h[k] = b /\ b # 0 /\ h2[k] = 0
    <3>1. a[NDIRECT] # 0 /\ b # 0
      BY DEF Listed
    <3>2. PICK l \in 0 .. NINDIRECT - 1 : d.content[a[NDIRECT]][l] = b
      BY <3>1 DEF Listed
    <3>3. PICK k \in Slot : ~(k <= NDIRECT) /\ k - NDIRECT - 1 = l
      BY <1>ListedSlot
    <3> QED BY <3>1, <3>2, <3>3, <2>4
  <2>7. ASSUME NEW k \in Slot, h[k] # 0, h2[k] = 0 PROVE h[k] \in S
    <3>1. ~(k <= NDIRECT)
      BY <2>3, <2>7
    <3>2. a[NDIRECT] # 0 /\ h[k] = d.content[a[NDIRECT]][k - NDIRECT - 1]
      BY <3>1, <2>4, <2>7
    <3>3. k - NDIRECT - 1 \in 0 .. NINDIRECT - 1
      BY <3>1, SlotKinds DEF NINDIRECT
    <3> QED BY <3>2, <3>3, <2>7 DEF Listed
  <2> QED BY <2>1, <2>2, <2>5, <2>6, <2>7 DEF Freed

\* itrunc() frees the indirect block.
LEMMA FreePointer ==
  ASSUME NEW d, NEW a, \A k \in 0 .. NDIRECT - 1 : a[k] = 0, NEW S, S = {a[NDIRECT]} \ {0}
  PROVE  Freed(S, Pointers(a), Entries(d, NoAddrs))
<1>1. PICK h : h = Pointers(a)
  OBVIOUS
<1>2. PICK h2 : h2 = Entries(d, NoAddrs)
  OBVIOUS
<1>3. NDIRECT \in 0 .. NDIRECT /\ NDIRECT \in Slot /\ NDIRECT <= NDIRECT
  BY Constants, PointerSlot, SMT
<1>4. ASSUME NEW k \in Slot PROVE h2[k] = 0
  <2>1. h2[k] = Entry(d, NoAddrs, k)
    BY <1>2 DEF Entries
  <2>2. k <= NDIRECT => k \in 0 .. NDIRECT
    BY SlotKinds, DirectSlot, <1>3
  <2> QED BY <2>1, <2>2, <1>3 DEF Entry, NoAddrs
<1>5. h[NDIRECT] = a[NDIRECT]
  BY <1>1, <1>3 DEF Pointers
<1>6. ASSUME NEW k \in Slot, h[k] # 0 PROVE k = NDIRECT
  <2>1. CASE k \in 0 .. NDIRECT - 1
    BY <2>1, <1>1, <1>6, DirectSlot DEF Pointers
  <2>2. CASE ~(k <= NDIRECT)
    BY <2>2, <1>1, <1>6 DEF Pointers
  <2> QED BY <2>1, <2>2, SlotKinds
<1>7. ASSUME NEW b \in S PROVE \E k \in Slot : h[k] = b /\ b # 0 /\ h2[k] = 0
  BY <1>3, <1>4, <1>5
<1>8. ASSUME NEW k \in Slot, h[k] # 0 PROVE h[k] \in S
  BY <1>5, <1>6, <1>8
<1> QED BY <1>1, <1>2, <1>4, <1>7, <1>8 DEF Freed

\* itrunc() frees the direct blocks.
LEMMA StepTruncDirect ==
  ASSUME IInv, NEW p \in Proc, TruncDirect(p)
  PROVE  IInv'
<1>0. Types /\ made /\ panicked = "no" /\ CallOK(p) /\ \A q \in Proc : CallOK(q)
  BY DEF IInv, TruncDirect, Free, Running
<1>1. PICK i : i = call[p].ip
  OBVIOUS
<1>2. PICK x : x = icache[i]
  OBVIOUS
<1>3. PICK S : S = {x.addrs[k] : k \in 0 .. NDIRECT - 1} \ {0}
  OBVIOUS
<1>4. PICK a : a = [NoAddrs EXCEPT ![NDIRECT] = x.addrs[NDIRECT]]
  OBVIOUS
<1>5. PICK x2 : x2 = [x EXCEPT !.addrs = a]
  OBVIOUS
<1>6. call[p].at = "direct" /\ Free(p, S, "indirect")
  BY <1>1, <1>2, <1>3 DEF TruncDirect
<1>7. icache' = [icache EXCEPT ![i] = x2]
  <2>1. [icache EXCEPT ![i].addrs = a] = [icache EXCEPT ![i] = x2]
    BY <1>2, <1>5
  <2> QED BY <2>1, <1>1, <1>2, <1>4 DEF TruncDirect
<1>8. /\ durable' = durable /\ file' = file /\ ncalls' = ncalls /\ want' = want /\ dwant' = dwant
      /\ made' = made /\ ncrashes' = ncrashes
  BY DEF TruncDirect, noHistory, noCrash
<1>9. TruncCall(p, call[p], x)
  BY <1>0, <1>1, <1>2, <1>6 DEF CallOK, IdleCall, ChunkCall, WriteCall
<1>10. i \in Inum /\ x.valid /\ x.lock = p
  BY <1>1, <1>9 DEF TruncCall
<1>11. x \in Cached /\ x.addrs \in Addrs
  BY <1>0, <1>2, <1>10 DEF Types, Cached
<1>12. a \in Addrs /\ a[NDIRECT] = x.addrs[NDIRECT] /\ \A k \in 0 .. NDIRECT - 1 : a[k] = 0
  BY <1>4, <1>11, OnlyIndirect
<1>13. x2 \in Cached /\ x2.valid /\ x2.lock = p /\ x2.addrs = a
  BY <1>5, <1>10, <1>11, <1>12 DEF Cached
<1>14. disk' = Bfree(disk, S) /\ panicked' = (IF S \subseteq disk.used THEN "no" ELSE "yes")
       /\ call' = [call EXCEPT ![p].at = "indirect", ![p].wrote = @ \cup {BBLOCK(b) : b \in S}]
  BY <1>6 DEF Free
<1>15. disk'.content = disk.content
  BY <1>0, <1>14, BfreeFields DEF Types
<1>16. Held[i] = Entries(disk, x.addrs)
  <2>1. call[icache[i].lock].at # "ind"
    BY <1>2, <1>6, <1>10
  <2>2. ~Gone(i)
    BY <2>1, <1>0, <1>10, NotGone
  <2>3. Current[i].addrs = x.addrs
    BY <1>2, <1>10, CurrentAddrs
  <2> QED BY <2>2, <2>3, <1>10 DEF Held
<1>17. Held'[i] = Entries(disk', a)
  <2>1. icache'[i] = x2
    BY <1>0, <1>7, <1>10 DEF Types
  <2>2. Current'[i].addrs = a
    BY <2>1, <1>10, <1>13 DEF Current
  <2>3. ~Gone(i)'
    <3>1. ASSUME NEW q \in Proc, call'[q].at = "ind", call'[q].ip = i PROVE FALSE
      <4>1. call \in [Proc -> Calls]
        BY <1>0 DEF Types
      <4>2. q # p
        BY <3>1, <4>1, <1>14 DEF Calls
      <4>3. call[q].ip = i /\ call[q].at = "ind"
        BY <3>1, <4>1, <4>2, <1>14
      <4> QED BY <4>2, <4>3, <1>0, <1>2, <1>10, Owner
    <3> QED BY <3>1 DEF Gone
  <2> QED BY <2>2, <2>3, <1>10 DEF Held
<1>18. Freed(S, Held[i], Held'[i])
  BY <1>3, <1>12, <1>15, <1>16, <1>17, FreeDirect
<1>19. PICK at : at = "indirect"
  OBVIOUS
<1>20. /\ at \in {"indirect", "ind"}
       /\ call' = [call EXCEPT ![p].at = at, ![p].wrote = @ \cup {BBLOCK(b) : b \in S}]
  BY <1>14, <1>19
<1>21. \A k \in 0 .. NDIRECT - 1 : x2.addrs[k] = 0
  BY <1>12, <1>13
<1>22. call[p].at \in {"direct", "indirect"}
  BY <1>6
<1> QED BY <1>0, <1>1, <1>7, <1>8, <1>13, <1>14, <1>18, <1>20, <1>21, <1>22, TruncStep

\* itrunc() frees the blocks that the indirect block lists.
LEMMA StepTruncIndirect ==
  ASSUME IInv, NEW p \in Proc, TruncIndirect(p)
  PROVE  IInv'
<1>0. Types /\ made /\ panicked = "no" /\ CallOK(p) /\ \A q \in Proc : CallOK(q)
  BY DEF IInv, TruncIndirect, Free, Running
<1>1. PICK i : i = call[p].ip
  OBVIOUS
<1>2. PICK x : x = icache[i]
  OBVIOUS
<1>3. PICK S : S = Listed(disk, x.addrs[NDIRECT])
  OBVIOUS
<1>4. call[p].at = "indirect" /\ Free(p, S, "ind")
  BY <1>1, <1>2, <1>3 DEF TruncIndirect
<1>5. icache' = icache
  BY DEF TruncIndirect
<1>6. icache' = [icache EXCEPT ![i] = x]
  <2>1. icache \in [Inum -> Cached]
    BY <1>0 DEF Types
  <2> QED BY <2>1, <1>2, <1>5
<1>7. /\ durable' = durable /\ file' = file /\ ncalls' = ncalls /\ want' = want /\ dwant' = dwant
      /\ made' = made /\ ncrashes' = ncrashes
  BY DEF TruncIndirect, noHistory, noCrash
<1>8. TruncCall(p, call[p], x)
  BY <1>0, <1>1, <1>2, <1>4 DEF CallOK, IdleCall, ChunkCall, WriteCall
<1>9. i \in Inum /\ x.valid /\ x.lock = p /\ \A k \in 0 .. NDIRECT - 1 : x.addrs[k] = 0
  BY <1>1, <1>4, <1>8 DEF TruncCall
<1>10. x \in Cached
  BY <1>0, <1>2, <1>9 DEF Types
<1>11. disk' = Bfree(disk, S) /\ panicked' = (IF S \subseteq disk.used THEN "no" ELSE "yes")
       /\ call' = [call EXCEPT ![p].at = "ind", ![p].wrote = @ \cup {BBLOCK(b) : b \in S}]
  BY <1>4 DEF Free
<1>12. Held[i] = Entries(disk, x.addrs)
  <2>1. call[icache[i].lock].at # "ind"
    BY <1>2, <1>4, <1>9
  <2>2. ~Gone(i)
    BY <2>1, <1>0, <1>9, NotGone
  <2>3. Current[i].addrs = x.addrs
    BY <1>2, <1>9, CurrentAddrs
  <2> QED BY <2>2, <2>3, <1>9 DEF Held
<1>13. Held'[i] = Pointers(x.addrs)
  <2>1. Current'[i].addrs = x.addrs
    BY <1>2, <1>5, <1>9 DEF Current
  <2>2. Gone(i)'
    <3>1. call \in [Proc -> Calls]
      BY <1>0 DEF Types
    <3>2. call'[p].at = "ind" /\ call'[p].ip = i
      BY <3>1, <1>1, <1>11 DEF Calls
    <3> QED BY <3>2 DEF Gone
  <2> QED BY <2>1, <2>2, <1>9 DEF Held
<1>14. Freed(S, Held[i], Held'[i])
  BY <1>3, <1>12, <1>13, FreeListed
<1>15. PICK at : at = "ind"
  OBVIOUS
<1>16. /\ at \in {"indirect", "ind"}
       /\ call' = [call EXCEPT ![p].at = at, ![p].wrote = @ \cup {BBLOCK(b) : b \in S}]
  BY <1>11, <1>15
<1>17. call[p].at \in {"direct", "indirect"}
  BY <1>4
<1> QED BY <1>0, <1>1, <1>6, <1>7, <1>9, <1>10, <1>11, <1>14, <1>16, <1>17, TruncStep

\* An inode without contents.
LEMMA EmptyFields ==
  /\ EmptyInode \in Inode /\ EmptyInode.size = 0 /\ EmptyInode.addrs = NoAddrs
  /\ \A d : Written(d, EmptyInode, <<>>)
<1>1. NoAddrs \in Addrs
  BY Layout DEF NoAddrs, Addrs
<1>2. 0 \in 0 .. MAXFILE * BSIZE
  BY Sizes, SMT
<1>3. EmptyInode \in Inode /\ EmptyInode.size = 0 /\ EmptyInode.addrs = NoAddrs
  BY <1>1, <1>2 DEF EmptyInode, Inode
<1>4. ASSUME NEW d PROVE Written(d, EmptyInode, <<>>)
  <2>1. Contents(d, EmptyInode) = [k \in 1 .. 0 |-> Unit(d, NoAddrs, k - 1)]
    BY <1>3, ContentsUnits
  <2>2. Contents(d, EmptyInode) = <<>>
    BY <2>1, SMT
  <2>3. ASSUME NEW u \in Offset PROVE ~(u < 0)
    BY SMT DEF Offset
  <2> QED BY <2>2, <2>3, <1>3 DEF Written, Present
<1> QED BY <1>3, <1>4

\* itrunc() frees the indirect block, and the inode is empty.
LEMMA StepTruncDone ==
  ASSUME IInv, NEW p \in Proc, TruncDone(p)
  PROVE  IInv'
<1>0. Types /\ made /\ panicked = "no" /\ (\A q \in Proc : CallOK(q)) /\ Sound(durable, dwant)
      /\ (\A j \in Inum : InodeOK(j)) /\ Named(Held, disk.used)
  BY DEF IInv, TruncDone, Running
<1>1. PICK i : i = call[p].ip
  OBVIOUS
<1>2. PICK x : x = icache[i]
  OBVIOUS
<1>3. PICK a : a = x.addrs[NDIRECT]
  OBVIOUS
<1>4. PICK S : S = {a} \ {0}
  OBVIOUS
<1>5. PICK d : d = Bfree(disk, S)
  OBVIOUS
<1> DEFINE w == call[p].wrote \cup {BBLOCK(b) : b \in S}
           c == [NoCall EXCEPT !.at = "end", !.wrote = w]
<1>6. /\ call[p].at = "ind" /\ disk' = [d EXCEPT !.inode[i] = EmptyInode]
      /\ panicked' = (IF a = 0 \/ a \in disk.used THEN "no" ELSE "yes")
      /\ icache' = [icache EXCEPT ![i] = Absent]
      /\ call' = [call EXCEPT ![p] = c]
      /\ want' = [want EXCEPT ![i] = <<>>]
      /\ durable' = durable /\ dwant' = dwant /\ file' = file /\ ncalls' = ncalls
      /\ made' = made /\ ncrashes' = ncrashes
  <2>1. call[p].at = "ind" /\ disk' = [d EXCEPT !.inode[i] = EmptyInode]
    BY <1>1, <1>2, <1>3, <1>4, <1>5 DEF TruncDone
  <2>2. panicked' = (IF a = 0 \/ a \in disk.used THEN "no" ELSE "yes")
    BY <1>1, <1>2, <1>3 DEF TruncDone
  <2>3. /\ icache' = [icache EXCEPT ![i] = Absent]
        /\ call' = [call EXCEPT ![p] = c]
        /\ want' = [want EXCEPT ![i] = <<>>]
    BY <1>1, <1>2, <1>3, <1>4 DEF TruncDone
  <2>4. durable' = durable /\ dwant' = dwant /\ file' = file /\ ncalls' = ncalls /\ made' = made /\ ncrashes' = ncrashes
    BY DEF TruncDone, noCrash
  <2> QED BY <2>1, <2>2, <2>3, <2>4
<1> HIDE DEF w, c
<1>7. TruncCall(p, call[p], x)
  BY <1>0, <1>1, <1>2, <1>6 DEF CallOK, IdleCall, ChunkCall, WriteCall
<1>8. i \in Inum /\ x.valid /\ x.lock = p /\ \A k \in 0 .. NDIRECT - 1 : x.addrs[k] = 0
  BY <1>1, <1>6, <1>7 DEF TruncCall
<1>9. disk \in Disk
  BY <1>0 DEF Types
<1>10. d \in Disk /\ d.used = disk.used \ S /\ d.content = disk.content /\ d.inode = disk.inode
  BY <1>5, <1>9, BfreeFields
<1>11. Updated(d, i, EmptyInode, disk')
  BY <1>6, <1>8, <1>10, EmptyFields, UpdateInode
<1>12. disk' \in Disk /\ disk'.used = disk.used \ S /\ disk'.content = disk.content
       /\ disk'.inode[i] = EmptyInode /\ \A j \in Inum : j # i => disk'.inode[j] = disk.inode[j]
  BY <1>10, <1>11 DEF Updated
<1>13. call'[p] = c /\ \A q \in Proc : q # p => call'[q] = call[q]
  BY <1>0, <1>6, CallOthers
<1>14. icache' \in [Inum -> Cached] /\ icache'[i] = Absent
       /\ \A j \in Inum : j # i => icache'[j] = icache[j]
  <2>1. icache \in [Inum -> Cached]
    BY <1>0 DEF Types
  <2> QED BY <2>1, <1>6, <1>8, AbsentFields
<1>15. DOMAIN want' = Inum /\ want'[i] = <<>> /\ \A j \in Inum : j # i => want'[j] = want[j]
  <2>1. DOMAIN want = Inum
    BY <1>0 DEF Types
  <2> QED BY <2>1, <1>6, <1>8
<1>16. Held[i] = Pointers(x.addrs)
  <2>1. Gone(i)
    BY <1>1, <1>6 DEF Gone
  <2>2. Current[i].addrs = x.addrs
    BY <1>2, <1>8, CurrentAddrs
  <2> QED BY <2>1, <2>2, <1>8 DEF Held
<1>17. Current'[i] = EmptyInode
  BY <1>8, <1>12, <1>14, AbsentFields DEF Current
<1>18. ASSUME NEW j \in Inum PROVE Gone(j)' <=> j # i /\ Gone(j)
  <2>1. ASSUME NEW q \in Proc, call[q].ip = i PROVE q = p
    BY <2>1, <1>0, <1>2, <1>8, Owner
  <2>2. call'[p].at # "ind"
    BY <1>13, NoCallFields DEF c, Calls
  <2> QED BY <2>1, <2>2, <1>1, <1>13 DEF Gone
<1>19. Held'[i] = Entries(disk', NoAddrs)
  BY <1>8, <1>17, <1>18, EmptyFields DEF Held
<1>20. Removed(Held, i, Held'[i], disk.used, S)
  <2>1. Freed(S, Held[i], Held'[i])
    BY <1>3, <1>4, <1>8, <1>16, <1>19, FreePointer
  <2>2. Held'[i] \in [Slot -> Nat]
    BY <1>12, <1>19, EntriesType, EmptyFields DEF Inode
  <2>3. Held \in Naming /\ disk.used \in SUBSET Block
    BY <1>0, <1>9, HeldType, DiskFields
  <2> QED BY <2>1, <2>2, <2>3, <1>0, <1>8, NamedRemove
<1>21. panicked' = "no"
  BY <1>4, <1>6, <1>20 DEF Removed
<1>22. c \in Calls /\ IdleCall(c)
  <2>1. ASSUME NEW b \in S PROVE BBLOCK(b) \in bmapstart .. nmeta - 1
    <3>1. b \in Block
      BY <1>9, <1>20, DiskFields DEF Removed
    <3> QED BY <3>1, BitmapBlock
  <2>2. bmapstart .. nmeta - 1 \subseteq Nat /\ call[p].wrote \subseteq bmapstart .. nmeta - 1
    BY <1>7, Layout, SMT DEF TruncCall
  <2>3. w \subseteq bmapstart .. nmeta - 1 /\ w \subseteq Nat
    BY <2>1, <2>2 DEF w
  <2>4. c \in Calls /\ c.at = "end" /\ c.f = 0 /\ c.ip = 0 /\ c.wrote = w
    BY <2>3, NoCallFields DEF c, Calls
  <2> QED BY <2>3, <2>4 DEF IdleCall
<1>23. Types'
  <2>1. call' \in [Proc -> Calls]
    BY <1>0, <1>6, <1>22, CallsType
  <2> QED BY <2>1, <1>0, <1>6, <1>12, <1>14, <1>15, <1>21 DEF Types
<1>24. ASSUME NEW q \in Proc PROVE CallOK(q)'
  <2>1. CASE q = p
    BY <2>1, <1>13, <1>22 DEF CallOK
  <2>2. CASE q # p
    <3>1. call[q].ip \in Inum => call[q].ip # i
      BY <2>2, <1>0, <1>2, <1>8, Owner
    <3>2. CallKept(q)
      BY <3>1, <2>2, <1>6, <1>13, <1>14 DEF CallKept
    <3> QED BY <3>2, <1>0, CallFrame
  <2> QED BY <2>1, <2>2
<1>25. ASSUME NEW j \in Inum PROVE InodeOK(j)'
  <2>1. CASE j = i
    <3>1. Unlocked(i)'
      BY <1>12, <1>14, <1>15, <1>17, EmptyFields, AbsentFields DEF Unlocked
    <3> QED BY <2>1, <3>1 DEF InodeOK
  <2>2. CASE j # i
    <3>1. icache[j].lock \in Proc => icache[j].lock # p
      BY <2>2, <1>0, <1>1, LockHolder
    <3>2. Alike(disk, disk', Current[j].addrs)
      BY <1>12, SameContent
    <3>3. InodeKept(j)
      BY <3>1, <3>2, <2>2, <1>6, <1>12, <1>13, <1>14, <1>15 DEF InodeKept
    <3> QED BY <3>3, <1>0, InodeFrame
  <2> QED BY <2>1, <2>2
<1>26. Held' = [Held EXCEPT ![i] = Held'[i]]
  <2>1. \A j \in Inum : j # i => Current'[j].addrs = Current[j].addrs
    BY <1>12, <1>14 DEF Current
  <2>2. \A j \in Inum : j # i => (Gone(j)' <=> Gone(j))
    BY <1>18
  <2> QED BY <2>1, <2>2, <1>0, <1>8, <1>12, <1>23, HeldChange
<1>27. Named(Held', disk'.used)
  BY <1>12, <1>20, <1>26 DEF Removed
<1> QED BY <1>0, <1>6, <1>23, <1>24, <1>25, <1>27 DEF IInv

\* The call that let go of an inode ends its transaction.
LEMMA StepUnlinkDone ==
  ASSUME IInv, NEW p \in Proc, UnlinkDone(p)
  PROVE  IInv'
<1>0. Types /\ made /\ panicked = "no" /\ (\A q \in Proc : CallOK(q)) /\ Sound(durable, dwant)
      /\ (\A j \in Inum : InodeOK(j)) /\ Named(Held, disk.used)
  BY DEF IInv, UnlinkDone, Running
<1>1. /\ call[p].at = "end" /\ call' = [call EXCEPT ![p] = NoCall] /\ end_op(p, disk, want)
      /\ disk' = disk /\ icache' = icache /\ file' = file /\ panicked' = panicked /\ want' = want
      /\ ncalls' = ncalls /\ made' = made /\ ncrashes' = ncrashes
  BY DEF UnlinkDone, noCrash
<1>2. call'[p] = NoCall /\ \A q \in Proc : q # p => call'[q] = call[q]
  BY <1>0, <1>1, CallOthers
<1>3. Current' = Current
  BY <1>1 DEF Current
<1>4. Types'
  <2>1. call' \in [Proc -> Calls]
    BY <1>0, <1>1, CallsType, NoCallFields
  <2>2. durable' \in Disk
    BY <1>0, <1>1 DEF Types, end_op
  <2> QED BY <2>1, <2>2, <1>0, <1>1 DEF Types
<1>5. ASSUME NEW q \in Proc PROVE CallOK(q)'
  <2>1. CASE q = p
    BY <2>1, <1>2, NoCallFields DEF CallOK, IdleCall
  <2>2. CASE q # p
    <3>1. CallKept(q)
      BY <2>2, <1>1, <1>2 DEF CallKept
    <3> QED BY <3>1, <1>0, CallFrame
  <2> QED BY <2>1, <2>2
<1>6. call[p].ip = 0
  BY <1>0, <1>1 DEF CallOK, IdleCall, ChunkCall, WriteCall, TruncCall, Trunc
<1>7. ASSUME NEW j \in Inum PROVE InodeOK(j)'
  <2>1. icache[j].lock \in Proc => icache[j].lock # p
    BY <1>0, <1>6, LockHolder, NoZero
  <2>2. InodeKept(j)
    BY <2>1, <1>1, <1>2, AlikeSame DEF InodeKept
  <2> QED BY <2>2, <1>0, InodeFrame
<1>8. \A j : Gone(j)' <=> Gone(j)
  <2>1. call'[p].at # "ind" /\ call[p].at # "ind"
    BY <1>1, <1>2, NoCallFields
  <2> QED BY <2>1, <1>2 DEF Gone
<1>9. Held' = Held
  BY <1>1, <1>3, <1>8 DEF Held
<1>10. ~InOp(p)'
  BY <1>2, NoCallFields DEF InOp
<1>11. end_op(p, disk', want')
  BY <1>1 DEF end_op
<1>12. Sound(durable', dwant')
  BY <1>0, <1>1, <1>2, <1>4, <1>5, <1>7, <1>9, <1>10, <1>11, EndOp
<1> QED BY <1>0, <1>1, <1>3, <1>4, <1>5, <1>7, <1>8, <1>12, LightStep

\* A disk that has just been made, or that the machine has just started with.
LEMMA FreshInv == Types /\ Idle /\ made /\ Sound(disk, want) /\ Sound(durable, dwant) => IInv
<1> SUFFICES ASSUME Types, Idle, made, Sound(disk, want), Sound(durable, dwant) PROVE IInv
  OBVIOUS
<1>1. icache = [i \in Inum |-> Absent] /\ call = [p \in Proc |-> NoCall]
  BY DEF Idle
<1>2. \A q \in Proc : CallOK(q)
  BY <1>1, NoCallFields DEF CallOK, IdleCall
<1>3. \A i \in Inum : Current[i] = disk.inode[i] /\ icache[i].lock = 0
  BY <1>1, AbsentFields DEF Current
<1>4. \A i \in Inum : InodeOK(i)
  BY <1>3 DEF InodeOK, Unlocked, Sound
<1>5. \A i : ~Gone(i)
  BY <1>1, NoCallFields DEF Gone
<1>6. Held = [i \in Inum |-> Entries(disk, disk.inode[i].addrs)]
  BY <1>3, <1>5 DEF Held
<1>7. Named(Held, disk.used)
  BY <1>6 DEF Sound, Named0
<1> QED BY <1>2, <1>4, <1>7 DEF IInv

\* The machine stops, and starts from the durable disk.
LEMMA StepCrash ==
  ASSUME IInv, Crash
  PROVE  IInv'
<1>0. Types /\ made /\ Sound(durable, dwant)
  BY DEF IInv, Crash
<1>1. /\ disk' = durable /\ durable' = durable /\ want' = dwant /\ dwant' = dwant /\ made' = made
      /\ ncalls' = ncalls /\ ncrashes' = ncrashes + 1 /\ ncrashes < MaxCrashes /\ Idle'
  BY DEF Crash, Idle
<1>2. ncrashes' \in 0 .. MaxCrashes
  BY <1>0, <1>1, Constants, SMT DEF Types
<1>3. [ip |-> 0, off |-> 0] \in Handle
  <2>1. 0 \in 0 .. NINODES /\ 0 \in 0 .. MAXFILE * BSIZE
    BY Constants, Sizes, SMT
  <2> QED BY <2>1 DEF Handle
<1>4. Types'
  <2>1. DOMAIN want' = Inum
    BY <1>0, <1>1 DEF Sound
  <2> QED BY <2>1, <1>0, <1>1, <1>2, <1>3, AbsentFields, NoCallFields DEF Types, Idle
<1>5. Sound(disk, want)' /\ Sound(durable, dwant)'
  BY <1>0, <1>1 DEF Sound, Named0, Written, Present
<1>6. (Types /\ Idle /\ made /\ Sound(disk, want) /\ Sound(durable, dwant) => IInv)'
  BY FreshInv, PTL
<1> QED BY <1>0, <1>1, <1>4, <1>5, <1>6

-----------------------------------------------------------------------------
\* mkfs.
Naming0(d) == [j \in Inum |-> Entries(d, d.inode[j].addrs)]

\* An offset below the largest size, and a block that begins there or before.
LEMMA AppendArith ==
  ASSUME NEW off \in Offset, NEW n \in Nat, (off % BSIZE) + n <= BSIZE
  PROVE  off + n \in 0 .. MAXFILE * BSIZE
<1>1. PICK q \in 0 .. MAXFILE - 1 : q = off \div BSIZE
  BY OffsetBlock
<1>2. PICK r \in 0 .. BSIZE - 1 : r = off % BSIZE
  BY OffsetBlock
<1>3. off = BSIZE * q + r /\ off \in Nat
  BY <1>1, <1>2, OffsetBlock
<1>4. q \in Nat /\ q + 1 <= MAXFILE /\ MAXFILE \in Nat /\ BSIZE \in Nat
  BY <1>1, Sizes, Constants, SMT
<1>5. BSIZE * (q + 1) <= BSIZE * MAXFILE
  BY <1>4, SMT
<1>6. BSIZE * (q + 1) = BSIZE * q + BSIZE /\ BSIZE * MAXFILE = MAXFILE * BSIZE /\ BSIZE * q \in Nat
  BY <1>4, SMT
<1>7. r + n <= BSIZE
  BY <1>2
<1> QED BY <1>2, <1>3, <1>4, <1>5, <1>6, <1>7, Sizes, SMT

\* bmap() may be called for an inode of the image.
LEMMA ImageTracks ==
  ASSUME NEW d, ImageDisk(d), NEW i \in Inum
  PROVE  Tracks(Naming0(d), i, d, d.inode[i].addrs)
<1>1. d \in Disk /\ \A j \in Inum : d.inode[j].addrs \in Addrs
  BY DiskFields DEF ImageDisk, Inode
<1>2. Naming0(d) \in Naming
  BY <1>1, EntriesType DEF Naming0, Naming
<1>3. Lists(Naming0(d)[i], d, d.inode[i].addrs)
  BY DEF Naming0, Lists
<1>4. Named(Naming0(d), d.used)
  BY DEF ImageDisk, Named0, Naming0
<1> QED BY <1>1, <1>2, <1>3, <1>4 DEF Tracks

\* Disk d2 is disk d with n units more in file i.
Appended(d, i, n, d2) ==
    /\ ImageDisk(d2) /\ d2.freeinode = d.freeinode
    /\ d2.inode[i].size = d.inode[i].size + n
    /\ \A j \in Inum : j # i => d2.inode[j] = d.inode[j]

\* The data of an iappend(): n units v.
Units(s, n, v) == s = [k \in 1 .. n |-> v]

\* iappend() keeps the image as it should be.
LEMMA Iappend ==
  ASSUME NEW d, ImageDisk(d), NEW i \in Inum, NEW off \in Offset, off = d.inode[i].size,
         NEW n \in Nat, (off % BSIZE) + n <= BSIZE, NEW v \in Nat, NEW s, Units(s, n, v),
         ~(Cardinality(FreeBlocks(d)) < Lacking(d, d.inode[i].addrs, off \div BSIZE))
  PROVE  Appended(d, i, n, iappend(d, i, s))
<1>1. PICK a : a = d.inode[i].addrs
  OBVIOUS
<1>2. PICK H : H = Naming0(d)
  OBVIOUS
<1>3. Tracks(H, i, d, a)
  BY <1>1, <1>2, ImageTracks
<1>4. PICK m : m = bmap(d, a, off \div BSIZE)
  OBVIOUS
<1>5. off \div BSIZE \in 0 .. MAXFILE - 1
  BY OffsetBlock
<1>6. Mapped(H, i, d, a, off \div BSIZE, m)
  BY <1>1, <1>3, <1>4, <1>5, Bmap
<1>7. PICK b : b = Address(m.d, m.addrs, off \div BSIZE)
  OBVIOUS
<1>8. PICK e : e = [m.d EXCEPT !.content[b] = Put(@, off % BSIZE, s)]
  OBVIOUS
<1>9. Stored(H, i, d, a, e, m.addrs, off, n, v)
  <2>1. s = [k \in 1 .. n |-> v]
    BY DEF Units
  <2> QED BY <2>1, <1>3, <1>6, <1>7, <1>8, MapAndStore
<1>10. PICK a2 : a2 = m.addrs
  OBVIOUS
<1>11. PICK ino : ino = [size |-> off + n, addrs |-> a2]
  OBVIOUS
<1>12. off + n \in 0 .. MAXFILE * BSIZE
  BY AppendArith
<1>13. e \in Disk /\ a2 \in Addrs /\ e.inode = d.inode /\ e.freeinode = d.freeinode
       /\ Kept(H, i, d, e) /\ Named([H EXCEPT ![i] = Entries(e, a2)], e.used)
  BY <1>9, <1>10 DEF Stored
<1>14. ino \in Inode /\ ino.size = off + n /\ ino.addrs = a2
  BY <1>11, <1>12, <1>13 DEF Inode
<1>15. PICK d2 : d2 = [e EXCEPT !.inode[i] = ino]
  OBVIOUS
<1>16. iappend(d, i, s) = d2
  <2>1. Len(s) = n
    BY SMT DEF Units
  <2>2. m.d \in Disk
    BY <1>6 DEF Mapped, Grows
  <2>3. ino = [size |-> off + Len(s), addrs |-> m.addrs]
    BY <2>1, <1>10, <1>11
  <2>4. m = bmap(d, d.inode[i].addrs, off \div BSIZE)
    BY <1>1, <1>4
  <2>5. iappend(d, i, s) = [m.d EXCEPT !.inode[i] = ino, !.content[b] = Put(@, off % BSIZE, s)]
    BY <2>3, <2>4, <1>7 DEF iappend
  <2>6. PICK g : g = m.d
    OBVIOUS
  <2>7. [g EXCEPT !.inode[i] = ino, !.content[b] = Put(@, off % BSIZE, s)]
          = [[g EXCEPT !.content[b] = Put(@, off % BSIZE, s)] EXCEPT !.inode[i] = ino]
    BY <2>2, <2>6 DEF Disk
  <2> QED BY <2>5, <2>6, <2>7, <1>8, <1>15
<1>17. Updated(e, i, ino, d2)
  BY <1>13, <1>14, <1>15, UpdateInode
<1>18. d2 \in Disk /\ d2.used = e.used /\ d2.content = e.content /\ d2.freeinode = d.freeinode
       /\ d2.inode[i] = ino /\ \A j \in Inum : j # i => d2.inode[j] = d.inode[j]
  BY <1>13, <1>17 DEF Updated
<1>19. \A x : Alike(e, d2, x)
  BY <1>18, SameContent
<1>20. ASSUME NEW j \in Inum, j # i PROVE Alike(d, d2, d.inode[j].addrs)
  <2>1. d.inode[j].addrs \in Addrs /\ Lists(H[j], d, d.inode[j].addrs)
    <3>1. d \in Disk
      BY DEF ImageDisk
    <3> QED BY <3>1, <1>2, DiskFields DEF Inode, Naming0, Lists
  <2>2. Alike(d, e, d.inode[j].addrs)
    BY <2>1, <1>13, <1>20 DEF Kept
  <2> QED BY <2>2, <1>19 DEF Alike
<1>21. \A u \in Offset : Unit(d2, a2, u) =
          IF off <= u /\ u < off + n THEN v
          ELSE IF u \div BSIZE = off \div BSIZE /\ Unit(d, a, u) = -1 THEN 0 ELSE Unit(d, a, u)
  BY <1>9, <1>10, <1>19 DEF Stored, Alike
<1>22. Named0(d2)
  <2>1. [j \in Inum |-> Entries(d2, d2.inode[j].addrs)] = [H EXCEPT ![i] = Entries(e, a2)]
    <3>1. Entries(d2, d2.inode[i].addrs) = Entries(e, a2)
      BY <1>14, <1>18, <1>19 DEF Alike
    <3>2. ASSUME NEW j \in Inum, j # i
          PROVE  Entries(d2, d2.inode[j].addrs) = Entries(d, d.inode[j].addrs)
      BY <3>2, <1>18, <1>20 DEF Alike
    <3> QED BY <3>1, <3>2, <1>2 DEF Naming0
  <2> QED BY <2>1, <1>13, <1>18 DEF Named0
<1>23. off \in Nat /\ Offset \subseteq Nat
  BY Sizes, SMT DEF Offset
<1>24. ASSUME NEW j \in Inum PROVE Present(d2, d2.inode[j])
  <2>1. CASE j = i
    <3>1. ASSUME NEW u \in Offset, u < off + n PROVE Unit(d2, a2, u) # -1
      <4>1. CASE off <= u
        <5>1. v # -1
          BY SMT
        <5> QED BY <3>1, <4>1, <5>1, <1>21
      <4>2. CASE ~(off <= u)
        <5>1. u < off
          BY <4>2, <1>23, SMT
        <5>2. Unit(d, a, u) # -1
          BY <5>1, <1>1 DEF ImageDisk, Present
        <5> QED BY <4>2, <5>2, <1>21
      <4> QED BY <4>1, <4>2
    <3> QED BY <2>1, <3>1, <1>14, <1>18 DEF Present
  <2>2. CASE j # i
    <3>1. d2.inode[j] = d.inode[j] /\ Alike(d, d2, d.inode[j].addrs) /\ Present(d, d.inode[j])
      BY <2>2, <1>18, <1>20 DEF ImageDisk
    <3> QED BY <3>1 DEF Present, Alike
  <2> QED BY <2>1, <2>2
<1>25. ASSUME NEW u \in Offset, u >= d2.inode[ROOTINO].size
       PROVE  Unit(d2, d2.inode[ROOTINO].addrs, u) \in {-1, 0}
  <2>0. ROOTINO \in Inum
    BY Constants, SMT DEF Inum, ROOTINO
  <2>1. CASE i = ROOTINO
    <3>1. u >= off + n
      BY <2>1, <1>14, <1>18, <1>25
    <3>2. ~(u < off + n) /\ u >= off
      BY <3>1, <1>23, SMT
    <3>3. Unit(d, a, u) \in {-1, 0}
      BY <3>2, <2>1, <1>1 DEF ImageDisk
    <3>4. Unit(d2, a2, u) \in {-1, 0}
      BY <3>2, <3>3, <1>21
    <3> QED BY <3>4, <2>1, <1>14, <1>18
  <2>2. CASE i # ROOTINO
    <3>1. d2.inode[ROOTINO] = d.inode[ROOTINO] /\ Alike(d, d2, d.inode[ROOTINO].addrs)
      BY <2>0, <2>2, <1>18, <1>20
    <3> QED BY <3>1, <1>25 DEF ImageDisk, Alike
  <2> QED BY <2>1, <2>2
<1>26. ImageDisk(d2)
  BY <1>18, <1>22, <1>24, <1>25 DEF ImageDisk
<1> QED BY <1>14, <1>16, <1>18, <1>26 DEF Appended

\* The blocks that are not marked are the others.
LEMMA FreeCount ==
  ASSUME NEW d \in Disk
  PROVE  /\ Cardinality(FreeBlocks(d)) = FSSIZE - Cardinality(d.used)
         /\ Cardinality(d.used) \in Nat
<1>1. 0 \in Int /\ FSSIZE - 1 \in Int /\ ~(0 > FSSIZE - 1) /\ (FSSIZE - 1) - 0 + 1 = FSSIZE
  BY Constants, Layout, SMT
<1>2. IsFiniteSet(Block) /\ Cardinality(Block) = FSSIZE
  BY <1>1, FS_Interval DEF Block
<1>3. d.used \in SUBSET Block
  BY DiskFields
<1>4. Block \cap d.used = d.used
  BY <1>3
<1>5. Cardinality(Block \ d.used) = Cardinality(Block) - Cardinality(Block \cap d.used)
  BY <1>2, FS_Difference
<1>6. Cardinality(d.used) \in Nat
  BY <1>2, <1>3, FS_Subset, FS_CardinalityType
<1> QED BY <1>2, <1>4, <1>5, <1>6 DEF FreeBlocks

\* bmap() allocates at most two blocks.
LEMMA LackingType ==
  ASSUME NEW d, NEW a, NEW bn
  PROVE  Lacking(d, a, bn) \in {0, 1, 2}
BY DEF Lacking

\* While the image has less than MaxImage blocks, there are two for bmap().
LEMMA Room ==
  ASSUME NEW d \in Disk, Cardinality(d.used) - nmeta < MaxImage, NEW a, NEW bn
  PROVE  ~(Cardinality(FreeBlocks(d)) < Lacking(d, a, bn))
<1>1. PICK l \in {0, 1, 2} : l = Lacking(d, a, bn)
  BY LackingType
<1>2. PICK c \in Nat : c = Cardinality(d.used)
  BY FreeCount
<1>3. ~(FSSIZE - c < l)
  <2>1. c - nmeta < MaxImage
    BY <1>2
  <2> QED BY <2>1, Constants, Layout, SMT
<1> QED BY <1>1, <1>2, <1>3, FreeCount

\* assert(fbn < MAXFILE)
LEMMA BelowMax ==
  ASSUME NEW off \in 0 .. MAXFILE * BSIZE, off \div BSIZE < MAXFILE
  PROVE  off \in Offset
<1> SUFFICES ASSUME off = MAXFILE * BSIZE PROVE FALSE
  BY Sizes, SMT DEF Offset
<1>1. off \in Nat /\ BSIZE * MAXFILE <= off /\ off < BSIZE * MAXFILE + BSIZE
  BY Sizes, Constants, SMT
<1>2. off \div BSIZE = MAXFILE
  BY <1>1, Sizes, Constants, DivUnique
<1> QED BY <1>2, Sizes, SMT

\* What holds of an image holds of the system.
LEMMA ImageInv == Types /\ Image /\ ~made => IInv
<1> SUFFICES ASSUME Types, Image, ~made PROVE IInv
  OBVIOUS
<1>1. icache = [i \in Inum |-> Absent] /\ call = [p \in Proc |-> NoCall]
  BY DEF Image, Idle
<1>2. \A q \in Proc : CallOK(q)
  BY <1>1, NoCallFields DEF CallOK, IdleCall
<1>3. \A i \in Inum : Current[i] = disk.inode[i]
  BY <1>1, AbsentFields DEF Current
<1>4. \A i : ~Gone(i)
  BY <1>1, NoCallFields DEF Gone
<1>5. Held = [i \in Inum |-> Entries(disk, disk.inode[i].addrs)]
  BY <1>3, <1>4 DEF Held
<1>6. Named(Held, disk.used)
  BY <1>5 DEF Image, ImageDisk, Named0
<1> QED BY <1>2, <1>6 DEF IInv

\* Nothing of mkfs but the disk.
LEMMA MkfsStep ==
  ASSUME IInv, ~made, made' = made, noKernel, ImageDisk(disk'), disk'.freeinode >= 2,
         disk'.inode[ROOTINO].size = disk'.freeinode
  PROVE  IInv'
<1>1. /\ icache' = icache /\ call' = call /\ file' = file /\ panicked' = panicked /\ want' = want
      /\ durable' = durable /\ ncalls' = ncalls /\ ncrashes' = ncrashes
  BY DEF noKernel
<1>2. Types'
  BY <1>1 DEF IInv, Types, ImageDisk
<1>3. Idle'
  BY <1>1 DEF IInv, Image, Idle
<1>4. ImageDisk(disk)'
  BY DEF ImageDisk, Named0, Present
<1>5. Image'
  BY <1>3, <1>4 DEF Image
<1>6. (Types /\ Image /\ ~made => IInv)'
  BY ImageInv, PTL
<1> QED BY <1>2, <1>5, <1>6

\* ialloc() of mkfs gives out the next inode.
LEMMA FreeinodeOnly ==
  ASSUME NEW d, ImageDisk(d), NEW n \in 1 .. NINODES + 1, NEW d2, d2 = [d EXCEPT !.freeinode = n]
  PROVE  ImageDisk(d2) /\ d2.freeinode = n
<1>1. d \in Disk
  BY DEF ImageDisk
<1>2. d2 \in Disk /\ d2.used = d.used /\ d2.content = d.content /\ d2.inode = d.inode /\ d2.freeinode = n
  BY <1>1 DEF Disk
<1>3. \A a : Alike(d, d2, a)
  BY <1>2, SameContent
<1>4. \A a : Entries(d2, a) = Entries(d, a)
  BY <1>3 DEF Alike
<1>5. [j \in Inum |-> Entries(d2, d2.inode[j].addrs)] = [j \in Inum |-> Entries(d, d.inode[j].addrs)]
  BY <1>2, <1>4
<1>6. Named0(d2)
  BY <1>2, <1>5 DEF Named0, ImageDisk
<1>7. \A j \in Inum : Present(d2, d2.inode[j])
  BY <1>2, <1>3 DEF Present, ImageDisk, Alike
<1>8. \A u \in Offset : u >= d2.inode[ROOTINO].size => Unit(d2, d2.inode[ROOTINO].addrs, u) \in {-1, 0}
  BY <1>2, <1>3 DEF ImageDisk, Alike
<1> QED BY <1>2, <1>6, <1>7, <1>8 DEF ImageDisk

\* A directory entry is one unit.
LEMMA OneUnit ==
  ASSUME NEW v
  PROVE  Units(<<v>>, 1, v)
BY SMT DEF Units

\* The root directory has an inode.
LEMMA RootInum == ROOTINO \in Inum
BY Constants, SMT DEF Inum, ROOTINO

\* mkfs enters a file in the root directory.
LEMMA StepMkfsFile ==
  ASSUME IInv, MkfsFile
  PROVE  IInv'
<1>0. Types /\ ~made /\ Image /\ made' = made /\ noKernel
  BY DEF IInv, MkfsFile
<1>1. ImageDisk(disk) /\ disk \in Disk
  BY <1>0 DEF Image, ImageDisk
<1>2. PICK off : off = disk.inode[ROOTINO].size
  OBVIOUS
<1>3. off \in Offset
  <2>1. off \in 0 .. MAXFILE * BSIZE
    BY <1>1, <1>2, RootInum, DiskFields DEF Inode
  <2> QED BY <2>1, <1>2, BelowMax DEF MkfsFile
<1>4. ~(Cardinality(FreeBlocks(disk)) < Lacking(disk, disk.inode[ROOTINO].addrs, off \div BSIZE))
  BY <1>1, Room DEF MkfsFile, ImageBlocks
<1>5. PICK v \in 1 .. NINODES : v = disk.freeinode
  <2>1. disk.freeinode \in 1 .. NINODES + 1 /\ disk.freeinode <= NINODES
    BY <1>1, DiskFields DEF MkfsFile
  <2>2. disk.freeinode \in 1 .. NINODES
    BY <2>1, Constants, SMT
  <2> QED BY <2>2
<1>6. v \in Nat /\ v + 1 \in 1 .. NINODES + 1 /\ v + 1 >= 2 /\ 1 \in Nat
  BY Constants, SMT
<1>7. PICK s : s = <<v>>
  OBVIOUS
<1>8. (off % BSIZE) + 1 <= BSIZE
  <2>1. off % BSIZE \in 0 .. BSIZE - 1
    BY <1>3, OffsetBlock
  <2> QED BY <2>1, Constants, SMT
<1>9. PICK d : d = iappend(disk, ROOTINO, s)
  OBVIOUS
<1>10. Appended(disk, ROOTINO, 1, d)
  <2>1. Units(s, 1, v)
    BY <1>7, OneUnit
  <2>2. Appended(disk, ROOTINO, 1, iappend(disk, ROOTINO, s))
    BY <2>1, <1>1, <1>2, <1>3, <1>4, <1>6, <1>8, RootInum, Iappend
  <2> QED BY <2>2, <1>9
<1>11. disk' = [d EXCEPT !.freeinode = v + 1]
  <2>1. disk' = [iappend(disk, ROOTINO, <<disk.freeinode>>) EXCEPT !.freeinode = @ + 1]
    BY DEF MkfsFile
  <2>2. iappend(disk, ROOTINO, <<disk.freeinode>>) = d /\ d.freeinode = v
    BY <1>5, <1>7, <1>9, <1>10 DEF Appended
  <2> QED BY <2>1, <2>2
<1>12. ImageDisk(disk') /\ disk'.freeinode = v + 1 /\ disk'.inode = d.inode
  <2>1. PICK w : w = v + 1
    OBVIOUS
  <2>2. w \in 1 .. NINODES + 1 /\ disk' = [d EXCEPT !.freeinode = w] /\ ImageDisk(d)
    BY <2>1, <1>6, <1>10, <1>11 DEF Appended
  <2>3. ImageDisk(disk') /\ disk'.freeinode = w
    BY <2>2, FreeinodeOnly
  <2>4. disk'.inode = d.inode
    BY <2>2 DEF ImageDisk, Disk
  <2> QED BY <2>1, <2>3, <2>4
<1>13. disk'.inode[ROOTINO].size = disk'.freeinode
  BY <1>0, <1>5, <1>10, <1>12 DEF Image, Appended
<1> QED BY <1>0, <1>6, <1>12, <1>13, MkfsStep

\* mkfs copies a block of a file.
LEMMA StepMkfsCopy ==
  ASSUME IInv, MkfsCopy
  PROVE  IInv'
<1>0. Types /\ ~made /\ Image /\ made' = made /\ noKernel
  BY DEF IInv, MkfsCopy
<1>1. ImageDisk(disk) /\ disk \in Disk /\ disk.freeinode >= 2
  BY <1>0 DEF Image, ImageDisk
<1>2. PICK i \in Inum : i = disk.freeinode - 1 /\ i # ROOTINO
  <2>1. disk.freeinode \in 1 .. NINODES + 1 /\ disk.freeinode - 1 > ROOTINO
    BY <1>1, DiskFields DEF MkfsCopy
  <2>2. disk.freeinode - 1 \in 1 .. NINODES /\ disk.freeinode - 1 # ROOTINO
    BY <2>1, Constants, SMT DEF ROOTINO
  <2> QED BY <2>2 DEF Inum
<1>3. PICK off : off = disk.inode[i].size
  OBVIOUS
<1>4. off % BSIZE = 0 /\ off \div BSIZE < MAXFILE
  BY <1>2, <1>3 DEF MkfsCopy
<1>5. off \in Offset
  <2>1. off \in 0 .. MAXFILE * BSIZE
    BY <1>1, <1>3, DiskFields DEF Inode
  <2> QED BY <2>1, <1>4, BelowMax
<1>6. ~(Cardinality(FreeBlocks(disk)) < Lacking(disk, disk.inode[i].addrs, off \div BSIZE))
  BY <1>1, Room DEF MkfsCopy, ImageBlocks
<1>7. PICK n \in 1 .. BSIZE, v \in Val : disk' = iappend(disk, i, [k \in 1 .. n |-> v])
  BY <1>2 DEF MkfsCopy
<1>8. n \in Nat /\ v \in Nat /\ (off % BSIZE) + n <= BSIZE
  <2>1. n \in Nat /\ 0 + n <= BSIZE
    BY Constants, SMT
  <2> QED BY <2>1, <1>4, Constants
<1>9. PICK s : s = [k \in 1 .. n |-> v]
  OBVIOUS
<1>10. Appended(disk, i, n, iappend(disk, i, s))
  <2>1. Units(s, n, v)
    BY <1>9 DEF Units
  <2> QED BY <2>1, <1>1, <1>3, <1>5, <1>6, <1>8, Iappend
<1>11. disk' = iappend(disk, i, s)
  BY <1>7, <1>9
<1>12. ImageDisk(disk') /\ disk'.freeinode >= 2 /\ disk'.inode[ROOTINO].size = disk'.freeinode
  BY <1>0, <1>1, <1>2, <1>10, <1>11, RootInum DEF Appended, Image
<1> QED BY <1>0, <1>12, MkfsStep

\* The disk that mkfs begins with.
LEMMA FirstDisk ==
  ASSUME NEW d, d = [Unwritten EXCEPT !.used = 0 .. nmeta - 1, !.freeinode = 2]
  PROVE  /\ ImageDisk(d) /\ d.freeinode = 2 /\ d.used = 0 .. nmeta - 1
         /\ \A i \in Inum : d.inode[i] = EmptyInode
<1>1. Unwritten \in Disk
  <2>1. Zeroes \in [0 .. BSIZE - 1 -> Nat]
    <3>1. 0 \in Nat
      BY SMT
    <3> QED BY <3>1 DEF Zeroes
  <2>2. 1 \in 1 .. NINODES + 1
    BY Constants, SMT
  <2> QED BY <2>1, <2>2, EmptyFields DEF Unwritten, Disk
<1>2. 2 \in 1 .. NINODES + 1 /\ 0 .. nmeta - 1 \in SUBSET Block
  BY Constants, Layout, SMT DEF Block
<1>3. d \in Disk /\ d.used = 0 .. nmeta - 1 /\ d.freeinode = 2 /\ d.inode = Unwritten.inode
  BY <1>1, <1>2 DEF Disk
<1>4. ASSUME NEW i \in Inum PROVE d.inode[i] = EmptyInode
  BY <1>3 DEF Unwritten
<1>5. ASSUME NEW k \in Slot PROVE Entry(d, NoAddrs, k) = 0
  <2>1. NDIRECT \in 0 .. NDIRECT
    BY Constants, SMT
  <2>2. k <= NDIRECT => k \in 0 .. NDIRECT
    BY SlotKinds, DirectSlot, <2>1
  <2> QED BY <2>1, <2>2 DEF Entry, NoAddrs
<1>6. PICK H : H = [i \in Inum |-> Entries(d, d.inode[i].addrs)]
  OBVIOUS
<1>7. \A i \in Inum : \A k \in Slot : H[i][k] = 0
  BY <1>4, <1>5, <1>6, EmptyFields DEF Entries
<1>8. Named(H, d.used)
  <2>1. Marked(H, d.used) /\ Once(H)
    BY <1>7 DEF Marked, Once
  <2>2. ASSUME NEW b \in 0 .. nmeta - 1 PROVE ~(b >= nmeta)
    BY Layout, SMT
  <2>3. NoLeak(H, d.used)
    BY <2>2, <1>3 DEF NoLeak
  <2> QED BY <2>1, <2>3, <1>3 DEF Named
<1>9. \A i \in Inum : Present(d, d.inode[i])
  BY <1>4, EmptyFields DEF Written
<1>10. ASSUME NEW u \in Offset PROVE Unit(d, d.inode[ROOTINO].addrs, u) \in {-1, 0}
  <2>1. d.inode[ROOTINO].addrs = NoAddrs
    BY <1>4, RootInum, EmptyFields
  <2>2. Address(d, NoAddrs, u \div BSIZE) = 0
    <3>1. u \div BSIZE \in 0 .. MAXFILE - 1
      BY OffsetBlock
    <3>2. u \div BSIZE < NDIRECT => u \div BSIZE \in 0 .. NDIRECT
      BY <3>1, Constants, Sizes, SMT
    <3>3. NDIRECT \in 0 .. NDIRECT
      BY Constants, SMT
    <3> QED BY <3>2, <3>3 DEF Address, NoAddrs
  <2> QED BY <2>1, <2>2 DEF Unit
<1> QED BY <1>3, <1>4, <1>6, <1>8, <1>9, <1>10 DEF ImageDisk, Named0

-----------------------------------------------------------------------------
\* The size of the root directory is rounded up to the end of its last block.
LEMMA RoundUp ==
  ASSUME NEW z \in 0 .. MAXFILE * BSIZE, z % BSIZE # 0, NEW off, off = (z \div BSIZE + 1) * BSIZE
  PROVE  /\ off \in 0 .. MAXFILE * BSIZE /\ off - z \in Nat /\ z \in Nat
         /\ z \in Offset /\ z - 1 \in Offset /\ z - 1 < z
         /\ \A u \in Offset : z - 1 <= u /\ u < off => u \div BSIZE = z \div BSIZE
<1>1. z \in Nat
  BY Sizes, SMT
<1>2. PICK q \in Nat : q = z \div BSIZE
  BY <1>1, Constants, Div
<1>3. PICK r \in 0 .. BSIZE - 1 : r = z % BSIZE
  BY <1>1, Constants, Div
<1>4. z = BSIZE * q + r /\ r > 0
  <2>1. z = BSIZE * q + r
    BY <1>1, <1>2, <1>3, Constants, Div
  <2>2. r > 0
    BY <1>3, Constants, SMT
  <2> QED BY <2>1, <2>2
<1>5. BSIZE * q < BSIZE * MAXFILE
  <2>1. BSIZE * q \in Nat /\ BSIZE * MAXFILE = MAXFILE * BSIZE
    BY Sizes, Constants, SMT
  <2> QED BY <2>1, <1>4, Sizes, Constants, SMT
<1>6. q < MAXFILE
  <2>1. q \in Int /\ MAXFILE \in Int
    BY Sizes, SMT
  <2> QED BY <2>1, <1>5, Constants, MulMono
<1>7. PICK e \in Nat : e = BSIZE * q
  BY Constants, SMT
<1>8. off = e + BSIZE /\ off <= MAXFILE * BSIZE
  <2>1. off = e + BSIZE
    BY <1>2, <1>7, Constants, SMT
  <2>2. BSIZE * (q + 1) <= BSIZE * MAXFILE
    BY <1>6, Sizes, Constants, SMT
  <2>3. BSIZE * (q + 1) = e + BSIZE /\ BSIZE * MAXFILE = MAXFILE * BSIZE
    BY <1>7, Sizes, Constants, SMT
  <2> QED BY <2>1, <2>2, <2>3
<1>9. z = e + r
  BY <1>4, <1>7
<1>10. /\ off \in 0 .. MAXFILE * BSIZE /\ off - z \in Nat
       /\ z \in Offset /\ z - 1 \in Offset /\ z - 1 < z
  BY <1>3, <1>4, <1>8, <1>9, Sizes, Constants, SMT DEF Offset
<1>11. ASSUME NEW u \in Offset, z - 1 <= u, u < off PROVE u \div BSIZE = z \div BSIZE
  <2>1. u \in Nat /\ e <= u /\ u < e + BSIZE
    BY <1>3, <1>4, <1>8, <1>9, <1>11, Constants, SMT DEF Offset
  <2>2. BSIZE * q <= u /\ u < BSIZE * q + BSIZE
    BY <2>1, <1>7
  <2>3. u \div BSIZE = q
    BY <2>1, <2>2, Constants, DivUnique
  <2> QED BY <2>3, <1>2
<1> QED BY <1>1, <1>10, <1>11

\* t is s with e zeroes after its z units.
Padded(s, z, e, t) == t = [k \in 1 .. z + e |-> IF k <= z THEN s[k] ELSE 0]

\* The root directory with its size rounded up: what follows the last entry
\* is 0.
LEMMA RootRounded ==
  \A d, r, off, ino, d2, t :
    /\ ImageDisk(d)
    /\ r = d.inode[ROOTINO]
    /\ r.size % BSIZE # 0
    /\ off = (r.size \div BSIZE + 1) * BSIZE
    /\ ino = [r EXCEPT !.size = off]
    /\ d2.content = d.content
    /\ Units(t, off - r.size, 0)
    =>  Written(d2, ino, Contents(d, r) \o t)

\* A sequence followed by zeroes.
<1>Concat.
  ASSUME NEW z \in Nat, NEW e \in Nat, NEW s \in [1 .. z -> Int], NEW t, Units(t, e, 0)
  PROVE  Padded(s, z, e, s \o t)
  <2> USE <1>Concat
  <2>1. s \in Seq(Int) /\ Len(s) = z
    BY SMT
  <2>2. t \in Seq(Int) /\ Len(t) = e /\ \A k \in 1 .. e : t[k] = 0
    BY SMT DEF Units
  <2>3. PICK c : c = s \o t
    OBVIOUS
  <2>4. c \in Seq(Int) /\ Len(c) = z + e
    <3>1. c \in Seq(Int)
      BY <2>1, <2>2, <2>3, SMT
    <3>2. Len(s \o t) = Len(s) + Len(t)
      BY <2>1, <2>2, SMT
    <3> QED BY <3>1, <3>2, <2>1, <2>2, <2>3
  <2>5. c = [k \in 1 .. z + e |-> c[k]]
    BY <2>4, SMT
  <2>6. ASSUME NEW k \in 1 .. z + e PROVE c[k] = IF k <= z THEN s[k] ELSE 0
    <3>1. CASE k <= z
      BY <3>1, <2>1, <2>2, <2>3, SMT
    <3>2. CASE ~(k <= z)
      <4>1. c[k] = t[k - z]
        BY <3>2, <2>1, <2>2, <2>3, SMT
      <4>2. k - z \in 1 .. e
        BY <3>2, SMT
      <4> QED BY <3>2, <4>1, <4>2, <2>2
    <3> QED BY <3>1, <3>2
  <2>7. c = [k \in 1 .. z + e |-> IF k <= z THEN s[k] ELSE 0]
    BY <2>5, <2>6
  <2> QED BY <2>3, <2>7 DEF Padded

\* A unit of a file is a number.
<1>UnitType.
  ASSUME NEW d \in Disk, NEW a \in Addrs, NEW u \in Offset,
         Address(d, a, u \div BSIZE) \in Block
  PROVE  Unit(d, a, u) \in Int
  <2> USE <1>UnitType
  <2>1. u % BSIZE \in 0 .. BSIZE - 1
    BY OffsetBlock
  <2>2. PICK b \in Block : b = Address(d, a, u \div BSIZE)
    OBVIOUS
  <2>3. d.content[b][u % BSIZE] \in Nat
    <3>1. d.content[b] \in [0 .. BSIZE - 1 -> Nat]
      BY DiskFields
    <3> QED BY <3>1, <2>1
  <2>4. d.content[b][u % BSIZE] \in Int /\ -1 \in Int
    BY <2>3, SMT
  <2> QED BY <2>2, <2>4 DEF Unit

\* The address of a block of a file is a block of the disk.
<1>TrackedAddress.
  ASSUME NEW H, NEW i, NEW d, NEW a, Tracks(H, i, d, a), NEW bn \in 0 .. MAXFILE - 1
  PROVE  Address(d, a, bn) \in Block
  <2> USE <1>TrackedAddress
  <2>1. SlotOf(bn) \in Slot /\ Address(d, a, bn) = Entry(d, a, SlotOf(bn))
    BY AddressEntry
  <2>2. H[i][SlotOf(bn)] = Entry(d, a, SlotOf(bn))
    BY <2>1 DEF Tracks, Lists, Entries
  <2>3. H[i][SlotOf(bn)] # 0 => H[i][SlotOf(bn)] \in Block
    BY <2>1, NamedBlock DEF Tracks
  <2> QED BY <2>1, <2>2, <2>3, Layout

<1> QED
  <2> SUFFICES
      ASSUME NEW d, ImageDisk(d), NEW r, r = d.inode[ROOTINO], r.size % BSIZE # 0,
             NEW off, off = (r.size \div BSIZE + 1) * BSIZE, NEW ino, ino = [r EXCEPT !.size = off],
             NEW d2, d2.content = d.content, NEW t, Units(t, off - r.size, 0)
      PROVE  Written(d2, ino, Contents(d, r) \o t)
    OBVIOUS
  <2>1. d \in Disk /\ r \in Inode
    BY RootInum, DiskFields DEF ImageDisk
  <2>2. PICK z \in 0 .. MAXFILE * BSIZE : z = r.size
    BY <2>1 DEF Inode
  <2>3. PICK a \in Addrs : a = r.addrs
    BY <2>1 DEF Inode
  <2>4. ino.size = off /\ ino.addrs = a
    BY <2>1, <2>3 DEF Inode
  <2>5. /\ off \in 0 .. MAXFILE * BSIZE /\ off - z \in Nat /\ z \in Nat
        /\ z \in Offset /\ z - 1 \in Offset /\ z - 1 < z
        /\ \A u \in Offset : z - 1 <= u /\ u < off => u \div BSIZE = z \div BSIZE
    <3>1. z % BSIZE # 0 /\ off = (z \div BSIZE + 1) * BSIZE
      BY <2>2
    <3> QED BY <3>1, RoundUp
  <2>6. off \in Nat /\ z - 1 \in Int
    BY <2>5, Sizes, SMT
  <2>7. Tracks(Naming0(d), ROOTINO, d, a)
    BY <2>3, RootInum, ImageTracks
  <2>8. ASSUME NEW u \in Offset PROVE Unit(d2, a, u) = Unit(d, a, u) /\ Unit(d, a, u) \in Int
    <3>1. u \div BSIZE \in 0 .. MAXFILE - 1
      BY OffsetBlock
    <3>2. Address(d, a, u \div BSIZE) \in Block
      BY <3>1, <2>7, <1>TrackedAddress
    <3> QED BY <3>2, <2>1, <1>UnitType, SameContent, ZenonT(30) DEF Alike
  <2>9. ASSUME NEW u \in Offset, u < z PROVE Unit(d, a, u) # -1
    BY <2>2, <2>3, <2>9, RootInum DEF ImageDisk, Present
  <2>10. ASSUME NEW u \in Offset, ~(u < z), u < off PROVE Unit(d, a, u) = 0
    <3>1. u >= z /\ z - 1 <= u /\ z - 1 <= z - 1 /\ z - 1 < off
      BY <2>5, <2>6, <2>10, SMT DEF Offset
    <3>2. Unit(d, a, u) \in {-1, 0}
      BY <3>1, <2>2, <2>3 DEF ImageDisk
    <3>3. PICK y \in Offset : y = z - 1
      BY <2>5
    <3>4. Unit(d, a, y) # -1
      BY <3>3, <2>5, <2>9
    <3>5. y \div BSIZE = z \div BSIZE /\ u \div BSIZE = z \div BSIZE
      BY <3>1, <3>3, <2>5, <2>10
    <3>6. PICK b : b = Address(d, a, z \div BSIZE)
      OBVIOUS
    <3>7. b # 0
      BY <3>4, <3>5, <3>6 DEF Unit
    <3>8. u % BSIZE \in 0 .. BSIZE - 1 /\ u \div BSIZE \in 0 .. MAXFILE - 1
      BY OffsetBlock
    <3>9. b \in Block
      BY <3>5, <3>6, <3>8, <2>7, <1>TrackedAddress
    <3>10. d.content[b] \in [0 .. BSIZE - 1 -> Nat]
      BY <3>9, <2>1, DiskFields
    <3>11. Unit(d, a, u) = d.content[b][u % BSIZE]
      BY <3>5, <3>6, <3>7 DEF Unit
    <3>12. Unit(d, a, u) \in Nat
      BY <3>8, <3>10, <3>11
    <3>13. Unit(d, a, u) # -1
      BY <3>12, SMT
    <3> QED BY <3>2, <3>13
  <2>11. PICK s : s = Contents(d, r)
    OBVIOUS
  <2>12. s = [k \in 1 .. z |-> Unit(d, a, k - 1)]
    BY <2>2, <2>3, <2>11, ContentsUnits
  <2>13. ASSUME NEW k \in 1 .. z PROVE Unit(d, a, k - 1) \in Int
    <3>1. PICK u \in Offset : u = k - 1
      BY <2>2, InodeSize
    <3> QED BY <3>1, <2>8
  <2>14. s \in [1 .. z -> Int]
    BY <2>12, <2>13
  <2>15. PICK e \in Nat : e = off - z
    BY <2>5
  <2>16. Padded(s, z, e, s \o t)
    BY <2>2, <2>5, <2>14, <2>15, <1>Concat
  <2>17. z + e = off
    BY <2>5, <2>6, <2>15, SMT
  <2>18. Contents(d2, ino) = [k \in 1 .. off |-> Unit(d2, a, k - 1)]
    <3>1. Contents(d2, ino) = [k \in 1 .. ino.size |-> Unit(d2, ino.addrs, k - 1)]
      BY ContentsUnits
    <3> QED BY <3>1, <2>4
  <2>19. ASSUME NEW k \in 1 .. off PROVE Unit(d2, a, k - 1) = IF k <= z THEN s[k] ELSE 0
    <3>1. PICK u \in Offset : u = k - 1 /\ u < off
      BY <2>5, InodeSize
    <3>2. k <= z <=> u < z
      BY <3>1, <2>5, <2>6, SMT
    <3>3. k <= z => k \in 1 .. z
      BY <2>5, <2>6, SMT
    <3>4. CASE k <= z
      BY <3>1, <3>3, <3>4, <2>8, <2>12
    <3>5. CASE ~(k <= z)
      BY <3>1, <3>2, <3>5, <2>8, <2>10
    <3> QED BY <3>4, <3>5
  <2>20. s \o t = Contents(d2, ino)
    BY <2>16, <2>17, <2>18, <2>19 DEF Padded
  <2>21. ASSUME NEW u \in Offset, u < off PROVE Unit(d2, a, u) # -1
    <3>1. CASE u < z
      BY <3>1, <2>8, <2>9
    <3>2. CASE ~(u < z)
      <4>1. Unit(d2, a, u) = 0
        BY <3>2, <2>8, <2>10, <2>21
      <4> QED BY <4>1, SMT
    <3> QED BY <3>1, <3>2
  <2>22. Present(d2, ino)
    BY <2>4, <2>21 DEF Present
  <2> QED BY <2>11, <2>20, <2>22 DEF Written

\* mkfs rounds up the size of the root directory, and the image is done.
LEMMA StepMkfsFinish ==
  ASSUME IInv, MkfsFinish
  PROVE  IInv'
<1>0. Types /\ ~made /\ Idle /\ ImageDisk(disk) /\ disk.inode[ROOTINO].size = disk.freeinode
  BY DEF IInv, MkfsFinish, Image
<1>1. PICK r : r = disk.inode[ROOTINO]
  OBVIOUS
<1>2. PICK off : off = (r.size \div BSIZE + 1) * BSIZE
  OBVIOUS
<1>3. PICK ino : ino = [r EXCEPT !.size = off]
  OBVIOUS
<1>4. PICK t : t = [k \in 1 .. off - r.size |-> 0]
  OBVIOUS
<1>5. disk' = [disk EXCEPT !.inode[ROOTINO] = ino] /\ durable' = disk'
  <2>1. disk' = [disk EXCEPT !.inode[ROOTINO].size = off] /\ durable' = disk'
    BY <1>1, <1>2 DEF MkfsFinish
  <2>2. [disk EXCEPT !.inode[ROOTINO].size = off] = [disk EXCEPT !.inode[ROOTINO] = ino]
    BY <1>1, <1>3
  <2> QED BY <2>1, <2>2
<1>6. want' = [i \in Inum |-> IF i = ROOTINO THEN Contents(disk, r) \o t
                              ELSE Contents(disk, disk.inode[i])]
  <2>1. want' = [i \in Inum |->
          IF i = ROOTINO
          THEN Contents(disk, disk.inode[i]) \o [k \in 1 .. off - disk.inode[i].size |-> 0]
          ELSE Contents(disk, disk.inode[i])]
    BY <1>1, <1>2 DEF MkfsFinish
  <2> QED BY <2>1, <1>1, <1>4
<1>7. /\ made' = TRUE /\ dwant' = want' /\ icache' = icache /\ file' = file /\ call' = call
      /\ panicked' = panicked /\ ncalls' = ncalls /\ ncrashes' = ncrashes /\ r.size % BSIZE # 0
  <2>1. disk.freeinode - 2 \in UPROGS /\ disk.freeinode \in 1 .. NINODES + 1 /\ r.size = disk.freeinode
    BY <1>0, <1>1, DiskFields DEF MkfsFinish, ImageDisk
  <2>2. (disk.freeinode - 2) + 2 = disk.freeinode
    BY <2>1, Constants, SMT
  <2>3. r.size % BSIZE # 0
    BY <2>1, <2>2, BlocksAssumption DEF FillsBlock
  <2> QED BY <2>3 DEF MkfsFinish
<1>8. r \in Inode /\ disk \in Disk
  BY <1>0, <1>1, RootInum, DiskFields DEF ImageDisk
<1>9. ino \in Inode /\ ino.addrs = r.addrs
  <2>1. PICK z : z = r.size
    OBVIOUS
  <2>2. z \in 0 .. MAXFILE * BSIZE /\ z % BSIZE # 0 /\ off = (z \div BSIZE + 1) * BSIZE
    BY <2>1, <1>2, <1>7, <1>8 DEF Inode
  <2>3. off \in 0 .. MAXFILE * BSIZE
    BY <2>2, RoundUp
  <2> QED BY <2>3, <1>3, <1>8 DEF Inode
<1>10. Updated(disk, ROOTINO, ino, disk')
  BY <1>5, <1>8, <1>9, RootInum, UpdateInode
<1>11. disk' \in Disk /\ disk'.used = disk.used /\ disk'.content = disk.content
       /\ disk'.inode[ROOTINO] = ino /\ \A j \in Inum : j # ROOTINO => disk'.inode[j] = disk.inode[j]
  BY <1>10 DEF Updated
<1>12. DOMAIN want' = Inum /\ want'[ROOTINO] = Contents(disk, r) \o t
       /\ \A j \in Inum : j # ROOTINO => want'[j] = Contents(disk, disk.inode[j])
  BY <1>6, RootInum
<1>13. Types'
  BY <1>0, <1>5, <1>7, <1>11, <1>12 DEF Types
<1>14. Idle'
  BY <1>0, <1>7 DEF Idle
<1>15. Named0(disk')
  <2>1. [j \in Inum |-> Entries(disk', disk'.inode[j].addrs)]
          = [j \in Inum |-> Entries(disk, disk.inode[j].addrs)]
    <3>1. ASSUME NEW j \in Inum PROVE disk'.inode[j].addrs = disk.inode[j].addrs
      BY <1>1, <1>9, <1>11
    <3>2. \A a : Entries(disk', a) = Entries(disk, a)
      BY <1>11, SameContent DEF Alike
    <3> QED BY <3>1, <3>2
  <2> QED BY <2>1, <1>0, <1>11 DEF Named0, ImageDisk
<1>16. ASSUME NEW j \in Inum PROVE Written(disk', disk'.inode[j], want'[j])
  <2>1. CASE j = ROOTINO
    <3>1. Units(t, off - r.size, 0)
      BY <1>4 DEF Units
    <3>2. Written(disk', ino, Contents(disk, r) \o t)
      BY <3>1, <1>0, <1>1, <1>2, <1>3, <1>7, <1>11, RootRounded
    <3> QED BY <2>1, <3>2, <1>11, <1>12
  <2>2. CASE j # ROOTINO
    <3>1. disk.inode[j].size \in 0 .. MAXFILE * BSIZE
      BY <1>8, DiskFields DEF Inode
    <3>2. Written(disk, disk.inode[j], Contents(disk, disk.inode[j]))
      BY <1>0 DEF Written, ImageDisk
    <3>3. Alike(disk, disk', disk.inode[j].addrs)
      BY <1>11, SameContent
    <3>4. Written(disk', disk.inode[j], Contents(disk, disk.inode[j]))
      BY <3>1, <3>2, <3>3, AlikeWritten
    <3> QED BY <2>2, <3>4, <1>11, <1>12
  <2> QED BY <2>1, <2>2
<1>17. Sound(disk', want') /\ Sound(durable', dwant')
  BY <1>5, <1>7, <1>11, <1>12, <1>15, <1>16 DEF Sound
<1>18. Sound(disk, want)' /\ Sound(durable, dwant)'
  BY <1>17 DEF Sound, Named0, Written, Present
<1>19. (Types /\ Idle /\ made /\ Sound(disk, want) /\ Sound(durable, dwant) => IInv)'
  BY FreshInv, PTL
<1> QED BY <1>7, <1>13, <1>14, <1>18, <1>19

\* The image with the entries "." and ".." in its root directory.
LEMMA InitIInv ==
  ASSUME Init
  PROVE  IInv
<1>1. PICK d : d = [Unwritten EXCEPT !.used = 0 .. nmeta - 1, !.freeinode = 2]
  OBVIOUS
<1>2. PICK s : s = <<ROOTINO>>
  OBVIOUS
<1>3. PICK e : e = iappend(d, ROOTINO, s)
  OBVIOUS
<1>4. disk = iappend(e, ROOTINO, s)
  BY <1>1, <1>2, <1>3 DEF Init
<1>5. /\ durable = Unwritten /\ made = FALSE /\ icache = [i \in Inum |-> Absent]
      /\ file = [f \in File |-> [ip |-> 0, off |-> 0]] /\ call = [p \in Proc |-> NoCall]
      /\ panicked = "no" /\ want = [i \in Inum |-> <<>>] /\ ncalls = 0 /\ ncrashes = 0
  BY DEF Init
<1>6. PICK v \in Nat : v = ROOTINO
  BY SMT DEF ROOTINO
<1>7. Units(s, 1, v)
  BY <1>2, <1>6, OneUnit
<1>8. ImageDisk(d) /\ d.freeinode = 2 /\ d.used = 0 .. nmeta - 1 /\ d.inode[ROOTINO] = EmptyInode
      /\ d \in Disk
  BY <1>1, FirstDisk, RootInum DEF ImageDisk
<1>9. /\ 0 \in Offset /\ 1 \in Offset /\ 0 \div BSIZE = 0 /\ 1 \div BSIZE = 0 /\ 1 \in Nat
      /\ (0 % BSIZE) + 1 <= BSIZE /\ (1 % BSIZE) + 1 <= BSIZE /\ 0 + 1 = 1 /\ 0 < 1
  <2>1. /\ 0 \div BSIZE = 0 /\ 0 % BSIZE = 0 - BSIZE * 0
        /\ 1 \div BSIZE = 0 /\ 1 % BSIZE = 1 - BSIZE * 0
    <3>1. /\ 0 \in Nat /\ 1 \in Nat /\ BSIZE * 0 <= 0 /\ BSIZE * 0 <= 1
          /\ 0 < BSIZE * 0 + BSIZE /\ 1 < BSIZE * 0 + BSIZE
      BY Constants, SMT
    <3> QED BY <3>1, Constants, DivUnique
  <2>2. 0 % BSIZE = 0 /\ 1 % BSIZE = 1
    BY <2>1, Constants, SMT
  <2>3. MAXFILE > 1 /\ MAXFILE * BSIZE > 1
    BY Constants, Sizes, SMT
  <2> QED BY <2>1, <2>2, <2>3, Constants, Sizes, SMT DEF Offset
<1>10. ~(Cardinality(FreeBlocks(d)) < Lacking(d, d.inode[ROOTINO].addrs, 0 \div BSIZE))
  <2>1. Lacking(d, d.inode[ROOTINO].addrs, 0 \div BSIZE) = 1
    <3>1. 0 < NDIRECT /\ ~(0 >= NDIRECT) /\ 0 \in 0 .. NDIRECT
      BY Constants, SMT
    <3>2. d.inode[ROOTINO].addrs = NoAddrs /\ NoAddrs[0] = 0
      BY <3>1, <1>8, EmptyFields DEF NoAddrs
    <3>3. Address(d, NoAddrs, 0) = 0
      BY <3>1, <3>2 DEF Address
    <3>4. Lacking(d, NoAddrs, 0) = 1
      BY <3>1, <3>3 DEF Lacking
    <3> QED BY <3>2, <3>4, <1>9
  <2>2. Cardinality(0 .. nmeta - 1) = nmeta
    <3>1. 0 \in Int /\ nmeta - 1 \in Int /\ ~(0 > nmeta - 1) /\ (nmeta - 1) - 0 + 1 = nmeta
      BY Layout, SMT
    <3> QED BY <3>1, FS_Interval
  <2>3. Cardinality(FreeBlocks(d)) = FSSIZE - nmeta
    BY <2>2, <1>8, FreeCount
  <2>4. ~(FSSIZE - nmeta < 1)
    BY Constants, Layout, SMT
  <2> QED BY <2>1, <2>3, <2>4
<1>11. Appended(d, ROOTINO, 1, e)
  <2>1. PICK off \in Offset : off = 0
    BY <1>9
  <2>2. off = d.inode[ROOTINO].size /\ (off % BSIZE) + 1 <= BSIZE
        /\ ~(Cardinality(FreeBlocks(d)) < Lacking(d, d.inode[ROOTINO].addrs, off \div BSIZE))
    BY <2>1, <1>8, <1>9, <1>10, EmptyFields
  <2>3. Appended(d, ROOTINO, 1, iappend(d, ROOTINO, s))
    BY <2>2, <1>7, <1>8, <1>9, RootInum, Iappend
  <2> QED BY <2>3, <1>3
<1>12. ImageDisk(e) /\ e.freeinode = 2 /\ e.inode[ROOTINO].size = 1 /\ e \in Disk
  BY <1>8, <1>9, <1>11, EmptyFields DEF Appended, ImageDisk
<1>13. ~(Cardinality(FreeBlocks(e)) < Lacking(e, e.inode[ROOTINO].addrs, 1 \div BSIZE))
  <2>1. Unit(e, e.inode[ROOTINO].addrs, 0) # -1
    BY <1>9, <1>12, RootInum DEF ImageDisk, Present
  <2>2. Address(e, e.inode[ROOTINO].addrs, 0) # 0
    BY <2>1, <1>9 DEF Unit
  <2>3. Lacking(e, e.inode[ROOTINO].addrs, 1 \div BSIZE) = 0
    BY <2>2, <1>9 DEF Lacking
  <2>4. PICK c \in Nat : c = Cardinality(FreeBlocks(e))
    BY <1>12, FreeFinite
  <2>5. ~(c < 0)
    BY SMT
  <2> QED BY <2>3, <2>4, <2>5
<1>14. Appended(e, ROOTINO, 1, disk)
  <2>1. PICK off \in Offset : off = 1
    BY <1>9
  <2>2. off = e.inode[ROOTINO].size /\ (off % BSIZE) + 1 <= BSIZE
        /\ ~(Cardinality(FreeBlocks(e)) < Lacking(e, e.inode[ROOTINO].addrs, off \div BSIZE))
    BY <2>1, <1>9, <1>12, <1>13
  <2>3. Appended(e, ROOTINO, 1, iappend(e, ROOTINO, s))
    BY <2>2, <1>7, <1>9, <1>12, RootInum, Iappend
  <2> QED BY <2>3, <1>4
<1>15. ImageDisk(disk) /\ disk.freeinode >= 2 /\ disk \in Disk
       /\ disk.inode[ROOTINO].size = disk.freeinode
  <2>1. ImageDisk(disk) /\ disk.freeinode = 2 /\ disk.inode[ROOTINO].size = 1 + 1
    BY <1>12, <1>14 DEF Appended
  <2>2. 2 >= 2 /\ 1 + 1 = 2
    BY SMT
  <2> QED BY <2>1, <2>2 DEF ImageDisk
<1>16. Unwritten \in Disk
  <2>1. Zeroes \in [0 .. BSIZE - 1 -> Nat]
    <3>1. 0 \in Nat
      BY SMT
    <3> QED BY <3>1 DEF Zeroes
  <2>2. 1 \in 1 .. NINODES + 1
    BY Constants, SMT
  <2> QED BY <2>1, <2>2, EmptyFields DEF Unwritten, Disk
<1>17. Types
  <2>1. 0 \in 0 .. NINODES /\ 0 \in 0 .. MAXFILE * BSIZE /\ 0 \in 0 .. MaxCalls /\ 0 \in 0 .. MaxCrashes
    BY Constants, Sizes, SMT
  <2>2. [ip |-> 0, off |-> 0] \in Handle
    BY <2>1 DEF Handle
  <2> QED BY <2>1, <2>2, <1>5, <1>15, <1>16, AbsentFields, NoCallFields DEF Types
<1>18. Image
  BY <1>5, <1>15 DEF Image, Idle
<1> QED BY <1>5, <1>17, <1>18, ImageInv

-----------------------------------------------------------------------------
\* Every step keeps the invariant.
LEMMA NextIInv ==
  ASSUME IInv, [Next]_vars
  PROVE  IInv'
<1>1. CASE MkfsFile
  BY <1>1, StepMkfsFile
<1>2. CASE MkfsCopy
  BY <1>2, StepMkfsCopy
<1>3. CASE MkfsFinish
  BY <1>3, StepMkfsFinish
<1>4. ASSUME NEW f \in File, Close(f) \/ \E i \in Inum : Open(f, i) PROVE IInv'
  BY <1>4, StepClose, StepOpen
<1>5. ASSUME NEW i \in Inum, Recycle(i) PROVE IInv'
  BY <1>5, StepRecycle
<1>6. ASSUME NEW p \in Proc, NEW f \in File, NEW n \in Size,
             Fileread(p, f, n) \/ \E v \in Val : Filewrite(p, f, n, v)
      PROVE  IInv'
  BY <1>6, StepFileread, StepFilewrite
<1>7. ASSUME NEW p \in Proc, WriteBegin(p) \/ WriteChunk(p) \/ WriteBlock(p) \/ WriteDone(p)
      PROVE  IInv'
  BY <1>7, StepWriteBegin, StepWriteChunk, StepWriteBlock, StepWriteDone
<1>8. ASSUME NEW p \in Proc, NEW i \in Inum, Unlink(p, i) PROVE IInv'
  BY <1>8, StepUnlink
<1>9. ASSUME NEW p \in Proc, TruncDirect(p) \/ TruncIndirect(p) \/ TruncDone(p) \/ UnlinkDone(p)
      PROVE  IInv'
  BY <1>9, StepTruncDirect, StepTruncIndirect, StepTruncDone, StepUnlinkDone
<1>10. CASE Crash
  BY <1>10, StepCrash
<1>11. CASE UNCHANGED vars
  BY <1>11, Stutter
<1> QED BY <1>1, <1>2, <1>3, <1>4, <1>5, <1>6, <1>7, <1>8, <1>9, <1>10, <1>11 DEF Next

\* The invariant holds in every state of the system, for all sizes of disk,
\* files, inodes and transactions and any number of processes.
THEOREM BlocksInvariant == Spec => []IInv
<1>1. Init => IInv
  BY InitIInv
<1>2. IInv /\ [Next]_vars => IInv'
  BY NextIInv
<1> QED BY <1>1, <1>2, PTL DEF Spec

\* A pair consists of its parts.
LEMMA Pair ==
  ASSUME NEW A, NEW B, NEW x \in A \X B
  PROVE  x = <<x[1], x[2]>>
BY SMT

\* A block that is named once has one use.
LEMMA Accounts ==
  ASSUME NEW d, NEW inodes, NEW gone, NEW H, Named(H, d.used),
         \A i \in Inum : H[i] = IF i \in gone THEN Pointers(inodes[i].addrs)
                                ELSE Entries(d, inodes[i].addrs)
  PROVE  Accounted(d, inodes, gone)
<1>1. ASSUME NEW b \in Block \ {0}, NEW x \in Inum \X Slot
      PROVE  x \in Uses(d, inodes, gone, b) <=> H[x[1]][x[2]] = b
  <2>1. x[1] \in Inum /\ x[2] \in Slot
    OBVIOUS
  <2>2. PICK i \in Inum : i = x[1]
    BY <2>1
  <2>3. PICK k \in Slot : k = x[2]
    BY <2>1
  <2>4. x \in Uses(d, inodes, gone, b) <=>
          (k <= NDIRECT \/ i \notin gone) /\ Entry(d, inodes[i].addrs, k) = b
    BY <2>2, <2>3 DEF Uses, Slot
  <2>5. CASE i \in gone
    <3>1. H[i][k] = IF k <= NDIRECT THEN inodes[i].addrs[k] ELSE 0
      BY <2>5 DEF Pointers
    <3>2. k <= NDIRECT => Entry(d, inodes[i].addrs, k) = inodes[i].addrs[k]
      BY DEF Entry
    <3> QED BY <3>1, <3>2, <2>2, <2>3, <2>4, <2>5
  <2>6. CASE i \notin gone
    <3>1. H[i] = Entries(d, inodes[i].addrs)
      BY <2>6
    <3>2. H[i][k] = Entry(d, inodes[i].addrs, k)
      BY <3>1 DEF Entries
    <3> QED BY <3>2, <2>2, <2>3, <2>4, <2>6
  <2> QED BY <2>5, <2>6
<1>2. ASSUME NEW b \in Block \ {0}, b >= nmeta /\ b \in d.used
      PROVE  Cardinality(Uses(d, inodes, gone, b)) = 1
  <2>1. PICK i \in Inum : \E k \in Slot : H[i][k] = b
    BY <1>2 DEF Named, NoLeak
  <2>2. PICK k \in Slot : H[i][k] = b
    BY <2>1
  <2>3. <<i, k>> \in Uses(d, inodes, gone, b)
    BY <1>1, <2>2
  <2>4. ASSUME NEW x \in Uses(d, inodes, gone, b) PROVE x = <<i, k>>
    <3>1. x \in Inum \X Slot
      BY DEF Uses, Slot
    <3>2. H[x[1]][x[2]] = b /\ b # 0
      BY <3>1, <1>1
    <3>3. PICK j \in Inum : j = x[1]
      BY <3>1
    <3>4. PICK l \in Slot : l = x[2]
      BY <3>1
    <3>5. j = i /\ l = k
      BY <2>2, <3>2, <3>3, <3>4, SMT DEF Named, Once
    <3>6. x = <<x[1], x[2]>>
      BY <3>1, Pair
    <3> QED BY <3>3, <3>4, <3>5, <3>6
  <2>5. Uses(d, inodes, gone, b) = {<<i, k>>}
    BY <2>3, <2>4
  <2> QED BY <2>5, FS_Singleton
<1>3. ASSUME NEW b \in Block \ {0}, ~(b >= nmeta /\ b \in d.used)
      PROVE  Cardinality(Uses(d, inodes, gone, b)) = 0
  <2>1. ASSUME NEW x \in Uses(d, inodes, gone, b) PROVE FALSE
    <3>1. x \in Inum \X Slot
      BY DEF Uses, Slot
    <3>2. H[x[1]][x[2]] = b /\ b # 0 /\ x[1] \in Inum /\ x[2] \in Slot
      BY <3>1, <1>1
    <3> QED BY <3>2, <1>3 DEF Named, Marked
  <2>2. Uses(d, inodes, gone, b) = {}
    BY <2>1
  <2> QED BY <2>2, FS_EmptySet
<1> QED BY <1>2, <1>3 DEF Accounted, Named

\* The types of the invariant are those of the module.
LEMMA TypesType ==
  ASSUME Types
  PROVE  TypeOK
<1>1. \A d \in {disk, durable} : d \in Disk
  BY DEF Types
<1>2. \A d \in {disk, durable} :
          /\ d.used \subseteq Block
          /\ d.content \in [Block -> [0 .. BSIZE - 1 -> Nat]]
          /\ d.inode \in [Inum -> [size : 0 .. MAXFILE * BSIZE, addrs : Addrs]]
          /\ d.freeinode \in 1 .. NINODES + 1
  BY <1>1, DiskFields DEF Inode
<1>3. DOMAIN call = Proc
  BY DEF Types
<1> QED BY <1>2, <1>3 DEF Types, TypeOK, Cached, Handle

\* Blocks that are named once are accounted for.
LEMMA InvAccounted ==
  ASSUME IInv
  PROVE  BlocksAreAccounted
<1>1. ASSUME panicked = "no"
      PROVE  Accounted(disk, Current, {call[p].ip : p \in {q \in Proc : call[q].at = "ind"}})
  <2> DEFINE gone == {call[p].ip : p \in {q \in Proc : call[q].at = "ind"}}
  <2>1. Named(Held, disk.used)
    BY <1>1 DEF IInv
  <2>2. ASSUME NEW i \in Inum
        PROVE  Held[i] = IF i \in gone THEN Pointers(Current[i].addrs)
                         ELSE Entries(disk, Current[i].addrs)
    <3>1. i \in gone <=> Gone(i)
      BY DEF Gone
    <3> QED BY <3>1 DEF Held
  <2> HIDE DEF gone
  <2>3. Accounted(disk, Current, gone)
    BY <2>1, <2>2, Accounts
  <2> QED BY <2>3 DEF gone
<1> QED BY <1>1, TypesType DEF IInv, BlocksAreAccounted

\* A file that is not locked holds what was written to it.
LEMMA InvContents ==
  ASSUME IInv
  PROVE  ContentsAsWritten
<1> SUFFICES ASSUME made, panicked = "no", NEW i \in Inum, icache[i].lock = 0
             PROVE  Contents(disk, Current[i]) = want[i]
  BY DEF ContentsAsWritten
<1>1. ~Locked(i)
  <2>1. 0 \notin Proc
    BY Constants, SMT DEF Proc
  <2> QED BY <2>1 DEF Locked
<1>2. Unlocked(i)
  BY <1>1 DEF IInv, InodeOK
<1> QED BY <1>2 DEF Unlocked, Written

\* The durable disk is accounted for and holds what was written.
LEMMA InvCrashSafe ==
  ASSUME IInv
  PROVE  CrashSafe
<1> SUFFICES ASSUME made
             PROVE  Accounted(durable, durable.inode, {})
                    /\ \A i \in Inum : Contents(durable, durable.inode[i]) = dwant[i]
  BY DEF CrashSafe
<1>1. Sound(durable, dwant)
  BY DEF IInv
<1>2. PICK H : H = [i \in Inum |-> Entries(durable, durable.inode[i].addrs)]
  OBVIOUS
<1>3. Named(H, durable.used)
  BY <1>1, <1>2 DEF Sound, Named0
<1>4. \A i \in Inum : H[i] = IF i \in {} THEN Pointers(durable.inode[i].addrs)
                             ELSE Entries(durable, durable.inode[i].addrs)
  BY <1>2
<1>5. Accounted(durable, durable.inode, {})
  BY <1>3, <1>4, Accounts
<1> QED BY <1>1, <1>5 DEF Sound, Written

\* itrunc() writes the bitmap blocks and the inode.
LEMMA TruncSmall ==
  ASSUME NEW c, c.wrote \subseteq bmapstart .. nmeta - 1
  PROVE  Small(c.wrote)
<1>1. c.wrote \subseteq bmapstart .. nmeta - 1
  OBVIOUS
<1>2. bmapstart \in Int /\ nmeta - 1 \in Int /\ nbitmap \in Nat /\ ~(bmapstart > nmeta - 1)
      /\ (nmeta - 1) - bmapstart + 1 = nbitmap
  BY Layout, SMT
<1>3. IsFiniteSet(bmapstart .. nmeta - 1) /\ Cardinality(bmapstart .. nmeta - 1) = nbitmap
  BY <1>2, FS_Interval
<1>4. Cardinality(bmapstart .. nmeta - 1) <= nbitmap
  BY <1>2, <1>3, SMT
<1>5. IsFiniteSet(c.wrote) /\ Cardinality(c.wrote) <= nbitmap
  BY <1>1, <1>2, <1>3, <1>4, CardSubset
<1>6. IsFiniteSet(c.wrote \cup {IBLOCK}) /\ Cardinality(c.wrote \cup {IBLOCK}) <= nbitmap + 1
  BY <1>2, <1>5, CardAdd
<1>7. Cardinality(c.wrote \cup {IBLOCK}) \in Nat
  BY <1>6, FS_CardinalityType
<1>8. Cardinality(c.wrote \cup {IBLOCK}) <= MAXOPBLOCKS
  BY <1>2, <1>6, <1>7, Constants, SMT
<1> QED BY <1>5, <1>8 DEF Small

\* Nothing but "balloc: out of blocks" stops the kernel.
LEMMA InvNoPanic ==
  ASSUME IInv
  PROVE  NoPanic
<1>1. panicked # "yes"
  BY DEF IInv, Types
<1>2. ASSUME NEW p \in Proc, InOp(p)
      PROVE  Cardinality(call[p].wrote \cup {IBLOCK}) <= MAXOPBLOCKS
  <2>1. CallOK(p) /\ call[p] \in Calls
    BY DEF IInv, Types
  <2>2. CASE IdleCall(call[p])
    <3>1. call[p].wrote \subseteq bmapstart .. nmeta - 1
      BY <2>2, <1>2 DEF InOp, IdleCall
    <3> QED BY <3>1, TruncSmall DEF Small
  <2>3. CASE ChunkCall(call[p], file[call[p].f])
    BY <2>3 DEF ChunkCall, Small
  <2>4. CASE WriteCall(p, call[p], file[call[p].f], icache[call[p].ip])
    <3>1. file[call[p].f] \in Handle /\ icache[call[p].ip] \in Cached
      BY <2>4 DEF WriteCall, IInv, Types
    <3>2. Small(call[p].wrote)
      BY <2>1, <2>4, <3>1, WriteSmall
    <3> QED BY <3>2 DEF Small
  <2>5. CASE TruncCall(p, call[p], icache[call[p].ip])
    <3>1. call[p].wrote \subseteq bmapstart .. nmeta - 1
      BY <2>5 DEF TruncCall
    <3> QED BY <3>1, TruncSmall DEF Small
  <2> QED BY <2>1, <2>2, <2>3, <2>4, <2>5 DEF CallOK
<1> QED BY <1>1, <1>2 DEF NoPanic

\* Every marked block belongs to the file system itself or to one file, at one
\* place, and no block of a file is free: balloc(), bfree(), bmap(), itrunc()
\* and mkfs neither leak nor share a block.
THEOREM BlocksAccounted == Spec => []BlocksAreAccounted
<1>1. IInv => BlocksAreAccounted
  BY InvAccounted
<1> QED BY <1>1, BlocksInvariant, PTL

\* A file that is not locked holds what the calls of filewrite() wrote to it.
THEOREM FilesAsWritten == Spec => []ContentsAsWritten
<1>1. IInv => ContentsAsWritten
  BY InvContents
<1> QED BY <1>1, BlocksInvariant, PTL

\* A machine that stops at any moment comes back with all blocks accounted for
\* and the contents of the last group of finished calls.
THEOREM DiskCrashSafe == Spec => []CrashSafe
<1>1. IInv => CrashSafe
  BY InvCrashSafe
<1> QED BY <1>1, BlocksInvariant, PTL

\* Only "balloc: out of blocks" stops the kernel, and no transaction writes more
\* than MAXOPBLOCKS blocks.
THEOREM BlocksNeverPanic == Spec => []NoPanic
<1>1. IInv => NoPanic
  BY InvNoPanic
<1> QED BY <1>1, BlocksInvariant, PTL
=============================================================================
