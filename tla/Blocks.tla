------------------------------- MODULE Blocks -------------------------------
(***************************************************************************)
(* The contents of files: the block allocator, bmap(), itrunc(), readi()   *)
(* and writei() of fs.c, fileread() and filewrite() of file.c, and mkfs.c, *)
(* which makes the disk they start from.                                   *)
(*                                                                         *)
(* A step of a process handles one block of the file whose inode it has    *)
(* locked; the buffer of the bitmap is locked within a step only.  A unit  *)
(* of data has the size of a uint, so that an indirect block is a block    *)
(* like any other; a directory entry of the image takes one unit too.      *)
(* Transactions are those of AtomicDisk: what the processes have written   *)
(* becomes durable when the last of them calls end_op(), and a crash       *)
(* brings back what was durable.                                           *)
(***************************************************************************)
EXTENDS Integers, Sequences, FiniteSets, FiniteSetsExt

CONSTANTS
    NPROC, NFILE,   \* processes, open files
    NINODES,        \* inodes on the disk
    BSIZE, NDIRECT, \* units in a block, direct addresses of an inode
    FSSIZE, BPB,    \* blocks of the disk, bits in a bitmap block
    LOGSIZE, INODEBLOCKS,
    UPROGS,         \* how many files mkfs may be given
    MAXOPBLOCKS,    \* blocks that one transaction of a process may write
    Val,            \* data that is written
    Size,           \* lengths of reads and writes
    MaxImage,       \* bound: blocks that mkfs writes
    MaxCalls, MaxCrashes \* bounds: calls made, crashes

Proc == 1 .. NPROC
File == 1 .. NFILE
Inum == 1 .. NINODES
Block == 0 .. FSSIZE - 1
ROOTINO == 1
NINDIRECT == BSIZE
MAXFILE == NDIRECT + NINDIRECT

\* boot block | super block | log | inode blocks | free bit map | data blocks
nbitmap == FSSIZE \div BPB + 1
bmapstart == 2 + LOGSIZE + INODEBLOCKS
nmeta == bmapstart + nbitmap
BBLOCK(b) == b \div BPB + bmapstart
IBLOCK == 2 + LOGSIZE

\* n directory entries fill the blocks of their directory to the end.
FillsBlock(n) == n % BSIZE = 0

ASSUME BlocksAssumption ==
    /\ {NPROC, NFILE, NINODES, BSIZE, NDIRECT, BPB, LOGSIZE, INODEBLOCKS} \subseteq Nat \ {0}
    /\ BSIZE > 1
    /\ FSSIZE \in Nat /\ FSSIZE > nmeta
    /\ MAXOPBLOCKS \in Nat /\ MAXOPBLOCKS > 5
    /\ nbitmap < MAXOPBLOCKS \* the bitmap fits into a transaction of itrunc()
    /\ Size \subseteq Nat \ {0} /\ Val \subseteq Nat
    /\ {MaxImage, MaxCalls, MaxCrashes} \subseteq Nat
    /\ nmeta + MaxImage < FSSIZE \* the image fits on the disk
    \* mkfs adds a block to the size of the root directory also when the last
    \* one is full, and then has no block there: so "." and ".." and the files
    \* must not fill it.  The Makefile names 19 files, and 32 entries fit.
    /\ UPROGS \subseteq Nat /\ \A n \in UPROGS : ~FillsBlock(n + 2)

VARIABLES
    disk,     \* the blocks as the buffer cache shows them
    durable,  \* the blocks that a crash brings back
    made,     \* mkfs is done
    icache,   \* inodes in memory, with the process that has locked them
    file,     \* open files: inode (0: closed) and offset
    call,     \* what each process is doing
    panicked, \* "no", "full" (balloc: out of blocks) or "yes"
    want, dwant, \* history: the contents the files should have, durably
    ncalls, ncrashes

vars == <<disk, durable, made, icache, file, call, panicked, want, dwant, ncalls, ncrashes>>

Zeroes == [k \in 0 .. BSIZE - 1 |-> 0]
NoAddrs == [k \in 0 .. NDIRECT |-> 0]
EmptyInode == [size |-> 0, addrs |-> NoAddrs]
Absent == [valid |-> FALSE, lock |-> 0, size |-> 0, addrs |-> NoAddrs]
NoCall == [at |-> "none", f |-> 0, ip |-> 0, n |-> 0, n1 |-> 0, tot |-> 0, val |-> 0,
           wrote |-> {}]
Unwritten == [used |-> {}, content |-> [b \in Block |-> Zeroes],
              inode |-> [i \in Inum |-> EmptyInode], freeinode |-> 1]

Addrs == [0 .. NDIRECT -> Block]
TypeOK ==
    /\ \A d \in {disk, durable} :
          /\ d.used \subseteq Block
          /\ d.content \in [Block -> [0 .. BSIZE - 1 -> Nat]]
          /\ d.inode \in [Inum -> [size : 0 .. MAXFILE * BSIZE, addrs : Addrs]]
          /\ d.freeinode \in 1 .. NINODES + 1
    /\ made \in BOOLEAN
    /\ icache \in [Inum -> [valid : BOOLEAN, lock : 0 .. NPROC,
                            size : 0 .. MAXFILE * BSIZE, addrs : Addrs]]
    /\ file \in [File -> [ip : 0 .. NINODES, off : 0 .. MAXFILE * BSIZE]]
    /\ DOMAIN call = Proc
    /\ panicked \in {"no", "full", "yes"}
    /\ ncalls \in 0 .. MaxCalls /\ ncrashes \in 0 .. MaxCrashes

noHistory == UNCHANGED <<want, dwant>>
Running == made /\ panicked = "no"
-----------------------------------------------------------------------------
\* balloc(): the first block that is not marked, zeroed.
FreeBlocks(d) == Block \ d.used

\* Mutant: the block is not zeroed.
BallocDirty(d) == [d EXCEPT !.used = @ \cup {Min(FreeBlocks(d))}]

Balloc(d) ==
    LET b == Min(FreeBlocks(d))
    IN  [d EXCEPT !.used = @ \cup {b}, !.content[b] = Zeroes]

\* The address of block bn of a file, 0 if it has none.
Address(d, addrs, bn) ==
    IF bn < NDIRECT THEN addrs[bn]
    ELSE IF addrs[NDIRECT] = 0 THEN 0
    ELSE d.content[addrs[NDIRECT]][bn - NDIRECT]

\* The blocks that bmap() has to allocate.
Lacking(d, addrs, bn) ==
    IF Address(d, addrs, bn) # 0 THEN 0
    ELSE IF bn >= NDIRECT /\ addrs[NDIRECT] = 0 THEN 2 ELSE 1

\* bmap(): the disk, the addresses and the blocks written after it, when
\* there are enough free blocks.
bmap(d, addrs, bn) ==
    LET new == bn >= NDIRECT /\ addrs[NDIRECT] = 0
        d1 == IF new THEN Balloc(d) ELSE d
        a1 == IF new THEN [addrs EXCEPT ![NDIRECT] = Min(FreeBlocks(d))] ELSE addrs
        b == Min(FreeBlocks(d1))
        d2 == Balloc(d1)
        fresh == d2.used \ d.used
        allocated == fresh \cup {BBLOCK(x) : x \in fresh}
    IN  IF Lacking(d, addrs, bn) = 0
        THEN [d |-> d, addrs |-> addrs, wrote |-> {}]
        ELSE IF bn < NDIRECT
        THEN [d |-> d2, addrs |-> [a1 EXCEPT ![bn] = b], wrote |-> allocated]
        ELSE [d |-> [d2 EXCEPT !.content[a1[NDIRECT]][bn - NDIRECT] = b],
              addrs |-> a1, wrote |-> allocated \cup {a1[NDIRECT]}]

\* Mutant: the copy goes to the beginning of the block.
PutFirst(c, at, s) == [k \in 0 .. BSIZE - 1 |-> IF k < Len(s) THEN s[k + 1] ELSE c[k]]

\* The contents c of a block after the units of s are copied to position at.
Put(c, at, s) ==
    [k \in 0 .. BSIZE - 1 |-> IF k >= at /\ k < at + Len(s) THEN s[k - at + 1] ELSE c[k]]
-----------------------------------------------------------------------------
\* iappend() of data that does not cross the end of a block; block numbers
\* are given out in order.
iappend(d, i, s) ==
    LET off == d.inode[i].size
        m == bmap(d, d.inode[i].addrs, off \div BSIZE)
        b == Address(m.d, m.addrs, off \div BSIZE)
    IN  [m.d EXCEPT !.inode[i] = [size |-> off + Len(s), addrs |-> m.addrs],
                    !.content[b] = Put(@, off % BSIZE, s)]

\* mkfs before it writes the first entry: the blocks up to nmeta are taken;
\* the entries "." and ".." of the root directory follow.
Init ==
    /\ disk = LET d == [Unwritten EXCEPT !.used = 0 .. nmeta - 1, !.freeinode = 2]
              IN  iappend(iappend(d, ROOTINO, <<ROOTINO>>), ROOTINO, <<ROOTINO>>)
    /\ durable = Unwritten
    /\ made = FALSE
    /\ icache = [i \in Inum |-> Absent]
    /\ file = [f \in File |-> [ip |-> 0, off |-> 0]]
    /\ call = [p \in Proc |-> NoCall]
    /\ panicked = "no"
    /\ want = [i \in Inum |-> <<>>]
    /\ dwant = want
    /\ ncalls = 0 /\ ncrashes = 0

noKernel == UNCHANGED <<durable, icache, file, call, panicked, want, dwant, ncalls, ncrashes>>
ImageBlocks == Cardinality(disk.used) - nmeta

\* mkfs enters the next file it was given in the root directory, and
MkfsFile ==
    /\ ~made
    /\ \E n \in UPROGS : disk.freeinode - 2 < n
    /\ disk.freeinode <= NINODES /\ ImageBlocks < MaxImage
    /\ disk.inode[ROOTINO].size \div BSIZE < MAXFILE \* assert(fbn < MAXFILE)
    /\ disk' = [iappend(disk, ROOTINO, <<disk.freeinode>>) EXCEPT !.freeinode = @ + 1]
    /\ UNCHANGED made /\ noKernel

\* copies it, up to a block at a time; only the last one may be shorter.
MkfsCopy ==
    LET i == disk.freeinode - 1 IN
    /\ ~made
    /\ i > ROOTINO /\ ImageBlocks < MaxImage
    /\ disk.inode[i].size % BSIZE = 0
    /\ disk.inode[i].size \div BSIZE < MAXFILE \* assert(fbn < MAXFILE)
    /\ \E n \in 1 .. BSIZE, v \in Val : disk' = iappend(disk, i, [k \in 1 .. n |-> v])
    /\ UNCHANGED made /\ noKernel

\* What a file holds according to its inode; -1 where it has no block.
Contents(d, ino) ==
    [k \in 1 .. ino.size |->
        LET b == Address(d, ino.addrs, (k - 1) \div BSIZE)
        IN  IF b = 0 THEN -1 ELSE d.content[b][(k - 1) % BSIZE]]

\* After the last file the size of the root directory is rounded up; the bitmap
\* says that all blocks before freeblock are taken, which disk.used has
\* recorded already.
MkfsFinish ==
    LET off == (disk.inode[ROOTINO].size \div BSIZE + 1) * BSIZE
        d == [disk EXCEPT !.inode[ROOTINO].size = off]
        full(i) == Contents(disk, disk.inode[i])
    IN  /\ ~made
        /\ disk.freeinode - 2 \in UPROGS
        /\ made' = TRUE
        /\ disk' = d /\ durable' = d
        /\ want' = [i \in Inum |->
              IF i = ROOTINO
              THEN full(i) \o [k \in 1 .. off - disk.inode[i].size |-> 0] ELSE full(i)]
        /\ dwant' = want'
        /\ UNCHANGED <<icache, file, call, panicked, ncalls, ncrashes>>
-----------------------------------------------------------------------------
noCrash == UNCHANGED <<made, ncrashes>>

\* A file refers to i; an inode without contents is one that ialloc() has
\* given to create().
Open(f, i) ==
    /\ Running /\ ncalls < MaxCalls
    /\ file[f].ip = 0
    /\ file' = [file EXCEPT ![f] = [ip |-> i, off |-> 0]]
    /\ ncalls' = ncalls + 1
    /\ UNCHANGED <<disk, durable, icache, call, panicked>> /\ noHistory /\ noCrash

InUse(f) == \E p \in Proc : call[p].f = f

Close(f) ==
    /\ Running /\ file[f].ip # 0 /\ ~InUse(f)
    /\ file' = [file EXCEPT ![f] = [ip |-> 0, off |-> 0]]
    /\ UNCHANGED <<disk, durable, icache, call, panicked, ncalls>> /\ noHistory /\ noCrash

Referenced(i) == \E f \in File : file[f].ip = i
Busy(i) == \E p \in Proc : call[p].ip = i

\* The entry of an inode that nobody refers to is used for another inode.
Recycle(i) ==
    /\ Running /\ icache[i].valid /\ ~Referenced(i) /\ ~Busy(i)
    /\ icache' = [icache EXCEPT ![i] = Absent]
    /\ UNCHANGED <<disk, durable, file, call, panicked, ncalls>> /\ noHistory /\ noCrash

\* ilock() reads the inode unless it is valid.
ilock(p, i) ==
    [icache EXCEPT ![i] = [valid |-> TRUE, lock |-> p,
                           size |-> IF @.valid THEN @.size ELSE disk.inode[i].size,
                           addrs |-> IF @.valid THEN @.addrs ELSE disk.inode[i].addrs]]

InOp(p) == call[p].at \in {"ilock", "writei", "direct", "indirect", "ind", "end"}

\* Mutant: the log is committed while others are in a transaction.
end_opAlone(p, d, w) == durable' = d /\ dwant' = w

\* end_op() of p, after which the disk is d and the contents should be w.
end_op(p, d, w) ==
    IF \E q \in Proc \ {p} : InOp(q) THEN UNCHANGED <<durable, dwant>>
    ELSE durable' = d /\ dwant' = w
-----------------------------------------------------------------------------
\* The chunks of filewrite().
maxAll == (MAXOPBLOCKS \div 2) * BSIZE   \* mutant: no blocks set aside
max == ((MAXOPBLOCKS - 1 - 1 - 2) \div 2) * BSIZE

Filewrite(p, f, n, v) ==
    /\ Running /\ ncalls < MaxCalls
    /\ call[p].at = "none" /\ file[f].ip \notin {0, ROOTINO} \* sys_open: no directory
    /\ call' = [call EXCEPT ![p] = [NoCall EXCEPT !.at = "chunk", !.f = f, !.n = n, !.val = v]]
    /\ ncalls' = ncalls + 1
    /\ UNCHANGED <<disk, durable, icache, file, panicked>> /\ noHistory /\ noCrash

\* A chunk fits if writei() accepts it.
Accepts(ino, off, n) == off <= ino.size /\ off + n <= MAXFILE * BSIZE

\* begin_op() of a chunk.
WriteBegin(p) ==
    /\ Running /\ call[p].at = "chunk"
    /\ call' = [call EXCEPT ![p].at = "ilock"]
    /\ UNCHANGED <<disk, durable, icache, file, panicked, ncalls>> /\ noHistory /\ noCrash

\* ilock() and the checks of writei(); if they fail the call
\* returns -1, whatever was written by earlier chunks.
WriteChunk(p) ==
    LET i == file[call[p].f].ip
        n1 == IF call[p].n > max THEN max ELSE call[p].n
        c == ilock(p, i)
    IN  /\ Running /\ call[p].at = "ilock" /\ icache[i].lock = 0
        /\ IF Accepts(c[i], file[call[p].f].off, n1)
           THEN /\ icache' = c
                /\ call' = [call EXCEPT ![p].at = "writei", ![p].ip = i, ![p].n1 = n1,
                                        ![p].tot = 0, ![p].wrote = {}]
                /\ UNCHANGED <<durable, dwant>>
           ELSE /\ icache' = [c EXCEPT ![i].lock = 0]
                /\ call' = [call EXCEPT ![p] = NoCall]
                /\ end_op(p, disk, want)
        /\ UNCHANGED <<disk, file, panicked, want, ncalls>> /\ noCrash

\* The units of a chunk that go into the block at its current offset.
Part(p, off) ==
    LET m == BSIZE - ((off + call[p].tot) % BSIZE)
        left == call[p].n1 - call[p].tot
    IN  IF left < m THEN left ELSE m

\* The body of the loop of writei().
WriteBlock(p) ==
    LET i == call[p].ip
        off == file[call[p].f].off + call[p].tot
        bn == off \div BSIZE
        m == bmap(disk, icache[i].addrs, bn)
        b == Address(m.d, m.addrs, bn)
        part == Part(p, file[call[p].f].off)
        stop == IF bn >= MAXFILE THEN "yes"
                ELSE IF Cardinality(FreeBlocks(disk)) < Lacking(disk, icache[i].addrs, bn)
                THEN "full" ELSE "no"
    IN  /\ Running /\ call[p].at = "writei" /\ call[p].tot < call[p].n1
        /\ panicked' = stop
        /\ IF stop # "no" THEN UNCHANGED <<disk, icache, call>>
           ELSE /\ disk' = [m.d EXCEPT
                      !.content[b] = Put(@, off % BSIZE, [k \in 1 .. part |-> call[p].val])]
                /\ icache' = [icache EXCEPT ![i].addrs = m.addrs]
                /\ call' = [call EXCEPT ![p].tot = @ + part,
                                        ![p].wrote = @ \cup m.wrote \cup {b}]
        /\ UNCHANGED <<durable, file, ncalls>> /\ noHistory /\ noCrash

\* iupdate(): the inode in memory goes to the disk.
iupdate(d, c, i) == [d EXCEPT !.inode[i] = [size |-> c[i].size, addrs |-> c[i].addrs]]

\* The end of writei(), iunlock(), end_op().
WriteDone(p) ==
    LET i == call[p].ip
        f == call[p].f
        off == file[f].off + call[p].n1
        grows == off > icache[i].size
        c == IF grows THEN [icache EXCEPT ![i].size = off] ELSE icache
        d == IF grows THEN iupdate(disk, c, i) ELSE disk
        w == [want EXCEPT ![i] = [k \in 1 .. c[i].size |->
                IF k > file[f].off /\ k <= off THEN call[p].val ELSE @[k]]]
        left == call[p].n - call[p].n1
    IN  /\ Running /\ call[p].at = "writei" /\ call[p].tot = call[p].n1
        /\ icache' = [c EXCEPT ![i].lock = 0]
        /\ disk' = d
        /\ file' = [file EXCEPT ![f].off = off]
        /\ call' = [call EXCEPT ![p] = IF left = 0 THEN NoCall
                       ELSE [@ EXCEPT !.at = "chunk", !.ip = 0, !.n = left]]
        /\ want' = w
        /\ end_op(p, d, w)
        /\ UNCHANGED <<panicked, ncalls>> /\ noCrash

\* fileread(): readi() changes nothing but the offset.  A block that is not
\* there would be allocated by bmap(), outside of a transaction.
Fileread(p, f, n) ==
    LET i == file[f].ip
        c == ilock(p, i)
        left == c[i].size - file[f].off
        r == IF n > left THEN left ELSE n
        blocks == {(file[f].off + k) \div BSIZE : k \in 0 .. r - 1}
    IN  /\ Running /\ ncalls < MaxCalls
        /\ call[p].at = "none" /\ i # 0 /\ icache[i].lock = 0
        /\ file[f].off <= c[i].size
        /\ icache' = [c EXCEPT ![i].lock = 0]
        /\ file' = [file EXCEPT ![f].off = @ + r]
        /\ panicked' = IF \E bn \in blocks : Address(disk, c[i].addrs, bn) = 0
                       THEN "yes" ELSE "no"
        /\ ncalls' = ncalls + 1
        /\ UNCHANGED <<disk, durable, call>> /\ noHistory /\ noCrash
-----------------------------------------------------------------------------
\* bfree() of the blocks of S, which are not 0.
Bfree(d, S) == [d EXCEPT !.used = @ \ S]

\* iput() of the last reference to an inode without links: itrunc() begins.
Unlink(p, i) ==
    /\ Running /\ ncalls < MaxCalls
    /\ call[p].at = "none" /\ i # ROOTINO
    /\ icache[i].lock = 0 /\ ~Referenced(i)
    /\ icache' = ilock(p, i)
    /\ call' = [call EXCEPT ![p] = [NoCall EXCEPT !.at = "direct", !.ip = i]]
    /\ ncalls' = ncalls + 1
    /\ UNCHANGED <<disk, durable, file, panicked>> /\ noHistory /\ noCrash

\* The blocks of S are freed, "freeing free block" if one is free already.
Free(p, S, at) ==
    /\ Running
    /\ disk' = Bfree(disk, S)
    /\ panicked' = IF S \subseteq disk.used THEN "no" ELSE "yes"
    /\ call' = [call EXCEPT ![p].at = at, ![p].wrote = @ \cup {BBLOCK(b) : b \in S}]

TruncDirect(p) ==
    LET i == call[p].ip IN
    /\ call[p].at = "direct"
    /\ Free(p, {icache[i].addrs[k] : k \in 0 .. NDIRECT - 1} \ {0}, "indirect")
    /\ icache' = [icache EXCEPT ![i].addrs = [NoAddrs EXCEPT ![NDIRECT] = icache[i].addrs[NDIRECT]]]
    /\ UNCHANGED <<durable, file, ncalls>> /\ noHistory /\ noCrash

\* The blocks that the indirect block a lists.
Listed(d, a) == IF a = 0 THEN {} ELSE {d.content[a][k] : k \in 0 .. NINDIRECT - 1} \ {0}

TruncIndirect(p) ==
    /\ call[p].at = "indirect"
    /\ Free(p, Listed(disk, icache[call[p].ip].addrs[NDIRECT]), "ind")
    /\ UNCHANGED <<durable, icache, file, ncalls>> /\ noHistory /\ noCrash

\* The indirect block, the size, iupdate(); the inode is not valid any more,
\* and unlocked.
TruncDone(p) ==
    LET i == call[p].ip
        a == icache[i].addrs[NDIRECT]
        d == [Bfree(disk, {a} \ {0}) EXCEPT !.inode[i] = EmptyInode]
    IN  /\ Running /\ call[p].at = "ind"
        /\ disk' = d
        /\ panicked' = IF a = 0 \/ a \in disk.used THEN "no" ELSE "yes"
        /\ icache' = [icache EXCEPT ![i] = Absent]
        /\ call' = [call EXCEPT ![p] = [NoCall EXCEPT
              !.at = "end", !.wrote = call[p].wrote \cup {BBLOCK(b) : b \in {a} \ {0}}]]
        /\ want' = [want EXCEPT ![i] = <<>>]
        /\ UNCHANGED <<durable, dwant, file, ncalls>> /\ noCrash

\* The call that let go of the inode ends its transaction.
UnlinkDone(p) ==
    /\ Running /\ call[p].at = "end"
    /\ call' = [call EXCEPT ![p] = NoCall]
    /\ end_op(p, disk, want)
    /\ UNCHANGED <<disk, icache, file, panicked, want, ncalls>> /\ noCrash

\* The machine stops, also in a panic, and starts again from what the log
\* made durable.
Crash ==
    /\ made /\ ncrashes < MaxCrashes
    /\ disk' = durable /\ want' = dwant
    /\ icache' = [i \in Inum |-> Absent]
    /\ file' = [f \in File |-> [ip |-> 0, off |-> 0]]
    /\ call' = [p \in Proc |-> NoCall]
    /\ panicked' = "no"
    /\ ncrashes' = ncrashes + 1
    /\ UNCHANGED <<durable, dwant, made, ncalls>>

Next ==
    \/ MkfsFile \/ MkfsCopy \/ MkfsFinish
    \/ \E f \in File : Close(f) \/ \E i \in Inum : Open(f, i)
    \/ \E i \in Inum : Recycle(i)
    \/ \E p \in Proc :
          \/ \E f \in File, n \in Size : Fileread(p, f, n) \/ \E v \in Val : Filewrite(p, f, n, v)
          \/ WriteBegin(p) \/ WriteChunk(p) \/ WriteBlock(p) \/ WriteDone(p)
          \/ \E i \in Inum : Unlink(p, i)
          \/ TruncDirect(p) \/ TruncIndirect(p) \/ TruncDone(p) \/ UnlinkDone(p)
    \/ Crash

Spec == Init /\ [][Next]_vars
-----------------------------------------------------------------------------
\* Entry k of an inode: its addresses, then those in its indirect block.
Entry(d, addrs, k) ==
    IF k <= NDIRECT THEN addrs[k]
    ELSE IF addrs[NDIRECT] = 0 THEN 0
    ELSE d.content[addrs[NDIRECT]][k - NDIRECT - 1]

\* The places that name block b, when the inodes are those of inodes and the
\* blocks listed by the inodes in gone have been freed.
Uses(d, inodes, gone, b) ==
    {x \in Inum \X (0 .. MAXFILE) :
        /\ x[2] <= NDIRECT \/ x[1] \notin gone
        /\ Entry(d, inodes[x[1]].addrs, x[2]) = b}

Accounted(d, inodes, gone) ==
    /\ 0 .. nmeta - 1 \subseteq d.used
    /\ \A b \in Block \ {0} :
          Cardinality(Uses(d, inodes, gone, b)) = IF b >= nmeta /\ b \in d.used THEN 1 ELSE 0

Current == [i \in Inum |-> IF icache[i].valid
                           THEN [size |-> icache[i].size, addrs |-> icache[i].addrs]
                           ELSE disk.inode[i]]

\* The bitmap marks the blocks of the file system itself and those that belong
\* to files, and each of these belongs to one file, at one place: balloc(),
\* bfree(), bmap() and itrunc() neither leak nor share a block, and mkfs
\* starts with a disk for which this holds.
BlocksAreAccounted ==
    /\ TypeOK
    /\ panicked = "no" =>
          Accounted(disk, Current, {call[p].ip : p \in {q \in Proc : call[q].at = "ind"}})

\* A file that is not being written has the contents that were written to it,
\* also after its inode has been read from the disk again (writei, readi).
ContentsAsWritten ==
    made /\ panicked = "no" =>
        \A i \in Inum : icache[i].lock = 0 => Contents(disk, Current[i]) = want[i]

\* A machine that stops at any moment, also in a panic, comes back with a disk
\* on which all blocks are accounted for and every file has the contents of
\* the last group of finished calls.
CrashSafe ==
    made => /\ Accounted(durable, durable.inode, {})
            /\ \A i \in Inum : Contents(durable, durable.inode[i]) = dwant[i]

\* Of the panics only "balloc: out of blocks" is reached: not "bmap: out of
\* range", "freeing free block" or an allocation outside of a transaction, nor
\* that of log_write(): "write a few blocks at a time to avoid exceeding the
\* maximum log transaction size" (file.c) keeps a transaction within
\* MAXOPBLOCKS blocks.
NoPanic ==
    /\ panicked # "yes"
    /\ \A p \in Proc : InOp(p) => Cardinality(call[p].wrote \cup {IBLOCK}) <= MAXOPBLOCKS
=============================================================================
