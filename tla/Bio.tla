-------------------------------- MODULE Bio ---------------------------------
(***************************************************************************)
(* bio.c, ide.c and sleeplock.c: the buffer cache, the disk request queue  *)
(* and the sleeplock of each buffer.                                       *)
(*                                                                         *)
(* A step is a section under bcache.lock, idelock or the spinlock inside a *)
(* sleeplock.  Sleeping and waking are explicit; nothing here looks at     *)
(* p->killed, so sleep() is one step with the section that calls it.       *)
(* The disk is external: it completes the command it was given and then    *)
(* interrupts.                                                             *)
(*                                                                         *)
(* A process may keep one buffer locked while it calls bread() for another *)
(* one: write_log() and install_trans() keep a block of the log, bmap()    *)
(* and itrunc() keep an indirect block.                                    *)
(***************************************************************************)
EXTENDS Integers, FiniteSets, Sequences

CONSTANTS
    Proc, Nobody,
    Block, NoBlock, \* disk blocks; what a buffer never used holds
    LogBlock,       \* the blocks of the log area
    Indirect,       \* the indirect blocks of files
    Buf, NoBuf,     \* bcache.buf
    Val, InitVal,   \* contents of a block
    MaxDirty,       \* buffers that the log keeps dirty at a time
    DiskErrors      \* whether reads may fail

ASSUME BioAssumption ==
    /\ IsFiniteSet(Proc) /\ IsFiniteSet(Buf)
    /\ Nobody \notin Proc /\ NoBlock \notin Block /\ NoBuf \notin Buf
    /\ LogBlock \subseteq Block /\ Indirect \subseteq Block \ LogBlock
    /\ InitVal \in Val
    /\ MaxDirty \in Nat
    /\ DiskErrors \in BOOLEAN

VARIABLES
    disk,     \* contents of the disk
    blockno, refcnt, data, \* fields of struct buf
    valid,    \* buffers with B_VALID
    dirty,    \* buffers with B_DIRTY
    owner,    \* process that holds b->lock
    lru,      \* the list of buffers, most recently used first
    idequeue, \* requests, the active one first
    active,   \* the command the disk executes
    pc,       \* where each process is
    blk, b,   \* its block and its buffer
    heldblk, held \* the block and the buffer it keeps meanwhile

bufVars == <<blockno, refcnt, data, valid, dirty, owner, lru>>
ideVars == <<disk, idequeue, active>>
heldVars == <<heldblk, held>>
vars == <<bufVars, ideVars, pc, blk, b, heldVars>>

NBUF == Cardinality(Buf)

\* The lists that have every buffer.
ListOfBuf == {list \in [1 .. NBUF -> Buf] :
                \A x \in Buf : \E i \in 1 .. NBUF : list[i] = x}

PC == {"idle", "acquiresleep", "locksleep", "bread", "iderw", "iosleep",
       "iowoken", "use", "brelse", "panic"}

NoCommand == [buf |-> NoBuf, write |-> FALSE, block |-> NoBlock,
              data |-> InitVal]
Command == [buf : Buf, write : BOOLEAN, block : Block, data : Val]

TypeOK ==
    /\ disk \in [Block -> Val]
    /\ blockno \in [Buf -> Block \cup {NoBlock}]
    /\ refcnt \in [Buf -> 0 .. Cardinality(Proc)]
    /\ data \in [Buf -> Val]
    /\ valid \subseteq Buf /\ dirty \subseteq Buf
    /\ owner \in [Buf -> Proc \cup {Nobody}]
    /\ lru \in ListOfBuf
    /\ idequeue \in Seq(Buf)
    /\ active \in Command \cup {NoCommand}
    /\ pc \in [Proc -> PC]
    /\ blk \in [Proc -> Block \cup {NoBlock}]
    /\ b \in [Proc -> Buf \cup {NoBuf}]
    /\ heldblk \in [Proc -> Block \cup {NoBlock}]
    /\ held \in [Proc -> Buf \cup {NoBuf}]

-----------------------------------------------------------------------------
\* After binit() and ideinit(); the order of the list is of no importance.
Init ==
    /\ disk = [k \in Block |-> InitVal]
    /\ blockno = [k \in Buf |-> NoBlock]
    /\ refcnt = [k \in Buf |-> 0]
    /\ data = [k \in Buf |-> InitVal]
    /\ valid = {}
    /\ dirty = {}
    /\ owner = [k \in Buf |-> Nobody]
    /\ lru \in ListOfBuf
    /\ idequeue = << >>
    /\ active = NoCommand
    /\ pc = [p \in Proc |-> "idle"]
    /\ blk = [p \in Proc |-> NoBlock]
    /\ b = [p \in Proc |-> NoBuf]
    /\ heldblk = [p \in Proc |-> NoBlock]
    /\ held = [p \in Proc |-> NoBuf]

Goto(p, place) == pc' = [pc EXCEPT ![p] = place]

-----------------------------------------------------------------------------
\* bget(), under bcache.lock.

Cached(k) == {x \in Buf : blockno[x] = k}

\* Mutant: bget() ignores B_DIRTY.
RecyclableDirty(x) == refcnt[x] = 0

\* Mutant: bget() ignores refcnt.
RecyclableUsed(x) == x \notin dirty

Recyclable(x) == refcnt[x] = 0 /\ x \notin dirty

\* Mutant: a process that keeps a block reads any other one.
InOrderAny(p, k) == held[p] # NoBuf => heldblk[p] # k

\* Where a block comes in the order in which log.c and fs.c lock buffers: a
\* block of the log before the home block it is a copy of, an indirect block
\* before the bitmap block and the data block that bmap() and itrunc() read.
Rank(k) == CASE k \in LogBlock -> 0
             [] k \in Indirect -> 1
             [] OTHER -> 2

\* The calls of bread() that a process makes while it keeps a block.
InOrder(p, k) == held[p] # NoBuf => Rank(heldblk[p]) < Rank(k)

\* The block has a buffer.
BgetHit(p, k) ==
    /\ pc[p] = "idle"
    /\ InOrder(p, k)
    /\ \E x \in Cached(k) :
          /\ refcnt' = [refcnt EXCEPT ![x] = @ + 1]
          /\ b' = [b EXCEPT ![p] = x]
    /\ blk' = [blk EXCEPT ![p] = k]
    /\ Goto(p, "acquiresleep")
    /\ UNCHANGED <<ideVars, blockno, data, valid, dirty, owner, lru, heldVars>>

\* It has none: recycle the least recently used buffer that is not in use.
BgetMiss(p, k) ==
    /\ pc[p] = "idle"
    /\ InOrder(p, k)
    /\ Cached(k) = {}
    /\ IF \E i \in 1 .. NBUF : Recyclable(lru[i])
       THEN \E i \in 1 .. NBUF :
               /\ Recyclable(lru[i])
               /\ \A j \in i + 1 .. NBUF : ~Recyclable(lru[j])
               /\ blockno' = [blockno EXCEPT ![lru[i]] = k]
               /\ valid' = valid \ {lru[i]}
               /\ refcnt' = [refcnt EXCEPT ![lru[i]] = 1]
               /\ b' = [b EXCEPT ![p] = lru[i]]
               /\ blk' = [blk EXCEPT ![p] = k]
               /\ Goto(p, "acquiresleep")
       ELSE /\ Goto(p, "panic")
            /\ UNCHANGED <<blockno, valid, refcnt, b, blk>>
    /\ UNCHANGED <<ideVars, data, dirty, owner, lru, heldVars>>

-----------------------------------------------------------------------------
\* sleeplock.c, for the lock of the buffer.

\* acquiresleep() takes the lock, or sleeps until it is released and tries
\* again.
Acquiresleep(p) ==
    /\ pc[p] = "acquiresleep"
    /\ IF owner[b[p]] = Nobody
       THEN /\ owner' = [owner EXCEPT ![b[p]] = p]
            /\ Goto(p, "bread")
       ELSE /\ Goto(p, "locksleep")
            /\ UNCHANGED owner
    /\ UNCHANGED <<ideVars, blockno, refcnt, data, valid, dirty, lru, blk, b,
                   heldVars>>

\* Mutant: releasesleep() wakes nobody.
ReleasesleepSilently(p, x, place) ==
    /\ owner' = [owner EXCEPT ![x] = Nobody]
    /\ Goto(p, place)

\* releasesleep() of x by p, which goes on at place.
Releasesleep(p, x, place) ==
    /\ owner' = [owner EXCEPT ![x] = Nobody]
    /\ pc' = [q \in Proc |-> CASE q = p -> place
                               [] q # p /\ pc[q] = "locksleep" /\ b[q] = x
                                    -> "acquiresleep"
                               [] OTHER -> pc[q]]

-----------------------------------------------------------------------------
\* bread(), bwrite() and brelse().

\* bread(): only a buffer that is not valid is read from the disk.
Bread(p) ==
    /\ pc[p] = "bread"
    /\ Goto(p, IF b[p] \in valid THEN "use" ELSE "iderw")
    /\ UNCHANGED <<bufVars, ideVars, blk, b, heldVars>>

\* The holder changes the data and calls bwrite(); v may be what it was.
Bwrite(p, v) ==
    /\ pc[p] = "use"
    /\ data' = [data EXCEPT ![b[p]] = v]
    /\ dirty' = dirty \cup {b[p]}
    /\ Goto(p, "iderw")
    /\ UNCHANGED <<ideVars, blockno, refcnt, valid, owner, lru, blk, b,
                   heldVars>>

\* The holder changes the data and calls log_write(), which sets B_DIRTY to
\* keep the buffer until a commit writes it.
LogWrite(p, v) ==
    /\ pc[p] = "use"
    /\ b[p] \in dirty \/ Cardinality(dirty) < MaxDirty
    /\ data' = [data EXCEPT ![b[p]] = v]
    /\ dirty' = dirty \cup {b[p]}
    /\ UNCHANGED <<ideVars, blockno, refcnt, valid, owner, lru, pc, blk, b,
                   heldVars>>

\* brelse(): releasesleep(), then the count and the list under bcache.lock.
BrelseUnlock(p) ==
    /\ pc[p] = "use"
    /\ Releasesleep(p, b[p], "brelse")
    /\ UNCHANGED <<ideVars, blockno, refcnt, data, valid, dirty, lru, blk, b,
                   heldVars>>

\* The list with its i-th buffer moved to the front.
MoveToFront(list, i) ==
    [k \in 1 .. NBUF |-> IF k = 1 THEN list[i]
                         ELSE IF k <= i THEN list[k - 1] ELSE list[k]]

\* The last user puts the buffer at the front of the list.
Brelse(p) ==
    /\ pc[p] = "brelse"
    /\ refcnt' = [refcnt EXCEPT ![b[p]] = @ - 1]
    /\ IF refcnt[b[p]] = 1
       THEN \E i \in 1 .. NBUF : lru[i] = b[p] /\ lru' = MoveToFront(lru, i)
       ELSE UNCHANGED lru
    /\ b' = [b EXCEPT ![p] = NoBuf]
    /\ blk' = [blk EXCEPT ![p] = NoBlock]
    /\ Goto(p, "idle")
    /\ UNCHANGED <<ideVars, blockno, data, valid, dirty, owner, heldVars>>

-----------------------------------------------------------------------------
\* Two buffers at a time.

\* A process that has a block of the log (write_log, install_trans) or an
\* indirect block (bmap, itrunc) goes on to read another one before brelse().
Keep(p) ==
    /\ pc[p] = "use"
    /\ held[p] = NoBuf
    /\ blk[p] \in LogBlock \cup Indirect
    /\ heldblk' = [heldblk EXCEPT ![p] = blk[p]]
    /\ held' = [held EXCEPT ![p] = b[p]]
    /\ blk' = [blk EXCEPT ![p] = NoBlock]
    /\ b' = [b EXCEPT ![p] = NoBuf]
    /\ Goto(p, "idle")
    /\ UNCHANGED <<bufVars, ideVars>>

\* After brelse() of the other one it comes back to the block it kept.
Back(p) ==
    /\ pc[p] = "idle"
    /\ held[p] # NoBuf
    /\ blk' = [blk EXCEPT ![p] = heldblk[p]]
    /\ b' = [b EXCEPT ![p] = held[p]]
    /\ heldblk' = [heldblk EXCEPT ![p] = NoBlock]
    /\ held' = [held EXCEPT ![p] = NoBuf]
    /\ Goto(p, "use")
    /\ UNCHANGED <<bufVars, ideVars>>

\* With both locked it turns to the first: write_log() calls bwrite(to), and
\* install_trans() brelse(lbuf), before they release the second.
Swap(p) ==
    /\ pc[p] = "use"
    /\ held[p] # NoBuf
    /\ blk' = [blk EXCEPT ![p] = heldblk[p]]
    /\ b' = [b EXCEPT ![p] = held[p]]
    /\ heldblk' = [heldblk EXCEPT ![p] = blk[p]]
    /\ held' = [held EXCEPT ![p] = b[p]]
    /\ UNCHANGED <<bufVars, ideVars, pc>>

-----------------------------------------------------------------------------
\* ide.c.

\* idestart(): the command for x; outsl() hands the data over at once.
Idestart(x) == [buf |-> x, write |-> x \in dirty, block |-> blockno[x],
                data |-> IF x \in dirty THEN data[x] ELSE InitVal]

\* iderw() up to its first sleep().
Iderw(p) ==
    /\ pc[p] = "iderw"
    /\ idequeue' = Append(idequeue, b[p])
    /\ active' = IF idequeue = << >> THEN Idestart(b[p]) ELSE active
    /\ Goto(p, "iosleep")
    /\ UNCHANGED <<bufVars, disk, blk, b, heldVars>>

\* iderw() after a wakeup: return if the request is done, else sleep again.
IderwWoken(p) ==
    /\ pc[p] = "iowoken"
    /\ Goto(p, IF b[p] \in valid \ dirty THEN "use" ELSE "iosleep")
    /\ UNCHANGED <<bufVars, ideVars, blk, b, heldVars>>

\* The disk ends the active command (ok: without an error), and ideintr()
\* completes the first request of the queue and starts the next.
Ideintr(ok) ==
    /\ active # NoCommand
    /\ ok \/ DiskErrors
    /\ LET x == Head(idequeue)
           rest == Tail(idequeue)
       IN  /\ disk' = IF active.write THEN [disk EXCEPT ![active.block] = active.data]
                                      ELSE disk
           /\ data' = IF x \notin dirty /\ ok
                      THEN [data EXCEPT ![x] = disk[active.block]] ELSE data
           /\ valid' = valid \cup {x}
           /\ dirty' = dirty \ {x}
           /\ pc' = [q \in Proc |-> IF pc[q] = "iosleep" /\ b[q] = x
                                    THEN "iowoken" ELSE pc[q]]
           /\ idequeue' = rest
           /\ active' = IF rest = << >> THEN NoCommand ELSE Idestart(Head(rest))
    /\ UNCHANGED <<blockno, refcnt, owner, lru, blk, b, heldVars>>

-----------------------------------------------------------------------------
Step(p) ==
    \/ Acquiresleep(p)
    \/ Bread(p)
    \/ BrelseUnlock(p)
    \/ Brelse(p)
    \/ Keep(p)
    \/ Back(p)
    \/ Swap(p)
    \/ Iderw(p)
    \/ IderwWoken(p)

Next ==
    \/ \E p \in Proc :
          \/ \E k \in Block : BgetHit(p, k) \/ BgetMiss(p, k)
          \/ \E v \in Val : Bwrite(p, v) \/ LogWrite(p, v)
          \/ Step(p)
    \/ \E ok \in BOOLEAN : Ideintr(ok)

Spec == Init /\ [][Next]_vars

-----------------------------------------------------------------------------
\* Properties.

\* What the next holder of the block finds in it.
BlockVal ==
    [k \in Block |-> IF \E x \in Cached(k) : x \in valid
                     THEN data[CHOOSE x \in Cached(k) : x \in valid]
                     ELSE disk[k]]

BlockOwner ==
    [k \in Block |-> IF \E x \in Cached(k) : owner[x] # Nobody
                     THEN owner[CHOOSE x \in Cached(k) : owner[x] # Nobody]
                     ELSE Nobody]

\* The cache, with its recycling and its queue of requests, implements one
\* lockable value per block: no write is lost, no stale block is read back.
\* "If B_VALID is not set, read buf from disk, set B_VALID" (iderw).
Store == INSTANCE BlockStore WITH val <- BlockVal, owner <- BlockOwner

BlockStoreSpec == Store!Spec

\* A process that uses a buffer, or keeps one while it reads another, has it
\* to itself ("Only one process at a time can use a buffer"), it is the only
\* buffer of the block, and it has not been recycled for another block in the
\* meantime; the LRU list has every buffer.
HolderHasBlock ==
    /\ TypeOK
    /\ \A p \in Proc :
          /\ pc[p] \in {"bread", "iderw", "iosleep", "iowoken", "use"} =>
                /\ owner[b[p]] = p
                /\ Cached(blk[p]) = {b[p]}
                /\ pc[p] = "use" => b[p] \in valid
          /\ held[p] # NoBuf =>
                /\ owner[held[p]] = p
                /\ Cached(heldblk[p]) = {held[p]}
                /\ held[p] \in valid

\* Buffers with a request in the queue.
Queued == {idequeue[i] : i \in 1 .. Len(idequeue)}

\* Nobody sleeps for something that will not happen: who waits for a lock
\* waits for its holder, who waits for the disk has a request in the queue,
\* and the disk is working on the first request.
SleepersWillWake ==
    /\ \A p \in Proc :
          /\ pc[p] = "locksleep" => owner[b[p]] # Nobody
          /\ pc[p] = "iosleep" => b[p] \in Queued
    /\ IF idequeue = << >> THEN active = NoCommand
                            ELSE active.buf = Head(idequeue)

\* p sleeps in acquiresleep() for a buffer that a process of S has locked.
WaitsFor(p, S) == pc[p] = "locksleep" /\ owner[b[p]] \in S

\* The locks of two buffers are always taken in the same order: no processes,
\* and no single one, sleep in a circle for buffers that they keep locked
\* themselves in bmap(), itrunc(), write_log() or install_trans().
NoBufferDeadlock ==
    \A S \in SUBSET Proc : S # {} => \E p \in S : ~WaitsFor(p, S)
=============================================================================
