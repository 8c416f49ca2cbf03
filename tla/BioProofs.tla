----------------------------- MODULE BioProofs ------------------------------
(***************************************************************************)
(* The buffer cache is safe for every number of processes, blocks and      *)
(* buffers: its invariants, and that it implements BlockStore while the    *)
(* disk makes no error.                                                    *)
(***************************************************************************)
EXTENDS Bio, FiniteSetTheorems, TLAPS

Holding == {"bread", "iderw", "iosleep", "iowoken", "use"}
InIderw == {"iderw", "iosleep"}

Users(x) == {p \in Proc : b[p] = x \/ held[p] = x}

\* p has the lock of x.
Holds(p, x) == (pc[p] \in Holding /\ b[p] = x) \/ held[p] = x

\* A process has a buffer, for the block it asked for, from bget() to brelse(),
\* and refcnt counts such processes, with those that keep the buffer.
Counted ==
    /\ \A p \in Proc : b[p] = NoBuf <=> pc[p] \in {"idle", "panic"}
    /\ \A p \in Proc : b[p] # NoBuf => blk[p] \in Block /\ blockno[b[p]] = blk[p]
    /\ \A x \in Buf : refcnt[x] = Cardinality(Users(x))

\* A block has one buffer.
OneBuffer ==
    \A x, y \in Buf : blockno[x] = blockno[y] /\ blockno[x] # NoBlock => x = y

\* The lock of a buffer belongs to the process that is inside bread(),
\* bwrite(), uses the buffer or keeps it, and who sleeps for it waits for that
\* one.
Locked ==
    /\ \A p \in Proc : pc[p] \in Holding => owner[b[p]] = p
    /\ \A x \in Buf : owner[x] # Nobody => Holds(owner[x], x)
    /\ \A p \in Proc : pc[p] = "locksleep" => owner[b[p]] # Nobody

\* A buffer in use is valid; one that iderw() works on has something to
\* transfer, and has nothing left when its process is woken.
FlagsAt(place, x) ==
    /\ place = "use" => x \in valid
    /\ place \in InIderw => x \in dirty \/ x \notin valid
    /\ place = "iowoken" => x \in valid \ dirty

Flags ==
    /\ dirty \subseteq valid
    /\ \A x \in valid : blockno[x] # NoBlock
    /\ \A p \in Proc : FlagsAt(pc[p], b[p])

\* The requests in the queue are those of the processes asleep in iderw(),
\* one each, and the disk has been given the first.
Queue ==
    /\ \A i, j \in 1 .. Len(idequeue) : idequeue[i] = idequeue[j] => i = j
    /\ \A p \in Proc : pc[p] = "iosleep" => b[p] \in Queued
    /\ \A x \in Queued : \E p \in Proc : pc[p] = "iosleep" /\ b[p] = x
    /\ active = IF idequeue = << >> THEN NoCommand ELSE Idestart(Head(idequeue))

\* A buffer that is valid and not dirty has what the disk has.
Current ==
    DiskErrors \/ \A x \in valid \ dirty : data[x] = disk[blockno[x]]

\* A buffer that a process keeps while it reads another one is locked, valid
\* and for the block it was asked for, and the other one is for a block that
\* comes later in the order.
Waiting == {"acquiresleep", "locksleep"}

HeldAt(p) ==
    /\ held[p] \in Buf /\ held[p] # b[p]
    /\ heldblk[p] \in Block /\ blockno[held[p]] = heldblk[p]
    /\ owner[held[p]] = p /\ held[p] \in valid
    /\ pc[p] \in Waiting => Rank(heldblk[p]) < Rank(blk[p])

HeldBlock == \A p \in Proc : held[p] # NoBuf => HeldAt(p)

IInv ==
    /\ TypeOK
    /\ Counted
    /\ OneBuffer
    /\ Locked
    /\ Flags
    /\ Queue
    /\ Current
    /\ HeldBlock

\* The prover of the leaves that name none.
USE Zenon

-----------------------------------------------------------------------------
\* Facts about one state.

\* Processes with a buffer have one of the cache.
LEMMA HasBuf ==
  ASSUME IInv, NEW p \in Proc, pc[p] \notin {"idle", "panic"}
  PROVE  /\ b[p] \in Buf /\ blk[p] \in Block /\ blockno[b[p]] = blk[p]
         /\ b[p] # NoBuf
BY BioAssumption DEF IInv, TypeOK, Counted

\* A set of processes is finite.
LEMMA ProcSets ==
  ASSUME NEW S \in SUBSET Proc
  PROVE  IsFiniteSet(S) /\ Cardinality(S) \in 0 .. Cardinality(Proc)
<1>1. IsFiniteSet(S) /\ Cardinality(S) <= Cardinality(Proc)
  BY BioAssumption, FS_Subset
<1>2. Cardinality(S) \in Nat /\ Cardinality(Proc) \in Nat
  BY <1>1, BioAssumption, FS_CardinalityType
<1> QED
  BY <1>1, <1>2, SMT

\* A buffer that some process has is not recycled.
LEMMA UsedIsCounted ==
  ASSUME IInv, NEW x \in Buf
  PROVE  /\ refcnt[x] = 0 <=> Users(x) = {}
         /\ owner[x] # Nobody => owner[x] \in Proc /\ refcnt[x] # 0
<1>1. IsFiniteSet(Users(x))
  BY ProcSets DEF Users
<1>2. refcnt[x] = 0 <=> Users(x) = {}
  BY <1>1, FS_EmptySet DEF IInv, Counted
<1>3. owner[x] # Nobody => owner[x] \in Proc /\ owner[x] \in Users(x)
  <2>1. owner[x] \in Proc \cup {Nobody}
    BY DEF IInv, TypeOK
  <2> QED
    BY <2>1 DEF IInv, Locked, Users, Holds
<1> QED
  BY <1>2, <1>3

\* A buffer in the queue belongs to a process asleep in iderw(), which has it
\* locked.
LEMMA QueuedBusy ==
  ASSUME IInv, NEW x \in Queued
  PROVE  /\ x \in Buf /\ refcnt[x] # 0
         /\ \E q \in Proc : pc[q] = "iosleep" /\ b[q] = x /\ owner[x] = q
<1>1. PICK q \in Proc : pc[q] = "iosleep" /\ b[q] = x
  BY DEF IInv, Queue
<1>2. owner[x] = q
  BY <1>1 DEF IInv, Locked, Holding
<1>3. x \in Buf
  BY <1>1, HasBuf
<1>4. q # Nobody
  BY BioAssumption
<1> QED
  BY <1>1, <1>2, <1>3, <1>4, UsedIsCounted

\* The holder of a lock is not the process whose request is queued.
LEMMA HolderNotQueued ==
  ASSUME IInv, NEW p \in Proc, pc[p] \in Holding \ {"iosleep"}
  PROVE  b[p] \notin Queued
<1> SUFFICES ASSUME b[p] \in Queued PROVE FALSE
  OBVIOUS
<1>1. owner[b[p]] = p
  BY DEF IInv, Locked
<1>2. PICK q \in Proc : pc[q] = "iosleep" /\ owner[b[p]] = q
  BY QueuedBusy
<1> QED
  BY <1>1, <1>2

\* A buffer has one holder.
LEMMA OneHolder ==
  ASSUME IInv, NEW p \in Proc, NEW q \in Proc \ {p},
         pc[p] \in Holding, pc[q] \in Holding
  PROVE  b[q] # b[p]
BY DEF IInv, Locked

LEMMA HeadQueued ==
  ASSUME idequeue \in Seq(Buf), idequeue # << >>
  PROVE  Head(idequeue) \in Queued /\ Head(idequeue) = idequeue[1]
BY SMT DEF Queued

-----------------------------------------------------------------------------
\* What keeps the conjuncts of the invariant.

LEMMA GotoType ==
  ASSUME IInv, NEW p \in Proc, NEW place \in PC, pc' = [pc EXCEPT ![p] = place]
  PROVE  /\ pc' \in [Proc -> PC] /\ pc'[p] = place
         /\ \A q \in Proc \ {p} : pc'[q] = pc[q]
BY DEF IInv, TypeOK

LEMMA CountedKept ==
  ASSUME IInv, UNCHANGED <<b, blk, blockno, refcnt, held>>,
         \A q \in Proc : pc'[q] \in {"idle", "panic"} <=> pc[q] \in {"idle", "panic"}
  PROVE  Counted'
BY DEF IInv, Counted, Users

LEMMA LockedKept ==
  ASSUME IInv, UNCHANGED <<owner, held>>,
         \A q \in Proc : /\ pc'[q] \in Holding <=> pc[q] \in Holding
                         /\ pc'[q] = "locksleep" => pc[q] = "locksleep"
                         /\ pc[q] \in Holding \cup {"locksleep"} => b'[q] = b[q]
  PROVE  Locked'
<1> USE DEF IInv, Locked
<1>1. ASSUME NEW x \in Buf, owner[x] # Nobody
      PROVE  Holds(owner[x], x)'
  <2>1. owner[x] \in Proc
    BY <1>1, SMT DEF TypeOK
  <2> QED
    BY <1>1, <2>1 DEF Holds
<1>2. ASSUME NEW q \in Proc
      PROVE  /\ pc'[q] \in Holding => owner[b'[q]] = q
             /\ pc'[q] = "locksleep" => owner[b'[q]] # Nobody
  OBVIOUS
<1> QED
  BY <1>1, <1>2

LEMMA QueueKept ==
  ASSUME IInv, UNCHANGED <<idequeue, active>>,
         \A q \in Proc : /\ pc'[q] = "iosleep" <=> pc[q] = "iosleep"
                         /\ pc[q] = "iosleep" => b'[q] = b[q],
         \A x \in Queued : /\ x \in dirty' <=> x \in dirty
                           /\ blockno'[x] = blockno[x] /\ data'[x] = data[x]
  PROVE  Queue'
<1> USE DEF IInv, Queue
<1>1. Queued' = Queued
  BY SMT DEF Queued
<1>2. idequeue # << >> => Idestart(Head(idequeue))' = Idestart(Head(idequeue))
  <2>1. idequeue # << >> => Head(idequeue) \in Queued
    BY HeadQueued DEF TypeOK
  <2> QED
    BY <2>1, SMT DEF Idestart
<1>3. ASSUME NEW x \in Queued
      PROVE  \E q \in Proc : pc'[q] = "iosleep" /\ b'[q] = x
  <2>1. PICK q \in Proc : pc[q] = "iosleep" /\ b[q] = x
    BY <1>3
  <2> QED
    BY <2>1
<1> QED
  BY <1>1, <1>2, <1>3

LEMMA FlagsNext ==
  ASSUME dirty' \subseteq valid', \A x \in valid' : blockno'[x] # NoBlock,
         \A q \in Proc :
            /\ pc'[q] = "use" => b'[q] \in valid'
            /\ pc'[q] \in InIderw => b'[q] \in dirty' \/ b'[q] \notin valid'
            /\ pc'[q] = "iowoken" => b'[q] \in valid' \ dirty'
  PROVE  Flags'
BY DEF Flags, FlagsAt

\* Two buffers that are locked by different processes, or one of which its
\* process keeps, are different.
LEMMA KeptAlone ==
  ASSUME IInv, NEW p \in Proc, NEW q \in Proc, held[q] # NoBuf,
         pc[p] \in Holding
  PROVE  held[q] # b[p]
<1>1. HeldAt(q)
  BY DEF IInv, HeldBlock
<1>2. owner[b[p]] = p
  BY DEF IInv, Locked
<1>3. CASE q = p
  BY <1>1, <1>3 DEF HeldAt
<1>4. CASE q # p
  BY <1>1, <1>2, <1>4 DEF HeldAt
<1> QED
  BY <1>3, <1>4

LEMMA HeldKept ==
  ASSUME IInv, UNCHANGED <<held, heldblk>>,
         \A q \in Proc : held[q] # NoBuf =>
            /\ held[q] # b'[q] /\ blockno'[held[q]] = blockno[held[q]]
            /\ owner'[held[q]] = owner[held[q]]
            /\ held[q] \in valid => held[q] \in valid'
            /\ pc'[q] \in Waiting =>
                  \/ pc[q] \in Waiting /\ blk'[q] = blk[q]
                  \/ Rank(heldblk[q]) < Rank(blk'[q])
  PROVE  HeldBlock'
<1> SUFFICES ASSUME NEW q \in Proc, held[q] # NoBuf
             PROVE  HeldAt(q)'
  BY DEF HeldBlock
<1>1. HeldAt(q)
  BY DEF IInv, HeldBlock
<1>2. pc'[q] \in Waiting => Rank(heldblk[q]) < Rank(blk'[q])
  BY <1>1 DEF HeldAt
<1> QED
  BY <1>1, <1>2 DEF HeldAt, Rank

-----------------------------------------------------------------------------
\* bget().

LEMMA StepBgetHit ==
  ASSUME IInv, NEW p \in Proc, NEW k \in Block, BgetHit(p, k)
  PROVE  IInv'
<1> USE DEF IInv
<1>a. PICK x \in Buf : /\ blockno[x] = k
                       /\ refcnt' = [refcnt EXCEPT ![x] = @ + 1]
                       /\ b' = [b EXCEPT ![p] = x]
  BY DEF BgetHit, Cached
<1>b. /\ pc[p] = "idle" /\ pc' = [pc EXCEPT ![p] = "acquiresleep"]
      /\ blk' = [blk EXCEPT ![p] = k]
      /\ UNCHANGED <<disk, idequeue, active, blockno, data, valid, dirty, owner, lru,
                     held, heldblk>>
  BY DEF BgetHit, Goto, ideVars, heldVars
<1>c. /\ pc'[p] = "acquiresleep" /\ b'[p] = x /\ blk'[p] = k
      /\ \A q \in Proc \ {p} : pc'[q] = pc[q] /\ b'[q] = b[q] /\ blk'[q] = blk[q]
  BY <1>a, <1>b DEF TypeOK
<1>d. b[p] = NoBuf /\ x # NoBuf
  BY <1>b, BioAssumption DEF Counted
<1>h. held[p] # NoBuf => Rank(heldblk[p]) < Rank(blk'[p])
  BY <1>c DEF BgetHit, InOrder
<1>g. held[p] # x
  <2> SUFFICES ASSUME held[p] = x PROVE FALSE
    OBVIOUS
  <2>1. heldblk[p] = k /\ Rank(k) < Rank(k)
    BY <1>a, <1>c, <1>d, <1>h DEF HeldBlock, HeldAt
  <2>2. Rank(k) \in 0 .. 2
    BY SMT DEF Rank
  <2> QED
    BY <2>1, <2>2, SMT
<1>e. /\ \A y \in Buf \ {x} : Users(y)' = Users(y) /\ refcnt'[y] = refcnt[y]
      /\ refcnt'[x] = refcnt[x] + 1
  <2>1. \A y \in Buf \ {x} : Users(y)' = Users(y)
    BY <1>b, <1>c, <1>d, BioAssumption DEF Users
  <2> QED
    BY <1>a, <2>1 DEF TypeOK
<1>f. Cardinality(Users(x)') = refcnt[x] + 1
  <2>1. Users(x)' = Users(x) \cup {p} /\ p \notin Users(x)
    BY <1>b, <1>c, <1>d, <1>g DEF Users
  <2>2. IsFiniteSet(Users(x))
    BY ProcSets DEF Users
  <2>3. Cardinality(Users(x) \cup {p}) = Cardinality(Users(x)) + 1
    BY <2>1, <2>2, FS_AddElement
  <2> QED
    BY <2>1, <2>3 DEF Counted
<1>1. TypeOK'
  <2>1. refcnt'[x] \in 0 .. Cardinality(Proc)
    <3>1. Users(x)' \in SUBSET Proc
      BY DEF Users
    <3> QED
      BY <1>e, <1>f, <3>1, ProcSets
  <2>2. refcnt' \in [Buf -> 0 .. Cardinality(Proc)]
    BY <1>a, <2>1 DEF TypeOK
  <2>3. /\ pc' \in [Proc -> PC] /\ b' \in [Proc -> Buf \cup {NoBuf}]
        /\ blk' \in [Proc -> Block \cup {NoBlock}]
    BY <1>a, <1>b, SMT DEF TypeOK, PC
  <2> QED
    BY <1>b, <2>2, <2>3 DEF TypeOK
<1>2. Counted'
  <2>1. \A q \in Proc : /\ b'[q] = NoBuf <=> pc'[q] \in {"idle", "panic"}
                        /\ b'[q] # NoBuf => blk'[q] \in Block /\ blockno[b'[q]] = blk'[q]
    <3>1. b'[p] # NoBuf /\ blk'[p] \in Block /\ blockno[b'[p]] = blk'[p]
      BY <1>a, <1>c, <1>d
    <3> QED
      BY <1>c, <3>1 DEF Counted
  <2>2. \A y \in Buf : refcnt'[y] = Cardinality(Users(y)')
    BY <1>e, <1>f DEF Counted
  <2> QED
    BY <1>b, <2>1, <2>2 DEF Counted
<1>3. OneBuffer'
  BY <1>b DEF OneBuffer
<1>4. Locked'
  BY <1>b, <1>c, LockedKept DEF Holding
<1>5. Flags'
  <2>1. \A q \in Proc : FlagsAt(pc'[q], b'[q])
    BY <1>c DEF Flags, FlagsAt, InIderw
  <2> QED
    BY <1>b, <2>1 DEF Flags, FlagsAt
<1>6. Queue'
  BY <1>b, <1>c, QueueKept
<1>7. Current'
  BY <1>b DEF Current
<1>8. HeldBlock'
  <2>1. \A q \in Proc : held[q] # NoBuf => HeldAt(q)
    BY DEF HeldBlock
  <2>2. \A q \in Proc : held[q] # NoBuf => held[q] # b'[q]
    BY <1>c, <1>g, <2>1 DEF HeldAt
  <2>3. \A q \in Proc : pc'[q] \in Waiting =>
           (pc[q] \in Waiting /\ blk'[q] = blk[q]) \/ q = p
    BY <1>c
  <2> QED
    BY <1>b, <1>c, <1>h, <2>2, <2>3, HeldKept
<1> QED
  BY <1>1, <1>2, <1>3, <1>4, <1>5, <1>6, <1>7, <1>8

\* The buffer that bget() recycles had no user, so that no other buffer's
\* bookkeeping is touched.
LEMMA StepBgetRecycle ==
  ASSUME IInv, NEW p \in Proc, NEW k \in Block, NEW x \in Buf,
         pc[p] = "idle", InOrder(p, k), Cached(k) = {}, Recyclable(x),
         blockno' = [blockno EXCEPT ![x] = k], valid' = valid \ {x},
         refcnt' = [refcnt EXCEPT ![x] = 1], b' = [b EXCEPT ![p] = x],
         blk' = [blk EXCEPT ![p] = k], Goto(p, "acquiresleep"),
         UNCHANGED <<ideVars, data, dirty, owner, lru, heldVars>>
  PROVE  IInv'
<1> USE DEF IInv
<1>b. UNCHANGED <<disk, idequeue, active, data, dirty, owner, lru, held, heldblk>>
  BY DEF ideVars, heldVars
<1>c. /\ pc'[p] = "acquiresleep" /\ b'[p] = x /\ blk'[p] = k
      /\ \A q \in Proc \ {p} : pc'[q] = pc[q] /\ b'[q] = b[q] /\ blk'[q] = blk[q]
  BY DEF TypeOK, Goto
<1>d. b[p] = NoBuf /\ x # NoBuf
  BY BioAssumption DEF Counted
<1>e. /\ \A y \in Buf \ {x} : blockno'[y] = blockno[y] /\ refcnt'[y] = refcnt[y]
      /\ blockno'[x] = k /\ refcnt'[x] = 1
  BY DEF TypeOK
<1>f. Users(x) = {} /\ x \notin dirty /\ owner[x] = Nobody /\ x \notin Queued
  BY UsedIsCounted, QueuedBusy DEF Recyclable
<1>g. \A q \in Proc : b[q] # x /\ held[q] # x
  BY <1>f DEF Users
<1>h. held[p] # NoBuf => Rank(heldblk[p]) < Rank(blk'[p])
  BY <1>c DEF InOrder
<1>1. TypeOK'
  <2>1. 1 \in 0 .. Cardinality(Proc)
    <3>1. {p} \in SUBSET Proc /\ Cardinality({p}) = 1
      BY FS_Singleton
    <3> QED
      BY <3>1, ProcSets
  <2>2. /\ refcnt' \in [Buf -> 0 .. Cardinality(Proc)]
        /\ blockno' \in [Buf -> Block \cup {NoBlock}]
    BY <2>1, SMT DEF TypeOK
  <2>3. /\ pc' \in [Proc -> PC] /\ b' \in [Proc -> Buf \cup {NoBuf}]
        /\ blk' \in [Proc -> Block \cup {NoBlock}]
    BY SMT DEF TypeOK, PC, Goto
  <2>4. valid' \subseteq Buf
    BY DEF TypeOK
  <2> QED
    BY <1>b, <2>2, <2>3, <2>4 DEF TypeOK
<1>2. Counted'
  <2>1. ASSUME NEW q \in Proc
        PROVE  /\ b'[q] = NoBuf <=> pc'[q] \in {"idle", "panic"}
               /\ b'[q] # NoBuf => blk'[q] \in Block /\ blockno'[b'[q]] = blk'[q]
    <3>1. CASE q = p
      BY <1>c, <1>d, <1>e, <3>1
    <3>2. CASE q # p
      <4>1. b[q] # NoBuf => b[q] \in Buf
        BY DEF TypeOK
      <4>2. b[q] # NoBuf => blockno'[b[q]] = blockno[b[q]]
        BY <1>e, <1>g, <4>1
      <4> QED
        BY <1>c, <3>2, <4>2 DEF Counted
    <3> QED
      BY <3>1, <3>2
  <2>2. ASSUME NEW y \in Buf PROVE refcnt'[y] = Cardinality(Users(y)')
    <3>1. CASE y = x
      <4>1. Users(x)' = {p}
        BY <1>b, <1>c, <1>g DEF Users
      <4> QED
        BY <1>e, <3>1, <4>1, FS_Singleton
    <3>2. CASE y # x
      <4>1. Users(y)' = Users(y)
        BY <1>b, <1>c, <1>d, <3>2, BioAssumption DEF Users
      <4> QED
        BY <1>e, <3>2, <4>1 DEF Counted
    <3> QED
      BY <3>1, <3>2
  <2> QED
    BY <2>1, <2>2 DEF Counted
<1>3. OneBuffer'
  <2>1. \A y \in Buf : blockno[y] # k
    BY DEF Cached
  <2> QED
    BY <1>e, <2>1, SMT DEF OneBuffer
<1>4. Locked'
  BY <1>b, <1>c, LockedKept DEF Holding
<1>5. Flags'
  <2>1. ASSUME NEW q \in Proc PROVE FlagsAt(pc[q], b[q])'
    <3>1. CASE q = p
      BY <1>c, <3>1 DEF FlagsAt, InIderw
    <3>2. CASE q # p
      <4>1. pc'[q] = pc[q] /\ b'[q] = b[q] /\ b[q] # x /\ FlagsAt(pc[q], b[q])
        BY <1>c, <1>g, <3>2 DEF Flags
      <4> QED
        BY <1>b, <4>1, SMT DEF FlagsAt
    <3> QED
      BY <3>1, <3>2
  <2>2. dirty' \subseteq valid'
    BY <1>b, <1>f DEF Flags
  <2>3. \A y \in valid' : blockno'[y] # NoBlock
    BY <1>e DEF Flags, TypeOK
  <2> QED
    BY <2>1, <2>2, <2>3 DEF Flags
<1>6. Queue'
  <2>1. \A y \in Queued : blockno'[y] = blockno[y]
    BY <1>e, <1>f, QueuedBusy
  <2> QED
    BY <1>b, <1>c, <2>1, QueueKept
<1>7. Current'
  <2>1. \A y \in valid' : y \in valid /\ blockno'[y] = blockno[y]
    BY <1>e DEF TypeOK
  <2> QED
    BY <1>b, <2>1 DEF Current
<1>8. HeldBlock'
  <2>1. \A q \in Proc : held[q] # NoBuf => held[q] \in Buf \ {x} /\ held[q] # b[q]
    BY <1>g DEF HeldBlock, HeldAt
  <2>2. \A q \in Proc : held[q] # NoBuf => held[q] # b'[q]
    BY <1>c, <2>1
  <2>3. \A q \in Proc : pc'[q] \in Waiting =>
           (pc[q] \in Waiting /\ blk'[q] = blk[q]) \/ q = p
    BY <1>c
  <2>4. \A q \in Proc : held[q] # NoBuf =>
           /\ blockno'[held[q]] = blockno[held[q]]
           /\ held[q] \in valid => held[q] \in valid'
    BY <1>e, <2>1
  <2> QED
    BY <1>b, <1>c, <1>h, <2>2, <2>3, <2>4, HeldKept
<1> QED
  BY <1>1, <1>2, <1>3, <1>4, <1>5, <1>6, <1>7, <1>8

LEMMA StepBgetMiss ==
  ASSUME IInv, NEW p \in Proc, NEW k \in Block, BgetMiss(p, k)
  PROVE  IInv'
<1> USE DEF IInv
<1>1. /\ pc[p] = "idle" /\ InOrder(p, k) /\ Cached(k) = {}
      /\ UNCHANGED <<ideVars, data, dirty, owner, lru, heldVars>>
  BY DEF BgetMiss
<1>2. CASE \E i \in 1 .. NBUF : Recyclable(lru[i])
  <2>1. PICK i \in 1 .. NBUF :
          /\ Recyclable(lru[i])
          /\ blockno' = [blockno EXCEPT ![lru[i]] = k]
          /\ valid' = valid \ {lru[i]}
          /\ refcnt' = [refcnt EXCEPT ![lru[i]] = 1]
          /\ b' = [b EXCEPT ![p] = lru[i]]
          /\ blk' = [blk EXCEPT ![p] = k]
          /\ Goto(p, "acquiresleep")
    BY <1>2 DEF BgetMiss
  <2>2. PICK x \in Buf : x = lru[i]
    BY DEF TypeOK, ListOfBuf
  <2> QED
    BY <1>1, <2>1, <2>2, StepBgetRecycle
<1>3. CASE \A i \in 1 .. NBUF : ~Recyclable(lru[i])
  <2>1. /\ pc' = [pc EXCEPT ![p] = "panic"]
        /\ UNCHANGED <<disk, idequeue, active, blockno, refcnt, data, valid, dirty,
                       owner, lru, blk, b, held, heldblk>>
    BY <1>1, <1>3 DEF BgetMiss, Goto, ideVars, heldVars
  <2>2. pc'[p] = "panic" /\ \A q \in Proc \ {p} : pc'[q] = pc[q]
    BY <2>1 DEF TypeOK
  <2>3. TypeOK'
    <3>1. pc' \in [Proc -> PC]
      BY <2>1, GotoType DEF PC
    <3> QED
      BY <2>1, <3>1 DEF TypeOK
  <2>4. Counted' /\ Locked' /\ Queue'
    BY <1>1, <2>1, <2>2, CountedKept, LockedKept, QueueKept DEF Holding
  <2>5. OneBuffer' /\ Current'
    BY <2>1 DEF OneBuffer, Current
  <2>6. Flags'
    <3>1. \A q \in Proc : FlagsAt(pc'[q], b[q])
      BY <2>2 DEF Flags, FlagsAt, InIderw
    <3> QED
      BY <2>1, <3>1 DEF Flags, FlagsAt
  <2>7. HeldBlock'
    <3>1. \A q \in Proc : pc'[q] \in Waiting => pc[q] \in Waiting
      BY <2>2 DEF Waiting
    <3>2. \A q \in Proc : held[q] # NoBuf => held[q] # b[q]
      BY DEF HeldBlock, HeldAt
    <3> QED
      BY <2>1, <3>1, <3>2, HeldKept
  <2> QED
    BY <2>3, <2>4, <2>5, <2>6, <2>7
<1> QED
  BY <1>2, <1>3

-----------------------------------------------------------------------------
\* The lock of a buffer.

LEMMA StepAcquiresleep ==
  ASSUME IInv, NEW p \in Proc, Acquiresleep(p)
  PROVE  IInv'
<1> USE DEF IInv
<1> DEFINE x == b[p]
<1>a. /\ pc[p] = "acquiresleep"
      /\ UNCHANGED <<disk, idequeue, active, blockno, refcnt, data, valid, dirty,
                     lru, blk, b, held, heldblk>>
  BY DEF Acquiresleep, ideVars, heldVars
<1>b. x \in Buf
  BY <1>a, HasBuf
<1>c. \/ /\ owner[x] = Nobody /\ owner' = [owner EXCEPT ![x] = p]
         /\ pc' = [pc EXCEPT ![p] = "bread"]
      \/ /\ owner[x] # Nobody /\ owner' = owner
         /\ pc' = [pc EXCEPT ![p] = "locksleep"]
  BY DEF Acquiresleep, Goto
<1>d. /\ \A q \in Proc \ {p} : pc'[q] = pc[q]
      /\ pc'[p] \in {"bread", "locksleep"}
  BY <1>c DEF TypeOK
<1>1. TypeOK'
  <2>1. owner' \in [Buf -> Proc \cup {Nobody}]
    BY <1>b, <1>c, SMT DEF TypeOK
  <2>2. pc' \in [Proc -> PC]
    BY <1>c, GotoType DEF PC
  <2> QED
    BY <1>a, <2>1, <2>2 DEF TypeOK
<1>2. Counted'
  BY <1>a, <1>d, CountedKept
<1>3. OneBuffer' /\ Current'
  BY <1>a DEF OneBuffer, Current
<1>4. Locked'
  <2>1. CASE owner[x] = Nobody
    <3>1. /\ owner'[x] = p /\ pc'[p] = "bread"
          /\ \A y \in Buf \ {x} : owner'[y] = owner[y]
      BY <1>b, <1>c, <2>1 DEF TypeOK
    <3>2. p # Nobody
      BY BioAssumption
    <3>3. ASSUME NEW y \in Buf, owner'[y] # Nobody
          PROVE  Holds(owner[y], y)'
      <4>1. CASE y = x
        BY <1>a, <3>1, <4>1 DEF Holding, Holds
      <4>2. CASE y # x
        <5>1. owner'[y] = owner[y]
          BY <3>1, <4>2
        <5>2. PICK q \in Proc : q = owner[y]
          BY <3>3, <5>1, UsedIsCounted
        <5>3. Holds(q, y)
          BY <3>3, <5>1, <5>2 DEF Locked
        <5>4. pc[q] \in Holding => pc'[q] = pc[q]
          BY <1>a, <1>d DEF Holding
        <5> QED
          BY <1>a, <5>1, <5>2, <5>3, <5>4 DEF Holds
      <4> QED
        BY <4>1, <4>2
    <3>4. ASSUME NEW q \in Proc
          PROVE  /\ pc'[q] \in Holding => owner'[b[q]] = q
                 /\ pc'[q] = "locksleep" => owner'[b[q]] # Nobody
      <4>1. CASE q = p
        BY <3>1, <4>1
      <4>2. CASE q # p
        <5>1. pc[q] \in Holding \cup {"locksleep"} => b[q] \in Buf
          BY HasBuf DEF Holding
        <5>2. pc[q] \in Holding \cup {"locksleep"} => owner[b[q]] # Nobody
          <6>1. q # Nobody
            BY BioAssumption
          <6> QED
            BY <6>1 DEF Locked
        <5> QED
          BY <1>d, <2>1, <3>1, <4>2, <5>1, <5>2 DEF Locked
      <4> QED
        BY <4>1, <4>2
    <3> QED
      BY <1>a, <3>3, <3>4 DEF Locked
  <2>2. CASE owner[x] # Nobody
    <3>1. owner' = owner /\ pc'[p] = "locksleep"
      BY <1>c, <2>2 DEF TypeOK
    <3>2. ASSUME NEW y \in Buf, owner[y] # Nobody
          PROVE  Holds(owner[y], y)'
      <4>1. PICK q \in Proc : q = owner[y]
        BY <3>2, UsedIsCounted
      <4>2. Holds(q, y)
        BY <3>2, <4>1 DEF Locked
      <4>3. pc[q] \in Holding => pc'[q] = pc[q]
        BY <1>a, <1>d DEF Holding
      <4> QED
        BY <1>a, <3>1, <4>1, <4>2, <4>3 DEF Holds
    <3>3. ASSUME NEW q \in Proc
          PROVE  /\ pc'[q] \in Holding => owner[b[q]] = q
                 /\ pc'[q] = "locksleep" => owner[b[q]] # Nobody
      BY <1>d, <2>2, <3>1 DEF Locked, Holding
    <3> QED
      BY <1>a, <3>1, <3>2, <3>3 DEF Locked
  <2> QED
    BY <2>1, <2>2
<1>5. Flags'
  <2>1. \A q \in Proc : FlagsAt(pc'[q], b[q])
    BY <1>d DEF Flags, FlagsAt, InIderw
  <2> QED
    BY <1>a, <2>1 DEF Flags, FlagsAt
<1>6. Queue'
  BY <1>a, <1>d, QueueKept
<1>7. HeldBlock'
  <2>1. \A q \in Proc : held[q] # NoBuf =>
           held[q] # b[q] /\ owner'[held[q]] = owner[held[q]]
    <3> SUFFICES ASSUME NEW q \in Proc, held[q] # NoBuf
                 PROVE  held[q] # b[q] /\ owner'[held[q]] = owner[held[q]]
      OBVIOUS
    <3>1. held[q] \in Buf /\ held[q] # b[q] /\ owner[held[q]] # Nobody
      BY BioAssumption DEF HeldBlock, HeldAt
    <3> QED
      BY <1>b, <1>c, <3>1 DEF TypeOK
  <2>2. \A q \in Proc : pc'[q] \in Waiting => pc[q] \in Waiting
    BY <1>a, <1>d DEF Waiting
  <2> QED
    BY <1>a, <2>1, <2>2, HeldKept
<1> QED
  BY <1>1, <1>2, <1>3, <1>4, <1>5, <1>6, <1>7

\* releasesleep() wakes those who sleep for the lock.
LEMMA StepBrelseUnlock ==
  ASSUME IInv, NEW p \in Proc, BrelseUnlock(p)
  PROVE  IInv'
<1> USE DEF IInv
<1> DEFINE x == b[p]
<1>a. /\ pc[p] = "use"
      /\ UNCHANGED <<disk, idequeue, active, blockno, refcnt, data, valid, dirty,
                     lru, blk, b, held, heldblk>>
      /\ owner' = [owner EXCEPT ![x] = Nobody]
  BY DEF BrelseUnlock, Releasesleep, ideVars, heldVars
<1>b. x \in Buf /\ owner[x] = p
  BY <1>a, HasBuf DEF Locked, Holding
<1>c. /\ pc'[p] = "brelse"
      /\ \A q \in Proc \ {p} : IF pc[q] = "locksleep" /\ b[q] = x
                               THEN pc'[q] = "acquiresleep" ELSE pc'[q] = pc[q]
      /\ pc' = [q \in Proc |-> pc'[q]]
  BY SMT DEF BrelseUnlock, Releasesleep
<1>d. owner'[x] = Nobody /\ \A y \in Buf \ {x} : owner'[y] = owner[y]
  BY <1>a, <1>b DEF TypeOK
<1>1. TypeOK'
  <2>1. owner' \in [Buf -> Proc \cup {Nobody}]
    BY <1>a, <1>b, SMT DEF TypeOK
  <2>2. pc' \in [Proc -> PC]
    <3>1. \A q \in Proc : pc'[q] \in PC
      BY <1>c DEF TypeOK, PC
    <3> QED
      BY <1>c, <3>1
  <2> QED
    BY <1>a, <2>1, <2>2 DEF TypeOK
<1>2. Counted'
  BY <1>a, <1>c, CountedKept
<1>3. OneBuffer' /\ Current'
  BY <1>a DEF OneBuffer, Current
<1>4. Locked'
  <2>1. ASSUME NEW y \in Buf, owner'[y] # Nobody
        PROVE  Holds(owner[y], y)'
    <3>1. y # x /\ owner'[y] = owner[y]
      BY <1>d, <2>1
    <3>2. PICK q \in Proc : q = owner[y]
      BY <2>1, <3>1, UsedIsCounted
    <3>3. Holds(q, y)
      BY <2>1, <3>1, <3>2 DEF Locked
    <3>4. pc[q] \in Holding /\ b[q] = y => pc'[q] = pc[q]
      BY <1>c, <3>1 DEF Holding
    <3> QED
      BY <1>a, <3>1, <3>2, <3>3, <3>4 DEF Holds
  <2>2. ASSUME NEW q \in Proc
        PROVE  /\ pc'[q] \in Holding => owner'[b[q]] = q
               /\ pc'[q] = "locksleep" => owner'[b[q]] # Nobody
    <3>1. CASE q = p
      BY <1>c, <3>1 DEF Holding
    <3>2. CASE q # p
      <4>1. pc'[q] \in Holding \cup {"locksleep"} => pc'[q] = pc[q]
        BY <1>c, <3>2 DEF Holding
      <4>2. pc[q] \in Holding \cup {"locksleep"} => b[q] \in Buf
        BY HasBuf DEF Holding
      <4>3. pc'[q] \in Holding => b[q] # x
        BY <1>b, <3>2, <4>1 DEF Locked
      <4>4. pc'[q] = "locksleep" => b[q] # x
        BY <1>c, <3>2
      <4>5. pc'[q] \in Holding => owner'[b[q]] = q
        <5> HAVE pc'[q] \in Holding
        <5>1. pc[q] \in Holding /\ b[q] \in Buf \ {x}
          BY <4>1, <4>2, <4>3
        <5> QED
          BY <1>d, <5>1 DEF Locked
      <4>6. pc'[q] = "locksleep" => owner'[b[q]] # Nobody
        <5> HAVE pc'[q] = "locksleep"
        <5>1. pc[q] = "locksleep" /\ b[q] \in Buf \ {x}
          BY <4>1, <4>2, <4>4
        <5>2. owner'[b[q]] = owner[b[q]]
          BY <1>d, <5>1
        <5> QED
          BY <5>1, <5>2 DEF Locked
      <4> QED
        BY <4>5, <4>6
    <3> QED
      BY <3>1, <3>2
  <2> QED
    BY <1>a, <2>1, <2>2 DEF Locked
<1>5. Flags'
  <2>1. \A q \in Proc : FlagsAt(pc'[q], b[q])
    BY <1>c DEF Flags, FlagsAt, InIderw
  <2> QED
    BY <1>a, <2>1 DEF Flags, FlagsAt
<1>6. Queue'
  BY <1>a, <1>c, QueueKept
<1>7. HeldBlock'
  <2>1. \A q \in Proc : held[q] # NoBuf =>
           held[q] # b[q] /\ owner'[held[q]] = owner[held[q]]
    <3> SUFFICES ASSUME NEW q \in Proc, held[q] # NoBuf
                 PROVE  held[q] # b[q] /\ owner'[held[q]] = owner[held[q]]
      OBVIOUS
    <3>1. held[q] \in Buf /\ held[q] # b[q]
      BY DEF HeldBlock, HeldAt
    <3>2. held[q] # x
      BY <1>a, KeptAlone DEF Holding
    <3> QED
      BY <1>d, <3>1, <3>2
  <2>2. \A q \in Proc : pc'[q] \in Waiting => pc[q] \in Waiting
    BY <1>c DEF Waiting
  <2> QED
    BY <1>a, <2>1, <2>2, HeldKept
<1> QED
  BY <1>1, <1>2, <1>3, <1>4, <1>5, <1>6, <1>7

-----------------------------------------------------------------------------
\* bread(), bwrite(), log_write() and brelse().

\* A step after which a process that has the lock goes on elsewhere, and
\* nothing else changes.
LEMMA StepMove ==
  ASSUME IInv, NEW p \in Proc, NEW place \in PC, pc' = [pc EXCEPT ![p] = place],
         pc[p] \in Holding \ {"iosleep"}, place \in Holding \ {"iosleep"},
         FlagsAt(place, b[p]),
         UNCHANGED <<bufVars, ideVars, blk, b, heldVars>>
  PROVE  IInv'
<1> USE DEF IInv
<1>a. UNCHANGED <<disk, idequeue, active, blockno, refcnt, data, valid, dirty,
                  owner, lru, blk, b, held, heldblk>>
  BY DEF bufVars, ideVars, heldVars
<1>b. /\ pc' \in [Proc -> PC] /\ pc'[p] = place
      /\ \A q \in Proc \ {p} : pc'[q] = pc[q]
  BY GotoType
<1>1. TypeOK'
  BY <1>a, <1>b DEF TypeOK
<1>2. Counted'
  BY <1>a, <1>b, CountedKept DEF Holding
<1>3. OneBuffer' /\ Current'
  BY <1>a DEF OneBuffer, Current
<1>4. Locked'
  BY <1>a, <1>b, LockedKept DEF Holding
<1>5. Flags'
  <2>1. \A q \in Proc : FlagsAt(pc'[q], b[q])
    BY <1>b DEF Flags
  <2> QED
    BY <1>a, <2>1 DEF Flags, FlagsAt
<1>6. Queue'
  BY <1>a, <1>b, QueueKept
<1>7. HeldBlock'
  <2>1. \A q \in Proc : pc'[q] \in Waiting => pc[q] \in Waiting
    BY <1>b DEF Waiting, Holding
  <2>2. \A q \in Proc : held[q] # NoBuf => held[q] # b[q]
    BY DEF HeldBlock, HeldAt
  <2> QED
    BY <1>a, <2>1, <2>2, HeldKept
<1> QED
  BY <1>1, <1>2, <1>3, <1>4, <1>5, <1>6, <1>7

LEMMA StepBread ==
  ASSUME IInv, NEW p \in Proc, Bread(p)
  PROVE  IInv'
<1>1. /\ pc[p] = "bread"
      /\ pc' = [pc EXCEPT ![p] = IF b[p] \in valid THEN "use" ELSE "iderw"]
      /\ UNCHANGED <<bufVars, ideVars, blk, b, heldVars>>
  BY DEF Bread, Goto
<1>2. CASE b[p] \in valid
  <2>1. FlagsAt("use", b[p])
    BY <1>2 DEF FlagsAt, InIderw
  <2>2. "use" \in PC /\ "use" \in Holding \ {"iosleep"} /\ pc[p] \in Holding \ {"iosleep"}
    BY <1>1 DEF PC, Holding
  <2> QED
    BY <1>1, <1>2, <2>1, <2>2, StepMove
<1>3. CASE b[p] \notin valid
  <2>1. FlagsAt("iderw", b[p])
    BY <1>3 DEF FlagsAt, InIderw
  <2>2. "iderw" \in PC /\ "iderw" \in Holding \ {"iosleep"}
        /\ pc[p] \in Holding \ {"iosleep"}
    BY <1>1 DEF PC, Holding
  <2> QED
    BY <1>1, <1>3, <2>1, <2>2, StepMove
<1> QED
  BY <1>2, <1>3

\* The holder changes the data and the buffer becomes dirty; bwrite() goes on
\* in iderw().
LEMMA StepStore ==
  ASSUME IInv, NEW p \in Proc, NEW v \in Val, NEW place \in {"use", "iderw"},
         pc[p] = "use", pc' = [pc EXCEPT ![p] = place],
         data' = [data EXCEPT ![b[p]] = v], dirty' = dirty \cup {b[p]},
         UNCHANGED <<ideVars, blockno, refcnt, valid, owner, lru, blk, b, heldVars>>
  PROVE  IInv'
<1> USE DEF IInv
<1> DEFINE x == b[p]
<1>a. UNCHANGED <<disk, idequeue, active, blockno, refcnt, valid, owner, lru, blk, b,
                  held, heldblk>>
  BY DEF ideVars, heldVars
<1>b. /\ pc' \in [Proc -> PC] /\ pc'[p] = place
      /\ \A q \in Proc \ {p} : pc'[q] = pc[q]
  BY GotoType DEF PC
<1>c. x \in Buf /\ x \in valid /\ x \notin Queued /\ pc[p] \in Holding
  BY HasBuf, HolderNotQueued DEF Flags, FlagsAt, Holding
<1>d. data'[x] = v /\ \A y \in Buf \ {x} : data'[y] = data[y]
  BY <1>c DEF TypeOK
<1>1. TypeOK'
  <2>1. data' \in [Buf -> Val] /\ dirty' \subseteq Buf
    BY <1>c DEF TypeOK
  <2> QED
    BY <1>a, <1>b, <2>1 DEF TypeOK
<1>2. Counted'
  BY <1>a, <1>b, CountedKept
<1>3. OneBuffer'
  BY <1>a DEF OneBuffer
<1>4. Locked'
  BY <1>a, <1>b, LockedKept DEF Holding
<1>5. Flags'
  <2>1. ASSUME NEW q \in Proc
        PROVE  /\ pc'[q] = "use" => b[q] \in valid
               /\ pc'[q] \in InIderw => b[q] \in dirty' \/ b[q] \notin valid
               /\ pc'[q] = "iowoken" => b[q] \in valid \ dirty'
    <3>1. CASE q = p
      BY <1>b, <1>c, <3>1
    <3>2. CASE q # p
      <4>1. pc[q] = "iowoken" => b[q] # x
        BY <1>c, <3>2, OneHolder DEF Holding
      <4>2. FlagsAt(pc[q], b[q]) /\ pc'[q] = pc[q]
        BY <1>b, <3>2 DEF Flags
      <4> QED
        BY <4>1, <4>2 DEF FlagsAt
    <3> QED
      BY <3>1, <3>2
  <2>2. dirty' \subseteq valid
    BY <1>c DEF Flags
  <2>3. \A y \in valid : blockno[y] # NoBlock
    BY DEF Flags
  <2> QED
    BY <1>a, <2>1, <2>2, <2>3, FlagsNext
<1>6. Queue'
  <2>1. \A y \in Queued : y \in Buf \ {x}
    BY <1>c, QueuedBusy
  <2>2. \A y \in Queued : (y \in dirty' <=> y \in dirty) /\ data'[y] = data[y]
    BY <1>d, <2>1
  <2> QED
    BY <1>a, <1>b, <2>2, QueueKept
<1>7. Current'
  <2>1. \A y \in valid \ dirty' : y \in Buf \ {x} /\ y \notin dirty
    BY DEF TypeOK
  <2> QED
    BY <1>a, <1>d, <2>1 DEF Current
<1>8. HeldBlock'
  <2>1. \A q \in Proc : pc'[q] \in Waiting => pc[q] \in Waiting
    BY <1>b DEF Waiting
  <2>2. \A q \in Proc : held[q] # NoBuf => held[q] # b[q]
    BY DEF HeldBlock, HeldAt
  <2> QED
    BY <1>a, <2>1, <2>2, HeldKept
<1> QED
  BY <1>1, <1>2, <1>3, <1>4, <1>5, <1>6, <1>7, <1>8

LEMMA StepBwrite ==
  ASSUME IInv, NEW p \in Proc, NEW v \in Val, Bwrite(p, v)
  PROVE  IInv'
BY StepStore DEF Bwrite, Goto

LEMMA StepLogWrite ==
  ASSUME IInv, NEW p \in Proc, NEW v \in Val, LogWrite(p, v)
  PROVE  IInv'
<1>1. pc' = [pc EXCEPT ![p] = "use"]
  BY DEF LogWrite, IInv, TypeOK
<1> QED
  BY <1>1, StepStore DEF LogWrite

LEMMA MoveToFrontType ==
  ASSUME NEW list \in ListOfBuf, NEW i \in 1 .. NBUF
  PROVE  MoveToFront(list, i) \in ListOfBuf
<1>1. NBUF \in Nat
  BY BioAssumption, FS_CardinalityType DEF NBUF
<1> DEFINE front == MoveToFront(list, i)
<1>2. front \in [1 .. NBUF -> Buf]
  BY <1>1, SMT DEF MoveToFront, ListOfBuf
<1>3. ASSUME NEW x \in Buf
      PROVE  \E k \in 1 .. NBUF : front[k] = x
  <2>1. PICK j \in 1 .. NBUF : list[j] = x
    BY DEF ListOfBuf
  <2>2. CASE j = i
    <3>1. 1 \in 1 .. NBUF /\ front[1] = x
      BY <1>1, <2>1, <2>2, SMT DEF MoveToFront
    <3> QED
      BY <3>1
  <2>3. CASE j < i
    <3>1. j + 1 \in 1 .. NBUF /\ front[j + 1] = x
      BY <1>1, <2>1, <2>3, SMT DEF MoveToFront
    <3> QED
      BY <3>1
  <2>4. CASE j > i
    <3>1. front[j] = x
      BY <1>1, <2>1, <2>4, SMT DEF MoveToFront
    <3> QED
      BY <3>1
  <2> QED
    BY <1>1, <2>2, <2>3, <2>4, SMT
<1> QED
  BY <1>2, <1>3 DEF ListOfBuf

LEMMA StepBrelse ==
  ASSUME IInv, NEW p \in Proc, Brelse(p)
  PROVE  IInv'
<1> USE DEF IInv
<1>b. PICK x \in Buf : x = b[p] /\ x # NoBuf
  BY HasBuf DEF Brelse
<1>a. /\ pc[p] = "brelse" /\ pc' = [pc EXCEPT ![p] = "idle"]
      /\ refcnt' = [refcnt EXCEPT ![x] = @ - 1]
      /\ b' = [b EXCEPT ![p] = NoBuf] /\ blk' = [blk EXCEPT ![p] = NoBlock]
      /\ UNCHANGED <<disk, idequeue, active, blockno, data, valid, dirty, owner,
                     held, heldblk>>
  BY <1>b DEF Brelse, Goto, ideVars, heldVars
<1>c. /\ pc' \in [Proc -> PC] /\ pc'[p] = "idle" /\ b'[p] = NoBuf
      /\ \A q \in Proc \ {p} : pc'[q] = pc[q] /\ b'[q] = b[q] /\ blk'[q] = blk[q]
  <2>1. pc' \in [Proc -> PC] /\ pc'[p] = "idle" /\ \A q \in Proc \ {p} : pc'[q] = pc[q]
    BY <1>a, GotoType DEF PC
  <2> QED
    BY <1>a, <2>1 DEF TypeOK
<1>d. /\ \A y \in Buf \ {x} : Users(y)' = Users(y) /\ refcnt'[y] = refcnt[y]
      /\ refcnt'[x] = refcnt[x] - 1
  <2>1. \A y \in Buf \ {x} : Users(y)' = Users(y)
    BY <1>a, <1>b, <1>c, BioAssumption, SMT DEF Users
  <2> QED
    BY <1>a, <1>b, <2>1 DEF TypeOK
<1>e. Cardinality(Users(x)') = refcnt[x] - 1
  <2>0. held[p] # x
    BY <1>b DEF HeldBlock, HeldAt
  <2>1. Users(x)' = Users(x) \ {p} /\ p \in Users(x)
    BY <1>a, <1>b, <1>c, <2>0, SMT DEF Users
  <2>2. IsFiniteSet(Users(x))
    BY ProcSets DEF Users
  <2>3. Cardinality(Users(x) \ {p}) = Cardinality(Users(x)) - 1
    BY <2>1, <2>2, FS_RemoveElement
  <2> QED
    BY <1>b, <2>1, <2>3 DEF Counted
<1>1. TypeOK'
  <2>1. refcnt'[x] \in 0 .. Cardinality(Proc)
    <3>1. Users(x)' \in SUBSET Proc
      BY DEF Users
    <3> QED
      BY <1>d, <1>e, <3>1, ProcSets
  <2>2. refcnt' \in [Buf -> 0 .. Cardinality(Proc)]
    BY <1>a, <1>b, <2>1 DEF TypeOK
  <2>3. /\ b' \in [Proc -> Buf \cup {NoBuf}]
        /\ blk' \in [Proc -> Block \cup {NoBlock}]
    BY <1>a, SMT DEF TypeOK
  <2>4. lru' \in ListOfBuf
    BY MoveToFrontType DEF Brelse, TypeOK
  <2> QED
    BY <1>a, <1>c, <2>2, <2>3, <2>4 DEF TypeOK
<1>2. Counted'
  <2>1. \A q \in Proc : /\ b'[q] = NoBuf <=> pc'[q] \in {"idle", "panic"}
                        /\ b'[q] # NoBuf => blk'[q] \in Block /\ blockno[b'[q]] = blk'[q]
    BY <1>c DEF Counted
  <2>2. \A y \in Buf : refcnt'[y] = Cardinality(Users(y)')
    BY <1>d, <1>e DEF Counted
  <2> QED
    BY <1>a, <2>1, <2>2 DEF Counted
<1>3. OneBuffer' /\ Current'
  BY <1>a DEF OneBuffer, Current
<1>4. Locked'
  BY <1>a, <1>c, LockedKept DEF Holding
<1>5. Flags'
  <2>1. \A q \in Proc : FlagsAt(pc'[q], b'[q])
    BY <1>c DEF Flags, FlagsAt, InIderw
  <2> QED
    BY <1>a, <2>1 DEF Flags, FlagsAt
<1>6. Queue'
  BY <1>a, <1>c, QueueKept
<1>7. HeldBlock'
  <2>1. \A q \in Proc : pc'[q] \in Waiting => pc[q] \in Waiting /\ blk'[q] = blk[q]
    BY <1>c DEF Waiting
  <2>2. \A q \in Proc : held[q] # NoBuf => held[q] # b'[q]
    BY <1>c DEF HeldBlock, HeldAt
  <2> QED
    BY <1>a, <2>1, <2>2, HeldKept
<1> QED
  BY <1>1, <1>2, <1>3, <1>4, <1>5, <1>6, <1>7

-----------------------------------------------------------------------------
\* Two buffers.  p moves a buffer that it has locked from b to held, or back,
\* or exchanges the two: it uses and has locked the same buffers as before.

LEMMA StepTwo ==
  ASSUME IInv, NEW p \in Proc, UNCHANGED <<bufVars, ideVars>>,
         pc[p] \in {"use", "idle"},
         NEW place \in {"use", "idle"}, pc' = [pc EXCEPT ![p] = place],
         NEW x \in Buf \cup {NoBuf}, b' = [b EXCEPT ![p] = x],
         NEW k \in Block \cup {NoBlock}, blk' = [blk EXCEPT ![p] = k],
         NEW y \in Buf \cup {NoBuf}, held' = [held EXCEPT ![p] = y],
         NEW j \in Block \cup {NoBlock}, heldblk' = [heldblk EXCEPT ![p] = j],
         {x, y} = {b[p], held[p]}, x # y,
         x = NoBuf <=> place = "idle",
         x # NoBuf => k \in Block /\ blockno[x] = k,
         y # NoBuf => j \in Block /\ blockno[y] = j
  PROVE  IInv'
<1> USE DEF IInv
<1>a. UNCHANGED <<disk, idequeue, active, blockno, refcnt, data, valid, dirty,
                  owner, lru>>
  BY DEF bufVars, ideVars
<1>b. /\ pc' \in [Proc -> PC] /\ pc'[p] = place
      /\ \A q \in Proc \ {p} : pc'[q] = pc[q]
  BY GotoType DEF PC
<1>c. /\ b'[p] = x /\ blk'[p] = k /\ held'[p] = y /\ heldblk'[p] = j
      /\ \A q \in Proc \ {p} : /\ b'[q] = b[q] /\ blk'[q] = blk[q]
                               /\ held'[q] = held[q] /\ heldblk'[q] = heldblk[q]
  BY DEF TypeOK
\* What p has in hand it has locked, and it is valid.
<1>d. \A z \in {x, y} : z # NoBuf => z \in Buf /\ owner[z] = p /\ z \in valid
  <2>1. held[p] # NoBuf => held[p] \in Buf /\ owner[held[p]] = p /\ held[p] \in valid
    BY DEF HeldBlock, HeldAt
  <2>2. b[p] # NoBuf => pc[p] = "use"
    BY DEF Counted
  <2>3. b[p] # NoBuf => b[p] \in Buf /\ owner[b[p]] = p /\ b[p] \in valid
    BY <2>2, HasBuf DEF Locked, Holding, Flags, FlagsAt
  <2>4. \A z \in {x, y} : z = b[p] \/ z = held[p]
    OBVIOUS
  <2> QED
    BY <2>1, <2>3, <2>4, SMT
<1>e. \A q \in Proc, z \in Buf :
         (b'[q] = z \/ held'[q] = z) <=> (b[q] = z \/ held[q] = z)
  BY <1>c
<1>1. TypeOK'
  <2>1. /\ b' \in [Proc -> Buf \cup {NoBuf}] /\ held' \in [Proc -> Buf \cup {NoBuf}]
        /\ blk' \in [Proc -> Block \cup {NoBlock}]
        /\ heldblk' \in [Proc -> Block \cup {NoBlock}]
    BY DEF TypeOK
  <2> QED
    BY <1>a, <1>b, <2>1 DEF TypeOK
<1>2. Counted'
  <2>1. \A z \in Buf : Users(z)' = Users(z)
    BY <1>e DEF Users
  <2>2. \A q \in Proc : /\ b'[q] = NoBuf <=> pc'[q] \in {"idle", "panic"}
                        /\ b'[q] # NoBuf => blk'[q] \in Block /\ blockno[b'[q]] = blk'[q]
    <3>1. /\ b'[p] = NoBuf <=> pc'[p] \in {"idle", "panic"}
          /\ b'[p] # NoBuf => blk'[p] \in Block /\ blockno[b'[p]] = blk'[p]
      BY <1>b, <1>c
    <3> QED
      BY <1>b, <1>c, <3>1, SMT DEF Counted
  <2> QED
    BY <1>a, <2>1, <2>2 DEF Counted
<1>3. OneBuffer' /\ Current'
  BY <1>a DEF OneBuffer, Current
<1>4. Locked'
  <2>1. ASSUME NEW z \in Buf, owner[z] # Nobody
        PROVE  Holds(owner[z], z)'
    <3>1. PICK q \in Proc : q = owner[z]
      BY <2>1, UsedIsCounted
    <3>2. Holds(q, z)
      BY <2>1, <3>1 DEF Locked
    <3>3. CASE q = p
      <4>1. z \in {x, y} /\ z # NoBuf
        BY <3>2, <3>3, BioAssumption DEF Holds
      <4>2. x = z => pc'[p] \in Holding
        BY <1>b, <4>1 DEF Holding
      <4> QED
        BY <1>a, <1>c, <3>1, <3>3, <4>1, <4>2 DEF Holds
    <3>4. CASE q # p
      BY <1>a, <1>b, <1>c, <3>1, <3>2, <3>4 DEF Holds
    <3> QED
      BY <3>3, <3>4
  <2>2. ASSUME NEW q \in Proc
        PROVE  /\ pc'[q] \in Holding => owner[b'[q]] = q
               /\ pc'[q] = "locksleep" => owner[b'[q]] # Nobody
    <3>1. CASE q = p
      <4>1. pc'[p] \in Holding => x # NoBuf
        BY <1>b DEF Holding
      <4> QED
        BY <1>b, <1>c, <1>d, <3>1, <4>1
    <3>2. CASE q # p
      BY <1>b, <1>c, <3>2 DEF Locked
    <3> QED
      BY <3>1, <3>2
  <2> QED
    BY <1>a, <2>1, <2>2 DEF Locked
<1>5. Flags'
  <2>1. ASSUME NEW q \in Proc
        PROVE  /\ pc'[q] = "use" => b'[q] \in valid
               /\ pc'[q] \in InIderw => b'[q] \in dirty \/ b'[q] \notin valid
               /\ pc'[q] = "iowoken" => b'[q] \in valid \ dirty
    <3>1. CASE q = p
      BY <1>b, <1>c, <1>d, <3>1 DEF InIderw
    <3>2. CASE q # p
      BY <1>b, <1>c, <3>2 DEF Flags, FlagsAt
    <3> QED
      BY <3>1, <3>2
  <2>2. dirty \subseteq valid /\ \A z \in valid : blockno[z] # NoBlock
    BY DEF Flags
  <2> QED
    BY <1>a, <2>1, <2>2, FlagsNext
<1>6. Queue'
  BY <1>a, <1>b, <1>c, QueueKept
<1>7. HeldBlock'
  <2>1. ASSUME NEW q \in Proc, held'[q] # NoBuf PROVE HeldAt(q)'
    <3>1. CASE q = p
      <4>1. /\ held'[p] \in Buf /\ held'[p] # b'[p]
            /\ heldblk'[p] \in Block /\ blockno'[held'[p]] = heldblk'[p]
            /\ owner'[held'[p]] = p /\ held'[p] \in valid'
        BY <1>a, <1>c, <1>d, <2>1, <3>1, SMT
      <4>2. pc'[p] \notin Waiting
        BY <1>b DEF Waiting
      <4> QED
        BY <3>1, <4>1, <4>2 DEF HeldAt
    <3>2. CASE q # p
      <4>1. /\ held'[q] = held[q] /\ heldblk'[q] = heldblk[q] /\ b'[q] = b[q]
            /\ blk'[q] = blk[q] /\ pc'[q] = pc[q]
        BY <1>b, <1>c, <3>2
      <4>2. HeldAt(q)
        BY <2>1, <4>1 DEF HeldBlock
      <4> QED
        BY <1>a, <4>1, <4>2, SMT DEF HeldAt, Rank
    <3> QED
      BY <3>1, <3>2
  <2> QED
    BY <2>1 DEF HeldBlock
<1> QED
  BY <1>1, <1>2, <1>3, <1>4, <1>5, <1>6, <1>7

LEMMA StepKeep ==
  ASSUME IInv, NEW p \in Proc, Keep(p)
  PROVE  IInv'
<1>1. b[p] \in Buf /\ blk[p] \in Block /\ blockno[b[p]] = blk[p] /\ b[p] # NoBuf
  BY HasBuf DEF Keep
<1>2. /\ pc[p] = "use" /\ held[p] = NoBuf /\ UNCHANGED <<bufVars, ideVars>>
      /\ pc' = [pc EXCEPT ![p] = "idle"]
      /\ b' = [b EXCEPT ![p] = NoBuf] /\ blk' = [blk EXCEPT ![p] = NoBlock]
      /\ held' = [held EXCEPT ![p] = b[p]]
      /\ heldblk' = [heldblk EXCEPT ![p] = blk[p]]
  BY DEF Keep, Goto
<1>3. {NoBuf, b[p]} = {b[p], held[p]}
  BY <1>2
<1> QED
  BY <1>1, <1>2, <1>3, StepTwo

LEMMA StepBack ==
  ASSUME IInv, NEW p \in Proc, Back(p)
  PROVE  IInv'
<1>1. HeldAt(p) /\ held[p] # NoBuf
  BY DEF Back, IInv, HeldBlock
<1>2. /\ held[p] \in Buf /\ heldblk[p] \in Block /\ blockno[held[p]] = heldblk[p]
  BY <1>1 DEF HeldAt
<1>3. /\ pc[p] = "idle" /\ UNCHANGED <<bufVars, ideVars>>
      /\ pc' = [pc EXCEPT ![p] = "use"]
      /\ b' = [b EXCEPT ![p] = held[p]] /\ blk' = [blk EXCEPT ![p] = heldblk[p]]
      /\ held' = [held EXCEPT ![p] = NoBuf]
      /\ heldblk' = [heldblk EXCEPT ![p] = NoBlock]
  BY DEF Back, Goto
<1>4. {held[p], NoBuf} = {b[p], held[p]}
  BY <1>3 DEF IInv, Counted
<1> QED
  BY <1>1, <1>2, <1>3, <1>4, StepTwo

LEMMA StepSwap ==
  ASSUME IInv, NEW p \in Proc, Swap(p)
  PROVE  IInv'
<1>1. HeldAt(p) /\ held[p] # NoBuf
  BY DEF Swap, IInv, HeldBlock
<1>2. /\ held[p] \in Buf /\ heldblk[p] \in Block /\ blockno[held[p]] = heldblk[p]
      /\ held[p] # b[p]
  BY <1>1 DEF HeldAt
<1>3. b[p] \in Buf /\ blk[p] \in Block /\ blockno[b[p]] = blk[p] /\ b[p] # NoBuf
  BY HasBuf DEF Swap
<1>4. /\ pc[p] = "use" /\ UNCHANGED <<bufVars, ideVars>>
      /\ pc' = [pc EXCEPT ![p] = "use"]
      /\ b' = [b EXCEPT ![p] = held[p]] /\ blk' = [blk EXCEPT ![p] = heldblk[p]]
      /\ held' = [held EXCEPT ![p] = b[p]]
      /\ heldblk' = [heldblk EXCEPT ![p] = blk[p]]
  BY DEF Swap, IInv, TypeOK
<1>5. {held[p], b[p]} = {b[p], held[p]}
  OBVIOUS
<1> QED
  BY <1>1, <1>2, <1>3, <1>4, <1>5, StepTwo

-----------------------------------------------------------------------------
\* iderw() and ideintr().

LEMMA StepIderwWoken ==
  ASSUME IInv, NEW p \in Proc, IderwWoken(p)
  PROVE  IInv'
<1>1. /\ pc[p] = "iowoken" /\ b[p] \in valid \ dirty
      /\ UNCHANGED <<bufVars, ideVars, blk, b, heldVars>>
  BY DEF IderwWoken, IInv, Flags, FlagsAt
<1>2. pc' = [pc EXCEPT ![p] = "use"]
  BY <1>1 DEF IderwWoken, Goto
<1>3. FlagsAt("use", b[p])
  BY <1>1 DEF FlagsAt, InIderw
<1>4. "use" \in PC /\ "use" \in Holding \ {"iosleep"} /\ pc[p] \in Holding \ {"iosleep"}
  BY <1>1 DEF PC, Holding
<1> QED
  BY <1>1, <1>2, <1>3, <1>4, StepMove

\* The command for a buffer that has a block.
LEMMA IdestartType ==
  ASSUME TypeOK, NEW x \in Buf, blockno[x] \in Block
  PROVE  /\ Idestart(x) \in Command /\ Idestart(x).buf = x
         /\ Idestart(x).write = (x \in dirty) /\ Idestart(x).block = blockno[x]
         /\ x \in dirty => Idestart(x).data = data[x]
         /\ Idestart(x) # NoCommand
<1>1. data[x] \in Val /\ (x \in dirty) \in BOOLEAN
  BY SMT DEF TypeOK
<1>2. InitVal \in Val /\ x # NoBuf
  BY BioAssumption
<1>3. Idestart(x).buf = x /\ NoCommand.buf = NoBuf
  BY SMT DEF Idestart, NoCommand
<1> QED
  BY <1>1, <1>2, <1>3, SMT DEF Idestart, Command

LEMMA StepIderw ==
  ASSUME IInv, NEW p \in Proc, Iderw(p)
  PROVE  IInv'
<1> USE DEF IInv
<1>b. PICK x \in Buf : x = b[p] /\ blockno[x] \in Block /\ x \notin Queued
  <2>1. pc[p] \in Holding \ {"iosleep"} /\ pc[p] \notin {"idle", "panic"}
    BY DEF Iderw, Holding
  <2> QED
    BY <2>1, HasBuf, HolderNotQueued
<1>a. /\ pc[p] = "iderw" /\ pc' = [pc EXCEPT ![p] = "iosleep"]
      /\ idequeue' = Append(idequeue, x)
      /\ active' = IF idequeue = << >> THEN Idestart(x) ELSE active
      /\ UNCHANGED <<disk, blockno, refcnt, data, valid, dirty, owner, lru, blk, b,
                     held, heldblk>>
  BY <1>b DEF Iderw, Goto, bufVars, heldVars
<1>c. /\ pc' \in [Proc -> PC] /\ pc'[p] = "iosleep"
      /\ \A q \in Proc \ {p} : pc'[q] = pc[q]
  BY <1>a, GotoType DEF PC
<1>d. /\ idequeue \in Seq(Buf) /\ idequeue' \in Seq(Buf)
      /\ Len(idequeue') = Len(idequeue) + 1
      /\ \A i \in 1 .. Len(idequeue) : idequeue'[i] = idequeue[i]
      /\ idequeue'[Len(idequeue) + 1] = x
      /\ idequeue' # << >>
      /\ Head(idequeue') = IF idequeue = << >> THEN x ELSE Head(idequeue)
  BY <1>a, SMT DEF TypeOK
<1>1. TypeOK'
  <2>1. active' \in Command \cup {NoCommand}
    BY <1>a, <1>b, IdestartType DEF TypeOK
  <2> QED
    BY <1>a, <1>c, <1>d, <2>1 DEF TypeOK
<1>2. Counted'
  BY <1>a, <1>c, CountedKept
<1>3. OneBuffer' /\ Current'
  BY <1>a DEF OneBuffer, Current
<1>4. Locked'
  BY <1>a, <1>c, LockedKept DEF Holding
<1>5. Flags'
  <2>1. \A q \in Proc : FlagsAt(pc'[q], b[q])
    BY <1>a, <1>c DEF Flags, FlagsAt, InIderw
  <2> QED
    BY <1>a, <2>1 DEF Flags, FlagsAt
<1>6. Queue'
  <2>1. Queued' = Queued \cup {x}
    BY <1>d, SMT DEF Queued
  <2>2. \A i, j \in 1 .. Len(idequeue') : idequeue'[i] = idequeue'[j] => i = j
    <3>1. \A i \in 1 .. Len(idequeue) : idequeue[i] # x
      BY <1>b DEF Queued
    <3>2. \A i \in 1 .. Len(idequeue') : i \in 1 .. Len(idequeue) \/ i = Len(idequeue) + 1
      BY <1>d, SMT
    <3> QED
      BY <1>d, <3>1, <3>2, SMT DEF Queue
  <2>3. \A q \in Proc : pc'[q] = "iosleep" => b[q] \in Queued'
    BY <1>b, <1>c, <2>1 DEF Queue
  <2>4. ASSUME NEW y \in Queued'
        PROVE  \E q \in Proc : pc'[q] = "iosleep" /\ b[q] = y
    <3>1. CASE y = x
      BY <1>b, <1>c, <3>1
    <3>2. CASE y \in Queued
      <4>1. PICK q \in Proc : pc[q] = "iosleep" /\ b[q] = y
        BY <3>2 DEF Queue
      <4> QED
        BY <1>a, <1>c, <4>1
    <3> QED
      BY <2>1, <3>1, <3>2
  <2>5. active' = Idestart(Head(idequeue'))
    BY <1>a, <1>d DEF Queue
  <2>6. active' = Idestart(Head(idequeue))'
    BY <1>a, <2>5, SMT DEF Idestart
  <2> QED
    BY <1>a, <1>d, <2>2, <2>3, <2>4, <2>6 DEF Queue
<1>7. HeldBlock'
  <2>1. \A q \in Proc : pc'[q] \in Waiting => pc[q] \in Waiting
    BY <1>c DEF Waiting
  <2>2. \A q \in Proc : held[q] # NoBuf => held[q] # b[q]
    BY DEF HeldBlock, HeldAt
  <2> QED
    BY <1>a, <2>1, <2>2, HeldKept
<1> QED
  BY <1>1, <1>2, <1>3, <1>4, <1>5, <1>6, <1>7

\* The disk works for the first of the queue, whose process sleeps in iderw();
\* no other process has that buffer locked.
LEMMA IdeintrFor ==
  ASSUME IInv, NEW ok \in BOOLEAN, Ideintr(ok)
  PROVE  \E x \in Buf, p \in Proc :
            /\ idequeue # << >> /\ x = Head(idequeue) /\ x \in Queued
            /\ active = Idestart(x) /\ blockno[x] \in Block
            /\ pc[p] = "iosleep" /\ b[p] = x
            /\ \A q \in Proc \ {p} : b[q] = x => pc[q] \notin Holding
<1> USE DEF IInv
<1>1. idequeue # << >> /\ active = Idestart(Head(idequeue))
  BY DEF Ideintr, Queue
<1>2. Head(idequeue) \in Queued
  BY <1>1, HeadQueued DEF TypeOK
<1>3. PICK p \in Proc : pc[p] = "iosleep" /\ b[p] = Head(idequeue)
  BY <1>2 DEF Queue
<1>4. pc[p] \in Holding
  BY <1>3 DEF Holding
<1>5. b[p] \in Buf /\ blockno[b[p]] \in Block
  BY <1>3, HasBuf
<1>6. \A q \in Proc \ {p} : b[q] = b[p] => pc[q] \notin Holding
  BY <1>4, OneHolder
<1> QED
  BY <1>1, <1>2, <1>3, <1>5, <1>6

LEMMA StepIdeintr ==
  ASSUME IInv, NEW ok \in BOOLEAN, Ideintr(ok)
  PROVE  IInv'
<1> USE DEF IInv
<1>a. PICK x \in Buf, p \in Proc :
            /\ idequeue # << >> /\ x = Head(idequeue) /\ x \in Queued
            /\ active = Idestart(x) /\ blockno[x] \in Block
            /\ pc[p] = "iosleep" /\ b[p] = x
            /\ \A q \in Proc \ {p} : b[q] = x => pc[q] \notin Holding
  BY IdeintrFor
<1> DEFINE rest == Tail(idequeue)
<1>b. /\ ok \/ DiskErrors
      /\ data' = IF x \notin dirty /\ ok
                 THEN [data EXCEPT ![x] = disk[blockno[x]]] ELSE data
      /\ valid' = valid \cup {x} /\ dirty' = dirty \ {x}
      /\ pc' = [q \in Proc |-> IF pc[q] = "iosleep" /\ b[q] = x
                               THEN "iowoken" ELSE pc[q]]
      /\ idequeue' = rest
      /\ active' = IF rest = << >> THEN NoCommand ELSE Idestart(Head(rest))
      /\ UNCHANGED <<blockno, refcnt, owner, lru, blk, b, held, heldblk>>
  <2>1. active.block = blockno[x]
    BY <1>a, IdestartType
  <2> QED
    BY <1>a, <2>1 DEF Ideintr, heldVars
<1>c. /\ x \in dirty => disk' = [disk EXCEPT ![blockno[x]] = data[x]]
      /\ x \notin dirty => disk' = disk
  <2>1. /\ active.write = (x \in dirty) /\ active.block = blockno[x]
        /\ x \in dirty => active.data = data[x]
    BY <1>a, IdestartType
  <2> QED
    BY <2>1 DEF Ideintr
<1>d. /\ pc'[p] = "iowoken"
      /\ \A q \in Proc \ {p} : pc'[q] = pc[q]
  <2>1. \A q \in Proc \ {p} : b[q] = x => pc[q] # "iosleep"
    BY <1>a DEF Holding
  <2> QED
    BY <1>a, <1>b, <2>1
<1>e. /\ rest \in Seq(Buf) /\ Len(rest) = Len(idequeue) - 1
      /\ \A i \in 1 .. Len(rest) : rest[i] = idequeue[i + 1] /\ i + 1 \in 1 .. Len(idequeue)
      /\ \A i \in 1 .. Len(idequeue) : i # 1 => i - 1 \in 1 .. Len(rest) /\ rest[i - 1] = idequeue[i]
      /\ x = idequeue[1] /\ 1 \in 1 .. Len(idequeue)
  BY <1>a, SMT DEF TypeOK
<1>f. Queued' = Queued \ {x}
  <2>1. \A i \in 1 .. Len(rest) : rest[i] \in Queued
    BY <1>e DEF Queued
  <2>2. \A i \in 1 .. Len(rest) : rest[i] # x
    BY <1>e, SMT DEF Queue
  <2>3. \A i \in 1 .. Len(idequeue) : idequeue[i] # x => idequeue[i] \in Queued'
    BY <1>b, <1>e, SMT DEF Queued
  <2> QED
    BY <1>b, <2>1, <2>2, <2>3 DEF Queued
<1>g. \A y \in Buf \ {x} : data'[y] = data[y]
  BY <1>b DEF TypeOK
<1>h. rest # << >> => /\ Head(rest) \in Queued /\ Head(rest) \in Buf \ {x}
  <2> HAVE rest # << >>
  <2>1. Head(rest) = rest[1] /\ 1 \in 1 .. Len(rest)
    BY <1>e, SMT
  <2>2. Head(rest) \in Queued'
    BY <1>b, <2>1 DEF Queued
  <2> QED
    BY <1>f, <2>2, QueuedBusy
<1>1. TypeOK'
  <2>1. pc' \in [Proc -> PC]
    <3>1. \A q \in Proc : pc'[q] \in PC
      BY <1>d DEF TypeOK, PC
    <3> QED
      BY <1>b, <3>1
  <2>2. disk' \in [Block -> Val]
    BY <1>a, <1>c DEF TypeOK
  <2>3. data' \in [Buf -> Val]
    BY <1>a, <1>b DEF TypeOK
  <2>4. active' \in Command \cup {NoCommand}
    <3>1. rest # << >> => \E q \in Proc : pc[q] = "iosleep" /\ b[q] = Head(rest)
      BY <1>h DEF Queue
    <3>2. rest # << >> => blockno[Head(rest)] \in Block
      BY <3>1, HasBuf
    <3> QED
      BY <1>b, <1>h, <3>2, IdestartType
  <2>5. valid' \subseteq Buf /\ dirty' \subseteq Buf
    BY <1>b DEF TypeOK
  <2> QED
    BY <1>b, <1>e, <2>1, <2>2, <2>3, <2>4, <2>5 DEF TypeOK
<1>2. Counted'
  BY <1>a, <1>b, <1>d, CountedKept
<1>3. OneBuffer'
  BY <1>b DEF OneBuffer
<1>4. Locked'
  BY <1>a, <1>b, <1>d, LockedKept DEF Holding
<1>5. Flags'
  <2>1. ASSUME NEW q \in Proc
        PROVE  /\ pc'[q] = "use" => b[q] \in valid'
               /\ pc'[q] \in InIderw => b[q] \in dirty' \/ b[q] \notin valid'
               /\ pc'[q] = "iowoken" => b[q] \in valid' \ dirty'
    <3>1. CASE q = p
      BY <1>a, <1>b, <1>d, <3>1 DEF InIderw
    <3>2. CASE q # p /\ b[q] = x
      BY <1>a, <1>d, <3>2 DEF Holding, InIderw
    <3>3. CASE q # p /\ b[q] # x
      BY <1>b, <1>d, <3>3 DEF Flags, FlagsAt
    <3> QED
      BY <3>1, <3>2, <3>3
  <2>2. dirty' \subseteq valid'
    BY <1>b DEF Flags
  <2>3. \A y \in valid' : blockno[y] # NoBlock
    BY <1>a, <1>b, BioAssumption DEF Flags
  <2> QED
    BY <1>b, <2>1, <2>2, <2>3, FlagsNext
<1>6. Queue'
  <2>1. \A i, j \in 1 .. Len(rest) : rest[i] = rest[j] => i = j
    BY <1>e, SMT DEF Queue
  <2>2. \A q \in Proc : pc'[q] = "iosleep" => b[q] \in Queued'
    BY <1>b, <1>d, <1>f DEF Queue
  <2>3. ASSUME NEW y \in Queued'
        PROVE  \E q \in Proc : pc'[q] = "iosleep" /\ b[q] = y
    <3>1. PICK q \in Proc : pc[q] = "iosleep" /\ b[q] = y
      BY <1>f DEF Queue
    <3> QED
      BY <1>a, <1>d, <1>f, <3>1
  <2>4. rest # << >> => Idestart(Head(idequeue))' = Idestart(Head(rest))
    <3> HAVE rest # << >>
    <3>1. PICK y \in Buf \ {x} : y = Head(rest)
      BY <1>h
    <3>2. (y \in dirty') = (y \in dirty) /\ data'[y] = data[y] /\ blockno'[y] = blockno[y]
      BY <1>b, <1>g, SMT
    <3>3. Head(idequeue') = y
      BY <1>b, <3>1
    <3> QED
      BY <3>1, <3>2, <3>3, SMT DEF Idestart
  <2> QED
    BY <1>b, <2>1, <2>2, <2>3, <2>4 DEF Queue
<1>7. Current'
  <2> SUFFICES ASSUME ~DiskErrors, NEW y \in valid' \ dirty'
               PROVE  data'[y] = disk'[blockno'[y]]
    BY DEF Current
  <2>1. CASE y = x
    <3>1. CASE x \in dirty
      BY <1>a, <1>b, <1>c, <2>1, <3>1 DEF TypeOK
    <3>2. CASE x \notin dirty
      BY <1>a, <1>b, <1>c, <2>1, <3>2 DEF TypeOK
    <3> QED
      BY <3>1, <3>2
  <2>2. CASE y # x
    <3>1. y \in valid \ dirty /\ y \in Buf \ {x}
      BY <1>b, <2>2 DEF TypeOK
    <3>2. blockno[y] # blockno[x]
      BY <1>a, <3>1 DEF OneBuffer, Flags
    <3>3. blockno[y] \in Block
      BY <3>1 DEF Flags, TypeOK
    <3>4. disk'[blockno[y]] = disk[blockno[y]]
      BY <1>a, <1>c, <3>2, <3>3 DEF TypeOK
    <3> QED
      BY <1>b, <1>g, <3>1, <3>4 DEF Current
  <2> QED
    BY <2>1, <2>2
<1>8. HeldBlock'
  <2>1. \A q \in Proc : pc'[q] \in Waiting => pc[q] \in Waiting
    BY <1>d DEF Waiting
  <2>2. \A q \in Proc : held[q] # NoBuf => held[q] # b[q]
    BY DEF HeldBlock, HeldAt
  <2> QED
    BY <1>b, <2>1, <2>2, HeldKept
<1> QED
  BY <1>1, <1>2, <1>3, <1>4, <1>5, <1>6, <1>7, <1>8

-----------------------------------------------------------------------------
LEMMA InitIInv ==
  ASSUME Init
  PROVE  IInv
<1> USE DEF Init
<1>1. Cardinality({}) = 0 /\ Cardinality(Proc) \in Nat
  BY FS_EmptySet, FS_CardinalityType, BioAssumption
<1>2. TypeOK
  <2>1. 0 \in 0 .. Cardinality(Proc)
    BY <1>1, SMT
  <2>2. << >> \in Seq(Buf)
    BY SMT
  <2> QED
    BY <2>1, <2>2, BioAssumption DEF TypeOK, PC
<1>3. Counted
  <2>1. \A x \in Buf : Users(x) = {}
    BY BioAssumption DEF Users
  <2> QED
    BY <1>1, <2>1 DEF Counted
<1>4. OneBuffer /\ Locked /\ Current
  BY DEF OneBuffer, Locked, Current, Holding
<1>5. Flags
  BY DEF Flags, FlagsAt, InIderw
<1>6. Queue
  <2>1. Len(idequeue) = 0 /\ Queued = {}
    BY SMT DEF Queued
  <2>2. 1 .. Len(idequeue) = {}
    BY <2>1, SMT
  <2> QED
    BY <2>1, <2>2 DEF Queue
<1>7. HeldBlock
  BY DEF HeldBlock
<1> QED
  BY <1>2, <1>3, <1>4, <1>5, <1>6, <1>7 DEF IInv

LEMMA NextIInv ==
  ASSUME IInv, [Next]_vars
  PROVE  IInv'
<1>1. ASSUME NEW p \in Proc, NEW k \in Block, BgetHit(p, k) \/ BgetMiss(p, k)
      PROVE  IInv'
  BY <1>1, StepBgetHit, StepBgetMiss
<1>2. ASSUME NEW p \in Proc, NEW v \in Val, Bwrite(p, v) \/ LogWrite(p, v)
      PROVE  IInv'
  BY <1>2, StepBwrite, StepLogWrite
<1>3. ASSUME NEW p \in Proc, Step(p)
      PROVE  IInv'
  BY <1>3, StepAcquiresleep, StepBread, StepBrelseUnlock, StepBrelse, StepIderw,
     StepIderwWoken, StepKeep, StepBack, StepSwap DEF Step
<1>4. ASSUME NEW ok \in BOOLEAN, Ideintr(ok)
      PROVE  IInv'
  BY <1>4, StepIdeintr
<1>5. CASE UNCHANGED vars
  <2> USE DEF vars, bufVars, ideVars, heldVars
  <2>1. TypeOK' /\ OneBuffer' /\ Counted' /\ Locked'
    <3>1. TypeOK' /\ OneBuffer'
      BY <1>5 DEF IInv, TypeOK, OneBuffer
    <3> QED
      BY <1>5, <3>1, CountedKept, LockedKept
  <2>2. Flags' /\ Current' /\ HeldBlock'
    <3>1. \A q \in Proc : held[q] # NoBuf => held[q] # b[q]
      BY DEF IInv, HeldBlock, HeldAt
    <3>2. HeldBlock'
      BY <1>5, <3>1, HeldKept
    <3> QED
      BY <1>5, <3>2 DEF IInv, Flags, FlagsAt, Current
  <2>3. Queue'
    BY <1>5, QueueKept
  <2> QED
    BY <2>1, <2>2, <2>3 DEF IInv
<1> QED
  BY <1>1, <1>2, <1>3, <1>4, <1>5 DEF Next

\* The invariant holds of every state of the cache: refcnt counts the processes
\* that bget() gave the buffer to, a block has one buffer, the lock of a buffer
\* is with who is between bread() and brelse(), and ide.c's queue has exactly the
\* requests of the processes that sleep in iderw().
THEOREM BioInvariant == Spec => []IInv
<1>1. Init => IInv
  BY InitIInv
<1>2. IInv /\ [Next]_vars => IInv'
  BY NextIInv
<1> QED
  BY <1>1, <1>2, PTL DEF Spec

\* Who uses a buffer, or keeps one while it reads another, has it locked, it is
\* the only buffer of its block, and bget() has not recycled it: "Only one
\* process at a time can use a buffer".
THEOREM HolderKeepsBlock == Spec => []HolderHasBlock
<1>1. IInv => HolderHasBlock
  <2> SUFFICES ASSUME IInv PROVE HolderHasBlock
    OBVIOUS
  <2>1. ASSUME NEW p \in Proc, pc[p] \in Holding
        PROVE  /\ owner[b[p]] = p /\ Cached(blk[p]) = {b[p]}
               /\ pc[p] = "use" => b[p] \in valid
    <3>1. b[p] \in Buf /\ blockno[b[p]] = blk[p] /\ blk[p] # NoBlock
      BY <2>1, HasBuf, BioAssumption DEF Holding
    <3>2. Cached(blk[p]) = {b[p]}
      BY <3>1 DEF Cached, IInv, OneBuffer
    <3> QED
      BY <2>1, <3>2 DEF IInv, Locked, Flags, FlagsAt
  <2>2. ASSUME NEW p \in Proc, held[p] # NoBuf
        PROVE  /\ owner[held[p]] = p /\ Cached(heldblk[p]) = {held[p]}
               /\ held[p] \in valid
    <3>1. HeldAt(p)
      BY <2>2 DEF IInv, HeldBlock
    <3>2. Cached(heldblk[p]) = {held[p]}
      BY <3>1, BioAssumption DEF HeldAt, Cached, IInv, OneBuffer
    <3> QED
      BY <3>1, <3>2 DEF HeldAt
  <2>3. TypeOK
    BY DEF IInv
  <2> QED
    BY <2>1, <2>2, <2>3 DEF HolderHasBlock, Holding
<1> QED
  BY <1>1, BioInvariant, PTL

\* Nobody sleeps for a lock that is free, nor in iderw() without a request in
\* the queue, and the disk is working whenever there is a request.
THEOREM NoLostWakeup == Spec => []SleepersWillWake
<1>1. IInv => SleepersWillWake
  <2> SUFFICES ASSUME IInv PROVE SleepersWillWake
    OBVIOUS
  <2>1. idequeue # << >> => active.buf = Head(idequeue)
    BY SMT DEF IInv, Queue, Idestart
  <2> QED
    BY <2>1 DEF SleepersWillWake, IInv, Locked, Queue
<1> QED
  BY <1>1, BioInvariant, PTL

\* Who sleeps for a buffer whose owner sleeps too waits for one that its owner
\* keeps, and so for a block that comes before the one its owner waits for.
LEMMA WaitsForEarlier ==
  ASSUME IInv, NEW p \in Proc, NEW q \in Proc, pc[p] = "locksleep",
         pc[q] = "locksleep", owner[b[p]] = q
  PROVE  Rank(blk[p]) < Rank(blk[q])
<1>1. b[p] \in Buf /\ blockno[b[p]] = blk[p] /\ q # Nobody
  BY HasBuf, BioAssumption
<1>2. Holds(q, b[p])
  BY <1>1 DEF IInv, Locked
<1>3. held[q] = b[p] /\ held[q] # NoBuf
  BY <1>1, <1>2, BioAssumption DEF Holds, Holding
<1>4. HeldAt(q)
  BY <1>3 DEF IInv, HeldBlock
<1> QED
  BY <1>1, <1>3, <1>4 DEF HeldAt, Waiting

\* No set of processes sleeps for buffers that its own members have locked:
\* from one of them there would be a chain of owners, each of which waits for a
\* block of a higher rank than the one before, and there are three ranks.
THEOREM BuffersDoNotDeadlock == Spec => []NoBufferDeadlock
<1>1. IInv => NoBufferDeadlock
  <2> SUFFICES ASSUME IInv, NEW S \in SUBSET Proc, S # {},
                      \A p \in S : WaitsFor(p, S)
               PROVE  FALSE
    BY DEF NoBufferDeadlock
  <2>1. ASSUME NEW p \in S
        PROVE  \E q \in S : Rank(blk[p]) < Rank(blk[q])
    <3>1. PICK q \in S : owner[b[p]] = q
      BY DEF WaitsFor
    <3>2. pc[p] = "locksleep" /\ pc[q] = "locksleep"
      BY DEF WaitsFor
    <3> QED
      BY <3>1, <3>2, WaitsForEarlier
  <2>2. \A p \in S : Rank(blk[p]) \in 0 .. 2
    BY SMT DEF Rank
  <2>3. PICK p0 \in S : TRUE
    OBVIOUS
  <2>4. PICK p1 \in S : Rank(blk[p0]) < Rank(blk[p1])
    BY <2>1
  <2>5. PICK p2 \in S : Rank(blk[p1]) < Rank(blk[p2])
    BY <2>1
  <2>6. PICK p3 \in S : Rank(blk[p2]) < Rank(blk[p3])
    BY <2>1
  <2> QED
    BY <2>2, <2>4, <2>5, <2>6, SMT
<1> QED
  BY <1>1, BioInvariant, PTL

-----------------------------------------------------------------------------
\* The refinement of BlockStore.  What BlockVal and BlockOwner say of a block
\* is what its buffer says, of which there is at most one.

LEMMA ChosenData ==
  ASSUME NEW C, NEW x \in C, C = {x}, NEW P, NEW f, NEW d
  PROVE  (IF \E y \in C : y \in P THEN f[CHOOSE y \in C : y \in P] ELSE d)
            = IF x \in P THEN f[x] ELSE d
<1>1. CASE x \in P
  <2>1. PICK c \in C : c = (CHOOSE y \in C : y \in P)
    BY <1>1
  <2>2. c = x
    OBVIOUS
  <2> QED
    BY <1>1, <2>1, <2>2
<1>2. CASE x \notin P
  BY <1>2
<1> QED
  BY <1>1, <1>2

LEMMA ChosenOwner ==
  ASSUME NEW C, NEW x \in C, C = {x}, NEW f, NEW d
  PROVE  (IF \E y \in C : f[y] # d THEN f[CHOOSE y \in C : f[y] # d] ELSE d) = f[x]
<1>1. CASE f[x] # d
  <2>1. PICK c \in C : c = (CHOOSE y \in C : f[y] # d)
    BY <1>1
  <2>2. c = x
    OBVIOUS
  <2> QED
    BY <1>1, <2>1, <2>2
<1>2. CASE f[x] = d
  BY <1>2
<1> QED
  BY <1>1, <1>2

LEMMA BlockNow ==
  ASSUME OneBuffer, NEW k \in Block
  PROVE  /\ \A x \in Buf : blockno[x] = k =>
               /\ BlockVal[k] = IF x \in valid THEN data[x] ELSE disk[k]
               /\ BlockOwner[k] = owner[x]
         /\ (\A x \in Buf : blockno[x] # k) =>
               BlockVal[k] = disk[k] /\ BlockOwner[k] = Nobody
<1>1. ASSUME NEW x \in Buf, blockno[x] = k
      PROVE  /\ BlockVal[k] = IF x \in valid THEN data[x] ELSE disk[k]
             /\ BlockOwner[k] = owner[x]
  <2>1. Cached(k) = {x} /\ x \in Cached(k)
    BY <1>1, BioAssumption DEF Cached, OneBuffer
  <2>2. BlockVal[k] = IF x \in valid THEN data[x] ELSE disk[k]
    BY <2>1, ChosenData DEF BlockVal
  <2>3. BlockOwner[k] = owner[x]
    BY <2>1, ChosenOwner DEF BlockOwner
  <2> QED
    BY <2>2, <2>3
<1>2. ASSUME \A x \in Buf : blockno[x] # k
      PROVE  BlockVal[k] = disk[k] /\ BlockOwner[k] = Nobody
  <2>1. Cached(k) = {}
    BY <1>2 DEF Cached
  <2> QED
    BY <2>1 DEF BlockVal, BlockOwner
<1> QED
  BY <1>1, <1>2

\* The same for the next state.
LEMMA BlockNext ==
  ASSUME OneBuffer', NEW k \in Block
  PROVE  /\ \A x \in Buf : blockno'[x] = k =>
               /\ BlockVal'[k] = IF x \in valid' THEN data'[x] ELSE disk'[k]
               /\ BlockOwner'[k] = owner'[x]
         /\ (\A x \in Buf : blockno'[x] # k) =>
               BlockVal'[k] = disk'[k] /\ BlockOwner'[k] = Nobody
<1>1. ASSUME NEW x \in Buf, blockno'[x] = k
      PROVE  /\ BlockVal'[k] = IF x \in valid' THEN data'[x] ELSE disk'[k]
             /\ BlockOwner'[k] = owner'[x]
  <2>1. Cached(k)' = {x} /\ x \in Cached(k)'
    BY <1>1, BioAssumption DEF Cached, OneBuffer
  <2>2. BlockVal'[k] = IF x \in valid' THEN data'[x] ELSE disk'[k]
    BY <2>1, ChosenData DEF BlockVal
  <2>3. BlockOwner'[k] = owner'[x]
    BY <2>1, ChosenOwner DEF BlockOwner
  <2> QED
    BY <2>2, <2>3
<1>2. ASSUME \A x \in Buf : blockno'[x] # k
      PROVE  BlockVal'[k] = disk'[k] /\ BlockOwner'[k] = Nobody
  <2>1. Cached(k)' = {}
    BY <1>2 DEF Cached
  <2> QED
    BY <2>1 DEF BlockVal, BlockOwner
<1> QED
  BY <1>1, <1>2

LEMMA BlockFunctions ==
  /\ BlockVal = [k \in Block |-> BlockVal[k]]
  /\ BlockOwner = [k \in Block |-> BlockOwner[k]]
  /\ BlockVal' = [k \in Block |-> BlockVal'[k]]
  /\ BlockOwner' = [k \in Block |-> BlockOwner'[k]]
BY DEF BlockVal, BlockOwner

\* A step that leaves every block alone.
LEMMA BlocksKept ==
  ASSUME \A k \in Block : BlockVal'[k] = BlockVal[k] /\ BlockOwner'[k] = BlockOwner[k]
  PROVE  BlockVal' = BlockVal /\ BlockOwner' = BlockOwner
BY BlockFunctions

\* A function that differs from another at k only.
LEMMA OneChange ==
  ASSUME NEW S, NEW f, NEW g, f = [j \in S |-> f[j]], g = [j \in S |-> g[j]],
         NEW k \in S, NEW v, g[k] = v, \A j \in S \ {k} : g[j] = f[j]
  PROVE  g = [f EXCEPT ![k] = v]
<1>1. [f EXCEPT ![k] = v] = [j \in S |-> IF j = k THEN v ELSE f[j]]
  OBVIOUS
<1>2. \A j \in S : g[j] = IF j = k THEN v ELSE f[j]
  OBVIOUS
<1> QED
  BY <1>1, <1>2

\* bget() recycles a buffer that nobody has and that is not dirty: its old
\* block has its contents on the disk, and the new one is read from there.
LEMMA RecycleKeepsBlocks ==
  ASSUME ~DiskErrors, IInv, IInv', NEW x \in Buf, NEW n \in Block,
         Cached(n) = {}, Recyclable(x), blockno' = [blockno EXCEPT ![x] = n],
         valid' = valid \ {x}, UNCHANGED <<disk, data, owner>>
  PROVE  BlockVal' = BlockVal /\ BlockOwner' = BlockOwner
<1> USE DEF IInv
<1>1. blockno'[x] = n /\ \A y \in Buf \ {x} : blockno'[y] = blockno[y]
  BY DEF TypeOK
<1>2. owner[x] = Nobody /\ x \notin dirty
  BY UsedIsCounted DEF Recyclable
<1>3. \A y \in Buf : blockno[y] # n
  BY DEF Cached
<1>4. ASSUME NEW k \in Block
      PROVE  BlockVal'[k] = BlockVal[k] /\ BlockOwner'[k] = BlockOwner[k]
  <2>1. CASE k = n
    <3>1. BlockVal[k] = disk[k] /\ BlockOwner[k] = Nobody
      BY <1>3, <2>1, BlockNow
    <3>2. BlockVal'[k] = disk[k] /\ BlockOwner'[k] = owner[x]
      BY <1>1, <2>1, BlockNext
    <3> QED
      BY <1>2, <3>1, <3>2
  <2>2. CASE k # n /\ blockno[x] = k
    <3>1. \A y \in Buf : blockno'[y] # k
      BY <1>1, <2>2, BioAssumption DEF OneBuffer
    <3>2. BlockVal'[k] = disk[k] /\ BlockOwner'[k] = Nobody
      BY <3>1, BlockNext
    <3>3. x \in valid => data[x] = disk[k]
      BY <1>2, <2>2 DEF Current
    <3>4. BlockVal[k] = disk[k] /\ BlockOwner[k] = owner[x]
      BY <2>2, <3>3, BlockNow
    <3> QED
      BY <1>2, <3>2, <3>4
  <2>3. CASE k # n /\ \E y \in Buf \ {x} : blockno[y] = k
    <3>1. PICK y \in Buf \ {x} : blockno[y] = k
      BY <2>3
    <3>2. blockno'[y] = k /\ (y \in valid' <=> y \in valid)
      BY <1>1, <3>1
    <3>3. /\ BlockVal[k] = IF y \in valid THEN data[y] ELSE disk[k]
          /\ BlockOwner[k] = owner[y]
      BY <3>1, BlockNow
    <3>4. /\ BlockVal'[k] = IF y \in valid' THEN data'[y] ELSE disk'[k]
          /\ BlockOwner'[k] = owner'[y]
      BY <3>1, <3>2, BlockNext
    <3> QED
      BY <3>2, <3>3, <3>4
  <2>4. CASE k # n /\ \A y \in Buf : blockno[y] # k
    <3>1. \A y \in Buf : blockno'[y] # k
      BY <1>1, <2>4
    <3> QED
      BY <2>4, <3>1, BlockNow, BlockNext
  <2> QED
    BY <2>1, <2>2, <2>3, <2>4
<1> QED
  BY <1>4, BlocksKept

LEMMA BgetMissKeepsBlocks ==
  ASSUME ~DiskErrors, IInv, IInv', NEW p \in Proc, NEW n \in Block, BgetMiss(p, n)
  PROVE  BlockVal' = BlockVal /\ BlockOwner' = BlockOwner
<1>1. Cached(n) = {} /\ UNCHANGED <<disk, data, owner>>
  BY DEF BgetMiss, ideVars
<1>2. CASE \E i \in 1 .. NBUF : Recyclable(lru[i])
  <2>1. PICK i \in 1 .. NBUF :
          /\ Recyclable(lru[i])
          /\ blockno' = [blockno EXCEPT ![lru[i]] = n]
          /\ valid' = valid \ {lru[i]}
    BY <1>2 DEF BgetMiss
  <2>2. PICK x \in Buf : x = lru[i]
    BY DEF IInv, TypeOK, ListOfBuf
  <2> QED
    BY <1>1, <2>1, <2>2, RecycleKeepsBlocks
<1>3. CASE \A i \in 1 .. NBUF : ~Recyclable(lru[i])
  <2>1. UNCHANGED <<blockno, valid>>
    BY <1>3 DEF BgetMiss
  <2> QED
    BY <1>1, <2>1 DEF BlockVal, BlockOwner, Cached
<1> QED
  BY <1>2, <1>3

\* The interrupt moves data between the first buffer of the queue and the disk,
\* in the direction that leaves what the block holds as it was.
LEMMA IdeintrKeepsBlocks ==
  ASSUME ~DiskErrors, IInv, IInv', NEW ok \in BOOLEAN, Ideintr(ok)
  PROVE  BlockVal' = BlockVal /\ BlockOwner' = BlockOwner
<1> USE DEF IInv
<1>1. PICK x \in Buf, p \in Proc :
         /\ x = Head(idequeue) /\ active = Idestart(x) /\ blockno[x] \in Block
         /\ pc[p] = "iosleep" /\ b[p] = x
  BY IdeintrFor
<1>2. /\ active.write = (x \in dirty) /\ active.block = blockno[x]
      /\ x \in dirty => active.data = data[x]
  BY <1>1, IdestartType
<1>3. /\ x \in dirty => disk' = [disk EXCEPT ![blockno[x]] = data[x]] /\ data' = data
      /\ x \notin dirty => disk' = disk /\ data' = [data EXCEPT ![x] = disk[blockno[x]]]
      /\ valid' = valid \cup {x} /\ UNCHANGED <<blockno, owner>>
  BY <1>1, <1>2 DEF Ideintr
<1>4. x \in valid <=> x \in dirty
  <2>1. FlagsAt("iosleep", x)
    BY <1>1 DEF Flags
  <2> QED
    BY <2>1 DEF Flags, FlagsAt, InIderw
<1>5. /\ x \in dirty => data'[x] = data[x]
      /\ x \notin dirty => data'[x] = disk[blockno[x]]
      /\ \A y \in Buf \ {x} : data'[y] = data[y]
      /\ \A k \in Block \ {blockno[x]} : disk'[k] = disk[k]
  BY <1>1, <1>3 DEF TypeOK
<1>6. ASSUME NEW k \in Block
      PROVE  BlockVal'[k] = BlockVal[k] /\ BlockOwner'[k] = BlockOwner[k]
  <2>1. CASE k = blockno[x]
    <3>1. /\ BlockVal[k] = IF x \in valid THEN data[x] ELSE disk[k]
          /\ BlockOwner[k] = owner[x]
      BY <2>1, BlockNow
    <3>2. /\ BlockVal'[k] = IF x \in valid' THEN data'[x] ELSE disk'[k]
          /\ BlockOwner'[k] = owner[x]
      BY <1>3, <2>1, BlockNext
    <3> QED
      BY <1>3, <1>4, <1>5, <2>1, <3>1, <3>2
  <2>2. CASE k # blockno[x] /\ \E y \in Buf : blockno[y] = k
    <3>1. PICK y \in Buf \ {x} : blockno[y] = k
      BY <2>2
    <3>2. /\ BlockVal[k] = IF y \in valid THEN data[y] ELSE disk[k]
          /\ BlockOwner[k] = owner[y]
      BY <3>1, BlockNow
    <3>3. /\ BlockVal'[k] = IF y \in valid' THEN data'[y] ELSE disk'[k]
          /\ BlockOwner'[k] = owner[y]
      BY <1>3, <3>1, BlockNext
    <3>4. (y \in valid' <=> y \in valid) /\ data'[y] = data[y] /\ disk'[k] = disk[k]
      BY <1>3, <1>5, <2>2, <3>1
    <3> QED
      BY <3>2, <3>3, <3>4
  <2>3. CASE \A y \in Buf : blockno[y] # k
    <3>1. disk'[k] = disk[k] /\ \A y \in Buf : blockno'[y] # k
      BY <1>3, <1>5, <2>3
    <3>2. BlockVal[k] = disk[k] /\ BlockOwner[k] = Nobody
      BY <2>3, BlockNow
    <3>3. BlockVal'[k] = disk'[k] /\ BlockOwner'[k] = Nobody
      BY <3>1, BlockNext
    <3> QED
      BY <3>1, <3>2, <3>3
  <2> QED
    BY <2>1, <2>2, <2>3
<1> QED
  BY <1>6, BlocksKept

\* The lock of the buffer of a block is the lock of the block: when its owner
\* changes, that block's owner does.
LEMMA LockBlock ==
  ASSUME IInv, IInv', NEW x \in Buf, NEW k \in Block, blockno[x] = k,
         NEW o, owner' = [owner EXCEPT ![x] = o],
         UNCHANGED <<disk, blockno, data, valid>>
  PROVE  /\ BlockOwner[k] = owner[x]
         /\ BlockOwner' = [BlockOwner EXCEPT ![k] = o]
         /\ BlockVal' = BlockVal
<1> USE DEF IInv
<1>1. owner'[x] = o /\ \A y \in Buf \ {x} : owner'[y] = owner[y]
  BY DEF TypeOK
<1>2. BlockOwner[k] = owner[x] /\ BlockOwner'[k] = owner'[x]
  BY BlockNow, BlockNext
<1>3. ASSUME NEW j \in Block \ {k}
      PROVE  BlockOwner'[j] = BlockOwner[j]
  <2>1. CASE \E y \in Buf : blockno[y] = j
    <3>1. PICK y \in Buf \ {x} : blockno[y] = j
      BY <2>1
    <3>2. BlockOwner[j] = owner[y] /\ BlockOwner'[j] = owner'[y]
      BY <3>1, BlockNow, BlockNext
    <3> QED
      BY <1>1, <3>2
  <2>2. CASE \A y \in Buf : blockno[y] # j
    BY <2>2, BlockNow, BlockNext
  <2> QED
    BY <2>1, <2>2
<1>4. BlockOwner' = [BlockOwner EXCEPT ![k] = o]
  <2>1. BlockOwner'[k] = o
    BY <1>1, <1>2
  <2>2. PICK f : f = BlockOwner
    OBVIOUS
  <2>3. PICK g : g = BlockOwner'
    OBVIOUS
  <2>4. g = [f EXCEPT ![k] = o]
    BY <1>3, <2>1, <2>2, <2>3, BlockFunctions, OneChange
  <2> QED
    BY <2>2, <2>3, <2>4
<1>5. BlockVal' = BlockVal
  BY DEF BlockVal, Cached
<1> QED
  BY <1>2, <1>4, <1>5

\* What the holder of a valid buffer puts in it is what the block holds.
LEMMA StoreBlock ==
  ASSUME IInv, IInv', NEW x \in Buf, NEW k \in Block, blockno[x] = k, x \in valid,
         NEW v, data' = [data EXCEPT ![x] = v],
         UNCHANGED <<disk, blockno, valid, owner>>
  PROVE  /\ BlockOwner[k] = owner[x]
         /\ BlockVal' = [BlockVal EXCEPT ![k] = v]
         /\ BlockOwner' = BlockOwner
<1> USE DEF IInv
<1>1. data'[x] = v /\ \A y \in Buf \ {x} : data'[y] = data[y]
  BY DEF TypeOK
<1>2. BlockOwner[k] = owner[x] /\ BlockVal'[k] = v
  BY <1>1, BlockNow, BlockNext
<1>3. ASSUME NEW j \in Block \ {k}
      PROVE  BlockVal'[j] = BlockVal[j]
  <2>1. CASE \E y \in Buf : blockno[y] = j
    <3>1. PICK y \in Buf \ {x} : blockno[y] = j
      BY <2>1
    <3>2. /\ BlockVal[j] = IF y \in valid THEN data[y] ELSE disk[j]
          /\ BlockVal'[j] = IF y \in valid' THEN data'[y] ELSE disk'[j]
      BY <3>1, BlockNow, BlockNext
    <3> QED
      BY <1>1, <3>2
  <2>2. CASE \A y \in Buf : blockno[y] # j
    BY <2>2, BlockNow, BlockNext
  <2> QED
    BY <2>1, <2>2
<1>4. BlockVal' = [BlockVal EXCEPT ![k] = v]
  <2>1. PICK f : f = BlockVal
    OBVIOUS
  <2>2. PICK g : g = BlockVal'
    OBVIOUS
  <2>3. g = [f EXCEPT ![k] = v]
    BY <1>2, <1>3, <2>1, <2>2, BlockFunctions, OneChange
  <2> QED
    BY <2>1, <2>2, <2>3
<1>5. BlockOwner' = BlockOwner
  BY DEF BlockOwner, Cached
<1> QED
  BY <1>2, <1>4, <1>5

\* Every step of the cache is a step of BlockStore or leaves it alone.
LEMMA NextRefines ==
  ASSUME ~DiskErrors, IInv, IInv', [Next]_vars
  PROVE  [Store!Next]_Store!svars
<1>a. ASSUME UNCHANGED <<BlockVal, BlockOwner>>
      PROVE  [Store!Next]_Store!svars
  BY <1>a DEF Store!svars
<1>b. ASSUME UNCHANGED <<disk, blockno, data, valid, owner>>
      PROVE  [Store!Next]_Store!svars
  <2>1. BlockVal' = BlockVal /\ BlockOwner' = BlockOwner
    BY <1>b DEF BlockVal, BlockOwner, Cached
  <2> QED
    BY <1>a, <2>1
<1>1. ASSUME NEW p \in Proc, NEW k \in Block, BgetHit(p, k) \/ BgetMiss(p, k)
      PROVE  [Store!Next]_Store!svars
  <2>1. CASE BgetHit(p, k)
    BY <1>b, <2>1 DEF BgetHit, ideVars
  <2>2. CASE BgetMiss(p, k)
    BY <1>a, <2>2, BgetMissKeepsBlocks
  <2> QED
    BY <1>1, <2>1, <2>2
<1>2. ASSUME NEW p \in Proc, NEW v \in Val, Bwrite(p, v) \/ LogWrite(p, v)
      PROVE  [Store!Next]_Store!svars
  <2>1. /\ pc[p] = "use" /\ data' = [data EXCEPT ![b[p]] = v]
        /\ UNCHANGED <<disk, blockno, valid, owner>>
    BY <1>2 DEF Bwrite, LogWrite, ideVars
  <2>2. PICK x \in Buf, k \in Block : x = b[p] /\ blockno[x] = k
    BY <2>1, HasBuf
  <2>3. data' = [data EXCEPT ![x] = v]
    BY <2>1, <2>2
  <2>4. owner[x] = p /\ b[p] \in valid
    BY <2>1, <2>2 DEF IInv, Locked, Holding, Flags, FlagsAt
  <2>5. x \in valid /\ blockno[x] = k /\ UNCHANGED <<disk, blockno, valid, owner>>
    BY <2>1, <2>2, <2>4
  <2>6. BlockOwner[k] = owner[x] /\ BlockVal' = [BlockVal EXCEPT ![k] = v]
        /\ BlockOwner' = BlockOwner
    BY <2>3, <2>5, StoreBlock
  <2>7. BlockOwner[k] = p /\ BlockVal' = [BlockVal EXCEPT ![k] = v]
        /\ BlockOwner' = BlockOwner
    BY <2>4, <2>6
  <2>8. Store!Store(p, k, v)
    BY <2>7 DEF Store!Store
  <2> QED
    BY <2>8 DEF Store!Next
<1>3. ASSUME NEW p \in Proc, Acquiresleep(p)
      PROVE  [Store!Next]_Store!svars
  <2>1. pc[p] = "acquiresleep" /\ UNCHANGED <<disk, blockno, data, valid>>
    BY <1>3 DEF Acquiresleep, ideVars
  <2>2. PICK x \in Buf, k \in Block : x = b[p] /\ blockno[x] = k
    BY <2>1, HasBuf
  <2>3. CASE owner[x] = Nobody
    <3>1. owner' = [owner EXCEPT ![x] = p]
      BY <1>3, <2>2, <2>3 DEF Acquiresleep
    <3>2. BlockOwner[k] = Nobody /\ BlockOwner' = [BlockOwner EXCEPT ![k] = p]
          /\ BlockVal' = BlockVal
      BY <2>1, <2>2, <2>3, <3>1, LockBlock
    <3>3. Store!Lock(p, k)
      BY <3>2 DEF Store!Lock
    <3> QED
      BY <3>3 DEF Store!Next
  <2>4. CASE owner[x] # Nobody
    <3>1. UNCHANGED owner
      BY <1>3, <2>2, <2>4 DEF Acquiresleep
    <3> QED
      BY <1>b, <2>1, <3>1
  <2> QED
    BY <2>3, <2>4
<1>4. ASSUME NEW p \in Proc, BrelseUnlock(p)
      PROVE  [Store!Next]_Store!svars
  <2>1. /\ pc[p] = "use" /\ owner' = [owner EXCEPT ![b[p]] = Nobody]
        /\ UNCHANGED <<disk, blockno, data, valid>>
    BY <1>4 DEF BrelseUnlock, Releasesleep, ideVars
  <2>2. PICK x \in Buf, k \in Block : x = b[p] /\ blockno[x] = k
    BY <2>1, HasBuf
  <2>3. owner' = [owner EXCEPT ![x] = Nobody]
    BY <2>1, <2>2
  <2>4. owner[x] = p
    BY <2>1, <2>2 DEF IInv, Locked, Holding
  <2>5. blockno[x] = k /\ UNCHANGED <<disk, blockno, data, valid>>
    BY <2>1, <2>2
  <2>6. BlockOwner[k] = owner[x] /\ BlockOwner' = [BlockOwner EXCEPT ![k] = Nobody]
        /\ BlockVal' = BlockVal
    BY <2>3, <2>5, LockBlock
  <2>7. BlockOwner[k] = p /\ BlockOwner' = [BlockOwner EXCEPT ![k] = Nobody]
        /\ BlockVal' = BlockVal
    BY <2>4, <2>6
  <2>8. Store!Unlock(p, k)
    BY <2>7 DEF Store!Unlock
  <2> QED
    BY <2>8 DEF Store!Next
<1>5. ASSUME NEW p \in Proc,
             \/ Bread(p) \/ Brelse(p) \/ Iderw(p) \/ IderwWoken(p)
             \/ Keep(p) \/ Back(p) \/ Swap(p)
      PROVE  [Store!Next]_Store!svars
  <2>1. UNCHANGED <<disk, blockno, data, valid, owner>>
    BY <1>5 DEF Bread, Brelse, Iderw, IderwWoken, Keep, Back, Swap, bufVars, ideVars
  <2> QED
    BY <1>b, <2>1
<1>6. ASSUME NEW ok \in BOOLEAN, Ideintr(ok)
      PROVE  [Store!Next]_Store!svars
  BY <1>a, <1>6, IdeintrKeepsBlocks
<1>7. CASE UNCHANGED vars
  BY <1>b, <1>7 DEF vars, bufVars, ideVars
<1> QED
  BY <1>1, <1>2, <1>3, <1>4, <1>5, <1>6, <1>7 DEF Next, Step

\* The cache implements one lockable value per block while reads do not fail:
\* what bwrite() or log_write() leaves in a block is what the next holder finds,
\* through recycling by bget() and the transfers of ideintr().
THEOREM CacheIsBlockStore ==
  ASSUME ~DiskErrors
  PROVE  Spec => BlockStoreSpec
<1>1. Init => Store!Init
  <2> SUFFICES ASSUME Init PROVE Store!Init
    OBVIOUS
  <2>1. \A k \in Block : Cached(k) = {}
    BY BioAssumption DEF Init, Cached
  <2>2. \A k \in Block : BlockVal[k] = InitVal /\ BlockOwner[k] = Nobody
    BY <2>1 DEF Init, BlockVal, BlockOwner
  <2> QED
    BY <2>2, BlockFunctions DEF Store!Init
<1>2. IInv /\ IInv' /\ [Next]_vars => [Store!Next]_Store!svars
  BY NextRefines
<1> QED
  BY <1>1, <1>2, BioInvariant, PTL DEF Spec, BlockStoreSpec, Store!Spec

=============================================================================
