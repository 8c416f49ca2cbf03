----------------------------- MODULE BlocksSteps ----------------------------
(***************************************************************************)
(* The inductive invariant of Blocks and the steps of files being read and *)
(* written, for every size of disk, file, inode table and transaction and  *)
(* any number of processes.  The other steps and the theorems are in       *)
(* BlocksProofs.                                                           *)
(*                                                                         *)
(* The entries of the inodes (direct blocks, the indirect block and what   *)
(* it lists) are a function H[inode][entry], and Named says that every     *)
(* marked block is an entry of it once.  The first part follows bmap() and *)
(* balloc() in terms of H and of the units of a file (Bmap); then come the *)
(* invariant IInv, which adds what a call in progress has done so far, and *)
(* a lemma for each step of open, close, fileread and filewrite, with what *)
(* the copy of units in writei() does (MapAndStore).                       *)
(***************************************************************************)
EXTENDS Blocks, FiniteSetTheorems, WellFoundedInduction, TLAPS

\* The prover of the leaves that name none.
USE Zenon

\* The entries of an inode (Entry), the inodes and the disks.
Slot == 0 .. MAXFILE
Inode == [size : 0 .. MAXFILE * BSIZE, addrs : Addrs]
Disk == [used : SUBSET Block, content : [Block -> [0 .. BSIZE - 1 -> Nat]],
         inode : [Inum -> Inode], freeinode : 1 .. NINODES + 1]

\* The entries of an inode, and those that are left when the blocks that its
\* indirect block lists have been freed.
Entries(d, addrs) == [k \in Slot |-> Entry(d, addrs, k)]
Lists(h, d, addrs) == h = Entries(d, addrs)
Pointers(addrs) == [k \in Slot |-> IF k <= NDIRECT THEN addrs[k] ELSE 0]

\* H are the entries of each inode: every block that is marked, and is not of
\* the file system itself, is named once.
Marked(H, used) == \A i \in Inum : \A k \in Slot : H[i][k] # 0 =>
    H[i][k] \in used /\ H[i][k] >= nmeta
Once(H) == \A i, j \in Inum : \A k, l \in Slot :
    H[i][k] = H[j][l] /\ H[i][k] # 0 => i = j /\ k = l
NoLeak(H, used) == \A b \in used : b >= nmeta => \E i \in Inum : \E k \in Slot : H[i][k] = b
Named(H, used) ==
    /\ 0 .. nmeta - 1 \subseteq used
    /\ Marked(H, used)
    /\ Once(H)
    /\ NoLeak(H, used)

\* Unit u of a file, -1 where it has no block.
Unit(d, addrs, u) ==
    LET b == Address(d, addrs, u \div BSIZE)
    IN  IF b = 0 THEN -1 ELSE d.content[b][u % BSIZE]

-----------------------------------------------------------------------------
\* What is assumed of the constants.
LEMMA Constants ==
  /\ NPROC \in Nat \ {0} /\ NFILE \in Nat \ {0} /\ NINODES \in Nat \ {0}
  /\ BSIZE \in Nat \ {0} /\ NDIRECT \in Nat \ {0} /\ BPB \in Nat \ {0}
  /\ LOGSIZE \in Nat \ {0} /\ INODEBLOCKS \in Nat \ {0}
  /\ BSIZE > 1 /\ FSSIZE \in Nat /\ FSSIZE > nmeta
  /\ MAXOPBLOCKS \in Nat /\ MAXOPBLOCKS > 5 /\ nbitmap < MAXOPBLOCKS
  /\ Size \subseteq Nat \ {0} /\ Val \subseteq Nat
  /\ MaxImage \in Nat /\ MaxCalls \in Nat /\ MaxCrashes \in Nat
  /\ nmeta + MaxImage < FSSIZE
BY BlocksAssumption

\* Division of offsets.
LEMMA Div ==
  ASSUME NEW n \in Nat, NEW d \in Nat \ {0}
  PROVE  /\ n \div d \in Nat
         /\ n % d \in 0 .. d - 1
         /\ n = d * (n \div d) + (n % d)
<1>1. n \div d \in Nat
  BY SMT
<1>2. n % d \in 0 .. d - 1
  BY SMT
<1>3. n = d * (n \div d) + (n % d)
  BY SMT
<1> QED BY <1>1, <1>2, <1>3

\* The quotient is the only number between the bounds.
LEMMA DivUnique ==
  ASSUME NEW n \in Nat, NEW d \in Nat \ {0}, NEW k \in Nat,
         d * k <= n, n < d * k + d
  PROVE  /\ n \div d = k
         /\ n % d = n - d * k
<1>1. n \div d = k
  BY SMT
<1>2. n = d * (n \div d) + (n % d) /\ n % d \in 0 .. d - 1
  BY Div
<1>3. n = d * k + (n % d)
  BY <1>1, <1>2
<1> QED BY <1>1, <1>2, <1>3, SMT

\* Multiplication keeps the order.
LEMMA MulMono ==
  ASSUME NEW i \in Int, NEW j \in Int, NEW d \in Nat \ {0}
  PROVE  d * i < d * j <=> i < j
BY SMT

\* The layout of the disk.
LEMMA Layout ==
  /\ nbitmap \in Nat \ {0} /\ bmapstart \in Nat /\ nmeta \in Nat
  /\ bmapstart > 2 /\ nmeta = bmapstart + nbitmap
  /\ Block \subseteq Nat /\ 0 \in Block
  /\ IBLOCK \in Nat
<1>1. FSSIZE \div BPB \in Nat
  BY Constants, Div
<1>2. nbitmap \in Nat \ {0} /\ bmapstart \in Nat /\ bmapstart > 2 /\ IBLOCK \in Nat
  BY <1>1, Constants, SMT DEF nbitmap, bmapstart, IBLOCK
<1>3. nmeta \in Nat /\ nmeta = bmapstart + nbitmap
  BY <1>2, SMT DEF nmeta
<1> QED
  BY <1>2, <1>3, Constants, SMT DEF Block

\* The bitmap block of a block.
LEMMA BitmapBlock ==
  ASSUME NEW b \in Block
  PROVE  BBLOCK(b) \in bmapstart .. nmeta - 1 /\ BBLOCK(b) \in Nat
<1>1. b \in Nat /\ b < FSSIZE
  BY Constants, SMT DEF Block
<1>2. b \div BPB \in Nat /\ b \div BPB <= FSSIZE \div BPB
  BY <1>1, Constants, SMT
<1>3. FSSIZE \div BPB \in Nat
  BY Constants, Div
<1>4. nbitmap = FSSIZE \div BPB + 1
  BY DEF nbitmap
<1> QED
  BY <1>2, <1>3, <1>4, Layout, SMT DEF BBLOCK

\* Sizes.
LEMMA Sizes ==
  /\ MAXFILE \in Nat /\ MAXFILE = NDIRECT + BSIZE /\ MAXFILE * BSIZE \in Nat
  /\ NDIRECT \in Slot /\ Slot \subseteq Nat
  /\ \A k \in 0 .. NDIRECT : k \in Slot
  /\ \A bn \in 0 .. MAXFILE - 1 : bn >= NDIRECT => bn - NDIRECT \in 0 .. BSIZE - 1
  /\ \A k \in Slot : k > NDIRECT => k - NDIRECT - 1 \in 0 .. BSIZE - 1
BY Constants, SMT DEF MAXFILE, NINDIRECT, Slot

\* The fields of a disk.
LEMMA DiskFields ==
  ASSUME NEW d \in Disk
  PROVE  /\ d.used \in SUBSET Block /\ d.used \subseteq Nat
         /\ d.content \in [Block -> [0 .. BSIZE - 1 -> Nat]]
         /\ d.inode \in [Inum -> Inode]
         /\ d.freeinode \in 1 .. NINODES + 1
         /\ d = [used |-> d.used, content |-> d.content, inode |-> d.inode,
                 freeinode |-> d.freeinode]
BY Layout DEF Disk

-----------------------------------------------------------------------------
\* Block b is allocated for entry k of an inode: disk d and addresses a become
\* d2 and a2.
Extends(d, a, d2, a2, k, b) ==
    /\ d2 \in Disk /\ a2 \in Addrs
    /\ b \in Block /\ b \notin d.used /\ d2.used = d.used \cup {b}
    /\ Entry(d, a, k) = 0
    /\ \A x \in Slot : Entry(d2, a2, x) = IF x = k THEN b ELSE Entry(d, a, x)
    /\ d2.content[b] = Zeroes
    /\ \A c \in Block : c # b /\ c # a[NDIRECT] => d2.content[c] = d.content[c]
    /\ d2.inode = d.inode /\ d2.freeinode = d.freeinode

\* Number b is stored in entry k of indirect block x.
PutEntry(d, x, k, b) == [d EXCEPT !.content[x][k] = b]

\* Block x of disk d becomes w.
Changed(d, x, w, d2) ==
    /\ d2 \in Disk /\ d2.used = d.used
    /\ \A c \in Block : c # x => d2.content[c] = d.content[c]
    /\ d2.content[x] = w
    /\ d2.inode = d.inode /\ d2.freeinode = d.freeinode

-----------------------------------------------------------------------------
Naming == [Inum -> [Slot -> Nat]]

\* The entries of an inode have their type.
LEMMA EntriesType ==
  \A d \in Disk, a \in Addrs :
        Entries(d, a) \in [Slot -> Nat]

\* An entry is a number.
<1>EntryType.
  ASSUME NEW d \in Disk, NEW a \in Addrs, NEW k \in Slot
  PROVE  Entry(d, a, k) \in Nat
  <2>1. CASE k <= NDIRECT
    <3>1. k \in 0 .. NDIRECT
      BY <2>1, Sizes, Constants, SMT DEF Slot
    <3> QED BY <2>1, <3>1, Layout DEF Entry, Addrs
  <2>2. CASE ~(k <= NDIRECT)
    <3>1. k - NDIRECT - 1 \in 0 .. BSIZE - 1 /\ k > NDIRECT
      <4>1. k > NDIRECT
        BY <2>2, Sizes, Constants, SMT
      <4> QED BY <4>1, Sizes
    <3>2. NDIRECT \in 0 .. NDIRECT
      BY Constants, SMT
    <3>3. a[NDIRECT] \in Block
      BY <3>2 DEF Addrs
    <3>4. d.content[a[NDIRECT]] \in [0 .. BSIZE - 1 -> Nat]
      BY <3>3, DiskFields
    <3>5. d.content[a[NDIRECT]][k - NDIRECT - 1] \in Nat
      BY <3>1, <3>4
    <3>6. 0 \in Nat
      BY SMT
    <3> QED BY <2>2, <3>5, <3>6 DEF Entry
  <2> QED BY <2>1, <2>2

<1> QED
  <2> SUFFICES
      ASSUME NEW d \in Disk, NEW a \in Addrs
      PROVE  Entries(d, a) \in [Slot -> Nat]
    OBVIOUS
  <2> QED
    BY <1>EntryType DEF Entries

\* The entry of the indirect block.
LEMMA PointerSlot ==
  NDIRECT \in Slot /\ NDIRECT <= NDIRECT
BY Sizes, Constants, SMT

\* The address of the indirect block.
LEMMA Pointer ==
  ASSUME NEW d, NEW a, NEW h, Lists(h, d, a)
  PROVE  h[NDIRECT] = a[NDIRECT]
BY PointerSlot DEF Entries, Entry, Lists

\* The entry of block bn of a file.
SlotOf(bn) == IF bn < NDIRECT THEN bn ELSE bn + 1

\* bmap() finds block bn at the entry SlotOf(bn).
LEMMA AddressEntry ==
  ASSUME NEW bn \in 0 .. MAXFILE - 1
  PROVE  /\ SlotOf(bn) \in Slot /\ SlotOf(bn) # NDIRECT
         /\ \A d, a : Address(d, a, bn) = Entry(d, a, SlotOf(bn))
<1>1. bn \in Nat /\ bn < MAXFILE /\ MAXFILE \in Nat /\ NDIRECT \in Nat
  BY Sizes, Constants, SMT
<1>2. SlotOf(bn) \in Slot /\ SlotOf(bn) # NDIRECT
  BY <1>1, SMT DEF SlotOf, Slot
<1>3. CASE bn < NDIRECT
  <2>1. SlotOf(bn) = bn /\ bn <= NDIRECT
    BY <1>1, <1>3, SMT DEF SlotOf
  <2> QED BY <2>1, <1>2, <1>3 DEF Address, Entry
<1>4. CASE ~(bn < NDIRECT)
  <2>1. SlotOf(bn) = bn + 1 /\ ~(bn + 1 <= NDIRECT) /\ (bn + 1) - NDIRECT - 1 = bn - NDIRECT
    BY <1>1, <1>4, SMT DEF SlotOf
  <2>2. ASSUME NEW d, NEW a PROVE Address(d, a, bn) = Entry(d, a, bn + 1)
    <3>1. Address(d, a, bn) = IF a[NDIRECT] = 0 THEN 0 ELSE d.content[a[NDIRECT]][bn - NDIRECT]
      BY <1>4 DEF Address
    <3>2. Entry(d, a, bn + 1) = IF a[NDIRECT] = 0 THEN 0 ELSE d.content[a[NDIRECT]][(bn + 1) - NDIRECT - 1]
      BY <2>1 DEF Entry
    <3> QED BY <2>1, <3>1, <3>2
  <2> QED BY <2>1, <2>2, <1>2
<1> QED BY <1>3, <1>4

\* Two blocks of a file have different entries.
LEMMA SlotOfOne ==
  ASSUME NEW x \in 0 .. MAXFILE - 1, NEW y \in 0 .. MAXFILE - 1, SlotOf(x) = SlotOf(y)
  PROVE  x = y
BY Sizes, Constants, SMT DEF SlotOf

\* The units that a file may have.
Offset == 0 .. MAXFILE * BSIZE - 1

\* An offset has a block of the file, and a place in it.
LEMMA OffsetBlock ==
  ASSUME NEW u \in Offset
  PROVE  /\ u \div BSIZE \in 0 .. MAXFILE - 1 /\ u % BSIZE \in 0 .. BSIZE - 1
         /\ u \in Nat /\ u = BSIZE * (u \div BSIZE) + (u % BSIZE)
<1>1. u \in Nat /\ u < MAXFILE * BSIZE
  BY Sizes, SMT DEF Offset
<1>2. u \div BSIZE \in Nat /\ u % BSIZE \in 0 .. BSIZE - 1 /\ u = BSIZE * (u \div BSIZE) + (u % BSIZE)
  BY <1>1, Constants, Div
<1>3. PICK q : q = u \div BSIZE
  OBVIOUS
<1>4. q \in Nat /\ BSIZE * q <= u
  BY <1>1, <1>2, <1>3, Constants, SMT
<1>5. BSIZE * q < BSIZE * MAXFILE
  BY <1>1, <1>4, Sizes, Constants, SMT
<1>6. q < MAXFILE
  <2>1. q \in Int /\ MAXFILE \in Int
    BY <1>4, Sizes, SMT
  <2> QED BY <1>5, <2>1, MulMono, Constants
<1>7. q \in 0 .. MAXFILE - 1
  BY <1>4, <1>6, Sizes, SMT
<1> QED BY <1>1, <1>2, <1>3, <1>7

\* A file that a step of another file leaves alone.
Alike(d, d2, a) ==
    /\ Entries(d2, a) = Entries(d, a)
    /\ \A u \in Offset : Unit(d2, a, u) = Unit(d, a, u)

\* Its entries and the blocks they name are as they were.
LEMMA AlikeIf ==
  ASSUME NEW d, NEW d2, NEW a,
         \A k \in Slot : Entry(d2, a, k) = Entry(d, a, k),
         \A k \in Slot : k # NDIRECT /\ Entry(d, a, k) # 0 =>
                  d2.content[Entry(d, a, k)] = d.content[Entry(d, a, k)]
  PROVE  Alike(d, d2, a)
<1>1. Entries(d2, a) = Entries(d, a)
  BY DEF Entries
<1>2. ASSUME NEW u \in Offset PROVE Unit(d2, a, u) = Unit(d, a, u)
  <2>1. PICK k \in Slot : k # NDIRECT /\ Address(d2, a, u \div BSIZE) = Entry(d2, a, k)
                          /\ Address(d, a, u \div BSIZE) = Entry(d, a, k)
    BY OffsetBlock, AddressEntry
  <2>2. Entry(d2, a, k) = Entry(d, a, k)
    OBVIOUS
  <2>3. Entry(d, a, k) # 0 => d2.content[Entry(d, a, k)] = d.content[Entry(d, a, k)]
    BY <2>1
  <2> QED BY <2>1, <2>2, <2>3 DEF Unit
<1> QED BY <1>1, <1>2 DEF Alike

\* All files but i are left alone.
Kept(H, i, d, d2) ==
    \A j \in Inum : \A a \in Addrs : j # i /\ Lists(H[j], d, a) => Alike(d, d2, a)

\* The blocks that are named.
LEMMA NamedBlock ==
  ASSUME NEW d \in Disk, NEW H, Named(H, d.used), NEW j \in Inum, NEW x \in Slot, H[j][x] # 0
  PROVE  H[j][x] \in Block /\ H[j][x] \in d.used /\ H[j][x] >= nmeta
BY DiskFields DEF Named, Marked

\* Two inodes name no block both.
LEMMA NamedApart ==
  ASSUME NEW H, NEW U, Named(H, U), NEW i \in Inum, NEW j \in Inum, i # j,
         NEW x \in Slot, NEW y \in Slot, H[j][x] # 0
  PROVE  H[j][x] # H[i][y]
BY SMT DEF Named, Once

\* Two entries of an inode do not name the same block.
LEMMA NamedApartIn ==
  ASSUME NEW H, NEW U, Named(H, U), NEW i \in Inum,
         NEW x \in Slot, NEW y \in Slot, x # y, H[i][x] # 0
  PROVE  H[i][x] # H[i][y]
BY SMT DEF Named, Once

\* The units of the block of entry k become 0, the others are kept.
Zeroed(d, a, d2, a2, k) ==
    \A u \in Offset : Unit(d2, a2, u) = IF SlotOf(u \div BSIZE) = k THEN 0 ELSE Unit(d, a, u)

-----------------------------------------------------------------------------
\* File i, with disk d and addresses a, gets new blocks: the blocks of B that
\* it had not are there, and hold zeros.
Grows(H, i, d, a, d2, a2, B) ==
    /\ d2 \in Disk /\ a2 \in Addrs
    /\ d2.inode = d.inode /\ d2.freeinode = d.freeinode
    /\ Named([H EXCEPT ![i] = Entries(d2, a2)], d2.used)
    /\ Kept(H, i, d, d2)
    /\ \A u \in Offset : Unit(d2, a2, u) =
          IF u \div BSIZE \in B /\ Unit(d, a, u) = -1 THEN 0 ELSE Unit(d, a, u)

\* What is known of a file before bmap(): its entries are those of H.
Tracks(H, i, d, a) ==
    /\ d \in Disk /\ a \in Addrs /\ H \in Naming /\ i \in Inum
    /\ Named(H, d.used) /\ Lists(H[i], d, a)

\* The indirect block is marked.
LEMMA TrackedPointer ==
  ASSUME NEW H, NEW i, NEW d, NEW a, Tracks(H, i, d, a)
  PROVE  0 \in d.used /\ (a[NDIRECT] # 0 => a[NDIRECT] \in d.used /\ a[NDIRECT] \in Block)
<1>1. 0 \in d.used
  <2>1. 0 \in 0 .. nmeta - 1
    BY Layout, SMT
  <2> QED BY <2>1 DEF Named, Tracks
<1>2. H[i][NDIRECT] = a[NDIRECT]
  BY Pointer DEF Tracks
<1>3. H[i][NDIRECT] # 0 => H[i][NDIRECT] \in d.used /\ H[i][NDIRECT] \in Block
  BY PointerSlot, NamedBlock DEF Tracks
<1> QED BY <1>1, <1>2, <1>3

\* The block b of block bn of file i is new.
Gets(H, i, d, a, d2, a2, bn, b) ==
    /\ Grows(H, i, d, a, d2, a2, {bn})
    /\ Address(d2, a2, bn) = b /\ b \in Block /\ b # 0
    /\ d2.used = d.used \cup {b} /\ b \notin d.used

\* The indirect block x has been allocated, which makes (d, a) into (d1, a1).
Pointed(H, i, d, a, d1, a1, x, bn) ==
    /\ Grows(H, i, d, a, d1, a1, {}) /\ Tracks([H EXCEPT ![i] = Entries(d1, a1)], i, d1, a1)
    /\ a1[NDIRECT] = x /\ x # 0 /\ x \in Block /\ x \notin d.used
    /\ d1.used = d.used \cup {x}
    /\ Entry(d1, a1, SlotOf(bn)) = 0

-----------------------------------------------------------------------------
\* The free blocks can be counted.
LEMMA FreeFinite ==
  ASSUME NEW d \in Disk
  PROVE  IsFiniteSet(FreeBlocks(d)) /\ Cardinality(FreeBlocks(d)) \in Nat
<1>1. IsFiniteSet(Block)
  <2>1. 0 \in Int /\ FSSIZE - 1 \in Int
    BY Constants, SMT
  <2> QED BY <2>1, FS_Interval DEF Block
<1>2. IsFiniteSet(FreeBlocks(d))
  BY <1>1, FS_Subset DEF FreeBlocks
<1> QED BY <1>2, FS_CardinalityType

\* The blocks that the allocation of an indirect block writes.
Ind(x) == IF x = 0 THEN {} ELSE {x, BBLOCK(x)}

\* What bmap() returns for block bn.
Mapped(H, i, d, a, bn, m) ==
    /\ Grows(H, i, d, a, m.d, m.addrs, {bn})
    /\ Address(m.d, m.addrs, bn) # 0
    /\ Address(d, a, bn) # 0 => m.d = d /\ m.addrs = a /\ m.wrote = {}
    /\ m.wrote \subseteq {Address(m.d, m.addrs, bn), BBLOCK(Address(m.d, m.addrs, bn))}
                         \cup Ind(m.addrs[NDIRECT])
    /\ a[NDIRECT] # 0 => m.addrs[NDIRECT] = a[NDIRECT]

\* bmap(), when there are enough blocks.
LEMMA Bmap ==
  \A H, i, d, a : \A bn \in 0 .. MAXFILE - 1 :
    /\ Tracks(H, i, d, a)
    /\ ~(Cardinality(FreeBlocks(d)) < Lacking(d, a, bn))
    =>  Mapped(H, i, d, a, bn, bmap(d, a, bn))

\* A set of numbers has a smallest one.
<1>MinIn.
  ASSUME NEW S \in SUBSET Nat, S # {}
  PROVE  Min(S) \in S
  <2> USE <1>MinIn
  <2> DEFINE R == {ss \in Nat \X Nat : ss[1] < ss[2]}
  <2>0. IsWellFoundedOn(R, Nat)
    BY NatLessThanWellFounded DEF OpToRel
  <2>1. PICK n \in S : \A m \in S : ~(<<m, n>> \in R)
    <3> HIDE DEF R
    <3> QED BY <2>0, WFMin
  <2>2. ASSUME NEW m \in S PROVE n <= m
    <3>1. ~(m < n)
      BY <2>1
    <3>2. m \in Nat /\ n \in Nat
      OBVIOUS
    <3> QED BY <3>1, <3>2, SMT
  <2> QED BY <2>2 DEF Min

\* balloc(), field by field.
<1>BallocFields.
  ASSUME NEW d \in Disk, FreeBlocks(d) # {}
  PROVE  /\ Min(FreeBlocks(d)) \in Block /\ Min(FreeBlocks(d)) \notin d.used
         /\ Balloc(d) \in Disk
         /\ Balloc(d).used = d.used \cup {Min(FreeBlocks(d))}
         /\ Balloc(d).content = [d.content EXCEPT ![Min(FreeBlocks(d))] = Zeroes]
         /\ Balloc(d).inode = d.inode /\ Balloc(d).freeinode = d.freeinode
  <2> USE <1>BallocFields
  <2> DEFINE b == Min(FreeBlocks(d))
  <2>1. b \in Block /\ b \notin d.used
    <3>1. FreeBlocks(d) \in SUBSET Nat
      BY Layout DEF FreeBlocks
    <3> QED BY <3>1, <1>MinIn DEF FreeBlocks
  <2>2. Zeroes \in [0 .. BSIZE - 1 -> Nat]
    <3>1. 0 \in Nat
      BY SMT
    <3> QED BY <3>1 DEF Zeroes
  <2> HIDE DEF b
  <2> DEFINE e == [d EXCEPT !.used = @ \cup {b}, !.content = [@ EXCEPT ![b] = Zeroes]]
  <2>3. Balloc(d) = e
    BY DEF Balloc, b
  <2>4. /\ e.used = d.used \cup {b} /\ e.content = [d.content EXCEPT ![b] = Zeroes]
        /\ e.inode = d.inode /\ e.freeinode = d.freeinode
    BY DEF Disk
  <2>5. e \in Disk
    BY <2>1, <2>2, DiskFields DEF Disk
  <2> QED BY <2>1, <2>3, <2>4, <2>5 DEF b

\* bmap() allocates a block for an address of the inode.
<1>ExtendAddress.
  ASSUME NEW d \in Disk, NEW a \in Addrs, FreeBlocks(d) # {}, 0 \in d.used,
         a[NDIRECT] # 0 => a[NDIRECT] \in d.used,
         NEW k \in 0 .. NDIRECT, a[k] = 0
  PROVE  Extends(d, a, Balloc(d), [a EXCEPT ![k] = Min(FreeBlocks(d))], k, Min(FreeBlocks(d)))
  <2> USE <1>ExtendAddress
  <2>1. PICK b : b = Min(FreeBlocks(d))
    OBVIOUS
  <2>2. PICK e : e = Balloc(d)
    OBVIOUS
  <2>3. PICK a2 : a2 = [a EXCEPT ![k] = b]
    OBVIOUS
  <2>4. /\ b \in Block /\ b \notin d.used
        /\ e \in Disk /\ e.used = d.used \cup {b}
        /\ e.content = [d.content EXCEPT ![b] = Zeroes]
        /\ e.inode = d.inode /\ e.freeinode = d.freeinode
    BY <2>1, <2>2, <1>BallocFields
  <2>5. b # 0
    BY <2>4
  <2>6. a2 \in Addrs /\ a2[k] = b /\ \A x \in 0 .. NDIRECT : x # k => a2[x] = a[x]
    BY <2>3, <2>4 DEF Addrs
  <2>7. e.content[b] = Zeroes /\ \A c \in Block : c # b => e.content[c] = d.content[c]
    BY <2>4, DiskFields
  <2>8. k <= NDIRECT /\ NDIRECT \in 0 .. NDIRECT
    BY Constants, SMT
  <2>9. Entry(d, a, k) = 0
    BY <2>8 DEF Entry
  <2>10. ASSUME NEW x \in Slot PROVE Entry(e, a2, x) = IF x = k THEN b ELSE Entry(d, a, x)
    <3>1. CASE x <= NDIRECT
      <4>1. x \in 0 .. NDIRECT
        BY <3>1, Sizes, Constants, SMT DEF Slot
      <4> QED BY <3>1, <4>1, <2>6 DEF Entry
    <3>2. CASE ~(x <= NDIRECT)
      <4>1. x # k
        BY <3>2, <2>8
      <4>2. CASE k = NDIRECT
        <5>1. x - NDIRECT - 1 \in 0 .. BSIZE - 1
          <6>1. x > NDIRECT
            BY <3>2, Sizes, Constants, SMT
          <6> QED BY <6>1, Sizes
        <5>2. a2[NDIRECT] = b /\ a[NDIRECT] = 0
          BY <4>2, <2>6
        <5>3. Zeroes[x - NDIRECT - 1] = 0
          BY <5>1 DEF Zeroes
        <5> QED BY <3>2, <4>1, <5>2, <5>3, <2>5, <2>7 DEF Entry
      <4>3. CASE k # NDIRECT
        <5>1. a2[NDIRECT] = a[NDIRECT] /\ a[NDIRECT] \in Block
          BY <4>3, <2>6, <2>8 DEF Addrs
        <5>2. CASE a[NDIRECT] = 0
          BY <3>2, <4>1, <5>1, <5>2 DEF Entry
        <5>3. CASE a[NDIRECT] # 0
          <6>1. e.content[a[NDIRECT]] = d.content[a[NDIRECT]]
            BY <5>1, <5>3, <2>4, <2>7
          <6> QED BY <3>2, <4>1, <5>1, <6>1 DEF Entry
        <5> QED BY <5>2, <5>3
      <4> QED BY <4>2, <4>3
    <3> QED BY <3>1, <3>2
  <2>11. Extends(d, a, e, a2, k, b)
    BY <2>4, <2>6, <2>7, <2>9, <2>10 DEF Extends
  <2> QED BY <2>1, <2>2, <2>3, <2>11

\* bmap() stores a number in an indirect block: that block alone changes.
<1>PutEntryFields.
  ASSUME NEW d \in Disk, NEW x \in Block, NEW k \in 0 .. BSIZE - 1, NEW b \in Nat
  PROVE  Changed(d, x, [d.content[x] EXCEPT ![k] = b], PutEntry(d, x, k, b))
  <2> DEFINE w == [d.content[x] EXCEPT ![k] = b]
             c2 == [d.content EXCEPT ![x] = w]
  <2>1. w \in [0 .. BSIZE - 1 -> Nat]
    BY DiskFields
  <2>2. PutEntry(d, x, k, b) = [d EXCEPT !.content = c2]
    BY DEF PutEntry
  <2> HIDE DEF w
  <2>3. /\ c2 \in [Block -> [0 .. BSIZE - 1 -> Nat]]
        /\ c2[x] = w /\ \A c \in Block : c # x => c2[c] = d.content[c]
    BY <2>1, DiskFields
  <2> HIDE DEF c2
  <2> DEFINE e == [d EXCEPT !.content = c2]
  <2>4. e \in Disk
    BY <2>3 DEF Disk
  <2>5. e.used = d.used /\ e.content = c2 /\ e.inode = d.inode /\ e.freeinode = d.freeinode
    BY DEF Disk
  <2>6. Changed(d, x, w, e)
    BY <2>3, <2>4, <2>5 DEF Changed
  <2> QED BY <2>2, <2>6 DEF w

\* bmap() allocates a block and stores its number in the indirect block.
<1>ExtendIndirect.
  ASSUME NEW d \in Disk, NEW a \in Addrs, FreeBlocks(d) # {},
         a[NDIRECT] # 0, a[NDIRECT] \in d.used,
         NEW k \in Slot, k > NDIRECT, Entry(d, a, k) = 0
  PROVE  Extends(d, a, PutEntry(Balloc(d), a[NDIRECT], k - NDIRECT - 1, Min(FreeBlocks(d))),
                 a, k, Min(FreeBlocks(d)))
  <2> USE <1>ExtendIndirect
  <2>1. PICK b : b = Min(FreeBlocks(d))
    OBVIOUS
  <2>2. PICK e : e = Balloc(d)
    OBVIOUS
  <2>3. PICK j : j = k - NDIRECT - 1
    OBVIOUS
  <2>4. PICK x : x = a[NDIRECT]
    OBVIOUS
  <2>5. PICK d2 : d2 = PutEntry(e, x, j, b)
    OBVIOUS
  <2>6. /\ b \in Block /\ b \notin d.used
        /\ e \in Disk /\ e.used = d.used \cup {b}
        /\ e.content = [d.content EXCEPT ![b] = Zeroes]
        /\ e.inode = d.inode /\ e.freeinode = d.freeinode
    BY <2>1, <2>2, <1>BallocFields
  <2>7. j \in 0 .. BSIZE - 1 /\ x \in Block /\ x # 0 /\ b # x /\ b \in Nat
    BY <2>3, <2>4, <2>6, Sizes, DiskFields, Layout
  <2>8. /\ d2 \in Disk /\ d2.used = e.used
        /\ \A c \in Block : c # x => d2.content[c] = e.content[c]
        /\ d2.content[x] = [e.content[x] EXCEPT ![j] = b]
        /\ d2.inode = e.inode /\ d2.freeinode = e.freeinode
    <3>1. e \in Disk
      BY <2>6
    <3>2. x \in Block /\ j \in 0 .. BSIZE - 1 /\ b \in Nat
      BY <2>7
    <3>3. Changed(e, x, [e.content[x] EXCEPT ![j] = b], d2)
      BY <3>1, <3>2, <2>5, <1>PutEntryFields
    <3> QED BY <3>3 DEF Changed
  <2>9. e.content[b] = Zeroes /\ \A c \in Block : c # b => e.content[c] = d.content[c]
    BY <2>6, DiskFields
  <2>10. e.content[x] = d.content[x] /\ d.content[x] \in [0 .. BSIZE - 1 -> Nat]
    BY <2>7, <2>9, DiskFields
  <2>11. ASSUME NEW y \in Slot PROVE Entry(d2, a, y) = IF y = k THEN b ELSE Entry(d, a, y)
    <3>1. CASE y <= NDIRECT
      <4>1. y # k
        BY <3>1, Constants, Sizes, SMT
      <4> QED BY <3>1, <4>1 DEF Entry
    <3>2. CASE ~(y <= NDIRECT)
      <4>1. y > NDIRECT /\ y - NDIRECT - 1 \in 0 .. BSIZE - 1
        <5>1. y > NDIRECT
          BY <3>2, Sizes, Constants, SMT
        <5> QED BY <5>1, Sizes
      <4>2. Entry(d2, a, y) = d2.content[x][y - NDIRECT - 1] /\ Entry(d, a, y) = d.content[x][y - NDIRECT - 1]
        BY <3>2, <2>4, <2>7 DEF Entry
      <4>3. y # k => y - NDIRECT - 1 # j
        BY <2>3, Sizes, Constants, SMT
      <4>4. d2.content[x][y - NDIRECT - 1] = IF y = k THEN b ELSE d.content[x][y - NDIRECT - 1]
        BY <4>1, <4>3, <2>3, <2>7, <2>8, <2>10
      <4> QED BY <4>2, <4>4
    <3> QED BY <3>1, <3>2
  <2>12. d2.content[b] = Zeroes
    BY <2>6, <2>7, <2>8, <2>9
  <2>13. \A c \in Block : c # b /\ c # x => d2.content[c] = d.content[c]
    BY <2>8, <2>9
  <2>14. Extends(d, a, d2, a, k, b)
    BY <2>4, <2>6, <2>8, <2>11, <2>12, <2>13 DEF Extends
  <2> QED BY <2>1, <2>2, <2>3, <2>4, <2>5, <2>14

\* A block that was free is named at a place that named none.
<1>NamedAdd.
  ASSUME NEW H \in Naming, NEW U \in SUBSET Block, Named(H, U),
         NEW i \in Inum, NEW h \in [Slot -> Nat], NEW k \in Slot, NEW b \in Block,
         H[i][k] = 0, b \notin U,
         \A x \in Slot : h[x] = IF x = k THEN b ELSE H[i][x]
  PROVE  Named([H EXCEPT ![i] = h], U \cup {b})
  <2> USE <1>NamedAdd
  <2>1. PICK G : G = [H EXCEPT ![i] = h]
    OBVIOUS
  <2>2. \A j \in Inum : \A x \in Slot : G[j][x] = IF j = i /\ x = k THEN b ELSE H[j][x]
    BY <2>1 DEF Naming
  <2>3. b >= nmeta /\ b # 0 /\ b \in Nat
    <3>1. b \in Nat /\ b \notin 0 .. nmeta - 1
      BY Layout DEF Named
    <3> QED BY <3>1, Layout, SMT
  <2>4. 0 .. nmeta - 1 \subseteq U \cup {b}
    BY DEF Named
  <2>5. Marked(G, U \cup {b})
    <3>1. ASSUME NEW j \in Inum, NEW x \in Slot, G[j][x] # 0
          PROVE  G[j][x] \in U \cup {b} /\ G[j][x] >= nmeta
      <4>1. CASE j = i /\ x = k
        BY <4>1, <2>2, <2>3
      <4>2. CASE ~(j = i /\ x = k)
        <5>1. G[j][x] = H[j][x]
          BY <4>2, <2>2
        <5> QED BY <3>1, <5>1 DEF Named, Marked
      <4> QED BY <4>1, <4>2
    <3> QED BY <3>1 DEF Marked
  <2>6. ASSUME NEW j \in Inum, NEW l \in Inum, NEW x \in Slot, NEW y \in Slot,
               G[j][x] = G[l][y], G[j][x] # 0
        PROVE  j = l /\ x = y
    <3>1. \A m \in Inum : \A z \in Slot : H[m][z] # b
      BY <2>3 DEF Named, Marked
    <3>2. Once(H)
      BY DEF Named
    <3>3. G[j][x] = (IF j = i /\ x = k THEN b ELSE H[j][x])
      BY <2>2
    <3>4. G[l][y] = (IF l = i /\ y = k THEN b ELSE H[l][y])
      BY <2>2
    <3>5. CASE j = i /\ x = k
      BY <3>1, <3>3, <3>4, <3>5, <2>3, <2>6
    <3>6. CASE l = i /\ y = k
      BY <3>1, <3>3, <3>4, <3>6, <2>3, <2>6
    <3>7. CASE ~(j = i /\ x = k) /\ ~(l = i /\ y = k)
      <4>1. H[j][x] = H[l][y] /\ H[j][x] # 0
        BY <3>3, <3>4, <3>7, <2>6
      <4> QED BY <3>2, <4>1, SMT DEF Once
    <3> QED BY <3>5, <3>6, <3>7
  <2>7. ASSUME NEW c \in U \cup {b}, c >= nmeta PROVE \E j \in Inum : \E x \in Slot : G[j][x] = c
    <3>1. CASE c = b
      <4>1. G[i][k] = c
        BY <3>1, <2>2
      <4> QED BY <4>1
    <3>2. CASE c # b
      <4>1. PICK j \in Inum, x \in Slot : H[j][x] = c
        BY <3>2, <2>7 DEF Named, NoLeak
      <4>2. c # 0
        BY <2>7, Layout, SMT
      <4>3. G[j][x] = c
        BY <4>1, <4>2, <2>2
      <4> QED BY <4>3
    <3> QED BY <3>1, <3>2
  <2>8. Once(G)
    BY <2>6, SMT DEF Once
  <2>9. NoLeak(G, U \cup {b})
    BY <2>7 DEF NoLeak
  <2>10. Named(G, U \cup {b})
    BY <2>4, <2>5, <2>8, <2>9 DEF Named
  <2> QED BY <2>1, <2>10

\* A block that is allocated for file i is named by it alone, and the units
\* of the file that it holds, if any, become 0.
<1>ExtendNames.
  ASSUME NEW d \in Disk, NEW a \in Addrs, NEW H \in Naming, NEW i \in Inum, Named(H, d.used),
         Lists(H[i], d, a), NEW k \in Slot, NEW d2, NEW a2, NEW b,
         Extends(d, a, d2, a2, k, b)
  PROVE  Named([H EXCEPT ![i] = Entries(d2, a2)], d2.used)
  <2> USE <1>ExtendNames
  <2>1. PICK h : h = Entries(d2, a2)
    OBVIOUS
  <2>2. d2 \in Disk /\ a2 \in Addrs /\ b \in Block /\ b \notin d.used /\ d2.used = d.used \cup {b}
    BY DEF Extends
  <2>3. h \in [Slot -> Nat]
    BY <2>1, <2>2, EntriesType
  <2>31. \A x \in Slot : h[x] = Entry(d2, a2, x)
    BY <2>1 DEF Entries
  <2>4. \A x \in Slot : H[i][x] = Entry(d, a, x)
    BY DEF Lists, Entries
  <2>5. H[i][k] = 0
    BY <2>4 DEF Extends
  <2>6. \A x \in Slot : h[x] = IF x = k THEN b ELSE H[i][x]
    BY <2>31, <2>4 DEF Extends
  <2>7. d.used \in SUBSET Block
    BY DiskFields
  <2>8. Named([H EXCEPT ![i] = h], d.used \cup {b})
    BY <2>2, <2>3, <2>5, <2>6, <2>7, <1>NamedAdd
  <2> QED BY <2>1, <2>2, <2>8

\* A block that is allocated for file i leaves the other files as they were.
<1>ExtendKeeps.
  ASSUME NEW d \in Disk, NEW a \in Addrs, NEW H \in Naming, NEW i \in Inum, Named(H, d.used),
         Lists(H[i], d, a), NEW k \in Slot, NEW d2, NEW a2, NEW b,
         Extends(d, a, d2, a2, k, b)
  PROVE  Kept(H, i, d, d2)
  <2> USE <1>ExtendKeeps
  <2> SUFFICES ASSUME NEW j \in Inum, NEW aj \in Addrs, j # i, Lists(H[j], d, aj)
               PROVE  Alike(d, d2, aj)
    BY DEF Kept
  <2>1. d2 \in Disk /\ b \in Block /\ b \notin d.used
    BY DEF Extends
  <2>2. \A x \in Slot : H[j][x] = Entry(d, aj, x)
    BY DEF Lists, Entries
  <2>3. H[i][NDIRECT] = a[NDIRECT] /\ NDIRECT <= NDIRECT /\ NDIRECT \in Slot
    BY Pointer, PointerSlot
  <2>4. ASSUME NEW x \in Slot, Entry(d, aj, x) # 0
        PROVE  d2.content[Entry(d, aj, x)] = d.content[Entry(d, aj, x)]
    <3>1. H[j][x] = Entry(d, aj, x)
      BY <2>2
    <3>2. H[j][x] \in Block /\ H[j][x] \in d.used
      BY <3>1, <2>4, NamedBlock
    <3>3. H[j][x] # a[NDIRECT]
      <4>1. H[j][x] # 0
        BY <3>1, <2>4
      <4>2. H[j][x] # H[i][NDIRECT]
        <5>1. NDIRECT \in Slot
          BY <2>3
        <5> QED BY <4>1, <5>1, NamedApart
      <4> QED BY <4>2, <2>3
    <3> QED BY <3>1, <3>2, <3>3, <2>1 DEF Extends
  <2>5. ASSUME NEW x \in Slot PROVE Entry(d2, aj, x) = Entry(d, aj, x)
    <3>1. CASE x <= NDIRECT
      BY <3>1 DEF Entry
    <3>2. CASE ~(x <= NDIRECT)
      <4>1. Entry(d, aj, NDIRECT) = aj[NDIRECT]
        BY <2>3 DEF Entry
      <4>2. aj[NDIRECT] # 0 => d2.content[aj[NDIRECT]] = d.content[aj[NDIRECT]]
        BY <4>1, <2>3, <2>4
      <4> QED BY <3>2, <4>2 DEF Entry
    <3> QED BY <3>1, <3>2
  <2> QED BY <2>1, <2>4, <2>5, AlikeIf

\* The units of the file are as they were, and those of the new block are 0.
<1>ExtendUnits.
  ASSUME NEW d \in Disk, NEW a \in Addrs, NEW H \in Naming, NEW i \in Inum, Named(H, d.used),
         Lists(H[i], d, a), NEW k \in Slot, NEW d2, NEW a2, NEW b,
         Extends(d, a, d2, a2, k, b)
  PROVE  Zeroed(d, a, d2, a2, k)
  <2> USE <1>ExtendUnits
  <2> SUFFICES ASSUME NEW u \in Offset
               PROVE  Unit(d2, a2, u) = IF SlotOf(u \div BSIZE) = k THEN 0 ELSE Unit(d, a, u)
    BY DEF Zeroed
  <2>1. PICK x \in Slot : /\ x = SlotOf(u \div BSIZE) /\ x # NDIRECT
                          /\ Address(d2, a2, u \div BSIZE) = Entry(d2, a2, x)
                          /\ Address(d, a, u \div BSIZE) = Entry(d, a, x)
    BY OffsetBlock, AddressEntry
  <2>2. Entry(d2, a2, x) = IF x = k THEN b ELSE Entry(d, a, x)
    BY DEF Extends
  <2>3. b # 0 /\ b \notin d.used /\ d2.content[b] = Zeroes
    <3>1. 0 \in d.used
      <4>1. 0 \in 0 .. nmeta - 1
        BY Layout, SMT
      <4> QED BY <4>1 DEF Named
    <3> QED BY <3>1 DEF Extends
  <2>4. CASE x = k
    <3>1. Zeroes[u % BSIZE] = 0
      BY OffsetBlock DEF Zeroes
    <3> QED BY <2>1, <2>2, <2>3, <2>4, <3>1 DEF Unit
  <2>5. CASE x # k
    <3>1. H[i][x] = Entry(d, a, x)
      BY DEF Lists, Entries
    <3>2. H[i][NDIRECT] = a[NDIRECT] /\ NDIRECT \in Slot
      BY Pointer, PointerSlot
    <3>3. ASSUME Entry(d, a, x) # 0 PROVE d2.content[Entry(d, a, x)] = d.content[Entry(d, a, x)]
      <4>1. H[i][x] \in Block /\ H[i][x] \in d.used
        BY <3>1, <3>3, NamedBlock
      <4>2. H[i][x] # a[NDIRECT]
        <5>1. H[i][x] # 0
          BY <3>1, <3>3
        <5>2. H[i][x] # H[i][NDIRECT]
          BY <5>1, <3>2, <2>1, NamedApartIn
        <5> QED BY <5>2, <3>2
      <4> QED BY <3>1, <4>1, <4>2, <2>3 DEF Extends
    <3> QED BY <2>1, <2>2, <2>5, <3>3 DEF Unit
  <2> QED BY <2>1, <2>4, <2>5

\* The file gets its indirect block: its units are as they were.
<1>GrowPointer.
  ASSUME NEW d \in Disk, NEW a \in Addrs, NEW H \in Naming, NEW i \in Inum, Named(H, d.used),
         Lists(H[i], d, a), NEW d2, NEW a2, NEW b, Extends(d, a, d2, a2, NDIRECT, b)
  PROVE  Grows(H, i, d, a, d2, a2, {})
  <2> USE <1>GrowPointer
  <2>1. ASSUME NEW u \in Offset PROVE Unit(d2, a2, u) = Unit(d, a, u)
    <3>1. SlotOf(u \div BSIZE) # NDIRECT
      BY OffsetBlock, AddressEntry
    <3>2. Zeroed(d, a, d2, a2, NDIRECT)
      BY PointerSlot, <1>ExtendUnits
    <3> QED BY <3>1, <3>2 DEF Zeroed
  <2>2. Named([H EXCEPT ![i] = Entries(d2, a2)], d2.used)
    BY PointerSlot, <1>ExtendNames
  <2>3. Kept(H, i, d, d2)
    BY PointerSlot, <1>ExtendKeeps
  <2>4. d2 \in Disk /\ a2 \in Addrs /\ d2.inode = d.inode /\ d2.freeinode = d.freeinode
    BY DEF Extends
  <2> QED BY <2>1, <2>2, <2>3, <2>4 DEF Grows

\* The file gets block bn: the units in it become 0.
<1>GrowBlock.
  ASSUME NEW d \in Disk, NEW a \in Addrs, NEW H \in Naming, NEW i \in Inum, Named(H, d.used),
         Lists(H[i], d, a), NEW d2, NEW a2, NEW b, NEW bn \in 0 .. MAXFILE - 1,
         Extends(d, a, d2, a2, SlotOf(bn), b)
  PROVE  Grows(H, i, d, a, d2, a2, {bn})
  <2> USE <1>GrowBlock
  <2>0. PICK k \in Slot : k = SlotOf(bn)
    BY AddressEntry
  <2>1. Extends(d, a, d2, a2, k, b)
    BY <2>0
  <2>2. ASSUME NEW u \in Offset
        PROVE  Unit(d2, a2, u) = IF u \div BSIZE \in {bn} /\ Unit(d, a, u) = -1 THEN 0 ELSE Unit(d, a, u)
    <3>1. Unit(d2, a2, u) = IF SlotOf(u \div BSIZE) = k THEN 0 ELSE Unit(d, a, u)
      <4>1. Zeroed(d, a, d2, a2, k)
        BY <2>1, <1>ExtendUnits
      <4> QED BY <4>1 DEF Zeroed
    <3>2. CASE u \div BSIZE = bn
      <4>1. Address(d, a, u \div BSIZE) = 0
        BY <3>2, <2>0, <2>1, AddressEntry DEF Extends
      <4>2. Unit(d, a, u) = -1
        BY <4>1 DEF Unit
      <4> QED BY <3>1, <3>2, <4>2, <2>0
    <3>3. CASE u \div BSIZE # bn
      <4>1. SlotOf(u \div BSIZE) # k
        BY <3>3, <2>0, OffsetBlock, SlotOfOne
      <4> QED BY <3>1, <3>3, <4>1
    <3> QED BY <3>2, <3>3
  <2>3. Named([H EXCEPT ![i] = Entries(d2, a2)], d2.used)
    BY <2>1, <1>ExtendNames
  <2>4. Kept(H, i, d, d2)
    BY <2>1, <1>ExtendKeeps
  <2>5. d2 \in Disk /\ a2 \in Addrs /\ d2.inode = d.inode /\ d2.freeinode = d.freeinode
    BY <2>1 DEF Extends
  <2> QED BY <2>2, <2>3, <2>4, <2>5 DEF Grows

\* The file gets one block after the other.
<1>GrowTwice.
  ASSUME NEW d \in Disk, NEW a \in Addrs, NEW H \in Naming, NEW i \in Inum,
         NEW d1, NEW a1, NEW d2, NEW a2, NEW B, NEW G, G = [H EXCEPT ![i] = Entries(d1, a1)],
         Grows(H, i, d, a, d1, a1, {}), Grows(G, i, d1, a1, d2, a2, B)
  PROVE  Grows(H, i, d, a, d2, a2, B)
  <2> USE <1>GrowTwice
  <2>1. \A j \in Inum : j # i => G[j] = H[j]
    BY DEF Naming
  <2>2. [G EXCEPT ![i] = Entries(d2, a2)] = [H EXCEPT ![i] = Entries(d2, a2)]
    BY DEF Naming
  <2>3. ASSUME NEW j \in Inum, NEW c \in Addrs, j # i, Lists(H[j], d, c) PROVE Alike(d, d2, c)
    <3>1. Alike(d, d1, c)
      BY <2>3 DEF Grows, Kept
    <3>2. Lists(G[j], d1, c)
      BY <2>1, <2>3, <3>1 DEF Lists, Alike
    <3>3. Alike(d1, d2, c)
      BY <2>3, <3>2 DEF Grows, Kept
    <3> QED BY <3>1, <3>3 DEF Alike
  <2>4. Kept(H, i, d, d2)
    BY <2>3 DEF Kept
  <2>5. ASSUME NEW u \in Offset
        PROVE  Unit(d2, a2, u) = IF u \div BSIZE \in B /\ Unit(d, a, u) = -1 THEN 0 ELSE Unit(d, a, u)
    <3>1. Unit(d1, a1, u) = Unit(d, a, u)
      BY DEF Grows
    <3>2. Unit(d2, a2, u) = IF u \div BSIZE \in B /\ Unit(d1, a1, u) = -1 THEN 0 ELSE Unit(d1, a1, u)
      BY DEF Grows
    <3> QED BY <3>1, <3>2
  <2>6. /\ d2 \in Disk /\ a2 \in Addrs /\ d2.inode = d.inode /\ d2.freeinode = d.freeinode
        /\ Named([H EXCEPT ![i] = Entries(d2, a2)], d2.used)
    BY <2>2 DEF Grows
  <2> QED BY <2>4, <2>5, <2>6 DEF Grows

\* A block that is allocated for a block of the file is one it gets.
<1>ExtendGets.
  ASSUME NEW H, NEW i, NEW d, NEW a, Tracks(H, i, d, a), NEW bn \in 0 .. MAXFILE - 1,
         NEW d2, NEW a2, NEW b, Extends(d, a, d2, a2, SlotOf(bn), b)
  PROVE  Gets(H, i, d, a, d2, a2, bn, b)
  <2> USE <1>ExtendGets
  <2>1. Grows(H, i, d, a, d2, a2, {bn})
    BY <1>GrowBlock DEF Tracks
  <2>2. Address(d2, a2, bn) = Entry(d2, a2, SlotOf(bn)) /\ SlotOf(bn) \in Slot
    BY AddressEntry
  <2>3. Entry(d2, a2, SlotOf(bn)) = b
    BY <2>2 DEF Extends
  <2>4. b \in Block /\ b \notin d.used /\ d2.used = d.used \cup {b}
    BY DEF Extends
  <2>5. b # 0
    BY <2>4, TrackedPointer
  <2> QED BY <2>1, <2>2, <2>3, <2>4, <2>5 DEF Gets

\* bmap() of a direct block that is not there.
<1>GetDirect.
  ASSUME NEW H, NEW i, NEW d, NEW a, Tracks(H, i, d, a), NEW bn \in 0 .. MAXFILE - 1,
         bn < NDIRECT, a[bn] = 0, FreeBlocks(d) # {}
  PROVE  Gets(H, i, d, a, Balloc(d), [a EXCEPT ![bn] = Min(FreeBlocks(d))], bn, Min(FreeBlocks(d)))
  <2> USE <1>GetDirect
  <2>1. bn \in 0 .. NDIRECT /\ SlotOf(bn) = bn
    BY Constants, Sizes, SMT DEF SlotOf
  <2>2. 0 \in d.used /\ (a[NDIRECT] # 0 => a[NDIRECT] \in d.used)
    BY TrackedPointer
  <2>3. d \in Disk /\ a \in Addrs
    BY DEF Tracks
  <2>4. Extends(d, a, Balloc(d), [a EXCEPT ![bn] = Min(FreeBlocks(d))], bn, Min(FreeBlocks(d)))
    BY <2>1, <2>2, <2>3, <1>ExtendAddress
  <2> QED BY <2>1, <2>4, <1>ExtendGets

\* bmap() of a block that the indirect block should list.
<1>GetListed.
  ASSUME NEW H, NEW i, NEW d, NEW a, Tracks(H, i, d, a), NEW bn \in 0 .. MAXFILE - 1,
         ~(bn < NDIRECT), a[NDIRECT] # 0, Entry(d, a, SlotOf(bn)) = 0, FreeBlocks(d) # {}
  PROVE  Gets(H, i, d, a, PutEntry(Balloc(d), a[NDIRECT], bn - NDIRECT, Min(FreeBlocks(d))),
              a, bn, Min(FreeBlocks(d)))
  <2> USE <1>GetListed
  <2>1. SlotOf(bn) - NDIRECT - 1 = bn - NDIRECT /\ SlotOf(bn) > NDIRECT
    BY Constants, Sizes, SMT DEF SlotOf
  <2>2. SlotOf(bn) \in Slot
    BY AddressEntry
  <2>3. d \in Disk /\ a \in Addrs /\ a[NDIRECT] \in d.used
    BY TrackedPointer DEF Tracks
  <2>4. Extends(d, a, PutEntry(Balloc(d), a[NDIRECT], SlotOf(bn) - NDIRECT - 1, Min(FreeBlocks(d))),
                a, SlotOf(bn), Min(FreeBlocks(d)))
    BY <2>1, <2>2, <2>3, <1>ExtendIndirect
  <2> QED BY <2>1, <2>4, <1>ExtendGets

\* After the indirect block is allocated.
<1>GetPointer.
  ASSUME NEW H, NEW i, NEW d, NEW a, Tracks(H, i, d, a), a[NDIRECT] = 0, FreeBlocks(d) # {},
         NEW d1, d1 = Balloc(d), NEW x, x = Min(FreeBlocks(d)), NEW a1, a1 = [a EXCEPT ![NDIRECT] = x],
         NEW bn \in 0 .. MAXFILE - 1, ~(bn < NDIRECT)
  PROVE  Pointed(H, i, d, a, d1, a1, x, bn)
  <2> USE <1>GetPointer
  <2> DEFINE G == [H EXCEPT ![i] = Entries(d1, a1)]
  <2>1. NDIRECT \in 0 .. NDIRECT
    BY Constants, SMT
  <2>2. 0 \in d.used /\ d \in Disk /\ a \in Addrs /\ H \in Naming /\ i \in Inum
    BY TrackedPointer DEF Tracks
  <2>3. Extends(d, a, d1, a1, NDIRECT, x)
    BY <2>1, <2>2, <1>ExtendAddress
  <2>4. Grows(H, i, d, a, d1, a1, {})
    BY <2>3, <1>GrowPointer DEF Tracks
  <2>5. x \in Block /\ x \notin d.used /\ d1.used = d.used \cup {x} /\ d1 \in Disk /\ a1 \in Addrs
    BY <2>3 DEF Extends
  <2>6. x # 0
    BY <2>2, <2>5
  <2>7. a1[NDIRECT] = x
    BY <2>1, <2>2 DEF Addrs
  <2>8. Tracks(G, i, d1, a1)
    <3>1. Named(G, d1.used)
      BY <2>4 DEF Grows
    <3>2. G \in Naming /\ G[i] = Entries(d1, a1)
      BY <2>2, <2>5, EntriesType DEF Naming
    <3> QED BY <3>1, <3>2, <2>2, <2>5 DEF Tracks, Lists
  <2>9. Entry(d1, a1, SlotOf(bn)) = 0
    <3>1. SlotOf(bn) \in Slot /\ SlotOf(bn) # NDIRECT /\ ~(SlotOf(bn) <= NDIRECT)
      <4>1. ~(SlotOf(bn) <= NDIRECT)
        BY Constants, Sizes, SMT DEF SlotOf
      <4> QED BY <4>1, AddressEntry
    <3>2. Entry(d, a, SlotOf(bn)) = 0
      BY <3>1 DEF Entry
    <3> QED BY <3>1, <3>2, <2>3 DEF Extends
  <2> QED BY <2>4, <2>5, <2>6, <2>7, <2>8, <2>9 DEF Pointed

\* There is a block for each that is lacking.
<1>OneFree.
  ASSUME NEW d \in Disk, Cardinality(FreeBlocks(d)) >= 1
  PROVE  FreeBlocks(d) # {}
  <2> USE <1>OneFree
  <2> SUFFICES ASSUME FreeBlocks(d) = {} PROVE FALSE
    OBVIOUS
  <2>1. Cardinality(FreeBlocks(d)) = 0
    BY FS_EmptySet
  <2> QED BY <2>1, SMT

\* With two free blocks, one is left after balloc().
<1>TwoFree.
  ASSUME NEW d \in Disk, Cardinality(FreeBlocks(d)) >= 2
  PROVE  FreeBlocks(d) # {} /\ FreeBlocks(Balloc(d)) # {}
  <2> USE <1>TwoFree
  <2>1. Cardinality(FreeBlocks(d)) \in Nat /\ IsFiniteSet(FreeBlocks(d))
    BY FreeFinite
  <2>2. FreeBlocks(d) # {}
    <3>1. Cardinality(FreeBlocks(d)) >= 1
      BY <2>1, SMT
    <3> QED BY <3>1, <1>OneFree
  <2>3. PICK x : x = Min(FreeBlocks(d))
    OBVIOUS
  <2>4. x \in FreeBlocks(d)
    BY <2>2, <2>3, <1>BallocFields DEF FreeBlocks
  <2>5. FreeBlocks(Balloc(d)) = FreeBlocks(d) \ {x}
    <3>1. Balloc(d).used = d.used \cup {x}
      BY <2>2, <2>3, <1>BallocFields
    <3> QED BY <3>1 DEF FreeBlocks
  <2>6. Cardinality(FreeBlocks(d) \ {x}) = Cardinality(FreeBlocks(d)) - 1
    BY <2>1, <2>4, FS_RemoveElement
  <2>7. Balloc(d) \in Disk
    BY <2>2, <1>BallocFields
  <2>8. Cardinality(FreeBlocks(Balloc(d))) >= 1
    BY <2>1, <2>5, <2>6, SMT
  <2> QED BY <2>2, <2>7, <2>8, <1>OneFree

\* A unit is there if its block is.
<1>UnitThere.
  ASSUME NEW H, NEW i, NEW d, NEW a, Tracks(H, i, d, a), NEW u \in Offset,
         Address(d, a, u \div BSIZE) # 0
  PROVE  /\ Address(d, a, u \div BSIZE) \in Block
         /\ Unit(d, a, u) = d.content[Address(d, a, u \div BSIZE)][u % BSIZE]
         /\ Unit(d, a, u) \in Nat
  <2> USE <1>UnitThere
  <2>1. PICK k \in Slot : Address(d, a, u \div BSIZE) = Entry(d, a, k)
    BY OffsetBlock, AddressEntry
  <2>2. H[i][k] = Address(d, a, u \div BSIZE)
    BY <2>1 DEF Tracks, Lists, Entries
  <2>3. H[i][k] \in Block
    BY <2>2, NamedBlock DEF Tracks
  <2>4. PICK b \in Block : b = Address(d, a, u \div BSIZE)
    BY <2>2, <2>3
  <2>5. Unit(d, a, u) = d.content[b][u % BSIZE]
    BY <2>4 DEF Unit
  <2>6. u % BSIZE \in 0 .. BSIZE - 1
    BY OffsetBlock
  <2>7. d.content[b] \in [0 .. BSIZE - 1 -> Nat]
    BY DiskFields DEF Tracks
  <2>8. d.content[b][u % BSIZE] \in Nat
    BY <2>6, <2>7
  <2> QED BY <2>4, <2>5, <2>8

\* bmap() of a block that is there.
<1>MapNone.
  ASSUME NEW H, NEW i, NEW d, NEW a, Tracks(H, i, d, a), NEW bn \in 0 .. MAXFILE - 1,
         Address(d, a, bn) # 0
  PROVE  Mapped(H, i, d, a, bn, bmap(d, a, bn))
  <2> USE <1>MapNone
  <2>1. Lacking(d, a, bn) = 0
    BY DEF Lacking
  <2>2. PICK m : m = bmap(d, a, bn)
    OBVIOUS
  <2>3. m = [d |-> d, addrs |-> a, wrote |-> {}]
    BY <2>1, <2>2 DEF bmap
  <2>4. m.d = d /\ m.addrs = a /\ m.wrote = {}
    BY <2>3
  <2>5. [H EXCEPT ![i] = Entries(d, a)] = H
    BY DEF Tracks, Lists, Naming
  <2>6. Kept(H, i, d, d)
    BY DEF Kept, Alike
  <2>7. ASSUME NEW u \in Offset
        PROVE  Unit(d, a, u) = IF u \div BSIZE \in {bn} /\ Unit(d, a, u) = -1 THEN 0 ELSE Unit(d, a, u)
    <3>1. CASE u \div BSIZE = bn
      <4>1. Unit(d, a, u) \in Nat
        BY <3>1, <1>UnitThere
      <4>2. Unit(d, a, u) # -1
        BY <4>1, SMT
      <4> QED BY <4>2
    <3>2. CASE u \div BSIZE # bn
      BY <3>2
    <3> QED BY <3>1, <3>2
  <2>8. Grows(H, i, d, a, d, a, {bn})
    BY <2>5, <2>6, <2>7 DEF Grows, Tracks
  <2> QED BY <2>2, <2>4, <2>8 DEF Mapped

\* bmap() of a direct block.
<1>MapDirect.
  ASSUME NEW H, NEW i, NEW d, NEW a, Tracks(H, i, d, a), NEW bn \in 0 .. MAXFILE - 1,
         Address(d, a, bn) = 0, bn < NDIRECT, Cardinality(FreeBlocks(d)) >= 1
  PROVE  Mapped(H, i, d, a, bn, bmap(d, a, bn))
  <2> USE <1>MapDirect
  <2>1. PICK b : b = Min(FreeBlocks(d))
    OBVIOUS
  <2>2. PICK e : e = Balloc(d)
    OBVIOUS
  <2>3. ~(bn >= NDIRECT) /\ NDIRECT \in 0 .. NDIRECT /\ bn # NDIRECT /\ bn \in 0 .. NDIRECT
    BY Constants, Sizes, SMT
  <2>4. Lacking(d, a, bn) # 0
    BY <2>3, SMT DEF Lacking
  <2>5. PICK m : m = bmap(d, a, bn)
    OBVIOUS
  <2>6. m.d = e /\ m.addrs = [a EXCEPT ![bn] = b]
        /\ m.wrote = (e.used \ d.used) \cup {BBLOCK(x) : x \in e.used \ d.used}
    BY <2>1, <2>2, <2>3, <2>4, <2>5 DEF bmap
  <2>7. d \in Disk /\ FreeBlocks(d) # {} /\ a[bn] = 0
    BY <1>OneFree DEF Tracks, Address
  <2>8. Gets(H, i, d, a, e, m.addrs, bn, b)
    <3>1. Gets(H, i, d, a, Balloc(d), [a EXCEPT ![bn] = Min(FreeBlocks(d))], bn, Min(FreeBlocks(d)))
      BY <2>7, <1>GetDirect
    <3> QED BY <3>1, <2>1, <2>2, <2>6
  <2>9. e.used \ d.used = {b}
    BY <2>8 DEF Gets
  <2>10. m.wrote \subseteq {b, BBLOCK(b)}
    BY <2>6, <2>9
  <2>11. m.addrs[NDIRECT] = a[NDIRECT]
    BY <2>3, <2>6 DEF Tracks, Addrs
  <2> QED BY <2>5, <2>6, <2>8, <2>10, <2>11 DEF Mapped, Gets

\* bmap() of a block that the indirect block lists.
<1>MapListed.
  ASSUME NEW H, NEW i, NEW d, NEW a, Tracks(H, i, d, a), NEW bn \in 0 .. MAXFILE - 1,
         Address(d, a, bn) = 0, ~(bn < NDIRECT), a[NDIRECT] # 0, Cardinality(FreeBlocks(d)) >= 1
  PROVE  Mapped(H, i, d, a, bn, bmap(d, a, bn))
  <2> USE <1>MapListed
  <2>1. PICK b : b = Min(FreeBlocks(d))
    OBVIOUS
  <2>2. PICK e : e = Balloc(d)
    OBVIOUS
  <2>3. PICK d2 : d2 = PutEntry(e, a[NDIRECT], bn - NDIRECT, b)
    OBVIOUS
  <2>4. Lacking(d, a, bn) # 0
    BY SMT DEF Lacking
  <2>5. PICK m : m = bmap(d, a, bn)
    OBVIOUS
  <2>6. m.d = d2 /\ m.addrs = a
        /\ m.wrote = ((e.used \ d.used) \cup {BBLOCK(x) : x \in e.used \ d.used}) \cup {a[NDIRECT]}
    BY <2>1, <2>2, <2>3, <2>4, <2>5 DEF bmap, PutEntry
  <2>7. d \in Disk /\ FreeBlocks(d) # {} /\ Entry(d, a, SlotOf(bn)) = 0
    BY <1>OneFree, AddressEntry DEF Tracks
  <2>8. Gets(H, i, d, a, d2, a, bn, b)
    BY <2>1, <2>2, <2>3, <2>7, <1>GetListed
  <2>9. e.used \ d.used = {b}
    BY <2>1, <2>2, <2>7, <1>BallocFields
  <2>10. m.wrote \subseteq {b, BBLOCK(b)} \cup Ind(a[NDIRECT])
    BY <2>6, <2>9 DEF Ind
  <2> QED BY <2>5, <2>6, <2>8, <2>10 DEF Mapped, Gets

\* bmap() allocates the indirect block and the block.
<1>MapBoth.
  ASSUME NEW H, NEW i, NEW d, NEW a, Tracks(H, i, d, a), NEW bn \in 0 .. MAXFILE - 1,
         Address(d, a, bn) = 0, ~(bn < NDIRECT), a[NDIRECT] = 0, Cardinality(FreeBlocks(d)) >= 2
  PROVE  Mapped(H, i, d, a, bn, bmap(d, a, bn))
  <2> USE <1>MapBoth
  <2>1. PICK x : x = Min(FreeBlocks(d))
    OBVIOUS
  <2>2. PICK d1 : d1 = Balloc(d)
    OBVIOUS
  <2>3. PICK a1 : a1 = [a EXCEPT ![NDIRECT] = x]
    OBVIOUS
  <2>4. PICK b : b = Min(FreeBlocks(d1))
    OBVIOUS
  <2>5. PICK e : e = Balloc(d1)
    OBVIOUS
  <2>6. PICK d2 : d2 = PutEntry(e, a1[NDIRECT], bn - NDIRECT, b)
    OBVIOUS
  <2>7. PICK m : m = bmap(d, a, bn)
    OBVIOUS
  <2>8. Lacking(d, a, bn) # 0 /\ bn >= NDIRECT
    BY Constants, Sizes, SMT DEF Lacking
  <2>9. m.d = d2 /\ m.addrs = a1
        /\ m.wrote = ((e.used \ d.used) \cup {BBLOCK(y) : y \in e.used \ d.used}) \cup {a1[NDIRECT]}
    BY <2>1, <2>2, <2>3, <2>4, <2>5, <2>6, <2>7, <2>8 DEF bmap, PutEntry
  <2>10. d \in Disk /\ FreeBlocks(d) # {} /\ FreeBlocks(d1) # {} /\ H \in Naming /\ i \in Inum /\ a \in Addrs
    BY <2>2, <1>TwoFree DEF Tracks
  <2>11. PICK G : G = [H EXCEPT ![i] = Entries(d1, a1)]
    OBVIOUS
  <2>12. /\ Grows(H, i, d, a, d1, a1, {}) /\ Tracks(G, i, d1, a1)
         /\ a1[NDIRECT] = x /\ x # 0 /\ x \in Block /\ x \notin d.used
         /\ d1.used = d.used \cup {x}
         /\ Entry(d1, a1, SlotOf(bn)) = 0
    <3>1. Pointed(H, i, d, a, d1, a1, x, bn)
      BY <2>1, <2>2, <2>3, <2>10, <1>GetPointer
    <3> QED BY <3>1, <2>11 DEF Pointed
  <2>13. Gets(G, i, d1, a1, d2, a1, bn, b)
    BY <2>4, <2>5, <2>6, <2>10, <2>12, <1>GetListed
  <2>14. e.used \ d.used = {x, b}
    <3>1. d1 \in Disk
      BY <2>12 DEF Tracks
    <3>2. e.used = d1.used \cup {b} /\ b \notin d1.used
      BY <3>1, <2>4, <2>5, <2>10, <1>BallocFields
    <3> QED BY <3>2, <2>12
  <2>15. m.wrote \subseteq {b, BBLOCK(b)} \cup Ind(x)
    BY <2>9, <2>12, <2>14 DEF Ind
  <2>16. Grows(H, i, d, a, d2, a1, {bn})
    BY <2>10, <2>11, <2>12, <2>13, <1>GrowTwice DEF Gets
  <2> QED BY <2>7, <2>9, <2>12, <2>13, <2>15, <2>16 DEF Mapped, Gets

<1> QED
  <2> SUFFICES
      ASSUME NEW H, NEW i, NEW d, NEW a, Tracks(H, i, d, a), NEW bn \in 0 .. MAXFILE - 1,
             ~(Cardinality(FreeBlocks(d)) < Lacking(d, a, bn))
      PROVE  Mapped(H, i, d, a, bn, bmap(d, a, bn))
    OBVIOUS
  <2>1. Cardinality(FreeBlocks(d)) \in Nat
    BY FreeFinite DEF Tracks
  <2>2. CASE Address(d, a, bn) # 0
    BY <2>2, <1>MapNone
  <2>3. CASE Address(d, a, bn) = 0 /\ bn < NDIRECT
    <3>1. ~(bn >= NDIRECT)
      BY <2>3, Constants, Sizes, SMT
    <3>2. Lacking(d, a, bn) = 1
      BY <3>1, <2>3 DEF Lacking
    <3>3. Cardinality(FreeBlocks(d)) >= 1
      BY <3>2, <2>1, SMT
    <3> QED BY <2>3, <3>3, <1>MapDirect
  <2>4. CASE Address(d, a, bn) = 0 /\ ~(bn < NDIRECT) /\ a[NDIRECT] # 0
    <3>2. Lacking(d, a, bn) = 1
      BY <2>4 DEF Lacking
    <3>3. Cardinality(FreeBlocks(d)) >= 1
      BY <3>2, <2>1, SMT
    <3> QED BY <2>4, <3>3, <1>MapListed
  <2>5. CASE Address(d, a, bn) = 0 /\ ~(bn < NDIRECT) /\ a[NDIRECT] = 0
    <3>1. bn >= NDIRECT
      BY <2>5, Constants, Sizes, SMT
    <3>2. Lacking(d, a, bn) = 2
      BY <3>1, <2>5 DEF Lacking
    <3>3. Cardinality(FreeBlocks(d)) >= 2
      BY <3>2, <2>1, SMT
    <3> QED BY <2>5, <3>3, <1>MapBoth
  <2> QED BY <2>2, <2>3, <2>4, <2>5

-----------------------------------------------------------------------------
\* The n units of c at position at become v, which makes it w.
Copied(c, w, at, n, v) == \A k \in 0 .. BSIZE - 1 :
    w[k] = IF at <= k /\ k < at + n THEN v ELSE c[k]

\* Only the indirect block matters for the entries.
LEMMA EntriesSame ==
  ASSUME NEW d, NEW d2, NEW a, a[NDIRECT] # 0 => d2.content[a[NDIRECT]] = d.content[a[NDIRECT]]
  PROVE  Entries(d2, a) = Entries(d, a)
<1>1. ASSUME NEW k \in Slot PROVE Entry(d2, a, k) = Entry(d, a, k)
  BY DEF Entry
<1> QED BY <1>1 DEF Entries

\* The other files and the entries of this one are as they were.
Stays(H, i, d, a, d2) == Kept(H, i, d, d2) /\ Lists(Entries(d, a), d2, a)

\* Block bn of the file with addresses a becomes w.
Rewritten(d, a, d2, bn, w) == \A u \in Offset :
    Unit(d2, a, u) = IF u \div BSIZE = bn THEN w[u % BSIZE] ELSE Unit(d, a, u)

\* n units v are written to file i at off, in a block that bmap() has
\* allocated and zeroed if there was none.
Stored(H, i, d, a, d2, a2, off, n, v) ==
    /\ d2 \in Disk /\ a2 \in Addrs
    /\ d2.inode = d.inode /\ d2.freeinode = d.freeinode
    /\ Named([H EXCEPT ![i] = Entries(d2, a2)], d2.used)
    /\ Kept(H, i, d, d2)
    /\ \A u \in Offset : Unit(d2, a2, u) =
          IF off <= u /\ u < off + n THEN v
          ELSE IF u \div BSIZE = off \div BSIZE /\ Unit(d, a, u) = -1 THEN 0 ELSE Unit(d, a, u)

\* After bmap() the file still lists its blocks.
LEMMA MappedTracks ==
  ASSUME NEW H, NEW i, NEW d, NEW a, Tracks(H, i, d, a), NEW bn, NEW m, Mapped(H, i, d, a, bn, m)
  PROVE  Tracks([H EXCEPT ![i] = Entries(m.d, m.addrs)], i, m.d, m.addrs)
<1>1. /\ m.d \in Disk /\ m.addrs \in Addrs
      /\ Named([H EXCEPT ![i] = Entries(m.d, m.addrs)], m.d.used)
  BY DEF Mapped, Grows
<1>2. [H EXCEPT ![i] = Entries(m.d, m.addrs)] \in Naming
      /\ [H EXCEPT ![i] = Entries(m.d, m.addrs)][i] = Entries(m.d, m.addrs)
  BY <1>1, EntriesType DEF Tracks, Naming
<1> QED BY <1>1, <1>2 DEF Tracks, Lists

-----------------------------------------------------------------------------
\* The inductive invariant: types, and
Cached == [valid : BOOLEAN, lock : 0 .. NPROC, size : 0 .. MAXFILE * BSIZE, addrs : Addrs]
Handle == [ip : 0 .. NINODES, off : 0 .. MAXFILE * BSIZE]
Trunc == {"direct", "indirect", "ind"}
Calls == [at : {"none", "chunk", "ilock", "writei", "end"} \cup Trunc, f : 0 .. NFILE,
          ip : 0 .. NINODES, n : Nat, n1 : Nat, tot : Nat, val : Nat, wrote : SUBSET Nat]
Types ==
    /\ disk \in Disk /\ durable \in Disk /\ made \in BOOLEAN
    /\ icache \in [Inum -> Cached]
    /\ file \in [File -> Handle]
    /\ call \in [Proc -> Calls]
    /\ panicked \in {"no", "full"}
    /\ DOMAIN want = Inum
    /\ ncalls \in 0 .. MaxCalls /\ ncrashes \in 0 .. MaxCrashes

\* every block is named once, by the inodes in memory where they are valid,
Gone(i) == \E p \in Proc : call[p].at = "ind" /\ call[p].ip = i
Held == [i \in Inum |-> IF Gone(i) THEN Pointers(Current[i].addrs)
                        ELSE Entries(disk, Current[i].addrs)]

\* a file with inode ino holds s and has all its blocks,
Present(d, ino) == \A u \in Offset : u < ino.size => Unit(d, ino.addrs, u) # -1
Written(d, ino, s) == s = Contents(d, ino) /\ Present(d, ino)

\* a disk that mkfs has not finished is as good as one that is in use, what
\* follows the last entry of the root directory is 0, and the entries are ".",
\* ".." and the files,
Named0(d) == Named([i \in Inum |-> Entries(d, d.inode[i].addrs)], d.used)
ImageDisk(d) ==
    /\ d \in Disk /\ Named0(d)
    /\ \A i \in Inum : Present(d, d.inode[i])
    /\ \A u \in Offset : u >= d.inode[ROOTINO].size => Unit(d, d.inode[ROOTINO].addrs, u) \in {-1, 0}
Idle ==
    /\ icache = [i \in Inum |-> Absent] /\ file = [f \in File |-> [ip |-> 0, off |-> 0]]
    /\ call = [p \in Proc |-> NoCall] /\ panicked = "no"
Image ==
    /\ Idle /\ ImageDisk(disk) /\ disk.freeinode >= 2
    /\ disk.inode[ROOTINO].size = disk.freeinode
Sound(d, w) ==
    /\ d \in Disk /\ Named0(d)
    /\ DOMAIN w = Inum /\ \A i \in Inum : Written(d, d.inode[i], w[i])

\* a process that writes or truncates a file has locked its inode x, and has
\* written few blocks,
Blk(n) == (n + BSIZE - 1) \div BSIZE
Small(w) == IsFiniteSet(w) /\ Cardinality(w \cup {IBLOCK}) <= MAXOPBLOCKS
IdleCall(c) ==
    /\ c.at \in {"none", "end"} /\ c.f = 0 /\ c.ip = 0
    /\ c.at = "end" => c.wrote \subseteq bmapstart .. nmeta - 1
ChunkCall(c, h) ==
    /\ c.at \in {"chunk", "ilock"} /\ c.ip = 0 /\ c.f \in File /\ c.n > 0
    /\ h.ip \in Inum /\ Small(c.wrote)
Counted(c, off, x) ==
    LET w == c.wrote \ Ind(x.addrs[NDIRECT])
    IN  IsFiniteSet(w) /\ Cardinality(w) <= 2 * (Blk(off + c.tot) - Blk(off)) + 1
WriteCall(p, c, h, x) ==
    /\ c.at = "writei" /\ c.f \in File /\ c.ip \in Inum /\ h.ip = c.ip
    /\ x.valid /\ x.lock = p
    /\ c.n > 0 /\ c.n1 > 0 /\ c.n1 <= max /\ c.n1 <= c.n /\ c.tot <= c.n1
    /\ h.off <= x.size /\ h.off + c.n1 <= MAXFILE * BSIZE
    /\ c.tot = 0 => c.wrote = {}
    /\ c.tot \in {0, c.n1} \/ (h.off + c.tot) % BSIZE = 0
    /\ Counted(c, h.off, x)
TruncCall(p, c, x) ==
    /\ c.at \in Trunc /\ c.f = 0 /\ c.ip \in Inum
    /\ x.valid /\ x.lock = p
    /\ c.wrote \subseteq bmapstart .. nmeta - 1
    /\ c.at # "direct" => \A k \in 0 .. NDIRECT - 1 : x.addrs[k] = 0
CallOK(p) ==
    \/ IdleCall(call[p])
    \/ ChunkCall(call[p], file[call[p].f])
    \/ WriteCall(p, call[p], file[call[p].f], icache[call[p].ip])
    \/ TruncCall(p, call[p], icache[call[p].ip])

\* an inode that is not locked is on the disk as it is in memory, and a file
\* that is being written has the contents before the write, but for what has
\* been written.
Unlocked(i) ==
    /\ icache[i].lock = 0 /\ Current[i] = disk.inode[i]
    /\ Written(disk, disk.inode[i], want[i])
Partly(d, x, off, tot, v, s) == \A u \in Offset :
    u < x.size \/ u < off + tot =>
        Unit(d, x.addrs, u) = IF off <= u /\ u < off + tot THEN v ELSE s[u + 1]
Writing(d, x, c, h, s) ==
    /\ x.size = d.inode[c.ip].size
    /\ h.off + c.tot <= x.size => x.addrs = d.inode[c.ip].addrs
    /\ Present(d, x)
    /\ Partly(d, x, h.off, c.tot, c.val, s)
Locked(i) ==
    /\ icache[i].lock \in Proc /\ call[icache[i].lock].ip = i
    /\ call[icache[i].lock].at = "writei" =>
          Writing(disk, icache[i], call[icache[i].lock], file[call[icache[i].lock].f], want[i])
InodeOK(i) == Unlocked(i) \/ Locked(i)
IInv ==
    /\ Types
    /\ ~made => Image
    /\ panicked = "no" => Named(Held, disk.used)
    /\ made => Sound(durable, dwant)
    /\ \A p \in Proc : CallOK(p)
    /\ made /\ panicked = "no" => \A i \in Inum : InodeOK(i)

-----------------------------------------------------------------------------
\* The blocks that n units take.
LEMMA BlkType ==
  ASSUME NEW o \in Nat
  PROVE  Blk(o) \in Nat
<1>1. o + BSIZE - 1 \in Nat
  BY Constants, SMT
<1> QED BY <1>1, Constants, Div DEF Blk

\* A set with one more element.
LEMMA CardAdd ==
  ASSUME NEW S, IsFiniteSet(S), NEW x, NEW k \in Nat, Cardinality(S) <= k
  PROVE  IsFiniteSet(S \cup {x}) /\ Cardinality(S \cup {x}) <= k + 1
<1>1. Cardinality(S) \in Nat
  BY FS_CardinalityType
<1>2. IsFiniteSet(S \cup {x}) /\ Cardinality(S \cup {x}) = IF x \in S THEN Cardinality(S) ELSE Cardinality(S) + 1
  BY FS_AddElement
<1> QED BY <1>1, <1>2, SMT

\* A subset has no more elements.
LEMMA CardSubset ==
  ASSUME NEW S, IsFiniteSet(S), NEW T \in SUBSET S, NEW k \in Nat, Cardinality(S) <= k
  PROVE  IsFiniteSet(T) /\ Cardinality(T) <= k
<1>1. IsFiniteSet(T) /\ Cardinality(T) <= Cardinality(S)
  BY FS_Subset
<1>2. Cardinality(S) \in Nat /\ Cardinality(T) \in Nat
  BY <1>1, FS_CardinalityType
<1> QED BY <1>1, <1>2, SMT

\* The chunks of filewrite() are small enough for a transaction.
LEMMA Chunk ==
  \E k \in Nat : max = k * BSIZE /\ k > 0 /\ 2 * k + 4 <= MAXOPBLOCKS
<1>1. PICK k : k = (MAXOPBLOCKS - 1 - 1 - 2) \div 2
  OBVIOUS
<1>2. k \in Nat /\ k > 0 /\ 2 * k + 4 <= MAXOPBLOCKS
  BY <1>1, Constants, SMT
<1> QED BY <1>1, <1>2 DEF max

\* writei() has written no more blocks than a transaction may.
LEMMA WriteSmall ==
  \A p : \A c \in Calls, h \in Handle, x \in Cached :
    /\ WriteCall(p, c, h, x)
    =>  Small(c.wrote)

\* The bounds of the number of blocks of a file of o units.
<1>BlkBounds.
  ASSUME NEW o \in Nat
  PROVE  BSIZE * Blk(o) <= o + BSIZE - 1 /\ o + BSIZE - 1 < BSIZE * Blk(o) + BSIZE
  <2>1. PICK n \in Nat : n = o + BSIZE - 1
    BY Constants, SMT
  <2>2. PICK q \in Nat : q = n \div BSIZE
    BY Constants, Div
  <2>3. PICK r \in 0 .. BSIZE - 1 : r = n % BSIZE
    BY Constants, Div
  <2>4. n = BSIZE * q + r
    BY <2>2, <2>3, Constants, Div
  <2>5. PICK f \in Nat : f = BSIZE * q
    BY Constants, SMT
  <2>6. f <= n /\ n < f + BSIZE
    BY <2>3, <2>4, <2>5, Constants, SMT
  <2>7. Blk(o) = q
    BY <2>1, <2>2 DEF Blk
  <2> QED BY <2>1, <2>5, <2>6, <2>7

\* A write of up to k blocks' units touches at most k more blocks than it begins.
<1>BlkMost.
  ASSUME NEW o \in Nat, NEW n \in Nat, NEW k \in Nat, n <= k * BSIZE
  PROVE  Blk(o + n) - Blk(o) <= k
  <2> USE <1>BlkMost
  <2>1. PICK q \in Nat : q = Blk(o)
    BY BlkType
  <2>2. o + n \in Nat
    BY SMT
  <2>3. PICK r \in Nat : r = Blk(o + n)
    BY <2>2, BlkType
  <2>4. PICK f \in Nat : f = BSIZE * q
    BY Constants, SMT
  <2>5. PICK g \in Nat : g = BSIZE * r
    BY Constants, SMT
  <2>6. f <= o + BSIZE - 1 /\ o + BSIZE - 1 < f + BSIZE
    BY <2>1, <2>4, <1>BlkBounds
  <2>7. g <= o + n + BSIZE - 1
    BY <2>2, <2>3, <2>5, <1>BlkBounds
  <2>8. SUFFICES ASSUME r > q + k PROVE FALSE
    BY <2>1, <2>3, SMT
  <2>9. BSIZE * (q + k + 1) <= BSIZE * r
    BY <2>8, Constants, SMT
  <2>10. BSIZE * (q + k + 1) = f + (k * BSIZE) + BSIZE
    BY <2>4, Constants, SMT
  <2>11. PICK t \in Nat : t = k * BSIZE
    BY Constants, SMT
  <2>12. f + t + BSIZE <= g /\ n <= t
    BY <2>5, <2>9, <2>10, <2>11
  <2> QED BY <2>6, <2>7, <2>11, <2>12, Constants, SMT

<1> QED
  <2> SUFFICES
      ASSUME NEW p, NEW c \in Calls, NEW h \in Handle, NEW x \in Cached, WriteCall(p, c, h, x)
      PROVE  Small(c.wrote)
    OBVIOUS
  <2>1. PICK k \in Nat : max = k * BSIZE /\ k > 0 /\ 2 * k + 4 <= MAXOPBLOCKS
    BY Chunk
  <2>2. PICK w : w = c.wrote \ Ind(x.addrs[NDIRECT])
    OBVIOUS
  <2>3. c.tot \in Nat /\ h.off \in Nat /\ c.n1 \in Nat
    <3>1. h.off \in 0 .. MAXFILE * BSIZE
      BY DEF Handle
    <3>2. h.off \in Nat
      BY <3>1, Sizes, SMT
    <3> QED BY <3>2 DEF Calls
  <2>4. IsFiniteSet(w) /\ Cardinality(w) <= 2 * (Blk(h.off + c.tot) - Blk(h.off)) + 1
    BY <2>2 DEF WriteCall, Counted
  <2>5. c.tot <= k * BSIZE
    <3>1. c.tot <= c.n1 /\ c.n1 <= max
      BY DEF WriteCall
    <3>2. k * BSIZE \in Nat
      BY Constants, SMT
    <3> QED BY <3>1, <3>2, <2>1, <2>3, SMT
  <2>6. Blk(h.off + c.tot) - Blk(h.off) <= k
    BY <2>3, <2>5, <1>BlkMost
  <2>7. Cardinality(w) <= 2 * k + 1
    <3>1. h.off + c.tot \in Nat
      BY <2>3, SMT
    <3>2. Blk(h.off + c.tot) \in Nat /\ Blk(h.off) \in Nat /\ Cardinality(w) \in Nat
      BY <3>1, <2>3, <2>4, BlkType, FS_CardinalityType
    <3> QED BY <3>2, <2>4, <2>6, SMT
  <2>8. \E y, z : c.wrote \subseteq (w \cup {y}) \cup {z}
    <3>1. Ind(x.addrs[NDIRECT]) \subseteq {x.addrs[NDIRECT], BBLOCK(x.addrs[NDIRECT])}
      BY DEF Ind
    <3>2. c.wrote \subseteq (w \cup {x.addrs[NDIRECT]}) \cup {BBLOCK(x.addrs[NDIRECT])}
      BY <3>1, <2>2
    <3> QED BY <3>2
  <2>9. PICK y, z : c.wrote \subseteq (w \cup {y}) \cup {z}
    BY <2>8
  <2>10. 2 * k + 1 \in Nat /\ (2 * k + 1) + 1 \in Nat /\ ((2 * k + 1) + 1) + 1 \in Nat
    BY SMT
  <2>11. IsFiniteSet(w \cup {y}) /\ Cardinality(w \cup {y}) <= (2 * k + 1) + 1
    BY <2>4, <2>7, <2>10, CardAdd
  <2>12. IsFiniteSet((w \cup {y}) \cup {z}) /\ Cardinality((w \cup {y}) \cup {z}) <= ((2 * k + 1) + 1) + 1
    BY <2>10, <2>11, CardAdd
  <2>13. IsFiniteSet(c.wrote) /\ Cardinality(c.wrote) <= ((2 * k + 1) + 1) + 1
    BY <2>9, <2>10, <2>12, CardSubset
  <2>14. Cardinality(c.wrote \cup {IBLOCK}) <= (((2 * k + 1) + 1) + 1) + 1
         /\ IsFiniteSet(c.wrote \cup {IBLOCK})
    BY <2>10, <2>13, CardAdd
  <2>15. Cardinality(c.wrote \cup {IBLOCK}) \in Nat
    BY <2>14, FS_CardinalityType
  <2>16. Cardinality(c.wrote \cup {IBLOCK}) <= MAXOPBLOCKS
    BY <2>1, <2>14, <2>15, Constants, SMT
  <2> QED BY <2>13, <2>16 DEF Small

-----------------------------------------------------------------------------
\* When no process is in a transaction every inode is unlocked, and the disk
\* is as the files want it: what end_op() commits is sound.
Settled ==
    /\ Types /\ Named(Held, disk.used)
    /\ \A p \in Proc : CallOK(p) /\ ~InOp(p)
    /\ \A i \in Inum : InodeOK(i)

\* When nobody is in a transaction, the disk is as the calls left it.
LEMMA Quiet == Settled => Sound(disk, want)
<1> SUFFICES ASSUME Settled PROVE Sound(disk, want)
  OBVIOUS
<1>1. ASSUME NEW i \in Inum PROVE ~Locked(i)
  <2> SUFFICES ASSUME Locked(i) PROVE FALSE
    OBVIOUS
  <2>1. PICK p \in Proc : call[p].ip = i /\ CallOK(p) /\ ~InOp(p)
    BY DEF Locked, Settled
  <2>2. ~IdleCall(call[p]) /\ ~ChunkCall(call[p], file[call[p].f])
    <3>1. i # 0
      BY Constants, SMT DEF Inum
    <3> QED BY <2>1, <3>1 DEF IdleCall, ChunkCall
  <2>3. call[p].at = "writei" \/ call[p].at \in Trunc
    BY <2>1, <2>2 DEF CallOK, WriteCall, TruncCall
  <2> QED BY <2>1, <2>3 DEF InOp, Trunc
<1>2. \A i \in Inum : Unlocked(i)
  BY <1>1 DEF Settled, InodeOK
<1>3. \A i \in Inum : ~Gone(i)
  BY DEF Gone, Settled, InOp
<1>4. Held = [i \in Inum |-> Entries(disk, disk.inode[i].addrs)]
  BY <1>2, <1>3 DEF Held, Unlocked
<1>5. Named0(disk)
  BY <1>4 DEF Settled, Named0
<1>6. \A i \in Inum : Written(disk, disk.inode[i], want[i])
  BY <1>2 DEF Unlocked
<1> QED BY <1>5, <1>6 DEF Sound, Settled, Types

\* The same after a step.
LEMMA QuietPrime == Settled' => Sound(disk', want')
<1>1. (Settled => Sound(disk, want))'
  BY Quiet, PTL
<1> QED BY <1>1 DEF Sound, Named0, Written, Present

-----------------------------------------------------------------------------
\* The contents of a file are its units.
LEMMA ContentsUnits ==
  ASSUME NEW d, NEW ino
  PROVE  Contents(d, ino) = [k \in 1 .. ino.size |-> Unit(d, ino.addrs, k - 1)]
BY DEF Contents, Unit

\* The offsets of a file are below its size.
LEMMA InodeSize ==
  ASSUME NEW n \in 0 .. MAXFILE * BSIZE
  PROVE  n \in Nat /\ \A k \in 1 .. n : k - 1 \in Offset /\ k - 1 < n
BY Sizes, SMT DEF Offset

\* holds what was written to it,
LEMMA AlikeWritten ==
  \A d, d2, ino, s :
    /\ ino.size \in 0 .. MAXFILE * BSIZE
    /\ Alike(d, d2, ino.addrs)
    /\ Written(d, ino, s)
    =>  Written(d2, ino, s)

\* A file whose blocks did not change has the same contents,
<1>AlikeContents.
  ASSUME NEW d, NEW d2, NEW ino, ino.size \in 0 .. MAXFILE * BSIZE, Alike(d, d2, ino.addrs)
  PROVE  Contents(d2, ino) = Contents(d, ino)
  <2> USE <1>AlikeContents
  <2>1. \A k \in 1 .. ino.size : Unit(d2, ino.addrs, k - 1) = Unit(d, ino.addrs, k - 1)
    BY InodeSize DEF Alike
  <2> QED BY <2>1, ContentsUnits

<1> QED
  <2> SUFFICES
      ASSUME NEW d, NEW d2, NEW ino, NEW s, ino.size \in 0 .. MAXFILE * BSIZE, Alike(d, d2, ino.addrs),
             Written(d, ino, s)
      PROVE  Written(d2, ino, s)
    OBVIOUS
  <2>1. Contents(d2, ino) = Contents(d, ino)
    BY <1>AlikeContents
  <2>2. Present(d2, ino)
    BY DEF Present, Written, Alike
  <2> QED BY <2>1, <2>2 DEF Written

\* A disk is like itself.
LEMMA AlikeSame ==
  ASSUME NEW d, NEW a
  PROVE  Alike(d, d, a)
BY DEF Alike

\* The inode as a process sees it.
LEMMA CurrentValue ==
  ASSUME NEW i \in Inum
  PROVE  /\ icache[i].valid => Current[i] = [size |-> icache[i].size, addrs |-> icache[i].addrs]
         /\ ~icache[i].valid => Current[i] = disk.inode[i]
BY DEF Current

\* The addresses of an inode are those in memory, or those on the disk.
LEMMA CurrentAddrs ==
  ASSUME NEW i \in Inum
  PROVE  /\ icache[i].valid => Current[i].addrs = icache[i].addrs /\ Current[i].size = icache[i].size
         /\ ~icache[i].valid => Current[i].addrs = disk.inode[i].addrs
BY DEF Current

\* An inode, in memory or on the disk, has its type.
LEMMA CurrentType ==
  ASSUME Types, NEW i \in Inum
  PROVE  Current[i] \in Inode /\ Current[i].addrs \in Addrs /\ Current[i].size \in 0 .. MAXFILE * BSIZE
<1>1. icache[i] \in Cached /\ disk.inode[i] \in Inode
  BY DiskFields DEF Types
<1>2. Current[i] \in Inode
  <2>1. CASE icache[i].valid
    <3>1. icache[i].size \in 0 .. MAXFILE * BSIZE /\ icache[i].addrs \in Addrs
      BY <1>1 DEF Cached
    <3>2. [size |-> icache[i].size, addrs |-> icache[i].addrs] \in Inode
      BY <3>1 DEF Inode
    <3> QED BY <2>1, <3>2, CurrentValue
  <2>2. CASE ~icache[i].valid
    BY <1>1, <2>2, CurrentValue
  <2> QED BY <2>1, <2>2
<1> QED BY <1>2 DEF Inode

\* Who works on an inode has locked it.
LEMMA Owner ==
  ASSUME NEW q \in Proc, CallOK(q), call[q].ip \in Inum
  PROVE  icache[call[q].ip].valid /\ icache[call[q].ip].lock = q
         /\ call[q].at \in {"writei"} \cup Trunc
<1>1. call[q].ip # 0
  BY Constants, SMT DEF Inum
<1> QED BY <1>1 DEF CallOK, IdleCall, ChunkCall, WriteCall, TruncCall

\* 0 is no process, inode or file.
LEMMA NoZero == 0 \notin Proc /\ 0 \notin Inum /\ 0 \notin File
BY Constants, SMT DEF Proc, Inum, File

\* A step leaves the call of q alone, and the inode and the file it works on.
CallKept(q) ==
    /\ call'[q] = call[q]
    /\ call[q].f \in File => file'[call[q].f].ip = file[call[q].f].ip
    /\ call[q].at = "writei" => file'[call[q].f] = file[call[q].f]
    /\ call[q].ip \in Inum => icache'[call[q].ip] = icache[call[q].ip]

\* A call that is not disturbed is as it should be after the step.
LEMMA CallFrame ==
  ASSUME NEW q \in Proc, CallOK(q), CallKept(q)
  PROVE  CallOK(q)'
<1> USE DEF CallKept
<1>1. CASE IdleCall(call[q])
  BY <1>1 DEF CallOK
<1>2. CASE ChunkCall(call[q], file[call[q].f])
  <2>1. ChunkCall(call'[q], file'[call'[q].f])
    BY <1>2 DEF ChunkCall
  <2> QED BY <2>1 DEF CallOK
<1>3. CASE WriteCall(q, call[q], file[call[q].f], icache[call[q].ip])
  <2>1. call[q].at = "writei" /\ call[q].ip \in Inum
    BY <1>3 DEF WriteCall
  <2>2. WriteCall(q, call'[q], file'[call'[q].f], icache'[call'[q].ip])
    BY <1>3, <2>1
  <2> QED BY <2>2 DEF CallOK
<1>4. CASE TruncCall(q, call[q], icache[call[q].ip])
  <2>1. call[q].ip \in Inum
    BY <1>4 DEF TruncCall
  <2>2. TruncCall(q, call'[q], icache'[call'[q].ip])
    BY <1>4, <2>1
  <2> QED BY <2>2 DEF CallOK
<1> QED BY <1>1, <1>2, <1>3, <1>4 DEF CallOK

\* A step leaves inode j alone, and the call of who has locked it.
InodeKept(j) ==
    /\ icache'[j] = icache[j] /\ disk'.inode[j] = disk.inode[j] /\ want'[j] = want[j]
    /\ icache[j].lock \in Proc =>
          /\ call'[icache[j].lock] = call[icache[j].lock]
          /\ call[icache[j].lock].at = "writei" =>
                file'[call[icache[j].lock].f] = file[call[icache[j].lock].f]
    /\ icache[j].lock = 0 \/ call[icache[j].lock].at = "writei" =>
          Alike(disk, disk', Current[j].addrs)

\* An inode that is not disturbed is as it should be after the step.
LEMMA InodeFrame ==
  \A j \in Inum :
    /\ Types
    /\ \A p \in Proc : CallOK(p)
    /\ InodeOK(j)
    /\ InodeKept(j)
    =>  InodeOK(j)'

\* and what is being written to it.
<1>AlikeWriting.
  ASSUME NEW d, NEW d2, NEW x, NEW c, NEW h, NEW s, Alike(d, d2, x.addrs),
         d2.inode[c.ip] = d.inode[c.ip], Writing(d, x, c, h, s)
  PROVE  Writing(d2, x, c, h, s)
  <2> USE <1>AlikeWriting
  <2>1. Present(d2, x)
    BY DEF Writing, Present, Alike
  <2>2. Partly(d2, x, h.off, c.tot, c.val, s)
    BY DEF Writing, Partly, Alike
  <2> QED BY <2>1, <2>2 DEF Writing

<1> QED
  <2> SUFFICES
      ASSUME Types, \A p \in Proc : CallOK(p), NEW j \in Inum, InodeOK(j), InodeKept(j)
      PROVE  InodeOK(j)'
    OBVIOUS
  <2> USE DEF InodeKept
  <2>1. Current'[j] = Current[j]
    BY DEF Current
  <2>2. disk.inode[j] \in Inode
    BY DiskFields DEF Types
  <2>3. CASE Unlocked(j)
    <3>1. Alike(disk, disk', disk.inode[j].addrs) /\ disk.inode[j].size \in 0 .. MAXFILE * BSIZE
      BY <2>2, <2>3 DEF Unlocked, Inode
    <3>2. Written(disk', disk.inode[j], want[j])
      BY <2>3, <3>1, AlikeWritten DEF Unlocked
    <3>3. Unlocked(j)'
      BY <2>1, <2>3, <3>2 DEF Unlocked, Written, Present
    <3> QED BY <3>3 DEF InodeOK
  <2>4. CASE Locked(j)
    <3>1. PICK p \in Proc : p = icache[j].lock
      BY <2>4 DEF Locked
    <3>2. call'[p] = call[p] /\ call[p].ip = j
      BY <2>4, <3>1 DEF Locked
    <3>3. ASSUME call[p].at = "writei"
          PROVE  Writing(disk', icache[j], call[p], file'[call[p].f], want[j])
      <4>1. icache[j].valid
        BY <3>2, Owner
      <4>2. Alike(disk, disk', icache[j].addrs)
        BY <3>1, <3>3, <4>1, CurrentAddrs
      <4>3. Writing(disk, icache[j], call[p], file[call[p].f], want[j])
        BY <2>4, <3>1, <3>3 DEF Locked
      <4>4. Writing(disk', icache[j], call[p], file[call[p].f], want[j])
        BY <3>2, <4>2, <4>3, <1>AlikeWriting
      <4>5. file'[call[p].f] = file[call[p].f]
        BY <3>1, <3>3
      <4> QED BY <4>4, <4>5
    <3>4. Locked(j)'
      BY <3>1, <3>2, <3>3 DEF Locked, Writing, Present, Partly
    <3> QED BY <3>4 DEF InodeOK
  <2> QED BY <2>3, <2>4 DEF InodeOK

-----------------------------------------------------------------------------
\* A process that is between the chunks of filewrite() has no inode.
LEMMA NotWorking ==
  ASSUME NEW p \in Proc, CallOK(p), call[p].at \in {"none", "chunk", "ilock"}
  PROVE  call[p].ip = 0
BY DEF CallOK, IdleCall, ChunkCall, WriteCall, TruncCall, Trunc

\* The file of a call is open.
LEMMA FileOpen ==
  ASSUME NEW q \in Proc, CallOK(q), call[q].f \in File
  PROVE  file[call[q].f].ip \in Inum
BY NoZero DEF CallOK, IdleCall, ChunkCall, WriteCall, TruncCall

\* A process in writei() has locked its inode and is within the bounds.
LEMMA WritesFile ==
  ASSUME NEW q \in Proc, CallOK(q), call[q].at = "writei"
  PROVE  WriteCall(q, call[q], file[call[q].f], icache[call[q].ip])
BY DEF CallOK, IdleCall, ChunkCall, TruncCall, Trunc

\* The process that holds a lock works on the inode.
LEMMA LockHolder ==
  ASSUME NEW j \in Inum, InodeOK(j), icache[j].lock \in Proc
  PROVE  call[icache[j].lock].ip = j
BY NoZero DEF InodeOK, Unlocked, Locked

\* An inode whose lock is free is not being changed.
LEMMA LockFree ==
  ASSUME NEW j \in Inum, InodeOK(j), icache[j].lock = 0
  PROVE  Unlocked(j)
BY NoZero DEF InodeOK, Locked

\* A step that changes neither the disk nor what the inodes hold.
LEMMA LightStep ==
  ASSUME IInv, made, Types', disk' = disk, made' = made, panicked = "no", Sound(durable', dwant'),
         \A i \in Inum : Current'[i].addrs = Current[i].addrs,
         \A i \in Inum : Gone(i)' <=> Gone(i),
         \A q \in Proc : CallOK(q)', \A i \in Inum : InodeOK(i)'
  PROVE  IInv'
<1>1. Held' = Held
  BY DEF Held
<1>2. Named(Held', disk'.used)
  BY <1>1 DEF IInv
<1> QED BY <1>2 DEF IInv

\* Nothing happens.
LEMMA Stutter ==
  ASSUME IInv, UNCHANGED vars
  PROVE  IInv'
<1> USE DEF vars
<1>1. Types'
  BY DEF IInv, Types
<1>2. Current' = Current
  BY DEF Current
<1>3. \A i : Gone(i)' <=> Gone(i)
  BY DEF Gone
<1>4. Held' = Held
  BY <1>2, <1>3 DEF Held
<1>5. \A q \in Proc : CallOK(q)' <=> CallOK(q)
  BY DEF CallOK
<1>6. ASSUME NEW i \in Inum, InodeOK(i) PROVE InodeOK(i)'
  BY <1>2, <1>6 DEF InodeOK, Unlocked, Locked, Written, Present, Writing, Partly
<1>7. ~made' => Image'
  BY DEF IInv, Image, Idle
<1> QED BY <1>1, <1>4, <1>5, <1>6, <1>7 DEF IInv

\* sys_open() gives a file an inode.
LEMMA StepOpen ==
  ASSUME IInv, NEW f \in File, NEW i \in Inum, Open(f, i)
  PROVE  IInv'
<1>0. Types /\ made /\ panicked = "no" /\ (\A q \in Proc : CallOK(q)) /\ Sound(durable, dwant)
      /\ \A j \in Inum : InodeOK(j)
  BY DEF IInv, Open, Running
<1>1. Types'
  <2>1. 0 \in 0 .. MAXFILE * BSIZE /\ i \in 0 .. NINODES
    BY Sizes, Constants, SMT DEF Inum
  <2>2. [ip |-> i, off |-> 0] \in Handle
    BY <2>1 DEF Handle
  <2>3. file' \in [File -> Handle]
    BY <2>2, <1>0 DEF Open, Types
  <2>4. ncalls' \in 0 .. MaxCalls
    BY <1>0, Constants, SMT DEF Open, Types
  <2> QED BY <2>3, <2>4, <1>0 DEF Open, Types, noHistory, noCrash
<1>2. \A g \in File : g # f => file'[g] = file[g]
  BY <1>0 DEF Open, Types
<1>3. ASSUME NEW q \in Proc, call[q].f \in File PROVE call[q].f # f
  <2>1. file[call[q].f].ip \in Inum
    BY <1>0, <1>3, FileOpen
  <2> QED BY <2>1, NoZero DEF Open
<1>4. ASSUME NEW q \in Proc PROVE CallOK(q)'
  <2>1. call[q].at = "writei" => call[q].f \in File
    BY <1>0, WritesFile DEF WriteCall
  <2>2. CallKept(q)
    BY <1>2, <1>3, <2>1 DEF CallKept, Open
  <2> QED BY <2>2, <1>0, CallFrame
<1>5. ASSUME NEW j \in Inum PROVE InodeOK(j)'
  <2>1. ASSUME icache[j].lock \in Proc, call[icache[j].lock].at = "writei"
        PROVE  file'[call[icache[j].lock].f] = file[call[icache[j].lock].f]
    <3>1. call[icache[j].lock].f \in File
      BY <1>0, <2>1, WritesFile DEF WriteCall
    <3> QED BY <3>1, <2>1, <1>2, <1>3
  <2>2. InodeKept(j)
    BY <2>1, AlikeSame DEF InodeKept, Open, noHistory
  <2> QED BY <2>2, <1>0, InodeFrame
<1>6. Current' = Current /\ \A j : Gone(j)' <=> Gone(j)
  BY DEF Current, Gone, Open
<1>7. disk' = disk /\ made' = made /\ Sound(durable', dwant')
  BY <1>0 DEF Open, noHistory, noCrash
<1> QED BY <1>0, <1>1, <1>4, <1>5, <1>6, <1>7, LightStep

\* fileclose() of a file that no call uses.
LEMMA StepClose ==
  ASSUME IInv, NEW f \in File, Close(f)
  PROVE  IInv'
<1>0. Types /\ made /\ panicked = "no" /\ (\A q \in Proc : CallOK(q)) /\ Sound(durable, dwant)
      /\ \A j \in Inum : InodeOK(j)
  BY DEF IInv, Close, Running
<1>1. Types'
  <2>1. 0 \in 0 .. MAXFILE * BSIZE /\ 0 \in 0 .. NINODES
    BY Sizes, Constants, SMT
  <2>2. [ip |-> 0, off |-> 0] \in Handle
    BY <2>1 DEF Handle
  <2>3. file' \in [File -> Handle]
    BY <2>2, <1>0 DEF Close, Types
  <2> QED BY <2>3, <1>0 DEF Close, Types, noHistory, noCrash
<1>2. \A g \in File : g # f => file'[g] = file[g]
  BY <1>0 DEF Close, Types
<1>3. \A q \in Proc : call[q].f # f
  BY DEF Close, InUse
<1>4. ASSUME NEW q \in Proc PROVE CallOK(q)'
  <2>1. call[q].at = "writei" => call[q].f \in File
    BY <1>0, WritesFile DEF WriteCall
  <2>2. CallKept(q)
    BY <1>2, <1>3, <2>1 DEF CallKept, Close
  <2> QED BY <2>2, <1>0, CallFrame
<1>5. ASSUME NEW j \in Inum PROVE InodeOK(j)'
  <2>1. ASSUME icache[j].lock \in Proc, call[icache[j].lock].at = "writei"
        PROVE  file'[call[icache[j].lock].f] = file[call[icache[j].lock].f]
    <3>1. call[icache[j].lock].f \in File
      BY <1>0, <2>1, WritesFile DEF WriteCall
    <3> QED BY <3>1, <2>1, <1>2, <1>3
  <2>2. InodeKept(j)
    BY <2>1, AlikeSame DEF InodeKept, Close, noHistory
  <2> QED BY <2>2, <1>0, InodeFrame
<1>6. Current' = Current /\ \A j : Gone(j)' <=> Gone(j)
  BY DEF Current, Gone, Close
<1>7. disk' = disk /\ made' = made /\ Sound(durable', dwant')
  BY <1>0 DEF Close, noHistory, noCrash
<1> QED BY <1>0, <1>1, <1>4, <1>5, <1>6, <1>7, LightStep

\* An inode that is not in the cache.
LEMMA AbsentFields == ~Absent.valid /\ Absent.lock = 0 /\ Absent \in Cached
<1>1. 0 \in 0 .. MAXFILE * BSIZE /\ 0 \in 0 .. NPROC
  BY Sizes, Constants, SMT
<1>2. NoAddrs \in Addrs
  BY Layout DEF NoAddrs, Addrs
<1> QED BY <1>1, <1>2 DEF Absent, Cached

\* iget() takes the entry of an inode that nobody uses.
LEMMA StepRecycle ==
  ASSUME IInv, NEW i \in Inum, Recycle(i)
  PROVE  IInv'
<1>0. Types /\ made /\ panicked = "no" /\ (\A q \in Proc : CallOK(q)) /\ Sound(durable, dwant)
      /\ \A j \in Inum : InodeOK(j)
  BY DEF IInv, Recycle, Running
<1>1. Types'
  <2>1. icache' \in [Inum -> Cached]
    BY AbsentFields, <1>0 DEF Recycle, Types
  <2> QED BY <2>1, <1>0 DEF Recycle, Types, noHistory, noCrash
<1>2. icache'[i] = Absent /\ \A j \in Inum : j # i => icache'[j] = icache[j]
  BY <1>0 DEF Recycle, Types
<1>3. \A q \in Proc : call[q].ip # i
  BY DEF Recycle, Busy
<1>4. Unlocked(i)
  BY <1>0, <1>3 DEF InodeOK, Locked
<1>5. disk' = disk /\ call' = call /\ file' = file /\ want' = want
  BY DEF Recycle, noHistory
<1>6. ASSUME NEW q \in Proc PROVE CallOK(q)'
  <2>1. CallKept(q)
    BY <1>2, <1>3, <1>5 DEF CallKept
  <2> QED BY <2>1, <1>0, CallFrame
<1>7. Current'[i] = disk'.inode[i] /\ Current[i] = disk.inode[i]
  <2>1. Current'[i] = IF icache'[i].valid THEN [size |-> icache'[i].size, addrs |-> icache'[i].addrs]
                      ELSE disk'.inode[i]
    BY DEF Current
  <2> QED BY <2>1, <1>2, <1>4, AbsentFields DEF Unlocked
<1>8. ASSUME NEW j \in Inum PROVE InodeOK(j)'
  <2>1. CASE j = i
    <3>1. Unlocked(i)'
      <4>1. icache'[i].lock = 0 /\ Current'[i] = disk'.inode[i]
        BY <1>2, <1>7, AbsentFields
      <4>2. Written(disk', disk'.inode[i], want'[i])
        BY <1>4, <1>5 DEF Unlocked
      <4> QED BY <4>1, <4>2 DEF Unlocked, Written, Present
    <3> QED BY <2>1, <3>1 DEF InodeOK
  <2>2. CASE j # i
    <3>1. InodeKept(j)
      BY <1>2, <1>5, <2>2, AlikeSame DEF InodeKept
    <3> QED BY <3>1, <1>0, InodeFrame
  <2> QED BY <2>1, <2>2
<1>9. ASSUME NEW j \in Inum PROVE Current'[j].addrs = Current[j].addrs
  BY <1>2, <1>5, <1>7 DEF Current
<1>10. \A j : Gone(j)' <=> Gone(j)
  BY <1>5 DEF Gone
<1>11. made' = made /\ Sound(durable', dwant')
  BY <1>0 DEF Recycle, noHistory, noCrash
<1> QED BY <1>0, <1>1, <1>5, <1>6, <1>8, <1>9, <1>10, <1>11, LightStep

-----------------------------------------------------------------------------
\* The inode that ilock() leaves.
Seen(i, l) == [valid |-> TRUE, lock |-> l, size |-> Current[i].size, addrs |-> Current[i].addrs]

\* ilock() reads the inode if it is not valid.
LEMMA SeenType ==
  ASSUME Types, NEW i \in Inum, NEW l \in 0 .. NPROC
  PROVE  /\ Seen(i, l) \in Cached
         /\ Seen(i, l).valid /\ Seen(i, l).lock = l
         /\ Seen(i, l).size = Current[i].size /\ Seen(i, l).addrs = Current[i].addrs
BY CurrentType DEF Seen, Cached

Shows(x, i, l) == x.valid /\ x.lock = l /\ x.size = Current[i].size /\ x.addrs = Current[i].addrs

\* The same, as one fact.
LEMMA SeenShows ==
  ASSUME Types, NEW i \in Inum, NEW l \in 0 .. NPROC
  PROVE  Shows(Seen(i, l), i, l)
BY SeenType DEF Shows

\* ilock() and iunlock() change the entry of their inode alone.
LEMMA IlockValue ==
  ASSUME Types, NEW p \in Proc, NEW i \in Inum
  PROVE  /\ ilock(p, i) = [icache EXCEPT ![i] = Seen(i, p)]
         /\ ilock(p, i)[i] = Seen(i, p)
         /\ [ilock(p, i) EXCEPT ![i].lock = 0] = [icache EXCEPT ![i] = Seen(i, 0)]
<1>1. icache \in [Inum -> Cached]
  BY DEF Types
<1>2. ilock(p, i) = [icache EXCEPT ![i] = Seen(i, p)]
  <2>1. CASE icache[i].valid
    <3>1. Current[i].size = icache[i].size /\ Current[i].addrs = icache[i].addrs
      BY <2>1, CurrentAddrs
    <3> QED BY <2>1, <3>1 DEF ilock, Seen
  <2>2. CASE ~icache[i].valid
    <3>1. Current[i].size = disk.inode[i].size /\ Current[i].addrs = disk.inode[i].addrs
      BY <2>2, CurrentValue
    <3> QED BY <2>2, <3>1 DEF ilock, Seen
  <2> QED BY <2>1, <2>2
<1>3. ilock(p, i)[i] = Seen(i, p)
  BY <1>1, <1>2
<1>4. [Seen(i, p) EXCEPT !.lock = 0] = Seen(i, 0)
  <2>1. PICK v : v = TRUE
    OBVIOUS
  <2>2. \A l : Seen(i, l) = [valid |-> v, lock |-> l, size |-> Current[i].size, addrs |-> Current[i].addrs]
    BY <2>1 DEF Seen
  <2>3. [[valid |-> v, lock |-> p, size |-> Current[i].size, addrs |-> Current[i].addrs] EXCEPT !.lock = 0]
           = [valid |-> v, lock |-> 0, size |-> Current[i].size, addrs |-> Current[i].addrs]
    BY SMT
  <2> QED BY <2>2, <2>3
<1>5. PICK c : c = ilock(p, i)
  OBVIOUS
<1>6. [c EXCEPT ![i].lock = 0] = [icache EXCEPT ![i] = Seen(i, 0)]
  <2>1. [c EXCEPT ![i].lock = 0] = [j \in Inum |-> IF j = i THEN Seen(i, 0) ELSE icache[j]]
    BY <1>1, <1>2, <1>3, <1>4, <1>5
  <2>2. [icache EXCEPT ![i] = Seen(i, 0)] = [j \in Inum |-> IF j = i THEN Seen(i, 0) ELSE icache[j]]
    BY <1>1
  <2> QED BY <2>1, <2>2
<1> QED BY <1>2, <1>3, <1>5, <1>6

\* ilock() changes no inode.
LEMMA SeenCurrent ==
  ASSUME Types, NEW i \in Inum, NEW l \in 0 .. NPROC, icache' = [icache EXCEPT ![i] = Seen(i, l)],
         disk' = disk
  PROVE  /\ Current' = Current /\ icache' \in [Inum -> Cached] /\ icache'[i] = Seen(i, l)
         /\ \A j \in Inum : j # i => icache'[j] = icache[j]
<1>1. icache' \in [Inum -> Cached] /\ icache'[i] = Seen(i, l)
      /\ \A j \in Inum : j # i => icache'[j] = icache[j]
  BY SeenType DEF Types
<1>2. Current[i] = [size |-> Current[i].size, addrs |-> Current[i].addrs]
  BY CurrentType DEF Inode
<1>3. ASSUME NEW j \in Inum
      PROVE  Current[j] = IF icache'[j].valid THEN [size |-> icache'[j].size, addrs |-> icache'[j].addrs]
                          ELSE disk'.inode[j]
  <2>1. CASE j = i
    <3>1. icache'[j].valid /\ icache'[j].size = Current[j].size /\ icache'[j].addrs = Current[j].addrs
      BY <1>1, <2>1, SeenType
    <3> QED BY <1>2, <2>1, <3>1
  <2>2. CASE j # i
    BY <1>1, <2>2 DEF Current
  <2> QED BY <2>1, <2>2
<1>4. Current' = [j \in Inum |-> Current[j]]
  BY <1>3 DEF Current
<1>5. Current = [j \in Inum |-> Current[j]]
  BY DEF Current
<1> QED BY <1>1, <1>4, <1>5

\* An inode that nobody has locked can be unlocked after it has been read.
LEMMA SeenUnlocked ==
  ASSUME NEW i \in Inum, Unlocked(i), Types,
         icache' = [icache EXCEPT ![i] = Seen(i, 0)], disk' = disk, want' = want
  PROVE  InodeOK(i)'
<1>0. 0 \in 0 .. NPROC
  BY Constants, SMT
<1>1. Current' = Current /\ icache'[i] = Seen(i, 0)
  BY <1>0, SeenCurrent
<1>2. icache'[i].lock = 0
  BY <1>0, <1>1, SeenType
<1>3. Written(disk', disk'.inode[i], want'[i])
  BY DEF Unlocked
<1>4. Unlocked(i)'
  BY <1>1, <1>2, <1>3 DEF Unlocked, Written, Present
<1> QED BY <1>4 DEF InodeOK

\* The calls of the others, when p gets another one.
LEMMA CallOthers ==
  ASSUME Types, NEW p \in Proc, NEW c, call' = [call EXCEPT ![p] = c]
  PROVE  call'[p] = c /\ \A q \in Proc : q # p => call'[q] = call[q]
BY DEF Types

\* The calls have their type after one of them changes.
LEMMA CallsType ==
  ASSUME Types, NEW p \in Proc, NEW c \in Calls, call' = [call EXCEPT ![p] = c]
  PROVE  call' \in [Proc -> Calls]
BY DEF Types

\* A process that is not in a call.
LEMMA NoCallFields ==
  NoCall \in Calls /\ NoCall.at = "none" /\ NoCall.f = 0 /\ NoCall.ip = 0
<1>1. 0 \in 0 .. NFILE /\ 0 \in 0 .. NINODES /\ 0 \in Nat
  BY Constants, SMT
<1> QED BY <1>1 DEF NoCall, Calls

\* A transaction that has written nothing is small.
LEMMA SmallEmpty == Small({})
<1>1. IsFiniteSet({}) /\ Cardinality({}) = 0
  BY FS_EmptySet
<1>2. 0 \in Nat /\ Cardinality({}) <= 0
  BY <1>1, SMT
<1>3. IsFiniteSet({} \cup {IBLOCK}) /\ Cardinality({} \cup {IBLOCK}) <= 0 + 1
  BY <1>1, <1>2, CardAdd
<1>4. Cardinality({} \cup {IBLOCK}) \in Nat
  BY <1>3, FS_CardinalityType
<1>5. Cardinality({} \cup {IBLOCK}) <= MAXOPBLOCKS
  BY <1>3, <1>4, Constants, SMT
<1> QED BY <1>1, <1>5 DEF Small

\* filewrite() begins.
LEMMA StepFilewrite ==
  ASSUME IInv, NEW p \in Proc, NEW f \in File, NEW n \in Size, NEW v \in Val, Filewrite(p, f, n, v)
  PROVE  IInv'
<1>0. Types /\ made /\ panicked = "no" /\ (\A q \in Proc : CallOK(q)) /\ Sound(durable, dwant)
      /\ \A j \in Inum : InodeOK(j)
  BY DEF IInv, Filewrite, Running
<1>1. PICK c : c = [NoCall EXCEPT !.at = "chunk", !.f = f, !.n = n, !.val = v]
  OBVIOUS
<1>2. c = [at |-> "chunk", f |-> f, ip |-> 0, n |-> n, n1 |-> 0, tot |-> 0, val |-> v, wrote |-> {}]
  BY <1>1 DEF NoCall
<1>3. call' = [call EXCEPT ![p] = c] /\ file' = file /\ disk' = disk /\ icache' = icache /\ want' = want
  BY <1>1 DEF Filewrite, noHistory
<1>4. call[p].ip = 0 /\ call[p].at = "none"
  BY <1>0, NotWorking DEF Filewrite
<1>5. call'[p] = c /\ \A q \in Proc : q # p => call'[q] = call[q]
  BY <1>0, <1>3, CallOthers
<1>6. 0 \in Nat /\ 0 \in 0 .. NINODES /\ f \in 0 .. NFILE /\ n \in Nat /\ v \in Nat /\ n > 0
  BY Constants, SMT DEF File
<1>7. Types'
  <2>1. c \in Calls
    BY <1>2, <1>6 DEF Calls
  <2>2. call' \in [Proc -> Calls]
    BY <2>1, <1>0, <1>3, CallsType
  <2>3. ncalls' \in 0 .. MaxCalls
    BY <1>0, Constants, SMT DEF Filewrite, Types
  <2> QED BY <2>2, <2>3, <1>0 DEF Filewrite, Types, noHistory, noCrash
<1>8. ASSUME NEW q \in Proc PROVE CallOK(q)'
  <2>1. CASE q = p
    <3>1. file[f].ip \in Inum
      <4>1. file[f].ip \in 0 .. NINODES /\ file[f].ip # 0
        BY <1>0 DEF Types, Handle, Filewrite
      <4> QED BY <4>1, Constants, SMT DEF Inum
    <3>2. ChunkCall(c, file[c.f])
      BY <1>2, <1>6, <3>1, SmallEmpty DEF ChunkCall
    <3> QED BY <2>1, <3>2, <1>3, <1>5 DEF CallOK
  <2>2. CASE q # p
    <3>1. CallKept(q)
      BY <1>3, <1>5, <2>2 DEF CallKept
    <3> QED BY <3>1, <1>0, CallFrame
  <2> QED BY <2>1, <2>2
<1>9. ASSUME NEW j \in Inum PROVE InodeOK(j)'
  <2>1. icache[j].lock \in Proc => icache[j].lock # p
    BY <1>0, <1>4, LockHolder, NoZero
  <2>2. InodeKept(j)
    BY <2>1, <1>3, <1>5, AlikeSame DEF InodeKept
  <2> QED BY <2>2, <1>0, InodeFrame
<1>10. Current' = Current
  BY <1>3 DEF Current
<1>11. \A j : Gone(j)' <=> Gone(j)
  <2>1. c.at = "chunk"
    BY <1>2
  <2>2. call'[p].at # "ind" /\ call[p].at # "ind"
    BY <2>1, <1>4, <1>5
  <2> QED BY <2>2, <1>5 DEF Gone
<1>12. made' = made /\ Sound(durable', dwant')
  BY <1>0 DEF Filewrite, noHistory, noCrash
<1> QED BY <1>0, <1>3, <1>7, <1>8, <1>9, <1>10, <1>11, <1>12, LightStep

\* begin_op() of a chunk.
LEMMA StepWriteBegin ==
  ASSUME IInv, NEW p \in Proc, WriteBegin(p)
  PROVE  IInv'
<1>0. Types /\ made /\ panicked = "no" /\ (\A q \in Proc : CallOK(q)) /\ Sound(durable, dwant)
      /\ \A j \in Inum : InodeOK(j)
  BY DEF IInv, WriteBegin, Running
<1>1. PICK c : c = [call[p] EXCEPT !.at = "ilock"]
  OBVIOUS
<1>2. c \in Calls /\ c.at = "ilock" /\ c.f = call[p].f /\ c.ip = call[p].ip /\ c.n = call[p].n
      /\ c.wrote = call[p].wrote
  BY <1>0, <1>1 DEF Types, Calls
<1>3. call' = [call EXCEPT ![p] = c] /\ file' = file /\ disk' = disk /\ icache' = icache /\ want' = want
  BY <1>1 DEF WriteBegin, noHistory
<1>4. call[p].ip = 0 /\ call[p].at = "chunk"
  BY <1>0, NotWorking DEF WriteBegin
<1>5. call'[p] = c /\ \A q \in Proc : q # p => call'[q] = call[q]
  BY <1>0, <1>3, CallOthers
<1>7. Types'
  <2>2. call' \in [Proc -> Calls]
    BY <1>0, <1>2, <1>3, CallsType
  <2> QED BY <2>2, <1>0 DEF WriteBegin, Types, noHistory, noCrash
<1>8. ASSUME NEW q \in Proc PROVE CallOK(q)'
  <2>1. CASE q = p
    <3>1. ChunkCall(call[p], file[call[p].f])
      BY <1>0, <1>4 DEF CallOK, IdleCall, WriteCall, TruncCall, Trunc
    <3>2. ChunkCall(c, file[c.f])
      BY <1>2, <3>1 DEF ChunkCall
    <3> QED BY <2>1, <3>2, <1>3, <1>5 DEF CallOK
  <2>2. CASE q # p
    <3>1. CallKept(q)
      BY <1>3, <1>5, <2>2 DEF CallKept
    <3> QED BY <3>1, <1>0, CallFrame
  <2> QED BY <2>1, <2>2
<1>9. ASSUME NEW j \in Inum PROVE InodeOK(j)'
  <2>1. icache[j].lock \in Proc => icache[j].lock # p
    BY <1>0, <1>4, LockHolder, NoZero
  <2>2. InodeKept(j)
    BY <2>1, <1>3, <1>5, AlikeSame DEF InodeKept
  <2> QED BY <2>2, <1>0, InodeFrame
<1>10. Current' = Current
  BY <1>3 DEF Current
<1>11. \A j : Gone(j)' <=> Gone(j)
  <2>1. call'[p].at # "ind" /\ call[p].at # "ind"
    BY <1>2, <1>4, <1>5
  <2> QED BY <2>1, <1>5 DEF Gone
<1>12. made' = made /\ Sound(durable', dwant')
  BY <1>0 DEF WriteBegin, noHistory, noCrash
<1> QED BY <1>0, <1>3, <1>7, <1>8, <1>9, <1>10, <1>11, <1>12, LightStep

\* fileread(): the blocks of a file are there, so that bmap() allocates none.
LEMMA StepFileread ==
  ASSUME IInv, NEW p \in Proc, NEW f \in File, NEW n \in Size, Fileread(p, f, n)
  PROVE  IInv'
<1>0. Types /\ made /\ panicked = "no" /\ (\A q \in Proc : CallOK(q)) /\ Sound(durable, dwant)
      /\ \A j \in Inum : InodeOK(j)
  BY DEF IInv, Fileread, Running
<1>1. PICK i : i = file[f].ip
  OBVIOUS
<1>2. i \in Inum /\ file[f].off \in Nat
  <2>1. file[f] \in Handle
    BY <1>0 DEF Types
  <2>2. file[f].ip \in 0 .. NINODES /\ file[f].off \in 0 .. MAXFILE * BSIZE
    BY <2>1 DEF Handle
  <2>3. i # 0
    BY <1>1 DEF Fileread
  <2> QED BY <1>1, <2>2, <2>3, Constants, Sizes, SMT DEF Inum
<1>3. PICK c : c = ilock(p, i)
  OBVIOUS
<1>4. p \in 0 .. NPROC /\ 0 \in 0 .. NPROC
  BY Constants, SMT DEF Proc
<1>5. c[i].size = Current[i].size /\ c[i].addrs = Current[i].addrs
      /\ [c EXCEPT ![i].lock = 0] = [icache EXCEPT ![i] = Seen(i, 0)]
  <2>1. c[i] = Seen(i, p)
    BY <1>0, <1>2, <1>3, IlockValue
  <2>2. c[i].size = Current[i].size /\ c[i].addrs = Current[i].addrs
    <3>1. Shows(Seen(i, p), i, p)
      BY <1>0, <1>2, <1>4, SeenShows
    <3> QED BY <2>1, <3>1 DEF Shows
  <2>3. [ilock(p, i) EXCEPT ![i].lock = 0] = [icache EXCEPT ![i] = Seen(i, 0)]
    BY <1>0, <1>2, IlockValue
  <2> QED BY <2>2, <2>3, <1>3
<1>6. PICK left : left = c[i].size - file[f].off
  OBVIOUS
<1>7. PICK r : r = IF n > left THEN left ELSE n
  OBVIOUS
<1>8. /\ icache[i].lock = 0 /\ file[f].off <= c[i].size /\ call[p].at = "none"
      /\ icache' = [c EXCEPT ![i].lock = 0]
      /\ file' = [file EXCEPT ![f].off = @ + r]
      /\ panicked' = IF \E bn \in {(file[f].off + k) \div BSIZE : k \in 0 .. r - 1} :
                           Address(disk, c[i].addrs, bn) = 0
                     THEN "yes" ELSE "no"
      /\ ncalls < MaxCalls /\ ncalls' = ncalls + 1
      /\ disk' = disk /\ durable' = durable /\ call' = call /\ want' = want /\ dwant' = dwant
      /\ made' = made /\ ncrashes' = ncrashes
  BY <1>1, <1>3, <1>6, <1>7 DEF Fileread, noHistory, noCrash
<1>9. Unlocked(i)
  BY <1>0, <1>2, <1>8, LockFree
<1>10. Current[i] = disk.inode[i] /\ Present(disk, disk.inode[i]) /\ Current[i].size \in 0 .. MAXFILE * BSIZE
  BY <1>0, <1>2, <1>9, CurrentType DEF Unlocked, Written
<1>11. Current[i].size \in Nat /\ n \in Nat
  BY <1>10, Sizes, Constants, SMT
<1>12. r \in Nat /\ file[f].off + r <= Current[i].size
  BY <1>2, <1>5, <1>6, <1>7, <1>8, <1>11, SMT
<1>13. panicked' = "no"
  <2>1. ASSUME NEW k \in 0 .. r - 1
        PROVE  Address(disk, c[i].addrs, (file[f].off + k) \div BSIZE) # 0
    <3>1. PICK u : u = file[f].off + k
      OBVIOUS
    <3>2. u \in Offset /\ u < Current[i].size
      BY <3>1, <1>2, <1>10, <1>11, <1>12, Sizes, SMT DEF Offset
    <3>3. Unit(disk, Current[i].addrs, u) # -1
      BY <3>2, <1>10 DEF Present
    <3> QED BY <3>1, <3>3, <1>5 DEF Unit
  <2> QED BY <2>1, <1>8
<1>14. Types'
  <2>1. icache' \in [Inum -> Cached]
    BY <1>0, <1>2, <1>4, <1>5, <1>8, SeenCurrent
  <2>2. file[f].off + r \in 0 .. MAXFILE * BSIZE
    BY <1>2, <1>10, <1>11, <1>12, Sizes, SMT
  <2>3. file' \in [File -> Handle]
    <3>1. file[f] \in Handle
      BY <1>0 DEF Types
    <3>2. [file[f] EXCEPT !.off = file[f].off + r] \in Handle
      BY <2>2, <3>1 DEF Handle
    <3>3. file' = [file EXCEPT ![f] = [file[f] EXCEPT !.off = file[f].off + r]]
      BY <1>8
    <3> QED BY <3>2, <3>3, <1>0 DEF Types
  <2>4. ncalls' \in 0 .. MaxCalls
    BY <1>0, <1>8, Constants, SMT DEF Types
  <2> QED BY <2>1, <2>3, <2>4, <1>0, <1>8, <1>13 DEF Types
<1>15. /\ \A g \in File : g # f => file'[g] = file[g]
       /\ \A g \in File : file'[g].ip = file[g].ip
  <2>1. file[f] \in Handle
    BY <1>0 DEF Types
  <2>2. file' = [file EXCEPT ![f] = [file[f] EXCEPT !.off = file[f].off + r]]
    BY <1>8
  <2>3. [file[f] EXCEPT !.off = file[f].off + r].ip = file[f].ip
    BY <2>1 DEF Handle
  <2> QED BY <2>2, <2>3, <1>0 DEF Types
<1>16. ASSUME NEW q \in Proc, call[q].at = "writei"
       PROVE  call[q].f \in File /\ call[q].f # f
  <2>1. WriteCall(q, call[q], file[call[q].f], icache[call[q].ip])
    BY <1>0, <1>16, WritesFile
  <2>2. call[q].f \in File /\ file[call[q].f].ip = call[q].ip /\ icache[call[q].ip].lock = q
    BY <2>1 DEF WriteCall
  <2> QED BY <2>2, <1>1, <1>8, NoZero
<1>17. \A j \in Inum : j # i => icache'[j] = icache[j]
  BY <1>0, <1>2, <1>4, <1>5, <1>8, SeenCurrent
<1>18. ASSUME NEW q \in Proc PROVE CallOK(q)'
  <2>1. call[q].ip \in Inum => call[q].ip # i
    BY <1>0, <1>8, Owner, NoZero
  <2>2. CallKept(q)
    BY <2>1, <1>8, <1>15, <1>16, <1>17 DEF CallKept
  <2> QED BY <2>2, <1>0, CallFrame
<1>19. ASSUME NEW j \in Inum PROVE InodeOK(j)'
  <2>1. CASE j = i
    BY <2>1, <1>0, <1>5, <1>8, <1>9, SeenUnlocked
  <2>2. CASE j # i
    <3>1. InodeKept(j)
      BY <2>2, <1>8, <1>15, <1>16, <1>17, AlikeSame DEF InodeKept
    <3> QED BY <3>1, <1>0, InodeFrame
  <2> QED BY <2>1, <2>2
<1>20. Current' = Current
  BY <1>0, <1>2, <1>4, <1>5, <1>8, SeenCurrent
<1>21. \A j : Gone(j)' <=> Gone(j)
  BY <1>8 DEF Gone
<1>22. Sound(durable', dwant')
  BY <1>0, <1>8
<1> QED BY <1>0, <1>8, <1>14, <1>18, <1>19, <1>20, <1>21, <1>22, LightStep

\* iput() of an inode without links locks it and begins itrunc().
LEMMA StepUnlink ==
  ASSUME IInv, NEW p \in Proc, NEW i \in Inum, Unlink(p, i)
  PROVE  IInv'
<1>0. Types /\ made /\ panicked = "no" /\ (\A q \in Proc : CallOK(q)) /\ Sound(durable, dwant)
      /\ \A j \in Inum : InodeOK(j)
  BY DEF IInv, Unlink, Running
<1>1. PICK c : c = [NoCall EXCEPT !.at = "direct", !.ip = i]
  OBVIOUS
<1>2. c = [at |-> "direct", f |-> 0, ip |-> i, n |-> 0, n1 |-> 0, tot |-> 0, val |-> 0, wrote |-> {}]
  BY <1>1 DEF NoCall
<1>3. p \in 0 .. NPROC /\ 0 \in Nat /\ 0 \in 0 .. NFILE /\ i \in 0 .. NINODES
  BY Constants, SMT DEF Proc, Inum
<1>4. c \in Calls /\ c.at = "direct" /\ c.f = 0 /\ c.ip = i /\ c.wrote = {}
  BY <1>2, <1>3 DEF Calls, Trunc
<1>5. /\ call[p].at = "none" /\ icache[i].lock = 0
      /\ icache' = [icache EXCEPT ![i] = Seen(i, p)]
      /\ call' = [call EXCEPT ![p] = c]
      /\ ncalls < MaxCalls /\ ncalls' = ncalls + 1
      /\ disk' = disk /\ durable' = durable /\ file' = file /\ want' = want /\ dwant' = dwant
      /\ made' = made /\ ncrashes' = ncrashes /\ panicked' = panicked
  BY <1>0, <1>1, IlockValue DEF Unlink, noHistory, noCrash
<1>6. call[p].ip = 0
  BY <1>0, <1>5, NotWorking
<1>7. call'[p] = c /\ \A q \in Proc : q # p => call'[q] = call[q]
  BY <1>0, <1>5, CallOthers
<1>8. /\ Current' = Current /\ icache' \in [Inum -> Cached] /\ icache'[i] = Seen(i, p)
      /\ \A j \in Inum : j # i => icache'[j] = icache[j]
  BY <1>0, <1>3, <1>5, SeenCurrent
<1>9. Types'
  <2>2. call' \in [Proc -> Calls]
    BY <1>0, <1>4, <1>5, CallsType
  <2>3. ncalls' \in 0 .. MaxCalls
    BY <1>0, <1>5, Constants, SMT DEF Types
  <2> QED BY <2>2, <2>3, <1>0, <1>5, <1>8 DEF Types
<1>10. icache'[i].valid /\ icache'[i].lock = p
  BY <1>0, <1>3, <1>8, SeenType
<1>11. ASSUME NEW q \in Proc PROVE CallOK(q)'
  <2>1. CASE q = p
    <3>1. TruncCall(p, c, icache'[i])
      BY <1>4, <1>10 DEF TruncCall, Trunc
    <3> QED BY <2>1, <3>1, <1>4, <1>7 DEF CallOK
  <2>2. CASE q # p
    <3>1. call[q].ip \in Inum => call[q].ip # i
      BY <1>0, <1>5, Owner, NoZero
    <3>2. CallKept(q)
      BY <3>1, <2>2, <1>5, <1>7, <1>8 DEF CallKept
    <3> QED BY <3>2, <1>0, CallFrame
  <2> QED BY <2>1, <2>2
<1>12. ASSUME NEW j \in Inum PROVE InodeOK(j)'
  <2>1. CASE j = i
    <3>1. Locked(i)'
      BY <1>4, <1>7, <1>10 DEF Locked
    <3> QED BY <2>1, <3>1 DEF InodeOK
  <2>2. CASE j # i
    <3>1. icache[j].lock \in Proc => icache[j].lock # p
      BY <1>0, <1>6, LockHolder, NoZero
    <3>2. InodeKept(j)
      BY <3>1, <2>2, <1>5, <1>7, <1>8, AlikeSame DEF InodeKept
    <3> QED BY <3>2, <1>0, InodeFrame
  <2> QED BY <2>1, <2>2
<1>13. \A j : Gone(j)' <=> Gone(j)
  <2>1. call'[p].at # "ind" /\ call[p].at # "ind"
    BY <1>4, <1>5, <1>7
  <2> QED BY <2>1, <1>7 DEF Gone
<1>14. Sound(durable', dwant')
  BY <1>0, <1>5
<1> QED BY <1>0, <1>5, <1>8, <1>9, <1>11, <1>12, <1>13, <1>14, LightStep

\* A process that gives up its lock with end_op(): what is committed is sound.
LEMMA EndOp ==
  ASSUME IInv, made, NEW p \in Proc, end_op(p, disk', want'), ~InOp(p)',
         \A q \in Proc : q # p => call'[q] = call[q],
         Types', panicked' = "no" => Named(Held', disk'.used), panicked' = "no",
         \A q \in Proc : CallOK(q)', \A i \in Inum : InodeOK(i)'
  PROVE  Sound(durable', dwant')
<1>1. CASE \E q \in Proc \ {p} : InOp(q)
  <2>1. durable' = durable /\ dwant' = dwant
    BY <1>1 DEF end_op
  <2> QED BY <2>1 DEF IInv
<1>2. CASE ~\E q \in Proc \ {p} : InOp(q)
  <2>1. durable' = disk' /\ dwant' = want'
    BY <1>2 DEF end_op
  <2>2. ASSUME NEW q \in Proc PROVE ~InOp(q)'
    <3>1. CASE q = p
      BY <3>1
    <3>2. CASE q # p
      <4>1. ~InOp(q) /\ call'[q] = call[q]
        BY <3>2, <1>2
      <4> QED BY <4>1 DEF InOp
    <3> QED BY <3>1, <3>2
  <2>3. Settled'
    BY <2>2 DEF Settled
  <2> QED BY <2>1, <2>3, QuietPrime
<1> QED BY <1>1, <1>2

\* The units of a file are those of s.
Holds(d, ino, s) == \A u \in Offset : u < ino.size => Unit(d, ino.addrs, u) = s[u + 1]

\* A file that holds s has its units.
LEMMA WrittenUnits ==
  ASSUME NEW d, NEW ino, NEW s, Written(d, ino, s), ino.size \in 0 .. MAXFILE * BSIZE
  PROVE  Holds(d, ino, s)
<1> SUFFICES ASSUME NEW u \in Offset, u < ino.size
             PROVE  Unit(d, ino.addrs, u) = s[u + 1]
  BY DEF Holds
<1>1. s = [k \in 1 .. ino.size |-> Unit(d, ino.addrs, k - 1)]
  BY ContentsUnits DEF Written
<1>2. u + 1 \in 1 .. ino.size /\ (u + 1) - 1 = u
  BY Sizes, SMT DEF Offset
<1> QED BY <1>1, <1>2

\* ilock() and the checks of writei().
LEMMA StepWriteChunk ==
  ASSUME IInv, NEW p \in Proc, WriteChunk(p)
  PROVE  IInv'
<1>0. Types /\ made /\ panicked = "no" /\ (\A q \in Proc : CallOK(q)) /\ Sound(durable, dwant)
      /\ \A j \in Inum : InodeOK(j)
  BY DEF IInv, WriteChunk, Running
<1>1. PICK f : f = call[p].f
  OBVIOUS
<1>2. PICK i : i = file[f].ip
  OBVIOUS
<1>3. PICK n1 : n1 = IF call[p].n > max THEN max ELSE call[p].n
  OBVIOUS
<1>4. PICK c : c = ilock(p, i)
  OBVIOUS
<1>5. call[p].at = "ilock" /\ icache[i].lock = 0
  BY <1>1, <1>2 DEF WriteChunk
<1>6. f \in File /\ i \in Inum /\ call[p].n > 0 /\ call[p].ip = 0 /\ call[p] \in Calls /\ file[f] \in Handle
  <2>1. ChunkCall(call[p], file[call[p].f])
    BY <1>0, <1>5 DEF CallOK, IdleCall, WriteCall, TruncCall, Trunc
  <2> QED BY <2>1, <1>0, <1>1, <1>2 DEF ChunkCall, Types
<1>7. call[p].n \in Nat /\ file[f].off \in Nat /\ n1 \in Nat /\ n1 > 0 /\ n1 <= max /\ n1 <= call[p].n
  <2>1. call[p].n \in Nat /\ file[f].off \in 0 .. MAXFILE * BSIZE
    BY <1>6 DEF Calls, Handle
  <2>2. max \in Nat /\ max > 0
    BY Chunk, Constants, SMT
  <2> QED BY <2>1, <2>2, <1>3, <1>6, Sizes, SMT
<1>8. p \in 0 .. NPROC /\ 0 \in 0 .. NPROC /\ 0 \in Nat /\ i \in 0 .. NINODES
  BY <1>6, Constants, SMT DEF Proc, Inum
<1>9. c[i].size = Current[i].size /\ c[i].addrs = Current[i].addrs
      /\ c = [icache EXCEPT ![i] = Seen(i, p)]
      /\ [c EXCEPT ![i].lock = 0] = [icache EXCEPT ![i] = Seen(i, 0)]
  <2>1. ilock(p, i)[i] = Seen(i, p)
    BY <1>0, <1>6, IlockValue
  <2>2. c[i].size = Current[i].size /\ c[i].addrs = Current[i].addrs
    <3>1. Shows(Seen(i, p), i, p)
      BY <1>0, <1>6, <1>8, SeenShows
    <3> QED BY <2>1, <3>1, <1>4 DEF Shows
  <2>3. [ilock(p, i) EXCEPT ![i].lock = 0] = [icache EXCEPT ![i] = Seen(i, 0)]
    BY <1>0, <1>6, IlockValue
  <2>4. ilock(p, i) = [icache EXCEPT ![i] = Seen(i, p)]
    BY <1>0, <1>6, IlockValue
  <2> QED BY <2>2, <2>3, <2>4, <1>4
<1>10. /\ disk' = disk /\ file' = file /\ panicked' = panicked /\ want' = want /\ ncalls' = ncalls
       /\ made' = made /\ ncrashes' = ncrashes
  BY DEF WriteChunk, noCrash
<1>11. Unlocked(i)
  BY <1>0, <1>5, <1>6, LockFree
<1>12. CASE ~Accepts(c[i], file[f].off, n1)
  <2>1. /\ icache' = [icache EXCEPT ![i] = Seen(i, 0)] /\ call' = [call EXCEPT ![p] = NoCall]
        /\ end_op(p, disk, want)
    BY <1>1, <1>2, <1>3, <1>4, <1>9, <1>12 DEF WriteChunk
  <2>2. call'[p] = NoCall /\ \A q \in Proc : q # p => call'[q] = call[q]
    BY <2>1, <1>0, CallOthers
  <2>3. /\ Current' = Current /\ icache' \in [Inum -> Cached] /\ icache'[i] = Seen(i, 0)
        /\ \A j \in Inum : j # i => icache'[j] = icache[j]
    BY <2>1, <1>0, <1>6, <1>8, <1>10, SeenCurrent
  <2>4. durable' \in Disk
    <3>1. disk \in Disk /\ durable \in Disk
      BY <1>0 DEF Types
    <3> QED BY <2>1, <3>1 DEF end_op
  <2>5. Types'
    <3>1. call' \in [Proc -> Calls]
      BY <2>1, <1>0, CallsType, NoCallFields
    <3> QED BY <3>1, <2>3, <2>4, <1>0, <1>10 DEF Types
  <2>6. ASSUME NEW q \in Proc PROVE CallOK(q)'
    <3>1. CASE q = p
      BY <3>1, <2>2, NoCallFields DEF CallOK, IdleCall
    <3>2. CASE q # p
      <4>1. call[q].ip \in Inum => call[q].ip # i
        BY <1>0, <1>5, Owner, NoZero
      <4>2. CallKept(q)
        BY <4>1, <3>2, <2>2, <2>3, <1>10 DEF CallKept
      <4> QED BY <4>2, <1>0, CallFrame
    <3> QED BY <3>1, <3>2
  <2>7. ASSUME NEW j \in Inum PROVE InodeOK(j)'
    <3>1. CASE j = i
      BY <3>1, <2>1, <1>0, <1>10, <1>11, SeenUnlocked
    <3>2. CASE j # i
      <4>1. icache[j].lock \in Proc => icache[j].lock # p
        BY <1>0, <1>6, LockHolder, NoZero
      <4>2. InodeKept(j)
        BY <4>1, <3>2, <2>2, <2>3, <1>10, AlikeSame DEF InodeKept
      <4> QED BY <4>2, <1>0, InodeFrame
    <3> QED BY <3>1, <3>2
  <2>8. NoCall.at = "none"
    BY NoCallFields
  <2>9. \A j : Gone(j)' <=> Gone(j)
    <3>1. call'[p].at # "ind" /\ call[p].at # "ind"
      BY <2>2, <2>8, <1>5
    <3> QED BY <3>1, <2>2 DEF Gone
  <2>10. Held' = Held
    BY <2>3, <2>9, <1>10 DEF Held
  <2>11. Named(Held', disk'.used)
    BY <2>10, <1>0, <1>10 DEF IInv
  <2>12. ~InOp(p)'
    BY <2>2, <2>8 DEF InOp
  <2>13. end_op(p, disk', want')
    BY <2>1, <1>10 DEF end_op
  <2>14. Sound(durable', dwant')
    BY <2>2, <2>5, <2>6, <2>7, <2>11, <2>12, <2>13, <1>0, <1>10, EndOp
  <2> QED BY <2>3, <2>5, <2>6, <2>7, <2>9, <2>14, <1>0, <1>10, LightStep
<1>13. CASE Accepts(c[i], file[f].off, n1)
  <2>1. PICK w : w = [call[p] EXCEPT !.at = "writei", !.ip = i, !.n1 = n1, !.tot = 0, !.wrote = {}]
    OBVIOUS
  <2>2. /\ icache' = [icache EXCEPT ![i] = Seen(i, p)] /\ call' = [call EXCEPT ![p] = w]
        /\ durable' = durable /\ dwant' = dwant
    <3>1. /\ icache' = c /\ durable' = durable /\ dwant' = dwant
          /\ call' = [call EXCEPT ![p].at = "writei", ![p].ip = i, ![p].n1 = n1,
                                  ![p].tot = 0, ![p].wrote = {}]
      BY <1>1, <1>2, <1>3, <1>4, <1>13 DEF WriteChunk
    <3>2. [call EXCEPT ![p].at = "writei", ![p].ip = i, ![p].n1 = n1, ![p].tot = 0, ![p].wrote = {}]
            = [call EXCEPT ![p] = w]
      BY <2>1, <1>0 DEF Types
    <3> QED BY <3>1, <3>2, <1>9
  <2>3. /\ w \in Calls /\ w.at = "writei" /\ w.f = f /\ w.ip = i /\ w.n = call[p].n /\ w.n1 = n1
        /\ w.tot = 0 /\ w.wrote = {} /\ w.val = call[p].val
    BY <2>1, <1>1, <1>6, <1>7, <1>8 DEF Calls
  <2>4. call'[p] = w /\ \A q \in Proc : q # p => call'[q] = call[q]
    BY <2>2, <1>0, CallOthers
  <2>5. /\ Current' = Current /\ icache' \in [Inum -> Cached] /\ icache'[i] = Seen(i, p)
        /\ \A j \in Inum : j # i => icache'[j] = icache[j]
    BY <2>2, <1>0, <1>6, <1>8, <1>10, SeenCurrent
  <2>6. Types'
    <3>1. call' \in [Proc -> Calls]
      BY <2>2, <2>3, <1>0, CallsType
    <3> QED BY <3>1, <2>2, <2>5, <1>0, <1>10 DEF Types
  <2>7. PICK x : x = icache'[i]
    OBVIOUS
  <2>8. x.valid /\ x.lock = p /\ x.size = Current[i].size /\ x.addrs = Current[i].addrs
    <3>1. Shows(Seen(i, p), i, p)
      BY <1>0, <1>6, <1>8, SeenShows
    <3> QED BY <2>5, <2>7, <3>1 DEF Shows
  <2>9. file[f].off + 0 = file[f].off /\ Blk(file[f].off) \in Nat
    BY <1>7, BlkType, SMT
  <2>10. WriteCall(p, w, file[f], x)
    <3>1. file[f].off <= x.size /\ file[f].off + n1 <= MAXFILE * BSIZE
      BY <1>9, <1>13, <2>8 DEF Accepts
    <3>2. Counted(w, file[f].off, x)
      <4>1. {} \ Ind(x.addrs[NDIRECT]) = {}
        OBVIOUS
      <4>2. IsFiniteSet({}) /\ Cardinality({}) = 0
        BY FS_EmptySet
      <4>3. 0 <= 2 * (Blk(file[f].off) - Blk(file[f].off)) + 1
        BY <2>9, SMT
      <4> QED BY <4>1, <4>2, <4>3, <2>3, <2>9 DEF Counted
    <3>3. 0 <= n1
      BY <1>7, SMT
    <3> QED BY <3>1, <3>2, <3>3, <2>3, <2>8, <1>2, <1>6, <1>7 DEF WriteCall
  <2>11. ASSUME NEW q \in Proc PROVE CallOK(q)'
    <3>1. CASE q = p
      <4>1. WriteCall(p, call'[p], file'[call'[p].f], icache'[call'[p].ip])
        BY <2>3, <2>4, <2>7, <2>10, <1>10
      <4> QED BY <3>1, <4>1 DEF CallOK
    <3>2. CASE q # p
      <4>1. call[q].ip \in Inum => call[q].ip # i
        BY <1>0, <1>5, Owner, NoZero
      <4>2. CallKept(q)
        BY <4>1, <3>2, <2>4, <2>5, <1>10 DEF CallKept
      <4> QED BY <4>2, <1>0, CallFrame
    <3> QED BY <3>1, <3>2
  <2>12. Writing(disk, x, w, file[f], want[i])
    <3>1. Current[i] = disk.inode[i] /\ Written(disk, disk.inode[i], want[i])
          /\ disk.inode[i].size \in 0 .. MAXFILE * BSIZE
      BY <1>0, <1>6, <1>11, CurrentType DEF Unlocked
    <3>2. Present(disk, x)
      BY <3>1, <2>8 DEF Written, Present
    <3>3. Partly(disk, x, file[f].off, 0, w.val, want[i])
      <4> SUFFICES ASSUME NEW u \in Offset, u < x.size \/ u < file[f].off + 0
                   PROVE  Unit(disk, x.addrs, u) =
                            IF file[f].off <= u /\ u < file[f].off + 0 THEN w.val ELSE want[i][u + 1]
        BY DEF Partly
      <4>1. u \in Nat /\ ~(file[f].off <= u /\ u < file[f].off + 0)
        BY <1>7, Sizes, SMT DEF Offset
      <4>2. u < disk.inode[i].size
        <5>1. file[f].off <= disk.inode[i].size
          BY <3>1, <1>9, <1>13 DEF Accepts
        <5>2. x.size = disk.inode[i].size /\ disk.inode[i].size \in Nat
          BY <3>1, <2>8, Sizes, SMT
        <5> QED BY <5>1, <5>2, <4>1, <1>7, SMT
      <4>3. Unit(disk, disk.inode[i].addrs, u) = want[i][u + 1]
        <5>1. Holds(disk, disk.inode[i], want[i])
          BY <3>1, WrittenUnits
        <5> QED BY <5>1, <4>2 DEF Holds
      <4> QED BY <4>1, <4>3, <3>1, <2>8
    <3> QED BY <3>1, <3>2, <3>3, <2>3, <2>8 DEF Writing
  <2>13. ASSUME NEW j \in Inum PROVE InodeOK(j)'
    <3>1. CASE j = i
      <4>1. Writing(disk', icache'[i], call'[p], file'[call'[p].f], want'[i])
        BY <2>3, <2>4, <2>7, <2>12, <1>10
      <4>2. Locked(i)'
        BY <4>1, <2>3, <2>4, <2>7, <2>8 DEF Locked, Writing, Present, Partly
      <4> QED BY <3>1, <4>2 DEF InodeOK
    <3>2. CASE j # i
      <4>1. icache[j].lock \in Proc => icache[j].lock # p
        BY <1>0, <1>6, LockHolder, NoZero
      <4>2. InodeKept(j)
        BY <4>1, <3>2, <2>4, <2>5, <1>10, AlikeSame DEF InodeKept
      <4> QED BY <4>2, <1>0, InodeFrame
    <3> QED BY <3>1, <3>2
  <2>14. \A j : Gone(j)' <=> Gone(j)
    <3>1. call'[p].at # "ind" /\ call[p].at # "ind"
      BY <2>3, <2>4, <1>5
    <3> QED BY <3>1, <2>4 DEF Gone
  <2>15. Sound(durable', dwant')
    BY <1>0, <2>2
  <2> QED BY <2>5, <2>6, <2>11, <2>13, <2>14, <2>15, <1>0, <1>10, LightStep
<1> QED BY <1>12, <1>13

-----------------------------------------------------------------------------
\* bmap() returns a block of the disk.
LEMMA MappedBlock ==
  ASSUME NEW H, NEW i, NEW d, NEW a, Tracks(H, i, d, a), NEW bn \in 0 .. MAXFILE - 1, NEW m,
         Mapped(H, i, d, a, bn, m)
  PROVE  Address(m.d, m.addrs, bn) \in Block
<1>1. PICK G : G = [H EXCEPT ![i] = Entries(m.d, m.addrs)]
  OBVIOUS
<1>2. Tracks(G, i, m.d, m.addrs)
  BY <1>1, MappedTracks
<1>3. SlotOf(bn) \in Slot /\ Address(m.d, m.addrs, bn) = Entry(m.d, m.addrs, SlotOf(bn))
  BY AddressEntry
<1>4. G[i][SlotOf(bn)] = Address(m.d, m.addrs, bn)
  BY <1>2, <1>3 DEF Tracks, Lists, Entries
<1>5. Address(m.d, m.addrs, bn) # 0
  BY DEF Mapped
<1> QED BY <1>2, <1>3, <1>4, <1>5, NamedBlock DEF Tracks

\* bmap() and the copy of n units v.
LEMMA MapAndStore ==
  \A H, i, d, a : \A off \in Offset, n \in Nat, v \in Nat : \A s, m, b :
    /\ Tracks(H, i, d, a)
    /\ (off % BSIZE) + n <= BSIZE
    /\ s = [k \in 1 .. n |-> v]
    /\ Mapped(H, i, d, a, off \div BSIZE, m)
    /\ b = Address(m.d, m.addrs, off \div BSIZE)
    =>  Stored(H, i, d, a, [m.d EXCEPT !.content[b] = Put(@, off % BSIZE, s)], m.addrs, off, n, v)

\* memmove() to a block: the units that are copied and those that stay.
<1>PutValue.
  ASSUME NEW c \in [0 .. BSIZE - 1 -> Nat], NEW at \in Nat, NEW n \in Nat, NEW v \in Nat,
         NEW s, s = [k \in 1 .. n |-> v]
  PROVE  /\ Put(c, at, s) \in [0 .. BSIZE - 1 -> Nat]
         /\ Copied(c, Put(c, at, s), at, n, v)
  <2> USE <1>PutValue
  <2>1. Len(s) = n
    BY SMT
  <2>2. ASSUME NEW k \in 0 .. BSIZE - 1
        PROVE  (IF k >= at /\ k < at + Len(s) THEN s[k - at + 1] ELSE c[k])
                 = IF at <= k /\ k < at + n THEN v ELSE c[k]
    <3>1. k \in Nat
      BY Constants, SMT
    <3>2. CASE at <= k /\ k < at + n
      <4>1. k - at + 1 \in 1 .. n /\ k >= at
        BY <3>1, <3>2, SMT
      <4> QED BY <4>1, <3>2, <2>1
    <3>3. CASE ~(at <= k /\ k < at + n)
      <4>1. ~(k >= at /\ k < at + n)
        BY <3>1, <3>3, SMT
      <4> QED BY <4>1, <3>3, <2>1
    <3> QED BY <3>2, <3>3
  <2>3. \A k \in 0 .. BSIZE - 1 : Put(c, at, s)[k] = IF at <= k /\ k < at + n THEN v ELSE c[k]
    BY <2>2 DEF Put
  <2>4. \A k \in 0 .. BSIZE - 1 : (IF at <= k /\ k < at + n THEN v ELSE c[k]) \in Nat
    OBVIOUS
  <2>5. \A k \in 0 .. BSIZE - 1 : Put(c, at, s)[k] \in Nat
    BY <2>3, <2>4
  <2>6. Put(c, at, s) \in [0 .. BSIZE - 1 -> Nat]
    BY <2>5 DEF Put
  <2> QED BY <2>3, <2>6 DEF Copied

\* A block of data of file i becomes w: the other files are as they were, and
\* so are the entries of i.
<1>DataKeeps.
  ASSUME NEW H, NEW i, NEW d, NEW a, Tracks(H, i, d, a), NEW bn \in 0 .. MAXFILE - 1,
         Address(d, a, bn) # 0, NEW w, NEW d2, Changed(d, Address(d, a, bn), w, d2)
  PROVE  Stays(H, i, d, a, d2)
  <2> USE <1>DataKeeps
  <2>1. PICK b : b = Address(d, a, bn)
    OBVIOUS
  <2>2. PICK k \in Slot : k # NDIRECT /\ b = Entry(d, a, k)
    BY <2>1, AddressEntry
  <2>3. H[i][k] = b /\ b # 0
    BY <2>1, <2>2 DEF Tracks, Lists, Entries
  <2>4. b \in Block /\ \A c \in Block : c # b => d2.content[c] = d.content[c]
    BY <2>1, <2>3, NamedBlock DEF Tracks, Changed
  <2>5. Entries(d2, a) = Entries(d, a)
    <3>1. ASSUME a[NDIRECT] # 0 PROVE d2.content[a[NDIRECT]] = d.content[a[NDIRECT]]
      <4>1. H[i][NDIRECT] = a[NDIRECT]
        BY Pointer DEF Tracks
      <4>2. H[i][NDIRECT] # b /\ a[NDIRECT] \in Block
        BY <2>2, <2>3, <3>1, NamedApartIn, PointerSlot, TrackedPointer DEF Tracks
      <4> QED BY <4>1, <4>2, <2>4
    <3> QED BY <3>1, EntriesSame
  <2>6. ASSUME NEW j \in Inum, NEW aj \in Addrs, j # i, Lists(H[j], d, aj)
        PROVE  Alike(d, d2, aj)
    <3>1. ASSUME NEW x \in Slot, H[j][x] # 0
          PROVE  H[j][x] \in Block /\ d2.content[H[j][x]] = d.content[H[j][x]]
      <4>1. H[j][x] \in Block
        BY <3>1, NamedBlock DEF Tracks
      <4>2. H[j][x] # H[i][k]
        BY <2>6, <3>1, NamedApart DEF Tracks
      <4> QED BY <4>1, <4>2, <2>3, <2>4
    <3>2. aj[NDIRECT] # 0 => d2.content[aj[NDIRECT]] = d.content[aj[NDIRECT]]
      <4>1. H[j][NDIRECT] = aj[NDIRECT]
        BY <2>6, Pointer
      <4> QED BY <4>1, <3>1, PointerSlot
    <3>3. \A x \in Slot : Entry(d2, aj, x) = Entry(d, aj, x)
      <4>1. Entries(d2, aj) = Entries(d, aj)
        BY <3>2, EntriesSame
      <4> QED BY <4>1 DEF Entries
    <3>4. \A x \in Slot : H[j][x] = Entry(d, aj, x)
      BY <2>6 DEF Lists, Entries
    <3>5. \A x \in Slot : x # NDIRECT /\ Entry(d, aj, x) # 0 =>
                    d2.content[Entry(d, aj, x)] = d.content[Entry(d, aj, x)]
      BY <3>1, <3>4
    <3> QED BY <3>3, <3>5, AlikeIf
  <2> QED BY <2>5, <2>6 DEF Stays, Kept, Lists

\* The units of file i that are not in the block are as they were.
<1>DataUnits.
  ASSUME NEW H, NEW i, NEW d, NEW a, Tracks(H, i, d, a), NEW bn \in 0 .. MAXFILE - 1,
         Address(d, a, bn) # 0, NEW w, NEW d2, Changed(d, Address(d, a, bn), w, d2)
  PROVE  Rewritten(d, a, d2, bn, w)
  <2> USE <1>DataUnits
  <2> SUFFICES ASSUME NEW u \in Offset
               PROVE  Unit(d2, a, u) = IF u \div BSIZE = bn THEN w[u % BSIZE] ELSE Unit(d, a, u)
    BY DEF Rewritten
  <2>1. PICK b : b = Address(d, a, bn)
    OBVIOUS
  <2>2. PICK un \in 0 .. MAXFILE - 1 : un = u \div BSIZE
    BY OffsetBlock
  <2>3. \A x \in 0 .. MAXFILE - 1 : Address(d2, a, x) = Address(d, a, x)
    <3>0. Stays(H, i, d, a, d2)
      BY <1>DataKeeps
    <3>1. Entries(d2, a) = Entries(d, a)
      BY <3>0 DEF Stays, Lists
    <3>2. \A k \in Slot : Entry(d2, a, k) = Entry(d, a, k)
      BY <3>1 DEF Entries
    <3> QED BY <3>2, AddressEntry
  <2>4. CASE un = bn
    <3>1. Unit(d2, a, u) = d2.content[b][u % BSIZE]
      BY <2>1, <2>2, <2>3, <2>4 DEF Unit
    <3> QED BY <3>1, <2>1, <2>2, <2>4 DEF Changed
  <2>5. CASE un # bn
    <3>1. CASE Address(d, a, un) = 0
      BY <3>1, <2>2, <2>3, <2>5 DEF Unit
    <3>2. CASE Address(d, a, un) # 0
      <4>1. Address(d, a, un) # b /\ Address(d, a, un) \in Block
        <5>1. SlotOf(un) # SlotOf(bn) /\ SlotOf(un) \in Slot /\ SlotOf(bn) \in Slot
          BY <2>5, SlotOfOne, AddressEntry
        <5>2. H[i] = Entries(d, a)
          BY DEF Tracks, Lists
        <5>3. H[i][SlotOf(un)] = Entry(d, a, SlotOf(un)) /\ H[i][SlotOf(bn)] = Entry(d, a, SlotOf(bn))
          BY <5>1, <5>2 DEF Entries
        <5>4. H[i][SlotOf(un)] = Address(d, a, un) /\ H[i][SlotOf(bn)] = b
          BY <2>1, <5>3, AddressEntry
        <5> QED BY <5>1, <5>4, <3>2, NamedApartIn, NamedBlock DEF Tracks
      <4>2. d2.content[Address(d, a, un)] = d.content[Address(d, a, un)]
        BY <4>1, <2>1 DEF Changed
      <4> QED BY <4>2, <3>2, <2>2, <2>3, <2>5 DEF Unit
    <3> QED BY <3>1, <3>2
  <2> QED BY <2>2, <2>4, <2>5

\* The units off .. off + n - 1, which are in one block.
<1>Within.
  ASSUME NEW off \in Offset, NEW n \in Nat, (off % BSIZE) + n <= BSIZE, NEW u \in Offset
  PROVE  /\ u \div BSIZE = off \div BSIZE =>
              (off % BSIZE <= u % BSIZE /\ u % BSIZE < (off % BSIZE) + n <=> off <= u /\ u < off + n)
         /\ u \div BSIZE # off \div BSIZE => ~(off <= u /\ u < off + n)
  <2> USE <1>Within
  <2>1. PICK q \in Nat : q = off \div BSIZE
    BY OffsetBlock, SMT
  <2>2. PICK r \in 0 .. BSIZE - 1 : r = off % BSIZE
    BY OffsetBlock
  <2>3. PICK x \in Nat : x = u \div BSIZE
    BY OffsetBlock, SMT
  <2>4. PICK y \in 0 .. BSIZE - 1 : y = u % BSIZE
    BY OffsetBlock
  <2>5. BSIZE \in Nat
    BY Constants
  <2>6. off = BSIZE * q + r /\ u = BSIZE * x + y
    BY <2>1, <2>2, <2>3, <2>4, OffsetBlock
  <2>7. PICK f \in Nat : f = BSIZE * q
    BY <2>5, SMT
  <2>8. PICK g \in Nat : g = BSIZE * x
    BY <2>5, SMT
  <2>9. off = f + r /\ u = g + y /\ r + n <= BSIZE
    BY <2>2, <2>6, <2>7, <2>8
  <2>10. x = q => (r <= y /\ y < r + n <=> off <= u /\ u < off + n)
    <3>1. x = q => f = g
      BY <2>7, <2>8
    <3> QED BY <3>1, <2>5, <2>9, SMT
  <2>11. x # q => ~(off <= u /\ u < off + n)
    <3>1. CASE x < q
      <4>1. BSIZE * (x + 1) <= BSIZE * q
        BY <3>1, <2>5, SMT
      <4>2. BSIZE * (x + 1) = g + BSIZE
        BY <2>5, <2>8, SMT
      <4> QED BY <4>1, <4>2, <2>5, <2>7, <2>9, SMT
    <3>2. CASE q < x
      <4>1. BSIZE * (q + 1) <= BSIZE * x
        BY <3>2, <2>5, SMT
      <4>2. BSIZE * (q + 1) = f + BSIZE
        BY <2>5, <2>7, SMT
      <4> QED BY <4>1, <4>2, <2>5, <2>8, <2>9, SMT
    <3> QED BY <3>1, <3>2, SMT
  <2> QED BY <2>1, <2>2, <2>3, <2>4, <2>10, <2>11

\* Two changes to file i leave the other files as they were.
<1>KeptTwice.
  ASSUME NEW H \in Naming, NEW i \in Inum, NEW d, NEW d1, NEW d2, NEW h,
         Kept(H, i, d, d1), Kept([H EXCEPT ![i] = h], i, d1, d2)
  PROVE  Kept(H, i, d, d2)
  <2> USE <1>KeptTwice
  <2> SUFFICES ASSUME NEW j \in Inum, NEW a \in Addrs, j # i, Lists(H[j], d, a)
               PROVE  Alike(d, d2, a)
    BY DEF Kept
  <2>1. Alike(d, d1, a)
    BY DEF Kept
  <2>2. Lists(H[j], d1, a)
    BY <2>1 DEF Alike, Lists
  <2>3. [H EXCEPT ![i] = h][j] = H[j]
    BY DEF Naming
  <2>4. Alike(d1, d2, a)
    BY <2>2, <2>3 DEF Kept
  <2> QED BY <2>1, <2>4 DEF Alike

\* writei() stores units in the block that bmap() found.
<1>Store.
  ASSUME NEW H, NEW i, NEW d, NEW a, Tracks(H, i, d, a), NEW off \in Offset, NEW n \in Nat,
         NEW v \in Nat, (off % BSIZE) + n <= BSIZE, NEW s, s = [k \in 1 .. n |-> v],
         NEW m, Mapped(H, i, d, a, off \div BSIZE, m),
         NEW b, b = Address(m.d, m.addrs, off \div BSIZE), NEW d2,
         Changed(m.d, b, Put(m.d.content[b], off % BSIZE, s), d2)
  PROVE  Stored(H, i, d, a, d2, m.addrs, off, n, v)
  <2> USE <1>Store
  <2>1. PICK bn \in 0 .. MAXFILE - 1 : bn = off \div BSIZE
    BY OffsetBlock
  <2>2. PICK at \in 0 .. BSIZE - 1 : at = off % BSIZE
    BY OffsetBlock
  <2>3. PICK d1 \in Disk : d1 = m.d
    BY DEF Mapped, Grows
  <2>4. PICK a1 \in Addrs : a1 = m.addrs
    BY DEF Mapped, Grows
  <2>5. PICK w : w = Put(d1.content[b], at, s)
    OBVIOUS
  <2>6. PICK G : G = [H EXCEPT ![i] = Entries(d1, a1)]
    OBVIOUS
  <2>7. Tracks(G, i, d1, a1)
    BY <2>3, <2>4, <2>6, MappedTracks
  <2>8. b # 0 /\ b = Address(d1, a1, bn)
    BY <2>1, <2>3, <2>4 DEF Mapped
  <2>9. Changed(d1, Address(d1, a1, bn), w, d2)
    BY <2>2, <2>3, <2>5, <2>8
  <2>10. Stays(G, i, d1, a1, d2)
    BY <2>7, <2>8, <2>9, <1>DataKeeps
  <2>11. Kept(G, i, d1, d2) /\ Entries(d2, a1) = Entries(d1, a1)
    BY <2>10 DEF Stays, Lists
  <2>12. Kept(H, i, d, d2)
    <3>1. Kept(H, i, d, d1) /\ H \in Naming /\ i \in Inum
      BY <2>3 DEF Mapped, Grows, Tracks
    <3>2. Kept([H EXCEPT ![i] = Entries(d1, a1)], i, d1, d2)
      BY <2>6, <2>11
    <3> QED BY <3>1, <3>2, <1>KeptTwice
  <2>13. Named([H EXCEPT ![i] = Entries(d2, a1)], d2.used)
    <3>1. d2.used = d1.used
      BY <2>9 DEF Changed
    <3> QED BY <3>1, <2>6, <2>7, <2>11 DEF Tracks
  <2>14. d1.content[b] \in [0 .. BSIZE - 1 -> Nat]
    <3>1. b \in Block
      <4>0. SlotOf(bn) \in Slot /\ Address(d1, a1, bn) = Entry(d1, a1, SlotOf(bn))
        BY AddressEntry
      <4>1. SlotOf(bn) \in Slot /\ G[i][SlotOf(bn)] = b
        BY <4>0, <2>7, <2>8 DEF Tracks, Lists, Entries
      <4> QED BY <4>1, <2>7, <2>8, NamedBlock DEF Tracks
    <3> QED BY <3>1, DiskFields
  <2>15. \A k \in 0 .. BSIZE - 1 : w[k] = IF at <= k /\ k < at + n THEN v ELSE d1.content[b][k]
    <3>1. at \in Nat
      BY Constants, SMT
    <3>2. Copied(d1.content[b], Put(d1.content[b], at, s), at, n, v)
      BY <3>1, <2>14, <1>PutValue
    <3> QED BY <3>2, <2>5 DEF Copied
  <2>16. ASSUME NEW u \in Offset
         PROVE  Unit(d2, a1, u) =
                  IF off <= u /\ u < off + n THEN v
                  ELSE IF u \div BSIZE = off \div BSIZE /\ Unit(d, a, u) = -1 THEN 0 ELSE Unit(d, a, u)
    <3>1. Unit(d2, a1, u) = IF u \div BSIZE = bn THEN w[u % BSIZE] ELSE Unit(d1, a1, u)
      <4>1. Rewritten(d1, a1, d2, bn, w)
        BY <2>7, <2>8, <2>9, <1>DataUnits
      <4> QED BY <4>1 DEF Rewritten
    <3>2. Unit(d1, a1, u) =
            IF u \div BSIZE \in {off \div BSIZE} /\ Unit(d, a, u) = -1 THEN 0 ELSE Unit(d, a, u)
      BY <2>3, <2>4 DEF Mapped, Grows
    <3>3. CASE u \div BSIZE # bn
      <4>1. ~(off <= u /\ u < off + n)
        BY <3>3, <2>1, <1>Within
      <4> QED BY <4>1, <3>1, <3>2, <3>3, <2>1
    <3>4. CASE u \div BSIZE = bn
      <4>1. at <= u % BSIZE /\ u % BSIZE < at + n <=> off <= u /\ u < off + n
        BY <3>4, <2>1, <2>2, <1>Within
      <4>2. Unit(d1, a1, u) = d1.content[b][u % BSIZE]
        BY <3>4, <2>8 DEF Unit
      <4>3. u % BSIZE \in 0 .. BSIZE - 1
        BY OffsetBlock
      <4>4. w[u % BSIZE] = IF off <= u /\ u < off + n THEN v ELSE Unit(d1, a1, u)
        BY <4>1, <4>2, <4>3, <2>15
      <4> QED BY <4>4, <3>1, <3>2, <3>4, <2>1
    <3> QED BY <3>3, <3>4
  <2>17. d2 \in Disk /\ d2.inode = d.inode /\ d2.freeinode = d.freeinode
    BY <2>3, <2>9 DEF Changed, Mapped, Grows
  <2> QED BY <2>4, <2>12, <2>13, <2>16, <2>17 DEF Stored

\* A block b of disk d becomes w.
<1>ContentFields.
  ASSUME NEW d \in Disk, NEW b \in Block, NEW w \in [0 .. BSIZE - 1 -> Nat]
  PROVE  Changed(d, b, w, [d EXCEPT !.content[b] = w])
  <2> DEFINE c2 == [d.content EXCEPT ![b] = w]
             d2 == [d EXCEPT !.content = c2]
  <2>1. d.content \in [Block -> [0 .. BSIZE - 1 -> Nat]]
    BY DiskFields
  <2>2. c2 \in [Block -> [0 .. BSIZE - 1 -> Nat]] /\ c2[b] = w /\ \A c \in Block : c # b => c2[c] = d.content[c]
    BY <2>1
  <2> HIDE DEF c2
  <2>3. d2 \in Disk /\ d2.content = c2 /\ d2.used = d.used /\ d2.inode = d.inode /\ d2.freeinode = d.freeinode
    BY <2>2 DEF Disk
  <2>4. [d EXCEPT !.content[b] = w] = d2
    BY DEF c2
  <2>5. Changed(d, b, w, d2)
    BY <2>2, <2>3 DEF Changed
  <2> QED BY <2>4, <2>5

<1> QED
  <2> TAKE H, i, d, a
  <2> TAKE off \in Offset, n \in Nat, v \in Nat
  <2> TAKE s, m, b
  <2> HAVE /\ Tracks(H, i, d, a)
           /\ (off % BSIZE) + n <= BSIZE
           /\ s = [k \in 1 .. n |-> v]
           /\ Mapped(H, i, d, a, off \div BSIZE, m)
           /\ b = Address(m.d, m.addrs, off \div BSIZE)
  <2>1. off \div BSIZE \in 0 .. MAXFILE - 1
    BY OffsetBlock
  <2>2. b \in Block
    BY <2>1, MappedBlock
  <2>3. m.d \in Disk
    BY DEF Mapped, Grows
  <2>4. m.d.content[b] \in [0 .. BSIZE - 1 -> Nat]
    BY <2>2, <2>3, DiskFields
  <2>5. PICK w : w = Put(m.d.content[b], off % BSIZE, s)
    OBVIOUS
  <2>6. w \in [0 .. BSIZE - 1 -> Nat]
    <3>1. off % BSIZE \in Nat
      BY OffsetBlock, Constants, SMT
    <3> QED BY <3>1, <2>4, <2>5, <1>PutValue
  <2>7. Changed(m.d, b, w, [m.d EXCEPT !.content[b] = w])
    BY <2>2, <2>3, <2>6, <1>ContentFields
  <2>8. [m.d EXCEPT !.content[b] = w] = [m.d EXCEPT !.content[b] = Put(@, off % BSIZE, s)]
    BY <2>5
  <2>9. PICK d2 : d2 = [m.d EXCEPT !.content[b] = w]
    OBVIOUS
  <2>10. Changed(m.d, b, Put(m.d.content[b], off % BSIZE, s), d2)
    BY <2>5, <2>7, <2>9
  <2>11. Stored(H, i, d, a, d2, m.addrs, off, n, v)
    BY <2>10, <1>Store
  <2> QED BY <2>8, <2>9, <2>11

\* The entries that are held.
LEMMA PointersType ==
  ASSUME NEW a \in Addrs
  PROVE  Pointers(a) \in [Slot -> Nat]
<1>1. ASSUME NEW k \in Slot PROVE (IF k <= NDIRECT THEN a[k] ELSE 0) \in Nat
  <2>1. CASE k <= NDIRECT
    <3>1. k \in 0 .. NDIRECT
      BY <2>1, Constants, Sizes, SMT DEF Slot
    <3>2. a[k] \in Block
      BY <3>1 DEF Addrs
    <3> QED BY <2>1, <3>2, Layout
  <2>2. CASE ~(k <= NDIRECT)
    <3>1. 0 \in Nat
      BY SMT
    <3> QED BY <3>1, <2>2
  <2> QED BY <2>1, <2>2
<1> QED BY <1>1 DEF Pointers

\* The entries of all the inodes have their type.
LEMMA HeldType ==
  ASSUME Types
  PROVE  Held \in Naming
<1>1. ASSUME NEW i \in Inum
      PROVE  (IF Gone(i) THEN Pointers(Current[i].addrs) ELSE Entries(disk, Current[i].addrs)) \in [Slot -> Nat]
  <2>1. Current[i].addrs \in Addrs /\ disk \in Disk
    BY CurrentType DEF Types
  <2> QED BY <2>1, PointersType, EntriesType
<1> QED BY <1>1 DEF Held, Naming

\* Only itrunc(), which has the lock, has freed what an indirect block lists.
LEMMA NotGone ==
  ASSUME \A q \in Proc : CallOK(q), NEW j \in Inum,
         icache[j].lock = 0 \/ call[icache[j].lock].at # "ind"
  PROVE  ~Gone(j)
<1> SUFFICES ASSUME NEW q \in Proc, call[q].at = "ind", call[q].ip = j PROVE FALSE
  BY DEF Gone
<1>1. icache[j].lock = q
  BY Owner
<1> QED BY <1>1, NoZero

\* An inode that is not being truncated names what it lists.
LEMMA HeldLists ==
  ASSUME NEW j \in Inum, ~Gone(j)
  PROVE  Lists(Held[j], disk, Current[j].addrs)
BY DEF Held, Lists

\* bmap() may be called for an inode that is not being truncated.
LEMMA HeldTracks ==
  ASSUME Types, Named(Held, disk.used), NEW i \in Inum, ~Gone(i), NEW a, a = Current[i].addrs
  PROVE  Tracks(Held, i, disk, a)
<1>1. a \in Addrs /\ disk \in Disk
  BY CurrentType DEF Types
<1> QED BY <1>1, HeldType, HeldLists DEF Tracks

\* The entries of inode i change, and the other files do not.
LEMMA HeldPut ==
  ASSUME Types, NEW i \in Inum, ~Gone(i), Kept(Held, i, disk, disk'),
         \A j \in Inum : Gone(j)' <=> Gone(j),
         \A j \in Inum : j # i => Current'[j].addrs = Current[j].addrs,
         NEW a, Current'[i].addrs = a
  PROVE  Held' = [Held EXCEPT ![i] = Entries(disk', a)]
<1>1. ASSUME NEW j \in Inum, j # i
      PROVE  Held'[j] = Held[j]
  <2>1. CASE Gone(j)
    BY <1>1, <2>1 DEF Held
  <2>2. CASE ~Gone(j)
    <3>1. Lists(Held[j], disk, Current[j].addrs) /\ Current[j].addrs \in Addrs
      BY <2>2, HeldLists, CurrentType
    <3>2. Alike(disk, disk', Current[j].addrs)
      BY <1>1, <3>1 DEF Kept
    <3>3. Held'[j] = Entries(disk', Current[j].addrs)
      BY <1>1, <2>2 DEF Held
    <3>4. Held[j] = Entries(disk, Current[j].addrs)
      BY <2>2 DEF Held
    <3> QED BY <3>2, <3>3, <3>4 DEF Alike
  <2> QED BY <2>1, <2>2
<1>2. Held'[i] = Entries(disk', a)
  BY DEF Held
<1>3. Held' = [j \in Inum |-> Held'[j]]
  BY DEF Held
<1>4. Held = [j \in Inum |-> Held[j]]
  BY DEF Held
<1> QED BY <1>1, <1>2, <1>3, <1>4

\* The part of a chunk that goes into one block.
LEMMA PartArith ==
  ASSUME NEW o \in Nat, NEW left \in Nat, left > 0, NEW part,
         part = IF left < BSIZE - (o % BSIZE) THEN left ELSE BSIZE - (o % BSIZE)
  PROVE  /\ part \in Nat /\ part > 0 /\ part <= left /\ part <= BSIZE /\ (o % BSIZE) + part <= BSIZE
         /\ part = left \/ (o + part) % BSIZE = 0
<1>1. PICK r \in 0 .. BSIZE - 1 : r = o % BSIZE
  BY Constants, Div
<1>2. part \in Nat /\ part > 0 /\ part <= left /\ part <= BSIZE /\ r + part <= BSIZE
  BY <1>1, Constants, SMT
<1>3. ASSUME part # left PROVE (o + part) % BSIZE = 0
  <2>1. part = BSIZE - r
    BY <1>1, <1>3
  <2>2. PICK q \in Nat : q = o \div BSIZE
    BY Constants, Div
  <2>3. o = BSIZE * q + r
    BY <2>2, <1>1, Constants, Div
  <2>4. PICK g \in Nat : g = BSIZE * (q + 1)
    BY Constants, SMT
  <2>5. BSIZE * (q + 1) = BSIZE * q + BSIZE /\ q + 1 \in Nat
    BY Constants, SMT
  <2>6. PICK f \in Nat : f = BSIZE * q
    BY Constants, SMT
  <2>7. o + part = g /\ o + part \in Nat
    BY <1>1, <2>1, <2>3, <2>4, <2>5, <2>6, Constants, SMT
  <2>8. BSIZE * (q + 1) <= o + part /\ o + part < BSIZE * (q + 1) + BSIZE
    BY <2>4, <2>7, Constants, SMT
  <2>9. (o + part) % BSIZE = (o + part) - BSIZE * (q + 1)
    BY <2>5, <2>7, <2>8, Constants, DivUnique
  <2> QED BY <2>4, <2>7, <2>9, SMT
<1> QED BY <1>1, <1>2, <1>3

\* Two more elements.
Adds(w, y, z, W) == W \subseteq (w \cup {y}) \cup {z}
Upto(S, k) == IsFiniteSet(S) /\ Cardinality(S) <= k

\* A block of a write adds its block and bitmap block to those that were written.
LEMMA WriteCounted ==
  \A p : \A c \in Calls, h \in Handle, x \in Cached : \A H, i, d : \A o \in Offset :
  \A m, b : \A part \in Nat : \A c2, x2 :
    /\ WriteCall(p, c, h, x)
    /\ c.tot < c.n1
    /\ Tracks(H, i, d, x.addrs)
    /\ Present(d, x)
    /\ o = h.off + c.tot
    /\ Mapped(H, i, d, x.addrs, o \div BSIZE, m)
    /\ b = Address(m.d, m.addrs, o \div BSIZE)
    /\ part > 0
    /\ part <= BSIZE
    /\ (o % BSIZE) + part <= BSIZE
    /\ c2.wrote = (c.wrote \cup m.wrote) \cup {b}
    /\ c2.tot = c.tot + part
    /\ x2.addrs = m.addrs
    =>  Counted(c2, h.off, x2)

\* The blocks of a file of o units are the only number between the bounds.
<1>BlkUnique.
  ASSUME NEW o \in Nat, NEW k \in Nat, BSIZE * k <= o + BSIZE - 1, o + BSIZE - 1 < BSIZE * k + BSIZE
  PROVE  Blk(o) = k
  <2> USE <1>BlkUnique
  <2>1. PICK n : n = o + BSIZE - 1
    OBVIOUS
  <2>2. n \in Nat /\ BSIZE * k <= n /\ n < BSIZE * k + BSIZE
    BY <2>1, Constants, SMT
  <2> QED BY <2>1, <2>2, Constants, DivUnique DEF Blk

\* Units that fill up a block that has been begun need no other,
<1>BlkSame.
  ASSUME NEW o \in Nat, NEW n \in Nat, o % BSIZE # 0, (o % BSIZE) + n <= BSIZE
  PROVE  Blk(o + n) = Blk(o)
  <2> USE <1>BlkSame
  <2>1. PICK q \in Nat : q = o \div BSIZE
    BY Constants, Div
  <2>2. PICK r \in 0 .. BSIZE - 1 : r = o % BSIZE
    BY Constants, Div
  <2>3. o = BSIZE * q + r /\ r # 0 /\ r + n <= BSIZE
    BY <2>1, <2>2, Constants, Div
  <2>4. PICK f \in Nat : f = BSIZE * q
    BY Constants, SMT
  <2>5. BSIZE * (q + 1) = f + BSIZE /\ q + 1 \in Nat
    BY <2>4, Constants, SMT
  <2>6. o = f + r
    BY <2>3, <2>4
  <2>7. Blk(o) = q + 1
    <3>1. BSIZE * (q + 1) <= o + BSIZE - 1 /\ o + BSIZE - 1 < BSIZE * (q + 1) + BSIZE
      BY <2>3, <2>5, <2>6, Constants, SMT
    <3> QED BY <3>1, <2>5, <1>BlkUnique
  <2>8. Blk(o + n) = q + 1
    <3>1. /\ BSIZE * (q + 1) <= o + n + BSIZE - 1 /\ o + n + BSIZE - 1 < BSIZE * (q + 1) + BSIZE
          /\ o + n \in Nat
      BY <2>3, <2>5, <2>6, Constants, SMT
    <3> QED BY <3>1, <2>5, <1>BlkUnique
  <2> QED BY <2>7, <2>8

\* and those that begin a block need one.
<1>BlkNext.
  ASSUME NEW o \in Nat, NEW n \in Nat, o % BSIZE = 0, n > 0, n <= BSIZE
  PROVE  Blk(o + n) = Blk(o) + 1
  <2> USE <1>BlkNext
  <2>1. PICK q \in Nat : q = o \div BSIZE
    BY Constants, Div
  <2>3. o = BSIZE * q + 0
    BY <2>1, Constants, Div
  <2>4. PICK f \in Nat : f = BSIZE * q
    BY Constants, SMT
  <2>5. BSIZE * (q + 1) = f + BSIZE /\ q + 1 \in Nat
    BY <2>4, Constants, SMT
  <2>6. o = f
    BY <2>3, <2>4, SMT
  <2>7. Blk(o) = q
    <3>1. BSIZE * q <= o + BSIZE - 1 /\ o + BSIZE - 1 < BSIZE * q + BSIZE
      BY <2>4, <2>6, Constants, SMT
    <3> QED BY <3>1, <1>BlkUnique
  <2>8. Blk(o + n) = q + 1
    <3>1. /\ BSIZE * (q + 1) <= o + n + BSIZE - 1 /\ o + n + BSIZE - 1 < BSIZE * (q + 1) + BSIZE
          /\ o + n \in Nat
      BY <2>5, <2>6, Constants, SMT
    <3> QED BY <3>1, <2>5, <1>BlkUnique
  <2> QED BY <2>7, <2>8

\* A set with two elements more has at most two more.
<1>CardAddTwo.
  ASSUME NEW w, NEW k \in Nat, Upto(w, k), NEW y, NEW z,
         NEW W, Adds(w, y, z, W)
  PROVE  Upto(W, k + 2)
  <2> USE <1>CardAddTwo
  <2>1. PICK e \in Nat : e = k + 1
    BY SMT
  <2>2. PICK g \in Nat : g = e + 1
    BY SMT
  <2>3. PICK R : R = w \cup {y}
    OBVIOUS
  <2>4. PICK S : S = R \cup {z}
    OBVIOUS
  <2>5. IsFiniteSet(R) /\ Cardinality(R) <= e
    BY <2>1, <2>3, CardAdd DEF Upto
  <2>6. IsFiniteSet(S) /\ Cardinality(S) <= g
    BY <2>2, <2>4, <2>5, CardAdd
  <2>7. W \in SUBSET S
    BY <2>3, <2>4 DEF Adds
  <2>8. IsFiniteSet(W) /\ Cardinality(W) <= g
    BY <2>6, <2>7, CardSubset
  <2>9. g = k + 2
    BY <2>1, <2>2, SMT
  <2> QED BY <2>8, <2>9 DEF Upto

\* A block that has been begun is there.
<1>Begun.
  ASSUME NEW d, NEW a, NEW o \in Offset, o % BSIZE # 0, o - 1 \in Offset => Unit(d, a, o - 1) # -1
  PROVE  Address(d, a, o \div BSIZE) # 0
  <2> USE <1>Begun
  <2>1. PICK q \in Nat : q = o \div BSIZE
    BY OffsetBlock, SMT
  <2>2. PICK r \in 0 .. BSIZE - 1 : r = o % BSIZE
    BY OffsetBlock
  <2>3. o = BSIZE * q + r /\ r # 0 /\ o \in Nat
    BY <2>1, <2>2, OffsetBlock
  <2>4. PICK f \in Nat : f = BSIZE * q
    BY Constants, SMT
  <2>5. o = f + r
    BY <2>3, <2>4
  <2>6. o - 1 \in Nat /\ f <= o - 1 /\ o - 1 < f + BSIZE /\ o - 1 \in Offset
    BY <2>2, <2>3, <2>5, Constants, Sizes, SMT DEF Offset
  <2>7. (o - 1) \div BSIZE = q
    BY <2>4, <2>6, Constants, DivUnique
  <2>8. Unit(d, a, o - 1) # -1
    BY <2>6
  <2> QED BY <2>1, <2>7, <2>8 DEF Unit

<1> QED
  <2> TAKE p
  <2> TAKE c \in Calls, h \in Handle, x \in Cached
  <2> TAKE H, i, d
  <2> TAKE o \in Offset
  <2> TAKE m, b
  <2> TAKE part \in Nat
  <2> TAKE c2, x2
  <2> HAVE /\ WriteCall(p, c, h, x)
           /\ c.tot < c.n1
           /\ Tracks(H, i, d, x.addrs)
           /\ Present(d, x)
           /\ o = h.off + c.tot
           /\ Mapped(H, i, d, x.addrs, o \div BSIZE, m)
           /\ b = Address(m.d, m.addrs, o \div BSIZE)
           /\ part > 0
           /\ part <= BSIZE
           /\ (o % BSIZE) + part <= BSIZE
           /\ c2.wrote = (c.wrote \cup m.wrote) \cup {b}
           /\ c2.tot = c.tot + part
           /\ x2.addrs = m.addrs
  <2>1. PICK off \in Nat : off = h.off
    <3>1. h.off \in 0 .. MAXFILE * BSIZE
      BY DEF Handle
    <3> QED BY <3>1, Sizes, SMT
  <2>2. c.tot \in Nat /\ c.n1 \in Nat /\ o \in Nat /\ o + part \in Nat /\ off + c2.tot = o + part
    <3>1. c.tot \in Nat /\ c.n1 \in Nat
      BY DEF Calls
    <3> QED BY <3>1, <2>1, SMT
  <2>3. PICK w : w = c.wrote \ Ind(x.addrs[NDIRECT])
    OBVIOUS
  <2>4. PICK w2 : w2 = c2.wrote \ Ind(x2.addrs[NDIRECT])
    OBVIOUS
  <2>5. w2 \subseteq (w \cup {b}) \cup {BBLOCK(b)}
    <3>1. m.wrote \subseteq {b, BBLOCK(b)} \cup Ind(m.addrs[NDIRECT])
      BY DEF Mapped
    <3>2. Ind(x.addrs[NDIRECT]) \subseteq Ind(m.addrs[NDIRECT])
      <4>1. CASE x.addrs[NDIRECT] = 0
        BY <4>1 DEF Ind
      <4>2. CASE x.addrs[NDIRECT] # 0
        BY <4>2 DEF Mapped
      <4> QED BY <4>1, <4>2
    <3> QED BY <3>1, <3>2, <2>3, <2>4
  <2>6. PICK k \in Nat : k = Blk(off)
    BY BlkType
  <2>7. PICK l \in Nat : l = Blk(o)
    BY <2>2, BlkType
  <2>8. PICK l2 \in Nat : l2 = Blk(o + part)
    BY <2>2, BlkType
  <2>9. IsFiniteSet(w) /\ Cardinality(w) <= 2 * (l - k) + 1 /\ Cardinality(w) \in Nat
    <3>1. IsFiniteSet(w) /\ Cardinality(w) <= 2 * (l - k) + 1
      BY <2>1, <2>3, <2>6, <2>7 DEF WriteCall, Counted
    <3> QED BY <3>1, FS_CardinalityType
  <2>10. SUFFICES IsFiniteSet(w2) /\ Cardinality(w2) <= 2 * (l2 - k) + 1
    BY <2>1, <2>2, <2>4, <2>6, <2>8 DEF Counted
  <2>11. CASE o % BSIZE = 0
    <3>1. l2 = l + 1
      BY <2>2, <2>7, <2>8, <2>11, <1>BlkNext
    <3>2. 2 * (l - k) + 1 \in Nat /\ (2 * (l - k) + 1) + 2 = 2 * (l2 - k) + 1
      BY <3>1, <2>9, SMT
    <3>3. PICK e \in Nat : e = 2 * (l - k) + 1
      BY <3>2
    <3>4. Upto(w, e)
      BY <3>3, <2>9 DEF Upto
    <3>5. Upto(w2, e + 2)
      <4>1. Adds(w, b, BBLOCK(b), w2)
        BY <2>5 DEF Adds
      <4> QED BY <4>1, <3>4, <1>CardAddTwo
    <3> QED BY <3>2, <3>3, <3>5 DEF Upto
  <2>12. CASE o % BSIZE # 0
    <3>1. c.tot = 0
      <4>1. c.tot # c.n1
        BY <2>2, SMT
      <4> QED BY <4>1, <2>12 DEF WriteCall
    <3>2. o = off /\ off <= x.size /\ x.size \in Nat
      <4>1. h.off <= x.size /\ x.size \in 0 .. MAXFILE * BSIZE
        BY DEF WriteCall, Cached
      <4> QED BY <4>1, <3>1, <2>1, Sizes, SMT
    <3>3. o - 1 \in Offset => Unit(d, x.addrs, o - 1) # -1
      <4>1. o - 1 < x.size
        BY <3>2, <2>2, SMT
      <4> QED BY <4>1 DEF Present
    <3>4. Address(d, x.addrs, o \div BSIZE) # 0
      BY <3>3, <2>12, <1>Begun
    <3>5. m.wrote = {} /\ c.wrote = {}
      BY <3>1, <3>4 DEF Mapped, WriteCall
    <3>6. w2 \subseteq {} \cup {b}
      BY <3>5, <2>4
    <3>7. IsFiniteSet({}) /\ Cardinality({}) <= 0 /\ 0 \in Nat /\ 0 + 1 \in Nat /\ 0 + 1 = 1
      BY FS_EmptySet, SMT
    <3>8. IsFiniteSet({} \cup {b}) /\ Cardinality({} \cup {b}) <= 0 + 1
      BY <3>7, CardAdd
    <3>9. IsFiniteSet(w2) /\ Cardinality(w2) <= 0 + 1
      BY <3>6, <3>7, <3>8, CardSubset
    <3>10. l2 = k
      BY <3>2, <2>2, <2>6, <2>8, <2>12, <1>BlkSame
    <3>11. 2 * (l2 - k) + 1 = 1
      BY <3>10, SMT
    <3> QED BY <3>7, <3>9, <3>11
  <2> QED BY <2>11, <2>12

\* What is written within a file begins before its end.
LEMMA BelowSum ==
  ASSUME NEW a \in Nat, NEW n \in Nat, n > 0, NEW z \in Nat, a + n <= z
  PROVE  a < z /\ a <= z
BY SMT


\* A block of a write extends what has been written.
LEMMA WriteStored ==
  ASSUME NEW p, NEW c \in Calls, NEW h \in Handle, NEW x \in Cached, WriteCall(p, c, h, x),
         NEW H, NEW i, NEW d, NEW s, Writing(d, x, c, h, s),
         NEW o \in Offset, o = h.off + c.tot,
         NEW m, Mapped(H, i, d, x.addrs, o \div BSIZE, m),
         NEW part \in Nat, part > 0, NEW d2, Stored(H, i, d, x.addrs, d2, m.addrs, o, part, c.val),
         NEW c2, c2.tot = c.tot + part, c2.ip = c.ip, c2.val = c.val,
         NEW x2, x2.addrs = m.addrs, x2.size = x.size
  PROVE  Writing(d2, x2, c2, h, s)
<1>1. PICK off \in Nat : off = h.off
  <2>1. h.off \in 0 .. MAXFILE * BSIZE
    BY DEF Handle
  <2> QED BY <2>1, Sizes, SMT
<1>2. c.tot \in Nat /\ o \in Nat /\ o + part \in Nat /\ off + c2.tot = o + part /\ o = off + c.tot
  <2>1. c.tot \in Nat
    BY DEF Calls
  <2> QED BY <2>1, <1>1, SMT
<1>3. x.size \in Nat /\ off <= x.size
  <2>1. h.off <= x.size /\ x.size \in 0 .. MAXFILE * BSIZE
    BY DEF WriteCall, Cached
  <2> QED BY <2>1, <1>1, Sizes, SMT
<1>4. PICK v \in Nat : v = c.val
  BY DEF Calls
<1>5. x2.size = d2.inode[c2.ip].size
  BY DEF Writing, Stored
<1>6. ASSUME o + part <= x.size PROVE x2.addrs = d2.inode[c2.ip].addrs
  <2>1. o < x.size /\ o <= x.size
    BY <1>2, <1>3, <1>6, BelowSum
  <2>2. Unit(d, x.addrs, o) # -1
    BY <2>1 DEF Writing, Present
  <2>3. Address(d, x.addrs, o \div BSIZE) # 0
    BY <2>2 DEF Unit
  <2>4. m.addrs = x.addrs
    BY <2>3 DEF Mapped
  <2>5. x.addrs = d.inode[c.ip].addrs
    BY <2>1 DEF Writing
  <2> QED BY <2>4, <2>5 DEF Stored
<1>7. ASSUME NEW u \in Offset
      PROVE  Unit(d2, m.addrs, u) =
               IF o <= u /\ u < o + part THEN v
               ELSE IF u \div BSIZE = o \div BSIZE /\ Unit(d, x.addrs, u) = -1 THEN 0
               ELSE Unit(d, x.addrs, u)
  BY <1>4 DEF Stored
<1>8. v # -1
  BY SMT
<1>9. ASSUME NEW u \in Offset, Unit(d, x.addrs, u) # -1
      PROVE  Unit(d2, m.addrs, u) = IF o <= u /\ u < o + part THEN v ELSE Unit(d, x.addrs, u)
  BY <1>7, <1>9
<1>10. Present(d2, x2)
  <2> SUFFICES ASSUME NEW u \in Offset, u < x.size PROVE Unit(d2, m.addrs, u) # -1
    BY DEF Present
  <2>1. Unit(d, x.addrs, u) # -1
    BY DEF Writing, Present
  <2> QED BY <2>1, <1>8, <1>9
<1>11. Partly(d2, x2, off, c2.tot, v, s)
  <2> SUFFICES ASSUME NEW u \in Offset, u < x.size \/ u < o + part
               PROVE  Unit(d2, m.addrs, u) = IF off <= u /\ u < o + part THEN v ELSE s[u + 1]
    BY <1>2 DEF Partly
  <2>1. u \in Nat
    BY OffsetBlock
  <2>2. CASE o <= u /\ u < o + part
    <3>1. off <= u
      BY <2>1, <2>2, <1>2, SMT
    <3> QED BY <2>2, <3>1, <1>7
  <2>3. CASE ~(o <= u /\ u < o + part)
    <3>1. u < x.size \/ u < off + c.tot
      BY <2>1, <2>3, <1>2, <1>3, SMT
    <3>2. Unit(d, x.addrs, u) = IF off <= u /\ u < off + c.tot THEN v ELSE s[u + 1]
      BY <3>1, <1>1, <1>4 DEF Writing, Partly
    <3>3. off <= u /\ u < off + c.tot <=> off <= u /\ u < o + part
      BY <2>1, <2>3, <1>2, SMT
    <3>4. Unit(d, x.addrs, u) # -1
      <4>1. CASE off <= u /\ u < off + c.tot
        BY <3>2, <4>1, <1>8
      <4>2. CASE ~(off <= u /\ u < off + c.tot)
        <5>1. u < x.size
          BY <4>2, <2>1, <2>3, <1>2, <1>3, SMT
        <5> QED BY <5>1 DEF Writing, Present
      <4> QED BY <4>1, <4>2
    <3> QED BY <3>2, <3>3, <3>4, <2>3, <1>9
  <2> QED BY <2>2, <2>3
<1> QED BY <1>1, <1>2, <1>4, <1>5, <1>6, <1>10, <1>11 DEF Writing

\* A step after which the kernel has stopped: nothing but the panic changes.
LEMMA PanicStep ==
  ASSUME IInv, made, panicked' = "full", disk' = disk, durable' = durable, made' = made,
         icache' = icache, file' = file, call' = call, want' = want, dwant' = dwant,
         ncalls' = ncalls, ncrashes' = ncrashes
  PROVE  IInv'
<1>1. Types'
  BY DEF IInv, Types
<1>2. \A q \in Proc : CallOK(q)'
  BY DEF IInv, CallOK
<1>3. Sound(durable', dwant')
  BY DEF IInv
<1> QED BY <1>1, <1>2, <1>3 DEF IInv

\* The blocks that bmap() writes are numbers.
LEMMA MappedWrote ==
  ASSUME NEW H, NEW i, NEW d, NEW a, Tracks(H, i, d, a), NEW bn \in 0 .. MAXFILE - 1, NEW m,
         Mapped(H, i, d, a, bn, m), NEW b, b = Address(m.d, m.addrs, bn)
  PROVE  m.wrote \subseteq Nat /\ b \in Nat
<1>1. b \in Block /\ BBLOCK(b) \in Nat /\ b \in Nat
  BY MappedBlock, BitmapBlock, Layout
<1>2. m.addrs[NDIRECT] \in Block
  <2>1. m.addrs \in Addrs
    BY DEF Mapped, Grows
  <2>2. NDIRECT \in 0 .. NDIRECT
    BY Constants, SMT
  <2> QED BY <2>1, <2>2 DEF Addrs
<1>3. Ind(m.addrs[NDIRECT]) \subseteq Nat
  BY <1>2, BitmapBlock, Layout DEF Ind
<1>4. m.wrote \subseteq {b, BBLOCK(b)} \cup Ind(m.addrs[NDIRECT])
  BY DEF Mapped
<1> QED BY <1>1, <1>3, <1>4

\* writei() writes a block: bmap(), memmove(), log_write().
LEMMA StepWriteBlock ==
  ASSUME IInv, NEW p \in Proc, WriteBlock(p)
  PROVE  IInv'
<1>0. Types /\ made /\ panicked = "no" /\ (\A q \in Proc : CallOK(q)) /\ Sound(durable, dwant)
      /\ (\A j \in Inum : InodeOK(j)) /\ Named(Held, disk.used)
  BY DEF IInv, WriteBlock, Running
<1>1. PICK c : c = call[p]
  OBVIOUS
<1>2. PICK i : i = c.ip
  OBVIOUS
<1>3. PICK f : f = c.f
  OBVIOUS
<1>4. PICK h : h = file[f]
  OBVIOUS
<1>5. PICK x : x = icache[i]
  OBVIOUS
<1>6. PICK o : o = h.off + c.tot
  OBVIOUS
<1>7. PICK m : m = bmap(disk, x.addrs, o \div BSIZE)
  OBVIOUS
<1>8. PICK b : b = Address(m.d, m.addrs, o \div BSIZE)
  OBVIOUS
<1>9. PICK part : part = Part(p, h.off)
  OBVIOUS
<1>10. PICK stop : stop = IF o \div BSIZE >= MAXFILE THEN "yes"
                          ELSE IF Cardinality(FreeBlocks(disk)) < Lacking(disk, x.addrs, o \div BSIZE)
                          THEN "full" ELSE "no"
  OBVIOUS
<1>11. /\ c.at = "writei" /\ c.tot < c.n1 /\ panicked' = stop
       /\ stop # "no" => disk' = disk /\ icache' = icache /\ call' = call
       /\ stop = "no" =>
             /\ disk' = [m.d EXCEPT !.content[b] = Put(@, o % BSIZE, [k \in 1 .. part |-> c.val])]
             /\ icache' = [icache EXCEPT ![i].addrs = m.addrs]
             /\ call' = [call EXCEPT ![p].tot = @ + part, ![p].wrote = @ \cup m.wrote \cup {b}]
       /\ durable' = durable /\ file' = file /\ ncalls' = ncalls /\ want' = want /\ dwant' = dwant
       /\ made' = made /\ ncrashes' = ncrashes
  <2>1. /\ call[p].at = "writei" /\ call[p].tot < call[p].n1
        /\ durable' = durable /\ file' = file /\ ncalls' = ncalls /\ want' = want /\ dwant' = dwant
        /\ made' = made /\ ncrashes' = ncrashes
    BY DEF WriteBlock, noHistory, noCrash
  <2>2. panicked' = stop
    BY <1>1, <1>2, <1>3, <1>4, <1>5, <1>6, <1>10 DEF WriteBlock
  <2>3. ASSUME stop # "no" PROVE disk' = disk /\ icache' = icache /\ call' = call
    <3>1. panicked' # "no"
      BY <2>2, <2>3
    <3> QED BY <3>1 DEF WriteBlock
  <2>4. ASSUME stop = "no"
        PROVE  /\ disk' = [m.d EXCEPT !.content[b] = Put(@, o % BSIZE, [k \in 1 .. part |-> c.val])]
               /\ icache' = [icache EXCEPT ![i].addrs = m.addrs]
               /\ call' = [call EXCEPT ![p].tot = @ + part, ![p].wrote = @ \cup m.wrote \cup {b}]
    <3>1. panicked' = "no"
      BY <2>2, <2>4
    <3>2. icache' = [icache EXCEPT ![i].addrs = m.addrs]
      BY <3>1, <1>1, <1>2, <1>3, <1>4, <1>5, <1>6, <1>7 DEF WriteBlock
    <3>3. call' = [call EXCEPT ![p].tot = @ + part, ![p].wrote = @ \cup m.wrote \cup {b}]
      BY <3>1, <1>1, <1>2, <1>3, <1>4, <1>5, <1>6, <1>7, <1>8, <1>9 DEF WriteBlock
    <3>4. disk' = [m.d EXCEPT !.content[b] = Put(@, o % BSIZE, [k \in 1 .. part |-> call[p].val])]
      BY <3>1, <1>1, <1>2, <1>3, <1>4, <1>5, <1>6, <1>7, <1>8, <1>9 DEF WriteBlock
    <3> QED BY <3>2, <3>3, <3>4, <1>1
  <2> QED BY <2>1, <2>2, <2>3, <2>4, <1>1
<1>12. WriteCall(p, c, h, x)
  BY <1>0, <1>1, <1>2, <1>3, <1>4, <1>5, <1>11, WritesFile
<1>13. i \in Inum /\ f \in File /\ x.valid /\ x.lock = p
  BY <1>2, <1>3, <1>12 DEF WriteCall
<1>14. c \in Calls /\ h \in Handle /\ x \in Cached
  BY <1>0, <1>1, <1>4, <1>5, <1>13 DEF Types
<1>15. Current[i].addrs = x.addrs
  BY <1>5, <1>13, CurrentAddrs
<1>16. ~Gone(i)
  <2>1. call[icache[i].lock].at # "ind"
    BY <1>1, <1>5, <1>11, <1>13
  <2> QED BY <2>1, <1>0, <1>13, NotGone
<1>17. Tracks(Held, i, disk, x.addrs)
  BY <1>0, <1>13, <1>15, <1>16, HeldTracks
<1>18. Writing(disk, x, c, h, want[i]) /\ Present(disk, x)
  <2>1. Locked(i)
    BY <1>0, <1>5, <1>13, NoZero DEF InodeOK, Unlocked
  <2> QED BY <2>1, <1>1, <1>3, <1>4, <1>5, <1>11, <1>13 DEF Locked, Writing
<1>19. c.tot \in Nat /\ c.n1 \in Nat /\ c.val \in Nat /\ h.off \in Nat /\ o \in Nat /\ o \in Offset
  <2>1. c.tot \in Nat /\ c.n1 \in Nat /\ c.val \in Nat
    BY <1>14 DEF Calls
  <2>2. h.off \in 0 .. MAXFILE * BSIZE
    BY <1>14 DEF Handle
  <2>3. h.off + c.n1 <= MAXFILE * BSIZE
    BY <1>12 DEF WriteCall
  <2> QED BY <2>1, <2>2, <2>3, <1>6, <1>11, Sizes, SMT DEF Offset
<1>20. o \div BSIZE \in 0 .. MAXFILE - 1 /\ ~(o \div BSIZE >= MAXFILE)
  <2>1. o \div BSIZE \in 0 .. MAXFILE - 1
    BY <1>19, OffsetBlock
  <2> QED BY <2>1, Sizes, SMT
<1>21. CASE stop # "no"
  <2>1. stop = "full"
    BY <1>10, <1>20, <1>21
  <2> QED BY <2>1, <1>0, <1>11, <1>21, PanicStep
<1>22. CASE stop = "no"
  <2>1. ~(Cardinality(FreeBlocks(disk)) < Lacking(disk, x.addrs, o \div BSIZE))
    BY <1>10, <1>20, <1>22
  <2>2. Mapped(Held, i, disk, x.addrs, o \div BSIZE, m)
    BY <2>1, <1>7, <1>17, <1>20, Bmap
  <2>3. /\ part \in Nat /\ part > 0 /\ part <= c.n1 - c.tot /\ part <= BSIZE /\ (o % BSIZE) + part <= BSIZE
        /\ part = c.n1 - c.tot \/ (o + part) % BSIZE = 0
    <3>1. PICK left \in Nat : left = c.n1 - c.tot /\ left > 0
      BY <1>11, <1>19, SMT
    <3>2. part = IF left < BSIZE - (o % BSIZE) THEN left ELSE BSIZE - (o % BSIZE)
      BY <3>1, <1>1, <1>6, <1>9 DEF Part
    <3> QED BY <3>1, <3>2, <1>19, PartArith, ZenonT(30)
  <2>4. Stored(Held, i, disk, x.addrs, disk', m.addrs, o, part, c.val)
    <3>1. PICK s : s = [k \in 1 .. part |-> c.val]
      OBVIOUS
    <3>2. disk' = [m.d EXCEPT !.content[b] = Put(@, o % BSIZE, s)]
      BY <3>1, <1>11, <1>22
    <3>3. Stored(Held, i, disk, x.addrs, [m.d EXCEPT !.content[b] = Put(@, o % BSIZE, s)], m.addrs,
                 o, part, c.val)
      BY <3>1, <2>2, <2>3, <1>8, <1>17, <1>19, MapAndStore
    <3> QED BY <3>2, <3>3
  <2>5. /\ disk' \in Disk /\ m.addrs \in Addrs /\ disk'.inode = disk.inode
        /\ Kept(Held, i, disk, disk')
        /\ Named([Held EXCEPT ![i] = Entries(disk', m.addrs)], disk'.used)
    BY <2>4 DEF Stored
  <2>6. PICK c2 : c2 = [c EXCEPT !.tot = @ + part, !.wrote = @ \cup m.wrote \cup {b}]
    OBVIOUS
  <2>7. PICK x2 : x2 = [x EXCEPT !.addrs = m.addrs]
    OBVIOUS
  <2>8. call' = [call EXCEPT ![p] = c2] /\ icache' = [icache EXCEPT ![i] = x2]
    <3>1. [call EXCEPT ![p].tot = @ + part, ![p].wrote = @ \cup m.wrote \cup {b}]
            = [call EXCEPT ![p] = c2]
      BY <2>6, <1>0, <1>1 DEF Types
    <3>2. [icache EXCEPT ![i].addrs = m.addrs] = [icache EXCEPT ![i] = x2]
      BY <2>7, <1>0, <1>5 DEF Types
    <3> QED BY <3>1, <3>2, <1>11, <1>22
  <2>9. c.tot + part \in Nat /\ c.wrote \cup m.wrote \cup {b} \in SUBSET Nat
    <3>1. m.wrote \subseteq Nat /\ b \in Nat
      BY <2>2, <1>8, <1>17, <1>20, MappedWrote
    <3>2. c.wrote \subseteq Nat
      BY <1>14 DEF Calls
    <3>3. c.tot + part \in Nat
      BY <2>3, <1>19, SMT
    <3> QED BY <3>1, <3>2, <3>3
  <2>10. /\ c2 \in Calls /\ c2.at = c.at /\ c2.f = f /\ c2.ip = i /\ c2.n = c.n /\ c2.n1 = c.n1
         /\ c2.val = c.val /\ c2.tot = c.tot + part /\ c2.wrote = (c.wrote \cup m.wrote) \cup {b}
    BY <2>6, <2>9, <1>2, <1>3, <1>14 DEF Calls
  <2>11. x2 \in Cached /\ x2.valid /\ x2.lock = p /\ x2.size = x.size /\ x2.addrs = m.addrs
    BY <2>5, <2>7, <1>13, <1>14 DEF Cached
  <2>12. call'[p] = c2 /\ \A q \in Proc : q # p => call'[q] = call[q]
    BY <2>8, <1>0, CallOthers
  <2>13. icache' \in [Inum -> Cached] /\ icache'[i] = x2 /\ \A j \in Inum : j # i => icache'[j] = icache[j]
    <3>1. icache \in [Inum -> Cached]
      BY <1>0 DEF Types
    <3>2. x2 \in Cached
      BY <2>11
    <3> QED BY <3>1, <3>2, <2>8, <1>13
  <2>14. Types'
    <3>1. call' \in [Proc -> Calls]
      BY <2>8, <2>10, <1>0, CallsType
    <3> QED BY <3>1, <2>5, <2>13, <1>0, <1>11, <1>22 DEF Types
  <2>15. WriteCall(p, c2, h, x2)
    <3>1. Counted(c2, h.off, x2)
      <4>1. part \in Nat /\ part > 0 /\ part <= BSIZE /\ (o % BSIZE) + part <= BSIZE
        BY <2>3
      <4>2. c2.wrote = (c.wrote \cup m.wrote) \cup {b} /\ c2.tot = c.tot + part /\ x2.addrs = m.addrs
        BY <2>10, <2>11
      <4>3. c.tot < c.n1 /\ o \in Offset
        BY <1>11, <1>19
      <4> QED
        BY <4>1, <4>2, <4>3, <2>2, <1>6, <1>8, <1>12, <1>14, <1>17, <1>18, WriteCounted, ZenonT(30)
    <3>2. c2.tot <= c2.n1 /\ c2.tot # 0
      BY <2>3, <2>10, <1>19, SMT
    <3>3. h.off + c2.tot = o + part /\ (part = c.n1 - c.tot => c2.tot = c2.n1)
      BY <2>3, <2>10, <1>6, <1>19, SMT
    <3>4. c2.tot \in {0, c2.n1} \/ (h.off + c2.tot) % BSIZE = 0
      BY <3>3, <2>3
    <3> QED BY <3>1, <3>2, <3>4, <2>10, <2>11, <1>2, <1>3, <1>12 DEF WriteCall
  <2>16. ASSUME NEW q \in Proc PROVE CallOK(q)'
    <3>1. CASE q = p
      <4>1. WriteCall(p, call'[p], file'[call'[p].f], icache'[call'[p].ip])
        BY <2>10, <2>12, <2>13, <2>15, <1>4, <1>11
      <4> QED BY <3>1, <4>1 DEF CallOK
    <3>2. CASE q # p
      <4>1. call[q].ip \in Inum => call[q].ip # i
        BY <3>2, <1>0, <1>5, <1>13, Owner
      <4>2. CallKept(q)
        BY <4>1, <3>2, <2>12, <2>13, <1>11 DEF CallKept
      <4> QED BY <4>2, <1>0, CallFrame
    <3> QED BY <3>1, <3>2
  <2>17. Writing(disk', x2, c2, h, want[i])
    BY <2>2, <2>3, <2>4, <2>10, <2>11, <1>2, <1>6, <1>12, <1>14, <1>18, <1>19, WriteStored
  <2>18. ASSUME NEW j \in Inum PROVE InodeOK(j)'
    <3>1. CASE j = i
      <4>1. Writing(disk', icache'[i], call'[p], file'[call'[p].f], want'[i])
        BY <2>10, <2>12, <2>13, <2>17, <1>4, <1>11
      <4>2. Locked(i)'
        BY <4>1, <2>10, <2>11, <2>12, <2>13, ZenonT(30) DEF Locked, Writing, Present, Partly
      <4> QED BY <3>1, <4>2 DEF InodeOK
    <3>2. CASE j # i
      <4>1. icache[j].lock \in Proc => icache[j].lock # p
        BY <3>2, <1>0, <1>1, <1>2, LockHolder
      <4>2. ASSUME icache[j].lock = 0 \/ call[icache[j].lock].at = "writei"
            PROVE  Alike(disk, disk', Current[j].addrs)
        <5>1. ~Gone(j)
          BY <4>2, <1>0, NotGone
        <5>2. Lists(Held[j], disk, Current[j].addrs) /\ Current[j].addrs \in Addrs
          BY <5>1, <1>0, HeldLists, CurrentType
        <5> QED BY <5>2, <3>2, <2>5 DEF Kept
      <4>3. InodeKept(j)
        BY <4>1, <4>2, <3>2, <2>5, <2>12, <2>13, <1>11 DEF InodeKept
      <4> QED BY <4>3, <1>0, InodeFrame
    <3> QED BY <3>1, <3>2
  <2>19. \A j : Gone(j)' <=> Gone(j)
    <3>1. call'[p].at # "ind" /\ call[p].at # "ind"
      BY <2>10, <2>12, <1>1, <1>11
    <3> QED BY <3>1, <2>12 DEF Gone
  <2>20. Current'[i].addrs = m.addrs /\ \A j \in Inum : j # i => Current'[j].addrs = Current[j].addrs
    BY <2>5, <2>11, <2>13, <1>13 DEF Current
  <2>21. Named(Held', disk'.used)
    <3>1. Held' = [Held EXCEPT ![i] = Entries(disk', m.addrs)]
      BY <2>5, <2>19, <2>20, <1>0, <1>13, <1>16, HeldPut
    <3> QED BY <3>1, <2>5
  <2>22. Sound(durable', dwant')
    BY <1>0, <1>11
  <2> QED BY <2>14, <2>16, <2>18, <2>21, <2>22, <1>0, <1>11 DEF IInv
<1> QED BY <1>21, <1>22
=============================================================================
