----------------------------- MODULE LogProofs ------------------------------
(***************************************************************************)
(* The theorems about Log: its invariants, for any set of processes, blocks *)
(* and contents and any log parameters that satisfy FootprintFits, and that *)
(* it implements AtomicDisk.  First the steps of file-system calls and of  *)
(* the buffer cache, then those of commit(), of recovery and of a power    *)
(* loss preserve the inductive invariant of Log.                           *)
(***************************************************************************)
EXTENDS Log, FiniteSetTheorems, TLAPS

\* The blocks a call really writes leave room in the log for what begin_op()
\* ignores: the header block, and one repeated log_write.  With the numbers
\* of param.h and mkfs.c (30, 30, 10) calls may write up to 8 blocks.
FootprintFits ==
    /\ OPBLOCKS < MAXOPBLOCKS
    /\ LOGSIZE + OPBLOCKS + 2 <= NLOG + MAXOPBLOCKS

\* The prover of the leaves that name none.
USE Zenon

-----------------------------------------------------------------------------
\* Active is finite, and adding or removing one call counts as one.
LEMMA ActiveFinite == IsFiniteSet(Active) /\ Cardinality(Active) \in Nat
  BY LogAssumption, FS_Subset, FS_CardinalityType DEF Active

\* The same after a step.
LEMMA ActiveFiniteNext == IsFiniteSet(Active') /\ Cardinality(Active') \in Nat
  BY LogAssumption, FS_Subset, FS_CardinalityType DEF Active

\* The size of a set with one element more.
LEMMA OneMore ==
  ASSUME NEW S, NEW T, NEW x, IsFiniteSet(S), T = S \cup {x}
  PROVE  /\ IsFiniteSet(T)
         /\ Cardinality(T) = IF x \in S THEN Cardinality(S) ELSE Cardinality(S) + 1
BY FS_AddElement

\* After mkfs and before recovery the invariant holds.
LEMMA InitIInv == Init => IInv
<1> SUFFICES ASSUME Init PROVE IInv
  OBVIOUS
<1> USE LogAssumption
<1>a. Active = {} /\ Cardinality(Active) = 0
  BY FS_EmptySet DEF Init, Active
<1>1. TypeOK
  <2>1. head \in Seq(Block) /\ lh \in Seq(Block)
    BY SMT DEF Init
  <2>2. committing \in BOOLEAN
    BY DEF Init
  <2>3. wrote \in [Proc -> SUBSET Block]
    BY DEF Init
  <2>4. logblk \in [LogArea -> Val]
    BY DEF Init
  <2> QED
    BY <2>1, <2>2, <2>3, <2>4 DEF Init, TypeOK, BootStep, PC
<1>2. CommitAlone
  BY <1>a DEF Init, CommitAlone, Committer
<1>3. Rebooting
  BY DEF Init, Rebooting
<1>4. Locking
  BY DEF Init, Locking
<1>5. Pinned
  BY SMT DEF Init, Pinned, Injective
<1>6. HeaderValid
  BY SMT DEF Init, HeaderValid, Injective
<1>7. LogOwned
  BY DEF Init, LogOwned
<1>8. Progress
  BY DEF Init, Progress, Installer
<1>9. Reserved
  BY <1>a DEF Init, Reserved
<1>10. EvictableIsClean
  BY DEF Init, EvictableIsClean
<1>11. NoPanic
  BY SMT DEF Init, NoPanic
<1> QED
  BY <1>1, <1>2, <1>3, <1>4, <1>5, <1>6, <1>7, <1>8, <1>9, <1>10, <1>11 DEF IInv

\* The blocks reserved for one call form a finite set of that size.
LEMMA OpInterval ==
    /\ IsFiniteSet(1 .. MAXOPBLOCKS)
    /\ Cardinality(1 .. MAXOPBLOCKS) = MAXOPBLOCKS
  BY LogAssumption, FS_Interval, SMT

\* The reserved and unused blocks form a finite set.
LEMMA UnusedFinite == IsFiniteSet(Unused)
<1>1. IsFiniteSet(Active \X (1 .. MAXOPBLOCKS))
  BY OpInterval, ActiveFinite, FS_Product
<1> QED
  BY <1>1, FS_Subset DEF Unused

\* A running call that has added at most k blocks to the log can still add
\* M - k, and begin_op() has kept that room for it.
LEMMA Room ==
  ASSUME IInv, boot = "up", NEW p \in Active,
         NEW k \in 0 .. MAXOPBLOCKS, news[p] <= k
  PROVE  Len(lh) + (MAXOPBLOCKS - k) <= LOGSIZE
<1> USE LogAssumption
<1> DEFINE T == {p} \X ((k + 1) .. MAXOPBLOCKS)
<1>1. IsFiniteSet(T) /\ Cardinality(T) = MAXOPBLOCKS - k
  <2>1. IsFiniteSet({p}) /\ Cardinality({p}) = 1
    BY FS_Singleton
  <2>2. /\ IsFiniteSet((k + 1) .. MAXOPBLOCKS)
        /\ Cardinality((k + 1) .. MAXOPBLOCKS) = MAXOPBLOCKS - k
    BY FS_Interval, SMT
  <2>3. /\ IsFiniteSet(T)
        /\ Cardinality(T) = Cardinality({p}) * Cardinality((k + 1) .. MAXOPBLOCKS)
    BY <2>1, <2>2, FS_Product
  <2> QED
    BY <2>1, <2>2, <2>3, SMT
<1>2. IsFiniteSet(Unused)
  BY UnusedFinite
<1>3. T \subseteq Unused
  <2> SUFFICES ASSUME NEW j \in (k + 1) .. MAXOPBLOCKS
               PROVE  <<p, j>> \in Unused
    BY SMT
  <2> QED
    BY SMT DEF Unused, IInv, TypeOK, Active
<1>4. MAXOPBLOCKS - k <= Cardinality(Unused)
  BY <1>1, <1>2, <1>3, FS_Subset, SMT
<1>5. Cardinality(Unused) \in Nat /\ Len(lh) \in Nat
  BY <1>2, FS_CardinalityType, SMT DEF IInv, TypeOK
<1> QED
  BY <1>4, <1>5, SMT DEF IInv, Reserved

\* Until install_trans() starts, commit() finds every logged block pinned.
LEMMA WriteLogPinned ==
  ASSUME IInv, boot = "up",
         NEW q \in Proc, pc[q] \in {"write_log", "write_head"},
         NEW i \in 1 .. Len(lh)
  PROVE  lh[i] \in dirty
<1>1. Uninstalled = 1
  BY DEF IInv, Uninstalled, Installer, CommitAlone, Committer
<1>2. lh[i] \in Block
  BY SMT DEF IInv, TypeOK
<1> QED
  BY <1>1, <1>2, SMT DEF IInv, Pinned

\* begin_op() that finds a commit or no space changes only the sleeper.
LEMMA StepBeginOpSleep ==
  ASSUME IInv, NEW p \in Proc, BeginOpSleep(p)
  PROVE  IInv'
<1> USE LogAssumption DEF BeginOpSleep, IInv, TypeOK, diskVars, cacheVars, logVars
<1>1. \A q \in Proc : pc'[q] = IF q = p THEN "asleep" ELSE pc[q]
  OBVIOUS
<1>2. Active' = Active
  BY <1>1 DEF Active
<1>3. /\ \A q \in Proc : Committer(q)' <=> Committer(q)
      /\ \A q \in Proc : Installer(q)' <=> Installer(q)
  BY <1>1 DEF Committer, Installer
<1>4. Unused' = Unused /\ Uninstalled' = Uninstalled
  BY <1>2, <1>3 DEF Unused, Uninstalled
<1>5. TypeOK'
  BY DEF PC
<1>6. CommitAlone' /\ Rebooting' /\ Locking'
  BY <1>1, <1>2, <1>3 DEF CommitAlone, Rebooting, Locking
<1>7. Pinned' /\ HeaderValid' /\ EvictableIsClean'
  BY <1>3, <1>4, SMT DEF Pinned, HeaderValid, EvictableIsClean, Unlocked, Injective
<1>8. LogOwned' /\ NoPanic'
  BY <1>1, <1>2 DEF LogOwned, NoPanic
<1>9. Progress'
  BY <1>1, <1>3 DEF Progress, Bread
<1>10. Reserved'
  BY <1>2, <1>4 DEF Reserved, InHeader
<1> QED
  BY <1>5, <1>6, <1>7, <1>8, <1>9, <1>10

\* The unlocked test of log_write(): the call has not used up its share, so the
\* log has room for one more block (Reserved) and the panic is not taken.
LEMMA StepLogWriteCheck ==
  ASSUME FootprintFits, IInv, NEW p \in Proc, LogWriteCheck(p)
  PROVE  IInv'
<1> USE LogAssumption DEF LogWriteCheck, IInv, TypeOK, diskVars, cacheVars, logVars
<1>1. /\ Len(lh) < LOGSIZE
      /\ Len(lh) < NLOG - 1
      /\ ~(outstanding < 1)
  <2>1. p \in Active
    BY DEF Active
  <2>2. news[p] <= OPBLOCKS
    BY <2>1, FS_CardinalityType, SMT DEF Reserved
  <2>3. Len(lh) + (MAXOPBLOCKS - OPBLOCKS) <= LOGSIZE
    BY <2>1, <2>2, Room
  <2>4. outstanding # 0
    BY <2>1, ActiveFinite, FS_EmptySet DEF CommitAlone
  <2> QED
    BY <2>3, <2>4, SMT DEF FootprintFits
<1>2. \A q \in Proc : pc'[q] = IF q = p THEN "checked" ELSE pc[q]
  BY <1>1, SMT
<1>3. Active' = Active
  BY <1>2 DEF Active
<1>4. /\ \A q \in Proc : Committer(q)' <=> Committer(q)
      /\ \A q \in Proc : Installer(q)' <=> Installer(q)
  BY <1>2 DEF Committer, Installer
<1>5. Unused' = Unused /\ Uninstalled' = Uninstalled
  BY <1>3, <1>4 DEF Unused, Uninstalled
<1>6. TypeOK'
  BY DEF PC
<1>7. CommitAlone' /\ Rebooting' /\ Locking'
  BY <1>2, <1>3, <1>4 DEF CommitAlone, Rebooting, Locking
<1>8. Pinned' /\ HeaderValid' /\ EvictableIsClean'
  BY <1>4, <1>5, SMT DEF Pinned, HeaderValid, EvictableIsClean, Unlocked, Injective
<1>9. LogOwned' /\ NoPanic'
  BY <1>2, <1>3 DEF LogOwned, NoPanic
<1>10. Progress'
  BY <1>2, <1>4 DEF Progress, Bread
<1>11. Reserved'
  BY <1>3, <1>5 DEF Reserved, InHeader
<1> QED
  BY <1>6, <1>7, <1>8, <1>9, <1>10, <1>11

\* bread() of a block without a buffer gives it a clean one.
LEMMA StepRead ==
  ASSUME IInv, NEW b \in Block, Read(b)
  PROVE  IInv'
<1> USE LogAssumption DEF Read, IInv, TypeOK, diskVars, logVars, procVars
<1>1. /\ Active' = Active /\ Unused' = Unused /\ Uninstalled' = Uninstalled
      /\ \A q \in Proc : Committer(q)' <=> Committer(q)
      /\ \A q \in Proc : Installer(q)' <=> Installer(q)
  BY DEF Active, Unused, Uninstalled, Committer, Installer
<1>2. \A x \in Block : cache'[x] = IF x = b THEN disk[b] ELSE cache[x]
  OBVIOUS
<1>3. \A x \in Block : Bread(x)' = Bread(x)
  BY <1>2 DEF Bread
<1>4. TypeOK'
  OBVIOUS
<1>5. CommitAlone' /\ Rebooting' /\ LogOwned' /\ NoPanic'
  BY <1>1 DEF CommitAlone, Rebooting, LogOwned, NoPanic
<1>6. Locking' /\ Pinned' /\ HeaderValid'
  BY <1>1, <1>2, SMT DEF Locking, Pinned, HeaderValid, Injective
<1>7. EvictableIsClean'
  BY <1>2 DEF EvictableIsClean, Unlocked
<1>8. Progress'
  <2>1. \A i \in 1 .. Len(lh) : Bread(lh[i])' = Bread(lh[i])
    BY <1>3, SMT
  <2>2. ASSUME NEW q \in Proc, pc[q] \in {"write_log", "write_head"},
               NEW i \in 1 .. Len(lh), i < tail
        PROVE  logblk[i] = cache'[lh[i]]
    <3>1. lh[i] \in dirty
      BY <2>2, WriteLogPinned
    <3> QED
      BY <2>2, <3>1, <1>2 DEF Progress, Pinned
  <2> QED
    BY <1>1, <2>1, <2>2, SMT DEF Progress, Installer
<1>9. Reserved'
  BY <1>1 DEF Reserved, InHeader
<1> QED
  BY <1>4, <1>5, <1>6, <1>7, <1>8, <1>9

\* bget() recycles a clean unlocked buffer, so nothing that is logged is lost.
LEMMA StepEvict ==
  ASSUME IInv, NEW b \in Block, Evict(b)
  PROVE  IInv'
<1> USE LogAssumption DEF Evict, IInv, TypeOK, diskVars, logVars, procVars
<1>1. /\ Active' = Active /\ Unused' = Unused /\ Uninstalled' = Uninstalled
      /\ \A q \in Proc : Committer(q)' <=> Committer(q)
      /\ \A q \in Proc : Installer(q)' <=> Installer(q)
  BY DEF Active, Unused, Uninstalled, Committer, Installer
<1>2. \A x \in Block : cache'[x] = IF x = b THEN Absent ELSE cache[x]
  OBVIOUS
<1>3. \A x \in Block : Bread(x)' = Bread(x)
  BY <1>2 DEF Bread, EvictableIsClean
<1>4. TypeOK'
  OBVIOUS
<1>5. CommitAlone' /\ Rebooting' /\ LogOwned' /\ NoPanic'
  BY <1>1 DEF CommitAlone, Rebooting, LogOwned, NoPanic
<1>6. Locking' /\ Pinned' /\ HeaderValid'
  BY <1>1, <1>2, SMT DEF Locking, Pinned, HeaderValid, Injective, Unlocked
<1>7. EvictableIsClean'
  BY <1>2 DEF EvictableIsClean, Unlocked
<1>8. Progress'
  <2>1. \A i \in 1 .. Len(lh) : Bread(lh[i])' = Bread(lh[i])
    BY <1>3, SMTT(60)
  <2>2. ASSUME NEW q \in Proc, pc[q] \in {"write_log", "write_head"},
               NEW i \in 1 .. Len(lh), i < tail
        PROVE  logblk[i] = cache'[lh[i]]
    <3>1. lh[i] \in dirty
      BY <2>2, WriteLogPinned
    <3> QED
      BY <2>2, <3>1, <1>2 DEF Progress, Pinned
  <2> QED
    BY <1>1, <2>1, <2>2, SMTT(60) DEF Progress, Installer
<1>9. Reserved'
  BY <1>1 DEF Reserved, InHeader
<1> QED
  BY <1>4, <1>5, <1>6, <1>7, <1>8, <1>9

\* begin_op() reserves MAXOPBLOCKS blocks for the call (Reserved).
LEMMA StepBeginOp ==
  ASSUME IInv, NEW p \in Proc, BeginOp(p)
  PROVE  IInv'
<1> USE LogAssumption DEF BeginOp, IInv, TypeOK, diskVars, cacheVars
<1>1. /\ \A q \in Proc : pc'[q] = IF q = p THEN "op" ELSE pc[q]
      /\ \A q \in Proc : wrote'[q] = IF q = p THEN {} ELSE wrote[q]
      /\ \A q \in Proc : news'[q] = IF q = p THEN 0 ELSE news[q]
  OBVIOUS
<1>2. Active' = Active \cup {p} /\ p \notin Active
  BY <1>1, SMT DEF Active
<1>3. Cardinality(Active') = outstanding + 1
  BY <1>2, ActiveFinite, FS_AddElement DEF CommitAlone
<1>4. /\ \A q \in Proc : ~Committer(q) /\ ~Committer(q)'
      /\ \A q \in Proc : ~Installer(q) /\ ~Installer(q)'
  BY <1>1 DEF Committer, Installer, CommitAlone
<1>5. Uninstalled' = Uninstalled
  BY <1>4 DEF Uninstalled
<1>6. TypeOK'
  BY SMT DEF PC
<1>7. CommitAlone'
  BY <1>3, <1>4 DEF CommitAlone
<1>8. Rebooting' /\ Locking' /\ NoPanic'
  BY <1>1 DEF Rebooting, Locking, NoPanic
<1>9. Pinned' /\ HeaderValid' /\ EvictableIsClean'
  BY <1>4, <1>5, SMT DEF Pinned, HeaderValid, EvictableIsClean, Unlocked, Injective
<1>10. LogOwned'
  BY <1>1, <1>2 DEF LogOwned
<1>11. Progress'
  BY <1>1, <1>4 DEF Progress, Installer, Committer
<1>12. Reserved'
  <2>1. Len(lh') + Cardinality(Unused') <= LOGSIZE
    <3> DEFINE All == Active' \X (1 .. MAXOPBLOCKS)
    <3>2. IsFiniteSet(All) /\ Cardinality(All) = (outstanding + 1) * MAXOPBLOCKS
      <4>1. /\ IsFiniteSet(All)
            /\ Cardinality(All) = Cardinality(Active') * Cardinality(1 .. MAXOPBLOCKS)
        BY OpInterval, ActiveFiniteNext, FS_Product
      <4> QED
        BY <4>1, OpInterval, <1>3
    <3>3. Unused' \in SUBSET All
      BY DEF Unused
    <3>4. Cardinality(Unused') <= Cardinality(All) /\ Cardinality(Unused') \in Nat
      BY <3>2, <3>3, FS_Subset, FS_CardinalityType
    <3>5. (outstanding + 1) * MAXOPBLOCKS \in Nat
      BY SMT
    <3> HIDE DEF All
    <3> QED
      BY <3>2, <3>4, <3>5, SMT DEF NoSpace
  <2>2. ASSUME NEW q \in Active', q # p
        PROVE  Reserved!2!(q)'
    <3>1. q \in Active /\ q \in Proc
      BY <2>2, <1>2 DEF Active
    <3>2. wrote'[q] = wrote[q] /\ news'[q] = news[q]
      BY <2>2, <3>1, <1>1
    <3>3. buf' = buf /\ lh' = lh
      OBVIOUS
    <3> QED
      BY <3>1, <3>2, <3>3 DEF Reserved, InHeader
  <2>3. Reserved!2!(p)'
    <3>1. wrote'[p] = {} /\ news'[p] = 0 /\ buf'[p] = NoBlock
      BY <1>1 DEF Locking
    <3>2. IsFiniteSet(wrote'[p]) /\ Cardinality(wrote'[p]) = 0
      BY <3>1, FS_EmptySet
    <3> QED
      BY <3>1, <3>2, SMT
  <2> QED
    BY <2>1, <2>2, <2>3 DEF Reserved
<1> QED
  BY <1>6, <1>7, <1>8, <1>9, <1>10, <1>11, <1>12

\* A call changes a block in the buffer it has locked.
LEMMA StepModify ==
  ASSUME IInv, NEW p \in Proc, NEW b \in Block, NEW v \in Val, Modify(p, b, v)
  PROVE  IInv'
<1> USE LogAssumption DEF Modify, IInv, TypeOK, diskVars, logVars
<1>1. /\ \A q \in Proc : pc'[q] = IF q = p THEN "modified" ELSE pc[q]
      /\ \A q \in Proc : buf'[q] = IF q = p THEN b ELSE buf[q]
      /\ \A x \in Block : cache'[x] = IF x = b THEN v ELSE cache[x]
  OBVIOUS
<1>2. Active' = Active /\ p \in Active
  BY <1>1, SMT DEF Active
<1>3. /\ \A q \in Proc : ~Committer(q) /\ ~Committer(q)'
      /\ \A q \in Proc : ~Installer(q) /\ ~Installer(q)'
  BY <1>1, <1>2 DEF Committer, Installer, CommitAlone
<1>4. Unused' = Unused /\ Uninstalled' = Uninstalled
  BY <1>2, <1>3 DEF Unused, Uninstalled
<1>5. TypeOK'
  BY DEF PC
<1>6. CommitAlone' /\ Rebooting' /\ LogOwned' /\ NoPanic'
  BY <1>1, <1>2, <1>3 DEF CommitAlone, Rebooting, LogOwned, NoPanic
<1>7. Locking'
  BY <1>1, SMT DEF Locking, Unlocked
<1>8. Pinned' /\ HeaderValid'
  BY <1>1, <1>3, <1>4, SMT DEF Pinned, HeaderValid, Injective
<1>9. EvictableIsClean'
  <2> SUFFICES ASSUME NEW x \in Block, cache'[x] # Absent, x \notin dirty, Unlocked(x)'
               PROVE  cache'[x] = disk[x]
    BY DEF EvictableIsClean
  <2>1. x # b
    BY <1>1 DEF Unlocked
  <2>2. Unlocked(x)
    <3> SUFFICES ASSUME NEW q \in Proc PROVE buf[q] # x
      BY DEF Unlocked
    <3>1. CASE q = p
      BY <3>1 DEF Locking
    <3>2. CASE q # p
      BY <3>2, <1>1 DEF Unlocked
    <3> QED
      BY <3>1, <3>2
  <2> QED
    BY <1>1, <2>1, <2>2 DEF EvictableIsClean
<1>10. Progress'
  BY <1>1, <1>3 DEF Progress, Installer, Committer
<1>11. Reserved'
  <2>1. boot' = boot /\ lh' = lh /\ wrote' = wrote /\ news' = news
    BY DEF logVars
  <2>2. \A q \in Active \ {p} : buf'[q] = buf[q]
    BY <1>1 DEF Active
  <2>3. buf'[p] = b /\ (b \in wrote[p] \/ Cardinality(wrote[p]) < OPBLOCKS)
    BY <1>1
  <2>4. \A q \in Active : buf'[q] # NoBlock /\ buf'[q] \notin wrote[q]
                               => Cardinality(wrote[q]) < OPBLOCKS
    BY <2>2, <2>3 DEF Reserved
  <2> QED
    BY <1>2, <1>4, <2>1, <2>4 DEF Reserved, InHeader
<1> QED
  BY <1>5, <1>6, <1>7, <1>8, <1>9, <1>10, <1>11

\* log_write() records the block, once, and pins its buffer: the call's unused
\* share shrinks by the block that lh grows by.
LEMMA StepLogWrite ==
  ASSUME FootprintFits, IInv, NEW p \in Proc, LogWrite(p)
  PROVE  IInv'
<1> USE LogAssumption DEF LogWrite, IInv, TypeOK, diskVars
<1> DEFINE b == buf[p]
<1>0. b \in Block
  BY DEF Locking
<1>1. /\ \A q \in Proc : pc'[q] = IF q = p THEN "op" ELSE pc[q]
      /\ \A q \in Proc : buf'[q] = IF q = p THEN NoBlock ELSE buf[q]
      /\ \A q \in Proc : wrote'[q] = IF q = p THEN wrote[q] \cup {b} ELSE wrote[q]
  OBVIOUS
<1>2. Active' = Active /\ p \in Active
  BY <1>1 DEF Active
<1>3. /\ \A q \in Proc : ~Committer(q) /\ ~Committer(q)'
      /\ \A q \in Proc : ~Installer(q) /\ ~Installer(q)'
  BY <1>1, <1>2 DEF Committer, Installer, CommitAlone
<1>4. Uninstalled = 1 /\ Uninstalled' = 1
  BY <1>3 DEF Uninstalled
<1>5. /\ lh' \in Seq(Block)
      /\ Len(lh') \in {Len(lh), Len(lh) + 1}
      /\ \A x \in Block : InHeader(lh', x) <=> InHeader(lh, x) \/ x = b
      /\ Injective(lh')
  <2>1. CASE InHeader(lh, b)
    BY <2>1, <1>0 DEF InHeader, Pinned
  <2>2. CASE ~InHeader(lh, b)
    <3>1. lh' = Append(lh, b) /\ lh \in Seq(Block) /\ Injective(lh)
      BY <2>2 DEF Pinned
    <3>2. /\ lh' \in Seq(Block) /\ Len(lh') = Len(lh) + 1
          /\ lh'[Len(lh) + 1] = b /\ \A i \in 1 .. Len(lh) : lh'[i] = lh[i]
      <4> HIDE DEF b, LogWrite, IInv, TypeOK
      <4> QED
        BY <1>0, <3>1, SMT
    <3>3. Len(lh) \in Nat
      BY <3>1, SMT
    <3> HIDE DEF b, LogWrite, IInv, TypeOK
    <3>4. \A x \in Block : InHeader(lh', x) <=> InHeader(lh, x) \/ x = b
      BY <3>2, <3>3, SMT DEF InHeader
    <3>5. Injective(lh')
      BY <2>2, <3>1, <3>2, <3>3, SMT DEF InHeader, Injective
    <3> QED
      BY <3>2, <3>4, <3>5
  <2> QED
    BY <2>1, <2>2
<1>6. news' \in [Proc -> Nat]
  BY SMT
<1>7. TypeOK'
  BY <1>0, <1>5, <1>6 DEF PC
<1>8. CommitAlone' /\ Rebooting'
  BY <1>1, <1>2, <1>3 DEF CommitAlone, Rebooting
<1>9. Locking'
  BY <1>1, SMT DEF Locking
<1>10. HeaderValid' /\ LogOwned'
  <2>1. HeaderValid'
    BY <1>3 DEF HeaderValid, Injective
  <2>2. LogOwned'
    BY <1>2, <1>3 DEF LogOwned, Committer
  <2> QED
    BY <2>1, <2>2
<1>11. Pinned'
  BY <1>0, <1>4, <1>5, SMTT(60) DEF Pinned, InHeader, Locking
<1>12. EvictableIsClean'
  <2> SUFFICES ASSUME NEW x \in Block, cache[x] # Absent, x \notin dirty', Unlocked(x)'
               PROVE  cache[x] = disk[x]
    BY DEF EvictableIsClean
  <2>1. x # b
    OBVIOUS
  <2>2. Unlocked(x)
    BY <2>1, <1>1 DEF Unlocked
  <2> QED
    BY <2>2 DEF EvictableIsClean
<1>13. Progress'
  BY <1>1, <1>3 DEF Progress, Installer, Committer
<1>14. Reserved' /\ Len(lh') <= NLOG - 1 /\ Len(lh') <= LOGSIZE
  <2>1. CASE InHeader(lh, b)
    <3>1. lh' = lh /\ news' = news /\ Unused' = Unused
      BY <2>1, <1>2, SMT DEF Unused
    <3>2. \A q \in Active : \A x \in wrote'[q] : InHeader(lh', x)
      BY <2>1, <3>1, <1>1, SMT DEF Reserved, Active
    <3>3. IsFiniteSet(wrote[p]) /\ Cardinality(wrote[p]) \in Nat
      BY <1>2, FS_CardinalityType DEF Reserved
    <3>4. /\ IsFiniteSet(wrote'[p])
          /\ Cardinality(wrote'[p]) =
               IF b \in wrote[p] THEN Cardinality(wrote[p]) ELSE Cardinality(wrote[p]) + 1
      <4>1. wrote'[p] = wrote[p] \cup {b}
        BY <1>1
      <4> HIDE DEF b, LogWrite, IInv, TypeOK
      <4> QED
        BY <3>3, <4>1, OneMore
    <3>5. Cardinality(wrote'[p]) <= OPBLOCKS /\ news'[p] <= Cardinality(wrote'[p])
      BY <1>0, <1>2, <3>1, <3>3, <3>4, SMT DEF Reserved
    <3>6. Reserved'
      BY <1>1, <1>2, <3>1, <3>2, <3>4, <3>5, SMT DEF Reserved, Active
    <3> QED
      BY <3>1, <3>6 DEF NoPanic
  <2>2. CASE ~InHeader(lh, b)
    <3>1. /\ Len(lh') = Len(lh) + 1
          /\ \A q \in Proc : news'[q] = IF q = p THEN news[q] + 1 ELSE news[q]
      BY <2>2, <1>0, SMT
    <3>2. b \notin wrote[p]
      BY <2>2, <1>2 DEF Reserved
    <3>3. IsFiniteSet(wrote[p]) /\ Cardinality(wrote[p]) \in Nat
      BY <1>2, FS_CardinalityType DEF Reserved
    <3>4. news[p] <= Cardinality(wrote[p]) /\ Cardinality(wrote[p]) < OPBLOCKS
      BY <1>0, <1>2, <3>2 DEF Reserved
    <3>5. IsFiniteSet(wrote'[p]) /\ Cardinality(wrote'[p]) = Cardinality(wrote[p]) + 1
      BY <1>1, <3>2, <3>3, FS_AddElement, SMT
    <3>6. Len(lh) + (MAXOPBLOCKS - (OPBLOCKS - 1)) <= LOGSIZE
      <4>1. OPBLOCKS - 1 \in 0 .. MAXOPBLOCKS /\ news[p] <= OPBLOCKS - 1
        BY <3>3, <3>4, SMT
      <4> QED
        BY <4>1, <1>2, Room
    <3>7. Len(lh') <= NLOG - 1 /\ Len(lh') <= LOGSIZE
      BY <3>1, <3>6, SMT DEF FootprintFits
    <3> DEFINE t == <<p, news[p] + 1>>
    <3>8. Unused' = Unused \ {t} /\ t \in Unused
      <4>1. t \in Unused
        BY <1>2, <3>3, <3>4, SMT DEF Unused
      <4>2. ASSUME NEW q \in Active, NEW j \in 1 .. MAXOPBLOCKS
            PROVE  <<q, j>> \in Unused' <=> <<q, j>> \in Unused /\ <<q, j>> # t
        BY <1>2, <3>1, SMT DEF Unused, Active
      <4>3. Unused \subseteq Active \X (1 .. MAXOPBLOCKS)
        BY DEF Unused
      <4>4. Unused' \subseteq Active \X (1 .. MAXOPBLOCKS)
        BY <1>2 DEF Unused
      <4> QED
        BY <4>1, <4>2, <4>3, <4>4, SMT
    <3>9. IsFiniteSet(Unused) /\ Cardinality(Unused) \in Nat
      BY UnusedFinite, FS_CardinalityType
    <3>10. Cardinality(Unused') = Cardinality(Unused) - 1
      <4> HIDE DEF t
      <4>1. Cardinality(Unused \ {t}) = Cardinality(Unused) - 1
        BY <3>8, <3>9, FS_RemoveElement
      <4> QED
        BY <3>8, <4>1
    <3>11. Len(lh') + Cardinality(Unused') <= LOGSIZE
      BY <3>1, <3>9, <3>10, SMT DEF Reserved
    <3>12. \A q \in Active : \A x \in wrote'[q] : InHeader(lh', x)
      BY <1>0, <1>1, <1>5, SMT DEF Reserved, Active
    <3>13. Reserved'
      BY <1>1, <1>2, <3>1, <3>3, <3>4, <3>5, <3>11, <3>12, SMT DEF Reserved, Active
    <3> QED
      BY <3>7, <3>13
  <2> QED
    BY <2>1, <2>2
<1>15. NoPanic'
  BY <1>1, <1>14 DEF NoPanic
<1> QED
  BY <1>7, <1>8, <1>9, <1>10, <1>11, <1>12, <1>13, <1>14, <1>15

\* end_op() of a call that is not the last gives its reservation back.
LEMMA StepEndOp ==
  ASSUME IInv, NEW p \in Proc, EndOp(p)
  PROVE  IInv'
<1> USE LogAssumption DEF EndOp, IInv, TypeOK, diskVars, cacheVars
<1>1. p \in Active /\ ~committing
  BY DEF Active, CommitAlone
<1>2. \A q \in Proc : pc'[q] = IF q = p THEN "idle"
                               ELSE IF pc[q] = "asleep" THEN "retry" ELSE pc[q]
  BY <1>1 DEF WakeLog
<1>3. Active' = Active \ {p}
  BY <1>2, SMT DEF Active
<1>4. Cardinality(Active') = outstanding - 1 /\ outstanding - 1 \in Nat
  <2>1. Cardinality(Active \ {p}) = Cardinality(Active) - 1
    BY <1>1, ActiveFinite, FS_RemoveElement
  <2> QED
    BY <1>3, <2>1, ActiveFiniteNext DEF CommitAlone
<1>5. Active' # {}
  <2>1. Cardinality(Active') # 0
    BY <1>4, SMT
  <2> QED
    BY <2>1, FS_EmptySet
<1>6. /\ \A q \in Proc : ~Committer(q) /\ ~Committer(q)'
      /\ \A q \in Proc : ~Installer(q) /\ ~Installer(q)'
  BY <1>1, <1>2, SMT DEF Committer, Installer, CommitAlone
<1>7. Uninstalled' = Uninstalled
  BY <1>6 DEF Uninstalled
<1>8. TypeOK'
  <2>1. pc' \in [Proc -> PC]
    BY <1>1 DEF WakeLog, PC
  <2> QED
    BY <1>4, <2>1
<1>9. CommitAlone' /\ LogOwned'
  BY <1>1, <1>2, <1>4, <1>5, <1>6 DEF CommitAlone, LogOwned, Committer
<1>10. Rebooting' /\ Locking' /\ NoPanic'
  BY <1>2, SMT DEF Rebooting, Locking, NoPanic
<1>11. Pinned' /\ HeaderValid' /\ EvictableIsClean'
  BY <1>6, <1>7, SMT DEF Pinned, HeaderValid, EvictableIsClean, Unlocked, Injective
<1>12. Progress'
  BY <1>6 DEF Progress, Installer, Committer
<1>13. Reserved'
  <2>a. \A q \in Active' : q \in Active /\ news'[q] = news[q]
    BY <1>3 DEF Active
  <2>1. Unused' \in SUBSET Unused
    BY <2>a DEF Unused
  <2>2. Cardinality(Unused') <= Cardinality(Unused)
    BY <2>1, UnusedFinite, FS_Subset
  <2>3. Cardinality(Unused') \in Nat /\ Cardinality(Unused) \in Nat
    BY <2>1, UnusedFinite, FS_Subset, FS_CardinalityType
  <2> QED
    BY <2>2, <2>3, <1>3, SMTT(60) DEF Reserved, InHeader
<1> QED
  BY <1>8, <1>9, <1>10, <1>11, <1>12, <1>13

-----------------------------------------------------------------------------
\* The last end_op() starts commit(), alone.
LEMMA StepEndOpCommit ==
  ASSUME IInv, NEW p \in Proc, EndOpCommit(p)
  PROVE  IInv'
<1> USE LogAssumption DEF EndOpCommit, IInv, TypeOK, diskVars, cacheVars
<1>1. p \in Active /\ ~committing
  BY DEF Active, CommitAlone
<1>2. \A q \in Proc : pc'[q] = IF q # p THEN pc[q]
                               ELSE IF Len(lh) > 0 THEN "write_log" ELSE "done"
  BY <1>1
<1>3. Active' = Active \ {p}
  BY <1>2 DEF Active
<1>4. Cardinality(Active') = 0
  <2>1. Cardinality(Active) = 1
    BY DEF CommitAlone
  <2>2. Cardinality(Active \ {p}) = Cardinality(Active) - 1
    BY <1>1, ActiveFinite, FS_RemoveElement
  <2> QED
    BY <1>3, <2>1, <2>2, SMT
<1>5. Active' = {}
  BY <1>4, ActiveFiniteNext, FS_EmptySet
<1>6. /\ \A q \in Proc : ~Committer(q) /\ (Committer(q)' <=> q = p)
      /\ \A q \in Proc : ~Installer(q) /\ ~Installer(q)'
  BY <1>1, <1>2 DEF Committer, Installer, CommitAlone
<1>7. Uninstalled' = Uninstalled
  BY <1>6 DEF Uninstalled
<1>8. TypeOK'
  <2>1. pc' \in [Proc -> PC]
    BY <1>1 DEF PC
  <2> QED
    BY <2>1
<1>9. CommitAlone'
  BY <1>4, <1>5, <1>6 DEF CommitAlone
<1>10. LogOwned'
  <2>1. Len(lh) > 0 \/ lh = << >>
    BY SMT
  <2> QED
    BY <1>2, <1>6, <2>1 DEF LogOwned, Committer
<1>11. Rebooting' /\ Locking' /\ NoPanic'
  BY <1>2 DEF Rebooting, Locking, NoPanic
<1>12. Pinned' /\ HeaderValid' /\ EvictableIsClean'
  BY <1>6, <1>7, SMT DEF Pinned, HeaderValid, EvictableIsClean, Unlocked, Injective
<1>13. Progress'
  BY <1>2, <1>6, SMT DEF Progress, Installer, Committer
<1>14. Reserved'
  <2>1. Unused' = {}
    BY <1>5 DEF Unused
  <2>2. Cardinality(Unused') = 0
    BY <2>1, FS_EmptySet
  <2> QED
    BY <2>2, <1>5, SMT DEF Reserved, NoPanic
<1> QED
  BY <1>8, <1>9, <1>10, <1>11, <1>12, <1>13, <1>14

\* write_log() copies the next cached block to the log area.
LEMMA StepWriteLog ==
  ASSUME IInv, NEW p \in Proc, WriteLog(p)
  PROVE  IInv'
<1> USE LogAssumption DEF WriteLog, IInv, TypeOK
<1>1. /\ tail \in 1 .. Len(lh) /\ tail \in LogArea /\ lh[tail] \in Block
      /\ committing /\ Active = {} /\ Committer(p)
  <2>1. tail \in 1 .. Len(lh)
    BY DEF Progress
  <2>2. committing /\ Active = {} /\ Committer(p)
    BY DEF CommitAlone, Committer
  <2> QED
    BY <2>1, <2>2, SMTT(60) DEF NoPanic, LogArea
<1>2. /\ \A q \in Proc : pc'[q] = IF q = p /\ tail = Len(lh) THEN "write_head" ELSE pc[q]
      /\ \A i \in LogArea : logblk'[i] = IF i = tail THEN Bread(lh[tail]) ELSE logblk[i]
  BY <1>1
<1>3. cache[lh[tail]] # Absent /\ cache' = cache
  <2>1. cache[lh[tail]] # Absent
    BY <1>1, WriteLogPinned DEF Pinned
  <2> QED
    BY <2>1, <1>1 DEF Bread
<1>4. Active' = Active
  BY <1>2 DEF Active
<1>5. /\ \A q \in Proc : Committer(q)' <=> Committer(q)
      /\ \A q \in Proc : ~Installer(q) /\ ~Installer(q)'
  BY <1>1, <1>2 DEF Committer, Installer, CommitAlone
<1>6. Unused' = Unused /\ Uninstalled' = Uninstalled
  BY <1>4, <1>5 DEF Unused, Uninstalled
<1>a. /\ boot = "up" /\ pc[p] = "write_log" /\ tail' = tail + 1
      /\ UNCHANGED <<disk, head, boot, dirty, buf, lh, outstanding, committing, wrote, news>>
      /\ TypeOK /\ Progress /\ NoPanic /\ CommitAlone
  OBVIOUS
<1>7. TypeOK'
  <2>1. Bread(lh[tail]) \in Val
    BY <1>1, <1>3, SMT DEF Bread
  <2>2. logblk' \in [LogArea -> Val]
    BY <2>1
  <2>3. pc' \in [Proc -> PC]
    BY DEF PC
  <2> HIDE DEF WriteLog, IInv
  <2>4. tail' \in Nat
    BY <1>a, SMT
  <2> QED
    BY <1>a, <1>3, <2>2, <2>3, <2>4
<1>8. CommitAlone' /\ Rebooting' /\ LogOwned' /\ NoPanic'
  BY <1>2, <1>4, <1>5, SMTT(60) DEF CommitAlone, Rebooting, LogOwned, NoPanic
<1>9. Locking'
  BY <1>2, <1>3 DEF Locking
<1>10. Pinned' /\ HeaderValid' /\ EvictableIsClean'
  BY <1>3, <1>5, <1>6, SMTT(60) DEF Pinned, HeaderValid, EvictableIsClean, Unlocked, Injective
<1>11. Progress'
  <2>0. /\ lh \in Seq(Block) /\ Len(lh) \in Nat /\ tail \in Nat
    BY SMT
  <2> HIDE DEF WriteLog, IInv, TypeOK
  <2>1. \A i \in 1 .. Len(lh) : i \in LogArea
    BY <1>a, <2>0, SMT DEF NoPanic, LogArea
  <2>2. \A i \in 1 .. Len(lh) : i < tail => logblk[i] = cache[lh[i]]
    BY <1>a DEF Progress
  <2>3. ASSUME NEW i \in 1 .. Len(lh), i < tail'
        PROVE  logblk'[i] = cache'[lh[i]]
    <3>1. CASE i = tail
      BY <2>1, <3>1, <1>1, <1>2, <1>3 DEF Bread
    <3>2. CASE i < tail
      BY <2>1, <2>2, <3>2, <1>2, <1>3, SMT
    <3> QED
      BY <1>a, <2>0, <2>3, <3>1, <3>2, SMT
  <2>4. ASSUME NEW q \in Proc, pc'[q] \in {"write_log", "write_head"}
        PROVE  q = p
    BY <1>1, <1>2, <1>a, <2>4 DEF CommitAlone, Committer
  <2>5. /\ pc'[p] = "write_log" => tail' \in 1 .. Len(lh)
        /\ pc'[p] = "write_head" => tail' = Len(lh) + 1 /\ tail' > 1
    BY <1>a, <1>1, <1>2, <2>0, SMT
  <2>6. \A q \in Proc : pc'[q] \notin {"install", "clear"}
    BY <1>5 DEF Installer
  <2> QED
    BY <1>a, <1>5, <2>3, <2>4, <2>5, <2>6 DEF Progress
<1>12. Reserved'
  BY <1>4, <1>6, <1>1 DEF Reserved
<1> QED
  BY <1>7, <1>8, <1>9, <1>10, <1>11, <1>12

\* write_head() commits: the header now lists what the log area holds.
LEMMA StepWriteHead ==
  ASSUME IInv, NEW p \in Proc, WriteHead(p)
  PROVE  IInv'
<1> USE LogAssumption DEF WriteHead, IInv, TypeOK, cacheVars
<1>1. committing /\ Active = {} /\ Committer(p)
  BY DEF CommitAlone, Committer
<1>2. \A q \in Proc : pc'[q] = IF q = p THEN "install" ELSE pc[q]
  OBVIOUS
<1>3. Len(lh) >= 1 /\ tail' = 1
  BY SMT DEF Progress
<1>4. Active' = Active
  BY <1>2 DEF Active
<1>5. /\ \A q \in Proc : Committer(q)' <=> Committer(q)
      /\ \A q \in Proc : ~Installer(q) /\ (Installer(q)' <=> q = p)
  BY <1>1, <1>2 DEF Committer, Installer, CommitAlone
<1>6. Unused' = Unused /\ Uninstalled' = Uninstalled
  BY <1>3, <1>4, <1>5 DEF Unused, Uninstalled
<1>7. TypeOK'
  BY DEF PC
<1>8. CommitAlone' /\ Rebooting' /\ LogOwned' /\ NoPanic'
  BY <1>2, <1>4, <1>5 DEF CommitAlone, Rebooting, LogOwned, NoPanic
<1>9. Locking'
  BY <1>2 DEF Locking
<1>10. Pinned' /\ EvictableIsClean'
  BY <1>6 DEF Pinned, EvictableIsClean, Unlocked, Injective
<1>11. HeaderValid'
  BY <1>5 DEF HeaderValid, Injective, Pinned, NoPanic
<1>12. Progress'
  <2>1. \A i \in 1 .. Len(lh) : logblk[i] = Bread(lh[i])
    <3> SUFFICES ASSUME NEW i \in 1 .. Len(lh) PROVE logblk[i] = Bread(lh[i])
      OBVIOUS
    <3>1. cache[lh[i]] # Absent
      BY WriteLogPinned DEF Pinned
    <3>2. tail = Len(lh) + 1
      BY DEF Progress
    <3>3. logblk[i] = cache[lh[i]]
      BY <3>2, SMTT(60) DEF Progress
    <3> QED
      BY <3>1, <3>3 DEF Bread
  <2> QED
    BY <2>1, <1>2, <1>3, <1>5, <1>1, SMTT(60) DEF Progress, Installer, Committer, Rebooting, Bread, CommitAlone
<1>13. Reserved'
  BY <1>1, <1>4, <1>6 DEF Reserved
<1> QED
  BY <1>7, <1>8, <1>9, <1>10, <1>11, <1>12, <1>13

\* One block is installed: used for commit() and for recovery.
LEMMA Installed ==
  ASSUME IInv, InstallBlock, tail \in 1 .. Len(lh), lh' = lh, logblk' = logblk,
         \A i \in 1 .. Len(lh) : i < tail => disk[lh[i]] = logblk[i]
  PROVE  /\ disk' \in [Block -> Val]
         /\ cache' \in [Block -> Val \cup {Absent}]
         /\ \A x \in Block : disk'[x] = IF x = lh[tail] THEN logblk[tail] ELSE disk[x]
         /\ \A x \in Block : cache'[x] = IF x = lh[tail] THEN logblk[tail] ELSE cache[x]
         /\ \A i \in 1 .. Len(lh) : i < tail' => disk'[lh[i]] = logblk[i]
         /\ lh[tail] \in Block /\ logblk[tail] \in Val
<1> USE LogAssumption DEF InstallBlock, IInv, TypeOK
<1>1. lh[tail] \in Block /\ logblk[tail] \in Val
  BY SMTT(60) DEF NoPanic, LogArea
<1>2. /\ \A x \in Block : disk'[x] = IF x = lh[tail] THEN logblk[tail] ELSE disk[x]
      /\ \A x \in Block : cache'[x] = IF x = lh[tail] THEN logblk[tail] ELSE cache[x]
  BY <1>1
<1>3. ASSUME NEW i \in 1 .. Len(lh), i < tail'
      PROVE  disk'[lh[i]] = logblk[i]
  <2>1. lh[i] \in Block /\ (i = tail \/ (i < tail /\ lh[i] # lh[tail]))
    BY <1>3, SMTT(60) DEF Pinned, Injective
  <2> QED
    BY <1>2, <2>1, SMT
<1> QED
  BY <1>1, <1>2, <1>3

\* install_trans() copies the next block home and unpins its buffer.
LEMMA StepInstallTrans ==
  ASSUME IInv, NEW p \in Proc, InstallTrans(p)
  PROVE  IInv'
<1> USE LogAssumption DEF InstallTrans, IInv, TypeOK
<1>1. committing /\ Active = {} /\ Committer(p) /\ Installer(p)
  BY DEF CommitAlone, Committer, Installer
<1>2. \A q \in Proc : pc'[q] = IF q = p /\ tail = Len(lh) THEN "clear" ELSE pc[q]
  OBVIOUS
<1>3. tail \in 1 .. Len(lh) /\ tail' = tail + 1 /\ dirty' = dirty \ {lh[tail]}
  BY DEF Progress, InstallBlock
<1>4. \A i \in 1 .. Len(lh) : i < tail => disk[lh[i]] = logblk[i]
  BY <1>1 DEF Progress
<1>5. /\ disk' \in [Block -> Val]
      /\ cache' \in [Block -> Val \cup {Absent}]
      /\ \A x \in Block : disk'[x] = IF x = lh[tail] THEN logblk[tail] ELSE disk[x]
      /\ \A x \in Block : cache'[x] = IF x = lh[tail] THEN logblk[tail] ELSE cache[x]
      /\ \A i \in 1 .. Len(lh) : i < tail' => disk'[lh[i]] = logblk[i]
      /\ lh[tail] \in Block /\ logblk[tail] \in Val
  BY <1>3, <1>4, Installed
<1>6. Active' = Active
  BY <1>2 DEF Active
<1>7. /\ \A q \in Proc : Committer(q)' <=> Committer(q)
      /\ \A q \in Proc : Installer(q) <=> q = p
      /\ \A q \in Proc : Installer(q)' <=> q = p
  BY <1>1, <1>2 DEF Committer, Installer, CommitAlone
<1>8. Unused' = Unused /\ Uninstalled = tail /\ Uninstalled' = tail'
  BY <1>6, <1>7 DEF Unused, Uninstalled
<1>9. TypeOK'
  BY <1>3, <1>5, SMTT(60) DEF PC
<1>10. CommitAlone' /\ Rebooting' /\ LogOwned' /\ NoPanic'
  BY <1>2, <1>6, <1>7 DEF CommitAlone, Rebooting, LogOwned, NoPanic
<1>11. Locking'
  BY <1>2, <1>5, SMT DEF Locking
<1>12. HeaderValid'
  BY <1>7 DEF HeaderValid
<1>13. Pinned'
  <2>1. ASSUME NEW x \in Block
        PROVE  x \in dirty' <=> \E i \in 1 .. Len(lh) : lh[i] = x /\ i >= tail'
    BY <1>3, <1>8, SMTT(60) DEF Pinned, Injective
  <2>2. \A x \in dirty' : cache'[x] # Absent
    BY <1>3, <1>5 DEF Pinned
  <2> QED
    BY <2>1, <2>2, <1>8 DEF Pinned
<1>14. EvictableIsClean'
  BY <1>3, <1>5 DEF EvictableIsClean, Unlocked
<1>a. CommitAlone
  OBVIOUS
<1>15. Progress'
  <2>0. /\ lh \in Seq(Block) /\ Len(lh) \in Nat /\ tail \in Nat
        /\ boot = "up" /\ pc[p] = "install"
        /\ UNCHANGED <<logblk, boot, lh>>
        /\ Progress /\ Injective(lh)
    BY SMT DEF Pinned
  <2>1. \A x \in Block : Bread(x)' = IF x = lh[tail] THEN logblk[tail] ELSE Bread(x)
    BY <1>5 DEF Bread
  <2> HIDE DEF InstallTrans, IInv, TypeOK
  <2>2. ASSUME NEW i \in 1 .. Len(lh)
        PROVE  logblk[i] = Bread(lh[i])'
    <3>1. lh[i] \in Block
      BY <2>0, SMT
    <3>2. i = tail \/ lh[i] # lh[tail]
      BY <1>3, <2>0 DEF Injective
    <3>3. logblk[i] = Bread(lh[i])
      BY <1>1, <2>0 DEF Progress
    <3> QED
      BY <2>0, <2>1, <3>1, <3>2, <3>3
  <2>3. \A q \in Proc : pc'[q] \in {"install", "clear"} <=> q = p
    BY <1>7 DEF Installer
  <2>4. \A q \in Proc : pc'[q] \notin {"write_log", "write_head"}
    <3>1. \A q \in Proc : q # p => ~Committer(q)'
      BY <1>1, <1>7, <1>a DEF CommitAlone
    <3> QED
      BY <2>3, <3>1 DEF Committer
  <2>5. /\ pc'[p] = "install" => tail' \in 1 .. Len(lh)
        /\ pc'[p] = "clear" => tail' = Len(lh) + 1 /\ tail' > 1
    BY <1>2, <1>3, <2>0, SMT
  <2> QED
    BY <2>0, <2>2, <2>3, <2>4, <2>5, <1>5, <1>7 DEF Progress
<1>16. Reserved'
  BY <1>1, <1>6, <1>8 DEF Reserved
<1> QED
  BY <1>9, <1>10, <1>11, <1>12, <1>13, <1>14, <1>15, <1>16

\* commit() erases the transaction once all of it is installed.
LEMMA StepClearHead ==
  ASSUME IInv, NEW p \in Proc, ClearHead(p)
  PROVE  IInv'
<1> USE LogAssumption DEF ClearHead, IInv, TypeOK, cacheVars
<1>1. committing /\ Active = {} /\ Committer(p) /\ Installer(p)
  BY DEF CommitAlone, Committer, Installer
<1>2. \A q \in Proc : pc'[q] = IF q = p THEN "done" ELSE pc[q]
  OBVIOUS
<1>3. Active' = Active
  BY <1>2 DEF Active
<1>4. /\ \A q \in Proc : Committer(q)' <=> Committer(q)
      /\ \A q \in Proc : Committer(q)' <=> q = p
      /\ \A q \in Proc : Installer(q) <=> q = p
      /\ \A q \in Proc : ~Installer(q)'
  BY <1>1, <1>2 DEF Committer, Installer, CommitAlone
<1>5. Unused' = {} /\ Uninstalled = tail /\ Uninstalled' = 1
  BY <1>1, <1>3, <1>4 DEF Unused, Uninstalled
<1>6. dirty = {}
  <2>1. tail = Len(lh) + 1
    BY DEF Progress
  <2> QED
    BY <2>1, <1>5, SMTT(60) DEF Pinned
<1>7. lh' = << >> /\ head' = << >> /\ Len(lh') = 0 /\ Len(head') = 0
  OBVIOUS
<1>8. TypeOK'
  BY SMT DEF PC
<1>9. CommitAlone' /\ Rebooting' /\ LogOwned'
  BY <1>2, <1>3, <1>4, <1>7 DEF CommitAlone, Rebooting, LogOwned
<1>10. Locking' /\ NoPanic'
  BY <1>2, <1>7, SMTT(30) DEF Locking, NoPanic
<1>11. Pinned' /\ HeaderValid'
  BY <1>4, <1>6, <1>7, SMT DEF Pinned, HeaderValid, Injective
<1>12. EvictableIsClean'
  BY DEF EvictableIsClean, Unlocked
<1>13. Progress'
  BY <1>2, <1>4, <1>7, SMTT(30) DEF Progress, Installer, Committer
<1>14. Reserved'
  <2>1. Cardinality(Unused') = 0
    BY <1>5, FS_EmptySet
  <2> QED
    BY <2>1, <1>1, <1>3, <1>7, SMT DEF Reserved
<1> QED
  BY <1>8, <1>9, <1>10, <1>11, <1>12, <1>13, <1>14

\* end_op() lets the next calls in.
LEMMA StepEndCommit ==
  ASSUME IInv, NEW p \in Proc, EndCommit(p)
  PROVE  IInv'
<1> USE LogAssumption DEF EndCommit, IInv, TypeOK, diskVars, cacheVars
<1>1. committing /\ Active = {} /\ Committer(p) /\ lh = << >>
  BY DEF CommitAlone, Committer, LogOwned
<1>2. \A q \in Proc : pc'[q] = IF q = p THEN "idle"
                               ELSE IF pc[q] = "asleep" THEN "retry" ELSE pc[q]
  BY DEF WakeLog
<1>3. Active' = Active
  BY <1>2, SMT DEF Active
<1>4. /\ \A q \in Proc : ~Committer(q)'
      /\ \A q \in Proc : ~Installer(q) /\ ~Installer(q)'
  BY <1>1, <1>2, SMT DEF Committer, Installer, CommitAlone
<1>5. Unused' = Unused /\ Uninstalled' = Uninstalled
  BY <1>3, <1>4 DEF Unused, Uninstalled
<1>6. TypeOK'
  <2>1. pc' \in [Proc -> PC]
    BY DEF WakeLog, PC
  <2> QED
    BY <2>1
<1>7. CommitAlone' /\ LogOwned'
  BY <1>1, <1>2, <1>3, <1>4 DEF CommitAlone, LogOwned, Committer
<1>8. Rebooting' /\ Locking' /\ NoPanic'
  <2>1. Rebooting' /\ NoPanic'
    BY <1>2, SMT DEF Rebooting, NoPanic
  <2>2. \A q \in Proc : pc'[q] \in {"modified", "checked"}
                           <=> pc[q] \in {"modified", "checked"}
    BY <1>2, SMT
  <2>3. Locking'
    BY <2>2 DEF Locking
  <2> QED
    BY <2>1, <2>3
<1>9. Pinned' /\ HeaderValid' /\ EvictableIsClean'
  BY <1>4, <1>5, SMT DEF Pinned, HeaderValid, EvictableIsClean, Unlocked, Injective
<1>10. Progress'
  BY <1>4 DEF Progress, Installer, Committer
<1>11. Reserved'
  BY <1>1, <1>3, <1>5 DEF Reserved
<1> QED
  BY <1>6, <1>7, <1>8, <1>9, <1>10, <1>11

\* Power fails: only the disk is left, and its header is still good.
LEMMA StepCrash ==
  ASSUME IInv, Crash
  PROVE  IInv'
<1> USE LogAssumption DEF Crash, IInv, TypeOK, diskVars
<1>1. \A q \in Proc : pc'[q] = "idle"
  OBVIOUS
<1>2. Active' = {} /\ Cardinality(Active') = 0
  BY <1>1, FS_EmptySet DEF Active
<1>3. lh' = << >> /\ Len(lh') = 0
  OBVIOUS
<1>4. TypeOK'
  <2>1. wrote' \in [Proc -> SUBSET Block] /\ pc' \in [Proc -> PC]
    BY DEF PC
  <2>2. cache' \in [Block -> Val \cup {Absent}] /\ buf' \in [Proc -> Block \cup {NoBlock}]
    OBVIOUS
  <2>3. news' \in [Proc -> Nat] /\ lh' \in Seq(Block)
    BY SMT
  <2>4. committing' \in BOOLEAN
    OBVIOUS
  <2> QED
    BY <2>1, <2>2, <2>3, <2>4 DEF BootStep
<1>5. CommitAlone'
  BY <1>1, <1>2 DEF CommitAlone, Committer
<1>6. Rebooting' /\ Locking' /\ LogOwned'
  BY <1>1 DEF Rebooting, Locking, LogOwned
<1>7. Pinned' /\ HeaderValid' /\ NoPanic'
  BY <1>1, <1>3, SMTT(60) DEF Pinned, HeaderValid, NoPanic, Injective
<1>8. EvictableIsClean'
  BY DEF EvictableIsClean
<1>9. Progress'
  BY <1>1, <1>3 DEF Progress, Installer
<1>10. Reserved'
  BY <1>2 DEF Reserved
<1> QED
  BY <1>4, <1>5, <1>6, <1>7, <1>8, <1>9, <1>10

\* Recovery reads the header.
LEMMA StepReadHead ==
  ASSUME IInv, ReadHead
  PROVE  IInv'
<1> USE LogAssumption DEF ReadHead, IInv, TypeOK, diskVars, cacheVars, procVars
<1>1. \A q \in Proc : pc[q] = "idle" /\ pc'[q] = "idle"
  BY DEF Rebooting
<1>2. Active = {} /\ Active' = {}
  BY <1>1 DEF Active
<1>3. /\ \A q \in Proc : ~Committer(q) /\ ~Committer(q)'
      /\ \A q \in Proc : ~Installer(q) /\ ~Installer(q)'
  BY <1>1 DEF Committer, Installer
<1>4. Len(head) \in Nat /\ Len(lh') = Len(head)
  BY SMT
<1>5. TypeOK'
  BY DEF BootStep
<1>6. CommitAlone' /\ Rebooting' /\ LogOwned'
  BY <1>1, <1>2, <1>3 DEF CommitAlone, Rebooting, LogOwned
<1>7. Locking' /\ EvictableIsClean'
  BY <1>1 DEF Locking, EvictableIsClean, Unlocked
<1>8. Pinned' /\ HeaderValid' /\ NoPanic'
  BY <1>1, <1>3, <1>4, SMTT(30) DEF Pinned, HeaderValid, NoPanic, Injective, Rebooting
<1>9. Progress'
  <2>1. /\ lh' = head /\ tail' = 1
        /\ boot' = IF Len(head) > 0 THEN "install" ELSE "clear"
    OBVIOUS
  <2> HIDE DEF ReadHead, IInv, TypeOK
  <2>2. /\ boot' = "install" => tail' \in 1 .. Len(lh')
        /\ boot' = "clear" => tail' = Len(lh') + 1
        /\ \A i \in 1 .. Len(lh') : ~(i < tail')
    BY <1>4, <2>1, SMT
  <2> QED
    BY <1>1, <1>3, <2>2 DEF Progress
<1>10. Reserved'
  BY <1>2 DEF Reserved
<1> QED
  BY <1>5, <1>6, <1>7, <1>8, <1>9, <1>10

\* Recovery copies the next block of the log home.
LEMMA StepRecoverInstall ==
  ASSUME IInv, RecoverInstall
  PROVE  IInv'
<1> USE LogAssumption DEF RecoverInstall, IInv, TypeOK, procVars
<1>1. /\ \A q \in Proc : pc[q] = "idle" /\ pc'[q] = "idle"
      /\ lh = head /\ dirty = {}
  BY DEF Rebooting
<1>2. Active = {} /\ Active' = {}
  BY <1>1 DEF Active
<1>3. /\ \A q \in Proc : ~Committer(q) /\ ~Committer(q)'
      /\ \A q \in Proc : ~Installer(q) /\ ~Installer(q)'
  BY <1>1 DEF Committer, Installer
<1>4. tail \in 1 .. Len(lh) /\ tail' = tail + 1 /\ dirty' = {}
  BY <1>1 DEF Progress, InstallBlock
<1>5. \A i \in 1 .. Len(lh) : i < tail => disk[lh[i]] = logblk[i]
  BY DEF Progress
<1>6. /\ disk' \in [Block -> Val]
      /\ cache' \in [Block -> Val \cup {Absent}]
      /\ \A x \in Block : disk'[x] = IF x = lh[tail] THEN logblk[tail] ELSE disk[x]
      /\ \A x \in Block : cache'[x] = IF x = lh[tail] THEN logblk[tail] ELSE cache[x]
      /\ \A i \in 1 .. Len(lh) : i < tail' => disk'[lh[i]] = logblk[i]
      /\ lh[tail] \in Block /\ logblk[tail] \in Val
  BY <1>4, <1>5, Installed
<1>a. /\ boot = "install" /\ boot' = IF tail = Len(lh) THEN "clear" ELSE boot
      /\ UNCHANGED <<logblk, head, buf, lh, outstanding, committing, procVars>>
      /\ TypeOK /\ Progress
      /\ lh \in Seq(Block) /\ Len(lh) \in Nat /\ tail \in Nat
  BY SMT
<1>7. TypeOK'
  <2> HIDE DEF RecoverInstall, IInv
  <2>1. tail' \in Nat /\ boot' \in BootStep
    BY <1>4, <1>a, SMT DEF BootStep
  <2>2. dirty' \subseteq Block
    BY <1>4
  <2> QED
    BY <2>1, <2>2, <1>6, <1>a
<1>8. CommitAlone' /\ Rebooting' /\ LogOwned' /\ NoPanic'
  BY <1>1, <1>2, <1>3, <1>4, SMTT(30) DEF CommitAlone, Rebooting, LogOwned, NoPanic
<1>9. Locking'
  BY <1>1, <1>6 DEF Locking
<1>10. Pinned' /\ HeaderValid'
  BY <1>3, <1>4 DEF Pinned, HeaderValid
<1>11. EvictableIsClean'
  BY <1>1, <1>6 DEF EvictableIsClean, Unlocked
<1>12. Progress'
  <2> HIDE DEF RecoverInstall, IInv, TypeOK
  <2>1. /\ boot' = "install" => tail' \in 1 .. Len(lh')
        /\ boot' = "clear" => tail' = Len(lh') + 1
    BY <1>4, <1>a, SMT
  <2> QED
    BY <1>1, <1>3, <1>6, <1>a, <2>1 DEF Progress
<1>13. Reserved'
  BY <1>2 DEF Reserved
<1> QED
  BY <1>7, <1>8, <1>9, <1>10, <1>11, <1>12, <1>13, SMTT(30)

\* Recovery erases the transaction, and the system is up.
LEMMA StepRecoverClear ==
  ASSUME IInv, RecoverClear
  PROVE  IInv'
<1> USE LogAssumption DEF RecoverClear, IInv, TypeOK, cacheVars, procVars
<1>1. /\ \A q \in Proc : pc[q] = "idle" /\ pc'[q] = "idle"
      /\ dirty = {}
  BY DEF Rebooting
<1>2. Active = {} /\ Active' = {}
  BY <1>1 DEF Active
<1>3. /\ \A q \in Proc : ~Committer(q) /\ ~Committer(q)'
      /\ \A q \in Proc : ~Installer(q) /\ ~Installer(q)'
  BY <1>1 DEF Committer, Installer
<1>4. lh' = << >> /\ head' = << >> /\ Len(lh') = 0 /\ Len(head') = 0
  OBVIOUS
<1>5. TypeOK'
  BY SMT DEF BootStep
<1>6. CommitAlone' /\ Rebooting' /\ LogOwned' /\ NoPanic'
  BY <1>1, <1>2, <1>3, <1>4, SMTT(60) DEF CommitAlone, Rebooting, LogOwned, NoPanic
<1>7. Locking' /\ EvictableIsClean'
  BY <1>1 DEF Locking, EvictableIsClean, Unlocked
<1>8. Pinned' /\ HeaderValid'
  BY <1>1, <1>3, <1>4, SMTT(60) DEF Pinned, HeaderValid, Injective
<1>9. Progress'
  BY <1>1, <1>3, <1>4, SMTT(30) DEF Progress, Installer
<1>10. Reserved'
  <2>1. Unused' = {} /\ Cardinality({}) = 0
    BY <1>2, FS_EmptySet DEF Unused
  <2> QED
    BY <2>1, <1>2, <1>4, SMT DEF Reserved
<1> QED
  BY <1>5, <1>6, <1>7, <1>8, <1>9, <1>10, SMT

\* A step that changes no variable.
LEMMA StepStutter ==
  ASSUME IInv, UNCHANGED vars
  PROVE  IInv'
<1> USE DEF IInv, vars, diskVars, cacheVars, logVars, procVars
<1>1. /\ Active' = Active /\ Unused' = Unused /\ Uninstalled' = Uninstalled
      /\ \A q \in Proc : Committer(q)' <=> Committer(q)
      /\ \A q \in Proc : Installer(q)' <=> Installer(q)
  BY DEF Active, Unused, Uninstalled, Committer, Installer
<1>2. TypeOK' /\ CommitAlone' /\ Rebooting' /\ Locking'
  BY <1>1 DEF TypeOK, CommitAlone, Rebooting, Locking
<1>3. Pinned' /\ HeaderValid' /\ LogOwned' /\ NoPanic'
  BY <1>1, SMTT(30) DEF Pinned, HeaderValid, LogOwned, NoPanic, Injective
<1>4. Progress' /\ Reserved' /\ EvictableIsClean'
  BY <1>1, SMT DEF Progress, Reserved, EvictableIsClean, Unlocked, InHeader, Bread
<1> QED
  BY <1>2, <1>3, <1>4

-----------------------------------------------------------------------------
\* Every step preserves the inductive invariant.
LEMMA NextIInv ==
  ASSUME FootprintFits, IInv, [Next]_vars
  PROVE  IInv'
<1>1. ASSUME NEW p \in Proc, Call(p)
      PROVE  IInv'
  BY <1>1, StepBeginOpSleep, StepBeginOp, StepModify, StepLogWriteCheck,
     StepLogWrite, StepEndOp, StepEndOpCommit DEF Call
<1>2. ASSUME NEW p \in Proc, Commit(p)
      PROVE  IInv'
  BY <1>2, StepWriteLog, StepWriteHead, StepInstallTrans, StepClearHead,
     StepEndCommit DEF Commit
<1>3. ASSUME NEW b \in Block, Read(b) \/ Evict(b)
      PROVE  IInv'
  BY <1>3, StepRead, StepEvict
<1>4. CASE Recover
  BY <1>4, StepReadHead, StepRecoverInstall, StepRecoverClear DEF Recover
<1>5. CASE Crash
  BY <1>5, StepCrash
<1>6. CASE UNCHANGED vars
  BY <1>6, StepStutter
<1> QED
  BY <1>1, <1>2, <1>3, <1>4, <1>5, <1>6 DEF Next, Run

-----------------------------------------------------------------------------
\* The inductive invariant holds throughout, power losses included.
THEOREM LogInvariant ==
  ASSUME FootprintFits
  PROVE  Spec => []IInv
<1>1. Init => IInv
  BY InitIInv
<1>2. IInv /\ [Next]_vars => IInv'
  BY NextIInv
<1> QED
  BY <1>1, <1>2, PTL DEF Spec

\* The model's values stay within their types: in particular outstanding is
\* never decremented below zero and tail never leaves the log.
THEOREM TypeCorrect ==
  ASSUME FootprintFits
  PROVE  Spec => []TypeOK
BY LogInvariant, PTL DEF IInv

\* log_write() and end_op() never panic, and the log never overflows, as long
\* as every call keeps within FootprintFits.
THEOREM NeverPanics ==
  ASSUME FootprintFits
  PROVE  Spec => []NoPanic
BY LogInvariant, PTL DEF IInv

\* bget() only ever recycles buffers that agree with the disk.
THEOREM EvictionIsSafe ==
  ASSUME FootprintFits
  PROVE  Spec => []EvictableIsClean
BY LogInvariant, PTL DEF IInv

\* When the last end_op() has returned, all that was written is durable.
THEOREM DurableWhenQuiet ==
  ASSUME FootprintFits
  PROVE  Spec => []QuietIsDurable
<1>1. IInv => QuietIsDurable
  <2> SUFFICES ASSUME IInv, boot = "up", outstanding = 0, ~committing
               PROVE  Recovered = View /\ head = << >> /\ lh = << >> /\ dirty = {}
    BY DEF QuietIsDurable
  <2> USE DEF IInv, TypeOK
  <2>1. Active = {}
    BY ActiveFinite, FS_EmptySet DEF CommitAlone
  <2>2. lh = << >>
    BY <2>1 DEF LogOwned
  <2>3. \A p \in Proc : ~Installer(p)
    BY DEF CommitAlone, Committer, Installer
  <2>4. head = << >>
    BY <2>3 DEF HeaderValid
  <2>5. dirty = {}
    BY <2>2, SMT DEF Pinned
  <2>6. \A b \in Block : Unlocked(b)
    BY <2>1, LogAssumption DEF Unlocked, Locking, Active
  <2>7. \A b \in Block : Bread(b) = disk[b]
    BY <2>5, <2>6 DEF EvictableIsClean, Bread
  <2>8. Recovered = View
    BY <2>4, <2>7, SMT DEF Recovered, View, InHeader
  <2> QED
    BY <2>2, <2>4, <2>5, <2>8
<1> QED
  BY <1>1, LogInvariant, PTL

-----------------------------------------------------------------------------
\* Refinement of AtomicDisk.

\* A block has one position in a header without repetitions.
LEMMA PosUnique ==
  ASSUME NEW h \in Seq(Block), Injective(h), NEW i \in 1 .. Len(h)
  PROVE  InHeader(h, h[i]) /\ Pos(h, h[i]) = i
BY DEF Injective, InHeader, Pos

\* Recovered, block by block.
LEMMA RecoveredAt ==
  ASSUME NEW b \in Block
  PROVE  Recovered[b] = IF InHeader(head, b) THEN logblk[Pos(head, b)] ELSE disk[b]
BY DEF Recovered

\* The position of a listed block is an index of the header.
LEMMA PosRange ==
  ASSUME NEW h \in Seq(Block), NEW b \in Block, InHeader(h, b)
  PROVE  Pos(h, b) \in 1 .. Len(h) /\ h[Pos(h, b)] = b
BY DEF InHeader, Pos

\* Once every entry of the header has been installed, recovery has nothing
\* left to do.
LEMMA AllInstalled ==
  ASSUME IInv, \A i \in 1 .. Len(head) : disk[head[i]] = logblk[i]
  PROVE  Recovered = disk
<1>1. ASSUME NEW b \in Block
      PROVE  Recovered[b] = disk[b]
  BY PosRange, RecoveredAt DEF IInv, TypeOK
<1> QED
  BY <1>1 DEF Recovered, IInv, TypeOK

\* Installing an entry of the header does not change what recovery yields.
LEMMA InstallKeepsRecovered ==
  ASSUME IInv, lh = head, tail \in 1 .. Len(lh), head' = head, logblk' = logblk,
         \A x \in Block : disk'[x] = IF x = lh[tail] THEN logblk[tail] ELSE disk[x]
  PROVE  Recovered' = Recovered
<1>1. InHeader(head, head[tail])
  BY DEF InHeader
<1>2. \A x \in Block : InHeader(head, x)' = InHeader(head, x) /\ Pos(head, x)' = Pos(head, x)
  BY DEF InHeader, Pos
<1>3. ASSUME NEW x \in Block
      PROVE  Recovered'[x] = Recovered[x]
  BY <1>1, <1>2 DEF Recovered
<1> QED
  BY <1>3 DEF Recovered

\* A step that changes neither the view, nor what recovery yields, nor the
\* set of running calls is invisible in AtomicDisk.
LEMMA Invisible ==
  ASSUME boot' = boot, View' = View, Recovered' = Recovered, Active' = Active
  PROVE  UNCHANGED Atomic!avars
BY DEF Atomic!avars

\* The initial states are initial states of AtomicDisk.
LEMMA InitRefines == Init => Atomic!Init
<1> SUFFICES ASSUME Init PROVE Atomic!Init
  OBVIOUS
<1>1. \A b \in Block : ~InHeader(head, b)
  BY SMT DEF Init, InHeader
<1>2. Recovered = [b \in Block |-> InitVal]
  BY <1>1 DEF Init, Recovered
<1>3. Active = {}
  BY DEF Init, Active
<1> QED
  BY <1>2, <1>3 DEF Init, Atomic!Init

\* A step of a call is a Begin, a Write or an End of AtomicDisk, or stutters.
LEMMA CallRefines ==
  ASSUME IInv, NEW p \in Proc, Call(p)
  PROVE  [Atomic!Next]_Atomic!avars
<1> USE DEF diskVars, cacheVars, logVars
<1>a. boot = "up" /\ boot' = boot /\ diskVars' = diskVars
  BY DEF Call, BeginOpSleep, BeginOp, Modify, LogWriteCheck, LogWrite, EndOp, EndOpCommit
<1>b. Recovered' = Recovered
  BY <1>a DEF Recovered, InHeader, Pos
<1>c. ASSUME cache' = cache PROVE View' = View
  BY <1>a, <1>c DEF View, Bread
<1>1. CASE BeginOpSleep(p)
  <2>1. Active' = Active
    BY <1>1 DEF BeginOpSleep, Active, IInv, TypeOK
  <2> QED
    BY <1>1, <1>a, <1>b, <1>c, <2>1, Invisible DEF BeginOpSleep
<1>2. CASE BeginOp(p)
  <2>1. p \notin Active /\ Active' = Active \cup {p}
    BY <1>2 DEF BeginOp, Active, IInv, TypeOK
  <2>2. View' = View
    BY <1>2, <1>c DEF BeginOp
  <2>3. Atomic!Begin(p)
    BY <1>a, <1>b, <2>1, <2>2 DEF Atomic!Begin
  <2> QED
    BY <2>3 DEF Atomic!Next
<1>3. CASE \E b \in Block, v \in Val : Modify(p, b, v)
  <2> PICK b \in Block, v \in Val : Modify(p, b, v)
    BY <1>3
  <2>1. p \in Active /\ Active' = Active
    BY DEF Modify, Active, IInv, TypeOK
  <2>2. View' = [View EXCEPT ![b] = v]
    BY <1>a, LogAssumption DEF Modify, View, Bread, IInv, TypeOK
  <2>3. Atomic!Write(p, b, v)
    BY <1>a, <1>b, <2>1, <2>2 DEF Atomic!Write
  <2> QED
    BY <2>3 DEF Atomic!Next
<1>4. CASE LogWriteCheck(p)
  <2>1. Active' = Active \/ Active' = Active \ {p}
    BY <1>4 DEF LogWriteCheck, Active, IInv, TypeOK
  <2>2. View' = View
    BY <1>4, <1>c DEF LogWriteCheck
  <2>3. CASE Active' = Active
    BY <1>a, <1>b, <2>2, <2>3, Invisible
  <2>4. CASE Active' = Active \ {p}
    <3>1. Atomic!End(p)
      BY <1>4, <1>a, <1>b, <2>2, <2>4 DEF Atomic!End, LogWriteCheck, Active
    <3> QED
      BY <3>1 DEF Atomic!Next
  <2> QED
    BY <2>1, <2>3, <2>4
<1>5. CASE LogWrite(p)
  <2>1. Active' = Active
    BY <1>5 DEF LogWrite, Active, IInv, TypeOK
  <2> QED
    BY <1>5, <1>a, <1>b, <1>c, <2>1, Invisible DEF LogWrite
<1>6. CASE EndOp(p) \/ EndOpCommit(p)
  <2>1. p \in Active /\ Active' = Active \ {p}
    BY <1>6 DEF EndOp, EndOpCommit, Active, WakeLog, IInv, TypeOK
  <2>2. View' = View
    BY <1>6, <1>c DEF EndOp, EndOpCommit
  <2>3. Atomic!End(p)
    BY <1>a, <1>b, <2>1, <2>2 DEF Atomic!End
  <2> QED
    BY <2>3 DEF Atomic!Next
<1> QED
  BY <1>1, <1>2, <1>3, <1>4, <1>5, <1>6 DEF Call

\* Of commit() only write_head() shows: it is AtomicDisk's Commit.
LEMMA CommitRefines ==
  ASSUME IInv, NEW p \in Proc, Commit(p)
  PROVE  [Atomic!Next]_Atomic!avars
<1> USE DEF diskVars, cacheVars, logVars, IInv, TypeOK
<1>a. boot = "up" /\ boot' = boot
  BY DEF Commit, WriteLog, WriteHead, InstallTrans, ClearHead, EndCommit
<1>b. Active' = Active
  BY DEF Commit, WriteLog, WriteHead, InstallTrans, ClearHead, EndCommit, Active, WakeLog
<1>c. Active = {}
  BY DEF Commit, WriteLog, WriteHead, InstallTrans, ClearHead, EndCommit,
         CommitAlone, Committer
<1>1. CASE WriteLog(p)
  <2>1. \A x \in Block : ~InHeader(head, x)
    BY <1>1, <1>a, SMTT(60) DEF WriteLog, HeaderValid, InHeader, Installer, CommitAlone, Committer
  <2>2. \A x \in Block : ~InHeader(head, x)'
    BY <1>1, <2>1 DEF WriteLog, InHeader
  <2>3. Recovered' = Recovered
    BY <1>1, <2>1, <2>2 DEF WriteLog, Recovered
  <2>4. View' = View
    BY <1>1, LogAssumption DEF WriteLog, View, Bread
  <2> QED
    BY <1>a, <1>b, <2>3, <2>4, Invisible, SMTT(30)
<1>2. CASE WriteHead(p)
  <2>1. View' = View
    BY <1>2 DEF WriteHead, View, Bread
  <2>2. Recovered' = View
    <3> SUFFICES ASSUME NEW x \in Block PROVE Recovered'[x] = Bread(x)
      BY DEF Recovered, View
    <3>0. head' = lh /\ logblk' = logblk /\ disk' = disk
      BY <1>2 DEF WriteHead
    <3>1. CASE InHeader(lh, x)
      <4> DEFINE i == Pos(lh, x)
      <4>1. i \in 1 .. Len(lh) /\ lh[i] = x
        BY <3>1, PosRange
      <4>2. Recovered'[x] = logblk[i]
        BY <3>0, <3>1 DEF Recovered
      <4> HIDE DEF i
      <4>3. \A j \in 1 .. Len(lh) : j < Len(lh) + 1 => logblk[j] = cache[lh[j]]
        BY <1>2 DEF WriteHead, Progress
      <4>4. logblk[i] = cache[x]
        BY <4>1, <4>3, SMT
      <4>5. cache[x] # Absent
        BY <1>2, <1>a, <4>1, WriteLogPinned DEF WriteHead, Pinned
      <4> QED
        BY <4>2, <4>4, <4>5 DEF Bread
    <3>2. CASE ~InHeader(lh, x)
      <4>1. x \notin dirty
        BY <3>2, <1>a DEF Pinned, InHeader
      <4>2. Unlocked(x)
        BY <1>c, LogAssumption DEF Unlocked, Locking, Active
      <4>3. Recovered'[x] = disk[x]
        BY <3>0, <3>2 DEF Recovered
      <4> QED
        BY <4>1, <4>2, <4>3 DEF EvictableIsClean, Bread
    <3> QED
      BY <3>1, <3>2
  <2>3. Atomic!Commit
    BY <1>a, <1>b, <1>c, <2>1, <2>2 DEF Atomic!Commit
  <2> QED
    BY <2>3 DEF Atomic!Next
<1>3. CASE InstallTrans(p)
  <2>0. head = lh
    BY <1>3, <1>a DEF InstallTrans, HeaderValid, Installer
  <2>1. tail \in 1 .. Len(lh)
    BY <1>3 DEF InstallTrans, Progress
  <2>2. \A i \in 1 .. Len(lh) : i < tail => disk[lh[i]] = logblk[i]
    BY <1>3 DEF InstallTrans, Progress, Installer
  <2>3. /\ \A x \in Block : disk'[x] = IF x = lh[tail] THEN logblk[tail] ELSE disk[x]
        /\ \A x \in Block : cache'[x] = IF x = lh[tail] THEN logblk[tail] ELSE cache[x]
        /\ lh[tail] \in Block /\ logblk[tail] \in Val
    BY <1>3, <2>1, <2>2, Installed DEF InstallTrans
  <2>4. Recovered' = Recovered
    BY <1>3, <2>0, <2>1, <2>3, InstallKeepsRecovered, SMTT(30) DEF InstallTrans
  <2>5. logblk[tail] = Bread(lh[tail])
    BY <1>3, <2>1 DEF InstallTrans, Progress, Installer
  <2>6. View' = View
    <3>1. ASSUME NEW x \in Block PROVE Bread(x)' = Bread(x)
      BY <2>3, <2>5, LogAssumption DEF Bread
    <3> QED
      BY <3>1 DEF View
  <2> QED
    BY <1>a, <1>b, <2>4, <2>6, Invisible
<1>4. CASE ClearHead(p)
  <2>1. head = lh /\ tail = Len(lh) + 1
    BY <1>4, <1>a, SMTT(30) DEF ClearHead, HeaderValid, Installer, Progress
  <2>2. \A i \in 1 .. Len(head) : disk[head[i]] = logblk[i]
    BY <1>4, <2>1, SMTT(60) DEF ClearHead, Progress, Installer
  <2>3. Recovered = disk
    BY <2>2, AllInstalled
  <2>4. Recovered' = disk
    BY <1>4, SMT DEF ClearHead, Recovered, InHeader
  <2>5. View' = View
    BY <1>4 DEF ClearHead, View, Bread
  <2> QED
    BY <1>a, <1>b, <2>3, <2>4, <2>5, Invisible, SMTT(30)
<1>5. CASE EndCommit(p)
  <2>1. Recovered' = Recovered /\ View' = View
    BY <1>5 DEF EndCommit, Recovered, InHeader, Pos, View, Bread
  <2> QED
    BY <1>a, <1>b, <2>1, Invisible
<1> QED
  BY <1>1, <1>2, <1>3, <1>4, <1>5 DEF Commit

\* Recovery does not show: what it installs is what Recovered already has.
LEMMA RecoverRefines ==
  ASSUME IInv, Recover
  PROVE  UNCHANGED Atomic!avars
<1> USE DEF diskVars, cacheVars, logVars, procVars, IInv, TypeOK
<1>a. boot # "up" /\ dirty = {} /\ \A p \in Proc : pc[p] = "idle" /\ pc'[p] = "idle"
  BY DEF Recover, ReadHead, RecoverInstall, RecoverClear, Rebooting
<1>b. Active' = Active
  BY <1>a DEF Active
<1>1. CASE ReadHead
  <2>1. Recovered' = Recovered /\ boot' # "up"
    BY <1>1 DEF ReadHead, Recovered, InHeader, Pos
  <2> QED
    BY <1>a, <1>b, <2>1 DEF Atomic!avars
<1>2. CASE RecoverInstall
  <2>0. head = lh /\ boot' # "up"
    BY <1>2 DEF RecoverInstall, Rebooting
  <2>1. tail \in 1 .. Len(lh)
    BY <1>2 DEF RecoverInstall, Progress
  <2>2. \A i \in 1 .. Len(lh) : i < tail => disk[lh[i]] = logblk[i]
    BY <1>2 DEF RecoverInstall, Progress
  <2>3. \A x \in Block : disk'[x] = IF x = lh[tail] THEN logblk[tail] ELSE disk[x]
    BY <1>2, <2>1, <2>2, Installed DEF RecoverInstall
  <2>4. Recovered' = Recovered
    BY <1>2, <2>0, <2>1, <2>3, InstallKeepsRecovered DEF RecoverInstall
  <2> QED
    BY <1>a, <1>b, <2>0, <2>4 DEF Atomic!avars
<1>3. CASE RecoverClear
  <2>1. head = lh /\ tail = Len(lh) + 1 /\ boot' = "up"
    BY <1>3 DEF RecoverClear, Rebooting, Progress
  <2>2. \A i \in 1 .. Len(head) : disk[head[i]] = logblk[i]
    BY <1>3, <2>1, SMTT(60) DEF RecoverClear, Progress
  <2>3. Recovered = disk
    BY <2>2, AllInstalled
  <2>4. Recovered' = disk
    BY <1>3, SMT DEF RecoverClear, Recovered, InHeader
  <2>5. \A b \in Block : Unlocked(b)
    BY <1>a, LogAssumption DEF Unlocked, Locking
  <2>6. View' = disk
    BY <1>3, <1>a, <2>5 DEF RecoverClear, View, Bread, EvictableIsClean
  <2> QED
    BY <1>a, <1>b, <2>1, <2>3, <2>4, <2>6, SMTT(30) DEF Atomic!avars
<1> QED
  BY <1>1, <1>2, <1>3 DEF Recover

\* Every step is a step of AtomicDisk or stutters.
LEMMA NextRefines ==
  ASSUME IInv, [Next]_vars
  PROVE  [Atomic!Next]_Atomic!avars
<1> USE DEF diskVars, cacheVars, logVars, procVars
<1>1. ASSUME NEW b \in Block, Read(b) \/ Evict(b)
      PROVE  UNCHANGED Atomic!avars
  <2>1. boot' = boot /\ Active' = Active /\ Recovered' = Recovered
    <3>1. UNCHANGED <<boot, pc, head, logblk, disk>>
      BY <1>1 DEF Read, Evict
    <3> QED
      BY <3>1 DEF Active, Recovered, InHeader, Pos
  <2>2. View' = View
    BY <1>1, LogAssumption DEF Read, Evict, View, Bread, EvictableIsClean, IInv, TypeOK
  <2> QED
    BY <2>1, <2>2, Invisible
<1>2. CASE Crash
  <2>1. Recovered' = Recovered /\ boot' # "up" /\ Active' = {}
    BY <1>2 DEF Crash, Recovered, InHeader, Pos, Active
  <2>2. Atomic!Crash
    BY <2>1 DEF Atomic!Crash
  <2> QED
    BY <2>2 DEF Atomic!Next
<1>3. CASE UNCHANGED vars
  <2>1. boot' = boot /\ Active' = Active /\ Recovered' = Recovered /\ View' = View
    BY <1>3 DEF vars, Active, Recovered, InHeader, Pos, View, Bread
  <2> QED
    BY <2>1, Invisible
<1> QED
  BY <1>1, <1>2, <1>3, CallRefines, CommitRefines, RecoverRefines DEF Next, Run

\* log.c implements the atomic disk: whenever power fails, recovery yields the
\* blocks as they were at a moment when no file-system call was half way.
THEOREM LogImplementsAtomicDisk ==
  ASSUME FootprintFits
  PROVE  Spec => AtomicSpec
<1>1. Init => Atomic!Init
  BY InitRefines
<1>2. IInv /\ [Next]_vars => [Atomic!Next]_Atomic!avars
  BY NextRefines
<1> QED
  BY <1>1, <1>2, LogInvariant, PTL DEF Spec, AtomicSpec, Atomic!Spec
=============================================================================
