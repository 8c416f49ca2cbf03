-------------------------------- MODULE Log ---------------------------------
(***************************************************************************)
(* log.c: the redo log that makes file-system calls atomic across crashes, *)
(* together with what it uses of the buffer cache (bread fills a buffer    *)
(* from the disk, B_DIRTY pins it, bget recycles a clean idle one) and of  *)
(* the disk (one sector write is atomic and synchronous).                  *)
(*                                                                         *)
(* Steps are the sections the code executes under log.lock, plus one step  *)
(* per sector written by commit() or by recovery: a crash may fall between *)
(* any two.  log_write() tests its limits before it takes log.lock, so the *)
(* test and the recording are two steps.  An operation holds the sleeplock *)
(* of the buffer it modifies from bread() to brelse() (buf[p]).            *)
(*                                                                         *)
(* A block number in lh is a member of Block; the n blocks of the log area *)
(* after its header are logblk[1 .. NLOG-1].  Contents are abstracted to   *)
(* members of Val.                                                         *)
(***************************************************************************)
EXTENDS Integers, Sequences, FiniteSets

CONSTANTS
    Proc,         \* processes that make file-system calls
    Block,        \* home blocks of the file system
    Val, InitVal, \* block contents, and what mkfs wrote
    Absent,       \* block has no buffer
    NoBlock,      \* process holds no buffer
    MAXOPBLOCKS,  \* param.h: what begin_op reserves for one call
    LOGSIZE,      \* param.h: what begin_op takes the log to hold
    NLOG,         \* log.size, from the superblock: header plus log blocks
    OPBLOCKS      \* distinct blocks one call really writes

ASSUME LogAssumption ==
    /\ IsFiniteSet(Proc)
    /\ InitVal \in Val
    /\ Absent \notin Val
    /\ NoBlock \notin Block
    /\ MAXOPBLOCKS \in Nat \ {0}
    /\ LOGSIZE \in Nat
    /\ NLOG \in Nat \ {0}
    /\ OPBLOCKS \in 0 .. MAXOPBLOCKS

VARIABLES
    disk,        \* home blocks on the disk
    logblk,      \* log blocks on the disk
    head,        \* header block on the disk: the block numbers it lists
    boot,        \* "up", or the step of recover_from_log() being run
    cache,       \* contents of a block's buffer, or Absent
    dirty,       \* blocks whose buffer has B_DIRTY
    buf,         \* block whose buffer the process has locked
    lh,          \* log.lh
    outstanding, \* log.outstanding
    committing,  \* log.committing
    tail,        \* loop index of write_log() and install_trans()
    pc,          \* where each process is
    wrote,       \* history: blocks the current call has logged
    news         \* history: of those, how many it added to lh

diskVars == <<disk, logblk, head>>
cacheVars == <<cache, dirty, buf>>
logVars == <<lh, outstanding, committing, tail>>
procVars == <<pc, wrote, news>>
vars == <<diskVars, boot, cacheVars, logVars, procVars>>

BootStep == {"read_head", "install", "clear", "up"}
PC == {"idle", "asleep", "retry", "op", "modified", "checked", "write_log",
       "write_head", "install", "clear", "done", "panic"}

LogArea == 1 .. (NLOG - 1)

TypeOK ==
    /\ disk \in [Block -> Val]
    /\ logblk \in [LogArea -> Val]
    /\ head \in Seq(Block)
    /\ boot \in BootStep
    /\ cache \in [Block -> Val \cup {Absent}]
    /\ dirty \subseteq Block
    /\ buf \in [Proc -> Block \cup {NoBlock}]
    /\ lh \in Seq(Block)
    /\ outstanding \in Nat
    /\ committing \in BOOLEAN
    /\ tail \in Nat
    /\ pc \in [Proc -> PC]
    /\ wrote \in [Proc -> SUBSET Block]
    /\ news \in [Proc -> Nat]

-----------------------------------------------------------------------------
\* The first boot from a disk that mkfs made.
Init ==
    /\ disk = [b \in Block |-> InitVal]
    /\ logblk = [i \in LogArea |-> InitVal]
    /\ head = << >>
    /\ boot = "read_head"
    /\ cache = [b \in Block |-> Absent]
    /\ dirty = {}
    /\ buf = [p \in Proc |-> NoBlock]
    /\ lh = << >>
    /\ outstanding = 0
    /\ committing = FALSE
    /\ tail = 1
    /\ pc = [p \in Proc |-> "idle"]
    /\ wrote = [p \in Proc |-> {}]
    /\ news = [p \in Proc |-> 0]

\* Contents of b in the buffer that bread(b) returns.
Bread(b) == IF cache[b] = Absent THEN disk[b] ELSE cache[b]

\* No process has b's buffer locked.
Unlocked(b) == \A p \in Proc : buf[p] # b

InHeader(h, b) == \E i \in 1 .. Len(h) : h[i] = b

-----------------------------------------------------------------------------
\* Buffer cache.

\* A call that only reads (fileread, outside any transaction) fills a buffer.
Read(b) ==
    /\ boot = "up"
    /\ cache[b] = Absent
    /\ cache' = [cache EXCEPT ![b] = disk[b]]
    /\ UNCHANGED <<diskVars, boot, dirty, buf, logVars, procVars>>

\* bget() recycles an idle buffer that is not dirty.
Evict(b) ==
    /\ boot = "up"
    /\ cache[b] # Absent
    /\ b \notin dirty
    /\ Unlocked(b)
    /\ cache' = [cache EXCEPT ![b] = Absent]
    /\ UNCHANGED <<diskVars, boot, dirty, buf, logVars, procVars>>

-----------------------------------------------------------------------------
\* File-system calls.

\* Mutant: begin_op() counts the calls in progress and forgets its own.
NoSpaceForOthers == Len(lh) + outstanding * MAXOPBLOCKS > LOGSIZE

\* The test of begin_op(): "this op might exhaust log space".
NoSpace == Len(lh) + (outstanding + 1) * MAXOPBLOCKS > LOGSIZE

\* wakeup(&log): every sleeper runs its loop again.
WakeLog(pcs) == [q \in Proc |-> IF pcs[q] = "asleep" THEN "retry" ELSE pcs[q]]

BeginOpSleep(p) ==
    /\ boot = "up"
    /\ pc[p] \in {"idle", "retry"}
    /\ committing \/ NoSpace
    /\ pc' = [pc EXCEPT ![p] = "asleep"]
    /\ UNCHANGED <<diskVars, boot, cacheVars, logVars, wrote, news>>

\* Mutant: a call may begin while a commit is running.
BeginOpDuringCommit(p) ==
    /\ boot = "up"
    /\ pc[p] \in {"idle", "retry"}
    /\ ~NoSpace
    /\ outstanding' = outstanding + 1
    /\ pc' = [pc EXCEPT ![p] = "op"]
    /\ wrote' = [wrote EXCEPT ![p] = {}]
    /\ news' = [news EXCEPT ![p] = 0]
    /\ UNCHANGED <<diskVars, boot, cacheVars, lh, committing, tail>>

BeginOp(p) ==
    /\ boot = "up"
    /\ pc[p] \in {"idle", "retry"}
    /\ ~committing
    /\ ~NoSpace
    /\ outstanding' = outstanding + 1
    /\ pc' = [pc EXCEPT ![p] = "op"]
    /\ wrote' = [wrote EXCEPT ![p] = {}]
    /\ news' = [news EXCEPT ![p] = 0]
    /\ UNCHANGED <<diskVars, boot, cacheVars, lh, committing, tail>>

\* bread(b), which locks the buffer, and the change to b->data.
Modify(p, b, v) ==
    /\ boot = "up"
    /\ pc[p] = "op"
    /\ Unlocked(b)
    /\ b \in wrote[p] \/ Cardinality(wrote[p]) < OPBLOCKS
    /\ cache' = [cache EXCEPT ![b] = v]
    /\ buf' = [buf EXCEPT ![p] = b]
    /\ pc' = [pc EXCEPT ![p] = "modified"]
    /\ UNCHANGED <<diskVars, boot, dirty, logVars, wrote, news>>

\* log_write(), the tests it makes before it takes log.lock.
LogWriteCheck(p) ==
    /\ boot = "up"
    /\ pc[p] = "modified"
    /\ pc' = [pc EXCEPT ![p] =
                 IF Len(lh) >= LOGSIZE \/ Len(lh) >= NLOG - 1 \/ outstanding < 1
                 THEN "panic" ELSE "checked"]
    /\ UNCHANGED <<diskVars, boot, cacheVars, logVars, wrote, news>>

\* Mutant: log_write() does not set B_DIRTY.
LogWriteUnpinned(p) ==
    /\ boot = "up"
    /\ pc[p] = "checked"
    /\ lh' = IF InHeader(lh, buf[p]) THEN lh ELSE Append(lh, buf[p])
    /\ wrote' = [wrote EXCEPT ![p] = @ \cup {buf[p]}]
    /\ buf' = [buf EXCEPT ![p] = NoBlock]
    /\ pc' = [pc EXCEPT ![p] = "op"]
    /\ UNCHANGED <<diskVars, boot, cache, dirty, outstanding, committing, tail,
                   news>>

\* log_write() under log.lock, then the caller's brelse().
LogWrite(p) ==
    /\ boot = "up"
    /\ pc[p] = "checked"
    /\ LET b == buf[p]
           absorbed == InHeader(lh, b)
       IN  /\ lh' = IF absorbed THEN lh ELSE Append(lh, b)
           /\ news' = [news EXCEPT ![p] = IF absorbed THEN @ ELSE @ + 1]
           /\ dirty' = dirty \cup {b}
           /\ wrote' = [wrote EXCEPT ![p] = @ \cup {b}]
    /\ buf' = [buf EXCEPT ![p] = NoBlock]
    /\ pc' = [pc EXCEPT ![p] = "op"]
    /\ UNCHANGED <<diskVars, boot, cache, outstanding, committing, tail>>

\* end_op() of a call that is not the last one.
EndOp(p) ==
    /\ boot = "up"
    /\ pc[p] = "op"
    /\ outstanding # 1
    /\ outstanding' = outstanding - 1
    /\ pc' = IF committing THEN [pc EXCEPT ![p] = "panic"]
                           ELSE [WakeLog(pc) EXCEPT ![p] = "idle"]
    /\ wrote' = [wrote EXCEPT ![p] = {}]
    /\ news' = [news EXCEPT ![p] = 0]
    /\ UNCHANGED <<diskVars, boot, cacheVars, lh, committing, tail>>

\* Mutant: commit() tests log.lh.n > 1.
EndOpSkipsOne(p) ==
    /\ boot = "up"
    /\ pc[p] = "op"
    /\ outstanding = 1
    /\ outstanding' = 0
    /\ committing' = TRUE
    /\ tail' = 1
    /\ pc' = [pc EXCEPT ![p] = IF Len(lh) > 1 THEN "write_log" ELSE "done"]
    /\ wrote' = [wrote EXCEPT ![p] = {}]
    /\ news' = [news EXCEPT ![p] = 0]
    /\ UNCHANGED <<diskVars, boot, cacheVars, lh>>

\* end_op() of the last call; commit() does nothing when lh is empty.
EndOpCommit(p) ==
    /\ boot = "up"
    /\ pc[p] = "op"
    /\ outstanding = 1
    /\ outstanding' = 0
    /\ committing' = TRUE
    /\ tail' = 1
    /\ pc' = [pc EXCEPT ![p] = CASE committing -> "panic"
                                 [] ~committing /\ Len(lh) > 0 -> "write_log"
                                 [] OTHER -> "done"]
    /\ wrote' = [wrote EXCEPT ![p] = {}]
    /\ news' = [news EXCEPT ![p] = 0]
    /\ UNCHANGED <<diskVars, boot, cacheVars, lh>>

-----------------------------------------------------------------------------
\* commit(), run by the process that ended the last call.

\* One iteration of write_log().
WriteLog(p) ==
    /\ boot = "up"
    /\ pc[p] = "write_log"
    /\ Unlocked(lh[tail])
    /\ logblk' = [logblk EXCEPT ![tail] = Bread(lh[tail])]
    /\ cache' = [cache EXCEPT ![lh[tail]] = Bread(lh[tail])]
    /\ tail' = tail + 1
    /\ pc' = [pc EXCEPT ![p] = IF tail = Len(lh) THEN "write_head" ELSE @]
    /\ UNCHANGED <<disk, head, boot, dirty, buf, lh, outstanding, committing,
                   wrote, news>>

\* write_head(): the commit point.
WriteHead(p) ==
    /\ boot = "up"
    /\ pc[p] = "write_head"
    /\ head' = lh
    /\ tail' = 1
    /\ pc' = [pc EXCEPT ![p] = "install"]
    /\ UNCHANGED <<disk, logblk, boot, cacheVars, lh, outstanding, committing,
                   wrote, news>>

\* One iteration of install_trans(): memmove, then bwrite, which ends with
\* B_DIRTY cleared.
InstallBlock ==
    /\ Unlocked(lh[tail])
    /\ disk' = [disk EXCEPT ![lh[tail]] = logblk[tail]]
    /\ cache' = [cache EXCEPT ![lh[tail]] = logblk[tail]]
    /\ dirty' = dirty \ {lh[tail]}
    /\ tail' = tail + 1

InstallTrans(p) ==
    /\ boot = "up"
    /\ pc[p] = "install"
    /\ InstallBlock
    /\ pc' = [pc EXCEPT ![p] = IF tail = Len(lh) THEN "clear" ELSE @]
    /\ UNCHANGED <<logblk, head, boot, buf, lh, outstanding, committing,
                   wrote, news>>

\* log.lh.n = 0; write_head().
ClearHead(p) ==
    /\ boot = "up"
    /\ pc[p] = "clear"
    /\ lh' = << >>
    /\ head' = << >>
    /\ pc' = [pc EXCEPT ![p] = "done"]
    /\ UNCHANGED <<disk, logblk, boot, cacheVars, outstanding, committing,
                   tail, wrote, news>>

\* Mutant: end_op() does not wake the sleepers after the commit.
EndCommitSilently(p) ==
    /\ boot = "up"
    /\ pc[p] = "done"
    /\ committing' = FALSE
    /\ pc' = [pc EXCEPT ![p] = "idle"]
    /\ UNCHANGED <<diskVars, boot, cacheVars, lh, outstanding, tail, wrote,
                   news>>

\* The last section of end_op().
EndCommit(p) ==
    /\ boot = "up"
    /\ pc[p] = "done"
    /\ committing' = FALSE
    /\ pc' = [WakeLog(pc) EXCEPT ![p] = "idle"]
    /\ UNCHANGED <<diskVars, boot, cacheVars, lh, outstanding, tail, wrote,
                   news>>

-----------------------------------------------------------------------------
\* Power loss, and initlog() at the next boot.

Crash ==
    /\ boot' = "read_head"
    /\ cache' = [b \in Block |-> Absent]
    /\ dirty' = {}
    /\ buf' = [p \in Proc |-> NoBlock]
    /\ lh' = << >>
    /\ outstanding' = 0
    /\ committing' = FALSE
    /\ tail' = 1
    /\ pc' = [p \in Proc |-> "idle"]
    /\ wrote' = [p \in Proc |-> {}]
    /\ news' = [p \in Proc |-> 0]
    /\ UNCHANGED diskVars

ReadHead ==
    /\ boot = "read_head"
    /\ lh' = head
    /\ tail' = 1
    /\ boot' = IF Len(head) > 0 THEN "install" ELSE "clear"
    /\ UNCHANGED <<diskVars, cacheVars, outstanding, committing, procVars>>

RecoverInstall ==
    /\ boot = "install"
    /\ InstallBlock
    /\ boot' = IF tail = Len(lh) THEN "clear" ELSE boot
    /\ UNCHANGED <<logblk, head, buf, lh, outstanding, committing, procVars>>

RecoverClear ==
    /\ boot = "clear"
    /\ lh' = << >>
    /\ head' = << >>
    /\ boot' = "up"
    /\ UNCHANGED <<disk, logblk, cacheVars, outstanding, committing, tail,
                   procVars>>

Recover == ReadHead \/ RecoverInstall \/ RecoverClear

Call(p) ==
    \/ BeginOpSleep(p)
    \/ BeginOp(p)
    \/ \E b \in Block, v \in Val : Modify(p, b, v)
    \/ LogWriteCheck(p)
    \/ LogWrite(p)
    \/ EndOp(p)
    \/ EndOpCommit(p)

Commit(p) ==
    \/ WriteLog(p)
    \/ WriteHead(p)
    \/ InstallTrans(p)
    \/ ClearHead(p)
    \/ EndCommit(p)

Run ==
    \/ \E p \in Proc : Call(p) \/ Commit(p)
    \/ \E b \in Block : Read(b) \/ Evict(b)
    \/ Recover

Next == Run \/ Crash

Spec == Init /\ [][Next]_vars

(***************************************************************************)
(* Fairness, for runs without power loss.  Every call makes finitely many  *)
(* log_writes and then calls end_op(), whatever else it does in between,   *)
(* hence SF; the steps it cannot put off have WF, which the scheduler      *)
(* gives a process that never has to wait.                                 *)
(***************************************************************************)
Fairness ==
    /\ WF_vars(Recover)
    /\ \A p \in Proc : /\ WF_vars(LogWriteCheck(p) \/ LogWrite(p))
                       /\ SF_vars(EndOp(p) \/ EndOpCommit(p))
                       /\ WF_vars(Commit(p))

FairSpec == Init /\ [][Run]_vars /\ Fairness

-----------------------------------------------------------------------------
\* Properties.

\* What running calls see: the buffer if there is one, else the disk.
View == [b \in Block |-> Bread(b)]

\* Position of b in a header.
Pos(h, b) == CHOOSE i \in 1 .. Len(h) : h[i] = b

\* What recover_from_log() would make of the disk if power failed now.
Recovered == [b \in Block |-> IF InHeader(head, b) THEN logblk[Pos(head, b)]
                                                 ELSE disk[b]]

Active == {p \in Proc : pc[p] \in {"op", "modified", "checked"}}

(***************************************************************************)
(* log.c implements an atomic disk: a power loss at any point, also during *)
(* commit() or during a recovery, boots into the last state in which no    *)
(* call was half way ("there is never any reasoning required about whether *)
(* a commit might write an uncommitted system call's updates to disk").    *)
(***************************************************************************)
Atomic == INSTANCE AtomicDisk WITH
    mem <- IF boot = "up" THEN View ELSE Recovered,
    durable <- Recovered,
    active <- Active

AtomicSpec == Atomic!Spec

\* Once the last end_op() has returned, everything the calls wrote survives
\* a power loss, and the log and the cache hold nothing uncommitted.
QuietIsDurable ==
    boot = "up" /\ outstanding = 0 /\ ~committing
        => Recovered = View /\ head = << >> /\ lh = << >> /\ dirty = {}

\* A buffer that bget() may recycle has the contents of the disk, so that
\* evicting it and reading it back loses no write.
EvictableIsClean ==
    \A b \in Block : cache[b] # Absent /\ b \notin dirty /\ Unlocked(b)
                        => cache[b] = disk[b]

\* Space reserved by begin_op() suffices: no panic of log_write() ("too big a
\* transaction", "log_write outside of trans") or end_op() ("log.committing")
\* is reached, and lh never outgrows the log area or its array.
NoPanic ==
    /\ \A p \in Proc : pc[p] # "panic"
    /\ Len(lh) <= NLOG - 1
    /\ Len(lh) <= LOGSIZE

\* No wakeup(&log) is lost: whoever sleeps in begin_op() runs again.
SleeperWakes == \A p \in Proc : pc[p] = "asleep" ~> pc[p] # "asleep"

-----------------------------------------------------------------------------
(***************************************************************************)
(* The inductive invariant behind the safety properties (see LogProofs).   *)
(***************************************************************************)
Injective(h) == \A i, j \in 1 .. Len(h) : h[i] = h[j] => i = j

Committer(p) == pc[p] \in {"write_log", "write_head", "install", "clear", "done"}
Installer(p) == pc[p] \in {"install", "clear"}

\* At most one process is in commit(), log.committing says so, and no call
\* is then between begin_op() and end_op().
CommitAlone ==
    /\ outstanding = Cardinality(Active)
    /\ committing <=> \E p \in Proc : Committer(p)
    /\ \A p, q \in Proc : Committer(p) /\ Committer(q) => p = q
    /\ committing => Active = {}

\* Until recovery ends there is no process, no dirty and no locked buffer.
Rebooting ==
    boot # "up" =>
        /\ \A p \in Proc : pc[p] = "idle"
        /\ dirty = {}
        /\ lh = IF boot = "read_head" THEN << >> ELSE head

\* The buffers that are locked are those being modified.
Locking ==
    /\ \A p \in Proc : buf[p] # NoBlock <=> pc[p] \in {"modified", "checked"}
    /\ \A p, q \in Proc : buf[p] = buf[q] /\ buf[p] # NoBlock => p = q
    /\ \A p \in Proc : buf[p] # NoBlock => cache[buf[p]] # Absent

\* First entry of lh that install_trans() has yet to copy.
Uninstalled == IF \E p \in Proc : Installer(p) THEN tail ELSE 1

\* The dirty buffers are exactly the logged blocks not yet installed.
Pinned ==
    /\ Injective(lh)
    /\ boot = "up" => \A b \in Block :
          b \in dirty <=> \E i \in 1 .. Len(lh) : lh[i] = b /\ i >= Uninstalled
    /\ \A b \in dirty : cache[b] # Absent

\* The header on disk is empty unless the transaction it lists is committed
\* and may still have to be installed.
HeaderValid ==
    /\ Injective(head)
    /\ Len(head) <= NLOG - 1 /\ Len(head) <= LOGSIZE
    /\ boot = "up" => head = IF \E p \in Proc : Installer(p) THEN lh ELSE << >>

\* The log is empty when nobody is in a call or in a commit.
LogOwned ==
    /\ lh # << >> /\ boot = "up" => Active # {} \/ committing
    /\ \A p \in Proc : pc[p] = "done" => lh = << >>

\* How far the copy to the log and the copy to the home blocks have come.
Progress ==
    /\ \A p \in Proc :
        /\ pc[p] \in {"write_log", "install"} => tail \in 1 .. Len(lh)
        /\ pc[p] \in {"write_head", "clear"} => tail = Len(lh) + 1 /\ tail > 1
        /\ pc[p] \in {"write_log", "write_head"} =>
              \A i \in 1 .. Len(lh) : i < tail => logblk[i] = cache[lh[i]]
        /\ Installer(p) => \A i \in 1 .. Len(lh) : logblk[i] = Bread(lh[i])
    /\ boot = "install" => tail \in 1 .. Len(lh)
    /\ boot = "clear" => tail = Len(lh) + 1
    /\ boot \in {"install", "clear"} \/ (\E p \in Proc : Installer(p)) =>
          \A i \in 1 .. Len(lh) : i < tail => disk[lh[i]] = logblk[i]

\* Blocks begin_op() has reserved and the running calls have not used yet.
Unused == {t \in Active \X (1 .. MAXOPBLOCKS) : t[2] > news[t[1]]}

\* The reservation covers the log and all that may still be added to it.
Reserved ==
    /\ boot = "up" => Len(lh) + Cardinality(Unused) <= LOGSIZE
    /\ \A p \in Active :
        /\ IsFiniteSet(wrote[p])
        /\ news[p] <= Cardinality(wrote[p])
        /\ Cardinality(wrote[p]) <= OPBLOCKS
        /\ \A b \in wrote[p] : InHeader(lh, b)
        /\ buf[p] # NoBlock /\ buf[p] \notin wrote[p]
              => Cardinality(wrote[p]) < OPBLOCKS

IInv ==
    /\ TypeOK
    /\ CommitAlone
    /\ Rebooting
    /\ Locking
    /\ Pinned
    /\ HeaderValid
    /\ LogOwned
    /\ Progress
    /\ Reserved
    /\ EvictableIsClean
    /\ NoPanic
=============================================================================
