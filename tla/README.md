# TLA+ models of the xv6 kernel in this repository

The repository is xv6 for x86 (a small multiprocessor Unix kernel in C) with
system calls for VGA video modes, `getch` and drawing added. This directory
holds TLA+ models of the kernel, from the disk driver to the system calls, of
the shell and of the programs that draw, the TLC configurations that check them
on small instances, and TLAPS proofs about the redo log, the process table, the
pipes, the console input, the buffer cache, the memory of processes and the
blocks of files for every instance.

Contents:

1. [Inventory of the system](#1-inventory-of-the-system)
2. [Modules and their correspondence to the code](#2-modules-and-their-correspondence-to-the-code)
3. [Runs, bounds and what they show](#3-runs-bounds-and-what-they-show)
4. [Fairness](#4-fairness)
5. [Proofs](#5-proofs)
6. [What only TLC checks](#6-what-only-tlc-checks)
7. [Disagreements found](#7-disagreements-found)
8. [What is not modelled](#8-what-is-not-modelled)
9. [Plan](#9-plan)
10. [Running the checks](#10-running-the-checks)

## 1. Inventory of the system

| Part | State | Operations | Hard behaviours | What makes it correct |
|---|---|---|---|---|
| Redo log (`log.c`) | `log.lh`, `outstanding`, `committing`; header and log blocks on disk | `begin_op`, `log_write`, `end_op`, `commit`, `recover_from_log` | power loss between any two sector writes, also during recovery; concurrent calls; limits tested outside `log.lock` | file-system calls are atomic across crashes; log space never runs out; nobody sleeps for ever |
| Buffer cache (`bio.c`) | LRU list, `refcnt`, `B_VALID`, `B_DIRTY`, a sleeplock per buffer | `bget`, `bread`, `bwrite`, `brelse` | recycling while another process waits for the buffer | one buffer per block, no lost write, no stale read |
| Disk driver (`ide.c`) | `idequeue` | `iderw`, `idestart`, `ideintr` | requests queued while the disk is busy; read errors | every request is answered, by its own interrupt |
| Sleeplocks (`sleeplock.c`) | `locked`, sleepers | `acquiresleep`, `releasesleep` | wakeup between test and sleep | mutual exclusion, no lost wakeup |
| Inodes (`fs.c`) | inode cache (`ref`, `valid`, copies of `type`, `nlink`), inodes on disk | `ialloc`, `iget`, `idup`, `ilock`, `iunlock`, `iput`, `iupdate` | the last reference and the last link disappear in different processes | references and links are exact, a valid copy is current, freed means unreachable |
| Directories and paths (`fs.c`) | entries | `dirlookup`, `dirlink`, `namex` | locks taken one after the other down the tree; ".." | no entry names a free inode; no deadlock |
| File table and calls (`file.c`, `sysfile.c`) | `ftable`, `ofile`, `cwd` | `open`, `create`, `link`, `unlink`, `mkdir`, `mknod`, `chdir`, `dup`, `close`, `fork`, `exit` | a call fails half way; descriptors shared by `fork` | reference counts agree with descriptors |
| Block allocation, file contents (`fs.c`) | bitmap, block lists | `balloc`, `bfree`, `bmap`, `itrunc`, `readi`, `writei`, `filewrite` | disk full or power lost half way through a write | a block belongs to one file; files hold what was written |
| Pipes (`pipe.c`) | ring buffer with wrapping counters, open flags | `pipewrite`, `piperead`, `pipeclose` | several readers and writers; kill; close in any order | FIFO, end of file only at the end, freed once |
| Processes (`proc.c`, `trap.c`) | `ptable`, the lock passed across context switches | `fork`, `exit`, `wait`, `kill`, `sched`, `scheduler`, `yield`, `sleep`, `wakeup` | a CPU runs a process another CPU has not left; orphans; kill racing sleep | one CPU per stack, every process has a live parent, kills take effect |
| Console input (`console.c`, `kbd.c`) | ring `input` with indices `r`, `w`, `e` | `consoleintr`, `consoleread`, `consoleget` | interrupt edits what readers wait for; wrap-around; full ring | a line discipline: editing stops at the finished line, reading is in order |
| Screen and video modes (`console.c`, `sysvideo.c`) | text memory, cursor, snapshot, `currentvgamode`, pixel planes | `cgaputc`, `consolevgamode`, `setpixel`, fills | mode switches without `cons.lock` while others print; two accesses to the index register of one port pair | text survives a visit to a graphics mode, pictures show what was drawn |
| Memory (`vm.c`, `kalloc.c`) | free list, page tables | `kalloc`, `kfree`, `allocuvm`, `deallocuvm`, `copyuvm`, `freevm` | out of memory half way | a page has one owner and is freed once |
| `exec` (`exec.c`) | new page table beside the old one | `exec` | every failure path | the old image survives a failure, nothing leaks |
| Clock (`trap.c`, `sysproc.c`) | `ticks` | timer interrupt, `sys_sleep`, `sys_uptime` | wrap-around | a sleeper wakes in time |
| System calls (`syscall.c`) | none | `fetchint`, `fetchstr`, `argptr` | boundaries of the address space | arguments lie in the process |
| Spinlocks (`spinlock.c`) | `locked`, `ncli`, `intena` | `acquire`, `release`, `pushcli`, `popcli` | nesting | interrupts are on again exactly when the outermost lock is released |
| Image builder (`mkfs.c`) | image | `ialloc`, `iappend`, `balloc` | sizes at a block boundary | the disk it makes is consistent |
| Shell, init (`sh.c`, `init.c`, `cat.c`, `echo.c`) | descriptors, children | parser, `runcmd`, `main` | pipelines whose processes share descriptors; a full process table | every pipe end is closed, every child waited for, the prompt returns |
| User allocator (`umalloc.c`) | circular free list | `malloc`, `free` | coalescing | blocks do not overlap |
| Start-up, hardware (`main.c`, `mp.c`, `lapic.c`, `ioapic.c`, `uart.c`, ...) | devices | initialisation | none after boot | not a subject here |

How the parts interact: system calls run in processes that the scheduler
switches; every one that touches the file system runs between `begin_op` and
`end_op`, locks inodes one after the other, reads and writes blocks through the
buffer cache, and gives modified buffers to the log, which alone writes them to
the disk. The keyboard and the disk answer through interrupt handlers that wake
sleeping processes, and `kill` wakes anything that sleeps.

`PROJECT.json` lists the same parts as components with their status, and under
"hazards" the places in the code where these behaviours bite.

## 2. Modules and their correspondence to the code

In all modules a step is the section of code between taking a lock and giving
it up, or the access to one shared variable where the code takes no lock. The
constant and variable names are those of the code.

### `Log`, abstract specification `AtomicDisk`

`AtomicDisk` says what the log promises: `mem` is what running calls see,
`durable` what a machine that loses power now would boot into, and `durable`
becomes `mem` only at moments when no call is in progress (`active = {}`).

`Log` translates `log.c`. Its actions are `BeginOpSleep` and `BeginOp`
(`begin_op`), `Modify` (a call changes a buffer it has locked),
`LogWriteCheck` and `LogWrite` (`log_write`, whose limit tests are outside
`log.lock`), `EndOp`, `EndOpCommit`, `EndCommit` (`end_op`), `WriteLog`,
`WriteHead`, `InstallTrans`, `ClearHead` (`commit`, one step per sector),
`ReadHead`, `RecoverInstall`, `RecoverClear` (`recover_from_log`), `Read` and
`Evict` (what `bread` and `bget` do to blocks that no call holds) and `Crash`,
which keeps nothing but the disk. The history variables `wrote` and `news`
record which blocks a call has logged.

`AtomicSpec` is `AtomicDisk` under the mapping `durable <- Recovered` (the home
blocks with the transaction of the on-disk header applied) and
`mem <- View` (the cache over the disk).

### `Bio`, abstract specification `BlockStore`

The buffer cache, the sleeplock of each buffer and the IDE queue together.
`BgetHit`, `BgetMiss`, `Acquiresleep`, `Bread`, `Bwrite`, `LogWrite` (the log
sets `B_DIRTY` and keeps the buffer), `BrelseUnlock`, `Brelse`, `Iderw`,
`IderwWoken`, `Ideintr`. A process may keep one buffer locked and read another
(`Keep`, then `Back` or `Swap`; `held` and `heldblk`), as `write_log` and
`install_trans` do with a block of the log and its home block, `bmap` and
`itrunc` with an indirect block and a bitmap block; `InOrder` says which blocks
these callers read in which order. `bget` panics when every buffer is in use or
dirty, and stops its process. The list of buffers is a function from positions to
buffers that has every buffer (`ListOfBuf`); `MoveToFront` is what `brelse` does
to it. The disk executes the command given to it by `idestart` and is external.
`BlockStore` is one lockable value per block.

### `Files`

The inode cache, directories, the file table and the system calls on them. A call
is a stack `todo[p]` of functions still to be executed; a step is what a process
does between taking and releasing the lock of one inode. This keeps each place
where another process may intervene: between the elements of a path, between the
three parts of `iput` (test and free, release of the lock, decrement), between
`create`'s lock of the parent and that of the new inode, between the removal of
an entry and that of its link. The last element of a path may be `.` or `..`.
`panicked` is set where the code calls `panic`. Two histories record what the
code does not prevent: `strayed` the removed directories that are given an entry,
with the entry's inode, and `dangled` that the `..` of a removed directory was
looked up after its parent had been removed too. The cache is indexed by inode
number, because `iget` never has two entries with references for one inode.
Contents, sizes and blocks of files are the subject of `Blocks`, transactions
that of `Log`.

### `Proc`

The process table with one scheduler per CPU. The holder of `ptable.lock` is a
CPU and the lock is passed across context switches as in the code. `frame[p]`
is the call of `sched` that a process has to return from, `kpc[p]` its place in
the kernel, `np[p]` the slot its `fork` is filling. `Allocproc`, `ForkFail`,
`ForkCopy` and `ForkRun` are the parts of `fork`, of which some run without the
lock. The loops over the table stop at the first slot that will do (`First`).
Whether memory allocation succeeds is a choice. The tests at the head of `sched`
that would panic are not repeated in its step: its callers have changed the state
of the process, and `StackHasOneCpu` says that they hold `ptable.lock`.

### `Pipe`, abstract specification `Fifo`

One pipe, its readers and writers, `kill`, and the closing of descriptors.
`nread` and `nwrite` wrap around at `UINT`. The test of `killed` and the sleep
are two steps, since `kill` does not take the pipe's lock. `got` is the byte that
`piperead` copied last to its caller; `Fifo` has it as `out`, so that the
refinement is about what readers are given and not only about the queue.

### `Console`, abstract specification `Tty`

The input ring. `IntrChar`, `IntrErase`, `IntrKillLine`, `IntrIgnore` are the
cases of `consoleintr`; `ReadWait`, `Sleep`, `ReadEof`, `ReadChar`, `ReadReturn`
the parts of `consoleread`; `GetchAcquire`, `GetchSkip`, `GetchReturn` the loop
of `consoleget`, which takes results of `kbdgetc` away from the interrupt
handler while it holds `cons.lock`. `Tty` has an edited line, the finished
characters, and what each read has got; the mapping cuts the ring at `r`, `w`
and `e`. The echo is left out: nothing in the ring depends on the screen.

### `Memory`

Physical pages and address spaces. The loops of `allocuvm` and `copyuvm` are
interleaved with the calls of other processes, which meet on the free list only.
A turn of a loop is two steps: `AllocPage` or `CopyPage` takes a page and fills
it (`mem`, the page in hand), `MapPage` enters it in the page table, for which it
may need a page-table page. `OutOfMemory` is the failure of either allocation,
and what is in hand then has to be freed too. `Setupkvm` takes the directory and
then one page table of the kernel after the other, and fails between any two.
`SbrkGrow`, `SbrkShrink` and their ends are `growproc`; `Fork...` is `fork` with
`allocproc` and `copyuvm`; `Exec...`,
`Segment...` and `Stack...` are the parts of `exec`, each with its jump to `bad`;
`Wait` frees what a zombie had. `fetchint`, `fetchstr` and `argptr` are operators
on addresses that wrap around at `UINT`. `kfree` leaves junk in a page, so that a
page that is not cleared can be told from one that is. Which free page `kalloc`
returns is of no account, and the run identifies states that differ in the names
of pages only (`View` in `MCMemory`).

### `Blocks`

Block allocation and the contents of files. `MkfsFile`, `MkfsCopy` and
`MkfsFinish` build the image as `mkfs.c` does; then processes open files, read,
write and remove them. `WriteBegin`, `WriteChunk`, `WriteBlock` and `WriteDone`
are the loop of `filewrite` and, one block at a time, that of `writei` with
`bmap` and `balloc`; `TruncDirect`, `TruncIndirect` and `TruncDone` are `itrunc`
in `iput`, after which `UnlinkDone` ends the transaction. A unit of data is as
large as a block number, so that an indirect block is a block like any other and
a block that was data can turn up as one. The log is taken at its word
(`AtomicDisk`): `disk` is what calls see, `durable` what a crash brings back.
`want` and `dwant` record what the files should hold.

`UPROGS` is the set of numbers of files that the image may have.
`BlocksAssumption` excludes those with which the entries of the root directory fill
its last block: `mkfs.c:160` rounds the size up by a whole block even then, and a
lookup in the missing block would make `bmap` allocate outside of a transaction.
The Makefile puts 19 files in the image; a block has room for 30 beside `.` and
`..`, and 30 would fill it.

### `Screen`

The text screen, the two graphics modes that share its memory, and the drawing
calls. Video memory is four planes of bytes; the tables of register values are
represented by what they select (which planes a write reaches, which plane is
read, how addresses map to planes, which window is open), and the adapter is
external (`Place`, `Poke`, `Peek`, `TextPlanes`). `Echo` and `Write` are output
under `cons.lock`; `VideoMode`, `TakeCursor`, `GraphicsRegisters`,
`TextRegisters`, `WriteFont`, `FontDone`, `SnapshotTextRestore`, `RestoreCursor`
and `SetMode` are the parts of `consolevgamode`, which holds no lock; `SetPixel`,
`PixelPlane`, `PixelRead` and `PixelWrite` those of `setpixel`. The cursor is
read and written as two halves through an index register that both sides use:
while a mode change is at these ports, output may read or write a position whose
halves are mixed up (`misread`, `mixed`), and the reverse. `term` is the screen
of a terminal without graphics, `picture` what was drawn; `clash`, `raced` and
`overlap` record that accesses met, `intext` which calls meant for graphics modes
a program made in text mode. Pixels may be off the screen, as some of
`cutinto4.c` are, but not beyond the video memory and the ROM behind it
(`PixelAssumption`, `LOWMEM`): `sys_setspecificpixel` checks neither coordinate.
`PixelRead` takes the byte of the pixel only: the `memmove` of eight bytes into
an `int` (`console.c:1054`) overwrites a part of the stack frame that is not used
in the build of the repository (`kernel.asm`). Programs are sequences of system
calls, which may end, or be killed, without setting the text mode again, with
`DrawLine` of `draw.c` as a function that `MCScreen` compares with its
definition.

### `ShParse`, `Shell`

`ShParse` is the parser of `sh.c` on tokens, one operator per parsing function;
`MCShell` compares it with the grammar: what it accepts can be written out again
and is parsed to the same command, for all lines of up to five tokens. `Shell`
has `main` of `init.c` and of `sh.c`, one action per case of `runcmd` (several
where it makes more than one system call that others can see), and `echo` and
`cat`. The kernel is reduced to tables of processes, descriptors, open files and
pipes that can run out; of data only the amount counts. `write` fails on a pipe
without readers only when the pipe is full, and `open` for an output creates the
file before it finds that no open file is left. The meaning of a command
(`Meaning`) is defined on the syntax tree, without processes. Peculiarities of
the shell that the model keeps: `>>` is `>`, neither truncates, of two
redirections of one descriptor the first one listed has the last word, and
`a & b` is a syntax error.

### MC modules

`MCLog`, `MCBio`, `MCFiles`, `MCProc`, `MCPipe`, `MCConsole`, `MCMemory`,
`MCBlocks`, `MCScreen` and `MCShell` define symmetry sets and views, the calls,
programs and command lines of the runs, and the assumptions that compare pure
algorithms with their definitions.

## 3. Runs, bounds and what they show

| Run | Instance | Properties | Shows |
|---|---|---|---|
| `LogCrash` | 2 processes, 3 blocks, 2 contents | `QuietIsDurable`, `EvictableIsClean`, `AtomicSpec` | a power loss at any step boots into a state between calls; what a finished group wrote is durable; a buffer that may be recycled agrees with the disk |
| `LogRoom` | 3 processes, room for 2, 3 blocks, `LOGSIZE = NLOG` | `NoPanic`, `SleeperWakes` | the reservation suffices in spite of the unlocked test; no wakeup of the log is lost |
| `BioCache` | 3 processes, 3 blocks (one of the log, one indirect), 2 buffers | `HolderHasBlock`, `SleepersWillWake`, `NoBufferDeadlock`, `BlockStoreSpec` | cache, locks and queue are one lockable value per block; processes that use two buffers do not wait in a circle |
| `FilesTree` | 2 processes, directories `/d` and `/d/e`, 6 inodes, 2 files, 4 calls from a set of 12 and close, dup, fork, exit, read | `NoPanic`, `ValidIsCurrent`, `RefsAreExact`, `LinksAreExact`, `OnlyIputDeadlocks` | counts are exact and copies current under every interleaving of the inode locks; the lock order fails in one way only |
| `BlocksCrash` | 2 processes, 2 open files, 3 inodes, 17 blocks, 4 calls, 1 crash | `BlocksAreAccounted`, `ContentsAsWritten`, `CrashSafe`, `NoPanic` | blocks are neither leaked nor shared, files hold what was written, also after a crash or on a full disk, and a transaction fits in the log |
| `MemorySafe` | 2 processes, 20 pages, 7 user pages each, 2 pipes | `PageHasOneOwner`, `NoPanic`, `ArgsAreMapped`, `OthersKeepTheirImage` | every failure for want of memory gives back what it took; a failing call leaves the process as it was; what the argument checks accept is mapped |
| `ProcTable` | 2 CPUs, 4 slots, 4 pids | `StackHasOneCpu`, `TableIsSound`, `SleeperWaits` | stacks, slots and parents are safe; no wakeup between `exit`, `kill` and `wait` is lost |
| `ProcLive` | 1 CPU, 3 slots, 4 pids | `KilledExits`, `OrphanReaped` | kills take effect, init reaps |
| `PipeSafe` | 2 readers, 2 writers, 2 bytes, counters modulo 4 | `SleepersHaveReason`, `FreedIsUnused`, `FifoSpec` | the pipe is a FIFO with correct end of file |
| `ConsoleInput` | 2 processes, ring of 2, indices modulo 4, 2 pending keys | `SleepersHaveNothing`, `TtySpec` | the ring is a line discipline and no reader is forgotten |
| `ScreenText` | 2 processes, a screen of 3 lines of 2, 7 programs of which 3 run, 2 keys | `NoPanic`, `NothingLost`, `LegibleAtRest`, `PictureIsDrawn` | text survives pictures and pictures text; what is lost is what meets an unlocked mode change or a call in the wrong mode |
| `ShellRuns` | 5 processes, 6 open files, pipes of 1 unit, 2 lines from a set of 9 | `ProgramHasThreeFiles`, `NoStrays`, `LineDoesWhatItSays`, `PromptReturns` | a line does what it says under every schedule and leaves nothing behind; the prompt returns |

The type invariant of each module (`TypeOK`) is a conjunct of one of these
invariants; that of `Log` is proved (`TypeCorrect`).

Why the bounds are enough for the cases that matter:

- `LogCrash`: with three blocks and two contents a transaction can be cut after
  none, some and all of its sectors, a block can be absorbed (logged twice), and
  one group can overwrite what the previous one installed. `OPBLOCKS = 2` lets
  two calls share a transaction.
- `LogRoom`: two calls reserve the whole log and a third has to wait; three calls
  of one block each would fill the log area, so that a reservation that is one
  too small shows. Contents do not matter there, so there is one. The log is
  `LOGSIZE` blocks long with its header, as `mkfs` makes it, and calls stay one
  block below `MAXOPBLOCKS`.
- `BioCache`: three blocks compete for two buffers, of which the log pins one,
  so that recycling, waiting for a recycled buffer and running out all occur; with
  a block of each rank every order in which two are kept occurs, and three
  processes are what it takes for two to wait for one that waits.
- `FilesTree`: one process can create, link, enter or remove what the other is
  looking up; four calls are enough for a directory to be entered and removed
  with its parent while a file is linked into it. States that differ in cache
  entries without references, or in what the last call of an idle process
  returned, count as one (`View` in `MCFiles`): neither is read again. `NINODES`
  and `NINODE` are as large as these calls can use, since the code panics when
  they run out.
- `ProcTable`: four slots hold init, a parent, its child and its grandchild, so
  that orphans of live and of dead processes occur; two CPUs are what it takes
  for one to run what the other has not left. `MaxPid` bounds the forks.
  States that differ only in the history `named` or in the loop variable of an
  idle CPU count as one (`View` in `MCProc`): no step depends on these, nor any
  property of the run but `TypeOK`, which is proved (`TableStaysSound`).
- `PipeSafe` and `ConsoleInput`: `UINT` is twice the buffer, the smallest number
  for which full and empty differ, so the counters wrap around after few steps
  and every phase of the counters against the buffer is reached.
- `BlocksCrash`: a file has one direct block and an indirect one for two more,
  a block two units: writes of one and four units start and end within and at the
  ends of blocks and take several transactions. The image takes so many blocks
  that some disks are full after one write. Four calls let a block be written,
  freed and used again in another role; the crash can be anywhere.
- `MemorySafe`: twenty pages are not enough for two processes at their largest,
  so that every allocation, of a page, of a page table for it and of the second of
  the kernel's two tables, fails in some state; one of the programs has a segment
  that is longer in the file than in memory, which `exec` must refuse. Addresses
  wrap around at 28 units, and all of them are tried as arguments.
- `ScreenText`: the screen scrolls with the third line; lines that are drawn
  cross and change plane and byte, and some pixels are off the screen; one
  program ends in a graphics mode and two make calls without setting one; three
  programs one after the other can leave the screen to the next in every order,
  and two of the small one overlap. Keys are not typed after programs have
  overlapped (`MaxKeysTogether`), since output is already claimed to be right
  only before that.
- `ShellRuns`: two pipelines, or a pipeline and background processes, do not fit
  in five slots, and three pipes at a time not in six open files. `PIPESIZE` is 1,
  so that writers wait; two lines let the second meet the background processes of
  the first.

Deadlock is checked except where the system may stop: in `BioCache`, `FilesTree`,
`BlocksCrash`, `MemorySafe`, `ScreenText` and `ShellRuns` the number of calls,
programs or lines is bounded, or the machine may panic, and behaviours end; in
`PipeSafe` all ends may be closed.

Symmetry is used only where no property distinguishes the members of the set
and the run checks no liveness property. The view of `MemorySafe` forgets the
names of pages, which no property distinguishes; it keeps whether
`PageHasOneOwner` holds, since only then does the rest determine what follows.

Every property of a passing run has a mutant: a changed definition (a dropped
guard, an off-by-one, a forgotten wakeup) placed before the original under the
comment "Mutant", with which TLC finds the property violated.

## 4. Fairness

- `Log!Fairness` (run `LogRoom`, no power loss): weak fairness for the steps
  that a process in `log_write`, `commit` or recovery takes without waiting for
  anything, strong fairness for `end_op` because a call may modify blocks many
  times but ends after finitely many. There is none for starting a call.
- `Proc!Fairness` (run `ProcLive`, one CPU): the scheduler scans round robin; a
  process that is switched to gets on with its kernel code (strong fairness,
  because it may be preempted in between); the timer interrupts user code; init
  calls `wait` again and again, as `init.c` does. On several CPUs `acquire` is a
  spin without fairness, so no liveness is claimed there.
- `Shell!Fairness` (run `ShellRuns`): weak fairness for each process, init
  included, that can take a step, which the scheduler's round robin gives it.
  Nobody has to type a line.
- The other modules state safety only; that nobody sleeps for nothing is stated
  as an invariant (`SleepersWillWake`, `SleepersHaveReason`,
  `SleepersHaveNothing`, `SleeperWaits`), which needs no fairness.

## 5. Proofs

The theorems hold for every value of the constants that satisfies the assumption
of the module (`LogAssumption`, `ProcAssumption`, `PipeAssumption`,
`ConsoleAssumption`, `BioAssumption`, `MemoryAssumption`, `BlocksAssumption`): any
finite set of processes or CPUs, any table, log, cache, memory, disk and buffer
size, any contents and any program headers. The assumptions give the constants
their types, and say of some what `param.h`, `fs.h`, `mmu.h` and `mkfs.c` satisfy:

- `Memory`: user memory is a whole number of pages and more than one, and physical
  memory has room for the first process.
- `Pipe` and `Console`: the counters are wider than the buffer and wrap around at a
  multiple of its size, as 2^32 does for `PIPESIZE` 512 and `INPUT_BUF` 128.
- `Blocks`: a block holds more than one directory entry; `MAXOPBLOCKS` is more than
  5, below which a chunk of `filewrite` would have no block; the bitmap has fewer
  than `MAXOPBLOCKS` blocks, so that `itrunc` fits into a transaction (one block
  for `FSSIZE` 1000); the image leaves a block of the disk free; and with none of
  the numbers of files in `UPROGS` do the entries of the root directory end at the
  end of a block (section 2).
- `Bio`: nothing on sizes; the blocks of the log and the indirect blocks are
  different ones.

What a theorem needs beyond that is a hypothesis in its statement.

| Module | Theorem | States | Hypothesis |
|---|---|---|---|
| `LogProofs` | `LogInvariant` | `Spec => []IInv` | `FootprintFits` |
| | `TypeCorrect` | `Spec => []TypeOK` | `FootprintFits` |
| | `NeverPanics` | `Spec => []NoPanic` | `FootprintFits` |
| | `EvictionIsSafe` | `Spec => []EvictableIsClean` | `FootprintFits` |
| | `DurableWhenQuiet` | `Spec => []QuietIsDurable` | `FootprintFits` |
| | `LogImplementsAtomicDisk` | `Spec => AtomicSpec` | `FootprintFits` |
| `ProcProofs` | `ProcInvariant` | `Spec => []IInv` | |
| | `OneCpuPerStack` | `Spec => []StackHasOneCpu` | |
| | `TableStaysSound` | `Spec => []TableIsSound` | |
| | `NoLostWakeup` | `Spec => []SleeperWaits` | |
| `PipeProofs` | `PipeInvariant` | `Spec => []IInv` | |
| | `FreedOnce` | `Spec => []FreedIsUnused` | |
| | `PipeIsFifo` | `Spec => FifoSpec` | |
| | `NoLostWakeup` | `Spec => []SleepersHaveReason` | `NoKilledWriter` |
| `ConsoleProofs` | `ConsoleInvariant` | `Spec => []IInv` | |
| | `NoLostWakeup` | `Spec => []SleepersHaveNothing` | |
| | `ConsoleIsTty` | `Spec => TtySpec` | |
| `BioProofs` | `BioInvariant` | `Spec => []IInv` | |
| | `HolderKeepsBlock` | `Spec => []HolderHasBlock` | |
| | `NoLostWakeup` | `Spec => []SleepersWillWake` | |
| | `BuffersDoNotDeadlock` | `Spec => []NoBufferDeadlock` | |
| | `CacheIsBlockStore` | `Spec => BlockStoreSpec` | `~DiskErrors` |
| `MemoryProofs` | `MemoryInvariant` | `Spec => []IInv` | |
| | `VmNeverPanics` | `Spec => []NoPanic` | |
| | `PagesOwnedOnce` | `Spec => []PageHasOneOwner` | |
| | `ArgumentsMapped` | `Spec => []ArgsAreMapped` | |
| | `ImagesKept` | `Spec => OthersKeepTheirImage` | |
| `BlocksProofs` | `BlocksInvariant` | `Spec => []IInv` | |
| | `BlocksAccounted` | `Spec => []BlocksAreAccounted` | |
| | `FilesAsWritten` | `Spec => []ContentsAsWritten` | |
| | `DiskCrashSafe` | `Spec => []CrashSafe` | |
| | `BlocksNeverPanic` | `Spec => []NoPanic` | |

The three hypotheses are each the other side of a disagreement of section 7:

- `FootprintFits` (`LogProofs`): a call writes fewer blocks than begin_op
  reserves, `OPBLOCKS < MAXOPBLOCKS` and
  `LOGSIZE + OPBLOCKS + 2 <= NLOG + MAXOPBLOCKS`. With `param.h` and `mkfs.c`
  (10, 30, 30) this allows up to 8 blocks a call. It is not an assumption of the
  module because the documented limit (`MAXOPBLOCKS`) does not satisfy it.
- `NoKilledWriter`: a killed writer gives up on a full pipe without a wakeup.
- `~DiskErrors`: `ideintr` marks a buffer valid after a read that failed. The
  invariants of `Bio` are proved with such errors, the refinement without.

In every module the properties are not inductive as they stand. The proof has an
inductive invariant `IInv`, one lemma per action (`Step...`) in which each
conjunct that the action can disturb is a step of its own, a lemma `NextIInv` that
combines them, and the theorems that follow. TLC has checked each `IInv` on the
instances of section 3.

### The log

`NoPanic` needs to know that
the log has room when `log_write` has passed its unlocked test: `Reserved` says
that what is in the log plus what the running calls may still add (a set of
pairs, so that its size changes by one with each step) is at most `LOGSIZE`.
`AtomicSpec` needs to know what recovery would do at each point of a commit:
`HeaderValid` says that the header is empty unless a commit has passed
`write_head`, `Progress` how far the copies to the log and to the home blocks
have come, `Pinned` that the dirty buffers are exactly the logged blocks not yet
installed, so that nothing else differs between cache and disk
(`EvictableIsClean`). `CommitAlone` says that `outstanding` counts the running
calls and that there are none during a commit, `LogOwned` that the log is empty
when there is neither, `Locking` which buffers are locked and `Rebooting` what
recovery may rely on.

For the refinement `CallRefines`, `CommitRefines` and `RecoverRefines` show that
each step is a step of `AtomicDisk` or leaves `View`, `Recovered` and `Active`
alone; the only step of a commit that shows is `write_head`, and no step of
recovery does.

### The process table

`StackHasOneCpu` rests on `Stacks`: a CPU that is in `sched` holds `ptable.lock`,
one that is not is in a process that is RUNNING, and no two are in the same
process; so who takes the lock and finds a process RUNNABLE or a ZOMBIE knows
that its stack has been left. `Places` says which call of `sched` a process in a
given state returns to; without it a process could wake up inside `wait` that
never went to sleep there. `Forks` ties the slot that a `fork` fills to the parent
that fills it, through the parts that run without the lock. `Orphans` says that a
slot without a process has no parent and that init is always alive, which is what
`exit` needs to hand its children over. `HasLiveParent` and `SleeperWaits` are
inductive only together: a sleeping parent has no zombie child because an exiting
child wakes the parent it has at that moment, and that is the parent, alive, that
the table says.

### The ring buffers

`PipeProofs` and `ConsoleProofs` begin with the same lemmas on rings: remainders
(`ModUnique` to `ModApart`), the distance between two wrapping counters
(`Distance`, `Ahead`, `Increment`), and what a window of a ring is as a sequence
when a counter moves or an element is stored (`RingAppend`, `RingTail`).
`ConsoleProofs` adds those for a counter that moves back (`Decrement`,
`RingFront`) and for windows that follow each other (`RingConcat`). They turn
`nwrite == nread + PIPESIZE` and `data[nread++ % PIPESIZE]` of the code into
statements about `Append`, `Head` and `Tail`, for every width of the counters.

In `Pipe` the invariant says who holds `p->lock` (`Locking`), that the flag of an
end is cleared only after its last descriptor has gone (`Closing`), and that a
read begins to copy only when there is a byte or no writer (`Copying`); the last
is why 0 means end of file. For the lost wakeup `Waiting` is added: a reader
sleeps on an empty pipe, or a writer that will wake it holds the lock.

In `Console` the three indices follow each other within one turn of the ring; a
character that is stored, erased, finished or read changes the windows from `r` to
`w` and from `w` to `e` the way `Tty` changes its two sequences.

### The buffer cache

`HolderHasBlock` says that a buffer is not recycled under its user. It needs
`Counted` (`refcnt` is the number of processes between `bget` and `brelse`, which
is a cardinality, not a flag), `OneBuffer` (a block has one buffer, which both
scans of `bget` together ensure) and `Locked` (the owner of the sleeplock is a
process that is inside). `SleepersWillWake` needs `Queue`: `idequeue` holds each
buffer once, exactly those whose process sleeps in `iderw`, and the command the
disk executes is the one for the first; that in turn needs `Flags`, since a
process that is woken must find its transfer done and not sleep again without a
request. `NoBufferDeadlock` is an argument on the order of locks: `HeldBlock` says
that a process which keeps a buffer and waits for another waits for a block of a
higher rank (a block of the log, an indirect block, any other); in a set of
processes that all wait for each other each keeps the block that another one
waits for, and the ranks would rise without end among the three there are.

For the refinement `Current` says that a buffer that is valid and clean agrees
with the disk, so that it may be forgotten (`RecycleKeepsBlocks`); `ideintr` moves
data in the direction that leaves the value of the block alone
(`IdeintrKeepsBlocks`); `acquiresleep`, `releasesleep` and the two writes are the
steps of `BlockStore`.

### The memory of processes

`ArgsAreMapped` is about a process between two calls; `Layout` says what is mapped
at every other point: the loop of `allocuvm` or `copyuvm` stands at the page after
the mapped ones (`Loop`), from the old size in `sbrk` and from 0 in `fork` and
`exec`, so `remap` cannot happen, a failing `sbrk` takes away exactly what it
added, and `loaduvm` and `copyuvm` find the pages they read. A process that has
called `sbrk` with minus its size is the exception that `Runs` and, for its image,
`Emptied` name. A sum that
wraps around passes the test of `fetchint` or `argptr` only if the address alone is
beyond the size, which the other test refuses.

`PageHasOneOwner` is about the set of uses of a page. It follows from three
facts: the pages of one process are distinct, inside an address space (`SpaceOK`)
and between the two spaces, the kernel stack and the page in hand that is not
mapped yet (`Apart`); processes and pipes share none, and a page is free exactly
when nobody has it (`Parted`). These are inductive with `Kids`: the EMBRYO that a
failing `fork` frees is its own. `Parted` is stated over the function from
processes to their pages, so that each action shows only how that function
changes (a page is added, a set is removed, a set moves from one process to
another) and `PartTake`, `PartFree` and `PartMove` do the rest. `Filled` says
that no entry leads to junk, that what `copyuvm` has copied so far is the
parent's (`Copied`), which the parent cannot change while it is in `fork`, that
what `sbrk` has added is zero (`Zeroed`), and that the page in hand has what the
loop has to map next (`Due`). `OthersKeepTheirImage` says of every step which of
the six ways to change a memory it is, if any; it follows from `Filled` and from
`Parted`.

### The blocks of files

`BlocksAreAccounted` counts the places that name a block. `Named` says the same
without numbers, over the function `Held` from inodes and entries (direct blocks,
the indirect block, what it lists) to blocks: every entry is marked (`Marked`), no
block is named twice (`Once`), and every marked block is named (`NoLeak`). The
entries are those of the inode in memory, since `bmap` and `itrunc` change it
before `iupdate` writes it; while `itrunc` has freed what the indirect block lists
and not yet the block itself, its list does not count (`Gone`). An allocation
changes one entry (`Extends`), a write none (`DataKeeps`), and a step of `itrunc`
removes those of one inode (`NamedRemove`). `BlocksSteps` has the lemmas on `bmap`
and `writei`, the invariant and the steps of `open`, `close`, `fileread` and
`filewrite` up to its last block, and the first of `unlink`; `BlocksProofs` has the
end of a write, `itrunc`, a crash, `mkfs` and the theorems. A lemma that serves one
other is a named step of it (`<1>MapBoth` of `Bmap`).

That a block of one file is no block of another is also why the contents of files
are independent: `Kept` says that what one call allocates, zeroes, enters in an
indirect block or stores leaves the units of all other files alone. It needs
`Named`, because a number in an indirect block is data like any other.

`ContentsAsWritten` is about files nobody has locked. For one that is being
written `Writing` says what the call has done so far: up to `off + tot` the new
units, elsewhere those from before, and the inode in memory still has the size of
the one on disk (`iupdate` comes at the end, and only if the file grew; until then
the blocks that were allocated are beyond the size). `CrashSafe` is the same
statement of the durable disk: it changes only when the last call in a transaction
ends, and then no inode is locked (`Quiet`), so that every file holds what was
written. A panic of `balloc` leaves the durable disk as it is.

`NoPanic` bounds what a call has logged: each block that `writei` has begun adds
at most itself and its bitmap block (`Counted`), except for the indirect block
and its bitmap block, which are counted once; a chunk of `max` units touches one
block more than it fills. `bmap` never allocates in `readi`, since a file has all
blocks below its size (`Present`); this holds for the image as well, where the
root directory has an entry for each inode in use (`Image`) and `mkfs` rounds its
size up within a block that is there, by the assumption on `UPROGS`, and whose
rest is zero. The last step of `itrunc` leaves the call between `iput` and
`end_op`, where it holds nothing but its place in the transaction (`IdleCall`).

## 6. What only TLC checks

- `Files`: `RefsAreExact` and `LinksAreExact` count over what is left of every call
  (`todo`, a sequence of steps for each process); its invariants have no proof.
- `Shell`: it reaches the recursive operators of `ShParse`.
- `Screen` and `ShParse`: drawing and parsing are recursive over a line, which the
  prover cannot do induction over.
- Liveness (`SleeperWakes`, `KilledExits`, `OrphanReaped`, `PromptReturns`): the
  prover has no rules for fairness and `ENABLED`.
- `FilesDeadlock.cfg`, `FilesLeak.cfg`, `FilesDotdot.cfg` and `ProcKill.cfg` look
  for counterexamples (section 7).

## 7. Disagreements found

Four statements of the code, its tests or its assertions do not hold. They are
properties of the modules, each with a configuration on which TLC finds them
violated; these are not among the runs of section 3.

- `tlc -config FilesDeadlock.cfg MCFiles` (`NoDeadlock`): `create` and
  `sys_unlink` put the parent directory while they hold the lock of the entry's
  inode (`sysfile.c:285`, `:232`), and `iput` takes the directory's lock again
  (`fs.c:317`). Another `unlink` that holds the directory and waits for the inode
  deadlocks with them. The test `linkunlink` (`usertests.c:850-851`) runs these
  calls "to look for deadlocks". `dirlink`, too, puts the inode it finds while the
  directory is locked (`fs.c:537`): for the name `.` that is the directory itself,
  and a process that links `x` as `d/.` waits for itself. `OnlyIputDeadlocks` in
  `FilesTree` shows that there is no deadlock without such an `iput`.
- `tlc -config FilesLeak.cfg MCFiles` (`UnlinkedIsFreed`): `iput` reads the
  reference count and decrements it under different holds of `icache.lock`
  (`fs.c:319-334`). Two processes that put the last two references of an unlinked
  file both see two, and neither frees it, although `fs.c:312-313` says "If that
  was the last reference and the inode has no links to it, free the inode".
- `tlc -config FilesDotdot.cfg MCFiles` (`NeverPanics`): a removed directory keeps
  its `..` entry. When the parent is removed and freed too, a process that is still
  in the directory and looks up `..` gets the number of an inode that is free, and
  `ilock` panics ("ilock: no type", `fs.c:295`) or, if the number has been used
  again, finds another file. `NoPanic` of `FilesTree` leaves out this case only
  (`dangled`).
- `tlc -config ProcKill.cfg MCProc` (`KilledWasNamed`): `kill` ("Kill the process
  with the given pid.", `proc.c:469`) marks any slot with a matching pid, a slot
  of a failed `fork` keeps its pid and the mark, and `allocproc` does not clear
  it: the next process in the slot is killed though nobody named it.

Others are kept out of the properties by a condition that names them:

- `log_write` panics one block before the space `begin_op` grants is used up
  (`FootprintFits`);
- a killed writer leaves a pipe full without waking readers (`PipeSafe` kills
  readers only);
- `ideintr` marks a buffer valid after a failed read (`BioCache` has no read
  errors);
- `bget` panics when all buffers are in use or dirty; `NBUF` is no more than
  `LOGSIZE`, so that dirty blocks of the log and the buffers in use together can be
  as many (the step is in `Bio`, no property excludes it);
- a file made in a directory that another process has removed since the path was
  looked up can be reached by nobody (`strayed` in `Files`);
- output that meets the copying of the screen is lost, and output or another mode
  change that meets the cursor registers can put the cursor off the screen, after
  which `cgaputc` panics (`raced` and `clash` in `Screen`);
- `setpixel` adds the bit of a pixel instead of or-ing it, so that a pixel that is
  drawn twice in mode 12h changes its neighbours (`picture.twice` in `Screen`);
- `videomodetext` called in text mode replaces the screen by the last snapshot and
  may leave output in the font, `clearscreen13h` clears the screen, and
  `clearscreen12h` traps (`intext` in `Screen`);
- a pixel far enough off the screen is in the memory of the kernel
  (`PixelAssumption` in `Screen`);
- `sbrk` of minus the whole size frees the memory, then reports failure and keeps
  the size (`Runs` and `Emptied` in `Memory`);
- `mkfs` gives the root directory a block too many when its entries fill the last
  one (`UPROGS` in `Blocks`);
- `init` gives up when its `fork` fails, which happens if background processes
  take the slot of a shell that has exited (`panicked` in `PromptReturns`).

## 8. What is not modelled

- Contents that no property tells apart: bytes of programs, formatting of output,
  the characters of names and command lines, key maps, fonts, register values.
- `sys_sleep`, `sys_uptime` and the tick counter: a loop on one counter on which
  nothing else depends.
- `pushcli` and `popcli`: a section under a spinlock is one step, or the lock is
  a variable.
- `umalloc.c`, `ulib.c`, `printf.c`, `string.c`: sequential library code.
- Start-up and device initialisation (`main.c`, `mp.c`, `lapic.c`, `ioapic.c`,
  `picirq.c`, the boot loader): sequential hardware set-up.
- `vectors.S` (generated), assembly entry code, `memide.c` (not linked here).
- User programs that make one system call, and the test programs
  (`usertests.c`, `forktest.c`, `stressfs.c`).
- Weak memory: spinlocks are taken to be sequentially consistent, which
  `acquire` and `release` ensure with their fences.

## 9. Plan

1. Composition of `Files` with `AtomicDisk`: a crash between the steps of a call
   keeps link counts exact.
2. `Clock` (`ticks`, `sys_sleep`, kill, with wrap-around) and `Malloc`
   (`umalloc.c` as a free list that tiles the heap).
3. Proofs about the reference counts of `Files`.

## 10. Running the checks

    tlc -config LogCrash.cfg MCLog          # a run; see PROJECT.json for the others
    tlapm LogProofs.tla                     # the proofs of the log
    tlapm PipeProofs.tla
    tlapm ConsoleProofs.tla
    tlapm ProcProofs.tla
    tlapm BioProofs.tla
    tlapm MemoryProofs.tla                  # 20 minutes
    tlapm BlocksSteps.tla                   # the blocks of files, half an hour each
    tlapm BlocksProofs.tla
