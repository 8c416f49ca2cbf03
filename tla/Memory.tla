------------------------------- MODULE Memory -------------------------------
(***************************************************************************)
(* Physical pages and address spaces: kalloc.c, the page tables of vm.c,   *)
(* and the calls that allocate and free memory: sbrk, fork, exec, wait.    *)
(*                                                                         *)
(* A step allocates one page, or frees a set of pages: kalloc() and        *)
(* kfree() are atomic (kmem.lock) and the page table that a process        *)
(* builds is its own, so calls of two processes meet only on the free      *)
(* list.  A loop that needs a page and a page table for it has the page    *)
(* while it asks for the table.  An address is a number of units, PGSIZE   *)
(* of them in a page.                                                      *)
(*                                                                         *)
(* An address space is its page directory (dir), the page-table pages of   *)
(* the kernel half (ktab) and of the user half (tab), and the user entries *)
(* (pte).  free counts how often a page is on the free list; which of the  *)
(* free pages kalloc() returns is of no account.  The contents of a page   *)
(* are junk, zeros or loaded bytes.                                        *)
(***************************************************************************)
EXTENDS Integers, Sequences, FiniteSets

CONSTANTS
    NPROC,      \* size of the process table
    NPAGES,     \* pages that kinit1() and kinit2() put on the free list
    PGSIZE,     \* units in a page
    KERNBASE,   \* first unit above user memory
    NPTENTRIES, \* entries of a page table
    KTABLES,    \* page tables that the kernel mappings (kmap) need
    WORD,       \* units in an int
    Increment,  \* arguments of sbrk()
    Program,    \* programs on disk: sequences of segments
    ArgsSize,   \* units that the arguments of exec() take on the stack
    MaxPipes    \* bound: pipes at a time

Proc == 1 .. NPROC
Page == 1 .. NPAGES
Vpn == 0 .. KERNBASE \div PGSIZE - 1
Pdx == 0 .. (KERNBASE - 1) \div (PGSIZE * NPTENTRIES)
UINT == 2 * KERNBASE   \* KERNBASE is 2^31
initproc == 1

\* A program header, as far as exec() looks at it.
Segment == [vaddr : 0 .. UINT - 1, memsz : 0 .. UINT - 1, filesz : 0 .. UINT - 1]

ASSUME MemoryAssumption ==
    /\ {NPROC, NPAGES, PGSIZE, KERNBASE, NPTENTRIES, KTABLES, WORD} \subseteq Nat \ {0}
    /\ KERNBASE % PGSIZE = 0 /\ PGSIZE < KERNBASE /\ WORD <= KERNBASE
    /\ Increment \subseteq Int
    /\ Program \subseteq Seq(Segment)
    /\ ArgsSize \subseteq Nat
    /\ NPAGES >= 4 + KTABLES
    /\ MaxPipes \in Nat

VARIABLES
    free,    \* how often each page is on kmem.freelist
    data,    \* contents of each page
    proc,    \* the process table
    pipes,   \* pages that are pipes
    panicked \* panic() was called

vars == <<free, data, proc, pipes, panicked>>

NoPte == [pa |-> 0, u |-> FALSE]

\* An address space with the kernel's mappings only, or, without pages, none.
setupkvm(dir, ktab) == [dir |-> dir, ktab |-> ktab, tab |-> [i \in Pdx |-> 0],
                        pte |-> [i \in Vpn |-> NoPte]]
NoSpace == setupkvm(0, {})

Space == [dir : Page \cup {0}, ktab : SUBSET Page, tab : [Pdx -> Page \cup {0}],
          pte : [Vpn -> [pa : Page \cup {0}, u : BOOLEAN]]]
State == {"UNUSED", "EMBRYO", "ZOMBIE", "user", "sbrk", "fork", "copy",
          "exec", "segment", "load", "stack"}

\* at: state of the process and the call it is in; pgdir, sz: its memory;
\* new, nsz: the address space that fork() or exec() builds; a, to: the loop
\* of allocuvm() and copyuvm(); mem: the page that the loop has allocated and
\* not mapped yet; segs: segments yet to load; kid: the child.
Process ==
    [at : State, kstack : Page \cup {0}, pgdir : Space, sz : 0 .. KERNBASE - 1,
     new : Space, nsz : 0 .. KERNBASE - 1, a : 0 .. KERNBASE,
     to : 0 .. KERNBASE - 1, mem : Page \cup {0}, segs : Seq(Segment),
     kid : Proc \cup {0}]

TypeOK ==
    /\ free \in [Page -> {0, 1}]
    /\ data \in [Page -> {"junk", "zero", "image"}]
    /\ proc \in [Proc -> Process]
    /\ pipes \subseteq Page
    /\ panicked \in BOOLEAN

PGROUNDUP(n) == ((n + PGSIZE - 1) \div PGSIZE) * PGSIZE
FreePages == {v \in Page : free[v] > 0}
kalloc(S) == CHOOSE v \in S : TRUE

\* The pages that belong to an address space.
UserPages(s) == {s.pte[i].pa : i \in Vpn} \ {0}
TablePages(s) == ({s.dir} \cup s.ktab \cup {s.tab[i] : i \in Pdx}) \ {0}

\* Pages of S are filled with junk and put on the free list.
kfree(S) ==
    /\ free' = [v \in Page |-> IF v \in S THEN free[v] + 1 ELSE free[v]]
    /\ data' = [v \in Page |-> IF v \in S THEN "junk" ELSE data[v]]

\* An entry that is not there is passed over, also when its table is missing.
FreedBetween(s, oldsz, newsz) ==
    {s.pte[i].pa : i \in {j \in Vpn : PGROUNDUP(newsz) <= j * PGSIZE
                                      /\ j * PGSIZE < oldsz}} \ {0}

deallocuvm(s, oldsz, newsz) ==
    [s EXCEPT !.pte = [i \in Vpn |->
        IF PGROUNDUP(newsz) <= i * PGSIZE /\ i * PGSIZE < oldsz
        THEN NoPte ELSE @[i]]]

freevm(s) == UserPages(s) \cup TablePages(s)

\* There is no page table for address a: walkpgdir() allocates one.
Missing(s, a) == s.tab[a \div (PGSIZE * NPTENTRIES)] = 0

mappages(s, a, mem, pgtab, u) ==
    [s EXCEPT !.pte[a \div PGSIZE] = [pa |-> mem, u |-> u],
              !.tab[a \div (PGSIZE * NPTENTRIES)] = IF Missing(s, a) THEN pgtab ELSE @]

\* Process r with address space s in place of its own or of the one it builds.
WithSpace(r, own, s) == IF own THEN [r EXCEPT !.pgdir = s] ELSE [r EXCEPT !.new = s]

\* The space that a loop of r maps pages in, and the page it has in hand.
Target(r) == IF r.at = "sbrk" THEN r.pgdir ELSE r.new
InHand(r) == {r.mem} \ {0}

\* The loop of p gets a page and fills it with c.
GetPage(p, c) ==
    /\ proc[p].a < proc[p].to /\ proc[p].mem = 0
    /\ FreePages # {}
    /\ free' = [free EXCEPT ![kalloc(FreePages)] = @ - 1]
    /\ data' = [data EXCEPT ![kalloc(FreePages)] = c]
    /\ proc' = [proc EXCEPT ![p].mem = kalloc(FreePages)]

\* The loop maps its page, which takes another one for a missing page table;
\* "remap" if something is mapped there.  copyuvm() copies the flags as well.
MapPage(p) ==
    LET r == proc[p]
        s == Target(r)
        pgtab == kalloc(FreePages)
        u == IF r.at = "copy" THEN r.pgdir.pte[r.a \div PGSIZE].u ELSE TRUE
    IN  /\ r.mem # 0
        /\ Missing(s, r.a) => FreePages # {}
        /\ free' = IF Missing(s, r.a) THEN [free EXCEPT ![pgtab] = @ - 1] ELSE free
        /\ proc' = [proc EXCEPT ![p] =
              [WithSpace(r, r.at = "sbrk", mappages(s, r.a, r.mem, pgtab, u)) EXCEPT
                  !.a = r.a + PGSIZE, !.mem = 0]]
        /\ panicked' = (panicked \/ s.pte[r.a \div PGSIZE] # NoPte)
        /\ UNCHANGED <<data, pipes>>

\* kalloc() returns 0 in the loop of p, for the page or for a page table.
OutOfMemory(p) ==
    /\ proc[p].a < proc[p].to /\ FreePages = {}
    /\ proc[p].mem = 0 \/ Missing(Target(proc[p]), proc[p].a)
-----------------------------------------------------------------------------
Idle == [at |-> "UNUSED", kstack |-> 0, pgdir |-> NoSpace, sz |-> 0,
         new |-> NoSpace, nsz |-> 0, a |-> 0, to |-> 0, mem |-> 0, segs |-> <<>>,
         kid |-> 0]

\* The call of r is over: the space it was building is not held any more.
Returned(r) == [r EXCEPT !.at = "user", !.new = NoSpace, !.nsz = 0, !.a = 0,
                         !.to = 0, !.mem = 0, !.segs = <<>>, !.kid = 0]

\* The space of initcode: page 2 is its directory, then the kernel's page
\* tables, one user page table and one page of user memory.
inituvm ==
    [dir |-> 2, ktab |-> 3 .. 2 + KTABLES,
     tab |-> [i \in Pdx |-> IF i = 0 THEN 3 + KTABLES ELSE 0],
     pte |-> [i \in Vpn |-> IF i = 0 THEN [pa |-> 4 + KTABLES, u |-> TRUE] ELSE NoPte]]

\* userinit(): the first process; page 1 is its kernel stack.
Init ==
    /\ free = [v \in Page |-> IF v <= 4 + KTABLES THEN 0 ELSE 1]
    /\ data = [v \in Page |-> IF v = 4 + KTABLES THEN "image" ELSE "junk"]
    /\ proc = [p \in Proc |->
          IF p = initproc
          THEN [Idle EXCEPT !.at = "user", !.kstack = 1, !.pgdir = inituvm, !.sz = PGSIZE]
          ELSE Idle]
    /\ pipes = {}
    /\ panicked = FALSE

\* Programs start at address 0: without that page a process faults at once.
Runs(p) == proc[p].at = "user" /\ proc[p].pgdir.pte[0].u

\* The checks on arguments that are addresses: an int, a block, a string
\* (which reaches at most to the end of the memory).
fetchint(p, addr) == addr < proc[p].sz /\ (addr + WORD) % UINT <= proc[p].sz
argptrEndOnly(p, addr, size) == (addr + size) % UINT <= proc[p].sz   \* mutant
argptr(p, addr, size) == addr < proc[p].sz /\ (addr + size) % UINT <= proc[p].sz
fetchstr(p, addr) == addr < proc[p].sz
-----------------------------------------------------------------------------
\* init does not call sbrk().
\* growproc(n), n > 0: the loop of allocuvm() starts.
SbrkGrow(p, n) ==
    /\ Runs(p) /\ p # initproc /\ n > 0
    /\ proc[p].sz + n < KERNBASE
    /\ proc' = [proc EXCEPT ![p] = [@ EXCEPT
          !.at = "sbrk", !.to = proc[p].sz + n, !.nsz = proc[p].sz, !.a = PGROUNDUP(proc[p].sz)]]
    /\ UNCHANGED <<free, data, pipes, panicked>>

\* growproc(n), n < 0: a result of 0 of deallocuvm() counts as a failure,
\* and the size is not changed.
SbrkShrink(p, n) ==
    LET newsz == (proc[p].sz + n) % UINT
    IN  /\ Runs(p) /\ p # initproc /\ n < 0
        /\ newsz < proc[p].sz
        /\ kfree(FreedBetween(proc[p].pgdir, proc[p].sz, newsz))
        /\ proc' = [proc EXCEPT ![p] = [@ EXCEPT
              !.pgdir = deallocuvm(proc[p].pgdir, proc[p].sz, newsz),
              !.sz = IF newsz = 0 THEN proc[p].sz ELSE newsz]]
        /\ UNCHANGED <<pipes, panicked>>

SbrkDone(p) ==
    /\ proc[p].at = "sbrk" /\ proc[p].a >= proc[p].to
    /\ proc' = [proc EXCEPT ![p] = [Returned(@) EXCEPT !.sz = proc[p].to]]
    /\ UNCHANGED <<free, data, pipes, panicked>>

\* kalloc() and memset() in the loop of allocuvm(), for the process's own
\* space or exec()'s.
AllocPage(p) ==
    /\ proc[p].at \in {"sbrk", "load", "stack"}
    /\ GetPage(p, "zero")
    /\ UNCHANGED <<pipes, panicked>>

\* Mutant: the page that could not be mapped is not freed.
SbrkFailsLeaky(p) ==
    /\ proc[p].at = "sbrk" /\ OutOfMemory(p)
    /\ kfree(FreedBetween(proc[p].pgdir, proc[p].to, proc[p].nsz))
    /\ proc' = [proc EXCEPT ![p] =
          [Returned(@) EXCEPT !.pgdir = deallocuvm(proc[p].pgdir, proc[p].to, proc[p].nsz)]]
    /\ UNCHANGED <<pipes, panicked>>

\* sbrk() fails: what was added is taken away again, but for page-table
\* pages, which stay with the process.
SbrkFails(p) ==
    /\ proc[p].at = "sbrk" /\ OutOfMemory(p)
    /\ kfree(FreedBetween(proc[p].pgdir, proc[p].to, proc[p].nsz) \cup InHand(proc[p]))
    /\ proc' = [proc EXCEPT ![p] =
          [Returned(@) EXCEPT !.pgdir = deallocuvm(proc[p].pgdir, proc[p].to, proc[p].nsz)]]
    /\ UNCHANGED <<pipes, panicked>>
-----------------------------------------------------------------------------
\* setupkvm() of fork() and exec(): the directory, then one page table after
\* the other; with the last one the kernel's mappings are there.
Setupkvm(p) ==
    LET v == kalloc(FreePages)
        new == IF proc[p].new.dir = 0 THEN setupkvm(v, {})
               ELSE setupkvm(proc[p].new.dir, proc[p].new.ktab \cup {v})
    IN  /\ proc[p].at \in {"fork", "exec"}
        /\ FreePages # {}
        /\ free' = [free EXCEPT ![v] = @ - 1]
        /\ proc' = [proc EXCEPT ![p] = [@ EXCEPT
              !.new = new,
              !.at = IF Cardinality(new.ktab) < KTABLES THEN proc[p].at
                     ELSE IF proc[p].at = "fork" THEN "copy" ELSE "segment"]]
        /\ UNCHANGED <<data, pipes, panicked>>

\* fork(): allocproc() takes a slot and a kernel stack.
Fork(p, c) ==
    /\ Runs(p)
    /\ proc[c].at = "UNUSED"
    /\ FreePages # {}
    /\ LET kstack == kalloc(FreePages)
       IN  /\ free' = [free EXCEPT ![kstack] = @ - 1]
           /\ proc' = [proc EXCEPT
                 ![p] = [@ EXCEPT !.at = "fork", !.kid = c, !.a = 0, !.to = proc[p].sz],
                 ![c] = [@ EXCEPT !.at = "EMBRYO", !.kstack = kstack]]
    /\ UNCHANGED <<data, pipes, panicked>>

\* kalloc() and memmove() in the loop of copyuvm(); "page not present" if there
\* is no page to copy.
CopyPage(p) ==
    LET from == proc[p].pgdir.pte[proc[p].a \div PGSIZE]
    IN  /\ proc[p].at = "copy" /\ proc[p].a < proc[p].to /\ proc[p].mem = 0
        /\ IF from.pa = 0
           THEN panicked' = TRUE /\ UNCHANGED <<free, data, proc>>
           ELSE GetPage(p, data[from.pa]) /\ UNCHANGED panicked
        /\ UNCHANGED pipes

ForkDone(p) ==
    /\ proc[p].at = "copy" /\ proc[p].a >= proc[p].to
    /\ proc' = [proc EXCEPT
          ![p] = Returned(@),
          ![proc[p].kid] = [@ EXCEPT !.at = "user", !.sz = proc[p].sz, !.pgdir = proc[p].new]]
    /\ UNCHANGED <<free, data, pipes, panicked>>

\* Out of memory in setupkvm(), which frees what it has of the directory, or
\* in the loop: the copy and the kernel stack are freed, the slot is given back.
ForkFails(p) ==
    /\ \/ proc[p].at = "fork" /\ FreePages = {}
       \/ proc[p].at = "copy" /\ OutOfMemory(p)
    /\ kfree(freevm(proc[p].new) \cup InHand(proc[p]) \cup {proc[proc[p].kid].kstack})
    /\ proc' = [proc EXCEPT ![p] = Returned(@), ![proc[p].kid] = Idle]
    /\ UNCHANGED <<pipes, panicked>>
-----------------------------------------------------------------------------
\* exec() of a program whose ELF header is good.
Exec(p, g) ==
    /\ Runs(p)
    /\ proc' = [proc EXCEPT ![p] = [@ EXCEPT !.at = "exec", !.segs = g]]
    /\ UNCHANGED <<free, data, pipes, panicked>>

\* Mutant: memsz is not compared with filesz.
SegmentFitsShort(p, seg) ==
    /\ (seg.vaddr + seg.memsz) % UINT >= seg.vaddr
    /\ (seg.vaddr + seg.memsz) % UINT < KERNBASE
    /\ seg.vaddr + seg.memsz + proc[p].nsz > 0

\* A segment that passes the checks: allocuvm() up to its end, which returns
\* the old size when that is larger, and fails when the size would be 0.
SegmentFits(p, seg) ==
    /\ seg.memsz >= seg.filesz
    /\ (seg.vaddr + seg.memsz) % UINT >= seg.vaddr
    /\ (seg.vaddr + seg.memsz) % UINT < KERNBASE
    /\ seg.vaddr + seg.memsz + proc[p].nsz > 0

SegmentStart(p) ==
    /\ proc[p].at = "segment" /\ proc[p].segs # <<>>
    /\ LET seg == Head(proc[p].segs)
           end == seg.vaddr + seg.memsz
       IN  /\ SegmentFits(p, seg)
           /\ proc' = [proc EXCEPT ![p] = [@ EXCEPT
                 !.at = "load", !.a = PGROUNDUP(proc[p].nsz),
                 !.to = IF end < proc[p].nsz THEN proc[p].nsz ELSE end]]
    /\ UNCHANGED <<free, data, pipes, panicked>>

\* Mutant: the segment is read into the current memory of the process.
SegmentLoadInPlace(p) ==
    LET seg == Head(proc[p].segs)
        pas == {proc[p].pgdir.pte[i].pa : i \in {j \in Vpn :
                    seg.vaddr <= j * PGSIZE /\ j * PGSIZE < seg.vaddr + seg.filesz}}
    IN  /\ proc[p].at = "load" /\ proc[p].a >= proc[p].to
        /\ seg.vaddr % PGSIZE = 0
        /\ data' = [v \in Page |-> IF v \in pas THEN "image" ELSE data[v]]
        /\ proc' = [proc EXCEPT ![p] =
              [@ EXCEPT !.at = "segment", !.segs = Tail(proc[p].segs), !.nsz = proc[p].to]]
        /\ UNCHANGED <<free, pipes, panicked>>

\* loaduvm() of the segment; "address should exist" if a page is missing.
SegmentLoad(p) ==
    LET seg == Head(proc[p].segs)
        ptes == {proc[p].new.pte[i] : i \in {j \in Vpn :
                    seg.vaddr <= j * PGSIZE /\ j * PGSIZE < seg.vaddr + seg.filesz}}
    IN  /\ proc[p].at = "load" /\ proc[p].a >= proc[p].to
        /\ seg.vaddr % PGSIZE = 0
        /\ data' = [v \in Page |-> IF \E e \in ptes : e.pa = v THEN "image" ELSE data[v]]
        /\ panicked' = (panicked \/ NoPte \in ptes)
        /\ proc' = [proc EXCEPT ![p] =
              [@ EXCEPT !.at = "segment", !.segs = Tail(proc[p].segs), !.nsz = proc[p].to]]
        /\ UNCHANGED <<free, pipes>>

\* The stack: two pages above the segments, of which the lower one becomes
\* inaccessible.
StackStart(p) ==
    LET base == PGROUNDUP(proc[p].nsz)
    IN  /\ proc[p].at = "segment" /\ proc[p].segs = <<>>
        /\ base + 2 * PGSIZE < KERNBASE
        /\ proc' = [proc EXCEPT ![p] =
              [@ EXCEPT !.at = "stack", !.nsz = base, !.a = base, !.to = base + 2 * PGSIZE]]
        /\ UNCHANGED <<free, data, pipes, panicked>>

clearpteu(s, a) == [s EXCEPT !.pte[a \div PGSIZE].u = FALSE]

\* copyout() reaches every unit from va on through a user page.
copyout(s, va, len) ==
    \A x \in va .. va + len - 1 : x >= 0 /\ s.pte[x \div PGSIZE].u

\* The arguments are copied to the new stack, the new space replaces the old
\* one, which is freed.
ExecCommit(p, len) ==
    LET to == proc[p].to
        s == clearpteu(proc[p].new, to - 2 * PGSIZE)
        top == s.pte[to \div PGSIZE - 1].pa
        old == freevm(proc[p].pgdir)
    IN  /\ proc[p].at = "stack" /\ proc[p].a >= to
        /\ copyout(s, to - len, len)
        /\ free' = [v \in Page |-> IF v \in old THEN free[v] + 1 ELSE free[v]]
        /\ data' = [v \in Page |-> IF v \in old THEN "junk"
                                   ELSE IF v = top THEN "image" ELSE data[v]]
        /\ proc' = [proc EXCEPT ![p] =
              [Returned(@) EXCEPT !.pgdir = s, !.sz = to]]
        /\ UNCHANGED <<pipes, panicked>>

\* cleanupexec(): out of memory, a read from the file that is too short, a
\* segment or arguments that do not fit.
ExecFails(p) ==
    /\ \/ proc[p].at = "exec" /\ FreePages = {}
       \/ proc[p].at = "segment"
       \/ proc[p].at \in {"load", "stack"} /\ OutOfMemory(p)
       \/ proc[p].at = "load" /\ proc[p].a >= proc[p].to
       \/ /\ proc[p].at = "stack" /\ proc[p].a >= proc[p].to
          /\ \E len \in ArgsSize :
                ~copyout(clearpteu(proc[p].new, proc[p].to - 2 * PGSIZE), proc[p].to - len, len)
    /\ kfree(freevm(proc[p].new) \cup InHand(proc[p]))
    /\ proc' = [proc EXCEPT ![p] = Returned(@)]
    /\ UNCHANGED <<pipes, panicked>>
-----------------------------------------------------------------------------
Exit(p) ==
    /\ proc[p].at = "user" /\ p # initproc
    /\ proc' = [proc EXCEPT ![p] = [@ EXCEPT !.at = "ZOMBIE"]]
    /\ UNCHANGED <<free, data, pipes, panicked>>

\* wait() of the parent, or of init, finds the zombie c.
Wait(c) ==
    /\ proc[c].at = "ZOMBIE"
    /\ kfree({proc[c].kstack} \cup freevm(proc[c].pgdir))
    /\ proc' = [proc EXCEPT ![c] = Idle]
    /\ UNCHANGED <<pipes, panicked>>

\* The rest of the kernel allocates pages too: pipealloc() and pipeclose().
Pipealloc ==
    /\ FreePages # {} /\ Cardinality(pipes) < MaxPipes
    /\ free' = [free EXCEPT ![kalloc(FreePages)] = @ - 1]
    /\ pipes' = pipes \cup {kalloc(FreePages)}
    /\ UNCHANGED <<data, proc, panicked>>

Pipeclose(v) ==
    /\ kfree({v})
    /\ pipes' = pipes \ {v}
    /\ UNCHANGED <<proc, panicked>>

Next ==
    \/ Pipealloc
    \/ \E v \in pipes : Pipeclose(v)
    \/ \E p \in Proc :
        \/ \E n \in Increment : SbrkGrow(p, n) \/ SbrkShrink(p, n)
        \/ SbrkDone(p) \/ SbrkFails(p)
        \/ AllocPage(p) \/ MapPage(p)
        \/ Setupkvm(p)
        \/ \E c \in Proc : Fork(p, c)
        \/ CopyPage(p) \/ ForkDone(p) \/ ForkFails(p)
        \/ \E g \in Program : Exec(p, g)
        \/ SegmentStart(p) \/ SegmentLoad(p) \/ StackStart(p)
        \/ \E len \in ArgsSize : ExecCommit(p, len)
        \/ ExecFails(p)
        \/ Exit(p)
        \/ Wait(p)

Spec == Init /\ [][Next]_vars
-----------------------------------------------------------------------------
\* The ways in which page v is in use: in address space s, by process p, at all.
SpaceUses(s, v) ==
    {<<"dir", x>> : x \in {s.dir} \cap {v}}
    \cup {<<"ktab", x>> : x \in s.ktab \cap {v}}
    \cup {<<"tab", i>> : i \in {j \in Pdx : s.tab[j] = v}}
    \cup {<<"pte", i>> : i \in {j \in Vpn : s.pte[j].pa = v}}

ProcUses(p, v) ==
    {<<p, "kstack", x>> : x \in {proc[p].kstack} \cap {v}}
    \cup {<<p, "mem", x>> : x \in {proc[p].mem} \cap {v}}
    \cup {<<p, "pgdir", w>> : w \in SpaceUses(proc[p].pgdir, v)}
    \cup {<<p, "new", w>> : w \in SpaceUses(proc[p].new, v)}

Owners(v) ==
    {<<x>> : x \in pipes \cap {v}} \cup UNION {ProcUses(p, v) : p \in Proc}

\* A page is on the free list once, or has exactly one use: whatever fails
\* half-way for want of memory, in a page, in the page table for a page that is
\* allocated already, or in the middle of setupkvm(), nothing is leaked, freed
\* twice or shared (kalloc.c, and the error paths of setupkvm, allocuvm,
\* copyuvm, fork and exec); and no user entry leads to a page that still has
\* the junk of kfree().
PageHasOneOwner ==
    /\ TypeOK
    /\ \A v \in Page : IF free[v] = 0 THEN \E w \in Owners(v) : Owners(v) = {w}
                                     ELSE free[v] = 1 /\ Owners(v) = {}
    /\ \A p \in Proc : \A v \in UserPages(proc[p].pgdir) \cup UserPages(proc[p].new) :
          data[v] # "junk"

\* No panic of vm.c is reached: "remap", "copyuvm: page not present",
\* "loaduvm: address should exist".
NoPanic == ~panicked

\* Every unit from lo to before hi is in a page of process p.
InMemory(p, lo, hi) ==
    \A x \in lo .. hi - 1 : x < KERNBASE /\ proc[p].pgdir.pte[x \div PGSIZE].pa # 0

\* Exactly the pages below the size of a process that runs are mapped, after
\* every call that succeeded or failed; so what the argument checks of
\* syscall.c accept is memory that is there, and the kernel does not fault
\* when it follows the address.
ArgsAreMapped ==
    \A p \in Proc : Runs(p) =>
        /\ \A i \in Vpn : proc[p].pgdir.pte[i].pa # 0 <=> i * PGSIZE < proc[p].sz
        /\ \A addr \in 0 .. UINT - 1 :
              /\ fetchint(p, addr) => InMemory(p, addr, addr + WORD)
              /\ fetchstr(p, addr) => InMemory(p, addr, proc[p].sz)
              /\ \A size \in 0 .. KERNBASE - 1 :
                    argptr(p, addr, size) => InMemory(p, addr, addr + size)

\* The pages below size n, and what process p finds in those below its size.
Below(n) == {i \in Vpn : i * PGSIZE < n}
Image(p) == [i \in Below(proc[p].sz) |->
                LET e == proc[p].pgdir.pte[i]
                IN  IF e.pa = 0 THEN <<"none", FALSE>> ELSE <<data[e.pa], e.u>>]

\* The steps that give a process another memory: fork() of p has made c, wait()
\* buries p, its exec() has succeeded, its sbrk() has added pages of zeros or
\* taken pages away, and sbrk(-size), which frees all and reports a failure.
Born(p, c) == proc[p].at = "copy" /\ proc[p].kid = c /\ proc'[c].at = "user"
Buried(p) == proc[p].at = "ZOMBIE" /\ proc'[p].at = "UNUSED"
Execed(p) == proc[p].at = "stack" /\ proc'[p].pgdir.dir = proc[p].new.dir
Grown(p) ==
    /\ proc[p].at = "sbrk" /\ proc'[p].at = "user" /\ proc'[p].sz = proc[p].to
    /\ Image(p)' = [i \in Below(proc[p].to) |->
                       IF i \in Below(proc[p].sz) THEN Image(p)[i] ELSE <<"zero", TRUE>>]
Shrunk(p) ==
    /\ proc[p].at = "user" /\ 0 < proc'[p].sz /\ proc'[p].sz < proc[p].sz
    /\ Image(p)' = [i \in Below(proc'[p].sz) |-> Image(p)[i]]
Emptied(p) ==
    /\ proc[p].at = "user" /\ proc'[p].at = "user" /\ proc'[p].sz = proc[p].sz
    /\ Image(p)' = [i \in Below(proc[p].sz) |-> <<"none", FALSE>>]

Replaced(p) == Buried(p) \/ Execed(p) \/ Grown(p) \/ Shrunk(p) \/ Emptied(p)

KeepImages ==
    /\ \A c \in Proc : \/ Image(c)' = Image(c) \/ Replaced(c)
                       \/ \E p \in Proc : Born(p, c)
    /\ \A p, c \in Proc : Born(p, c) => Image(c)' = Image(p)

\* The memory of a process below its size changes only when wait() buries it,
\* when its exec() succeeds, and when its sbrk() succeeds, which then adds
\* zeros or takes the end away and leaves the rest alone.  So a step of another
\* process leaves it as it is, and so does a call that fails, wherever memory
\* runs out: fork(), exec(), sbrk(n) with n > 0.  The one call that fails and
\* takes the memory away is sbrk(-size) (growproc() takes the size 0 that
\* deallocuvm() returns for an error).  A child starts with the memory of its
\* parent, page for page, guard page included (copyuvm).
OthersKeepTheirImage == [][KeepImages]_vars
=============================================================================
