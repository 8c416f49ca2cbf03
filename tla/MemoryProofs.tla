---------------------------- MODULE MemoryProofs ----------------------------
(***************************************************************************)
(* The theorems about Memory: no call panics, every page has one owner,    *)
(* the arguments of system calls are mapped and a process keeps its memory *)
(* while the others run and when its own calls fail, for any number of     *)
(* pages and processes and any programs.  First comes the inductive        *)
(* invariant IInv, then the steps that take pages (the loops of sbrk(),    *)
(* exec() and fork()), those that free them and those of two processes,    *)
(* and the theorems.                                                       *)
(***************************************************************************)
EXTENDS Memory, TLAPS

\* The prover of the leaves that name none.
USE Zenon

\* The pages that n units take.
Pages(n) == (n + PGSIZE - 1) \div PGSIZE

\* The first k pages of address space s are mapped, and no others.
Upto(s, k) == \A i \in Vpn : s.pte[i].pa # 0 <=> i < k

\* The loop of process r over space s stands at the page after the mapped ones.
Loop(r, s, from) == \E k \in from .. Pages(r.to) : r.a = k * PGSIZE /\ Upto(s, k)

\* What is mapped of the memory of process r, call by call.
Layout(r) ==
    /\ r.at = "UNUSED" => r = Idle
    /\ r.at = "EMBRYO" => r = [Idle EXCEPT !.at = "EMBRYO", !.kstack = r.kstack]
    /\ r.at # "sbrk" /\ r.pgdir.pte[0].u => Upto(r.pgdir, Pages(r.sz))
    /\ r.at \in {"user", "ZOMBIE", "sbrk"} => r.new = NoSpace
    /\ r.at \in {"fork", "exec"} =>
          r.new = setupkvm(r.new.dir, r.new.ktab) /\ (r.new.dir = 0 => r.new.ktab = {})
    /\ r.mem # 0 => r.at \in {"sbrk", "copy", "load", "stack"} /\ r.a < r.to
    /\ r.at \in {"user", "exec"} => r.nsz = 0
    /\ r.at = "sbrk" => r.nsz = r.sz /\ r.sz <= r.to /\ Loop(r, r.pgdir, Pages(r.sz))
    /\ r.at \in {"fork", "copy"} => r.to = r.sz /\ r.pgdir.pte[0].u
    /\ r.at = "fork" => r.a = 0
    /\ r.at = "copy" => Loop(r, r.new, 0)
    /\ r.at = "segment" => Upto(r.new, Pages(r.nsz))
    /\ r.at = "load" => /\ r.segs # <<>>
                        /\ Head(r.segs).filesz <= Head(r.segs).memsz
                        /\ Head(r.segs).vaddr + Head(r.segs).memsz <= r.to
                        /\ Loop(r, r.new, 0)
    /\ r.at = "stack" => /\ r.nsz = Pages(r.nsz) * PGSIZE
                         /\ r.to = r.nsz + 2 * PGSIZE
                         /\ Loop(r, r.new, 0)

\* An absent entry is all zeros, and the pages of space s are distinct.
SpaceOK(s) ==
    /\ \A i \in Vpn : s.pte[i].pa = 0 => s.pte[i] = NoPte
    /\ \A i, j \in Vpn : s.pte[i].pa = s.pte[j].pa /\ s.pte[i].pa # 0 => i = j
    /\ \A i, j \in Pdx : s.tab[i] = s.tab[j] /\ s.tab[i] # 0 => i = j
    /\ \A i \in Pdx : s.tab[i] # 0 => s.tab[i] # s.dir /\ s.tab[i] \notin s.ktab
    /\ s.dir \notin s.ktab
    /\ \A i \in Vpn : s.pte[i].pa # 0 =>
          /\ s.pte[i].pa # s.dir /\ s.pte[i].pa \notin s.ktab
          /\ \A j \in Pdx : s.pte[i].pa # s.tab[j]

\* The pages of process r.
Owned(r) == ({r.kstack, r.mem} \cup freevm(r.pgdir) \cup freevm(r.new)) \ {0}

\* The two address spaces, the kernel stack and the page in the hand of r share
\* no page.
Apart(r) ==
    /\ SpaceOK(r.pgdir) /\ SpaceOK(r.new)
    /\ freevm(r.pgdir) \cap freevm(r.new) = {}
    /\ r.kstack \notin freevm(r.pgdir) \cup freevm(r.new)
    /\ r.mem \notin freevm(r.pgdir) \cup freevm(r.new)
    /\ r.mem # 0 => r.mem # r.kstack

\* No user entry of space s leads to junk.
Clean(s, d) == \A i \in Vpn : s.pte[i].pa # 0 => d[s.pte[i].pa] # "junk"

\* The pages of S hold in d2 what they hold in d.
SameOn(S, d, d2) == \A v \in S : d2[v] = d[v]

\* What copyuvm() has copied is as it was.
Copied(r, d) ==
    \A i \in Vpn : r.new.pte[i].pa # 0 =>
        /\ r.pgdir.pte[i].pa # 0
        /\ r.new.pte[i].u = r.pgdir.pte[i].u
        /\ d[r.new.pte[i].pa] = d[r.pgdir.pte[i].pa]

\* What sbrk() has added are zeros.
Zeroed(r, d) ==
    \A i \in Vpn : r.pgdir.pte[i].pa # 0 /\ i \notin Below(r.sz) =>
        r.pgdir.pte[i].u /\ d[r.pgdir.pte[i].pa] = "zero"

\* A page with contents c is what the loop of r has to map next.
Due(r, d, c) ==
    IF r.at = "copy"
    THEN \E i \in Vpn : /\ i = r.a \div PGSIZE
                       /\ r.pgdir.pte[i].pa # 0 /\ c = d[r.pgdir.pte[i].pa]
    ELSE c = "zero"

\* No entry of r leads to junk, and its loops have filled the pages they added.
Filled(r, d) ==
    /\ Clean(r.pgdir, d) /\ Clean(r.new, d)
    /\ r.at = "copy" => Copied(r, d)
    /\ r.at = "sbrk" => Zeroed(r, d)
    /\ r.mem # 0 => Due(r, d, d[r.mem])

\* Every page is free, a pipe, or of one process: H are the pages of each one.
Parted(H, P, fr) ==
    /\ \A p, q \in Proc : \A v \in H[p] : v \in H[q] => p = q
    /\ \A p \in Proc : \A v \in H[p] : v \notin P
    /\ \A v \in Page : fr[v] = 0 <=> v \in P \/ \E p \in Proc : v \in H[p]

\* The pages of every process.
Holding == [p \in Proc |-> Owned(proc[p])]

\* Process r is in fork(), before its child is RUNNABLE.
Forking(r) == r.at \in {"fork", "copy"}

\* A fork() under way has an EMBRYO of its own.
Kids ==
    \A p \in Proc : Forking(proc[p]) =>
        /\ proc[p].kid \in Proc
        /\ proc[proc[p].kid].at = "EMBRYO"
        /\ \A q \in Proc : Forking(proc[q]) /\ proc[q].kid = proc[p].kid => q = p

\* The inductive invariant.
IInv ==
    /\ TypeOK
    /\ \A p \in Proc : Layout(proc[p]) /\ Apart(proc[p]) /\ Filled(proc[p], data)
    /\ Parted(Holding, pipes, free)
    /\ Kids
    /\ ~panicked
-----------------------------------------------------------------------------
\* What is assumed of the constants.
LEMMA Constants ==
  /\ NPROC \in Nat \ {0} /\ NPAGES \in Nat \ {0} /\ PGSIZE \in Nat \ {0}
  /\ KERNBASE \in Nat \ {0} /\ NPTENTRIES \in Nat \ {0} /\ KTABLES \in Nat \ {0}
  /\ WORD \in Nat \ {0} /\ KERNBASE % PGSIZE = 0 /\ PGSIZE < KERNBASE /\ WORD <= KERNBASE
  /\ NPAGES >= 4 + KTABLES
BY MemoryAssumption

\* Division of addresses.
LEMMA Div ==
  ASSUME NEW n \in Nat, NEW d \in Nat \ {0}
  PROVE  /\ n \div d \in Nat
         /\ d * (n \div d) <= n
         /\ n < d * (n \div d) + d
BY SMT

\* The quotient is the only number between the bounds.
LEMMA DivUnique ==
  ASSUME NEW n \in Nat, NEW d \in Nat \ {0}, NEW k \in Nat,
         d * k <= n, n < d * k + d
  PROVE  n \div d = k
BY SMT

\* Pages are in the order of their addresses.
LEMMA MulMono ==
  ASSUME NEW i \in Int, NEW j \in Int, NEW d \in Nat \ {0}
  PROVE  i * d < j * d <=> i < j
BY SMT

\* KERNBASE is a page boundary.
LEMMA KernPages ==
  /\ KERNBASE \div PGSIZE \in Nat
  /\ KERNBASE = (KERNBASE \div PGSIZE) * PGSIZE
BY Constants, SMT

\* PGROUNDUP() is the end of the last page that is needed.
LEMMA PagesOf ==
  ASSUME NEW n \in Nat
  PROVE  /\ Pages(n) \in Nat
         /\ PGROUNDUP(n) = Pages(n) * PGSIZE
         /\ n <= Pages(n) * PGSIZE
         /\ \A i \in Nat : i * PGSIZE < n <=> i < Pages(n)
BY Constants, SMT DEF Pages, PGROUNDUP

\* The page at which a loop that is not over stands.
LEMMA VpnOf ==
  ASSUME NEW k \in Nat, NEW n \in 0 .. KERNBASE, k * PGSIZE < n
  PROVE  /\ k \in Vpn
         /\ (k * PGSIZE) \div PGSIZE = k
         /\ (k * PGSIZE) \div (PGSIZE * NPTENTRIES) \in Pdx
<1> DEFINE K == KERNBASE \div PGSIZE
<1>1. k < K
  BY KernPages, Constants, MulMono, SMT
<1>2. (k * PGSIZE) \div PGSIZE = k
  BY Constants, SMT
<1>3. ASSUME NEW x \in Nat, NEW y \in Nat, NEW d \in Nat \ {0}, x <= y
      PROVE  x \div d <= y \div d
  BY <1>3, SMT
<1>4. PGSIZE * NPTENTRIES \in Nat \ {0}
  BY Constants, SMT
<1>5. k * PGSIZE \in Nat /\ KERNBASE - 1 \in Nat /\ k * PGSIZE <= KERNBASE - 1
  BY Constants, SMT
<1>6. (k * PGSIZE) \div (PGSIZE * NPTENTRIES) <= (KERNBASE - 1) \div (PGSIZE * NPTENTRIES)
  BY <1>3, <1>4, <1>5
<1>7. (k * PGSIZE) \div (PGSIZE * NPTENTRIES) \in Nat
  BY <1>4, <1>5, Div
<1> QED
  BY <1>1, <1>2, <1>6, <1>7, KernPages, SMT DEF Vpn, Pdx

\* What mappages() leaves, field by field: page k, entry t of the directory.
Mapped(s, k, t, mem, pgtab, u, s2) ==
    /\ s2 \in Space
    /\ s2.dir = s.dir /\ s2.ktab = s.ktab
    /\ s2.pte[k] = [pa |-> mem, u |-> u]
    /\ \A i \in Vpn : i # k => s2.pte[i] = s.pte[i]
    /\ s.tab[t] = 0 => s2.tab[t] = pgtab
    /\ \A i \in Pdx : i # t \/ s.tab[t] # 0 => s2.tab[i] = s.tab[i]

\* The arguments of mappages() for the page at a, number k, in page table t.
MapArgs(s, a, k, t, mem, pgtab, u) ==
    /\ s \in Space /\ a \in Nat /\ k \in Vpn /\ t \in Pdx /\ mem \in Page /\ u \in BOOLEAN
    /\ k = a \div PGSIZE /\ t = a \div (PGSIZE * NPTENTRIES)
    /\ s.tab[t] = 0 => pgtab \in Page

\* mappages() of one page.
LEMMA MapFields ==
  ASSUME NEW s, NEW a, NEW k, NEW t, NEW mem, NEW pgtab, NEW u,
         MapArgs(s, a, k, t, mem, pgtab, u)
  PROVE  Mapped(s, k, t, mem, pgtab, u, mappages(s, a, mem, pgtab, u))
<1> USE DEF MapArgs
<1> DEFINE s2 == mappages(s, a, mem, pgtab, u)
<1> DEFINE e == [pa |-> mem, u |-> u]
<1> DEFINE tab2 == [s.tab EXCEPT ![t] = IF s.tab[t] = 0 THEN pgtab ELSE @]
<1>1. s2 = [s EXCEPT !.pte = [s.pte EXCEPT ![k] = e], !.tab = tab2]
  BY DEF mappages, Missing
<1>2. /\ s.pte \in [Vpn -> [pa : Page \cup {0}, u : BOOLEAN]]
      /\ s.tab \in [Pdx -> Page \cup {0}]
      /\ s.dir \in Page \cup {0} /\ s.ktab \in SUBSET Page
  BY DEF Space
<1>3. [s.pte EXCEPT ![k] = e] \in [Vpn -> [pa : Page \cup {0}, u : BOOLEAN]]
  BY <1>2, SMT
<1>4. tab2 \in [Pdx -> Page \cup {0}]
  BY <1>2, SMT
<1>5. /\ s2.dir = s.dir /\ s2.ktab = s.ktab
      /\ s2.pte = [s.pte EXCEPT ![k] = e] /\ s2.tab = tab2
  BY <1>1, SMT DEF Space
<1>6. s2 \in Space
  <2>1. ASSUME NEW x \in [Vpn -> [pa : Page \cup {0}, u : BOOLEAN]],
               NEW y \in [Pdx -> Page \cup {0}]
        PROVE  [s EXCEPT !.pte = x, !.tab = y] \in Space
    BY DEF Space
  <2> HIDE DEF e, tab2, s2
  <2>2. [s EXCEPT !.pte = [s.pte EXCEPT ![k] = e], !.tab = tab2] \in Space
    BY <1>3, <1>4, <2>1
  <2> QED
    BY <1>1, <2>2
<1> QED
  BY <1>2, <1>5, <1>6, SMT DEF Mapped

\* The pages that freevm() frees.
LEMMA InFreevm ==
  ASSUME NEW s \in Space, NEW v
  PROVE  v \in freevm(s) <=> /\ v # 0
                             /\ \/ v = s.dir
                                \/ v \in s.ktab
                                \/ \E i \in Pdx : v = s.tab[i]
                                \/ \E i \in Vpn : v = s.pte[i].pa
BY DEF freevm, UserPages, TablePages

\* The fields of an address space.
LEMMA SpaceType ==
  ASSUME NEW s \in Space
  PROVE  /\ s.dir \in Page \cup {0} /\ s.ktab \in SUBSET Page
         /\ \A i \in Pdx : s.tab[i] \in Page \cup {0}
         /\ \A i \in Vpn : /\ s.pte[i] \in [pa : Page \cup {0}, u : BOOLEAN]
                           /\ s.pte[i].pa \in Page \cup {0} /\ s.pte[i].u \in BOOLEAN
BY SMT DEF Space

\* The null pointer is no page.
LEMMA ZeroIsNoPage == 0 \notin Page
BY Constants, SMT DEF Page

\* The pages that a turn of the loop of allocuvm() or copyuvm() takes, and what
\* it does to space s.
PageAndTable(s, t, mem, pgtab) == {mem} \cup IF s.tab[t] = 0 THEN {pgtab} ELSE {}

\* Space s2 is s with page mem mapped as its k-th; it took the pages T.
OneMore(s, s2, k, mem, u, T) ==
    /\ SpaceOK(s2) /\ freevm(s2) = freevm(s) \cup T /\ Upto(s2, k + 1)
    /\ s2.pte[k].pa = mem /\ s2.pte[k].u = u
    /\ \A i \in Vpn : i # k => s2.pte[i] = s.pte[i]

\* A page that is mapped becomes the space's, and nothing else does.
LEMMA MapSpace ==
  ASSUME NEW s \in Space, SpaceOK(s), NEW k \in Vpn, NEW t \in Pdx, s.pte[k].pa = 0,
         NEW mem \in Page, mem \notin freevm(s), NEW pgtab, NEW u \in BOOLEAN, NEW s2,
         s.tab[t] = 0 => pgtab \in Page /\ pgtab \notin freevm(s) /\ pgtab # mem,
         Upto(s, k), Mapped(s, k, t, mem, pgtab, u, s2)
  PROVE  OneMore(s, s2, k, mem, u, PageAndTable(s, t, mem, pgtab))
<1>s. s2 \in Space /\ s2.dir = s.dir /\ s2.ktab = s.ktab
  BY DEF Mapped
<1>1. \A i \in Vpn : i # k => s2.pte[i] = s.pte[i]
  BY DEF Mapped
<1>2. s2.pte[k].pa = mem
  BY SMT DEF Mapped
<1>3. \A i \in Pdx : i # t \/ ~s.tab[t] = 0 => s2.tab[i] = s.tab[i]
  BY DEF Mapped
<1>4. s.tab[t] = 0 => s2.tab[t] = pgtab /\ s.tab[t] = 0
  BY DEF Mapped
<1>5. mem # 0 /\ (s.tab[t] = 0 => pgtab # 0)
  BY ZeroIsNoPage
<1>6. \A i \in Vpn : mem # s.pte[i].pa /\ (s.tab[t] = 0 => pgtab # s.pte[i].pa)
  BY <1>5, InFreevm
<1>7. \A i \in Pdx : mem # s.tab[i] /\ (s.tab[t] = 0 => pgtab # s.tab[i])
  BY <1>5, InFreevm
<1>8. /\ mem # s.dir /\ mem \notin s.ktab
      /\ s.tab[t] = 0 => pgtab # s.dir /\ pgtab \notin s.ktab
  BY <1>5, InFreevm
<1>9. SpaceOK(s2)
  <2>1. \A i \in Vpn : s2.pte[i].pa = 0 => s2.pte[i] = NoPte
    BY <1>1, <1>2, <1>5, SMT DEF SpaceOK
  <2>2. \A i, j \in Vpn : s2.pte[i].pa = s2.pte[j].pa /\ s2.pte[i].pa # 0 => i = j
    BY <1>1, <1>2, <1>6, SMT DEF SpaceOK
  <2>3. \A i, j \in Pdx : s2.tab[i] = s2.tab[j] /\ s2.tab[i] # 0 => i = j
    BY <1>3, <1>4, <1>7, SMT DEF SpaceOK
  <2>4. \A i \in Pdx : s2.tab[i] # 0 => s2.tab[i] # s2.dir /\ s2.tab[i] \notin s2.ktab
    BY <1>3, <1>4, <1>8, <1>s, SMT DEF SpaceOK
  <2>5. s2.dir \notin s2.ktab
    BY <1>s, SMT DEF SpaceOK
  <2>6. \A i \in Vpn : s2.pte[i].pa # 0 => s2.pte[i].pa # s2.dir /\ s2.pte[i].pa \notin s2.ktab
    BY <1>1, <1>2, <1>8, <1>s, SMT DEF SpaceOK
  <2>7. \A i \in Vpn, j \in Pdx : s2.pte[i].pa # 0 => s2.pte[i].pa # s2.tab[j]
    BY <1>1, <1>2, <1>3, <1>4, <1>6, <1>7, SMT DEF SpaceOK
  <2> QED
    BY <2>1, <2>2, <2>3, <2>4, <2>5, <2>6, <2>7, SMT DEF SpaceOK
<1>10. freevm(s2) = freevm(s) \cup ({mem} \cup IF s.tab[t] = 0 THEN {pgtab} ELSE {})
  <2>1. ASSUME NEW v \in freevm(s)
        PROVE  v \in freevm(s2)
    <3>1. v # 0 /\ (v = s.dir \/ v \in s.ktab \/ (\E i \in Pdx : v = s.tab[i])
                    \/ \E i \in Vpn : v = s.pte[i].pa)
      BY InFreevm
    <3>2. ASSUME NEW i \in Pdx, v = s.tab[i]
          PROVE  v = s2.tab[i]
      BY <1>3, <1>4, <3>1, <3>2
    <3>3. ASSUME NEW i \in Vpn, v = s.pte[i].pa
          PROVE  v = s2.pte[i].pa
      BY <1>1, <3>1, <3>3
    <3> QED
      BY <3>1, <3>2, <3>3, <1>s, InFreevm
  <2>2. mem \in freevm(s2)
    BY <1>s, <1>2, <1>5, InFreevm, SMT
  <2>3. s.tab[t] = 0 => pgtab \in freevm(s2)
    BY <1>s, <1>4, <1>5, InFreevm, SMT
  <2>4. ASSUME NEW v \in freevm(s2)
        PROVE  v \in freevm(s) \/ v = mem \/ (s.tab[t] = 0 /\ v = pgtab)
    <3>1. v # 0 /\ (v = s2.dir \/ v \in s2.ktab \/ (\E i \in Pdx : v = s2.tab[i])
                    \/ \E i \in Vpn : v = s2.pte[i].pa)
      BY <1>s, InFreevm, SMT
    <3>2. ASSUME NEW i \in Pdx, v = s2.tab[i]
          PROVE  v = s.tab[i] \/ (s.tab[t] = 0 /\ v = pgtab)
      BY <1>3, <1>4, <3>2
    <3>3. ASSUME NEW i \in Vpn, v = s2.pte[i].pa
          PROVE  v = s.pte[i].pa \/ v = mem
      BY <1>1, <1>2, <3>3
    <3> QED
      BY <3>1, <3>2, <3>3, <1>s, InFreevm
  <2> QED
    BY <2>1, <2>2, <2>3, <2>4
<1>11. Upto(s2, k + 1)
  <2>1. \A i \in Vpn : i < k + 1 <=> i < k \/ i = k
    BY KernPages, SMT DEF Vpn
  <2> QED
    BY <1>1, <1>2, <1>5, <2>1 DEF Upto
<1>12. s2.pte[k].u = u
  BY SMT DEF Mapped
<1> QED
  BY <1>1, <1>2, <1>9, <1>10, <1>11, <1>12 DEF OneMore, PageAndTable

\* What deallocuvm() leaves, field by field: pages from lo to below hi are gone.
Cut(s, lo, hi, s2) ==
    /\ s2 \in Space
    /\ s2.dir = s.dir /\ s2.ktab = s.ktab /\ s2.tab = s.tab
    /\ \A i \in Vpn : s2.pte[i] = IF lo <= i /\ i < hi THEN NoPte ELSE s.pte[i]

\* deallocuvm() clears the entries between the two sizes.
LEMMA DeallocFields ==
  ASSUME NEW s \in Space, NEW oldsz \in Nat, NEW newsz \in Nat
  PROVE  Cut(s, Pages(newsz), Pages(oldsz), deallocuvm(s, oldsz, newsz))
<1> DEFINE s2 == deallocuvm(s, oldsz, newsz)
<1> DEFINE pte2 == [i \in Vpn |-> IF PGROUNDUP(newsz) <= i * PGSIZE /\ i * PGSIZE < oldsz
                                  THEN NoPte ELSE s.pte[i]]
<1>1. s2 = [s EXCEPT !.pte = pte2]
  BY DEF deallocuvm
<1>2. pte2 \in [Vpn -> [pa : Page \cup {0}, u : BOOLEAN]]
  BY SMT DEF Space, NoPte
<1>3. /\ s2 \in Space /\ s2.pte = pte2
      /\ s2.dir = s.dir /\ s2.ktab = s.ktab /\ s2.tab = s.tab
  <2> HIDE DEF pte2, s2
  <2> QED
    BY <1>1, <1>2, SMT DEF Space
<1>4. ASSUME NEW i \in Vpn
      PROVE  /\ PGROUNDUP(newsz) <= i * PGSIZE <=> Pages(newsz) <= i
             /\ i * PGSIZE < oldsz <=> i < Pages(oldsz)
  <2>1. i \in Nat
    BY KernPages, SMT DEF Vpn
  <2>2. Pages(newsz) \in Nat /\ PGROUNDUP(newsz) = Pages(newsz) * PGSIZE
    BY PagesOf
  <2>3. i * PGSIZE < Pages(newsz) * PGSIZE <=> i < Pages(newsz)
    BY <2>1, <2>2, Constants, MulMono, SMT
  <2>4. i * PGSIZE < oldsz <=> i < Pages(oldsz)
    BY <2>1, PagesOf
  <2> QED
    BY <2>1, <2>2, <2>3, <2>4, Constants, SMT
<1> HIDE DEF s2
<1> QED
  BY <1>3, <1>4 DEF Cut, s2

\* The pages that deallocuvm() frees are exactly the ones it unmaps.
LEMMA DeallocSpace ==
  ASSUME NEW s \in Space, SpaceOK(s), NEW oldsz \in Nat, NEW newsz \in Nat,
         NEW s2, Cut(s, Pages(newsz), Pages(oldsz), s2)
  PROVE  /\ s2 \in Space /\ SpaceOK(s2)
         /\ freevm(s2) = freevm(s) \ FreedBetween(s, oldsz, newsz)
         /\ FreedBetween(s, oldsz, newsz) \subseteq freevm(s)
<1> DEFINE C(i) == Pages(newsz) <= i /\ i < Pages(oldsz)
<1> DEFINE F == FreedBetween(s, oldsz, newsz)
<1>1. /\ s2 \in Space
      /\ s2.dir = s.dir /\ s2.ktab = s.ktab /\ s2.tab = s.tab
      /\ \A i \in Vpn : s2.pte[i] = IF C(i) THEN NoPte ELSE s.pte[i]
  BY DEF Cut
<1>2. \A v : v \in F <=> v # 0 /\ \E i \in Vpn : C(i) /\ v = s.pte[i].pa
  <2>1. ASSUME NEW i \in Vpn
        PROVE  PGROUNDUP(newsz) <= i * PGSIZE /\ i * PGSIZE < oldsz <=> C(i)
    <3>1. i \in Nat
      BY KernPages, SMT DEF Vpn
    <3>2. Pages(newsz) \in Nat /\ PGROUNDUP(newsz) = Pages(newsz) * PGSIZE
      BY PagesOf
    <3>3. i * PGSIZE < Pages(newsz) * PGSIZE <=> i < Pages(newsz)
      BY <3>1, <3>2, Constants, MulMono, SMT
    <3>4. i * PGSIZE < oldsz <=> i < Pages(oldsz)
      BY <3>1, PagesOf
    <3> QED
      BY <3>1, <3>2, <3>3, <3>4, Constants, SMT
  <2> QED
    BY <2>1 DEF FreedBetween
<1> HIDE DEF C, F
<1>3. NoPte.pa = 0
  BY DEF NoPte
<1>4. SpaceOK(s2)
  BY <1>1, <1>3, SMT DEF SpaceOK
<1>5. ASSUME NEW v
      PROVE  v \in freevm(s2) <=> v \in freevm(s) /\ v \notin F
  <2>1. ASSUME v \in freevm(s2)
        PROVE  v \in freevm(s) /\ v \notin F
    BY <1>1, <1>2, <1>3, <2>1, InFreevm, SMT DEF SpaceOK
  <2>2. ASSUME v \in freevm(s), v \notin F
        PROVE  v \in freevm(s2)
    BY <1>1, <1>2, <2>2, InFreevm, SMT
  <2> QED
    BY <2>1, <2>2
<1>6. F \subseteq freevm(s)
  BY <1>2, InFreevm
<1> QED
  BY <1>1, <1>4, <1>5, <1>6 DEF F

\* After deallocuvm() the pages below the new size are mapped.
LEMMA DeallocUpto ==
  ASSUME NEW s \in Space, NEW oldsz \in Nat, NEW newsz \in Nat, NEW k \in Nat,
         Upto(s, k), Pages(newsz) <= k, k <= Pages(oldsz),
         NEW s2, Cut(s, Pages(newsz), Pages(oldsz), s2)
  PROVE  Upto(s2, Pages(newsz))
<1>1. \A i \in Vpn : i \in Nat
  BY KernPages, SMT DEF Vpn
<1>2. Pages(newsz) \in Nat /\ Pages(oldsz) \in Nat
  BY PagesOf
<1>3. \A i \in Vpn : s2.pte[i] = IF Pages(newsz) <= i /\ i < Pages(oldsz)
                                 THEN NoPte ELSE s.pte[i]
  BY DEF Cut
<1> QED
  BY <1>1, <1>2, <1>3, SMT DEF Upto, NoPte

\* clearpteu() takes no page away.
Cleared(s, s2) ==
    /\ s2 \in Space /\ SpaceOK(s2) /\ freevm(s2) = freevm(s) /\ s2.dir = s.dir
    /\ \A i \in Vpn : s2.pte[i].pa = s.pte[i].pa

\* clearpteu() takes the user bit of a page and nothing else.
LEMMA ClearSpace ==
  ASSUME NEW s \in Space, SpaceOK(s), NEW a \in Nat, a \div PGSIZE \in Vpn,
         s.pte[a \div PGSIZE].pa # 0, NEW s2, s2 = clearpteu(s, a)
  PROVE  Cleared(s, s2)
<1> DEFINE k == a \div PGSIZE
<1> DEFINE pte2 == [s.pte EXCEPT ![k].u = FALSE]
<1>1. s2 = [s EXCEPT !.pte = pte2]
  BY DEF clearpteu
<1>2. s.pte \in [Vpn -> [pa : Page \cup {0}, u : BOOLEAN]]
  BY DEF Space
<1>3. /\ pte2 \in [Vpn -> [pa : Page \cup {0}, u : BOOLEAN]]
      /\ \A i \in Vpn : pte2[i].pa = s.pte[i].pa /\ (i # k => pte2[i] = s.pte[i])
  <2> HIDE DEF k
  <2>1. s.pte[k] \in [pa : Page \cup {0}, u : BOOLEAN]
    BY <1>2 DEF k
  <2>2. [s.pte[k] EXCEPT !.u = FALSE] \in [pa : Page \cup {0}, u : BOOLEAN]
    BY <2>1
  <2>3. [s.pte[k] EXCEPT !.u = FALSE].pa = s.pte[k].pa
    BY <2>1
  <2>4. pte2 = [s.pte EXCEPT ![k] = [s.pte[k] EXCEPT !.u = FALSE]]
    OBVIOUS
  <2>5. k \in Vpn
    BY DEF k
  <2> QED
    BY <1>2, <2>2, <2>3, <2>4, <2>5
<1>4. /\ s2 \in Space /\ s2.pte = pte2
      /\ s2.dir = s.dir /\ s2.ktab = s.ktab /\ s2.tab = s.tab
  <2> HIDE DEF pte2
  <2> QED
    BY <1>1, <1>3, SMT DEF Space
<1>5. \A i \in Vpn : s2.pte[i].pa = s.pte[i].pa /\ (i # k => s2.pte[i] = s.pte[i])
  BY <1>3, <1>4
<1> HIDE DEF k, pte2
<1>6. s.pte[k].pa # 0
  BY DEF k
<1>7. SpaceOK(s2)
  BY <1>4, <1>5, <1>6, SMT DEF SpaceOK
<1>8. freevm(s2) = freevm(s)
  <2>1. \A v : v \in freevm(s2) <=> v \in freevm(s)
    BY <1>4, <1>5, InFreevm, SMT
  <2> QED
    BY <2>1
<1> QED
  BY <1>4, <1>5, <1>7, <1>8 DEF Cleared

\* The space of setupkvm(), or, with no pages, of a process that has none.
LEMMA SetupSpace ==
  ASSUME NEW d \in Page \cup {0}, NEW T \in SUBSET Page, d \notin T
  PROVE  /\ setupkvm(d, T) \in Space /\ SpaceOK(setupkvm(d, T))
         /\ freevm(setupkvm(d, T)) = ({d} \cup T) \ {0}
         /\ \A i \in Vpn : setupkvm(d, T).pte[i].pa = 0
<1> DEFINE s2 == setupkvm(d, T)
<1>1. /\ s2.dir = d /\ s2.ktab = T /\ s2.tab = [i \in Pdx |-> 0]
      /\ s2.pte = [i \in Vpn |-> NoPte]
  BY SMT DEF setupkvm
<1>2. NoPte.pa = 0 /\ NoPte \in [pa : Page \cup {0}, u : BOOLEAN]
  BY SMT DEF NoPte
<1>3. s2 \in Space
  BY <1>2 DEF Space, setupkvm
<1> HIDE DEF s2
<1>4. /\ \A i \in Vpn : s2.pte[i] = NoPte /\ s2.pte[i].pa = 0
      /\ \A i \in Pdx : s2.tab[i] = 0
  BY <1>1, <1>2
<1>5. SpaceOK(s2)
  BY <1>1, <1>4 DEF SpaceOK
<1>6. \A v : v \in freevm(s2) <=> v # 0 /\ (v = d \/ v \in T)
  BY <1>1, <1>3, <1>4, InFreevm, SMT
<1> QED
  BY <1>3, <1>4, <1>5, <1>6 DEF s2

\* A process without an address space owns no page through it.
LEMMA NoSpaceOK ==
  /\ NoSpace \in Space /\ SpaceOK(NoSpace) /\ freevm(NoSpace) = {}
  /\ \A i \in Vpn : NoSpace.pte[i].pa = 0
  /\ NoSpace.dir = 0 /\ NoSpace.ktab = {} /\ NoSpace = setupkvm(NoSpace.dir, NoSpace.ktab)
<1>1. 0 \in Page \cup {0} /\ {} \in SUBSET Page /\ 0 \notin {}
  OBVIOUS
<1>2. NoSpace = setupkvm(0, {})
  BY DEF NoSpace
<1>3. PICK d \in Page \cup {0}, T \in SUBSET Page : d = 0 /\ T = {} /\ d \notin T
  BY <1>1
<1>4. /\ setupkvm(d, T) \in Space /\ SpaceOK(setupkvm(d, T))
      /\ freevm(setupkvm(d, T)) = ({d} \cup T) \ {0}
      /\ \A i \in Vpn : setupkvm(d, T).pte[i].pa = 0
  BY <1>3, SetupSpace
<1>5. NoSpace.dir = 0 /\ NoSpace.ktab = {}
  BY <1>2 DEF setupkvm
<1> QED
  BY <1>2, <1>3, <1>4, <1>5

-----------------------------------------------------------------------------
\* kalloc() returns a page of the free list.
LEMMA TakeOne ==
  ASSUME NEW S, S # {}
  PROVE  kalloc(S) \in S
BY DEF kalloc

-----------------------------------------------------------------------------
\* The free list without the pages T, and with the pages S once more.
Minus(fr, T) == [v \in Page |-> IF v \in T THEN fr[v] - 1 ELSE fr[v]]
Plus(fr, S) == [v \in Page |-> IF v \in S THEN fr[v] + 1 ELSE fr[v]]

\* Pages change hands: they are taken from the free list, freed, or passed on.
LEMMA PartTake ==
  ASSUME NEW H \in [Proc -> SUBSET Page], NEW P, NEW fr \in [Page -> {0, 1}],
         Parted(H, P, fr), NEW p \in Proc, NEW T, \A v \in T : v \in Page /\ fr[v] > 0
  PROVE  /\ Parted([H EXCEPT ![p] = H[p] \cup T], P, Minus(fr, T))
         /\ Minus(fr, T) \in [Page -> {0, 1}]
<1> DEFINE H2 == [H EXCEPT ![p] = H[p] \cup T]
<1> DEFINE fr2 == Minus(fr, T)
<1>h. H2[p] = H[p] \cup T /\ \A q \in Proc : q # p => H2[q] = H[q]
  OBVIOUS
<1>f. fr2 = [v \in Page |-> IF v \in T THEN fr[v] - 1 ELSE fr[v]]
  BY DEF Minus
<1> HIDE DEF H2, fr2
<1>1. \A v \in Page : fr[v] = 0 \/ fr[v] = 1
  OBVIOUS
<1>2. \A v \in T : v \in Page /\ fr[v] = 1
  BY <1>1, SMT
<1>3. \A v \in Page : fr2[v] = IF v \in T THEN 0 ELSE fr[v]
  BY <1>2, <1>f, SMT
<1>4. fr2 \in [Page -> {0, 1}]
  BY <1>1, <1>3, <1>f
<1>5. \A v \in T : v \notin P /\ \A q \in Proc : v \notin H[q]
  BY <1>2, SMT DEF Parted
<1>6. \A q, r \in Proc : \A v \in H2[q] : v \in H2[r] => q = r
  <2>1. \A q \in Proc : \A v \in H2[q] : v \in H[q] \/ (q = p /\ v \in T)
    BY <1>h
  <2>2. \A q, r \in Proc : \A v \in H[q] : v \in H[r] => q = r
    BY DEF Parted
  <2> QED
    BY <1>5, <2>1, <2>2
<1>7. \A q \in Proc : \A v \in H2[q] : v \notin P
  BY <1>5, <1>h DEF Parted
<1>8. ASSUME NEW v \in Page
      PROVE  fr2[v] = 0 <=> v \in P \/ \E q \in Proc : v \in H2[q]
  <2>1. CASE v \in T
    BY <1>3, <1>h, <2>1
  <2>2. CASE v \notin T
    <3>1. fr2[v] = fr[v]
      BY <1>3, <2>2
    <3>2. (\E q \in Proc : v \in H2[q]) <=> \E q \in Proc : v \in H[q]
      BY <1>h, <2>2
    <3> QED
      BY <3>1, <3>2 DEF Parted
  <2> QED
    BY <2>1, <2>2
<1> QED
  BY <1>4, <1>6, <1>7, <1>8 DEF Parted, H2, fr2

\* kfree() of pages of a process.
LEMMA PartFree ==
  ASSUME NEW H \in [Proc -> SUBSET Page], NEW P, NEW fr \in [Page -> {0, 1}],
         Parted(H, P, fr), NEW S, \A v \in S : v \in Page => \E p \in Proc : v \in H[p]
  PROVE  /\ Parted([q \in Proc |-> H[q] \ S], P, Plus(fr, S))
         /\ Plus(fr, S) \in [Page -> {0, 1}]
<1> DEFINE H2 == [q \in Proc |-> H[q] \ S]
<1> DEFINE fr2 == Plus(fr, S)
<1>h. \A q \in Proc : H2[q] = H[q] \ S
  OBVIOUS
<1>f. fr2 = [v \in Page |-> IF v \in S THEN fr[v] + 1 ELSE fr[v]]
  BY DEF Plus
<1> HIDE DEF H2, fr2
<1>1. \A v \in Page : fr[v] = 0 \/ fr[v] = 1
  OBVIOUS
<1>2. \A v \in S : v \in Page => fr[v] = 0 /\ v \notin P
  BY DEF Parted
<1>3. \A v \in Page : fr2[v] = IF v \in S THEN 1 ELSE fr[v]
  BY <1>2, <1>f, SMT
<1>4. fr2 \in [Page -> {0, 1}]
  BY <1>1, <1>3, <1>f
<1>5. \A q \in Proc : \A v \in H2[q] : v \in H[q]
  BY <1>h
<1>6. \A q, r \in Proc : \A v \in H2[q] : v \in H2[r] => q = r
  <2>1. \A q, r \in Proc : \A v \in H[q] : v \in H[r] => q = r
    BY DEF Parted
  <2> QED
    BY <1>5, <2>1
<1>7. \A q \in Proc : \A v \in H2[q] : v \notin P
  BY <1>5 DEF Parted
<1>8. ASSUME NEW v \in Page
      PROVE  fr2[v] = 0 <=> v \in P \/ \E q \in Proc : v \in H2[q]
  <2>1. CASE v \in S
    BY <1>2, <1>3, <1>h, <2>1, SMT
  <2>2. CASE v \notin S
    <3>1. fr2[v] = fr[v]
      BY <1>3, <2>2
    <3>2. (\E q \in Proc : v \in H2[q]) <=> \E q \in Proc : v \in H[q]
      BY <1>h, <2>2
    <3> QED
      BY <3>1, <3>2 DEF Parted
  <2> QED
    BY <2>1, <2>2
<1> QED
  BY <1>4, <1>6, <1>7, <1>8 DEF Parted, H2, fr2

\* A parent passes pages to its child.
LEMMA PartMove ==
  ASSUME NEW H \in [Proc -> SUBSET Page], NEW P, NEW fr,
         Parted(H, P, fr), NEW p \in Proc, NEW c \in Proc, p # c,
         NEW M, M \subseteq H[p]
  PROVE  Parted([H EXCEPT ![p] = H[p] \ M, ![c] = H[c] \cup M], P, fr)
<1> DEFINE H2 == [H EXCEPT ![p] = H[p] \ M, ![c] = H[c] \cup M]
<1>h. /\ H2[p] = H[p] \ M /\ H2[c] = H[c] \cup M
      /\ \A q \in Proc : q # p /\ q # c => H2[q] = H[q]
  OBVIOUS
<1> HIDE DEF H2
<1>1. \A q, r \in Proc : \A v \in H2[q] : v \in H2[r] => q = r
  <2>1. \A q \in Proc : \A v \in H2[q] :
           (v \in H[q] /\ (q = p => v \notin M)) \/ (q = c /\ v \in M /\ v \in H[p])
    BY <1>h
  <2> QED
    BY <2>1 DEF Parted
<1>2. \A q \in Proc : \A v \in H2[q] : v \notin P
  BY <1>h DEF Parted
<1>3. \A v : (\E q \in Proc : v \in H2[q]) <=> \E q \in Proc : v \in H[q]
  BY <1>h
<1> QED
  BY <1>1, <1>2, <1>3 DEF Parted, H2

-----------------------------------------------------------------------------
\* The fields of a process.
LEMMA ProcessType ==
  ASSUME NEW r \in Process
  PROVE  /\ r.at \in State /\ r.kstack \in Page \cup {0}
         /\ r.pgdir \in Space /\ r.new \in Space
         /\ r.sz \in 0 .. KERNBASE - 1 /\ r.nsz \in 0 .. KERNBASE - 1
         /\ r.a \in 0 .. KERNBASE /\ r.to \in 0 .. KERNBASE - 1
         /\ r.segs \in Seq(Segment) /\ r.kid \in Proc \cup {0} /\ r.mem \in Page \cup {0}
BY DEF Process

\* freevm() frees pages.
LEMMA FreevmPages ==
  ASSUME NEW s \in Space
  PROVE  freevm(s) \subseteq Page
BY SpaceType, InFreevm, SMT

\* A page of a process is its kernel stack, in its hand or in one of its
\* address spaces.
LEMMA InOwned ==
  ASSUME NEW r \in Process, NEW v
  PROVE  /\ v \in Owned(r) <=> \/ v = r.kstack /\ v # 0
                               \/ v = r.mem /\ v # 0
                               \/ v \in freevm(r.pgdir)
                               \/ v \in freevm(r.new)
         /\ v \in Owned(r) => v \in Page
<1>1. /\ freevm(r.pgdir) \subseteq Page /\ freevm(r.new) \subseteq Page
      /\ r.kstack \in Page \cup {0} /\ r.mem \in Page \cup {0}
  BY ProcessType, FreevmPages
<1> QED
  BY <1>1, ZeroIsNoPage DEF Owned

\* A loop that is over, and a call without a loop, have no page in hand.
LEMMA EmptyHand ==
  ASSUME NEW r \in Process, Layout(r),
         r.at \notin {"sbrk", "copy", "load", "stack"} \/ r.a >= r.to
  PROVE  r.mem = 0
<1>1. r.a \in Nat /\ r.to \in Nat
  BY ProcessType, Constants, SMT
<1>2. r.a >= r.to => ~(r.a < r.to)
  BY <1>1, SMT
<1> QED
  BY <1>2 DEF Layout

\* A step that leaves the pages of a process alone leaves them filled.
LEMMA FilledFrame ==
  ASSUME NEW r \in Process, NEW d, Filled(r, d), NEW d2, SameOn(Owned(r), d, d2)
  PROVE  Filled(r, d2)
<1>1. r.pgdir \in Space /\ r.new \in Space
  BY ProcessType
<1>2. ASSUME NEW i \in Vpn
      PROVE  /\ r.pgdir.pte[i].pa # 0 => d2[r.pgdir.pte[i].pa] = d[r.pgdir.pte[i].pa]
             /\ r.new.pte[i].pa # 0 => d2[r.new.pte[i].pa] = d[r.new.pte[i].pa]
  <2>1. r.pgdir.pte[i].pa # 0 => r.pgdir.pte[i].pa \in Owned(r)
    BY <1>1, InFreevm, InOwned
  <2>2. r.new.pte[i].pa # 0 => r.new.pte[i].pa \in Owned(r)
    BY <1>1, InFreevm, InOwned
  <2> QED
    BY <2>1, <2>2 DEF SameOn
<1>3. Clean(r.pgdir, d2) /\ Clean(r.new, d2)
  BY <1>2 DEF Filled, Clean
<1>4. r.at = "copy" => Copied(r, d2)
  BY <1>2 DEF Filled, Copied
<1>5. r.at = "sbrk" => Zeroed(r, d2)
  BY <1>2 DEF Filled, Zeroed
<1>6. ASSUME r.mem # 0
      PROVE  Due(r, d2, d2[r.mem])
  <2>1. d2[r.mem] = d[r.mem]
    BY <1>6, InOwned DEF SameOn
  <2>2. Due(r, d, d[r.mem])
    BY <1>6 DEF Filled
  <2> QED
    BY <1>2, <2>1, <2>2 DEF Due
<1> QED
  BY <1>3, <1>4, <1>5, <1>6 DEF Filled

\* Holding gives every process its pages.
LEMMA HoldingType ==
  ASSUME proc \in [Proc -> Process]
  PROVE  Holding \in [Proc -> SUBSET Page] /\ \A p \in Proc : Holding[p] = Owned(proc[p])
<1>1. \A p \in Proc : Owned(proc[p]) \in SUBSET Page
  BY InOwned
<1> QED
  BY <1>1 DEF Holding

\* The process that forks, and its child.
LEMMA KidsOne ==
  ASSUME IInv, NEW p \in Proc, NEW r2 \in Process, proc' = [proc EXCEPT ![p] = r2],
         proc[p].at # "EMBRYO",
         Forking(r2) => Forking(proc[p]) /\ r2.kid = proc[p].kid
  PROVE  Kids'
<1>1. proc \in [Proc -> Process] /\ Kids
  BY DEF IInv, TypeOK
<1>2. \A q \in Proc : q # p => proc'[q] = proc[q]
  BY <1>1
<1>3. proc'[p] = r2
  BY <1>1
<1>4. \A q \in Proc : Forking(proc'[q]) => Forking(proc[q]) /\ proc'[q].kid = proc[q].kid
  BY <1>2, <1>3
<1>5. ASSUME NEW q \in Proc, Forking(proc'[q])
      PROVE  /\ proc'[q].kid \in Proc
             /\ proc'[proc'[q].kid].at = "EMBRYO"
             /\ \A z \in Proc : Forking(proc'[z]) /\ proc'[z].kid = proc'[q].kid => z = q
  <2>1. Forking(proc[q]) /\ proc'[q].kid = proc[q].kid
    BY <1>4, <1>5
  <2>2. PICK c \in Proc : c = proc[q].kid /\ proc[c].at = "EMBRYO"
    BY <1>1, <2>1 DEF Kids
  <2>3. proc'[c] = proc[c]
    BY <1>2, <2>2
  <2>4. \A z \in Proc : Forking(proc[z]) /\ proc[z].kid = proc[q].kid => z = q
    BY <1>1, <2>1 DEF Kids
  <2> QED
    BY <1>4, <2>1, <2>2, <2>3, <2>4
<1> QED
  BY <1>5 DEF Kids, Forking

\* The memory below the size of process r is the one of r2.
SameBelow(r, r2, d, d2) ==
    /\ r2.sz = r.sz
    /\ \A i \in Below(r.sz) :
          /\ r2.pgdir.pte[i] = r.pgdir.pte[i]
          /\ r.pgdir.pte[i].pa # 0 => d2[r.pgdir.pte[i].pa] = d[r.pgdir.pte[i].pa]

\* The image of a process whose own pages are left alone.
LEMMA SameImage ==
  ASSUME NEW q \in Proc, SameBelow(proc[q], proc'[q], data, data')
  PROVE  Image(q)' = Image(q)
<1>1. PICK B : B = Below(proc[q].sz)
  OBVIOUS
<1>2. Below(proc'[q].sz) = B
  BY <1>1 DEF SameBelow
<1>3. \A i \in B : LET e == proc[q].pgdir.pte[i]
                   IN  proc'[q].pgdir.pte[i] = e /\ (e.pa # 0 => data'[e.pa] = data[e.pa])
  BY <1>1 DEF SameBelow
<1> DEFINE F(e) == IF e.pa = 0 THEN <<"none", FALSE>> ELSE <<data[e.pa], e.u>>
<1> DEFINE G(e) == IF e.pa = 0 THEN <<"none", FALSE>> ELSE <<data'[e.pa], e.u>>
<1>4. Image(q) = [i \in B |-> F(proc[q].pgdir.pte[i])]
  BY <1>1 DEF Image
<1>5. Image(q)' = [i \in B |-> G(proc'[q].pgdir.pte[i])]
  BY <1>2 DEF Image
<1>6. \A i \in B : G(proc'[q].pgdir.pte[i]) = F(proc[q].pgdir.pte[i])
  <2>1. TAKE i \in B
  <2>2. PICK e : e = proc[q].pgdir.pte[i]
    OBVIOUS
  <2>3. proc'[q].pgdir.pte[i] = e /\ (e.pa # 0 => data'[e.pa] = data[e.pa])
    BY <1>3, <2>2
  <2>4. G(e) = F(e)
    BY <2>3
  <2> QED
    BY <2>2, <2>3, <2>4
<1> HIDE DEF F, G
<1> QED
  BY <1>4, <1>5, <1>6

\* A process that keeps its address space and its size keeps its memory.
LEMMA SamePgdir ==
  ASSUME NEW r \in Process, NEW r2, r2.pgdir = r.pgdir, r2.sz = r.sz,
         NEW d, NEW d2, SameOn(freevm(r.pgdir), d, d2)
  PROVE  SameBelow(r, r2, d, d2)
<1>1. \A i \in Vpn : r.pgdir.pte[i].pa # 0 => r.pgdir.pte[i].pa \in freevm(r.pgdir)
  BY ProcessType, InFreevm
<1>2. Below(r.sz) \subseteq Vpn
  BY DEF Below
<1> QED
  BY <1>1, <1>2 DEF SameBelow, SameOn

\* A step of process p alone, whose record becomes r2.
LEMMA StepOne ==
  ASSUME IInv, NEW p \in Proc, NEW r2 \in Process, proc' = [proc EXCEPT ![p] = r2],
         Layout(r2), Apart(r2), Filled(r2, data'),
         data' \in [Page -> {"junk", "zero", "image"}],
         \A q \in Proc : q # p => \A v \in Owned(proc[q]) : data'[v] = data[v],
         free' \in [Page -> {0, 1}], pipes' \subseteq Page,
         Parted(Holding', pipes', free'), proc[p].at # "EMBRYO", Kids', panicked' = FALSE,
         Image(p)' = Image(p) \/ Replaced(p)
  PROVE  IInv' /\ KeepImages
<1>1. proc \in [Proc -> Process]
  BY DEF IInv, TypeOK
<1>2. proc'[p] = r2 /\ \A q \in Proc : q # p => proc'[q] = proc[q]
  BY <1>1
<1>3. TypeOK'
  BY <1>1 DEF TypeOK
<1>4. ASSUME NEW q \in Proc
      PROVE  Layout(proc'[q]) /\ Apart(proc'[q]) /\ Filled(proc'[q], data')
  <2>1. CASE q = p
    BY <1>2, <2>1
  <2>2. CASE q # p
    <3>1. proc[q] \in Process /\ Layout(proc[q]) /\ Apart(proc[q]) /\ Filled(proc[q], data)
      BY <1>1 DEF IInv
    <3>2. \A v \in Owned(proc[q]) : data'[v] = data[v]
      BY <2>2
    <3>3. PICK r \in Process : r = proc[q]
      BY <3>1
    <3>6. Filled(r, data) /\ SameOn(Owned(r), data, data')
      BY <3>1, <3>2, <3>3 DEF SameOn
    <3>7. Filled(r, data')
      BY <3>6, FilledFrame
    <3> QED
      BY <1>2, <2>2, <3>1, <3>3, <3>7
  <2> QED
    BY <2>1, <2>2
<1>5. \A q \in Proc : (Layout(proc[q]) /\ Apart(proc[q]) /\ Filled(proc[q], data))'
  BY <1>4
<1>6. IInv'
  BY <1>3, <1>5 DEF IInv
<1>7. ASSUME NEW q \in Proc, q # p
      PROVE  Image(q)' = Image(q)
  <2>1. PICK r \in Process : r = proc[q] /\ r = proc'[q]
    BY <1>1, <1>2, <1>7
  <2>2. SameOn(freevm(r.pgdir), data, data')
    BY <1>7, <2>1, InOwned DEF SameOn
  <2>3. SameBelow(r, r, data, data')
    BY <2>2, SamePgdir
  <2> QED
    BY <2>1, <2>3, SameImage
<1>8. ASSUME NEW q \in Proc, NEW c \in Proc, Born(q, c)
      PROVE  FALSE
  <2>1. proc[c].at = "EMBRYO" /\ proc'[c].at = "user"
    BY <1>8 DEF IInv, Kids, Forking, Born
  <2> QED
    BY <1>2, <2>1
<1> QED
  BY <1>6, <1>7, <1>8 DEF KeepImages

\* Who holds which page when only p's record changes.
LEMMA HoldingOne ==
  ASSUME proc \in [Proc -> Process], NEW p \in Proc, NEW r2, proc' = [proc EXCEPT ![p] = r2]
  PROVE  Holding' = [Holding EXCEPT ![p] = Owned(r2)]
<1>1. proc'[p] = r2 /\ \A q \in Proc : q # p => proc'[q] = proc[q]
  OBVIOUS
<1>2. Holding' = [q \in Proc |-> Owned(proc'[q])]
  BY DEF Holding
<1>3. Holding = [q \in Proc |-> Owned(proc[q])]
  BY DEF Holding
<1> QED
  BY <1>1, <1>2, <1>3

\* A page of a process is not on the free list.
LEMMA HeldNotFree ==
  ASSUME IInv, NEW q \in Proc, NEW v \in Owned(proc[q])
  PROVE  v \in Page /\ free[v] = 0 /\ v \notin FreePages
<1>1. proc[q] \in Process /\ proc \in [Proc -> Process]
  BY DEF IInv, TypeOK
<1>2. v \in Page
  BY <1>1, InOwned
<1>3. v \in Holding[q]
  BY <1>1, HoldingType
<1>4. Parted(Holding, pipes, free)
  BY DEF IInv
<1>5. free[v] = 0
  BY <1>2, <1>3, <1>4 DEF Parted
<1> QED
  BY <1>2, <1>5, SMT DEF FreePages

\* A process that takes free pages leaves every page with one owner.
LEMMA PartedTake ==
  ASSUME IInv, NEW p \in Proc, NEW r2, proc' = [proc EXCEPT ![p] = r2],
         NEW T, T \subseteq FreePages, Owned(r2) = Owned(proc[p]) \cup T,
         free' = Minus(free, T)
  PROVE  Parted(Holding', pipes, free') /\ free' \in [Page -> {0, 1}]
<1>1. proc \in [Proc -> Process] /\ free \in [Page -> {0, 1}]
  BY DEF IInv, TypeOK
<1>2. PICK H \in [Proc -> SUBSET Page] : H = Holding /\ H[p] = Owned(proc[p])
  BY <1>1, HoldingType
<1>3. PICK fr \in [Page -> {0, 1}] : fr = free
  BY <1>1
<1>4. PICK P : P = pipes
  OBVIOUS
<1>5. Parted(H, P, fr) /\ \A v \in T : v \in Page /\ fr[v] > 0
  BY <1>2, <1>3, <1>4 DEF IInv, FreePages
<1>6. /\ Parted([H EXCEPT ![p] = H[p] \cup T], P, Minus(fr, T))
      /\ Minus(fr, T) \in [Page -> {0, 1}]
  BY <1>5, PartTake
<1>7. Holding' = [H EXCEPT ![p] = H[p] \cup T]
  BY <1>1, <1>2, HoldingOne
<1> QED
  BY <1>3, <1>4, <1>6, <1>7

\* So does a process that frees pages of its own.
LEMMA PartedFree ==
  ASSUME IInv, NEW p \in Proc, NEW r2, proc' = [proc EXCEPT ![p] = r2],
         NEW S, \A v \in S : v \in Page => v \in Owned(proc[p]),
         Owned(r2) = Owned(proc[p]) \ S,
         free' = Plus(free, S)
  PROVE  Parted(Holding', pipes, free') /\ free' \in [Page -> {0, 1}]
<1>1. proc \in [Proc -> Process] /\ free \in [Page -> {0, 1}]
  BY DEF IInv, TypeOK
<1>2. PICK H \in [Proc -> SUBSET Page] : H = Holding /\ \A q \in Proc : H[q] = Owned(proc[q])
  BY <1>1, HoldingType
<1>3. PICK fr \in [Page -> {0, 1}] : fr = free
  BY <1>1
<1>4. PICK P : P = pipes
  OBVIOUS
<1>5. Parted(H, P, fr)
  BY <1>2, <1>3, <1>4 DEF IInv
<1>6. \A v \in S : v \in Page => v \in H[p]
  BY <1>2
<1>7. \A v \in S : v \in Page => \E q \in Proc : v \in H[q]
  BY <1>6
<1>8. /\ Parted([q \in Proc |-> H[q] \ S], P, Plus(fr, S))
      /\ Plus(fr, S) \in [Page -> {0, 1}]
  BY <1>5, <1>7, PartFree
<1>9. \A q \in Proc : q # p => H[q] \ S = H[q]
  <2>1. \A q \in Proc : \A v \in H[q] : v \in Page
    BY <1>2
  <2> QED
    BY <1>5, <1>6, <2>1 DEF Parted
<1>10. Holding' = [H EXCEPT ![p] = Owned(r2)]
  BY <1>1, <1>2, HoldingOne
<1>11. Owned(r2) = H[p] \ S
  BY <1>2
<1>12. Holding' = [q \in Proc |-> H[q] \ S]
  BY <1>9, <1>10, <1>11
<1> QED
  BY <1>3, <1>4, <1>8, <1>12

\* A step that neither takes nor frees pages, nor writes to them.
LEMMA StepQuiet ==
  ASSUME IInv, NEW p \in Proc, NEW r2 \in Process, proc' = [proc EXCEPT ![p] = r2],
         UNCHANGED <<free, data, pipes, panicked>>,
         r2.pgdir = proc[p].pgdir, r2.new = proc[p].new, r2.kstack = proc[p].kstack,
         r2.mem = proc[p].mem, proc[p].at # "EMBRYO",
         Forking(r2) => Forking(proc[p]) /\ r2.kid = proc[p].kid,
         r2.sz = proc[p].sz \/ Replaced(p),
         Layout(r2), Filled(r2, data)
  PROVE  IInv' /\ KeepImages
<1>1. proc \in [Proc -> Process] /\ proc[p] \in Process /\ data \in [Page -> {"junk", "zero", "image"}]
      /\ free \in [Page -> {0, 1}] /\ pipes \subseteq Page
  BY DEF IInv, TypeOK
<1>2. Apart(proc[p]) /\ panicked = FALSE
  BY DEF IInv, TypeOK
<1>3. Apart(r2)
  BY <1>2 DEF Apart
<1>4. Filled(r2, data')
  OBVIOUS
<1>5. Owned(r2) = Owned(proc[p])
  BY DEF Owned
<1>6. Holding' = Holding
  <2>1. \A q \in Proc : Owned(proc'[q]) = Owned(proc[q])
    BY <1>1, <1>5
  <2> QED
    BY <2>1 DEF Holding
<1>7. Parted(Holding', pipes', free')
  BY <1>6 DEF IInv
<1>8. Kids'
  BY KidsOne
<1>9. Image(p)' = Image(p) \/ Replaced(p)
  <2>1. ASSUME r2.sz = proc[p].sz
        PROVE  SameBelow(proc[p], r2, data, data')
    BY <2>1 DEF SameBelow
  <2>2. proc'[p] = r2
    BY <1>1
  <2> QED
    BY <2>1, <2>2, SameImage
<1> QED
  BY <1>1, <1>2, <1>3, <1>4, <1>7, <1>8, <1>9, StepOne

\* A step that takes the pages of T from the free list.
LEMMA StepTake ==
  ASSUME IInv, NEW p \in Proc, NEW r2 \in Process, proc' = [proc EXCEPT ![p] = r2],
         NEW T, T \subseteq FreePages, Owned(r2) = Owned(proc[p]) \cup T,
         free' = Minus(free, T),
         data' \in [Page -> {"junk", "zero", "image"}],
         \A v \in Page : v \notin T => data'[v] = data[v],
         pipes' = pipes, panicked' = FALSE,
         proc[p].at # "EMBRYO",
         Forking(r2) => Forking(proc[p]) /\ r2.kid = proc[p].kid,
         SameBelow(proc[p], r2, data, data'),
         Layout(r2), Apart(r2), Filled(r2, data')
  PROVE  IInv' /\ KeepImages
<1>1. proc \in [Proc -> Process] /\ proc[p] \in Process
      /\ free \in [Page -> {0, 1}] /\ pipes \subseteq Page
  BY DEF IInv, TypeOK
<1>4. \A q \in Proc : \A v \in Owned(proc[q]) : v \in Page /\ v \notin T
  BY HeldNotFree
<1>5. Parted(Holding', pipes', free') /\ free' \in [Page -> {0, 1}]
  BY PartedTake
<1>6. \A q \in Proc : \A v \in Owned(proc[q]) : data'[v] = data[v]
  BY <1>4
<1>7. Kids'
  BY KidsOne
<1>8. Image(p)' = Image(p)
  <2>1. proc'[p] = r2
    BY <1>1
  <2> QED
    BY <2>1, SameImage
<1> QED
  BY <1>1, <1>5, <1>6, <1>7, <1>8, StepOne

\* A step that frees the pages of S, which are p's, or writes to pages of p.
LEMMA StepFree ==
  ASSUME IInv, NEW p \in Proc, NEW r2 \in Process, proc' = [proc EXCEPT ![p] = r2],
         NEW S, \A v \in S : v \in Page => v \in Owned(proc[p]),
         Owned(r2) = Owned(proc[p]) \ S,
         free' = Plus(free, S),
         data' \in [Page -> {"junk", "zero", "image"}],
         \A v \in Page : v \notin Owned(proc[p]) => data'[v] = data[v],
         pipes' = pipes, panicked' = FALSE,
         proc[p].at # "EMBRYO", ~Forking(r2),
         Image(p)' = Image(p) \/ Replaced(p),
         Layout(r2), Apart(r2), Filled(r2, data')
  PROVE  IInv' /\ KeepImages
<1>1. proc \in [Proc -> Process] /\ proc[p] \in Process /\ pipes \subseteq Page
  BY DEF IInv, TypeOK
<1>2. Parted(Holding', pipes', free') /\ free' \in [Page -> {0, 1}]
  BY PartedFree
<1>3. Kids'
  BY KidsOne
<1>4. ASSUME NEW q \in Proc, q # p, NEW v \in Owned(proc[q])
      PROVE  data'[v] = data[v]
  <2>1. v \in Page
    BY HeldNotFree
  <2>2. v \in Holding[q] /\ Holding[p] = Owned(proc[p])
    BY <1>1, HoldingType
  <2>3. v \notin Holding[p]
    BY <1>4, <2>2 DEF IInv, Parted
  <2> QED
    BY <2>1, <2>2, <2>3
<1> QED
  BY <1>1, <1>2, <1>3, <1>4, StepOne

-----------------------------------------------------------------------------
\* Rounding up does not leave user memory.
LEMMA RoundUp ==
  ASSUME NEW n \in 0 .. KERNBASE
  PROVE  PGROUNDUP(n) \in 0 .. KERNBASE /\ PGROUNDUP(n) = Pages(n) * PGSIZE /\ Pages(n) \in Nat
<1> DEFINE K == KERNBASE \div PGSIZE
<1>1. n \in Nat
  BY Constants, SMT
<1>2. Pages(n) \in Nat /\ PGROUNDUP(n) = Pages(n) * PGSIZE /\ \A i \in Nat : i * PGSIZE < n <=> i < Pages(n)
  BY <1>1, PagesOf
<1>3. K \in Nat /\ KERNBASE = K * PGSIZE
  BY KernPages
<1>4. ~(K < Pages(n))
  BY <1>2, <1>3, Constants, SMT
<1>5. ~(K * PGSIZE < Pages(n) * PGSIZE)
  <2> HIDE DEF K
  <2>1. K \in Int /\ Pages(n) \in Int /\ PGSIZE \in Nat \ {0}
    <3>1. \A i \in Nat : i \in Int
      BY SMT
    <3> QED
      BY <1>2, <1>3, <3>1, Constants
  <2> QED
    BY <1>4, <2>1, MulMono
<1>6. Pages(n) * PGSIZE \in Nat
  BY <1>2, Constants, SMT
<1> QED
  BY <1>2, <1>3, <1>5, <1>6, Constants, SMT

\* A larger size takes no fewer pages.
LEMMA PagesMono ==
  ASSUME NEW m \in Nat, NEW n \in Nat, m <= n
  PROVE  Pages(m) <= Pages(n)
<1>1. /\ Pages(m) \in Nat /\ \A i \in Nat : i * PGSIZE < m <=> i < Pages(m)
  BY PagesOf
<1>2. /\ Pages(n) \in Nat /\ \A i \in Nat : i * PGSIZE < n <=> i < Pages(n)
  BY PagesOf
<1>3. Pages(n) * PGSIZE \in Nat
  BY <1>2, Constants, SMT
<1>4. ~(Pages(n) * PGSIZE < n)
  BY <1>2, SMT
<1>5. ~(Pages(n) * PGSIZE < m)
  BY <1>3, <1>4, SMT
<1>6. ~(Pages(n) < Pages(m))
  BY <1>1, <1>2, <1>5
<1> QED
  BY <1>1, <1>2, <1>6, SMT

\* A loop that is over has mapped all the pages, one that is not stands at a
\* page that is not mapped.
LEMMA LoopOver ==
  ASSUME NEW r \in Process, NEW s, NEW from \in Nat, Loop(r, s, from), r.a >= r.to
  PROVE  Upto(s, Pages(r.to))
<1>1. r.to \in Nat
  BY ProcessType, Constants, SMT
<1>2. PICK k \in from .. Pages(r.to) : r.a = k * PGSIZE /\ Upto(s, k)
  BY DEF Loop
<1>3. Pages(r.to) \in Nat /\ \A i \in Nat : i * PGSIZE < r.to <=> i < Pages(r.to)
  BY <1>1, PagesOf
<1>4. k \in Nat /\ k <= Pages(r.to) /\ k * PGSIZE \in Nat
  BY <1>2, <1>3, Constants, SMT
<1>5. ~(k * PGSIZE < r.to)
  BY <1>1, <1>2, <1>4, SMT
<1>6. ~(k < Pages(r.to))
  BY <1>3, <1>4, <1>5
<1>7. k = Pages(r.to)
  BY <1>3, <1>4, <1>6, SMT
<1> QED
  BY <1>2, <1>7

\* A loop that is not over stands at an entry that is not mapped yet.
LEMMA LoopOn ==
  ASSUME NEW r \in Process, NEW s, NEW from \in Nat, Loop(r, s, from), r.a < r.to
  PROVE  \E k \in Vpn :
            /\ r.a = k * PGSIZE /\ r.a \in Nat /\ r.a \div PGSIZE = k
            /\ r.a \div (PGSIZE * NPTENTRIES) \in Pdx
            /\ Upto(s, k) /\ s.pte[k].pa = 0 /\ from <= k
            /\ k + 1 \in from .. Pages(r.to)
            /\ r.a + PGSIZE = (k + 1) * PGSIZE /\ r.a + PGSIZE \in 0 .. KERNBASE
<1>1. r.to \in Nat /\ r.to \in 0 .. KERNBASE /\ r.a \in Nat
  BY ProcessType, Constants, SMT
<1>2. PICK k \in from .. Pages(r.to) : r.a = k * PGSIZE /\ Upto(s, k)
  BY DEF Loop
<1>3. Pages(r.to) \in Nat /\ \A i \in Nat : i * PGSIZE < r.to <=> i < Pages(r.to)
  BY <1>1, PagesOf
<1>4. k \in Nat /\ from <= k
  BY <1>2, <1>3, SMT
<1>5. k * PGSIZE < r.to /\ k < Pages(r.to)
  BY <1>2, <1>3, <1>4
<1>6. /\ k \in Vpn
      /\ (k * PGSIZE) \div PGSIZE = k
      /\ (k * PGSIZE) \div (PGSIZE * NPTENTRIES) \in Pdx
  BY <1>1, <1>4, <1>5, VpnOf
<1>7. s.pte[k].pa = 0
  <2>1. ~(k < k)
    BY <1>4, SMT
  <2> QED
    BY <1>2, <1>6, <2>1 DEF Upto
<1>8. k + 1 \in from .. Pages(r.to) /\ k + 1 <= Pages(r.to)
  BY <1>3, <1>4, <1>5, SMT
<1>9. r.a + PGSIZE = (k + 1) * PGSIZE
  BY <1>2, <1>4, Constants, SMT
<1>10. r.a + PGSIZE \in 0 .. KERNBASE
  <2> DEFINE K == KERNBASE \div PGSIZE
  <2>1. K \in Nat /\ KERNBASE = K * PGSIZE
    BY KernPages
  <2>2. k + 1 <= K
    BY <1>6, <2>1, SMT DEF Vpn
  <2> HIDE DEF K
  <2>3. (k + 1) * PGSIZE <= K * PGSIZE
    BY <1>4, <2>1, <2>2, Constants, SMT
  <2> QED
    BY <1>1, <1>9, <2>1, <2>3, Constants, SMT
<1> QED
  BY <1>1, <1>2, <1>4, <1>6, <1>7, <1>8, <1>9, <1>10

\* The sizes in a process record are addresses.
LEMMA Sizes ==
  ASSUME NEW r \in Process
  PROVE  /\ r.sz \in Nat /\ r.nsz \in Nat /\ r.to \in Nat /\ r.a \in Nat
         /\ r.sz \in 0 .. KERNBASE /\ r.nsz \in 0 .. KERNBASE /\ r.to \in 0 .. KERNBASE
         /\ Pages(r.sz) \in Nat /\ Pages(r.nsz) \in Nat /\ Pages(r.to) \in Nat
<1>1. /\ r.sz \in Nat /\ r.nsz \in Nat /\ r.to \in Nat /\ r.a \in Nat
      /\ r.sz \in 0 .. KERNBASE /\ r.nsz \in 0 .. KERNBASE /\ r.to \in 0 .. KERNBASE
  BY ProcessType, Constants, SMT
<1> QED
  BY <1>1, PagesOf

\* A process back from a call is a process.
LEMMA ReturnedOK ==
  ASSUME NEW r \in Process
  PROVE  Returned(r) \in Process
<1>1. "user" \in State
  BY DEF State
<1>2. <<>> \in Seq(Segment) /\ 0 \in 0 .. KERNBASE - 1 /\ 0 \in 0 .. KERNBASE
  BY Constants, SMT
<1> QED
  BY <1>1, <1>2, NoSpaceOK, ZenonT(60) DEF Returned, Process

\* growproc(n), n > 0.
LEMMA StepSbrkGrow ==
  ASSUME IInv, NEW p \in Proc, NEW n \in Increment, SbrkGrow(p, n)
  PROVE  IInv' /\ KeepImages
<1>1. PICK r \in Process : r = proc[p] /\ Layout(r) /\ Filled(r, data)
  BY DEF IInv, TypeOK
<1> DEFINE r2 == [r EXCEPT !.at = "sbrk", !.to = r.sz + n, !.nsz = r.sz, !.a = PGROUNDUP(r.sz)]
<1>2. /\ proc' = [proc EXCEPT ![p] = r2] /\ UNCHANGED <<free, data, pipes, panicked>>
      /\ r.at = "user" /\ r.pgdir.pte[0].u /\ n > 0 /\ r.sz + n < KERNBASE
  BY <1>1 DEF SbrkGrow, Runs
<1>3. n \in Int /\ r.sz \in 0 .. KERNBASE - 1
  BY MemoryAssumption, ProcessType
<1>4. r.sz \in Nat /\ r.sz + n \in 0 .. KERNBASE - 1 /\ r.sz <= r.sz + n /\ r.sz \in 0 .. KERNBASE
  BY <1>2, <1>3, Constants, SMT
<1>5. PGROUNDUP(r.sz) \in 0 .. KERNBASE /\ PGROUNDUP(r.sz) = Pages(r.sz) * PGSIZE /\ Pages(r.sz) \in Nat
  BY <1>4, RoundUp
<1>6. r2 \in Process
  BY <1>3, <1>4, <1>5 DEF Process, State
<1>7. /\ r2.at = "sbrk" /\ r2.pgdir = r.pgdir /\ r2.new = r.new /\ r2.kstack = r.kstack
      /\ r2.sz = r.sz /\ r2.nsz = r.sz /\ r2.to = r.sz + n /\ r2.a = PGROUNDUP(r.sz)
      /\ r2.mem = r.mem
  BY DEF Process
<1> HIDE DEF r2
<1>m. r.mem = 0
  BY <1>1, <1>2, EmptyHand
<1>8. Layout(r2)
  <2>1. Upto(r2.pgdir, Pages(r2.sz)) /\ r2.new = NoSpace
    BY <1>1, <1>2, <1>7 DEF Layout
  <2>a. r2.sz \in Nat /\ r2.to \in Nat /\ r2.sz <= r2.to
    BY <1>4, <1>7, Constants, SMT
  <2>2. Pages(r2.sz) \in Nat /\ Pages(r2.to) \in Nat /\ Pages(r2.sz) <= Pages(r2.to)
    BY <2>a, PagesOf, PagesMono
  <2>3. Loop(r2, r2.pgdir, Pages(r2.sz))
    <3>1. Pages(r2.sz) \in Pages(r2.sz) .. Pages(r2.to)
      BY <2>2, SMT
    <3> QED
      BY <1>5, <1>7, <2>1, <3>1 DEF Loop
  <2> QED
    BY <1>4, <1>7, <1>m, <2>1, <2>3 DEF Layout
<1>9. Filled(r2, data)
  <2>1. ASSUME NEW i \in Vpn, r.pgdir.pte[i].pa # 0
        PROVE  i \in Below(r.sz)
    <3>1. i < Pages(r.sz)
      BY <1>1, <1>2, <2>1 DEF Layout, Upto
    <3>2. i \in Nat
      BY KernPages, SMT DEF Vpn
    <3> QED
      BY <1>4, <3>1, <3>2, PagesOf DEF Below
  <2> QED
    BY <1>1, <1>7, <1>m, <2>1 DEF Filled, Zeroed
<1> QED
  BY <1>1, <1>2, <1>6, <1>7, <1>8, <1>9, StepQuiet DEF Forking

\* growproc() ends its loop and sets sz.
LEMMA StepSbrkDone ==
  ASSUME IInv, NEW p \in Proc, SbrkDone(p)
  PROVE  IInv' /\ KeepImages
<1>1. PICK r \in Process : r = proc[p] /\ Layout(r) /\ Filled(r, data)
  BY DEF IInv, TypeOK
<1> DEFINE r2 == [Returned(r) EXCEPT !.sz = r.to]
<1>2. /\ proc' = [proc EXCEPT ![p] = r2] /\ UNCHANGED <<free, data, pipes, panicked>>
      /\ r.at = "sbrk" /\ r.a >= r.to
  BY <1>1 DEF SbrkDone
<1>3. r2 \in Process
  BY ProcessType, ReturnedOK DEF Process
<1>4. /\ r2.at = "user" /\ r2.pgdir = r.pgdir /\ r2.new = NoSpace /\ r2.kstack = r.kstack
      /\ r2.sz = r.to /\ r2.nsz = 0 /\ r2.mem = 0
  BY DEF Process, Returned
<1> HIDE DEF r2
<1>5. r.new = NoSpace /\ Loop(r, r.pgdir, Pages(r.sz))
  BY <1>1, <1>2 DEF Layout
<1>6. Pages(r.sz) \in Nat
  BY Sizes
<1>7. Upto(r2.pgdir, Pages(r2.sz))
  BY <1>2, <1>4, <1>5, <1>6, LoopOver
<1>8. Layout(r2)
  BY <1>4, <1>7 DEF Layout
<1>m. r.mem = 0
  BY <1>1, <1>2, EmptyHand
<1>9. Filled(r2, data)
  BY <1>1, <1>4, <1>5 DEF Filled
<1>10. proc'[p] = r2 /\ data' = data
  BY <1>2 DEF IInv, TypeOK
<1>11. ASSUME NEW i \in Below(r.to), i \notin Below(r.sz)
       PROVE  LET e == r.pgdir.pte[i] IN e.pa # 0 /\ e.u = TRUE /\ data[e.pa] = "zero"
  <2>1. i \in Vpn /\ i * PGSIZE < r.to /\ i \in Nat
    BY KernPages, SMT DEF Below, Vpn
  <2>2. i < Pages(r.to)
    BY <2>1, Sizes, PagesOf
  <2>3. r.pgdir.pte[i].pa # 0
    BY <1>4, <1>7, <2>1, <2>2 DEF Upto
  <2>4. Zeroed(r, data)
    BY <1>1, <1>2 DEF Filled
  <2>5. r.pgdir.pte[i].u /\ data[r.pgdir.pte[i].pa] = "zero"
    BY <1>11, <2>1, <2>3, <2>4 DEF Zeroed
  <2>6. r.pgdir.pte[i].u \in BOOLEAN
    BY <2>1, ProcessType, SpaceType
  <2> QED
    BY <2>3, <2>5, <2>6
<1>12. Grown(p)
  <2> DEFINE F(e) == IF e.pa = 0 THEN <<"none", FALSE>> ELSE <<data[e.pa], e.u>>
  <2>1. Image(p) = [i \in Below(r.sz) |-> F(r.pgdir.pte[i])]
    BY <1>1 DEF Image
  <2>2. Image(p)' = [i \in Below(r.to) |-> F(r.pgdir.pte[i])]
    BY <1>4, <1>10 DEF Image
  <2>3. \A i \in Below(r.to) : i \notin Below(r.sz) => F(r.pgdir.pte[i]) = <<"zero", TRUE>>
    BY <1>11
  <2> HIDE DEF F
  <2>4. \A i \in Below(r.sz) : Image(p)[i] = F(r.pgdir.pte[i])
    BY <2>1
  <2>5. Image(p)' = [i \in Below(r.to) |->
                       IF i \in Below(r.sz) THEN Image(p)[i] ELSE <<"zero", TRUE>>]
    BY <2>2, <2>3, <2>4
  <2> QED
    BY <1>1, <1>2, <1>4, <1>10, <2>5 DEF Grown
<1> QED
  BY <1>1, <1>2, <1>3, <1>4, <1>5, <1>8, <1>9, <1>12, <1>m, StepQuiet DEF Forking, Replaced

\* exec() starts.
LEMMA StepExec ==
  ASSUME IInv, NEW p \in Proc, NEW g \in Program, Exec(p, g)
  PROVE  IInv' /\ KeepImages
<1>1. PICK r \in Process : r = proc[p] /\ Layout(r) /\ Filled(r, data)
  BY DEF IInv, TypeOK
<1> DEFINE r2 == [r EXCEPT !.at = "exec", !.segs = g]
<1>2. /\ proc' = [proc EXCEPT ![p] = r2] /\ UNCHANGED <<free, data, pipes, panicked>>
      /\ r.at = "user"
  BY <1>1 DEF Exec, Runs
<1>3. r2 \in Process
  BY MemoryAssumption, ZenonT(60) DEF Process, State
<1>4. /\ r2.at = "exec" /\ r2.pgdir = r.pgdir /\ r2.new = r.new /\ r2.kstack = r.kstack
      /\ r2.sz = r.sz /\ r2.nsz = r.nsz /\ r2.mem = r.mem
  BY DEF Process
<1> HIDE DEF r2
<1>m. r.mem = 0
  BY <1>1, <1>2, EmptyHand
<1>n. r.new = NoSpace /\ r.nsz = 0
  BY <1>1, <1>2 DEF Layout
<1>5. Layout(r2)
  BY <1>1, <1>2, <1>4, <1>m, <1>n, NoSpaceOK DEF Layout
<1>6. Filled(r2, data)
  BY <1>1, <1>4, <1>m DEF Filled
<1> QED
  BY <1>1, <1>2, <1>3, <1>4, <1>5, <1>6, StepQuiet DEF Forking

\* exit() leaves a zombie with its memory.
LEMMA StepExit ==
  ASSUME IInv, NEW p \in Proc, Exit(p)
  PROVE  IInv' /\ KeepImages
<1>1. PICK r \in Process : r = proc[p] /\ Layout(r) /\ Filled(r, data)
  BY DEF IInv, TypeOK
<1> DEFINE r2 == [r EXCEPT !.at = "ZOMBIE"]
<1>2. /\ proc' = [proc EXCEPT ![p] = r2] /\ UNCHANGED <<free, data, pipes, panicked>>
      /\ r.at = "user"
  BY <1>1 DEF Exit
<1>3. r2 \in Process
  BY DEF Process, State
<1>4. /\ r2.at = "ZOMBIE" /\ r2.pgdir = r.pgdir /\ r2.new = r.new /\ r2.kstack = r.kstack
      /\ r2.sz = r.sz /\ r2.mem = r.mem
  BY DEF Process
<1> HIDE DEF r2
<1>m. r.mem = 0
  BY <1>1, <1>2, EmptyHand
<1>5. Layout(r2)
  BY <1>1, <1>2, <1>4, <1>m DEF Layout
<1>6. Filled(r2, data)
  BY <1>1, <1>4, <1>m DEF Filled
<1> QED
  BY <1>1, <1>2, <1>3, <1>4, <1>5, <1>6, StepQuiet DEF Forking

\* The end of a segment that passes the checks of exec().
LEMMA SegmentEnd ==
  ASSUME NEW v \in 0 .. UINT - 1, NEW m \in 0 .. UINT - 1,
         (v + m) % UINT >= v, (v + m) % UINT < KERNBASE
  PROVE  v + m \in 0 .. KERNBASE - 1
<1>1. UINT \in Nat /\ UINT > 0 /\ KERNBASE \in Nat /\ KERNBASE < UINT
  BY Constants, SMT DEF UINT
<1>2. v \in Nat /\ m \in Nat /\ v < UINT /\ m < UINT
  BY <1>1, SMT
<1>3. ASSUME v + m >= UINT
      PROVE  (v + m) % UINT = v + m - UINT
  <2>1. PICK x \in Nat : x = v + m - UINT /\ x < UINT
    BY <1>1, <1>2, <1>3, SMT
  <2>2. (x + UINT) % UINT = x
    BY <1>1, <2>1, SMT
  <2> QED
    BY <1>1, <1>2, <2>1, <2>2, SMT
<1>4. v + m < UINT
  BY <1>1, <1>2, <1>3, SMT
<1>5. (v + m) % UINT = v + m
  BY <1>1, <1>2, <1>4, SMT
<1> QED
  BY <1>1, <1>2, <1>5, SMT

\* exec() accepts a program header and starts allocuvm() for it.
LEMMA StepSegmentStart ==
  ASSUME IInv, NEW p \in Proc, SegmentStart(p)
  PROVE  IInv' /\ KeepImages
<1>1. PICK r \in Process : r = proc[p] /\ Layout(r) /\ Filled(r, data)
  BY DEF IInv, TypeOK
<1>2. r.segs \in Seq(Segment) /\ r.segs # <<>>
  BY <1>1, ProcessType DEF SegmentStart
<1>3. PICK seg \in Segment : seg = Head(r.segs)
  BY <1>2, SMT
<1> DEFINE end == seg.vaddr + seg.memsz
<1> DEFINE to2 == IF end < r.nsz THEN r.nsz ELSE end
<1> DEFINE r2 == [r EXCEPT !.at = "load", !.a = PGROUNDUP(r.nsz), !.to = to2]
<1>4. /\ proc' = [proc EXCEPT ![p] = r2] /\ UNCHANGED <<free, data, pipes, panicked>>
      /\ r.at = "segment"
  BY <1>1, <1>3 DEF SegmentStart
<1>5. /\ seg.memsz >= seg.filesz
      /\ (seg.vaddr + seg.memsz) % UINT >= seg.vaddr
      /\ (seg.vaddr + seg.memsz) % UINT < KERNBASE
  BY <1>1, <1>3 DEF SegmentStart, SegmentFits
<1>6. seg.vaddr \in 0 .. UINT - 1 /\ seg.memsz \in 0 .. UINT - 1 /\ seg.filesz \in 0 .. UINT - 1
  BY DEF Segment
<1>7. end \in 0 .. KERNBASE - 1
  BY <1>5, <1>6, SegmentEnd
<1>8. r.nsz \in Nat /\ r.nsz \in 0 .. KERNBASE /\ r.nsz \in 0 .. KERNBASE - 1
  BY Sizes, ProcessType
<1> HIDE DEF end
<1>9. to2 \in 0 .. KERNBASE - 1 /\ to2 \in Nat /\ r.nsz <= to2 /\ end <= to2
  BY <1>7, <1>8, Constants, SMT
<1>10. PGROUNDUP(r.nsz) \in 0 .. KERNBASE /\ PGROUNDUP(r.nsz) = Pages(r.nsz) * PGSIZE /\ Pages(r.nsz) \in Nat
  BY <1>8, RoundUp
<1> HIDE DEF to2
<1>11. r2 \in Process
  BY <1>9, <1>10 DEF Process, State
<1>12. /\ r2.at = "load" /\ r2.pgdir = r.pgdir /\ r2.new = r.new /\ r2.kstack = r.kstack
       /\ r2.sz = r.sz /\ r2.to = to2 /\ r2.a = PGROUNDUP(r.nsz) /\ r2.segs = r.segs
       /\ r2.mem = r.mem
  BY DEF Process
<1> HIDE DEF r2
<1>13. Loop(r2, r2.new, 0)
  <2>1. Upto(r2.new, Pages(r.nsz))
    BY <1>1, <1>4, <1>12 DEF Layout
  <2>2. Pages(r2.to) \in Nat /\ Pages(r.nsz) <= Pages(r2.to)
    BY <1>8, <1>9, <1>12, PagesOf, PagesMono
  <2>3. Pages(r.nsz) \in 0 .. Pages(r2.to)
    BY <1>10, <2>2, SMT
  <2> QED
    BY <1>10, <1>12, <2>1, <2>3 DEF Loop
<1>14. /\ r2.segs # <<>> /\ Head(r2.segs).filesz <= Head(r2.segs).memsz
       /\ Head(r2.segs).vaddr + Head(r2.segs).memsz <= r2.to
  <2>1. seg.filesz <= seg.memsz
    BY <1>5, <1>6, SMT
  <2> QED
    BY <1>2, <1>3, <1>9, <1>12, <2>1 DEF end
<1>m. r.mem = 0
  BY <1>1, <1>4, EmptyHand
<1>15. Layout(r2)
  BY <1>1, <1>4, <1>12, <1>13, <1>14, <1>m DEF Layout
<1>16. Filled(r2, data)
  BY <1>1, <1>12, <1>m DEF Filled
<1> QED
  BY <1>1, <1>4, <1>11, <1>12, <1>15, <1>16, StepQuiet DEF Forking

\* exec() starts allocuvm() for the stack and its guard page.
LEMMA StepStackStart ==
  ASSUME IInv, NEW p \in Proc, StackStart(p)
  PROVE  IInv' /\ KeepImages
<1>1. PICK r \in Process : r = proc[p] /\ Layout(r) /\ Filled(r, data)
  BY DEF IInv, TypeOK
<1> DEFINE base == PGROUNDUP(r.nsz)
<1> DEFINE r2 == [r EXCEPT !.at = "stack", !.nsz = base, !.a = base, !.to = base + 2 * PGSIZE]
<1>2. /\ proc' = [proc EXCEPT ![p] = r2] /\ UNCHANGED <<free, data, pipes, panicked>>
      /\ r.at = "segment" /\ base + 2 * PGSIZE < KERNBASE
  BY <1>1 DEF StackStart
<1>3. r.nsz \in Nat /\ r.nsz \in 0 .. KERNBASE
  BY Sizes
<1>4. base \in 0 .. KERNBASE /\ base = Pages(r.nsz) * PGSIZE /\ Pages(r.nsz) \in Nat
  BY <1>3, RoundUp
<1> HIDE DEF base
<1>5. base \in 0 .. KERNBASE - 1 /\ base + 2 * PGSIZE \in 0 .. KERNBASE - 1
      /\ base \in Nat /\ base + 2 * PGSIZE \in Nat /\ base <= base + 2 * PGSIZE
  BY <1>2, <1>4, Constants, SMT
<1>6. r2 \in Process
  BY <1>4, <1>5 DEF Process, State
<1>7. /\ r2.at = "stack" /\ r2.pgdir = r.pgdir /\ r2.new = r.new /\ r2.kstack = r.kstack
      /\ r2.sz = r.sz /\ r2.nsz = base /\ r2.a = base /\ r2.to = base + 2 * PGSIZE
      /\ r2.mem = r.mem
  BY DEF Process
<1> HIDE DEF r2
<1>8. Pages(base) = Pages(r.nsz)
  <2>1. (Pages(r.nsz) * PGSIZE + PGSIZE - 1) \div PGSIZE = Pages(r.nsz)
    <3>1. PICK k \in Nat : k = Pages(r.nsz)
      BY <1>4
    <3>2. /\ k * PGSIZE + PGSIZE - 1 \in Nat /\ PGSIZE * k <= k * PGSIZE + PGSIZE - 1
          /\ k * PGSIZE + PGSIZE - 1 < PGSIZE * k + PGSIZE
      BY Constants, SMT
    <3>3. (k * PGSIZE + PGSIZE - 1) \div PGSIZE = k
      BY <3>2, Constants, DivUnique
    <3> QED
      BY <3>1, <3>3
  <2> QED
    BY <1>4, <2>1 DEF Pages
<1>9. Loop(r2, r2.new, 0)
  <2>1. Upto(r2.new, Pages(r.nsz))
    BY <1>1, <1>2, <1>7 DEF Layout
  <2>2. Pages(r2.to) \in Nat /\ Pages(base) <= Pages(r2.to)
    BY <1>5, <1>7, PagesOf, PagesMono
  <2>3. Pages(r.nsz) \in 0 .. Pages(r2.to)
    BY <1>4, <1>8, <2>2, SMT
  <2> QED
    BY <1>4, <1>7, <2>1, <2>3 DEF Loop
<1>10. r2.nsz = Pages(r2.nsz) * PGSIZE
  BY <1>4, <1>7, <1>8
<1>m. r.mem = 0
  BY <1>1, <1>2, EmptyHand
<1>11. Layout(r2)
  BY <1>1, <1>2, <1>7, <1>9, <1>10, <1>m DEF Layout
<1>12. Filled(r2, data)
  BY <1>1, <1>7, <1>m DEF Filled
<1> QED
  BY <1>1, <1>2, <1>6, <1>7, <1>11, <1>12, StepQuiet DEF Forking

-----------------------------------------------------------------------------
\* kalloc() in a loop: the process has a page in hand that is due.
LEMMA StepGetPage ==
  ASSUME IInv, NEW p \in Proc, NEW c \in {"zero", "image"}, GetPage(p, c),
         proc[p].at \in {"sbrk", "copy", "load", "stack"}, Due(proc[p], data, c),
         pipes' = pipes, panicked' = panicked
  PROVE  IInv' /\ KeepImages
<1>1. PICK r \in Process : r = proc[p] /\ Layout(r) /\ Apart(r) /\ Filled(r, data)
  BY DEF IInv, TypeOK
<1>2. PICK m : m = kalloc(FreePages)
  OBVIOUS
<1>3. /\ r.a < r.to /\ r.mem = 0 /\ FreePages # {}
      /\ free' = [free EXCEPT ![m] = free[m] - 1]
      /\ data' = [data EXCEPT ![m] = c]
      /\ proc' = [proc EXCEPT ![p] = [r EXCEPT !.mem = m]]
  BY <1>1, <1>2 DEF GetPage
<1>4. m \in FreePages /\ m \in Page /\ m # 0
  BY <1>2, <1>3, TakeOne, ZeroIsNoPage DEF FreePages
<1>5. PICK T : T = {m}
  OBVIOUS
<1>6. free \in [Page -> {0, 1}] /\ data \in [Page -> {"junk", "zero", "image"}] /\ panicked = FALSE
  BY DEF IInv, TypeOK
<1>7. /\ free' = Minus(free, T) /\ data' \in [Page -> {"junk", "zero", "image"}]
      /\ data'[m] = c /\ \A v \in Page : v \notin T => data'[v] = data[v]
  BY <1>3, <1>4, <1>5, <1>6 DEF Minus
<1> DEFINE r2 == [r EXCEPT !.mem = m]
<1>8. r2 \in Process
  BY <1>4 DEF Process
<1>9. /\ r2.at = r.at /\ r2.pgdir = r.pgdir /\ r2.new = r.new /\ r2.kstack = r.kstack
      /\ r2.sz = r.sz /\ r2.nsz = r.nsz /\ r2.to = r.to /\ r2.a = r.a
      /\ r2.segs = r.segs /\ r2.kid = r.kid /\ r2.mem = m
  BY DEF Process
<1>10. proc' = [proc EXCEPT ![p] = r2]
  BY <1>3
<1> HIDE DEF r2
<1>11. m \notin Owned(r)
  BY <1>1, <1>4, HeldNotFree
<1>12. Apart(r2) /\ Owned(r2) = Owned(r) \cup T
  <2>1. m # r.kstack /\ m \notin freevm(r.pgdir) /\ m \notin freevm(r.new)
    BY <1>4, <1>11, InOwned
  <2>2. Apart(r2)
    BY <1>1, <1>9, <2>1 DEF Apart
  <2>3. Owned(r2) = Owned(r) \cup T
    BY <1>3, <1>4, <1>5, <1>9 DEF Owned
  <2> QED
    BY <2>2, <2>3
<1>13. Layout(r2)
  <2>1. \A x, from : Loop(r, x, from) => Loop(r2, x, from)
    BY <1>9 DEF Loop
  <2> QED
    BY <1>1, <1>3, <1>9, <2>1 DEF Layout
<1>14. SameOn(Owned(r), data, data')
  <2>1. \A v \in Owned(r) : v \in Page /\ v \notin T
    BY <1>5, <1>11, InOwned
  <2> QED
    BY <1>7, <2>1 DEF SameOn
<1>15. Filled(r2, data')
  <2>1. Filled(r, data')
    BY <1>1, <1>14, FilledFrame
  <2>2. Due(r2, data', c)
    <3>1. CASE r.at = "copy"
      <4>1. PICK i \in Vpn : /\ i = r.a \div PGSIZE
                            /\ r.pgdir.pte[i].pa # 0 /\ c = data[r.pgdir.pte[i].pa]
        BY <1>1, <3>1 DEF Due
      <4>2. r.pgdir.pte[i].pa \in Owned(r)
        BY <4>1, ProcessType, InFreevm, InOwned
      <4>3. data'[r.pgdir.pte[i].pa] = data[r.pgdir.pte[i].pa]
        BY <1>14, <4>2 DEF SameOn
      <4> QED
        BY <1>9, <3>1, <4>1, <4>3 DEF Due
    <3>2. CASE r.at # "copy"
      BY <1>1, <1>9, <3>2 DEF Due
    <3> QED
      BY <3>1, <3>2
  <2>3. Copied(r, data') <=> Copied(r2, data')
    BY <1>9 DEF Copied
  <2>4. Zeroed(r, data') <=> Zeroed(r2, data')
    BY <1>9 DEF Zeroed
  <2> QED
    BY <1>7, <1>9, <2>1, <2>2, <2>3, <2>4 DEF Filled
<1>16. SameBelow(r, r2, data, data')
  <2>1. SameOn(freevm(r.pgdir), data, data')
    BY <1>14, InOwned DEF SameOn
  <2> QED
    BY <1>9, <2>1, SamePgdir
<1>17. Forking(r2) => Forking(r) /\ r2.kid = r.kid
  BY <1>9 DEF Forking
<1>18. T \subseteq FreePages /\ panicked' = FALSE /\ r.at # "EMBRYO"
  BY <1>1, <1>4, <1>5, <1>6
<1> QED
  BY <1>1, <1>7, <1>8, <1>10, <1>12, <1>13, <1>15, <1>16, <1>17, <1>18, StepTake

\* kalloc() and memset() in the loop of allocuvm().
LEMMA StepAllocPage ==
  ASSUME IInv, NEW p \in Proc, AllocPage(p)
  PROVE  IInv' /\ KeepImages
<1>1. /\ proc[p].at \in {"sbrk", "copy", "load", "stack"} /\ proc[p].at # "copy"
      /\ GetPage(p, "zero") /\ pipes' = pipes /\ panicked' = panicked
  BY DEF AllocPage
<1>2. Due(proc[p], data, "zero")
  BY <1>1 DEF Due
<1> QED
  BY <1>1, <1>2, StepGetPage

\* kalloc() and memmove() in the loop of copyuvm(): the page is there.
LEMMA StepCopyPage ==
  ASSUME IInv, NEW p \in Proc, CopyPage(p)
  PROVE  IInv' /\ KeepImages
<1>1. PICK r \in Process : r = proc[p] /\ Layout(r) /\ Filled(r, data)
  BY DEF IInv, TypeOK
<1>2. r.at = "copy" /\ r.a < r.to /\ pipes' = pipes
  BY <1>1 DEF CopyPage
<1>3. Loop(r, r.new, 0) /\ Upto(r.pgdir, Pages(r.sz)) /\ r.to = r.sz
  BY <1>1, <1>2 DEF Layout
<1>4. PICK k \in Vpn : r.a \div PGSIZE = k /\ k + 1 \in 0 .. Pages(r.to)
  <2>1. 0 \in Nat
    BY SMT
  <2> QED
    BY <1>2, <1>3, <2>1, LoopOn
<1>5. PICK e : e = r.pgdir.pte[k]
  OBVIOUS
<1>6. e.pa \in Page \cup {0}
  BY <1>5, ProcessType, SpaceType
<1>7. e.pa # 0
  <2>1. k < Pages(r.sz)
    BY <1>3, <1>4, Sizes, KernPages, SMT DEF Vpn
  <2> QED
    BY <1>3, <1>5, <2>1 DEF Upto
<1>8. PICK c \in {"zero", "image"} : c = data[e.pa]
  <2>1. data[e.pa] \in {"junk", "zero", "image"}
    BY <1>6, <1>7 DEF IInv, TypeOK
  <2>2. data[e.pa] # "junk"
    BY <1>1, <1>5, <1>7 DEF Filled, Clean
  <2> QED
    BY <2>1, <2>2
<1>9. GetPage(p, c) /\ panicked' = panicked
  BY <1>1, <1>4, <1>5, <1>7, <1>8 DEF CopyPage
<1>10. Due(r, data, c)
  BY <1>2, <1>4, <1>5, <1>7, <1>8 DEF Due
<1> QED
  BY <1>1, <1>2, <1>9, <1>10, StepGetPage

\* One turn of a loop of process p: its page is mapped in space s, which takes
\* the pages T for a page table.
MapsOne(p, own, s, from, u) ==
    \E k \in Vpn, s2 \in Space, T \in SUBSET FreePages :
        /\ OneMore(s, s2, k, proc[p].mem, u, InHand(proc[p]) \cup T)
        /\ free' = Minus(free, T) /\ data' = data
        /\ proc' = [proc EXCEPT ![p] =
              [WithSpace(proc[p], own, s2) EXCEPT !.a = proc[p].a + PGSIZE, !.mem = 0]]
        /\ panicked' = FALSE
        /\ proc[p].a \div PGSIZE = k /\ s.pte[k].pa = 0 /\ from <= k
        /\ k + 1 \in from .. Pages(proc[p].to)
        /\ proc[p].a + PGSIZE = (k + 1) * PGSIZE
        /\ proc[p].a + PGSIZE \in 0 .. KERNBASE

\* mappages() does not panic: the entry it fills is empty.
LEMMA MapsEmpty ==
  ASSUME IInv, NEW p \in Proc, MapPage(p), NEW own, own = (proc[p].at = "sbrk"),
         NEW s \in Space, s = Target(proc[p]), SpaceOK(s),
         freevm(s) \subseteq Owned(proc[p]), proc[p].mem \notin freevm(s), NEW u \in BOOLEAN,
         u = IF proc[p].at = "copy" THEN proc[p].pgdir.pte[proc[p].a \div PGSIZE].u ELSE TRUE,
         NEW from \in Nat, Loop(proc[p], s, from), proc[p].a < proc[p].to
  PROVE  MapsOne(p, own, s, from, u)
<1>1. PICK r \in Process : r = proc[p]
  BY DEF IInv, TypeOK
<1>2. PICK k \in Vpn :
            /\ r.a = k * PGSIZE /\ r.a \in Nat /\ r.a \div PGSIZE = k
            /\ r.a \div (PGSIZE * NPTENTRIES) \in Pdx
            /\ Upto(s, k) /\ s.pte[k].pa = 0 /\ from <= k
            /\ k + 1 \in from .. Pages(r.to)
            /\ r.a + PGSIZE = (k + 1) * PGSIZE /\ r.a + PGSIZE \in 0 .. KERNBASE
  BY <1>1, LoopOn
<1>3. PICK t \in Pdx : t = r.a \div (PGSIZE * NPTENTRIES)
  BY <1>2
<1>4. Missing(s, r.a) <=> s.tab[t] = 0
  BY <1>3 DEF Missing
<1>5. PICK pgtab : pgtab = kalloc(FreePages)
  OBVIOUS
<1>6. /\ r.mem # 0 /\ (Missing(s, r.a) => FreePages # {})
      /\ free' = IF Missing(s, r.a) THEN [free EXCEPT ![pgtab] = free[pgtab] - 1] ELSE free
      /\ proc' = [proc EXCEPT ![p] =
            [WithSpace(r, own, mappages(s, r.a, r.mem, pgtab, u)) EXCEPT
                !.a = r.a + PGSIZE, !.mem = 0]]
      /\ panicked' = (panicked \/ s.pte[r.a \div PGSIZE] # NoPte)
      /\ data' = data
  BY <1>1, <1>5, ZenonT(30) DEF MapPage
<1>7. PICK mem \in Page : mem = r.mem /\ mem # 0
  BY <1>6, ProcessType
<1>8. mem \in Owned(r) /\ mem \notin freevm(s) /\ InHand(r) = {mem}
  BY <1>1, <1>7, InOwned DEF InHand
<1>9. \A v \in FreePages : v \in Page /\ v \notin freevm(s) /\ v # mem
  BY <1>1, <1>8, HeldNotFree DEF FreePages
<1>10. s.tab[t] = 0 => pgtab \in FreePages
  BY <1>4, <1>5, <1>6, TakeOne
<1>11. s.tab[t] = 0 => pgtab \in Page /\ pgtab \notin freevm(s) /\ pgtab # mem
  BY <1>9, <1>10
<1>12. PICK s2 : s2 = mappages(s, r.a, mem, pgtab, u)
  OBVIOUS
<1>13. Mapped(s, k, t, mem, pgtab, u, s2)
  <2>1. s.tab[t] = 0 => pgtab \in Page
    BY <1>11
  <2>2. PICK a \in Nat : a = r.a /\ k = a \div PGSIZE /\ t = a \div (PGSIZE * NPTENTRIES)
    BY <1>2, <1>3
  <2>3. MapArgs(s, a, k, t, mem, pgtab, u)
    BY <2>1, <2>2 DEF MapArgs
  <2>4. Mapped(s, k, t, mem, pgtab, u, mappages(s, a, mem, pgtab, u))
    BY <2>3, MapFields
  <2> QED
    BY <1>12, <2>2, <2>4
<1>14. OneMore(s, s2, k, mem, u, PageAndTable(s, t, mem, pgtab))
  <2>1. s.pte[k].pa = 0 /\ Upto(s, k) /\ mem \notin freevm(s)
    BY <1>2, <1>8
  <2> QED
    BY <1>11, <1>13, <2>1, MapSpace
<1>15. PICK T : T = IF s.tab[t] = 0 THEN {pgtab} ELSE {}
  OBVIOUS
<1>16. T \in SUBSET FreePages
  BY <1>10, <1>15
<1>17. s2 \in Space /\ OneMore(s, s2, k, mem, u, InHand(r) \cup T)
  BY <1>8, <1>13, <1>14, <1>15 DEF Mapped, PageAndTable
<1>18. free' = Minus(free, T)
  <2>1. free \in [Page -> {0, 1}]
    BY DEF IInv, TypeOK
  <2>2. CASE s.tab[t] = 0
    BY <1>4, <1>6, <1>11, <1>15, <2>1, <2>2 DEF Minus
  <2>3. CASE s.tab[t] # 0
    BY <1>4, <1>6, <1>15, <2>1, <2>3 DEF Minus
  <2> QED
    BY <2>2, <2>3
<1>19. panicked' = FALSE
  <2>1. s.pte[k] = NoPte
    BY <1>2 DEF SpaceOK
  <2> QED
    BY <1>2, <1>6, <2>1 DEF IInv
<1> QED
  BY <1>1, <1>2, <1>6, <1>7, <1>12, <1>16, <1>17, <1>18, <1>19 DEF MapsOne

\* A space whose pages keep their contents still has no junk.
LEMMA CleanFrame ==
  ASSUME NEW s \in Space, NEW d, Clean(s, d), NEW d2, SameOn(freevm(s), d, d2)
  PROVE  Clean(s, d2)
<1>1. \A i \in Vpn : s.pte[i].pa # 0 => s.pte[i].pa \in freevm(s)
  BY InFreevm
<1> QED
  BY <1>1 DEF Clean, SameOn

\* The space of r that grows, its own or the one it builds.
LEMMA ApartMore ==
  ASSUME NEW r \in Process, Apart(r), NEW r2 \in Process, NEW T \in SUBSET Page,
         \A v \in T : v \notin Owned(r), r2.kstack = r.kstack, r2.mem = 0,
         SpaceOK(r2.pgdir), SpaceOK(r2.new),
         \/ r2.new = r.new /\ freevm(r2.pgdir) = freevm(r.pgdir) \cup (InHand(r) \cup T)
         \/ r2.pgdir = r.pgdir /\ freevm(r2.new) = freevm(r.new) \cup (InHand(r) \cup T)
  PROVE  Apart(r2) /\ Owned(r2) = Owned(r) \cup T
<1>1. \A v \in T : v # r.kstack /\ v \notin freevm(r.pgdir) /\ v \notin freevm(r.new)
  BY InOwned, ZeroIsNoPage
<1>2. 0 \notin T /\ 0 \notin freevm(r.pgdir) /\ 0 \notin freevm(r.new)
  BY ZeroIsNoPage, ProcessType, FreevmPages
<1>3. \A v \in InHand(r) : /\ v # r.kstack /\ v # 0
                           /\ v \notin freevm(r.pgdir) /\ v \notin freevm(r.new)
  BY DEF Apart, InHand
<1>4. freevm(r2.pgdir) \cap freevm(r2.new) = {}
  BY <1>1, <1>3 DEF Apart
<1>5. r2.kstack \notin freevm(r2.pgdir) \cup freevm(r2.new)
  BY <1>1, <1>3 DEF Apart
<1>6. r2.mem \notin freevm(r2.pgdir) \cup freevm(r2.new)
  BY <1>2, <1>3
<1>7. Owned(r2) = Owned(r) \cup T
  BY <1>2 DEF Owned, InHand
<1> QED
  BY <1>4, <1>5, <1>6, <1>7 DEF Apart

\* A page in hand is not junk.
LEMMA DueIsGood ==
  ASSUME NEW r \in Process, NEW d, Filled(r, d), r.mem # 0
  PROVE  d[r.mem] # "junk"
BY DEF Filled, Due, Clean

\* A space into which a page that is not junk was mapped has none.
LEMMA CleanMore ==
  ASSUME NEW s \in Space, NEW s2 \in Space, NEW k \in Vpn, NEW mem, NEW u, NEW T,
         OneMore(s, s2, k, mem, u, T), NEW d, d[mem] # "junk", Clean(s, d)
  PROVE  Clean(s2, d)
BY DEF Clean, OneMore

\* mappages() for sbrk(), in the memory of the process.
LEMMA StepMapOwn ==
  ASSUME IInv, NEW p \in Proc, MapPage(p), proc[p].at = "sbrk"
  PROVE  IInv' /\ KeepImages
<1>1. PICK r \in Process : r = proc[p] /\ Layout(r) /\ Apart(r) /\ Filled(r, data)
  BY DEF IInv, TypeOK
<1>2. PICK s \in Space : s = r.pgdir /\ SpaceOK(s) /\ r.mem \notin freevm(s) /\ s = Target(r)
  BY <1>1, ProcessType DEF Apart, Target
<1>3. Loop(r, s, Pages(r.sz)) /\ r.nsz = r.sz /\ r.sz <= r.to /\ r.new = NoSpace
  BY <1>1, <1>2 DEF Layout
<1>4. r.mem # 0 /\ r.a < r.to /\ pipes' = pipes
  BY <1>1 DEF MapPage, Layout
<1>5. freevm(s) \subseteq Owned(r) /\ r.sz \in Nat /\ Pages(r.sz) \in Nat
  BY <1>2, InOwned, Sizes
<1>m. MapsOne(p, TRUE, s, Pages(r.sz), TRUE)
  BY <1>1, <1>2, <1>3, <1>4, <1>5, MapsEmpty
<1>6. PICK k \in Vpn, s2 \in Space, T \in SUBSET FreePages :
            /\ OneMore(s, s2, k, r.mem, TRUE, InHand(r) \cup T)
            /\ free' = Minus(free, T) /\ data' = data
            /\ proc' = [proc EXCEPT ![p] =
                  [WithSpace(r, TRUE, s2) EXCEPT !.a = r.a + PGSIZE, !.mem = 0]]
            /\ panicked' = FALSE
            /\ r.a \div PGSIZE = k /\ s.pte[k].pa = 0 /\ Pages(r.sz) <= k
            /\ k + 1 \in Pages(r.sz) .. Pages(r.to)
            /\ r.a + PGSIZE = (k + 1) * PGSIZE
            /\ r.a + PGSIZE \in 0 .. KERNBASE
  BY <1>1, <1>m DEF MapsOne
<1> DEFINE r2 == [r EXCEPT !.pgdir = s2, !.a = r.a + PGSIZE, !.mem = 0]
<1>7. proc' = [proc EXCEPT ![p] = r2]
  BY <1>6 DEF WithSpace
<1>a. r.a + PGSIZE \in 0 .. KERNBASE
  BY <1>6
<1>8. r2 \in Process
  BY <1>a, ZenonT(30) DEF Process
<1>9. /\ r2.at = r.at /\ r2.pgdir = s2 /\ r2.new = r.new /\ r2.kstack = r.kstack
      /\ r2.sz = r.sz /\ r2.nsz = r.nsz /\ r2.to = r.to /\ r2.a = r.a + PGSIZE
      /\ r2.mem = 0
  BY DEF Process
<1> HIDE DEF r2
<1>10. T \in SUBSET Page /\ \A v \in T : v \notin Owned(r)
  BY <1>1, HeldNotFree DEF FreePages
<1>11. Apart(r2) /\ Owned(r2) = Owned(r) \cup T
  <2>1. SpaceOK(r2.pgdir) /\ SpaceOK(r2.new)
    BY <1>1, <1>6, <1>9 DEF OneMore, Apart
  <2>2. freevm(r2.pgdir) = freevm(r.pgdir) \cup (InHand(r) \cup T)
    BY <1>2, <1>6, <1>9 DEF OneMore
  <2> QED
    BY <1>1, <1>8, <1>9, <1>10, <2>1, <2>2, ApartMore
<1>12. Layout(r2)
  <2>1. Loop(r2, r2.pgdir, Pages(r2.sz))
    BY <1>6, <1>9 DEF Loop, OneMore
  <2> QED
    BY <1>1, <1>3, <1>9, <2>1 DEF Layout
<1>13. \A i \in Below(r.sz) : i \in Vpn /\ i # k
  <2>1. TAKE i \in Below(r.sz)
  <2>2. i \in Vpn /\ i * PGSIZE < r.sz /\ i \in Nat /\ k \in Nat
    BY KernPages, SMT DEF Below, Vpn
  <2>3. i < Pages(r.sz)
    BY <1>5, <2>2, PagesOf
  <2>4. i # k
    BY <1>5, <1>6, <2>2, <2>3, SMT
  <2> QED
    BY <2>2, <2>4
<1>14. SameBelow(r, r2, data, data')
  BY <1>2, <1>6, <1>9, <1>13 DEF SameBelow, OneMore
<1>15. Filled(r2, data')
  <2>1. Clean(s, data) /\ data[r.mem] # "junk" /\ Zeroed(r, data) /\ data[r.mem] = "zero"
    BY <1>1, <1>2, <1>4, DueIsGood DEF Filled, Due
  <2>2. Clean(s2, data)
    BY <1>6, <2>1, CleanMore
  <2>3. Clean(r2.new, data)
    BY <1>3, <1>9, NoSpaceOK DEF Clean
  <2>4. ASSUME NEW i \in Vpn, s2.pte[i].pa # 0, i \notin Below(r.sz)
        PROVE  s2.pte[i].u /\ data[s2.pte[i].pa] = "zero"
    <3>1. CASE i = k
      <4>1. s2.pte[k].pa = r.mem /\ s2.pte[k].u = TRUE
        BY <1>6 DEF OneMore
      <4> QED
        BY <2>1, <3>1, <4>1
    <3>2. CASE i # k
      <4>1. s2.pte[i] = s.pte[i]
        BY <1>6, <3>2 DEF OneMore
      <4> QED
        BY <1>2, <2>1, <2>4, <4>1 DEF Zeroed
    <3> QED
      BY <3>1, <3>2
  <2>5. Zeroed(r2, data)
    BY <1>9, <2>4 DEF Zeroed
  <2> QED
    BY <1>1, <1>6, <1>9, <2>2, <2>3, <2>5 DEF Filled
<1>16. data' \in [Page -> {"junk", "zero", "image"}]
  BY <1>6 DEF IInv, TypeOK
<1> QED
  BY <1>1, <1>4, <1>6, <1>7, <1>8, <1>9, <1>11, <1>12, <1>14, <1>15, <1>16, StepTake DEF Forking

\* The loops that fill an address space under construction.
LEMMA LoopNew ==
  ASSUME NEW r \in Process, Layout(r), r.at \in {"copy", "load", "stack"}
  PROVE  Loop(r, r.new, 0) /\ 0 \in Nat
<1>1. CASE r.at = "copy"
  BY <1>1 DEF Layout
<1>2. CASE r.at = "load"
  BY <1>2 DEF Layout
<1>3. CASE r.at = "stack"
  BY <1>3 DEF Layout
<1>4. 0 \in Nat
  BY SMT
<1> QED
  BY <1>1, <1>2, <1>3, <1>4

\* mappages() in an address space under construction.
LEMMA StepMapNew ==
  ASSUME IInv, NEW p \in Proc, MapPage(p), proc[p].at \in {"copy", "load", "stack"}
  PROVE  IInv' /\ KeepImages
<1>1. PICK r \in Process : r = proc[p] /\ Layout(r) /\ Apart(r) /\ Filled(r, data)
  BY DEF IInv, TypeOK
<1>2. PICK s \in Space : s = r.new /\ SpaceOK(s) /\ r.mem \notin freevm(s) /\ s = Target(r)
  BY <1>1, ProcessType DEF Apart, Target
<1>3. Loop(r, s, 0) /\ 0 \in Nat
  BY <1>1, <1>2, LoopNew, ZenonT(30)
<1>4. r.mem # 0 /\ r.a < r.to /\ pipes' = pipes
  BY <1>1 DEF MapPage, Layout
<1>5. freevm(s) \subseteq Owned(r)
  BY <1>2, InOwned
<1>u. PICK u \in BOOLEAN : u = IF r.at = "copy" THEN r.pgdir.pte[r.a \div PGSIZE].u ELSE TRUE
  <2>1. CASE r.at = "copy"
    <3>1. r.a \div PGSIZE \in Vpn
      BY <1>1, <1>4, <2>1 DEF Filled, Due
    <3>2. r.pgdir.pte[r.a \div PGSIZE].u \in BOOLEAN
      BY <3>1, ProcessType, SpaceType
    <3> QED
      BY <2>1, <3>2
  <2> QED
    BY <2>1
<1>m. MapsOne(p, FALSE, s, 0, u)
  <2>1. FALSE = (r.at = "sbrk")
    BY <1>1
  <2> QED
    BY <1>1, <1>2, <1>3, <1>4, <1>5, <1>u, <2>1, MapsEmpty
<1>6. PICK k \in Vpn, s2 \in Space, T \in SUBSET FreePages :
            /\ OneMore(s, s2, k, r.mem, u, InHand(r) \cup T)
            /\ free' = Minus(free, T) /\ data' = data
            /\ proc' = [proc EXCEPT ![p] =
                  [WithSpace(r, FALSE, s2) EXCEPT !.a = r.a + PGSIZE, !.mem = 0]]
            /\ panicked' = FALSE
            /\ r.a \div PGSIZE = k /\ s.pte[k].pa = 0
            /\ k + 1 \in 0 .. Pages(r.to)
            /\ r.a + PGSIZE = (k + 1) * PGSIZE
            /\ r.a + PGSIZE \in 0 .. KERNBASE
  BY <1>1, <1>m DEF MapsOne
<1> DEFINE r2 == [r EXCEPT !.new = s2, !.a = r.a + PGSIZE, !.mem = 0]
<1>7. proc' = [proc EXCEPT ![p] = r2]
  BY <1>6 DEF WithSpace
<1>a. r.a + PGSIZE \in 0 .. KERNBASE
  BY <1>6
<1>8. r2 \in Process
  BY <1>a, ZenonT(30) DEF Process
<1>9. /\ r2.at = r.at /\ r2.pgdir = r.pgdir /\ r2.new = s2 /\ r2.kstack = r.kstack
      /\ r2.sz = r.sz /\ r2.nsz = r.nsz /\ r2.to = r.to /\ r2.a = r.a + PGSIZE
      /\ r2.segs = r.segs /\ r2.kid = r.kid /\ r2.mem = 0
  BY DEF Process
<1> HIDE DEF r2
<1>10. T \in SUBSET Page /\ \A v \in T : v \notin Owned(r)
  BY <1>1, HeldNotFree DEF FreePages
<1>11. Apart(r2) /\ Owned(r2) = Owned(r) \cup T
  <2>1. SpaceOK(r2.pgdir) /\ SpaceOK(r2.new)
    BY <1>1, <1>6, <1>9 DEF OneMore, Apart
  <2>2. freevm(r2.new) = freevm(r.new) \cup (InHand(r) \cup T)
    BY <1>2, <1>6, <1>9 DEF OneMore
  <2> QED
    BY <1>1, <1>8, <1>9, <1>10, <2>1, <2>2, ApartMore, ZenonT(60)
<1>12. Layout(r2)
  <2>1. Loop(r2, r2.new, 0)
    BY <1>6, <1>9 DEF Loop, OneMore
  <2> QED
    BY <1>1, <1>9, <2>1 DEF Layout
<1>13. SameBelow(r, r2, data, data')
  BY <1>6, <1>9 DEF SameBelow
<1>14. Clean(r.pgdir, data) /\ Clean(s2, data)
  <2>1. Clean(s, data) /\ Clean(r.pgdir, data) /\ data[r.mem] # "junk"
    BY <1>1, <1>2, <1>4, DueIsGood DEF Filled
  <2> QED
    BY <1>6, <2>1, CleanMore, ZenonT(60)
<1>15. ASSUME r.at = "copy", NEW i \in Vpn, s2.pte[i].pa # 0
       PROVE  /\ r.pgdir.pte[i].pa # 0
              /\ s2.pte[i].u = r.pgdir.pte[i].u
              /\ data[s2.pte[i].pa] = data[r.pgdir.pte[i].pa]
  <2>1. CASE i = k
    <3>1. s2.pte[k].pa = r.mem /\ s2.pte[k].u = u
      BY <1>6 DEF OneMore
    <3>2. r.pgdir.pte[k].pa # 0 /\ data[r.mem] = data[r.pgdir.pte[k].pa]
      BY <1>1, <1>4, <1>6, <1>15 DEF Filled, Due
    <3>3. u = r.pgdir.pte[k].u
      BY <1>6, <1>15, <1>u
    <3> QED
      BY <2>1, <3>1, <3>2, <3>3
  <2>2. CASE i # k
    <3>1. s2.pte[i] = s.pte[i]
      BY <1>6, <2>2 DEF OneMore
    <3>2. Copied(r, data)
      BY <1>1, <1>15 DEF Filled
    <3> QED
      BY <1>2, <1>15, <3>1, <3>2 DEF Copied
  <2> QED
    BY <2>1, <2>2
<1>16. Filled(r2, data')
  <2>1. r.at = "copy" => Copied(r2, data)
    BY <1>9, <1>15 DEF Copied
  <2> QED
    BY <1>1, <1>6, <1>9, <1>14, <2>1 DEF Filled
<1>17. data' \in [Page -> {"junk", "zero", "image"}]
  BY <1>6 DEF IInv, TypeOK
<1> QED
  BY <1>1, <1>4, <1>6, <1>7, <1>8, <1>9, <1>11, <1>12, <1>13, <1>16, <1>17, StepTake DEF Forking

\* mappages() in the loops of allocuvm() and copyuvm().
LEMMA StepMapPage ==
  ASSUME IInv, NEW p \in Proc, MapPage(p)
  PROVE  IInv' /\ KeepImages
<1>1. proc[p].at \in {"sbrk", "copy", "load", "stack"}
  BY DEF MapPage, IInv, Layout
<1> QED
  BY <1>1, StepMapOwn, StepMapNew

\* setupkvm() of fork() and exec() takes one page.
LEMMA StepSetupkvm ==
  ASSUME IInv, NEW p \in Proc, Setupkvm(p)
  PROVE  IInv' /\ KeepImages
<1>1. PICK r \in Process : r = proc[p] /\ Layout(r) /\ Apart(r) /\ Filled(r, data)
  BY DEF IInv, TypeOK
<1>2. PICK v : v = kalloc(FreePages)
  OBVIOUS
<1>3. PICK d : d = IF r.new.dir = 0 THEN v ELSE r.new.dir
  OBVIOUS
<1>4. PICK K : K = IF r.new.dir = 0 THEN {} ELSE r.new.ktab \cup {v}
  OBVIOUS
<1>5. PICK s2 : s2 = setupkvm(d, K)
  OBVIOUS
<1>6. PICK at2 : at2 = IF Cardinality(s2.ktab) < KTABLES THEN r.at
                       ELSE IF r.at = "fork" THEN "copy" ELSE "segment"
  OBVIOUS
<1> DEFINE r2 == [r EXCEPT !.new = s2, !.at = at2]
<1>7. /\ r.at \in {"fork", "exec"} /\ FreePages # {}
      /\ free' = [free EXCEPT ![v] = free[v] - 1]
      /\ proc' = [proc EXCEPT ![p] = r2]
      /\ UNCHANGED <<data, pipes, panicked>>
  <2> DEFINE w == kalloc(FreePages)
  <2> DEFINE N == IF proc[p].new.dir = 0 THEN setupkvm(w, {})
                  ELSE setupkvm(proc[p].new.dir, proc[p].new.ktab \cup {w})
  <2>1. /\ proc[p].at \in {"fork", "exec"} /\ FreePages # {}
        /\ free' = [free EXCEPT ![w] = free[w] - 1]
        /\ proc' = [proc EXCEPT ![p] = [proc[p] EXCEPT
              !.new = N,
              !.at = IF Cardinality(N.ktab) < KTABLES THEN proc[p].at
                     ELSE IF proc[p].at = "fork" THEN "copy" ELSE "segment"]]
        /\ UNCHANGED <<data, pipes, panicked>>
    BY DEF Setupkvm
  <2>2. N = s2 /\ w = v
    BY <1>1, <1>2, <1>3, <1>4, <1>5
  <2> HIDE DEF N, w
  <2> QED
    BY <1>1, <1>6, <2>1, <2>2
<1>8. v \in FreePages /\ v \in Page /\ v # 0
  BY <1>2, <1>7, TakeOne, ZeroIsNoPage DEF FreePages
<1>9. v \notin Owned(r)
  BY <1>1, <1>8, HeldNotFree
<1>10. /\ r.new = setupkvm(r.new.dir, r.new.ktab) /\ (r.new.dir = 0 => r.new.ktab = {})
       /\ r.new \in Space /\ r.new.dir \notin r.new.ktab
       /\ r.new.dir \in Page \cup {0} /\ r.new.ktab \in SUBSET Page
  BY <1>1, <1>7, ProcessType, SpaceType DEF Layout, Apart, SpaceOK
<1>11. v # r.new.dir /\ v \notin r.new.ktab
  BY <1>8, <1>9, <1>10, InFreevm, InOwned
<1>12. d \in Page \cup {0} /\ K \in SUBSET Page /\ d \notin K /\ d # 0
  BY <1>3, <1>4, <1>8, <1>10, <1>11
<1>13. /\ s2 \in Space /\ SpaceOK(s2) /\ freevm(s2) = ({d} \cup K) \ {0}
       /\ \A i \in Vpn : s2.pte[i].pa = 0
  BY <1>5, <1>12, SetupSpace
<1>14. freevm(r.new) = ({r.new.dir} \cup r.new.ktab) \ {0}
  <2>1. PICK d0 \in Page \cup {0}, K0 \in SUBSET Page :
           d0 = r.new.dir /\ K0 = r.new.ktab /\ d0 \notin K0
    BY <1>10
  <2>2. freevm(setupkvm(d0, K0)) = ({d0} \cup K0) \ {0}
    BY <2>1, SetupSpace
  <2> QED
    BY <1>10, <2>1, <2>2
<1>15. freevm(s2) = freevm(r.new) \cup {v}
  BY <1>3, <1>4, <1>8, <1>10, <1>13, <1>14
<1>16. at2 \in State /\ at2 \in {r.at, "copy", "segment"} /\ (at2 \in {"fork", "copy"} => r.at = "fork")
       /\ (r.at = "fork" => at2 \in {"fork", "copy"}) /\ (r.at = "exec" => at2 \in {"exec", "segment"})
  BY <1>6, <1>7 DEF State
<1>17. r2 \in Process
  BY <1>13, <1>16 DEF Process
<1>18. /\ r2.at = at2 /\ r2.pgdir = r.pgdir /\ r2.new = s2 /\ r2.kstack = r.kstack
       /\ r2.sz = r.sz /\ r2.nsz = r.nsz /\ r2.to = r.to /\ r2.a = r.a /\ r2.kid = r.kid
       /\ r2.mem = r.mem
  BY DEF Process
<1> HIDE DEF r2
<1>19. r.mem = 0
  BY <1>1, <1>7, EmptyHand
<1>20. PICK T : T = {v}
  OBVIOUS
<1>21. Apart(r2) /\ Owned(r2) = Owned(r) \cup T
  <2>1. freevm(r2.new) = freevm(r.new) \cup (InHand(r) \cup T)
    BY <1>15, <1>18, <1>19, <1>20 DEF InHand
  <2>2. SpaceOK(r2.pgdir) /\ SpaceOK(r2.new) /\ T \in SUBSET Page /\ \A x \in T : x \notin Owned(r)
    BY <1>1, <1>8, <1>9, <1>13, <1>18, <1>20 DEF Apart
  <2> QED
    <3>1. r2.pgdir = r.pgdir /\ r2.kstack = r.kstack /\ r2.mem = 0 /\ Apart(r)
      BY <1>1, <1>18, <1>19
    <3> QED
      BY <1>17, <2>1, <2>2, <3>1, ApartMore, ZenonT(30)
<1>22. Layout(r2)
  <2>1. Upto(s2, 0)
    <3>1. \A i \in Vpn : ~(i < 0)
      BY KernPages, SMT DEF Vpn
    <3> QED
      BY <1>13, <3>1 DEF Upto
  <2>2. s2 = setupkvm(s2.dir, s2.ktab) /\ s2.dir # 0
    <3>1. s2.dir = d /\ s2.ktab = K
      BY <1>5 DEF setupkvm
    <3> QED
      BY <1>5, <1>12, <3>1
  <2>3. CASE r.at = "fork"
    <3>1. r.a = 0 * PGSIZE /\ 0 \in 0 .. Pages(r2.to)
      BY <1>1, <1>17, <2>3, Sizes, Constants, SMTT(30) DEF Layout
    <3>2. Loop(r2, r2.new, 0)
      BY <1>18, <2>1, <3>1 DEF Loop
    <3> QED
      BY <1>1, <1>16, <1>18, <1>19, <2>2, <2>3, <3>2 DEF Layout
  <2>4. CASE r.at = "exec"
    <3>1. r2.nsz = 0
      BY <1>1, <1>18, <2>4 DEF Layout
    <3>2. Pages(0) = 0
      BY Constants, SMT DEF Pages
    <3>3. CASE at2 = "exec"
      BY <1>1, <1>18, <1>19, <2>2, <2>4, <3>1, <3>3 DEF Layout
    <3>4. CASE at2 = "segment"
      BY <1>1, <1>18, <1>19, <2>1, <2>4, <3>1, <3>2, <3>4, ZenonT(60) DEF Layout
    <3> QED
      BY <1>16, <2>4, <3>3, <3>4
  <2> QED
    BY <1>7, <2>3, <2>4
<1>23. Filled(r2, data')
  BY <1>1, <1>7, <1>13, <1>16, <1>18, <1>19 DEF Filled, Clean, Copied
<1>24. Forking(r2) => Forking(r) /\ r2.kid = r.kid
  BY <1>16, <1>18 DEF Forking
<1>25. /\ free' = Minus(free, T) /\ data' \in [Page -> {"junk", "zero", "image"}]
       /\ panicked' = FALSE /\ r.at # "EMBRYO" /\ T \subseteq FreePages
       /\ \A x \in Page : x \notin T => data'[x] = data[x]
  BY <1>7, <1>8, <1>20 DEF Minus, IInv, TypeOK
<1>26. SameBelow(r, r2, data, data')
  BY <1>7, <1>18 DEF SameBelow
<1> QED
  BY <1>1, <1>7, <1>17, <1>21, <1>22, <1>23, <1>24, <1>25, <1>26, StepTake

-----------------------------------------------------------------------------
\* What kfree() does to the free list and to the contents of the pages.
LEMMA Freed ==
  ASSUME IInv, NEW S, kfree(S)
  PROVE  /\ free' = Plus(free, S)
         /\ data' \in [Page -> {"junk", "zero", "image"}]
         /\ \A v \in Page : v \notin S => data'[v] = data[v]
<1>1. data \in [Page -> {"junk", "zero", "image"}]
  BY DEF IInv, TypeOK
<1>2. /\ free' = [v \in Page |-> IF v \in S THEN free[v] + 1 ELSE free[v]]
      /\ data' = [v \in Page |-> IF v \in S THEN "junk" ELSE data[v]]
  BY DEF kfree
<1> QED
  BY <1>1, <1>2 DEF Plus

\* The space of r that shrinks, its own or the one it builds: the pages F of it
\* and the page in hand are given back.
LEMMA ApartLess ==
  ASSUME NEW r \in Process, Apart(r), NEW r2 \in Process, NEW F, NEW S, S = F \cup InHand(r),
         r2.kstack = r.kstack, r2.mem = 0, SpaceOK(r2.pgdir), SpaceOK(r2.new),
         \/ /\ r2.new = r.new /\ freevm(r2.pgdir) = freevm(r.pgdir) \ F
            /\ F \subseteq freevm(r.pgdir)
         \/ /\ r2.pgdir = r.pgdir /\ freevm(r2.new) = freevm(r.new) \ F
            /\ F \subseteq freevm(r.new)
  PROVE  Apart(r2) /\ Owned(r2) = Owned(r) \ S /\ \A v \in S : v \in Owned(r)
<1>0. 0 \notin freevm(r.pgdir) /\ 0 \notin freevm(r.new)
  BY ZeroIsNoPage, ProcessType, FreevmPages
<1>h. \A v \in InHand(r) : /\ v = r.mem /\ v # 0 /\ v # r.kstack
                           /\ v \notin freevm(r.pgdir) /\ v \notin freevm(r.new)
  BY DEF Apart, InHand
<1>1. \A v \in S : v \in Owned(r)
  BY <1>h, InOwned
<1>2. freevm(r2.pgdir) \cap freevm(r2.new) = {}
  BY DEF Apart
<1>3. /\ r2.kstack \notin freevm(r2.pgdir) \cup freevm(r2.new)
      /\ r2.mem \notin freevm(r2.pgdir) \cup freevm(r2.new)
  BY <1>0 DEF Apart
<1>4. \A v \in S : v # r.kstack
  BY <1>h DEF Apart
<1>5. \A v : v \in Owned(r2) <=> v \in Owned(r) /\ v \notin S
  <2>1. TAKE v
  <2>2. v \in Owned(r2) <=> v # 0 /\ (v = r.kstack \/ v \in freevm(r2.pgdir) \/ v \in freevm(r2.new))
    BY DEF Owned
  <2>3. v \in Owned(r) <=> \/ v # 0 /\ (v = r.kstack \/ v \in freevm(r.pgdir) \/ v \in freevm(r.new))
                           \/ v \in InHand(r)
    BY DEF Owned, InHand
  <2>4. v \in S <=> v \in F \/ v \in InHand(r)
    OBVIOUS
  <2> QED
    BY <1>h, <1>4, <2>2, <2>3, <2>4 DEF Apart
<1> QED
  BY <1>1, <1>2, <1>3, <1>5 DEF Apart

\* The same for the space being built, of which nothing is left.
LEMMA ApartNoNew ==
  ASSUME NEW r \in Process, Apart(r), NEW r2 \in Process, r2.pgdir = r.pgdir, r2.kstack = r.kstack,
         r2.mem = 0, SpaceOK(r2.pgdir), SpaceOK(r2.new), freevm(r2.new) = {}
  PROVE  /\ Apart(r2) /\ Owned(r2) = Owned(r) \ (freevm(r.new) \cup InHand(r))
         /\ \A v \in freevm(r.new) \cup InHand(r) : v \in Owned(r)
<1>1. PICK F, S : F = freevm(r.new) /\ S = F \cup InHand(r)
  OBVIOUS
<1>2. freevm(r2.new) = freevm(r.new) \ F /\ F \subseteq freevm(r.new)
  BY <1>1
<1>3. Apart(r2) /\ Owned(r2) = Owned(r) \ S /\ \A v \in S : v \in Owned(r)
  BY <1>1, <1>2, ApartLess
<1> QED
  BY <1>1, <1>3


\* A space that lost pages has no junk.
LEMMA CleanCut ==
  ASSUME NEW s \in Space, NEW lo, NEW hi, NEW s2, Cut(s, lo, hi, s2),
         NEW d, Clean(s, d), NEW d2, SameOn(freevm(s2), d, d2)
  PROVE  Clean(s2, d2)
<1>1. s2 \in Space /\ \A i \in Vpn : s2.pte[i] = NoPte \/ s2.pte[i] = s.pte[i]
  BY DEF Cut
<1>2. NoPte.pa = 0
  BY DEF NoPte
<1>3. Clean(s2, d)
  BY <1>1, <1>2 DEF Clean
<1> QED
  BY <1>1, <1>3, CleanFrame

\* What deallocuvm() leaves of the memory of a process: all below its size, what
\* is below the new size, or nothing.
Leaves(r, r2, oldsz, newsz) ==
    \/ newsz = r.sz /\ r2.sz = r.sz
    \/ r.at = "user" /\ r2.sz = newsz /\ oldsz = r.sz /\ 0 < newsz /\ newsz < r.sz
    \/ r.at = "user" /\ r2.at = "user" /\ r2.sz = r.sz /\ oldsz = r.sz /\ newsz = 0

\* The memory of a process after deallocuvm().
LEMMA ImageCut ==
  ASSUME NEW p \in Proc, NEW r \in Process, NEW r2, r = proc[p], r2 = proc'[p],
         NEW oldsz \in Nat, NEW newsz \in Nat,
         Cut(r.pgdir, Pages(newsz), Pages(oldsz), r2.pgdir), Leaves(r, r2, oldsz, newsz),
         \A i \in Vpn : r2.pgdir.pte[i].pa # 0 => data'[r2.pgdir.pte[i].pa] = data[r2.pgdir.pte[i].pa]
  PROVE  Image(p)' = Image(p) \/ Replaced(p)
<1> DEFINE F(e) == IF e.pa = 0 THEN <<"none", FALSE>> ELSE <<data[e.pa], e.u>>
<1> DEFINE G(e) == IF e.pa = 0 THEN <<"none", FALSE>> ELSE <<data'[e.pa], e.u>>
<1>1. Image(p) = [i \in Below(r.sz) |-> F(r.pgdir.pte[i])]
  BY DEF Image
<1>2. Image(p)' = [i \in Below(r2.sz) |-> G(r2.pgdir.pte[i])]
  BY DEF Image
<1>3. \A i \in Vpn : G(r2.pgdir.pte[i]) = F(r2.pgdir.pte[i])
  OBVIOUS
<1>4. F(NoPte) = <<"none", FALSE>>
  BY DEF NoPte
<1> HIDE DEF F, G
<1>5. ASSUME NEW n \in Nat, NEW i \in Below(n)
      PROVE  i \in Vpn /\ i \in Nat /\ i < Pages(n)
  <2>1. i \in Vpn /\ i * PGSIZE < n
    BY DEF Below
  <2>2. i \in Nat
    BY <2>1, KernPages, SMT DEF Vpn
  <2> QED
    BY <2>1, <2>2, PagesOf
<1>6. \A i \in Vpn : r2.pgdir.pte[i] = IF Pages(newsz) <= i /\ i < Pages(oldsz)
                                       THEN NoPte ELSE r.pgdir.pte[i]
  BY DEF Cut
<1>7. ASSUME NEW i \in Below(newsz)
      PROVE  G(r2.pgdir.pte[i]) = F(r.pgdir.pte[i])
  <2>1. i \in Vpn /\ i \in Nat /\ i < Pages(newsz) /\ Pages(newsz) \in Nat
    BY <1>5, PagesOf
  <2>2. ~(Pages(newsz) <= i)
    BY <2>1, SMT
  <2>3. r2.pgdir.pte[i] = r.pgdir.pte[i]
    BY <1>6, <2>1, <2>2
  <2> QED
    BY <1>3, <2>1, <2>3
<1>8. CASE newsz = r.sz /\ r2.sz = r.sz
  BY <1>1, <1>2, <1>7, <1>8
<1>9. CASE r.at = "user" /\ r2.sz = newsz /\ oldsz = r.sz /\ 0 < newsz /\ newsz < r.sz
  <2>1. \A i \in Below(newsz) : i \in Below(r.sz)
    <3>1. TAKE i \in Below(newsz)
    <3>2. i \in Vpn /\ i * PGSIZE < newsz
      BY DEF Below
    <3>3. i * PGSIZE \in Nat
      BY <1>5, Constants, SMT
    <3>4. i * PGSIZE < r.sz
      <4>1. \A x, y, z \in Nat : x < y /\ y < z => x < z
        BY SMT
      <4> QED
        BY <1>9, <3>2, <3>3, <4>1
    <3> QED
      BY <3>2, <3>4 DEF Below
  <2>2. \A i \in Below(newsz) : Image(p)[i] = F(r.pgdir.pte[i])
    BY <1>1, <2>1
  <2>3. Image(p)' = [i \in Below(newsz) |-> Image(p)[i]]
    <3>1. Image(p)' = [i \in Below(newsz) |-> G(r2.pgdir.pte[i])]
      BY <1>2, <1>9
    <3>2. \A i \in Below(newsz) : G(r2.pgdir.pte[i]) = Image(p)[i]
      BY <1>7, <2>2
    <3> QED
      BY <3>1, <3>2
  <2> QED
    BY <1>9, <2>3 DEF Replaced, Shrunk
<1>10. CASE r.at = "user" /\ r2.at = "user" /\ r2.sz = r.sz /\ oldsz = r.sz /\ newsz = 0
  <2>1. Pages(newsz) = 0
    BY <1>10, Constants, SMT DEF Pages
  <2>2. ASSUME NEW i \in Below(r.sz)
        PROVE  G(r2.pgdir.pte[i]) = <<"none", FALSE>>
    <3>1. i \in Vpn /\ i \in Nat /\ i < Pages(oldsz)
      BY <1>5, <1>10
    <3>2. Pages(newsz) <= i
      BY <2>1, <3>1, SMT
    <3> QED
      BY <1>3, <1>4, <1>6, <3>1, <3>2
  <2>3. Image(p)' = [i \in Below(r.sz) |-> <<"none", FALSE>>]
    BY <1>2, <1>10, <2>2
  <2> QED
    BY <1>10, <2>3 DEF Replaced, Emptied
<1> QED
  BY <1>8, <1>9, <1>10 DEF Leaves

\* deallocuvm() of a process's own memory.
LEMMA StepDealloc ==
  ASSUME IInv, NEW p \in Proc, NEW r2 \in Process, proc' = [proc EXCEPT ![p] = r2],
         NEW oldsz \in Nat, NEW newsz \in Nat, NEW s2,
         Cut(proc[p].pgdir, Pages(newsz), Pages(oldsz), s2),
         NEW S, S = FreedBetween(proc[p].pgdir, oldsz, newsz) \cup InHand(proc[p]), kfree(S),
         UNCHANGED <<pipes, panicked>>, Leaves(proc[p], r2, oldsz, newsz),
         r2.pgdir = s2, r2.new = proc[p].new, r2.kstack = proc[p].kstack, r2.mem = 0,
         proc[p].at \in {"user", "sbrk"}, r2.at = "user", Layout(r2)
  PROVE  IInv' /\ KeepImages
<1>1. PICK r \in Process : r = proc[p] /\ Layout(r) /\ Apart(r) /\ Filled(r, data)
  BY DEF IInv, TypeOK
<1>2. PICK s \in Space : s = r.pgdir /\ SpaceOK(s) /\ Clean(s, data)
  BY <1>1, ProcessType DEF Apart, Filled
<1>3. PICK F : F = FreedBetween(s, oldsz, newsz)
  OBVIOUS
<1>4. /\ s2 \in Space /\ SpaceOK(s2) /\ freevm(s2) = freevm(s) \ F /\ F \subseteq freevm(s)
  <2>1. Cut(s, Pages(newsz), Pages(oldsz), s2)
    BY <1>1, <1>2
  <2> QED
    BY <1>2, <1>3, <2>1, DeallocSpace, ZenonT(60)
<1>5. S = F \cup InHand(r) /\ kfree(S) /\ pipes' = pipes /\ panicked' = FALSE
  BY <1>1, <1>2, <1>3 DEF IInv, TypeOK
<1>6. /\ free' = Plus(free, S) /\ data' \in [Page -> {"junk", "zero", "image"}]
      /\ \A v \in Page : v \notin S => data'[v] = data[v]
  BY <1>5, Freed
<1>7. Apart(r2) /\ Owned(r2) = Owned(r) \ S /\ \A v \in S : v \in Owned(r)
  <2>1. SpaceOK(r2.pgdir) /\ SpaceOK(r2.new)
    BY <1>1, <1>4 DEF Apart
  <2>2. /\ r2.new = r.new /\ freevm(r2.pgdir) = freevm(r.pgdir) \ F
        /\ F \subseteq freevm(r.pgdir) /\ r2.kstack = r.kstack
    BY <1>1, <1>2, <1>4
  <2> QED
    BY <1>1, <1>5, <2>1, <2>2, ApartLess
<1>8. \A v \in freevm(s2) : data'[v] = data[v]
  <2>1. \A v \in freevm(s2) : v \in Page /\ v \notin S
    BY <1>1, <1>2, <1>4, <1>5, FreevmPages DEF Apart, InHand
  <2> QED
    BY <1>6, <2>1
<1>9. Clean(s2, data')
  <2>2. Cut(s, Pages(newsz), Pages(oldsz), s2) /\ Clean(s, data) /\ SameOn(freevm(s2), data, data')
    BY <1>1, <1>2, <1>8 DEF SameOn
  <2>3. Clean(s2, data')
    BY <2>2, CleanCut
  <2> QED
    BY <2>3
<1>10. r2.new = NoSpace
  BY <1>1 DEF Layout
<1>11. Filled(r2, data')
  BY <1>9, <1>10, NoSpaceOK DEF Filled, Clean
<1>12. Image(p)' = Image(p) \/ Replaced(p)
  <2>1. proc'[p] = r2
    BY DEF IInv, TypeOK
  <2>2. \A i \in Vpn : s2.pte[i].pa # 0 => data'[s2.pte[i].pa] = data[s2.pte[i].pa]
    BY <1>4, <1>8, InFreevm
  <2>3. Cut(r.pgdir, Pages(newsz), Pages(oldsz), r2.pgdir) /\ Leaves(r, r2, oldsz, newsz)
    BY <1>1
  <2> QED
    BY <1>1, <2>1, <2>2, <2>3, ImageCut
<1>13. ~Forking(r2) /\ \A v \in Page : v \notin Owned(r) => data'[v] = data[v]
  BY <1>6, <1>7 DEF Forking
<1> QED
  BY <1>1, <1>5, <1>6, <1>7, <1>11, <1>12, <1>13, StepFree

\* growproc(n), n < 0.
LEMMA StepSbrkShrink ==
  ASSUME IInv, NEW p \in Proc, NEW n \in Increment, SbrkShrink(p, n)
  PROVE  IInv' /\ KeepImages
<1>1. PICK r \in Process : r = proc[p] /\ Layout(r)
  BY DEF IInv, TypeOK
<1>2. PICK newsz : newsz = (r.sz + n) % UINT
  OBVIOUS
<1>3. PICK s2 : s2 = deallocuvm(r.pgdir, r.sz, newsz)
  OBVIOUS
<1> DEFINE sz2 == IF newsz = 0 THEN r.sz ELSE newsz
<1> DEFINE r2 == [r EXCEPT !.pgdir = s2, !.sz = sz2]
<1>4. /\ r.at = "user" /\ r.pgdir.pte[0].u /\ newsz < r.sz
      /\ kfree(FreedBetween(r.pgdir, r.sz, newsz))
      /\ proc' = [proc EXCEPT ![p] = r2]
      /\ UNCHANGED <<pipes, panicked>>
  BY <1>1, <1>2, <1>3 DEF SbrkShrink, Runs
<1>5. newsz \in Nat
  <2>1. n \in Int /\ UINT \in Nat \ {0}
    BY MemoryAssumption, Constants, SMT DEF UINT
  <2>2. r.sz + n \in Int
    BY <2>1, Sizes, SMT
  <2> QED
    BY <1>2, <2>1, <2>2, SMT
<1>6. r.sz \in Nat /\ r.pgdir \in Space
  BY Sizes, ProcessType
<1>7. Cut(r.pgdir, Pages(newsz), Pages(r.sz), s2)
  BY <1>3, <1>5, <1>6, DeallocFields
<1>8. Upto(s2, Pages(newsz))
  <2>1. Pages(newsz) <= Pages(r.sz) /\ Pages(r.sz) <= Pages(r.sz) /\ Pages(r.sz) \in Nat
    BY <1>4, <1>5, <1>6, PagesOf, PagesMono, SMT
  <2>2. Upto(r.pgdir, Pages(r.sz))
    BY <1>1, <1>4 DEF Layout
  <2> QED
    BY <1>5, <1>6, <1>7, <2>1, <2>2, DeallocUpto
<1>9. s2 \in Space
  BY <1>7 DEF Cut
<1>10. sz2 \in 0 .. KERNBASE - 1
  BY <1>4, <1>5, ProcessType, Constants, SMT
<1> HIDE DEF sz2
<1>11. r2 \in Process
  BY <1>9, <1>10 DEF Process
<1>12. /\ r2.at = r.at /\ r2.pgdir = s2 /\ r2.new = r.new /\ r2.kstack = r.kstack
       /\ r2.sz = sz2 /\ r2.nsz = r.nsz /\ r2.mem = r.mem
  BY DEF Process
<1> HIDE DEF r2
<1>13. newsz = 0 => ~s2.pte[0].u
  <2>1. ASSUME newsz = 0
        PROVE  s2.pte[0] = NoPte
    <3>1. Pages(newsz) <= 0 /\ 0 \in Vpn /\ 0 < Pages(r.sz)
      <4>1. Pages(0) = 0
        BY Constants, SMT DEF Pages
      <4>2. 0 \in Nat /\ 0 * PGSIZE < r.sz
        BY <1>4, <1>6, <2>1, Constants, SMT
      <4>3. 0 < Pages(r.sz)
        BY <1>6, <4>2, PagesOf
      <4>4. 0 \in Vpn
        BY <4>2, Sizes, VpnOf
      <4>5. 0 <= 0
        BY SMT
      <4> QED
        BY <2>1, <4>1, <4>3, <4>4, <4>5
    <3> QED
      BY <1>7, <3>1 DEF Cut
  <2>2. NoPte.u = FALSE
    BY DEF NoPte
  <2> QED
    BY <2>1, <2>2
<1>m. r.mem = 0
  BY <1>1, <1>4, EmptyHand
<1>14. Layout(r2)
  <2>1. r2.pgdir.pte[0].u => Upto(r2.pgdir, Pages(r2.sz))
    BY <1>8, <1>12, <1>13 DEF sz2
  <2> QED
    BY <1>1, <1>4, <1>12, <1>m, <2>1 DEF Layout
<1>15. Leaves(r, r2, r.sz, newsz)
  <2>1. CASE newsz = 0
    BY <1>4, <1>12, <2>1 DEF Leaves, sz2
  <2>2. CASE newsz # 0
    <3>1. 0 < newsz
      BY <1>5, <2>2, SMT
    <3> QED
      BY <1>4, <1>12, <2>2, <3>1 DEF Leaves, sz2
  <2> QED
    BY <2>1, <2>2
<1>16. PICK S : S = FreedBetween(r.pgdir, r.sz, newsz) \cup InHand(r)
  OBVIOUS
<1>17. kfree(S)
  <2>1. S = FreedBetween(r.pgdir, r.sz, newsz)
    BY <1>16, <1>m DEF InHand
  <2> QED
    BY <1>4, <2>1
<1> QED
  BY <1>1, <1>4, <1>5, <1>6, <1>7, <1>11, <1>12, <1>14, <1>15, <1>16, <1>17, <1>m, StepDealloc

\* allocuvm() of sbrk() takes away what it had added.
LEMMA StepSbrkFails ==
  ASSUME IInv, NEW p \in Proc, SbrkFails(p)
  PROVE  IInv' /\ KeepImages
<1>1. PICK r \in Process : r = proc[p] /\ Layout(r)
  BY DEF IInv, TypeOK
<1>2. PICK s2 : s2 = deallocuvm(r.pgdir, r.to, r.nsz)
  OBVIOUS
<1>s. PICK S : S = FreedBetween(r.pgdir, r.to, r.nsz) \cup InHand(r)
  OBVIOUS
<1> DEFINE r2 == [Returned(r) EXCEPT !.pgdir = s2]
<1>3. /\ r.at = "sbrk" /\ kfree(S)
      /\ proc' = [proc EXCEPT ![p] = r2]
      /\ UNCHANGED <<pipes, panicked>>
  BY <1>1, <1>2, <1>s DEF SbrkFails
<1>4. r.nsz = r.sz /\ r.sz <= r.to /\ r.new = NoSpace /\ Loop(r, r.pgdir, Pages(r.sz))
  BY <1>1, <1>3 DEF Layout
<1>5. r.nsz \in Nat /\ r.to \in Nat /\ r.pgdir \in Space /\ Pages(r.nsz) \in Nat /\ Pages(r.to) \in Nat
  BY Sizes, ProcessType
<1>6. Cut(r.pgdir, Pages(r.nsz), Pages(r.to), s2)
  BY <1>2, <1>5, DeallocFields
<1>7. Upto(s2, Pages(r.nsz))
  <2>1. PICK k \in Pages(r.sz) .. Pages(r.to) : Upto(r.pgdir, k)
    BY <1>4 DEF Loop
  <2>2. k \in Nat /\ Pages(r.nsz) <= k /\ k <= Pages(r.to)
    BY <1>4, <1>5, <2>1, SMT
  <2> QED
    BY <1>5, <1>6, <2>1, <2>2, DeallocUpto
<1>8. s2 \in Space
  BY <1>6 DEF Cut
<1>9. r2 \in Process
  BY <1>8, ReturnedOK DEF Process
<1>10. /\ r2.at = "user" /\ r2.pgdir = s2 /\ r2.new = NoSpace /\ r2.kstack = r.kstack
       /\ r2.sz = r.sz /\ r2.nsz = 0 /\ r2.mem = 0
  BY DEF Process, Returned
<1> HIDE DEF r2
<1>11. Layout(r2)
  BY <1>4, <1>7, <1>10 DEF Layout
<1>12. r2.new = r.new
  BY <1>4, <1>10
<1>13. Leaves(r, r2, r.to, r.nsz)
  BY <1>4, <1>10 DEF Leaves
<1> QED
  BY <1>1, <1>3, <1>5, <1>6, <1>9, <1>10, <1>11, <1>12, <1>13, <1>s, StepDealloc

\* cleanupexec().
LEMMA StepExecFails ==
  ASSUME IInv, NEW p \in Proc, ExecFails(p)
  PROVE  IInv' /\ KeepImages
<1>1. PICK r \in Process : r = proc[p] /\ Layout(r) /\ Apart(r) /\ Filled(r, data)
  BY DEF IInv, TypeOK
<1>2. PICK S : S = freevm(r.new) \cup InHand(r)
  OBVIOUS
<1>3. PICK r2 \in Process : r2 = Returned(r)
  BY ReturnedOK
<1>4. r.at \in {"exec", "segment", "load", "stack"}
  BY <1>1 DEF ExecFails
<1>5. /\ kfree(S) /\ proc' = [proc EXCEPT ![p] = r2]
      /\ pipes' = pipes /\ panicked' = FALSE
  BY <1>1, <1>2, <1>3 DEF ExecFails, IInv, TypeOK
<1>6. /\ r2.at = "user" /\ r2.pgdir = r.pgdir /\ r2.new = NoSpace /\ r2.kstack = r.kstack
      /\ r2.sz = r.sz /\ r2.nsz = 0 /\ r2.mem = 0
  BY <1>3 DEF Process, Returned
<1>7. /\ free' = Plus(free, S) /\ data' \in [Page -> {"junk", "zero", "image"}]
      /\ \A v \in Page : v \notin S => data'[v] = data[v]
  BY <1>5, Freed
<1>8. Apart(r2) /\ Owned(r2) = Owned(r) \ S /\ \A v \in S : v \in Owned(r)
  <2>1. SpaceOK(r2.pgdir) /\ SpaceOK(r2.new)
    BY <1>1, <1>6, NoSpaceOK DEF Apart
  <2>2. PICK F : F = freevm(r.new)
    OBVIOUS
  <2>3. freevm(r2.new) = freevm(r.new) \ F /\ F \subseteq freevm(r.new) /\ S = F \cup InHand(r)
    BY <1>2, <1>6, <2>2, NoSpaceOK
  <2>4. r2.pgdir = r.pgdir /\ r2.kstack = r.kstack /\ r2.mem = 0 /\ Apart(r)
    BY <1>1, <1>6
  <2> QED
    BY <2>1, <2>3, <2>4, ApartLess
<1>9. \A v \in freevm(r.pgdir) : data'[v] = data[v]
  <2>1. \A v \in freevm(r.pgdir) : v \in Page /\ v \notin S
    BY <1>1, <1>2, ProcessType, FreevmPages DEF Apart, InHand
  <2> QED
    BY <1>7, <2>1
<1>10. Clean(r2.pgdir, data')
  <2>0. PICK s \in Space : s = r.pgdir
    BY ProcessType
  <2>1. Clean(s, data) /\ SameOn(freevm(s), data, data')
    BY <1>1, <1>9, <2>0 DEF Filled, SameOn
  <2>2. Clean(s, data')
    BY <2>1, CleanFrame
  <2> QED
    BY <1>6, <2>0, <2>2
<1>11. Filled(r2, data')
  BY <1>6, <1>10, NoSpaceOK DEF Filled, Clean
<1>12. Layout(r2)
  BY <1>1, <1>4, <1>6 DEF Layout
<1>13. ~Forking(r2) /\ \A v \in Page : v \notin Owned(r) => data'[v] = data[v]
  BY <1>6, <1>7, <1>8 DEF Forking
<1>14. Image(p)' = Image(p)
  <2>1. SameOn(freevm(r.pgdir), data, data')
    BY <1>9 DEF SameOn
  <2>2. SameBelow(r, r2, data, data')
    BY <1>6, <2>1, SamePgdir
  <2>3. proc'[p] = r2
    BY <1>5 DEF IInv, TypeOK
  <2> QED
    BY <1>1, <2>2, <2>3, SameImage
<1> QED
  BY <1>1, <1>4, <1>5, <1>7, <1>8, <1>11, <1>12, <1>13, <1>14, StepFree


\* A process without an address space has no user page.
LEMMA NoFirstPage == ~NoSpace.pte[0].u
<1>1. 0 \in Vpn
  BY KernPages, Constants, SMT DEF Vpn
<1>2. NoSpace.pte = [i \in Vpn |-> NoPte]
  BY DEF NoSpace, setupkvm
<1>3. NoPte.u = FALSE
  BY DEF NoPte
<1> QED
  BY <1>1, <1>2, <1>3

\* A slot that is not in use.
LEMMA IdleOK ==
  /\ Idle \in Process /\ Idle.at = "UNUSED" /\ Idle.kstack = 0
  /\ Idle.pgdir = NoSpace /\ Idle.new = NoSpace /\ Idle.sz = 0 /\ Idle.mem = 0
  /\ Layout(Idle) /\ Apart(Idle) /\ Owned(Idle) = {} /\ \A d : Filled(Idle, d)
<1>1. <<>> \in Seq(Segment) /\ 0 \in 0 .. KERNBASE - 1 /\ 0 \in 0 .. KERNBASE
  BY Constants, SMT
<1>2. Idle \in Process
  BY <1>1, NoSpaceOK DEF Idle, Process, State
<1>3. /\ Idle.at = "UNUSED" /\ Idle.kstack = 0
      /\ Idle.pgdir = NoSpace /\ Idle.new = NoSpace /\ Idle.sz = 0 /\ Idle.mem = 0
  BY DEF Idle
<1>5. Layout(Idle)
  BY <1>3, NoFirstPage DEF Layout
<1>6. Apart(Idle) /\ Owned(Idle) = {}
  BY <1>3, NoSpaceOK DEF Apart, Owned
<1>7. \A d : Filled(Idle, d)
  BY <1>3, NoSpaceOK DEF Filled, Clean
<1> QED
  BY <1>2, <1>3, <1>5, <1>6, <1>7

\* wait() frees the memory and the kernel stack of a zombie.
LEMMA StepWait ==
  ASSUME IInv, NEW c \in Proc, Wait(c)
  PROVE  IInv' /\ KeepImages
<1>1. PICK r \in Process : r = proc[c] /\ Layout(r)
  BY DEF IInv, TypeOK
<1>2. PICK S : S = {r.kstack} \cup freevm(r.pgdir)
  OBVIOUS
<1>3. PICK r2 \in Process : r2 = Idle
  BY IdleOK
<1>4. /\ r.at = "ZOMBIE" /\ kfree(S) /\ proc' = [proc EXCEPT ![c] = r2]
      /\ pipes' = pipes /\ panicked' = FALSE
  BY <1>1, <1>2, <1>3 DEF Wait, IInv, TypeOK
<1>5. /\ free' = Plus(free, S) /\ data' \in [Page -> {"junk", "zero", "image"}]
      /\ \A v \in Page : v \notin S => data'[v] = data[v]
  BY <1>4, Freed
<1>6. r.new = NoSpace
  BY <1>1, <1>4 DEF Layout
<1>7. Owned(r2) = Owned(r) \ S
  <2>1. r.mem = 0
    BY <1>1, <1>4, EmptyHand
  <2> QED
    BY <1>2, <1>3, <1>6, <2>1, IdleOK, NoSpaceOK DEF Owned
<1>8. \A v \in S : v \in Page => v \in Owned(r)
  BY <1>2, InOwned, ZeroIsNoPage
<1>9. Layout(r2) /\ Apart(r2) /\ Filled(r2, data')
  BY <1>3, IdleOK
<1>10. Replaced(c) /\ ~Forking(r2)
  <2>1. proc'[c] = r2
    BY <1>4 DEF IInv, TypeOK
  <2> QED
    BY <1>1, <1>3, <1>4, <2>1, IdleOK DEF Replaced, Buried, Forking
<1>11. \A v \in Page : v \notin Owned(r) => data'[v] = data[v]
  BY <1>5, <1>8
<1> QED
  BY <1>1, <1>4, <1>5, <1>7, <1>8, <1>9, <1>10, <1>11, StepFree

\* loaduvm(): the pages of the segment are there, and not the process's own.
LEMMA StepSegmentLoad ==
  ASSUME IInv, NEW p \in Proc, SegmentLoad(p)
  PROVE  IInv' /\ KeepImages
<1>1. PICK r \in Process : r = proc[p] /\ Layout(r) /\ Apart(r) /\ Filled(r, data)
  BY DEF IInv, TypeOK
<1>2. PICK seg : seg = Head(r.segs)
  OBVIOUS
<1>3. PICK J : J = {j \in Vpn : seg.vaddr <= j * PGSIZE /\ j * PGSIZE < seg.vaddr + seg.filesz}
  OBVIOUS
<1>4. PICK s \in Space : s = r.new
  BY ProcessType
<1> DEFINE r2 == [r EXCEPT !.at = "segment", !.segs = Tail(r.segs), !.nsz = r.to]
<1>5. /\ r.at = "load" /\ r.a >= r.to
      /\ data' = [v \in Page |-> IF \E e \in {s.pte[i] : i \in J} : e.pa = v THEN "image" ELSE data[v]]
      /\ panicked' = (panicked \/ NoPte \in {s.pte[i] : i \in J})
      /\ proc' = [proc EXCEPT ![p] = r2]
      /\ free' = free /\ pipes' = pipes
  BY <1>1, <1>2, <1>3, <1>4, ZenonT(60) DEF SegmentLoad
<1>6. /\ r.segs # <<>> /\ seg.filesz <= seg.memsz /\ seg.vaddr + seg.memsz <= r.to
      /\ Loop(r, s, 0)
  BY <1>1, <1>2, <1>4, <1>5 DEF Layout
<1>7. seg \in Segment /\ Tail(r.segs) \in Seq(Segment)
  BY <1>2, <1>6, ProcessType, SMT
<1>8. seg.vaddr \in Nat /\ seg.memsz \in Nat /\ seg.filesz \in Nat
  <2>1. seg.vaddr \in 0 .. UINT - 1 /\ seg.memsz \in 0 .. UINT - 1 /\ seg.filesz \in 0 .. UINT - 1
    BY <1>7 DEF Segment
  <2>2. UINT \in Nat
    BY Constants, SMT DEF UINT
  <2> QED
    BY <2>1, <2>2, SMT
<1>9. Upto(s, Pages(r.to))
  <2>1. 0 \in Nat
    BY SMT
  <2> QED
    BY <1>5, <1>6, <2>1, LoopOver
<1>10. \A i \in J : i \in Vpn /\ s.pte[i].pa # 0
  <2>1. ASSUME NEW i \in J
        PROVE  s.pte[i].pa # 0
    <3>1. i \in Vpn /\ i * PGSIZE < seg.vaddr + seg.filesz
      BY <1>3, <2>1
    <3>2. i \in Nat
      BY <3>1, KernPages, SMT DEF Vpn
    <3>3. i * PGSIZE < r.to /\ r.to \in Nat
      <4>1. PICK x \in Nat : x = i * PGSIZE
        BY <3>2, Constants, SMT
      <4>2. x < seg.vaddr + seg.filesz /\ r.to \in Nat
        BY <3>1, <4>1, Sizes
      <4>3. x < r.to
        BY <1>6, <1>8, <4>2, SMT
      <4> QED
        BY <4>1, <4>2, <4>3
    <3>4. i < Pages(r.to)
      BY <3>2, <3>3, PagesOf
    <3> QED
      BY <1>9, <3>1, <3>4 DEF Upto
  <2> QED
    BY <1>3, <2>1
<1>11. panicked' = FALSE
  <2>1. NoPte.pa = 0
    BY DEF NoPte
  <2> QED
    BY <1>5, <1>10, <2>1 DEF IInv
<1>12. data \in [Page -> {"junk", "zero", "image"}] /\ free \in [Page -> {0, 1}]
  BY DEF IInv, TypeOK
<1>13. \A v \in Page : v \notin freevm(s) => data'[v] = data[v]
  <2>1. \A i \in J : s.pte[i].pa \in freevm(s)
    BY <1>10, InFreevm
  <2> QED
    BY <1>5, <2>1
<1>14. data' \in [Page -> {"junk", "zero", "image"}]
  BY <1>5, <1>12
<1>15. \A v \in Page : data'[v] = data[v] \/ data'[v] = "image"
  BY <1>5
<1>16. r2 \in Process
  BY <1>7, ProcessType DEF Process, State
<1>17. /\ r2.at = "segment" /\ r2.pgdir = r.pgdir /\ r2.new = s /\ r2.kstack = r.kstack
       /\ r2.sz = r.sz /\ r2.nsz = r.to /\ r2.mem = r.mem
  BY <1>4 DEF Process
<1> HIDE DEF r2
<1>m. r.mem = 0
  BY <1>1, <1>5, EmptyHand
<1>18. Layout(r2)
  BY <1>1, <1>5, <1>9, <1>17, <1>m DEF Layout
<1>19. Apart(r2) /\ Owned(r2) = Owned(r)
  BY <1>1, <1>4, <1>17 DEF Apart, Owned
<1>20. \A v \in Page : v \notin Owned(r) => data'[v] = data[v]
  BY <1>4, <1>13, InOwned
<1>21. \A v \in freevm(r.pgdir) : data'[v] = data[v]
  <2>1. \A v \in freevm(r.pgdir) : v \in Page /\ v \notin freevm(s)
    BY <1>1, <1>4, ProcessType, FreevmPages DEF Apart
  <2> QED
    BY <1>13, <2>1
<1>22. Filled(r2, data')
  <2>1. \A v \in Page : data[v] # "junk" => data'[v] # "junk"
    BY <1>15
  <2>2. \A i \in Vpn : s.pte[i].pa # 0 => s.pte[i].pa \in Page
    BY SpaceType
  <2>3. \A i \in Vpn : r.pgdir.pte[i].pa # 0 => r.pgdir.pte[i].pa \in Page
    BY ProcessType, SpaceType
  <2>4. Clean(s, data')
    BY <1>1, <1>4, <2>1, <2>2 DEF Filled, Clean
  <2>5. Clean(r.pgdir, data')
    BY <1>1, <2>1, <2>3 DEF Filled, Clean
  <2> QED
    BY <1>17, <1>m, <2>4, <2>5 DEF Filled
<1>23. PICK S : S = {}
  OBVIOUS
<1>24. /\ \A v \in S : v \in Page => v \in Owned(r)
       /\ Owned(r2) = Owned(r) \ S
       /\ free' = Plus(free, S)
  BY <1>5, <1>12, <1>19, <1>23 DEF Plus
<1>25. ~Forking(r2)
  BY <1>17 DEF Forking
<1>26. proc' = [proc EXCEPT ![p] = r2] /\ pipes' = pipes /\ r.at # "EMBRYO" /\ Apart(r2)
  BY <1>5, <1>19
<1>27. Image(p)' = Image(p)
  <2>1. SameOn(freevm(r.pgdir), data, data')
    BY <1>21 DEF SameOn
  <2>2. SameBelow(r, r2, data, data')
    BY <1>17, <2>1, SamePgdir
  <2>3. proc'[p] = r2
    BY <1>26 DEF IInv, TypeOK
  <2> QED
    BY <1>1, <2>2, <2>3, SameImage
<1> QED
  BY <1>1, <1>11, <1>14, <1>16, <1>18, <1>20, <1>22, <1>24, <1>25, <1>26, <1>27, StepFree


\* The two pages of the stack.
LEMMA StackPages ==
  ASSUME NEW r \in Process, r.nsz = Pages(r.nsz) * PGSIZE, r.to = r.nsz + 2 * PGSIZE
  PROVE  \E m \in Vpn : /\ r.to - 2 * PGSIZE \in Nat
                        /\ (r.to - 2 * PGSIZE) \div PGSIZE = m
                        /\ m + 1 \in Vpn /\ r.to \div PGSIZE - 1 = m + 1
                        /\ m < Pages(r.to) /\ m + 1 < Pages(r.to)
<1>1. PICK m \in Nat : m = Pages(r.nsz)
  BY Sizes
<1>2. r.to \in Nat /\ r.to \in 0 .. KERNBASE
  BY Sizes
<1>3. /\ r.to = (m + 2) * PGSIZE /\ r.to - 2 * PGSIZE = m * PGSIZE /\ m * PGSIZE \in Nat
      /\ m * PGSIZE < r.to /\ (m + 1) * PGSIZE < r.to /\ m + 1 \in Nat /\ m + 2 \in Nat
  BY <1>1, <1>2, Constants, SMT
<1>4. m \in Vpn /\ (m * PGSIZE) \div PGSIZE = m
  BY <1>2, <1>3, VpnOf
<1>5. m + 1 \in Vpn
  BY <1>2, <1>3, VpnOf
<1>6. r.to \div PGSIZE = m + 2
  <2>1. PICK k \in Nat : k = m + 2
    BY <1>3
  <2>2. PGSIZE * k <= r.to /\ r.to < PGSIZE * k + PGSIZE
    BY <1>2, <1>3, <2>1, Constants, SMT
  <2>3. r.to \div PGSIZE = k
    BY <1>2, <2>2, Constants, DivUnique
  <2> QED
    BY <2>1, <2>3
<1>7. r.to \div PGSIZE - 1 = m + 1
  BY <1>6, SMT
<1>8. m < Pages(r.to) /\ m + 1 < Pages(r.to)
  BY <1>2, <1>3, PagesOf
<1> QED
  BY <1>3, <1>4, <1>5, <1>7, <1>8

\* The new memory replaces the old one.
LEMMA StepExecCommit ==
  ASSUME IInv, NEW p \in Proc, NEW len \in ArgsSize, ExecCommit(p, len)
  PROVE  IInv' /\ KeepImages
<1>1. PICK r \in Process : r = proc[p] /\ Layout(r) /\ Apart(r) /\ Filled(r, data)
  BY DEF IInv, TypeOK
<1>2. PICK s \in Space : s = r.new /\ SpaceOK(s) /\ Clean(s, data)
  BY <1>1, ProcessType DEF Apart, Filled
<1>3. PICK s2 : s2 = clearpteu(s, r.to - 2 * PGSIZE)
  OBVIOUS
<1>4. PICK S : S = freevm(r.pgdir)
  OBVIOUS
<1>5. PICK top : top = s2.pte[r.to \div PGSIZE - 1].pa
  OBVIOUS
<1> DEFINE r2 == [Returned(r) EXCEPT !.pgdir = s2, !.sz = r.to]
<1>6. /\ r.at = "stack" /\ r.a >= r.to
      /\ free' = [v \in Page |-> IF v \in S THEN free[v] + 1 ELSE free[v]]
      /\ data' = [v \in Page |-> IF v \in S THEN "junk" ELSE IF v = top THEN "image" ELSE data[v]]
      /\ proc' = [proc EXCEPT ![p] = r2]
      /\ UNCHANGED <<pipes, panicked>>
  BY <1>1, <1>2, <1>3, <1>4, <1>5 DEF ExecCommit
<1>7. r.nsz = Pages(r.nsz) * PGSIZE /\ r.to = r.nsz + 2 * PGSIZE /\ Loop(r, s, 0)
  BY <1>1, <1>2, <1>6 DEF Layout
<1>8. PICK m \in Vpn : /\ r.to - 2 * PGSIZE \in Nat
                       /\ (r.to - 2 * PGSIZE) \div PGSIZE = m
                       /\ m + 1 \in Vpn /\ r.to \div PGSIZE - 1 = m + 1
                       /\ m < Pages(r.to) /\ m + 1 < Pages(r.to)
  BY <1>7, StackPages
<1>9. Upto(s, Pages(r.to))
  <2>1. 0 \in Nat
    BY SMT
  <2> QED
    BY <1>6, <1>7, <2>1, LoopOver
<1>10. s.pte[m].pa # 0 /\ s.pte[m + 1].pa # 0
  BY <1>8, <1>9 DEF Upto
<1>11. /\ s2 \in Space /\ SpaceOK(s2) /\ freevm(s2) = freevm(s) /\ s2.dir = s.dir
       /\ \A i \in Vpn : s2.pte[i].pa = s.pte[i].pa
  <2>1. PICK a \in Nat : a = r.to - 2 * PGSIZE
    BY <1>8
  <2>2. a \div PGSIZE \in Vpn /\ s.pte[a \div PGSIZE].pa # 0 /\ s2 = clearpteu(s, a)
    BY <1>3, <1>8, <1>10, <2>1
  <2>3. Cleared(s, s2)
    BY <1>2, <2>2, ClearSpace
  <2> QED
    BY <2>3 DEF Cleared
<1>12. Upto(s2, Pages(r.to))
  BY <1>9, <1>11 DEF Upto
<1>13. top \in freevm(s)
  <2>1. top = s.pte[m + 1].pa
    BY <1>5, <1>8, <1>11
  <2> QED
    BY <1>8, <1>10, <2>1, InFreevm
<1>14. data \in [Page -> {"junk", "zero", "image"}]
  BY DEF IInv, TypeOK
<1>15. /\ free' = Plus(free, S) /\ data' \in [Page -> {"junk", "zero", "image"}]
       /\ \A v \in Page : v \notin S /\ v # top => data'[v] = data[v]
       /\ \A v \in Page : v \notin S => data'[v] = data[v] \/ data'[v] = "image"
  BY <1>6, <1>14 DEF Plus
<1>16. r2 \in Process
  BY <1>11, ProcessType, ReturnedOK DEF Process
<1>17. /\ r2.at = "user" /\ r2.pgdir = s2 /\ r2.new = NoSpace /\ r2.kstack = r.kstack
       /\ r2.sz = r.to /\ r2.nsz = 0 /\ r2.mem = 0
  BY DEF Process, Returned
<1>18. proc' = [proc EXCEPT ![p] = r2] /\ pipes' = pipes /\ panicked' = FALSE /\ r.at # "EMBRYO"
  BY <1>6 DEF IInv, TypeOK
<1> HIDE DEF r2
<1>19. Layout(r2)
  BY <1>12, <1>17 DEF Layout
<1>20. \A v \in freevm(s) : v \in Page /\ v \notin S /\ v # r.kstack /\ v # 0
  BY <1>1, <1>2, <1>4, FreevmPages, ZeroIsNoPage DEF Apart
<1>m. r.mem = 0
  BY <1>1, <1>6, EmptyHand
<1>21. Apart(r2)
  BY <1>1, <1>2, <1>11, <1>17, <1>20, NoSpaceOK DEF Apart
<1>22. Owned(r2) = Owned(r) \ S
  <2>1. r.kstack \notin S
    BY <1>1, <1>4 DEF Apart
  <2>2. freevm(r2.pgdir) = freevm(r.new) /\ freevm(r2.new) = {} /\ r2.kstack = r.kstack
    BY <1>2, <1>11, <1>17, NoSpaceOK
  <2>3. \A v \in freevm(r.new) : v \notin S
    BY <1>2, <1>20
  <2> QED
    BY <1>4, <1>17, <1>m, <2>1, <2>2, <2>3 DEF Owned
<1>23. /\ \A v \in S : v \in Page => v \in Owned(r)
       /\ top \in Owned(r)
  BY <1>2, <1>4, <1>13, InOwned
<1>24. \A v \in Page : v \notin Owned(r) => data'[v] = data[v]
  BY <1>15, <1>23
<1>25. Filled(r2, data')
  <2>1. \A i \in Vpn : s.pte[i].pa # 0 => s.pte[i].pa \in freevm(s)
    BY InFreevm
  <2>2. Clean(s2, data')
    BY <1>2, <1>11, <1>15, <1>20, <2>1 DEF Clean
  <2>3. Clean(r2.new, data')
    BY <1>17, NoSpaceOK DEF Clean
  <2> QED
    BY <1>17, <2>2, <2>3 DEF Filled
<1>26. Replaced(p)
  <2>1. proc'[p] = r2
    BY <1>18 DEF IInv, TypeOK
  <2> QED
    BY <1>1, <1>2, <1>6, <1>11, <1>17, <2>1 DEF Replaced, Execed
<1>27. ~Forking(r2) /\ free' = Plus(free, S) /\ data' \in [Page -> {"junk", "zero", "image"}]
  BY <1>15, <1>17 DEF Forking
<1> QED
  BY <1>1, <1>16, <1>18, <1>19, <1>21, <1>22, <1>23, <1>24, <1>25, <1>26, <1>27, StepFree


-----------------------------------------------------------------------------
\* A step of fork(), which changes the records of the parent p and its child c.
LEMMA StepTwo ==
  ASSUME IInv, NEW p \in Proc, NEW c \in Proc, p # c, NEW rp \in Process, NEW rc \in Process,
         proc' = [proc EXCEPT ![p] = rp, ![c] = rc],
         Layout(rp), Apart(rp), Filled(rp, data'),
         Layout(rc), Apart(rc), Filled(rc, data'),
         data' \in [Page -> {"junk", "zero", "image"}],
         \A q \in Proc : q # p /\ q # c => \A v \in Owned(proc[q]) : data'[v] = data[v],
         free' \in [Page -> {0, 1}], pipes' = pipes,
         Parted(Holding', pipes, free'), Kids', panicked' = FALSE,
         Image(p)' = Image(p), Image(c)' = Image(c) \/ Born(p, c),
         Born(p, c) => Image(c)' = Image(p),
         proc[p].at # "EMBRYO", \/ proc[c].at # "EMBRYO"
                                \/ Forking(proc[p]) /\ proc[p].kid = c
  PROVE  IInv' /\ KeepImages
<1>1. proc \in [Proc -> Process]
  BY DEF IInv, TypeOK
<1>2. proc'[p] = rp /\ proc'[c] = rc /\ \A q \in Proc : q # p /\ q # c => proc'[q] = proc[q]
  BY <1>1
<1>3. TypeOK'
  <2>1. proc' \in [Proc -> Process]
    BY <1>1
  <2> QED
    BY <2>1 DEF TypeOK, IInv
<1>4. ASSUME NEW q \in Proc
      PROVE  Layout(proc'[q]) /\ Apart(proc'[q]) /\ Filled(proc'[q], data')
  <2>1. CASE q = p
    BY <1>2, <2>1
  <2>2. CASE q = c
    BY <1>2, <2>2
  <2>3. CASE q # p /\ q # c
    <3>0. PICK r \in Process : r = proc[q]
      BY <1>1
    <3>1. Layout(r) /\ Apart(r) /\ Filled(r, data) /\ SameOn(Owned(r), data, data')
      BY <2>3, <3>0 DEF IInv, SameOn
    <3>2. Filled(r, data')
      BY <3>1, FilledFrame
    <3> QED
      BY <1>2, <2>3, <3>0, <3>1, <3>2
  <2> QED
    BY <2>1, <2>2, <2>3
<1>5. \A q \in Proc : (Layout(proc[q]) /\ Apart(proc[q]) /\ Filled(proc[q], data))'
  BY <1>4
<1>6. IInv'
  BY <1>3, <1>5 DEF IInv
<1>7. ASSUME NEW q \in Proc, q # p, q # c
      PROVE  Image(q)' = Image(q)
  <2>1. PICK r \in Process : r = proc[q] /\ r = proc'[q]
    BY <1>1, <1>2, <1>7
  <2>2. SameOn(freevm(r.pgdir), data, data')
    BY <1>7, <2>1, InOwned DEF SameOn
  <2>3. SameBelow(r, r, data, data')
    BY <2>2, SamePgdir
  <2> QED
    BY <2>1, <2>3, SameImage
<1>8. ASSUME NEW q \in Proc, NEW d \in Proc, Born(q, d)
      PROVE  Image(d)' = Image(q)
  <2>1. /\ proc[d].at = "EMBRYO" /\ proc'[d].at = "user"
        /\ \A z \in Proc : Forking(proc[z]) /\ proc[z].kid = d => z = q
    BY <1>8 DEF IInv, Kids, Forking, Born
  <2>2. d = c
    BY <1>2, <2>1
  <2>3. q = p
    BY <2>1, <2>2
  <2> QED
    BY <1>2, <1>8, <2>2, <2>3
<1> QED
  BY <1>6, <1>7, <1>8 DEF KeepImages

\* The child of the process that forks.
LEMMA KidOf ==
  ASSUME IInv, NEW p \in Proc, Forking(proc[p])
  PROVE  \E c \in Proc :
            /\ c = proc[p].kid /\ p # c /\ proc[c].at = "EMBRYO"
            /\ proc[c].pgdir = NoSpace /\ proc[c].new = NoSpace /\ proc[c].nsz = 0
            /\ proc[c].sz = 0 /\ proc[c].mem = 0
            /\ \A q \in Proc : Forking(proc[q]) /\ proc[q].kid = c => q = p
<1>1. PICK c \in Proc :
            /\ c = proc[p].kid /\ proc[c].at = "EMBRYO"
            /\ \A q \in Proc : Forking(proc[q]) /\ proc[q].kid = c => q = p
  BY DEF IInv, Kids
<1>2. p # c
  BY <1>1 DEF Forking
<1>3. PICK k : k = proc[c].kstack
  OBVIOUS
<1>4. proc[c] = [Idle EXCEPT !.at = "EMBRYO", !.kstack = k]
  BY <1>1, <1>3 DEF IInv, Layout
<1>5. /\ proc[c].pgdir = NoSpace /\ proc[c].new = NoSpace /\ proc[c].nsz = 0
      /\ proc[c].sz = 0 /\ proc[c].mem = 0
  BY <1>4 DEF Idle
<1> QED
  BY <1>1, <1>2, <1>5

\* A fork() that ends, either way, leaves the others their children.
LEMMA KidsTwo ==
  ASSUME IInv, NEW p \in Proc, NEW c \in Proc, p # c, Forking(proc[p]), proc[p].kid = c,
         NEW rp, NEW rc, proc' = [proc EXCEPT ![p] = rp, ![c] = rc],
         ~Forking(rp), ~Forking(rc)
  PROVE  Kids'
<1>1. proc \in [Proc -> Process] /\ Kids
  BY DEF IInv, TypeOK
<1>2. proc'[p] = rp /\ proc'[c] = rc /\ \A q \in Proc : q # p /\ q # c => proc'[q] = proc[q]
  BY <1>1
<1>3. ASSUME NEW q \in Proc, Forking(proc'[q])
      PROVE  /\ proc'[q].kid \in Proc
             /\ proc'[proc'[q].kid].at = "EMBRYO"
             /\ \A z \in Proc : Forking(proc'[z]) /\ proc'[z].kid = proc'[q].kid => z = q
  <2>1. q # p /\ q # c /\ proc'[q] = proc[q]
    BY <1>2, <1>3
  <2>2. PICK k \in Proc : k = proc[q].kid /\ proc[k].at = "EMBRYO"
    BY <1>1, <1>3, <2>1 DEF Kids
  <2>3. \A z \in Proc : Forking(proc[z]) /\ proc[z].kid = k => z = q
    BY <1>1, <1>3, <2>1, <2>2 DEF Kids
  <2>4. k # c /\ k # p
    BY <2>1, <2>2, <2>3 DEF Forking
  <2>5. proc'[k] = proc[k]
    BY <1>2, <2>4
  <2> QED
    BY <1>2, <2>1, <2>2, <2>3, <2>5
<1> QED
  BY <1>3 DEF Kids, Forking

\* The pages of every process after a step of p and c.
HoldingNow(p, rp, c, rc) ==
    Holding' = [Holding EXCEPT ![p] = Owned(rp), ![c] = Owned(rc)]

\* Only the pages of the two change.
LEMMA HoldingTwo ==
  ASSUME proc \in [Proc -> Process], NEW p \in Proc, NEW c \in Proc, p # c, NEW rp, NEW rc,
         proc' = [proc EXCEPT ![p] = rp, ![c] = rc]
  PROVE  HoldingNow(p, rp, c, rc)
<1>1. proc'[p] = rp /\ proc'[c] = rc /\ \A q \in Proc : q # p /\ q # c => proc'[q] = proc[q]
  OBVIOUS
<1>2. Holding' = [q \in Proc |-> Owned(proc'[q])]
  BY DEF Holding
<1>3. Holding = [q \in Proc |-> Owned(proc[q])]
  BY DEF Holding
<1>4. Holding' = [Holding EXCEPT ![p] = Owned(rp), ![c] = Owned(rc)]
  BY <1>1, <1>2, <1>3
<1> QED
  BY <1>4 DEF HoldingNow

\* fork(): the slot and the kernel stack of the child.
LEMMA StepFork ==
  ASSUME IInv, NEW p \in Proc, NEW c \in Proc, Fork(p, c)
  PROVE  IInv' /\ KeepImages
<1>1. PICK r \in Process : r = proc[p] /\ Layout(r) /\ Apart(r) /\ Filled(r, data)
  BY DEF IInv, TypeOK
<1>2. PICK k : k = kalloc(FreePages)
  OBVIOUS
<1> DEFINE rp == [r EXCEPT !.at = "fork", !.kid = c, !.a = 0, !.to = r.sz]
<1> DEFINE rc == [Idle EXCEPT !.at = "EMBRYO", !.kstack = k]
<1>3. r.at = "user" /\ r.pgdir.pte[0].u /\ proc[c].at = "UNUSED" /\ FreePages # {}
  BY <1>1 DEF Fork, Runs
<1>4. proc[c] = Idle
  BY <1>3 DEF IInv, Layout
<1>5. /\ free' = [free EXCEPT ![k] = free[k] - 1]
      /\ proc' = [proc EXCEPT ![p] = rp, ![c] = rc]
      /\ UNCHANGED <<data, pipes, panicked>>
  <2>1. /\ free' = [free EXCEPT ![kalloc(FreePages)] = free[kalloc(FreePages)] - 1]
        /\ proc' = [proc EXCEPT
              ![p] = [proc[p] EXCEPT !.at = "fork", !.kid = c, !.a = 0, !.to = proc[p].sz],
              ![c] = [proc[c] EXCEPT !.at = "EMBRYO", !.kstack = kalloc(FreePages)]]
        /\ UNCHANGED <<data, pipes, panicked>>
    BY <1>1, <1>3 DEF Fork
  <2> QED
    BY <1>1, <1>2, <1>4, <2>1
<1>6. p # c
  BY <1>1, <1>3
<1>7. k \in Page /\ k \in FreePages /\ k # 0
  BY <1>2, <1>3, TakeOne, ZeroIsNoPage DEF FreePages
<1>8. rp \in Process
  <2>1. 0 \in 0 .. KERNBASE
    BY Constants, SMT
  <2> QED
    BY <2>1, ProcessType DEF Process, State
<1>9. /\ rp.at = "fork" /\ rp.pgdir = r.pgdir /\ rp.new = r.new /\ rp.kstack = r.kstack
      /\ rp.sz = r.sz /\ rp.kid = c /\ rp.a = 0 /\ rp.to = r.sz
      /\ rp.mem = r.mem
  BY DEF Process
<1>10. rc \in Process
  BY <1>7, IdleOK DEF Process, State
<1>11. /\ rc.at = "EMBRYO" /\ rc.kstack = k /\ rc.pgdir = NoSpace /\ rc.new = NoSpace
       /\ rc.sz = 0 /\ rc.mem = 0
  BY DEF Idle
<1>12. Layout(rc)
  <2>1. rc = [Idle EXCEPT !.at = "EMBRYO", !.kstack = rc.kstack]
    BY <1>11
  <2>2. ~rc.pgdir.pte[0].u
    BY <1>11, IdleOK, NoFirstPage
  <2> QED
    BY <1>11, <2>1, <2>2 DEF Layout
<1> HIDE DEF rp, rc
<1>m. rp.mem = 0 /\ r.new = NoSpace
  <2>1. r.mem = 0
    BY <1>1, <1>3, EmptyHand
  <2> QED
    BY <1>1, <1>3, <1>9, <2>1 DEF Layout
<1>13. Layout(rp)
  <2>1. rp.new = setupkvm(rp.new.dir, rp.new.ktab) /\ rp.new.ktab = {}
    BY <1>9, <1>m, NoSpaceOK
  <2>2. rp.pgdir.pte[0].u /\ Upto(rp.pgdir, Pages(rp.sz))
    BY <1>1, <1>3, <1>9 DEF Layout
  <2> QED
    BY <1>9, <1>m, <2>1, <2>2 DEF Layout
<1>14. Apart(rp) /\ Filled(rp, data') /\ Owned(rp) = Owned(r)
  BY <1>1, <1>5, <1>9, <1>m DEF Apart, Filled, Owned
<1>15. Apart(rc) /\ Filled(rc, data') /\ Owned(rc) = {k}
  BY <1>7, <1>11, NoSpaceOK DEF Apart, Filled, Clean, Owned
<1>16. /\ proc \in [Proc -> Process] /\ free \in [Page -> {0, 1}]
       /\ data \in [Page -> {"junk", "zero", "image"}] /\ panicked = FALSE
  BY DEF IInv, TypeOK
<1>17. Parted(Holding', pipes, free') /\ free' \in [Page -> {0, 1}]
  <2>0. PICK H \in [Proc -> SUBSET Page], fr \in [Page -> {0, 1}] : H = Holding /\ fr = free
    BY <1>16, HoldingType
  <2>1. PICK P : H = Holding /\ fr = free /\ P = pipes
    BY <2>0
  <2>2. Parted(H, P, fr) /\ \A v \in {k} : v \in Page /\ fr[v] > 0
    BY <1>7, <2>1 DEF IInv, FreePages
  <2>3. /\ Parted([H EXCEPT ![c] = H[c] \cup {k}], P, Minus(fr, {k}))
        /\ Minus(fr, {k}) \in [Page -> {0, 1}]
    BY <2>2, PartTake
  <2>4. free' = Minus(fr, {k})
    BY <1>5, <1>7, <1>16, <2>1 DEF Minus
  <2>5. H[p] = Owned(rp) /\ H[c] \cup {k} = Owned(rc)
    <3>1. H[p] = Owned(proc[p]) /\ H[c] = Owned(proc[c])
      BY <1>16, <2>1, HoldingType
    <3>2. Owned(proc[c]) = {}
      BY <1>4, IdleOK
    <3> QED
      BY <1>1, <1>14, <1>15, <3>1, <3>2
  <2>6. Holding' = [H EXCEPT ![p] = Owned(rp), ![c] = Owned(rc)]
    <3>1. proc \in [Proc -> Process] /\ proc' = [proc EXCEPT ![p] = rp, ![c] = rc]
      BY <1>5, <1>16
    <3>2. HoldingNow(p, rp, c, rc)
      BY <1>6, <3>1, HoldingTwo
    <3> QED
      BY <2>1, <3>2 DEF HoldingNow
  <2>7. Holding' = [H EXCEPT ![c] = H[c] \cup {k}]
    BY <2>5, <2>6
  <2> QED
    BY <2>1, <2>3, <2>4, <2>7
<1>18. proc'[p] = rp /\ proc'[c] = rc /\ \A q \in Proc : q # p /\ q # c => proc'[q] = proc[q]
  BY <1>5, <1>6, <1>16
<1>19. Kids'
  <2>1. ASSUME NEW q \in Proc, Forking(proc'[q])
        PROVE  /\ proc'[q].kid \in Proc
               /\ proc'[proc'[q].kid].at = "EMBRYO"
               /\ \A z \in Proc : Forking(proc'[z]) /\ proc'[z].kid = proc'[q].kid => z = q
    <3>1. \A z \in Proc : Forking(proc[z]) => proc[z].kid \in Proc /\ proc[proc[z].kid].at = "EMBRYO"
      BY DEF IInv, Kids
    <3>2. \A z \in Proc : Forking(proc[z]) => proc[z].kid # c /\ proc[z].kid # p
      BY <1>1, <1>3, <3>1
    <3>3. \A z \in Proc : Forking(proc'[z]) =>
             z = p \/ (proc'[z] = proc[z] /\ Forking(proc[z]) /\ z # p)
      BY <1>11, <1>18 DEF Forking
    <3>4. CASE q = p
      BY <1>9, <1>11, <1>18, <3>2, <3>3, <3>4
    <3>5. CASE q # p
      <4>1. proc'[q] = proc[q] /\ Forking(proc[q])
        BY <2>1, <3>3, <3>5
      <4>2. \A z \in Proc : Forking(proc[z]) /\ proc[z].kid = proc[q].kid => z = q
        BY <4>1 DEF IInv, Kids
      <4>3. \A z \in Proc : Forking(proc'[z]) /\ proc'[z].kid = proc[q].kid => z = q
        BY <1>9, <1>18, <3>2, <3>3, <4>1, <4>2
      <4> QED
        BY <1>18, <3>1, <3>2, <4>1, <4>3
    <3> QED
      BY <3>4, <3>5
  <2> QED
    BY <2>1 DEF Kids, Forking
<1>20. Image(p)' = Image(p) /\ Image(c)' = Image(c)
  <2>1. SameBelow(r, rp, data, data')
    <3>1. SameOn(freevm(r.pgdir), data, data')
      BY <1>5 DEF SameOn
    <3> QED
      BY <1>9, <3>1, SamePgdir
  <2>2. SameBelow(Idle, rc, data, data')
    <3>1. SameOn(freevm(Idle.pgdir), data, data')
      BY <1>5 DEF SameOn
    <3>2. Idle \in Process /\ rc.pgdir = Idle.pgdir /\ rc.sz = Idle.sz
      BY <1>11, IdleOK
    <3> QED
      BY <3>1, <3>2, SamePgdir
  <2> QED
    BY <1>1, <1>4, <1>18, <2>1, <2>2, SameImage
<1>21. pipes' = pipes /\ panicked' = FALSE /\ data' = data /\ data' \in [Page -> {"junk", "zero", "image"}]
  BY <1>5, <1>16
<1>22. ~Born(p, c) /\ proc[p].at # "EMBRYO" /\ proc[c].at # "EMBRYO"
  BY <1>1, <1>3 DEF Born
<1> QED
  BY <1>5, <1>6, <1>8, <1>10, <1>12, <1>13, <1>14, <1>15, <1>17, <1>19, <1>20, <1>21, <1>22, StepTwo


\* fork() succeeds: what was built for the child becomes the child's.
LEMMA StepForkDone ==
  ASSUME IInv, NEW p \in Proc, ForkDone(p)
  PROVE  IInv' /\ KeepImages
<1>1. PICK r \in Process : r = proc[p] /\ Layout(r) /\ Apart(r) /\ Filled(r, data)
  BY DEF IInv, TypeOK
<1>2. r.at = "copy" /\ r.a >= r.to /\ Forking(proc[p])
  BY <1>1 DEF ForkDone, Forking
<1>3. PICK c \in Proc :
            /\ c = r.kid /\ p # c /\ proc[c].at = "EMBRYO"
            /\ proc[c].pgdir = NoSpace /\ proc[c].new = NoSpace /\ proc[c].nsz = 0
            /\ proc[c].sz = 0 /\ proc[c].mem = 0
  BY <1>1, <1>2, KidOf
<1>4. PICK b \in Process : b = proc[c] /\ Apart(b)
  BY DEF IInv, TypeOK
<1>5. PICK s \in Space : s = r.new /\ SpaceOK(s) /\ Clean(s, data)
  BY <1>1, ProcessType DEF Apart, Filled
<1>6. PICK rp \in Process : rp = Returned(r)
  BY ReturnedOK
<1> DEFINE rc == [b EXCEPT !.at = "user", !.sz = r.sz, !.pgdir = s]
<1>7. /\ proc' = [proc EXCEPT ![p] = rp, ![c] = rc]
      /\ UNCHANGED <<free, data, pipes, panicked>>
  BY <1>1, <1>3, <1>4, <1>5, <1>6 DEF ForkDone
<1>8. /\ rp.at = "user" /\ rp.pgdir = r.pgdir /\ rp.new = NoSpace /\ rp.kstack = r.kstack
      /\ rp.sz = r.sz /\ rp.nsz = 0 /\ rp.mem = 0
  BY <1>6 DEF Process, Returned
<1>9. rc \in Process
  BY ProcessType DEF Process, State
<1>10. /\ rc.at = "user" /\ rc.pgdir = s /\ rc.new = NoSpace /\ rc.kstack = b.kstack
       /\ rc.sz = r.sz /\ rc.nsz = 0 /\ rc.mem = 0
  BY <1>3, <1>4 DEF Process
<1> HIDE DEF rc
<1>11. /\ Loop(r, s, 0) /\ Upto(r.pgdir, Pages(r.sz)) /\ r.to = r.sz
  BY <1>1, <1>2, <1>5 DEF Layout
<1>12. Upto(s, Pages(r.sz))
  <2>1. 0 \in Nat
    BY SMT
  <2>2. Upto(s, Pages(r.to))
    BY <1>2, <1>11, <2>1, LoopOver
  <2> QED
    BY <1>11, <2>2
<1>m. r.mem = 0
  BY <1>1, <1>2, EmptyHand
<1>0. 0 \notin freevm(r.pgdir) /\ 0 \notin freevm(s)
  BY ProcessType, FreevmPages, ZeroIsNoPage
<1>13. Layout(rp) /\ Layout(rc)
  BY <1>8, <1>10, <1>11, <1>12 DEF Layout
<1>14. /\ proc \in [Proc -> Process] /\ free \in [Page -> {0, 1}]
       /\ data \in [Page -> {"junk", "zero", "image"}] /\ panicked = FALSE
  BY DEF IInv, TypeOK
<1>14a. PICK H \in [Proc -> SUBSET Page] :
            H = Holding /\ H[p] = Owned(r) /\ H[c] = Owned(b)
  BY <1>1, <1>4, <1>14, HoldingType
<1>15. PICK fr, P : H = Holding /\ fr = free /\ P = pipes /\ H[p] = Owned(r) /\ H[c] = Owned(b)
  BY <1>14a
<1>16. Parted(H, P, fr)
  BY <1>15 DEF IInv
<1>17. freevm(s) \subseteq H[p] /\ b.kstack \notin freevm(s)
  <2>1. freevm(s) \subseteq Owned(r)
    BY <1>5, InOwned
  <2>2. b.kstack # 0 => b.kstack \in Owned(b)
    BY InOwned
  <2>3. 0 \notin freevm(s)
    BY FreevmPages, ZeroIsNoPage
  <2>4. \A v \in H[p] : v \notin H[c]
    BY <1>3, <1>16 DEF Parted
  <2> QED
    BY <1>15, <2>1, <2>2, <2>3, <2>4
<1>18. Apart(rp)
  BY <1>0, <1>1, <1>8, NoSpaceOK DEF Apart
<1>19. Apart(rc)
  BY <1>0, <1>5, <1>10, <1>17, NoSpaceOK DEF Apart
<1>20. Filled(rp, data') /\ Filled(rc, data')
  <2>1. Clean(NoSpace, data) /\ data' = data
    BY <1>7, NoSpaceOK DEF Clean
  <2> QED
    BY <1>1, <1>5, <1>8, <1>10, <2>1 DEF Filled
<1>21. Owned(rp) = H[p] \ freevm(s)
  <2>1. freevm(rp.pgdir) = freevm(r.pgdir) /\ freevm(rp.new) = {} /\ rp.kstack = r.kstack
    BY <1>8, NoSpaceOK
  <2>2. freevm(r.pgdir) \cap freevm(s) = {} /\ r.kstack \notin freevm(s)
    BY <1>1, <1>5 DEF Apart
  <2>3. H[p] = ({r.kstack} \cup freevm(r.pgdir) \cup freevm(s)) \ {0}
    BY <1>5, <1>15, <1>m DEF Owned
  <2>4. Owned(rp) = ({r.kstack} \cup freevm(r.pgdir)) \ {0}
    BY <1>8, <2>1 DEF Owned
  <2> QED
    BY <2>2, <2>3, <2>4
<1>22. Owned(rc) = H[c] \cup freevm(s)
  <2>1. 0 \notin freevm(s)
    BY FreevmPages, ZeroIsNoPage
  <2>2. b.pgdir = NoSpace /\ b.new = NoSpace /\ b.mem = 0
    BY <1>3, <1>4
  <2> QED
    BY <1>10, <1>15, <2>1, <2>2, NoSpaceOK DEF Owned
<1>23. Parted(Holding', pipes, free') /\ free' \in [Page -> {0, 1}]
  <2>1. Parted([H EXCEPT ![p] = H[p] \ freevm(s), ![c] = H[c] \cup freevm(s)], P, fr)
    BY <1>3, <1>16, <1>17, PartMove
  <2>2. Holding' = [H EXCEPT ![p] = Owned(rp), ![c] = Owned(rc)]
    <3>1. proc \in [Proc -> Process] /\ proc' = [proc EXCEPT ![p] = rp, ![c] = rc] /\ p # c
      BY <1>3, <1>7, <1>14
    <3>2. HoldingNow(p, rp, c, rc)
      BY <3>1, HoldingTwo
    <3> QED
      BY <1>15, <3>2 DEF HoldingNow
  <2> QED
    BY <1>7, <1>14, <1>15, <1>21, <1>22, <2>1, <2>2
<1>24. Kids'
  BY <1>1, <1>2, <1>3, <1>7, <1>8, <1>10, KidsTwo DEF Forking
<1>25. proc'[p] = rp /\ proc'[c] = rc
  BY <1>3, <1>7, <1>14
<1>26. Image(p)' = Image(p)
  <2>1. SameOn(freevm(r.pgdir), data, data')
    BY <1>7 DEF SameOn
  <2>2. SameBelow(r, rp, data, data')
    BY <1>8, <2>1, SamePgdir
  <2> QED
    BY <1>1, <1>25, <2>2, SameImage
<1>27. Image(c)' = Image(p)
  <2>1. ASSUME NEW i \in Vpn
        PROVE  /\ s.pte[i].pa = 0 <=> r.pgdir.pte[i].pa = 0
               /\ s.pte[i].pa # 0 => /\ s.pte[i].u = r.pgdir.pte[i].u
                                     /\ data[s.pte[i].pa] = data[r.pgdir.pte[i].pa]
    <3>1. s.pte[i].pa = 0 <=> r.pgdir.pte[i].pa = 0
      BY <1>11, <1>12 DEF Upto
    <3> QED
      BY <1>1, <1>2, <1>5, <3>1 DEF Filled, Copied
  <2>2. PICK B : B = Below(r.sz) /\ \A i \in B : i \in Vpn
    BY DEF Below
  <2> DEFINE F(e) == IF e.pa = 0 THEN <<"none", FALSE>> ELSE <<data[e.pa], e.u>>
  <2>3. Image(c)' = [i \in B |-> F(s.pte[i])]
    <3>1. data' = data /\ proc'[c].pgdir = s /\ Below(proc'[c].sz) = B
      BY <1>7, <1>10, <1>25, <2>2
    <3>2. Image(c)' = [i \in Below(proc'[c].sz) |->
              IF proc'[c].pgdir.pte[i].pa = 0 THEN <<"none", FALSE>>
              ELSE <<data'[proc'[c].pgdir.pte[i].pa], proc'[c].pgdir.pte[i].u>>]
      BY DEF Image
    <3> QED
      BY <3>1, <3>2
  <2>4. Image(p) = [i \in B |-> F(r.pgdir.pte[i])]
    BY <1>1, <2>2 DEF Image
  <2>5. \A i \in B : F(s.pte[i]) = F(r.pgdir.pte[i])
    BY <2>1, <2>2
  <2> HIDE DEF F
  <2> QED
    BY <2>3, <2>4, <2>5
<1>28. Born(p, c)
  BY <1>1, <1>2, <1>3, <1>10, <1>25 DEF Born
<1>29. /\ pipes' = pipes /\ panicked' = FALSE /\ data' = data
       /\ data' \in [Page -> {"junk", "zero", "image"}]
       /\ proc[p].at # "EMBRYO" /\ proc[p].kid = c
  BY <1>1, <1>2, <1>3, <1>7, <1>14
<1> QED
  BY <1>2, <1>3, <1>7, <1>9, <1>13, <1>18, <1>19, <1>20, <1>23, <1>24, <1>26, <1>27, <1>28, <1>29, StepTwo


\* fork() fails: the copy and the kernel stack of the child are freed.
LEMMA StepForkFails ==
  ASSUME IInv, NEW p \in Proc, ForkFails(p)
  PROVE  IInv' /\ KeepImages
<1>1. PICK r \in Process : r = proc[p] /\ Layout(r) /\ Apart(r) /\ Filled(r, data)
  BY DEF IInv, TypeOK
<1>2. r.at \in {"fork", "copy"} /\ Forking(proc[p])
  BY <1>1 DEF ForkFails, Forking
<1>3. PICK c \in Proc :
            /\ c = r.kid /\ p # c /\ proc[c].at = "EMBRYO"
            /\ proc[c].pgdir = NoSpace /\ proc[c].new = NoSpace
            /\ proc[c].sz = 0 /\ proc[c].mem = 0
  BY <1>1, <1>2, KidOf
<1>4. PICK b \in Process : /\ b = proc[c] /\ b.pgdir = NoSpace /\ b.new = NoSpace
                           /\ b.sz = 0 /\ b.mem = 0
  BY <1>3 DEF IInv, TypeOK
<1>5. PICK S : S = freevm(r.new) \cup InHand(r) \cup {b.kstack}
  OBVIOUS
<1>6. PICK rp \in Process : rp = Returned(r)
  BY ReturnedOK
<1>7. PICK rc \in Process : rc = Idle
  BY IdleOK
<1>8. /\ kfree(S) /\ proc' = [proc EXCEPT ![p] = rp, ![c] = rc]
      /\ pipes' = pipes /\ panicked' = panicked
  BY <1>1, <1>3, <1>4, <1>5, <1>6, <1>7 DEF ForkFails
<1>9. /\ rp.at = "user" /\ rp.pgdir = r.pgdir /\ rp.new = NoSpace /\ rp.kstack = r.kstack
      /\ rp.sz = r.sz /\ rp.nsz = 0 /\ rp.mem = 0
  BY <1>6 DEF Process, Returned
<1>10. /\ free' = Plus(free, S) /\ data' \in [Page -> {"junk", "zero", "image"}]
       /\ \A v \in Page : v \notin S => data'[v] = data[v]
  BY <1>8, Freed
<1>11. proc \in [Proc -> Process] /\ free \in [Page -> {0, 1}] /\ panicked = FALSE
  BY DEF IInv, TypeOK
<1>11a. PICK H \in [Proc -> SUBSET Page], fr \in [Page -> {0, 1}] :
            H = Holding /\ fr = free /\ \A q \in Proc : H[q] = Owned(proc[q])
  BY <1>11, HoldingType
<1>12. PICK P :
            /\ H = Holding /\ fr = free /\ P = pipes
            /\ \A q \in Proc : H[q] = Owned(proc[q])
  BY <1>11a
<1>13. H[p] = Owned(r) /\ H[c] = Owned(b)
  BY <1>1, <1>4, <1>12
<1>14. Parted(H, P, fr)
  BY <1>12 DEF IInv
<1>15. \A q, z \in Proc : \A v \in H[q] : v \in H[z] => q = z
  BY <1>14 DEF Parted
<1>16. H[c] = {b.kstack} \ {0}
  BY <1>4, <1>13, NoSpaceOK DEF Owned
<1>17. \A v \in S : v \in Page => v \in freevm(r.new) \/ v \in InHand(r) \/ v \in H[c]
  BY <1>5, <1>16, ZeroIsNoPage
<1>18. \A v : v \in freevm(r.new) \/ v \in InHand(r) => v \in H[p]
  BY <1>13, InOwned DEF InHand
<1>19. \A v \in S : v \in Page => \E q \in Proc : v \in H[q]
  BY <1>17, <1>18
<1>20. ASSUME NEW q \in Proc, q # p, q # c
       PROVE  \A v \in H[q] : v \in Page /\ v \notin S
  <2>1. \A v \in H[q] : v \in Page
    BY <1>12
  <2>2. \A v \in H[q] : v \notin H[p] /\ v \notin H[c]
    BY <1>15, <1>20
  <2> QED
    BY <1>17, <1>18, <2>1, <2>2
<1>21. Owned(rp) = H[p] \ S /\ Apart(rp)
  <2>1. SpaceOK(rp.pgdir) /\ SpaceOK(rp.new) /\ Apart(r)
    BY <1>1, <1>9, NoSpaceOK DEF Apart
  <2>2. PICK F, G : F = freevm(r.new) /\ G = F \cup InHand(r) /\ S = G \cup {b.kstack}
    BY <1>5
  <2>3. freevm(rp.new) = {}
    BY <1>9, NoSpaceOK
  <2>4. rp.pgdir = r.pgdir /\ rp.kstack = r.kstack /\ rp.mem = 0
    BY <1>9
  <2>5. Apart(rp) /\ Owned(rp) = Owned(r) \ G /\ \A v \in G : v \in Owned(r)
    <3>1. /\ Apart(rp) /\ Owned(rp) = Owned(r) \ (freevm(r.new) \cup InHand(r))
          /\ \A v \in freevm(r.new) \cup InHand(r) : v \in Owned(r)
      BY <2>1, <2>3, <2>4, ApartNoNew
    <3> QED
      BY <2>2, <3>1
  <2>6. \A v \in H[p] : v # b.kstack
    <3>1. \A v \in H[p] : v \notin H[c] /\ v # 0
      BY <1>3, <1>13, <1>15 DEF Owned
    <3> QED
      BY <1>16, <3>1
  <2> QED
    BY <1>13, <2>2, <2>5, <2>6
<1>22. Owned(rc) = H[c] \ S
  BY <1>5, <1>7, <1>16, IdleOK
<1>23. Parted(Holding', pipes, free') /\ free' \in [Page -> {0, 1}]
  <2>1. /\ Parted([q \in Proc |-> H[q] \ S], P, Plus(fr, S))
        /\ Plus(fr, S) \in [Page -> {0, 1}]
    BY <1>14, <1>19, PartFree
  <2>2. proc \in [Proc -> Process] /\ proc' = [proc EXCEPT ![p] = rp, ![c] = rc] /\ p # c
    BY <1>3, <1>8, <1>11
  <2>3. HoldingNow(p, rp, c, rc)
    BY <2>2, HoldingTwo
  <2>4. Holding' = [H EXCEPT ![p] = H[p] \ S, ![c] = H[c] \ S]
    BY <1>12, <1>21, <1>22, <2>3 DEF HoldingNow
  <2>5. \A q \in Proc : q # p /\ q # c => H[q] \ S = H[q]
    BY <1>20
  <2>6. Holding' = [q \in Proc |-> H[q] \ S]
    BY <2>2, <2>4, <2>5
  <2> QED
    BY <1>10, <1>12, <2>1, <2>6
<1>25. Apart(rc) /\ Layout(rc) /\ Filled(rc, data') /\ rc.at = "UNUSED"
  BY <1>7, IdleOK
<1>26. Layout(rp)
  BY <1>1, <1>2, <1>9 DEF Layout
<1>27. \A v \in freevm(r.pgdir) : data'[v] = data[v]
  <2>1. \A v \in freevm(rp.pgdir) : v \in Owned(rp)
    BY InOwned
  <2>2. \A v \in freevm(r.pgdir) : v \in Page /\ v \notin S
    BY <1>9, <1>21, <2>1, ProcessType, FreevmPages
  <2> QED
    BY <1>10, <2>2
<1>28. Filled(rp, data')
  <2>0. PICK s \in Space : s = r.pgdir
    BY ProcessType
  <2>1. Clean(s, data) /\ SameOn(freevm(s), data, data')
    BY <1>1, <1>27, <2>0 DEF Filled, SameOn
  <2>3. Clean(s, data')
    BY <2>1, CleanFrame
  <2>4. Clean(NoSpace, data')
    BY NoSpaceOK DEF Clean
  <2> QED
    BY <1>9, <2>0, <2>3, <2>4 DEF Filled
<1>29. Kids'
  BY <1>1, <1>2, <1>3, <1>8, <1>9, <1>25, KidsTwo DEF Forking
<1>30. Image(p)' = Image(p) /\ Image(c)' = Image(c)
  <2>1. SameOn(freevm(r.pgdir), data, data') /\ SameOn(freevm(b.pgdir), data, data')
    BY <1>4, <1>27, NoSpaceOK DEF SameOn
  <2>2. SameBelow(r, rp, data, data')
    BY <1>9, <2>1, SamePgdir
  <2>3. rc.pgdir = b.pgdir /\ rc.sz = b.sz
    BY <1>4, <1>7, IdleOK
  <2>4. SameBelow(b, rc, data, data')
    BY <2>1, <2>3, SamePgdir
  <2>5. proc'[p] = rp /\ proc'[c] = rc
    BY <1>3, <1>8, <1>11
  <2> QED
    BY <1>1, <1>4, <2>2, <2>4, <2>5, SameImage
<1>31. ~Born(p, c)
  <2>1. proc'[c] = rc
    BY <1>3, <1>8, <1>11
  <2> QED
    BY <1>25, <2>1 DEF Born
<1>32. \A q \in Proc : q # p /\ q # c => \A v \in Owned(proc[q]) : data'[v] = data[v]
  BY <1>10, <1>12, <1>20
<1>33. /\ proc' = [proc EXCEPT ![p] = rp, ![c] = rc] /\ pipes' = pipes /\ panicked' = FALSE
       /\ data' \in [Page -> {"junk", "zero", "image"}] /\ p # c
       /\ proc[p].at # "EMBRYO" /\ proc[p].kid = c /\ rc.at # "user"
  BY <1>1, <1>2, <1>3, <1>8, <1>10, <1>11, <1>25
<1> QED
  BY <1>2, <1>21, <1>23, <1>25, <1>26, <1>28, <1>29, <1>30, <1>31, <1>32, <1>33, StepTwo

-----------------------------------------------------------------------------
\* pipealloc() and pipeclose() leave the processes alone.
LEMMA StepPipes ==
  ASSUME IInv, proc' = proc, panicked' = panicked, pipes' \subseteq Page,
         data' \in [Page -> {"junk", "zero", "image"}], free' \in [Page -> {0, 1}],
         Parted(Holding, pipes', free'),
         \A q \in Proc : \A v \in Owned(proc[q]) : data'[v] = data[v]
  PROVE  IInv' /\ KeepImages
<1>1. proc \in [Proc -> Process] /\ panicked \in BOOLEAN
  BY DEF IInv, TypeOK
<1>2. TypeOK'
  BY <1>1 DEF TypeOK
<1>3. ASSUME NEW q \in Proc
      PROVE  Layout(proc'[q]) /\ Apart(proc'[q]) /\ Filled(proc'[q], data')
  <2>0. PICK r \in Process : r = proc[q]
    BY <1>1
  <2>1. Layout(r) /\ Apart(r) /\ Filled(r, data) /\ SameOn(Owned(r), data, data')
    BY <2>0 DEF IInv, SameOn
  <2>2. Filled(r, data')
    BY <2>1, FilledFrame
  <2> QED
    BY <2>0, <2>1, <2>2
<1>4. \A q \in Proc : (Layout(proc[q]) /\ Apart(proc[q]) /\ Filled(proc[q], data))'
  BY <1>3
<1>5. Holding' = Holding
  BY DEF Holding
<1>6. Kids'
  BY DEF IInv, Kids, Forking
<1>7. IInv'
  BY <1>2, <1>4, <1>5, <1>6 DEF IInv
<1>8. ASSUME NEW q \in Proc
      PROVE  Image(q)' = Image(q)
  <2>1. PICK r \in Process : r = proc[q] /\ r = proc'[q]
    BY <1>1
  <2>2. SameOn(freevm(r.pgdir), data, data')
    BY <2>1, InOwned DEF SameOn
  <2>3. SameBelow(r, r, data, data')
    BY <2>2, SamePgdir
  <2> QED
    BY <2>1, <2>3, SameImage
<1>9. ASSUME NEW q \in Proc, NEW c \in Proc, Born(q, c)
      PROVE  FALSE
  BY <1>9 DEF IInv, Kids, Forking, Born
<1> QED
  BY <1>7, <1>8, <1>9 DEF KeepImages


\* pipealloc() takes a page.
LEMMA StepPipealloc ==
  ASSUME IInv, Pipealloc
  PROVE  IInv' /\ KeepImages
<1>1. PICK v : v = kalloc(FreePages)
  OBVIOUS
<1>2. v \in Page /\ v \in FreePages
  BY <1>1, TakeOne DEF Pipealloc, FreePages
<1>3. /\ free' = [free EXCEPT ![v] = free[v] - 1] /\ pipes' = pipes \cup {v}
      /\ data' = data /\ proc' = proc /\ panicked' = panicked
  BY <1>1 DEF Pipealloc
<1>4. /\ proc \in [Proc -> Process] /\ free \in [Page -> {0, 1}] /\ pipes \subseteq Page
      /\ data \in [Page -> {"junk", "zero", "image"}]
  BY DEF IInv, TypeOK
<1>5. free[v] = 1
  BY <1>2, <1>4, SMT DEF FreePages
<1>6. free'[v] = 0 /\ free' \in [Page -> {0, 1}] /\ \A w \in Page : w # v => free'[w] = free[w]
  BY <1>2, <1>3, <1>4, <1>5, SMT
<1>7. \A q \in Proc : Holding[q] = Owned(proc[q])
  BY <1>4, HoldingType
<1>8. \A q \in Proc : v \notin Holding[q]
  BY <1>2, <1>7, HeldNotFree
<1>9. Parted(Holding, pipes', free')
  <2>1. /\ \A q, z \in Proc : \A w \in Holding[q] : w \in Holding[z] => q = z
        /\ \A q \in Proc : \A w \in Holding[q] : w \notin pipes
        /\ \A w \in Page : free[w] = 0 <=> w \in pipes \/ \E q \in Proc : w \in Holding[q]
    BY DEF IInv, Parted
  <2>2. \A q \in Proc : \A w \in Holding[q] : w \notin pipes'
    BY <1>3, <1>8, <2>1
  <2>3. ASSUME NEW w \in Page
        PROVE  free'[w] = 0 <=> w \in pipes' \/ \E q \in Proc : w \in Holding[q]
    <3>1. CASE w = v
      BY <1>3, <1>6, <3>1
    <3>2. CASE w # v
      <4>1. free'[w] = free[w] /\ (w \in pipes' <=> w \in pipes)
        BY <1>3, <1>6, <3>2
      <4> QED
        BY <2>1, <4>1
    <3> QED
      BY <3>1, <3>2
  <2> QED
    BY <2>1, <2>2, <2>3 DEF Parted
<1>10. pipes' \subseteq Page
  BY <1>2, <1>3, <1>4
<1> QED
  BY <1>3, <1>4, <1>6, <1>9, <1>10, StepPipes

\* The last pipeclose() frees it.
LEMMA StepPipeclose ==
  ASSUME IInv, NEW v \in pipes, Pipeclose(v)
  PROVE  IInv' /\ KeepImages
<1>1. /\ proc \in [Proc -> Process] /\ free \in [Page -> {0, 1}] /\ pipes \subseteq Page
  BY DEF IInv, TypeOK
<1>2. kfree({v}) /\ pipes' = pipes \ {v} /\ proc' = proc /\ panicked' = panicked
  BY DEF Pipeclose
<1>3. /\ free' = Plus(free, {v}) /\ data' \in [Page -> {"junk", "zero", "image"}]
      /\ \A w \in Page : w \notin {v} => data'[w] = data[w]
  BY <1>2, Freed
<1>4. v \in Page /\ free[v] = 0
  BY <1>1 DEF IInv, Parted
<1>5. free'[v] = 1 /\ free' \in [Page -> {0, 1}] /\ \A w \in Page : w # v => free'[w] = free[w]
  BY <1>1, <1>3, <1>4, SMT DEF Plus
<1>6. \A q \in Proc : v \notin Holding[q]
  BY DEF IInv, Parted
<1>7. \A q \in Proc : Holding[q] = Owned(proc[q])
  BY <1>1, HoldingType
<1>8. \A q \in Proc : \A w \in Owned(proc[q]) : w \in Page /\ w # v
  BY <1>6, <1>7, HeldNotFree
<1>9. 1 # 0
  BY SMT
<1>10. Parted(Holding, pipes', free')
  <2>1. /\ \A q, z \in Proc : \A w \in Holding[q] : w \in Holding[z] => q = z
        /\ \A q \in Proc : \A w \in Holding[q] : w \notin pipes
        /\ \A w \in Page : free[w] = 0 <=> w \in pipes \/ \E q \in Proc : w \in Holding[q]
    BY DEF IInv, Parted
  <2>2. \A q \in Proc : \A w \in Holding[q] : w \notin pipes'
    BY <1>2, <2>1
  <2>3. ASSUME NEW w \in Page
        PROVE  free'[w] = 0 <=> w \in pipes' \/ \E q \in Proc : w \in Holding[q]
    <3>1. CASE w = v
      BY <1>2, <1>5, <1>6, <1>9, <3>1
    <3>2. CASE w # v
      <4>1. free'[w] = free[w] /\ (w \in pipes' <=> w \in pipes)
        BY <1>2, <1>5, <3>2
      <4> QED
        BY <2>1, <4>1
    <3> QED
      BY <3>1, <3>2
  <2> QED
    BY <2>1, <2>2, <2>3 DEF Parted
<1>11. \A q \in Proc : \A w \in Owned(proc[q]) : data'[w] = data[w]
  BY <1>3, <1>8
<1> QED
  BY <1>1, <1>2, <1>3, <1>5, <1>10, <1>11, StepPipes

\* Every step keeps the invariant, and the memory of the others.
LEMMA StepNext ==
  ASSUME IInv, Next
  PROVE  IInv' /\ KeepImages
<1>1. CASE Pipealloc
  BY <1>1, StepPipealloc
<1>2. CASE \E v \in pipes : Pipeclose(v)
  BY <1>2, StepPipeclose
<1>3. ASSUME NEW p \in Proc, NEW n \in Increment, SbrkGrow(p, n) \/ SbrkShrink(p, n)
      PROVE  IInv' /\ KeepImages
  BY <1>3, StepSbrkGrow, StepSbrkShrink
<1>4. ASSUME NEW p \in Proc, \/ SbrkDone(p) \/ SbrkFails(p) \/ Setupkvm(p)
                          \/ AllocPage(p) \/ MapPage(p)
      PROVE  IInv' /\ KeepImages
  BY <1>4, StepSbrkDone, StepSbrkFails, StepAllocPage, StepMapPage, StepSetupkvm
<1>5. ASSUME NEW p \in Proc, NEW c \in Proc, Fork(p, c)
      PROVE  IInv' /\ KeepImages
  BY <1>5, StepFork
<1>6. ASSUME NEW p \in Proc, CopyPage(p) \/ ForkDone(p) \/ ForkFails(p)
      PROVE  IInv' /\ KeepImages
  BY <1>6, StepCopyPage, StepForkDone, StepForkFails
<1>7. ASSUME NEW p \in Proc, NEW g \in Program, Exec(p, g)
      PROVE  IInv' /\ KeepImages
  BY <1>7, StepExec
<1>8. ASSUME NEW p \in Proc, SegmentStart(p) \/ SegmentLoad(p) \/ StackStart(p)
      PROVE  IInv' /\ KeepImages
  BY <1>8, StepSegmentStart, StepSegmentLoad, StepStackStart
<1>9. ASSUME NEW p \in Proc, NEW len \in ArgsSize, ExecCommit(p, len)
      PROVE  IInv' /\ KeepImages
  BY <1>9, StepExecCommit
<1>10. ASSUME NEW p \in Proc, ExecFails(p) \/ Exit(p) \/ Wait(p)
       PROVE  IInv' /\ KeepImages
  BY <1>10, StepExecFails, StepExit, StepWait
<1> QED
  BY <1>1, <1>2, <1>3, <1>4, <1>5, <1>6, <1>7, <1>8, <1>9, <1>10 DEF Next

\* A step that changes nothing.
LEMMA StepStutter ==
  ASSUME IInv, UNCHANGED vars
  PROVE  IInv'
<1>1. UNCHANGED <<free, data, proc, pipes, panicked>>
  BY DEF vars
<1>2. Holding' = Holding
  BY <1>1 DEF Holding
<1>3. Kids' /\ TypeOK'
  BY <1>1 DEF IInv, Kids, Forking, TypeOK
<1>4. \A q \in Proc : (Layout(proc[q]) /\ Apart(proc[q]) /\ Filled(proc[q], data))'
  BY <1>1 DEF IInv
<1> QED
  BY <1>1, <1>2, <1>3, <1>4 DEF IInv


-----------------------------------------------------------------------------
\* The memory of the first process: page 2 and on.
LEMMA InitSpace ==
  /\ inituvm \in Space /\ SpaceOK(inituvm)
  /\ \A v : v \in freevm(inituvm) <=> v \in 2 .. 4 + KTABLES
  /\ Upto(inituvm, 1)
  /\ \A i \in Vpn : inituvm.pte[i].pa # 0 => inituvm.pte[i].pa = 4 + KTABLES
<1> DEFINE s == inituvm
<1> DEFINE e == [pa |-> 4 + KTABLES, u |-> TRUE]
<1>1. /\ s.dir = 2 /\ s.ktab = 3 .. 2 + KTABLES
      /\ s.tab = [i \in Pdx |-> IF i = 0 THEN 3 + KTABLES ELSE 0]
      /\ s.pte = [i \in Vpn |-> IF i = 0 THEN e ELSE NoPte]
  BY SMT DEF inituvm
<1>2. /\ 2 \in Page /\ 3 .. 2 + KTABLES \in SUBSET Page /\ 3 + KTABLES \in Page
      /\ 4 + KTABLES \in Page
  BY Constants, SMT DEF Page
<1>3. /\ e.pa = 4 + KTABLES /\ e.u = TRUE /\ e \in [pa : Page \cup {0}, u : BOOLEAN]
      /\ NoPte.pa = 0 /\ NoPte \in [pa : Page \cup {0}, u : BOOLEAN]
  BY <1>2, SMT DEF NoPte
<1>4. s \in Space
  <2> HIDE DEF e
  <2>1. [i \in Vpn |-> IF i = 0 THEN e ELSE NoPte] \in [Vpn -> [pa : Page \cup {0}, u : BOOLEAN]]
    BY <1>3
  <2>2. [i \in Pdx |-> IF i = 0 THEN 3 + KTABLES ELSE 0] \in [Pdx -> Page \cup {0}]
    BY <1>2
  <2>3. s = [dir |-> 2, ktab |-> 3 .. 2 + KTABLES,
             tab |-> [i \in Pdx |-> IF i = 0 THEN 3 + KTABLES ELSE 0],
             pte |-> [i \in Vpn |-> IF i = 0 THEN e ELSE NoPte]]
    BY DEF inituvm, e
  <2> QED
    BY <1>2, <2>1, <2>2, <2>3 DEF Space
<1> HIDE DEF s, e
<1>5. 0 \in Vpn /\ 0 \in Pdx
  <2>1. 0 \in Nat /\ KERNBASE \in 0 .. KERNBASE /\ 0 * PGSIZE < KERNBASE
    BY Constants, SMT
  <2>2. /\ 0 \in Vpn /\ (0 * PGSIZE) \div (PGSIZE * NPTENTRIES) \in Pdx
    BY <2>1, VpnOf
  <2>3. PGSIZE * NPTENTRIES \in Nat \ {0}
    BY Constants, SMT
  <2>4. (0 * PGSIZE) \div (PGSIZE * NPTENTRIES) = 0
    <3>1. PICK d \in Nat \ {0} : d = PGSIZE * NPTENTRIES
      BY <2>3
    <3>2. 0 * PGSIZE = 0 /\ 0 \div d = 0
      BY Constants, SMT
    <3> QED
      BY <3>1, <3>2
  <2> QED
    BY <2>2, <2>4
<1>6. /\ s.pte[0].pa = 4 + KTABLES /\ s.tab[0] = 3 + KTABLES
      /\ \A i \in Vpn : i # 0 => s.pte[i] = NoPte /\ s.pte[i].pa = 0
      /\ \A i \in Pdx : i # 0 => s.tab[i] = 0
  <2>1. s.pte[0] = e /\ \A i \in Vpn : i # 0 => s.pte[i] = NoPte
    BY <1>1, <1>5
  <2>2. s.tab[0] = 3 + KTABLES /\ \A i \in Pdx : i # 0 => s.tab[i] = 0
    BY <1>1, <1>5
  <2> QED
    BY <1>3, <2>1, <2>2
<1>7. /\ 4 + KTABLES # 3 + KTABLES /\ 4 + KTABLES # 2 /\ 3 + KTABLES # 2
      /\ 4 + KTABLES \notin 3 .. 2 + KTABLES /\ 3 + KTABLES \notin 3 .. 2 + KTABLES
      /\ 2 \notin 3 .. 2 + KTABLES /\ 4 + KTABLES # 0 /\ 3 + KTABLES # 0
  BY Constants, SMT
<1>8. SpaceOK(s)
  BY <1>1, <1>6, <1>7, SMT DEF SpaceOK
<1>9. \A v : v \in freevm(s) <=> v \in 2 .. 4 + KTABLES
  <2>1. \A v : v \in 2 .. 4 + KTABLES <=>
            \/ v = 2 \/ v \in 3 .. 2 + KTABLES \/ v = 3 + KTABLES \/ v = 4 + KTABLES
    BY Constants, SMT
  <2>2. ASSUME NEW v
        PROVE  v \in freevm(s) <=>
                  \/ v = 2 \/ v \in 3 .. 2 + KTABLES \/ v = 3 + KTABLES \/ v = 4 + KTABLES
    <3>1. 0 \notin 3 .. 2 + KTABLES /\ 2 # 0
      BY Constants, SMT
    <3>2. (\E i \in Pdx : v = s.tab[i]) /\ v # 0 <=> v = 3 + KTABLES
      BY <1>5, <1>6, <1>7
    <3>3. (\E i \in Vpn : v = s.pte[i].pa) /\ v # 0 <=> v = 4 + KTABLES
      BY <1>5, <1>6, <1>7
    <3>4. v \in freevm(s) <=> /\ v # 0
                              /\ \/ v = s.dir \/ v \in s.ktab
                                 \/ \E i \in Pdx : v = s.tab[i]
                                 \/ \E i \in Vpn : v = s.pte[i].pa
      BY <1>4, InFreevm, ZenonT(60)
    <3> QED
      BY <1>1, <3>1, <3>2, <3>3, <3>4
  <2> QED
    BY <2>1, <2>2
<1>10. Upto(s, 1)
  <2>1. \A i \in Vpn : i < 1 <=> i = 0
    BY KernPages, SMT DEF Vpn
  <2> QED
    BY <1>6, <1>7, <2>1 DEF Upto
<1> QED
  BY <1>4, <1>6, <1>8, <1>9, <1>10 DEF s


\* userinit() leaves the invariant true.
LEMMA InitHolds ==
  ASSUME Init
  PROVE  IInv
<1> DEFINE r1 == [Idle EXCEPT !.at = "user", !.kstack = 1, !.pgdir = inituvm, !.sz = PGSIZE]
<1>1. 1 \in Proc /\ 1 \in Page /\ 4 + KTABLES \in Page /\ 1 # 0
  BY Constants, SMT DEF Proc, Page
<1>2. proc = [p \in Proc |-> IF p = 1 THEN r1 ELSE Idle]
  BY DEF Init, initproc
<1>3. r1 \in Process
  <2>1. PGSIZE \in 0 .. KERNBASE - 1
    BY Constants, SMT
  <2> QED
    BY <1>1, <2>1, IdleOK, InitSpace DEF Process, State
<1>4. /\ r1.at = "user" /\ r1.kstack = 1 /\ r1.pgdir = inituvm /\ r1.new = NoSpace
      /\ r1.sz = PGSIZE /\ r1.nsz = 0 /\ r1.mem = 0
  BY DEF Idle
<1> HIDE DEF r1
<1>5. /\ proc \in [Proc -> Process] /\ proc[1] = r1
      /\ \A p \in Proc : p # 1 => proc[p] = Idle
  BY <1>1, <1>2, <1>3, IdleOK
<1>6. /\ free = [v \in Page |-> IF v <= 4 + KTABLES THEN 0 ELSE 1]
      /\ data = [v \in Page |-> IF v = 4 + KTABLES THEN "image" ELSE "junk"]
      /\ pipes = {} /\ panicked = FALSE
  BY DEF Init
<1>7. TypeOK
  <2>1. free \in [Page -> {0, 1}] /\ data \in [Page -> {"junk", "zero", "image"}]
    BY <1>6
  <2> QED
    BY <1>5, <1>6, <2>1 DEF TypeOK
<1>8. Layout(r1)
  <2>1. Pages(PGSIZE) = 1
    <3>1. /\ PGSIZE + PGSIZE - 1 \in Nat /\ 1 \in Nat /\ PGSIZE * 1 <= PGSIZE + PGSIZE - 1
          /\ PGSIZE + PGSIZE - 1 < PGSIZE * 1 + PGSIZE
      BY Constants, SMT
    <3>2. PICK n \in Nat, k \in Nat : n = PGSIZE + PGSIZE - 1 /\ k = 1
      BY <3>1
    <3>3. n \div PGSIZE = k
      BY <3>1, <3>2, Constants, DivUnique
    <3> QED
      BY <3>2, <3>3 DEF Pages
  <2> QED
    BY <1>4, <2>1, InitSpace DEF Layout
<1>9. Apart(r1)
  <2>1. 1 \notin 2 .. 4 + KTABLES
    BY Constants, SMT
  <2>2. r1.kstack \notin freevm(r1.pgdir)
    BY <1>4, <2>1, InitSpace
  <2>3. 0 \notin freevm(r1.pgdir)
    BY <1>3, ProcessType, FreevmPages, ZeroIsNoPage
  <2> QED
    BY <1>4, <2>2, <2>3, InitSpace, NoSpaceOK DEF Apart
<1>10. Filled(r1, data)
  <2>1. data[4 + KTABLES] # "junk"
    BY <1>1, <1>6
  <2>2. Clean(inituvm, data)
    BY <2>1, InitSpace DEF Clean
  <2> QED
    BY <1>4, <2>2, NoSpaceOK DEF Filled, Clean
<1>11. \A p \in Proc : Layout(proc[p]) /\ Apart(proc[p]) /\ Filled(proc[p], data)
  BY <1>5, <1>8, <1>9, <1>10, IdleOK
<1>12. \A v \in Page : v \in Owned(r1) <=> v <= 4 + KTABLES
  <2>1. \A v \in Page : v \in Owned(r1) <=> v = 1 \/ v \in 2 .. 4 + KTABLES
    BY <1>1, <1>3, <1>4, InOwned, InitSpace, NoSpaceOK
  <2>2. \A v \in Page : v = 1 \/ v \in 2 .. 4 + KTABLES <=> v <= 4 + KTABLES
    BY Constants, SMT DEF Page
  <2> QED
    BY <2>1, <2>2
<1>13. Parted(Holding, pipes, free)
  <2>1. Holding[1] = Owned(r1) /\ \A p \in Proc : p # 1 => Holding[p] = {}
    BY <1>1, <1>5, IdleOK DEF Holding
  <2>2. \A p \in Proc : \A v \in Holding[p] : p = 1
    BY <2>1
  <2>3. ASSUME NEW v \in Page
        PROVE  free[v] = 0 <=> v \in pipes \/ \E p \in Proc : v \in Holding[p]
    <3>1. free[v] = 0 <=> v <= 4 + KTABLES
      BY <1>1, <1>6
    <3>2. (\E p \in Proc : v \in Holding[p]) <=> v \in Owned(r1)
      BY <1>1, <2>1
    <3> QED
      BY <1>6, <1>12, <3>1, <3>2
  <2> QED
    BY <1>6, <2>2, <2>3 DEF Parted
<1>14. Kids
  <2>1. \A p \in Proc : ~Forking(proc[p])
    BY <1>4, <1>5, IdleOK DEF Forking
  <2> QED
    BY <2>1 DEF Kids
<1> QED
  BY <1>6, <1>7, <1>11, <1>13, <1>14 DEF IInv

\* The invariant holds in every state, for every number of processes and pages
\* and whatever the programs and the arguments of sbrk() are.
THEOREM MemoryInvariant == Spec => []IInv
<1>1. Init => IInv
  BY InitHolds
<1>2. IInv /\ [Next]_vars => IInv'
  BY StepNext, StepStutter
<1> QED
  BY <1>1, <1>2, PTL DEF Spec

\* No panic() of vm.c is reached.
THEOREM VmNeverPanics == Spec => []NoPanic
<1>1. IInv => NoPanic
  BY DEF IInv, NoPanic
<1> QED
  BY <1>1, MemoryInvariant, PTL

\* The memory of a process below its size is the same after every step but a
\* wait(), exec() or sbrk() for it that succeeds, or sbrk(-size); what sbrk()
\* adds are zeros, and a child starts with the memory of its parent.
THEOREM ImagesKept == Spec => OthersKeepTheirImage
<1>1. IInv /\ [Next]_vars => [KeepImages]_vars
  BY StepNext
<1>2. OthersKeepTheirImage <=> [][KeepImages]_vars
  BY DEF OthersKeepTheirImage
<1> QED
  BY <1>1, <1>2, MemoryInvariant, PTL DEF Spec


-----------------------------------------------------------------------------
\* Below the size of a process that runs, every unit is in a page that is there.
LEMMA MappedBelow ==
  ASSUME NEW p \in Proc, NEW r \in Process, r = proc[p],
         Upto(r.pgdir, Pages(r.sz)), NEW lo \in Nat, NEW hi \in Nat, hi <= r.sz
  PROVE  InMemory(p, lo, hi)
<1> SUFFICES ASSUME NEW x \in lo .. hi - 1
             PROVE  x < KERNBASE /\ r.pgdir.pte[x \div PGSIZE].pa # 0
  BY DEF InMemory
<1>1. x \in Nat /\ x < r.sz /\ r.sz \in Nat /\ r.sz \in 0 .. KERNBASE /\ x < KERNBASE
  BY Sizes, ProcessType, Constants, SMT
<1>2. PICK k \in Nat : k = x \div PGSIZE /\ PGSIZE * k <= x
  BY <1>1, Div, Constants
<1>3. k * PGSIZE < r.sz
  <2>1. k * PGSIZE = PGSIZE * k /\ PGSIZE * k \in Nat
    BY <1>2, Constants, SMT
  <2> QED
    BY <1>1, <1>2, <2>1, SMT
<1>4. k \in Vpn
  BY <1>1, <1>3, VpnOf
<1>5. k < Pages(r.sz)
  BY <1>1, <1>3, PagesOf
<1> QED
  BY <1>1, <1>2, <1>4, <1>5 DEF Upto

\* The sum that the argument checks compute does not wrap around.
LEMMA NoWrap ==
  ASSUME NEW r \in Process, NEW addr \in Nat, NEW size \in Nat,
         addr < r.sz, size <= KERNBASE, (addr + size) % UINT <= r.sz
  PROVE  addr + size \in Nat /\ addr + size <= r.sz
<1>1. addr < KERNBASE /\ r.sz \in Nat
  BY Sizes, ProcessType, Constants, SMT
<1>2. UINT \in Nat /\ UINT > 0 /\ addr + size < UINT /\ addr + size \in Nat
  BY <1>1, Constants, SMT DEF UINT
<1>3. (addr + size) % UINT = addr + size
  BY <1>2, SMT
<1> QED
  BY <1>2, <1>3

\* What the argument checks of syscall.c accept is memory that is there.
THEOREM ArgumentsMapped == Spec => []ArgsAreMapped
<1>1. ASSUME IInv, NEW p \in Proc, Runs(p)
      PROVE  /\ \A i \in Vpn : proc[p].pgdir.pte[i].pa # 0 <=> i * PGSIZE < proc[p].sz
             /\ \A addr \in 0 .. UINT - 1 :
                  /\ fetchint(p, addr) => InMemory(p, addr, addr + WORD)
                  /\ fetchstr(p, addr) => InMemory(p, addr, proc[p].sz)
                  /\ \A size \in 0 .. KERNBASE - 1 :
                        argptr(p, addr, size) => InMemory(p, addr, addr + size)
  <2>1. PICK r \in Process : r = proc[p] /\ Layout(r)
    BY <1>1 DEF IInv, TypeOK
  <2>2. Upto(r.pgdir, Pages(r.sz))
    BY <1>1, <2>1 DEF Layout, Runs
  <2>3. r.sz \in Nat /\ r.sz <= r.sz
    BY Sizes, SMT
  <2>4. \A i \in Vpn : r.pgdir.pte[i].pa # 0 <=> i * PGSIZE < r.sz
    <3>1. \A i \in Vpn : i \in Nat
      BY KernPages, SMT DEF Vpn
    <3> QED
      BY <2>2, <2>3, <3>1, PagesOf DEF Upto
  <2>5. \A addr \in 0 .. UINT - 1 : addr \in Nat
    BY Constants, SMT DEF UINT
  <2>6. ASSUME NEW addr \in 0 .. UINT - 1, NEW size \in Nat, size <= KERNBASE,
               addr < r.sz, (addr + size) % UINT <= r.sz
        PROVE  InMemory(p, addr, addr + size)
    <3>1. addr + size \in Nat /\ addr + size <= r.sz
      BY <2>5, <2>6, NoWrap
    <3> QED
      BY <2>1, <2>2, <2>5, <3>1, MappedBelow
  <2>7. \A addr \in 0 .. UINT - 1 : InMemory(p, addr, r.sz)
    BY <2>1, <2>2, <2>3, <2>5, MappedBelow
  <2>8. WORD \in Nat /\ WORD <= KERNBASE
    BY Constants
  <2>9. \A size \in 0 .. KERNBASE - 1 : size \in Nat /\ size <= KERNBASE
    BY Constants, SMT
  <2> QED
    BY <2>1, <2>4, <2>6, <2>7, <2>8, <2>9 DEF fetchint, fetchstr, argptr
<1>2. IInv => ArgsAreMapped
  BY <1>1 DEF ArgsAreMapped
<1> QED
  BY <1>2, MemoryInvariant, PTL


-----------------------------------------------------------------------------
\* U has one element if and only if Q.
OneIff(U, Q) == (Q => \E w : U = {w}) /\ (~Q => U = {})

\* A page of an address space has one use in it.
LEMMA UsesInSpace ==
  ASSUME NEW s \in Space, SpaceOK(s), NEW v \in Page
  PROVE  OneIff(SpaceUses(s, v), v \in freevm(s))
<1>1. v # 0
  BY ZeroIsNoPage
<1>2. /\ \A i, j \in Vpn : s.pte[i].pa = v /\ s.pte[j].pa = v => i = j
      /\ \A i, j \in Pdx : s.tab[i] = v /\ s.tab[j] = v => i = j
      /\ \A i \in Pdx : s.tab[i] = v => v # s.dir /\ v \notin s.ktab
      /\ s.dir \notin s.ktab
      /\ \A i \in Vpn : s.pte[i].pa = v =>
            v # s.dir /\ v \notin s.ktab /\ \A j \in Pdx : s.tab[j] # v
  BY <1>1, SMT DEF SpaceOK
<1>e. v \in freevm(s) <=> /\ v # 0
                           /\ \/ v = s.dir
                              \/ v \in s.ktab
                              \/ \E i \in Pdx : v = s.tab[i]
                              \/ \E i \in Vpn : v = s.pte[i].pa
  BY InFreevm, SMT
<1> DEFINE A == {<<"dir", x>> : x \in {s.dir} \cap {v}}
<1> DEFINE B == {<<"ktab", x>> : x \in s.ktab \cap {v}}
<1> DEFINE C == {<<"tab", i>> : i \in {j \in Pdx : s.tab[j] = v}}
<1> DEFINE D == {<<"pte", i>> : i \in {j \in Vpn : s.pte[j].pa = v}}
<1>3. SpaceUses(s, v) = A \cup B \cup C \cup D
  BY DEF SpaceUses
<1>a. (v = s.dir => A = {<<"dir", v>>}) /\ (v # s.dir => A = {})
  OBVIOUS
<1>b. (v \in s.ktab => B = {<<"ktab", v>>}) /\ (v \notin s.ktab => B = {})
  OBVIOUS
<1>c. /\ \A i \in Pdx : s.tab[i] = v => C = {<<"tab", i>>}
      /\ (\A i \in Pdx : s.tab[i] # v) => C = {}
  BY <1>2
<1>d. /\ \A i \in Vpn : s.pte[i].pa = v => D = {<<"pte", i>>}
      /\ (\A i \in Vpn : s.pte[i].pa # v) => D = {}
  BY <1>2
<1> HIDE DEF A, B, C, D
<1>4. CASE v = s.dir
  <2>1. v \notin s.ktab /\ (\A i \in Pdx : s.tab[i] # v) /\ \A i \in Vpn : s.pte[i].pa # v
    BY <1>2, <1>4
  <2>2. SpaceUses(s, v) = {<<"dir", v>>}
    BY <1>3, <1>4, <1>a, <1>b, <1>c, <1>d, <2>1
  <2>3. v \in freevm(s)
    BY <1>1, <1>4, <1>e
  <2> QED
    BY <2>2, <2>3 DEF OneIff
<1>5. CASE v \in s.ktab
  <2>1. v # s.dir /\ (\A i \in Pdx : s.tab[i] # v) /\ \A i \in Vpn : s.pte[i].pa # v
    BY <1>2, <1>5
  <2>2. SpaceUses(s, v) = {<<"ktab", v>>}
    BY <1>3, <1>5, <1>a, <1>b, <1>c, <1>d, <2>1
  <2>3. v \in freevm(s)
    BY <1>1, <1>5, <1>e
  <2> QED
    BY <2>2, <2>3 DEF OneIff
<1>6. ASSUME NEW i \in Pdx, s.tab[i] = v
      PROVE  OneIff(SpaceUses(s, v), v \in freevm(s))
  <2>1. v # s.dir /\ v \notin s.ktab /\ \A j \in Vpn : s.pte[j].pa # v
    BY <1>2, <1>6
  <2>2. SpaceUses(s, v) = {<<"tab", i>>}
    BY <1>3, <1>6, <1>a, <1>b, <1>c, <1>d, <2>1
  <2>3. v \in freevm(s)
    BY <1>1, <1>6, <1>e
  <2> QED
    BY <2>2, <2>3 DEF OneIff
<1>7. ASSUME NEW i \in Vpn, s.pte[i].pa = v
      PROVE  OneIff(SpaceUses(s, v), v \in freevm(s))
  <2>1. v # s.dir /\ v \notin s.ktab /\ \A j \in Pdx : s.tab[j] # v
    BY <1>2, <1>7
  <2>2. SpaceUses(s, v) = {<<"pte", i>>}
    BY <1>3, <1>7, <1>a, <1>b, <1>c, <1>d, <2>1
  <2>3. v \in freevm(s)
    BY <1>1, <1>7, <1>e
  <2> QED
    BY <2>2, <2>3 DEF OneIff
<1>8. CASE /\ v # s.dir /\ v \notin s.ktab
           /\ \A i \in Pdx : s.tab[i] # v
           /\ \A i \in Vpn : s.pte[i].pa # v
  <2>1. SpaceUses(s, v) = {}
    BY <1>3, <1>8, <1>a, <1>b, <1>c, <1>d
  <2>2. v \notin freevm(s)
    BY <1>8, <1>e
  <2> QED
    BY <2>1, <2>2 DEF OneIff
<1> QED
  BY <1>4, <1>5, <1>6, <1>7, <1>8

\* A page of a process has one use there.
LEMMA UsesInProcess ==
  ASSUME IInv, NEW p \in Proc, NEW v \in Page
  PROVE  OneIff(ProcUses(p, v), v \in Owned(proc[p]))
<1>1. PICK r \in Process : r = proc[p] /\ Apart(r)
  BY DEF IInv, TypeOK
<1> DEFINE X == SpaceUses(r.pgdir, v)
<1> DEFINE Y == SpaceUses(r.new, v)
<1> DEFINE A == {<<p, "kstack", x>> : x \in {r.kstack} \cap {v}}
<1> DEFINE M == {<<p, "mem", x>> : x \in {r.mem} \cap {v}}
<1> DEFINE B == {<<p, "pgdir", w>> : w \in X}
<1> DEFINE C == {<<p, "new", w>> : w \in Y}
<1>2. ProcUses(p, v) = A \cup M \cup B \cup C
  BY <1>1 DEF ProcUses
<1>3. r.pgdir \in Space /\ r.new \in Space /\ SpaceOK(r.pgdir) /\ SpaceOK(r.new)
  BY <1>1, ProcessType DEF Apart
<1>4. OneIff(X, v \in freevm(r.pgdir)) /\ OneIff(Y, v \in freevm(r.new))
  BY <1>3, UsesInSpace
<1> HIDE DEF X, Y
<1>5. /\ (v = r.kstack => A = {<<p, "kstack", v>>}) /\ (v # r.kstack => A = {})
      /\ (v = r.mem => M = {<<p, "mem", v>>}) /\ (v # r.mem => M = {})
  OBVIOUS
<1>6. (\A w : X = {w} => B = {<<p, "pgdir", w>>}) /\ (X = {} => B = {})
  OBVIOUS
<1>7. (\A w : Y = {w} => C = {<<p, "new", w>>}) /\ (Y = {} => C = {})
  OBVIOUS
<1> HIDE DEF A, M, B, C
<1>8. /\ v \in freevm(r.pgdir) => v \notin freevm(r.new) /\ v # r.kstack /\ v # r.mem
      /\ v \in freevm(r.new) => v # r.kstack /\ v # r.mem
      /\ v = r.mem => v # r.kstack
  BY <1>1, ZeroIsNoPage DEF Apart
<1>9. v \in Owned(r) <=> \/ v = r.kstack \/ v = r.mem
                         \/ v \in freevm(r.pgdir) \/ v \in freevm(r.new)
  BY InOwned, ZeroIsNoPage
<1>10. ASSUME NEW w, A \cup M \cup B \cup C = {w}, v \in Owned(r)
       PROVE  OneIff(ProcUses(p, v), v \in Owned(proc[p]))
  BY <1>1, <1>2, <1>10 DEF OneIff
<1>11. CASE v = r.kstack
  <2>1. A \cup M \cup B \cup C = {<<p, "kstack", v>>}
    BY <1>4, <1>5, <1>6, <1>7, <1>8, <1>11 DEF OneIff
  <2> QED
    BY <1>9, <1>10, <1>11, <2>1
<1>12. CASE v = r.mem
  <2>1. A \cup M \cup B \cup C = {<<p, "mem", v>>}
    BY <1>4, <1>5, <1>6, <1>7, <1>8, <1>12 DEF OneIff
  <2> QED
    BY <1>9, <1>10, <1>12, <2>1
<1>13. CASE v \in freevm(r.pgdir)
  <2>1. PICK w : X = {w}
    BY <1>4, <1>13 DEF OneIff
  <2>2. A \cup M \cup B \cup C = {<<p, "pgdir", w>>}
    BY <1>4, <1>5, <1>6, <1>7, <1>8, <1>13, <2>1 DEF OneIff
  <2> QED
    BY <1>9, <1>10, <1>13, <2>2
<1>14. CASE v \in freevm(r.new)
  <2>1. PICK w : Y = {w}
    BY <1>4, <1>14 DEF OneIff
  <2>2. A \cup M \cup B \cup C = {<<p, "new", w>>}
    BY <1>4, <1>5, <1>6, <1>7, <1>8, <1>14, <2>1 DEF OneIff
  <2> QED
    BY <1>9, <1>10, <1>14, <2>2
<1>15. CASE v # r.kstack /\ v # r.mem /\ v \notin freevm(r.pgdir) /\ v \notin freevm(r.new)
  <2>1. A \cup M \cup B \cup C = {}
    BY <1>4, <1>5, <1>6, <1>7, <1>15 DEF OneIff
  <2> QED
    BY <1>1, <1>2, <1>9, <1>15, <2>1 DEF OneIff
<1> QED
  BY <1>11, <1>12, <1>13, <1>14, <1>15

\* A page that is not free has one owner, a free one none.
LEMMA OneOwner ==
  ASSUME IInv, NEW v \in Page
  PROVE  OneIff(Owners(v), free[v] = 0)
<1>1. /\ \A p, q \in Proc : v \in Owned(proc[p]) /\ v \in Owned(proc[q]) => p = q
      /\ \A p \in Proc : v \in Owned(proc[p]) => v \notin pipes
      /\ free[v] = 0 <=> v \in pipes \/ \E p \in Proc : v \in Owned(proc[p])
  <2>1. \A p \in Proc : Holding[p] = Owned(proc[p])
    BY HoldingType DEF IInv, TypeOK
  <2>2. /\ \A p, q \in Proc : \A w \in Holding[p] : w \in Holding[q] => p = q
        /\ \A p \in Proc : \A w \in Holding[p] : w \notin pipes
        /\ free[v] = 0 <=> v \in pipes \/ \E p \in Proc : v \in Holding[p]
    BY DEF IInv, Parted
  <2>3. (\E p \in Proc : v \in Holding[p]) <=> \E p \in Proc : v \in Owned(proc[p])
    BY <2>1
  <2> QED
    BY <2>1, <2>2, <2>3
<1>2. \A p \in Proc : OneIff(ProcUses(p, v), v \in Owned(proc[p]))
  BY UsesInProcess
<1> DEFINE A == {<<x>> : x \in pipes \cap {v}}
<1> DEFINE B == UNION {ProcUses(p, v) : p \in Proc}
<1>3. Owners(v) = A \cup B
  BY DEF Owners
<1>4. (v \in pipes => A = {<<v>>}) /\ (v \notin pipes => A = {})
  OBVIOUS
<1>5. (\A p \in Proc : v \notin Owned(proc[p])) => B = {}
  BY <1>2 DEF OneIff
<1>6. ASSUME NEW p \in Proc, v \in Owned(proc[p])
      PROVE  B = ProcUses(p, v)
  <2>1. \A q \in Proc : q # p => ProcUses(q, v) = {}
    BY <1>1, <1>2, <1>6 DEF OneIff
  <2> QED
    BY <2>1
<1> HIDE DEF A, B
<1>7. CASE v \in pipes
  <2>1. Owners(v) = {<<v>>}
    BY <1>1, <1>3, <1>4, <1>5, <1>7
  <2> QED
    BY <1>1, <1>7, <2>1 DEF OneIff
<1>8. ASSUME NEW p \in Proc, v \in Owned(proc[p])
      PROVE  OneIff(Owners(v), free[v] = 0)
  <2>1. PICK w : ProcUses(p, v) = {w}
    BY <1>2, <1>8 DEF OneIff
  <2>2. Owners(v) = {w}
    BY <1>1, <1>3, <1>4, <1>6, <1>8, <2>1
  <2> QED
    BY <1>1, <1>8, <2>2 DEF OneIff
<1>9. CASE v \notin pipes /\ \A p \in Proc : v \notin Owned(proc[p])
  <2>1. Owners(v) = {}
    BY <1>3, <1>4, <1>5, <1>9
  <2> QED
    BY <1>1, <1>9, <2>1 DEF OneIff
<1> QED
  BY <1>7, <1>8, <1>9

\* Nothing is leaked, freed twice or shared, whatever fails half-way for want
\* of memory, be it for a page, for a page table while a page is in hand or in
\* setupkvm(), and no user entry leads to the junk of kfree().
THEOREM PagesOwnedOnce == Spec => []PageHasOneOwner
<1>1. ASSUME IInv, NEW v \in Page
      PROVE  IF free[v] = 0 THEN \E w \in Owners(v) : Owners(v) = {w}
                            ELSE free[v] = 1 /\ Owners(v) = {}
  <2>1. free[v] = 0 \/ free[v] = 1
    BY <1>1 DEF IInv, TypeOK
  <2>2. OneIff(Owners(v), free[v] = 0)
    BY <1>1, OneOwner
  <2> QED
    BY <2>1, <2>2 DEF OneIff
<1>2. ASSUME IInv, NEW p \in Proc, NEW v \in UserPages(proc[p].pgdir) \cup UserPages(proc[p].new)
      PROVE  data[v] # "junk"
  <2>1. Clean(proc[p].pgdir, data) /\ Clean(proc[p].new, data)
    BY <1>2 DEF IInv, Filled
  <2> QED
    BY <1>2, <2>1 DEF UserPages, Clean
<1>3. IInv => PageHasOneOwner
  BY <1>1, <1>2 DEF IInv, PageHasOneOwner
<1> QED
  BY <1>3, MemoryInvariant, PTL
=============================================================================
