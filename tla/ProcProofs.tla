----------------------------- MODULE ProcProofs -----------------------------
(***************************************************************************)
(* An inductive invariant of the process table, the proof that the steps   *)
(* of the scheduler, of fork(), exit(), wait() and kill() preserve it, and *)
(* the theorems that follow, for any number of slots and CPUs, any pids    *)
(* given to kill() and any number of forks.                                *)
(***************************************************************************)
EXTENDS Proc, TLAPS

Live == {"SLEEPING", "RUNNABLE", "RUNNING"}

\* The scheduler holds ptable.lock while it scans.  A CPU on a kernel stack is
\* the only one there; it holds the lock if it is in sched(), and otherwise
\* the process is RUNNING.
Stacks ==
    \A c \in Cpu :
        /\ at[c] = "scan" => lock = c
        /\ at[c] = "proc" =>
              /\ proc[c] # 0
              /\ state[proc[c]] \notin {"UNUSED", "EMBRYO"}
              /\ frame[proc[c]] = "none" => state[proc[c]] = "RUNNING"
              /\ frame[proc[c]] # "none" => lock = c
        /\ \A d \in Cpu :
              at[c] = "proc" /\ at[d] = "proc" /\ proc[c] = proc[d] => c = d

\* Which call of sched() a process in a given state has to return from, and
\* where it goes on.
Places ==
    \A p \in Slot :
        /\ state[p] = "RUNNABLE" => frame[p] # "none"
        /\ state[p] = "SLEEPING" => frame[p] = "wait" /\ chan[p] = p
        /\ state[p] = "ZOMBIE" => kpc[p] = "exit"
        /\ frame[p] = "wait" => kpc[p] = "wait"

\* Who is in fork(), after allocproc(), owns the slot it fills.
Forks ==
    \A p \in Slot :
        /\ np[p] # 0 <=> kpc[p] \in {"embryo", "copied"}
        /\ np[p] # 0 =>
              /\ state[p] \in {"RUNNABLE", "RUNNING"}
              /\ parent[np[p]] = IF kpc[p] = "copied" THEN p ELSE 0

\* Slots without a process have no parent, nobody is its own parent, and init
\* is always there, without a parent.
Orphans ==
    /\ \A q \in Slot : state[q] = "UNUSED" => parent[q] = 0
    /\ \A q \in Slot : parent[q] # q
    /\ parent[initproc] = 0
    /\ state[initproc] \in Live

\* The inductive invariant: what is to be shown, and what it rests on.
IInv ==
    /\ TypeOK
    /\ Stacks
    /\ Places
    /\ Forks
    /\ EmbryoHasOwner
    /\ Orphans
    /\ HasLiveParent
    /\ SleeperWaits

\* The prover of the leaves that name none.
USE Zenon

-----------------------------------------------------------------------------
\* Slots are positive numbers, init has one, and NoCpu is no CPU.
LEMMA SlotFacts ==
  /\ initproc \in Slot /\ 0 \notin Slot /\ Slot \subseteq Nat
  /\ \A p \in Slot : p + 1 \in 1 .. NPROC + 1
  /\ NoCpu \notin Cpu
BY ProcAssumption, SMT DEF Slot, initproc

-----------------------------------------------------------------------------
\* What the steps have in common that neither make nor end a process: the
\* parents stay, who stopped sleeping is not put to sleep, who sleeps is not
\* killed, and nobody begins or ends the part of fork() that owns a slot.
Keeps ==
    /\ UNCHANGED <<parent, np>>
    /\ \A r \in Slot : \/ state'[r] = state[r]
                       \/ state[r] \in Live /\ state'[r] \in {"RUNNABLE", "RUNNING"}
    /\ \A r \in Slot : state'[r] = "SLEEPING" => killed'[r] = killed[r]
    /\ \A r \in Slot : \/ kpc'[r] = kpc[r]
                       \/ /\ kpc[r] \notin {"embryo", "copied"}
                          /\ kpc'[r] \notin {"embryo", "copied"}

\* Such a step preserves what concerns parents, children and fork().
LEMMA KeepsIInv ==
  ASSUME IInv, TypeOK', Stacks', Places', Keeps
  PROVE  IInv'
<1> USE DEF IInv
<1>a. UNCHANGED <<parent, np>>
  BY DEF Keeps
<1>b. \A r \in Slot : \/ state'[r] = state[r]
                      \/ state[r] \in Live /\ state'[r] \in {"RUNNABLE", "RUNNING"}
  BY DEF Keeps
<1>c. \A r \in Slot : \/ kpc'[r] = kpc[r]
                      \/ /\ kpc[r] \notin {"embryo", "copied"}
                         /\ kpc'[r] \notin {"embryo", "copied"}
  BY DEF Keeps
<1>d. \A r \in Slot, s \in {"UNUSED", "EMBRYO", "ZOMBIE"} : state'[r] = s <=> state[r] = s
  BY <1>b DEF Live
<1>e. \A r \in Slot : state[r] \in Live => state'[r] \in Live
  BY <1>b DEF Live
<1>1. Forks'
  <2>1. \A r \in Slot : state[r] \in {"RUNNABLE", "RUNNING"}
          => state'[r] \in {"RUNNABLE", "RUNNING"}
    BY <1>b
  <2> QED
    BY <1>a, <1>c, <2>1, SMT DEF Forks
<1>2. EmbryoHasOwner'
  <2>1. ASSUME NEW r \in Slot, state'[r] = "EMBRYO"
        PROVE  \E s \in Slot : np[s] = r /\ kpc'[s] \in {"embryo", "copied"}
    <3>1. PICK s \in Slot : np[s] = r /\ kpc[s] \in {"embryo", "copied"}
      BY <1>d, <2>1 DEF EmbryoHasOwner
    <3> QED
      BY <1>c, <3>1
  <2>2. ASSUME NEW r \in Slot, np[r] # 0
        PROVE  state'[np[r]] = "EMBRYO"
    <3>1. np[r] \in Slot /\ state[np[r]] = "EMBRYO"
      BY <2>2, SMT DEF TypeOK, EmbryoHasOwner
    <3> QED
      BY <1>d, <3>1
  <2>3. \A r, s \in Slot : np[r] = np[s] /\ np[r] # 0 => r = s
    BY DEF EmbryoHasOwner
  <2> QED
    BY <1>a, <2>1, <2>2, <2>3 DEF EmbryoHasOwner
<1>3. Orphans'
  BY <1>a, <1>d, <1>e, SlotFacts DEF Orphans
<1>4. HasLiveParent'
  <2> SUFFICES ASSUME NEW r \in Slot \ {initproc},
                      state'[r] \notin {"UNUSED", "EMBRYO"}
               PROVE  parent[r] # 0 /\ state'[parent[r]] \in Live
    BY <1>a DEF HasLiveParent, Live
  <2>1. parent[r] \in Slot /\ state[parent[r]] \in Live
    BY <1>d, SMT DEF HasLiveParent, Live, TypeOK
  <2>2. parent[r] # 0
    BY <2>1, SlotFacts
  <2> QED
    BY <1>e, <2>1, <2>2
<1>5. SleeperWaits'
  <2> SUFFICES ASSUME NEW r \in Slot, state'[r] = "SLEEPING"
               PROVE  Children(r)' # {} /\ Zombies(r)' = {} /\ ~killed'[r]
    BY DEF SleeperWaits
  <2>1. state[r] = "SLEEPING" /\ killed'[r] = killed[r]
    BY <1>b DEF Keeps
  <2>2. Children(r)' = Children(r)
    BY <1>a DEF Children
  <2>3. Zombies(r)' = Zombies(r)
    BY <1>d, <2>2 DEF Zombies, Children
  <2> QED
    BY <2>1, <2>2, <2>3 DEF SleeperWaits
<1> QED
  BY <1>1, <1>2, <1>3, <1>4, <1>5

\* A step of the scheduler that leaves the table alone.
LEMMA CpuStep ==
  ASSUME IInv, TypeOK', Stacks',
         UNCHANGED <<state, parent, killed, chan, kpc, frame, np>>
  PROVE  IInv'
<1>1. Places'
  BY DEF IInv, Places
<1>2. Keeps
  BY DEF Keeps
<1> QED
  BY <1>1, <1>2, KeepsIInv

\* p, which runs outside of fork() and wait(), goes elsewhere in the kernel.
LEMMA StepGoto ==
  ASSUME IInv, NEW c \in Cpu, NEW p \in Slot, NEW place \in KPC, Runs(c, p),
         kpc[p] \notin {"embryo", "copied"}, place \notin {"embryo", "copied"},
         Goto(p, place), killed' \in [Slot -> BOOLEAN],
         \A r \in Slot \ {p} : killed'[r] = killed[r],
         UNCHANGED <<cpuVars, state, pid, parent, chan, nextpid, frame, np>>,
         named' \subseteq Nat
  PROVE  IInv'
<1>1. UNCHANGED <<lock, at, proc, scan, state, pid, parent, chan, nextpid, frame, np>>
  BY DEF cpuVars
<1>2. kpc' \in [Slot -> KPC] /\ kpc'[p] = place /\ \A r \in Slot \ {p} : kpc'[r] = kpc[r]
  BY DEF IInv, TypeOK, Goto
<1>3. state[p] = "RUNNING" /\ frame[p] = "none"
  BY DEF IInv, Stacks, Runs
<1>4. TypeOK'
  BY <1>1, <1>2 DEF IInv, TypeOK
<1>5. Stacks'
  BY <1>1 DEF IInv, Stacks
<1>6. Places'
  BY <1>1, <1>2, <1>3, SMT DEF IInv, Places
<1>7. Keeps
  BY <1>1, <1>2, <1>3 DEF Keeps
<1> QED
  BY <1>4, <1>5, <1>6, <1>7, KeepsIInv

-----------------------------------------------------------------------------
\* The scheduler takes the lock.
LEMMA StepSchedulerAcquire ==
  ASSUME IInv, NEW c \in Cpu, SchedulerAcquire(c)
  PROVE  IInv'
<1>1. TypeOK'
  BY SlotFacts, ProcAssumption, SMT DEF SchedulerAcquire, IInv, TypeOK
<1>2. Stacks'
  BY SlotFacts, SMT DEF SchedulerAcquire, IInv, TypeOK, Stacks
<1> QED
  BY <1>1, <1>2, CpuStep DEF SchedulerAcquire

\* The scheduler switches to a process that nobody runs.
LEMMA StepSchedulerSwitch ==
  ASSUME IInv, NEW c \in Cpu, SchedulerSwitch(c)
  PROVE  IInv'
<1> USE SlotFacts DEF IInv
<1>a. PICK q \in Slot :
        /\ state[q] = "RUNNABLE"
        /\ proc' = [proc EXCEPT ![c] = q]
        /\ state' = [state EXCEPT ![q] = "RUNNING"]
        /\ scan' = [scan EXCEPT ![c] = q + 1]
  BY DEF SchedulerSwitch, Candidates, First
<1>b. /\ at[c] = "scan" /\ at' = [at EXCEPT ![c] = "proc"]
      /\ UNCHANGED <<lock, pid, parent, killed, chan, nextpid, kpc, frame, np,
                     named>>
  BY DEF SchedulerSwitch
<1>c. state'[q] = "RUNNING" /\ \A r \in Slot \ {q} : state'[r] = state[r]
  BY <1>a DEF TypeOK
<1>1. TypeOK'
  BY <1>a, <1>b DEF TypeOK, ProcState
<1>2. Stacks'
  BY <1>a, <1>b, SMT DEF TypeOK, Stacks, Places
<1>3. Places'
  BY <1>b, <1>c DEF Places
<1>4. Keeps
  BY <1>a, <1>b, <1>c DEF Keeps, Live
<1> QED
  BY <1>1, <1>2, <1>3, <1>4, KeepsIInv

\* The scheduler's scan ends.
LEMMA StepSchedulerRelease ==
  ASSUME IInv, NEW c \in Cpu, SchedulerRelease(c)
  PROVE  IInv'
<1>1. TypeOK'
  BY DEF SchedulerRelease, IInv, TypeOK
<1>2. Stacks'
  BY SlotFacts DEF SchedulerRelease, IInv, TypeOK, Stacks
<1> QED
  BY <1>1, <1>2, CpuStep DEF SchedulerRelease

\* A process leaves the CPU.
LEMMA StepSched ==
  ASSUME IInv, NEW c \in Cpu, NEW p \in Slot, Sched(c, p)
  PROVE  IInv'
<1>1. TypeOK'
  BY DEF Sched, IInv, TypeOK
<1>2. Stacks'
  BY DEF Sched, IInv, TypeOK, Stacks
<1> QED
  BY <1>1, <1>2, CpuStep DEF Sched

\* A process that had yielded, or is new, goes on.
LEMMA StepResumeRelease ==
  ASSUME IInv, NEW c \in Cpu, NEW p \in Slot, ResumeRelease(c, p)
  PROVE  IInv'
<1> USE DEF IInv
<1>a. /\ state[p] = "RUNNING" /\ frame[p] \in {"yield", "forkret"}
      /\ UNCHANGED <<state, parent, killed, chan, kpc, np>>
  BY DEF ResumeRelease, Resumes
<1>b. frame'[p] = "none" /\ \A r \in Slot \ {p} : frame'[r] = frame[r]
  BY DEF ResumeRelease, TypeOK
<1>1. TypeOK'
  BY DEF ResumeRelease, TypeOK, Frame
<1>2. Stacks'
  BY SlotFacts DEF ResumeRelease, Resumes, TypeOK, Stacks
<1>3. Places'
  BY <1>a, <1>b, SMT DEF Places
<1>4. Keeps
  BY <1>a DEF Keeps
<1> QED
  BY <1>1, <1>2, <1>3, <1>4, KeepsIInv

\* A timer interrupt.
LEMMA StepYield ==
  ASSUME IInv, NEW c \in Cpu, NEW p \in Slot, Yield(c, p)
  PROVE  IInv'
<1> USE DEF IInv
<1>a. UNCHANGED <<parent, killed, chan, np>> /\ state[p] = "RUNNING" /\ frame[p] = "none"
  BY DEF Yield, Runs, Stacks
<1>b. \A r \in Slot \ {p} : /\ state'[r] = state[r] /\ frame'[r] = frame[r]
                            /\ kpc'[r] = kpc[r]
  BY DEF Yield, TypeOK
<1>c. /\ state'[p] = "RUNNABLE" /\ frame'[p] = "yield"
      /\ kpc'[p] = IF kpc[p] = "user" THEN "ret" ELSE kpc[p]
  BY DEF Yield, TypeOK
<1>1. TypeOK'
  BY DEF Yield, TypeOK, ProcState, Frame, KPC
<1>2. Stacks'
  BY SlotFacts DEF Yield, Runs, TypeOK, Stacks
<1>3. Places'
  BY <1>a, <1>b, <1>c, SMT DEF Places
<1>4. Keeps
  BY <1>a, <1>b, <1>c DEF Keeps, Live
<1> QED
  BY <1>1, <1>2, <1>3, <1>4, KeepsIInv

\* Entries into the kernel and the way back to user mode.
LEMMA StepTrap ==
  ASSUME IInv, NEW c \in Cpu, NEW p \in Slot,
         \/ TrapExit(c, p) \/ TrapReturn(c, p) \/ TrapFault(c, p)
         \/ \E call \in Syscalls : Syscall(c, p, call)
  PROVE  IInv'
<1>1. /\ Runs(c, p) /\ kpc[p] \in {"user", "ret"}
      /\ UNCHANGED <<cpuVars, state, pid, parent, chan, nextpid, frame, np>>
  BY DEF TrapExit, TrapReturn, TrapFault, Syscall, RunsAt
<1>2. PICK place \in KPC \ {"embryo", "copied"} : Goto(p, place)
  BY DEF TrapExit, TrapReturn, TrapFault, Syscall, Syscalls, KPC
<1>3. killed' \in [Slot -> BOOLEAN] /\ \A r \in Slot \ {p} : killed'[r] = killed[r]
  <2>1. killed' = killed \/ killed' = [killed EXCEPT ![p] = TRUE]
    BY DEF TrapExit, TrapReturn, TrapFault, Syscall
  <2>2. killed \in [Slot -> BOOLEAN]
    BY DEF IInv, TypeOK
  <2> QED
    BY <2>1, <2>2
<1>4. named' \subseteq Nat
  <2>1. pid[p] \in Nat /\ named \subseteq Nat
    BY DEF IInv, TypeOK
  <2>2. named' = named \/ named' = named \cup {pid[p]}
    BY DEF TrapExit, TrapReturn, TrapFault, Syscall
  <2> QED
    BY <2>1, <2>2
<1> QED
  BY <1>1, <1>2, <1>3, <1>4, StepGoto

-----------------------------------------------------------------------------
\* The CPUs are where they were, and the slots with a process are unchanged.
LEMMA StacksKept ==
  ASSUME TypeOK, Stacks, UNCHANGED <<lock, at, proc>>,
         \A r \in Slot : state[r] \notin {"UNUSED", "EMBRYO"}
            => state'[r] = state[r] /\ frame'[r] = frame[r]
  PROVE  Stacks'
<1>1. ASSUME NEW c \in Cpu, at[c] = "proc"
      PROVE  /\ state'[proc[c]] = state[proc[c]]
             /\ frame'[proc[c]] = frame[proc[c]]
  <2>1. proc[c] \in Slot /\ state[proc[c]] \notin {"UNUSED", "EMBRYO"}
    BY <1>1 DEF Stacks, TypeOK
  <2> QED
    BY <2>1
<1> QED
  BY <1>1 DEF Stacks

\* fork() makes nobody sleep, ends nobody and takes no child from anyone.
LEMMA SleepersKept ==
  ASSUME SleeperWaits, UNCHANGED killed,
         \A r \in Slot : state'[r] = "SLEEPING" => state[r] = "SLEEPING",
         \A r \in Slot : state'[r] = "ZOMBIE" => state[r] = "ZOMBIE",
         \A r \in Slot : \/ parent'[r] = parent[r]
                         \/ parent[r] = 0 /\ state'[r] # "ZOMBIE"
  PROVE  SleeperWaits'
<1> SUFFICES ASSUME NEW r \in Slot, state'[r] = "SLEEPING"
             PROVE  Children(r)' # {} /\ Zombies(r)' = {} /\ ~killed'[r]
  BY DEF SleeperWaits
<1>1. Children(r) # {} /\ Zombies(r) = {} /\ ~killed[r]
  BY DEF SleeperWaits
<1>2. PICK s \in Slot : parent[s] = r
  BY <1>1 DEF Children
<1>3. parent'[s] = r
  BY <1>2, SlotFacts
<1>4. Children(r)' # {}
  BY <1>3 DEF Children
<1>5. ASSUME NEW t \in Slot, parent'[t] = r, state'[t] = "ZOMBIE"
      PROVE  FALSE
  <2>1. parent[t] = r /\ state[t] = "ZOMBIE"
    BY <1>5
  <2> QED
    BY <1>1, <2>1 DEF Zombies, Children
<1> QED
  BY <1>1, <1>4, <1>5 DEF Zombies, Children

\* fork() finds a slot, or none.
LEMMA StepAllocproc ==
  ASSUME IInv, NEW c \in Cpu, NEW p \in Slot, Allocproc(c, p)
  PROVE  IInv'
<1> USE SlotFacts DEF IInv
<1>a. /\ Runs(c, p) /\ kpc[p] = "fork"
      /\ UNCHANGED <<cpuVars, parent, killed, chan, frame, named>>
  BY DEF Allocproc, RunsAt
<1>b. CASE Unused = {}
  <2>1. Goto(p, "ret") /\ UNCHANGED <<state, pid, nextpid, np>>
    BY <1>b DEF Allocproc
  <2>2. named \subseteq Nat /\ killed \in [Slot -> BOOLEAN] /\ "ret" \in KPC
    BY DEF TypeOK, KPC
  <2> QED
    BY <1>a, <2>1, <2>2, StepGoto
<1>c. SUFFICES ASSUME Unused # {} PROVE IInv'
  BY <1>b
<1>d. PICK q \in Slot :
        /\ state[q] = "UNUSED"
        /\ state' = [state EXCEPT ![q] = "EMBRYO"]
        /\ pid' = [pid EXCEPT ![q] = nextpid]
        /\ np' = [np EXCEPT ![p] = q]
  BY <1>c DEF Allocproc, Unused, First
<1>e. nextpid' = nextpid + 1 /\ kpc' = [kpc EXCEPT ![p] = "embryo"]
  BY <1>c DEF Allocproc, Goto
<1>f. UNCHANGED <<lock, at, proc, scan, parent, killed, chan, frame, named>>
  BY <1>a DEF cpuVars
<1>g. /\ state'[q] = "EMBRYO" /\ np'[p] = q /\ kpc'[p] = "embryo"
      /\ \A r \in Slot \ {q} : state'[r] = state[r]
      /\ \A r \in Slot \ {p} : np'[r] = np[r] /\ kpc'[r] = kpc[r]
  BY <1>d, <1>e DEF TypeOK
<1>h. state[p] = "RUNNING" /\ frame[p] = "none" /\ np[p] = 0
  BY <1>a DEF Stacks, Runs, Forks
<1>i. parent[q] = 0 /\ p # q /\ q # initproc
  BY <1>d, <1>h DEF Orphans, Live
<1>j. \A r \in Slot \ {p} : np[r] # q
  BY <1>d DEF EmbryoHasOwner
<1>1. TypeOK'
  BY <1>d, <1>e, <1>f, SMT DEF TypeOK, KPC, ProcState
<1>2. Stacks'
  BY <1>d, <1>f, <1>g, StacksKept
<1>3. Places'
  BY <1>f, <1>g, <1>h, SMT DEF Places
<1>4. Forks'
  <2> SUFFICES ASSUME NEW r \in Slot
               PROVE  /\ np'[r] # 0 <=> kpc'[r] \in {"embryo", "copied"}
                      /\ np'[r] # 0 =>
                            /\ state'[r] \in {"RUNNABLE", "RUNNING"}
                            /\ parent[np'[r]] = IF kpc'[r] = "copied" THEN r ELSE 0
    BY <1>f DEF Forks
  <2>1. CASE r = p
    BY <1>g, <1>h, <1>i, <2>1
  <2>2. CASE r # p
    <3>1. np'[r] = np[r] /\ kpc'[r] = kpc[r]
      BY <1>g, <2>2
    <3>2. np[r] # 0 => r # q
      BY <1>d DEF Forks
    <3> QED
      BY <1>g, <3>1, <3>2, SMT DEF Forks
  <2> QED
    BY <2>1, <2>2
<1>5. EmbryoHasOwner'
  <2>1. ASSUME NEW r \in Slot, state'[r] = "EMBRYO"
        PROVE  \E s \in Slot : np'[s] = r /\ kpc'[s] \in {"embryo", "copied"}
    <3>1. CASE r = q
      BY <1>g, <3>1
    <3>2. CASE r # q
      <4>1. PICK s \in Slot : np[s] = r /\ kpc[s] \in {"embryo", "copied"}
        BY <1>g, <2>1, <3>2, SMT DEF EmbryoHasOwner
      <4>2. s # p
        BY <1>h, <4>1
      <4> QED
        BY <1>g, <4>1, <4>2
    <3> QED
      BY <3>1, <3>2
  <2>2. ASSUME NEW r \in Slot, np'[r] # 0
        PROVE  state'[np'[r]] = "EMBRYO"
    <3>1. CASE r = p
      BY <1>g, <3>1
    <3>2. CASE r # p
      <4>1. np'[r] = np[r]
        BY <1>g, <3>2
      <4>2. np[r] \in Slot \ {q} /\ state[np[r]] = "EMBRYO"
        BY <1>j, <2>2, <3>2, <4>1, SMT DEF TypeOK, EmbryoHasOwner
      <4> QED
        BY <1>g, <4>1, <4>2
    <3> QED
      BY <3>1, <3>2
  <2>3. \A r, s \in Slot : np'[r] = np'[s] /\ np'[r] # 0 => r = s
    BY <1>g, <1>j, SMT DEF EmbryoHasOwner
  <2> QED
    BY <2>1, <2>2, <2>3 DEF EmbryoHasOwner
<1>6. Orphans'
  BY <1>f, <1>g, <1>i DEF Orphans
<1>7. HasLiveParent'
  <2> SUFFICES ASSUME NEW r \in Slot \ {initproc},
                      state'[r] \notin {"UNUSED", "EMBRYO"}
               PROVE  parent[r] # 0 /\ state'[parent[r]] \in Live
    BY <1>f DEF HasLiveParent, Live
  <2>1. parent[r] \in Slot /\ state[parent[r]] \in Live
    BY <1>g, SMT DEF HasLiveParent, Live, TypeOK
  <2>2. parent[r] # q /\ parent[r] # 0
    BY <1>d, <2>1 DEF Live
  <2> QED
    BY <1>g, <2>1, <2>2
<1>8. SleeperWaits'
  <2>1. \A r \in Slot : state'[r] \in {"SLEEPING", "ZOMBIE"} => state'[r] = state[r]
    BY <1>g
  <2> QED
    BY <1>f, <2>1, SleepersKept
<1> QED
  BY <1>1, <1>2, <1>3, <1>4, <1>5, <1>6, <1>7, <1>8

\* What fork() knows of the slot it fills.
LEMMA ForkFacts ==
  ASSUME IInv, NEW c \in Cpu, NEW p \in Slot, NEW place \in {"embryo", "copied"},
         RunsAt(c, p, place)
  PROVE  /\ state[p] = "RUNNING" /\ frame[p] = "none" /\ kpc[p] = place
         /\ np[p] \in Slot \ {p, initproc} /\ state[np[p]] = "EMBRYO"
         /\ np[np[p]] = 0
         /\ parent[np[p]] = IF place = "copied" THEN p ELSE 0
         /\ \A s \in Slot \ {p} : np[s] # np[p]
<1> USE DEF IInv
<1>1. state[p] = "RUNNING" /\ frame[p] = "none" /\ kpc[p] = place
  BY DEF RunsAt, Runs, Stacks
<1>2. np[p] # 0
  BY <1>1 DEF Forks
<1>3. np[p] \in Slot /\ state[np[p]] = "EMBRYO"
  BY <1>2, SMT DEF TypeOK, EmbryoHasOwner
<1>4. np[p] # p /\ np[p] # initproc
  BY <1>1, <1>3 DEF Orphans, Live
<1>5. np[np[p]] = 0
  BY <1>3 DEF Forks
<1>6. parent[np[p]] = IF place = "copied" THEN p ELSE 0
  BY <1>1, <1>2 DEF Forks
<1>7. \A s \in Slot \ {p} : np[s] # np[p]
  BY <1>2 DEF EmbryoHasOwner
<1> QED
  BY <1>1, <1>3, <1>4, <1>5, <1>6, <1>7

\* After fork() has made up its mind about the slot e, the other slots that
\* are being filled have their owners.
LEMMA OthersOwned ==
  ASSUME TypeOK, EmbryoHasOwner, NEW p \in Slot, NEW e \in Slot, np[p] = e,
         np'[p] = 0, state'[e] # "EMBRYO",
         \A r \in Slot \ {e} : state'[r] = state[r],
         \A r \in Slot \ {p} : np'[r] = np[r],
         \A r \in Slot : kpc[r] \in {"embryo", "copied"} => kpc'[r] = kpc[r] \/ r \in {p, e},
         np[e] = 0
  PROVE  EmbryoHasOwner'
<1>1. \A s \in Slot \ {p} : np[s] # e
  BY SlotFacts, SMT DEF EmbryoHasOwner
<1>2. ASSUME NEW r \in Slot, state'[r] = "EMBRYO"
      PROVE  \E s \in Slot : np'[s] = r /\ kpc'[s] \in {"embryo", "copied"}
  <2>1. r # e /\ state[r] = "EMBRYO"
    BY <1>2
  <2>2. PICK s \in Slot : np[s] = r /\ kpc[s] \in {"embryo", "copied"}
    BY <2>1 DEF EmbryoHasOwner
  <2>3. s # p /\ s # e
    BY <2>1, <2>2, SlotFacts
  <2> QED
    BY <2>2, <2>3
<1>3. ASSUME NEW r \in Slot, np'[r] # 0
      PROVE  state'[np'[r]] = "EMBRYO"
  <2>1. r # p /\ np'[r] = np[r]
    BY <1>3
  <2>2. np[r] \in Slot \ {e} /\ state[np[r]] = "EMBRYO"
    BY <1>1, <1>3, <2>1, SMT DEF TypeOK, EmbryoHasOwner
  <2> QED
    BY <2>1, <2>2
<1>4. \A r, s \in Slot : np'[r] = np'[s] /\ np'[r] # 0 => r = s
  BY SMT DEF EmbryoHasOwner
<1> QED
  BY <1>2, <1>3, <1>4 DEF EmbryoHasOwner

\* fork() gives the slot back.
LEMMA StepForkFail ==
  ASSUME IInv, NEW c \in Cpu, NEW p \in Slot, ForkFail(c, p)
  PROVE  IInv'
<1> USE SlotFacts DEF IInv
<1> DEFINE e == np[p]
<1>a. /\ state[p] = "RUNNING" /\ frame[p] = "none" /\ kpc[p] = "embryo"
      /\ e \in Slot \ {p, initproc} /\ state[e] = "EMBRYO" /\ np[e] = 0
      /\ parent[e] = 0 /\ \A s \in Slot \ {p} : np[s] # e
  BY ForkFacts DEF ForkFail
<1>b. /\ UNCHANGED <<lock, at, proc, scan, pid, parent, killed, chan, nextpid, frame, named>>
      /\ state' = [state EXCEPT ![e] = "UNUSED"]
      /\ np' = [np EXCEPT ![p] = 0]
      /\ kpc' = [kpc EXCEPT ![p] = "ret"]
  BY DEF ForkFail, Goto, cpuVars
<1>n. np[p] = e
  OBVIOUS
<1> HIDE DEF e
<1>c. /\ state'[e] = "UNUSED" /\ np'[p] = 0 /\ kpc'[p] = "ret"
      /\ \A r \in Slot \ {e} : state'[r] = state[r]
      /\ \A r \in Slot \ {p} : np'[r] = np[r] /\ kpc'[r] = kpc[r]
  BY <1>a, <1>b DEF TypeOK
<1>1. TypeOK'
  BY <1>a, <1>b DEF TypeOK, KPC, ProcState
<1>2. Stacks'
  BY <1>a, <1>b, <1>c, StacksKept
<1>3. Places'
  BY <1>a, <1>b, <1>c, SMT DEF Places
<1>4. Forks'
  BY <1>a, <1>b, <1>c, SMT DEF Forks
<1>5. EmbryoHasOwner'
  BY <1>a, <1>c, <1>n, OthersOwned, SMT
<1>6. Orphans'
  BY <1>a, <1>b, <1>c DEF Orphans
<1>7. HasLiveParent'
  <2> SUFFICES ASSUME NEW r \in Slot \ {initproc},
                      state'[r] \notin {"UNUSED", "EMBRYO"}
               PROVE  parent[r] # 0 /\ state'[parent[r]] \in Live
    BY <1>b DEF HasLiveParent, Live
  <2>1. parent[r] \in Slot /\ state[parent[r]] \in Live
    BY <1>c, SMT DEF HasLiveParent, Live, TypeOK
  <2>2. parent[r] # e /\ parent[r] # 0
    BY <1>a, <2>1 DEF Live
  <2> QED
    BY <1>c, <2>1, <2>2
<1>8. SleeperWaits'
  <2>1. \A r \in Slot : state'[r] \in {"SLEEPING", "ZOMBIE"} => state'[r] = state[r]
    BY <1>c
  <2> QED
    BY <1>b, <2>1, SleepersKept
<1> QED
  BY <1>1, <1>2, <1>3, <1>4, <1>5, <1>6, <1>7, <1>8

\* fork() sets the parent of the slot it fills.
LEMMA StepForkCopy ==
  ASSUME IInv, NEW c \in Cpu, NEW p \in Slot, ForkCopy(c, p)
  PROVE  IInv'
<1> USE SlotFacts DEF IInv
<1> DEFINE e == np[p]
<1>a. /\ state[p] = "RUNNING" /\ frame[p] = "none" /\ kpc[p] = "embryo"
      /\ e \in Slot \ {p, initproc} /\ state[e] = "EMBRYO"
      /\ parent[e] = 0 /\ \A s \in Slot \ {p} : np[s] # e
  BY ForkFacts DEF ForkCopy
<1>b. /\ UNCHANGED <<lock, at, proc, scan, state, pid, killed, chan, nextpid, frame, np,
                     named>>
      /\ parent' = [parent EXCEPT ![e] = p]
      /\ kpc' = [kpc EXCEPT ![p] = "copied"]
  BY DEF ForkCopy, Goto, cpuVars
<1>n. np[p] = e
  OBVIOUS
<1> HIDE DEF e
<1>c. /\ parent'[e] = p /\ kpc'[p] = "copied"
      /\ \A r \in Slot \ {e} : parent'[r] = parent[r]
      /\ \A r \in Slot \ {p} : kpc'[r] = kpc[r]
  BY <1>a, <1>b DEF TypeOK
<1>1. TypeOK'
  BY <1>a, <1>b DEF TypeOK, KPC
<1>2. Stacks'
  BY <1>b, StacksKept
<1>3. Places'
  BY <1>a, <1>b, <1>c, SMT DEF Places
<1>4. Forks'
  <2> SUFFICES ASSUME NEW r \in Slot
               PROVE  /\ np[r] # 0 <=> kpc'[r] \in {"embryo", "copied"}
                      /\ np[r] # 0 =>
                            /\ state[r] \in {"RUNNABLE", "RUNNING"}
                            /\ parent'[np[r]] = IF kpc'[r] = "copied" THEN r ELSE 0
    BY <1>b, SMT DEF Forks
  <2>1. CASE r = p
    BY <1>a, <1>c, <1>n, <2>1
  <2>2. CASE r # p
    <3>1. kpc'[r] = kpc[r] /\ np[r] # e
      BY <1>a, <1>c, <2>2
    <3>2. np[r] # 0 => parent'[np[r]] = parent[np[r]]
      <4>1. np[r] # 0 => np[r] \in Slot
        BY DEF TypeOK
      <4> QED
        BY <1>c, <3>1, <4>1
    <3> QED
      BY <3>1, <3>2 DEF Forks
  <2> QED
    BY <2>1, <2>2
<1>5. EmbryoHasOwner'
  <2>1. \A r \in Slot : kpc[r] \in {"embryo", "copied"} => kpc'[r] \in {"embryo", "copied"}
    BY <1>c
  <2> QED
    BY <1>b, <2>1 DEF EmbryoHasOwner
<1>6. Orphans'
  BY <1>a, <1>b, <1>c DEF Orphans
<1>7. HasLiveParent'
  <2>1. \A r \in Slot : state[r] # "EMBRYO" => parent'[r] = parent[r]
    BY <1>a, <1>c
  <2> QED
    BY <1>b, <2>1 DEF HasLiveParent
<1>8. SleeperWaits'
  BY <1>a, <1>b, <1>c, SleepersKept
<1> QED
  BY <1>1, <1>2, <1>3, <1>4, <1>5, <1>6, <1>7, <1>8

\* The child becomes RUNNABLE.
LEMMA StepForkRun ==
  ASSUME IInv, NEW c \in Cpu, NEW p \in Slot, ForkRun(c, p)
  PROVE  IInv'
<1> USE SlotFacts DEF IInv
<1> DEFINE e == np[p]
<1>a. /\ state[p] = "RUNNING" /\ frame[p] = "none" /\ kpc[p] = "copied"
      /\ e \in Slot \ {p, initproc} /\ state[e] = "EMBRYO" /\ np[e] = 0
      /\ parent[e] = p /\ \A s \in Slot \ {p} : np[s] # e
  BY ForkFacts, SMT DEF ForkRun
<1>b. /\ UNCHANGED <<lock, at, proc, scan, pid, parent, killed, chan, nextpid, named>>
      /\ state' = [state EXCEPT ![e] = "RUNNABLE"]
      /\ frame' = [frame EXCEPT ![e] = "forkret"]
      /\ kpc' = [kpc EXCEPT ![p] = "ret", ![e] = "user"]
      /\ np' = [np EXCEPT ![p] = 0]
  BY DEF ForkRun, cpuVars
<1>n. np[p] = e
  OBVIOUS
<1> HIDE DEF e
<1>c. /\ state'[e] = "RUNNABLE" /\ frame'[e] = "forkret" /\ np'[p] = 0
      /\ kpc'[p] = "ret" /\ kpc'[e] = "user"
      /\ \A r \in Slot \ {e} : state'[r] = state[r] /\ frame'[r] = frame[r]
      /\ \A r \in Slot \ {p} : np'[r] = np[r]
      /\ \A r \in Slot \ {p, e} : kpc'[r] = kpc[r]
  BY <1>a, <1>b DEF TypeOK
<1>1. TypeOK'
  BY <1>a, <1>b DEF TypeOK, KPC, ProcState, Frame
<1>2. Stacks'
  BY <1>a, <1>b, <1>c, StacksKept
<1>3. Places'
  <2> SUFFICES ASSUME NEW r \in Slot
               PROVE  /\ state'[r] = "RUNNABLE" => frame'[r] # "none"
                      /\ state'[r] = "SLEEPING" => frame'[r] = "wait" /\ chan[r] = r
                      /\ state'[r] = "ZOMBIE" => kpc'[r] = "exit"
                      /\ frame'[r] = "wait" => kpc'[r] = "wait"
    BY <1>b DEF Places
  <2>1. CASE r = p \/ r = e
    BY <1>a, <1>c, <2>1, SMT
  <2>2. CASE r # p /\ r # e
    <3>1. state'[r] = state[r] /\ frame'[r] = frame[r] /\ kpc'[r] = kpc[r]
      BY <1>c, <2>2
    <3> QED
      BY <3>1 DEF Places
  <2> QED
    BY <2>1, <2>2
<1>4. Forks'
  <2> SUFFICES ASSUME NEW r \in Slot
               PROVE  /\ np'[r] # 0 <=> kpc'[r] \in {"embryo", "copied"}
                      /\ np'[r] # 0 =>
                            /\ state'[r] \in {"RUNNABLE", "RUNNING"}
                            /\ parent[np'[r]] = IF kpc'[r] = "copied" THEN r ELSE 0
    BY <1>b DEF Forks
  <2>1. CASE r = p \/ r = e
    BY <1>a, <1>c, <2>1
  <2>2. CASE r # p /\ r # e
    <3>1. np'[r] = np[r] /\ kpc'[r] = kpc[r] /\ state'[r] = state[r]
      BY <1>c, <2>2
    <3> QED
      BY <3>1 DEF Forks
  <2> QED
    BY <2>1, <2>2
<1>5. EmbryoHasOwner'
  BY <1>a, <1>c, <1>n, OthersOwned, SMT
<1>6. Orphans'
  BY <1>a, <1>b, <1>c, SMT DEF Orphans
<1>7. HasLiveParent'
  <2> SUFFICES ASSUME NEW r \in Slot \ {initproc},
                      state'[r] \notin {"UNUSED", "EMBRYO"}
               PROVE  parent[r] # 0 /\ state'[parent[r]] \in Live
    BY <1>b DEF HasLiveParent, Live
  <2>1. parent[r] \in Slot /\ state[parent[r]] \in Live
    <3>1. CASE r = e
      BY <1>a, <3>1 DEF Live
    <3>2. CASE r # e
      BY <1>c, <3>2, SMT DEF HasLiveParent, Live, TypeOK
    <3> QED
      BY <3>1, <3>2
  <2>2. parent[r] # e /\ parent[r] # 0
    BY <1>a, <2>1 DEF Live
  <2> QED
    BY <1>c, <2>1, <2>2
<1>8. SleeperWaits'
  <2>1. \A r \in Slot : state'[r] \in {"SLEEPING", "ZOMBIE"} => state'[r] = state[r]
    BY <1>c
  <2> QED
    BY <1>b, <2>1, SleepersKept
<1> QED
  BY <1>1, <1>2, <1>3, <1>4, <1>5, <1>6, <1>7, <1>8

\* exit(), up to sched().
LEMMA StepExit ==
  ASSUME IInv, NEW c \in Cpu, NEW p \in Slot, Exit(c, p)
  PROVE  IInv'
<1> USE SlotFacts DEF IInv
<1>a. /\ at[c] = "proc" /\ proc[c] = p /\ frame[p] = "none" /\ kpc[p] = "exit"
      /\ Runs(c, p)
      /\ UNCHANGED <<at, proc, scan, pid, killed, chan, nextpid, np, named>>
  BY DEF Exit, RunsAt, Runs
<1>b. CASE p = initproc
  <2>1. Goto(p, "panic") /\ UNCHANGED <<cpuVars, state, parent, frame>>
    BY <1>a, <1>b DEF Exit, cpuVars
  <2>2. named \subseteq Nat /\ killed \in [Slot -> BOOLEAN] /\ "panic" \in KPC
    BY DEF TypeOK, KPC
  <2> QED
    BY <1>a, <2>1, <2>2, StepGoto
<1>c. SUFFICES ASSUME p # initproc PROVE IInv'
  BY <1>b
<1>d. /\ lock = NoCpu /\ lock' = c
      /\ parent' = [q \in Slot |-> IF parent[q] = p THEN initproc ELSE parent[q]]
      /\ frame' = [frame EXCEPT ![p] = "exit"]
      /\ UNCHANGED kpc
  BY <1>c DEF Exit
<1>e. PICK woken :
        /\ parent[p] \in woken
        /\ Zombies(p) # {} => initproc \in woken
        /\ state' = [Wakeup1(state, woken) EXCEPT ![p] = "ZOMBIE"]
  BY <1>c DEF Exit
<1>f. /\ state' \in [Slot -> ProcState]
      /\ state'[p] = "ZOMBIE"
      /\ \A q \in Slot \ {p} :
            \/ state'[q] = state[q]
            \/ state[q] = "SLEEPING" /\ state'[q] = "RUNNABLE"
      /\ \A q \in Slot \ {p} : state'[q] = "SLEEPING" => chan[q] \notin woken
  BY <1>e DEF Wakeup1, TypeOK, ProcState
<1>g. parent' \in [Slot -> Slot \cup {0}]
  BY <1>d DEF TypeOK
<1>h. state[p] = "RUNNING"
  BY <1>a DEF Stacks
<1>i. \A d \in Cpu \ {c} :
        /\ at[d] # "scan"
        /\ at[d] = "proc" => /\ proc[d] \in Slot \ {p}
                              /\ frame[proc[d]] = "none"
                              /\ state[proc[d]] = "RUNNING"
  BY <1>a, <1>d DEF Stacks, TypeOK
<1>j. \A q \in Slot : state'[q] = "EMBRYO" <=> state[q] = "EMBRYO"
  BY <1>f, <1>h
<1>1. TypeOK'
  BY <1>a, <1>d, <1>f, <1>g DEF TypeOK, Frame
<1>2. Stacks'
  <2>1. state'[proc[c]] = "ZOMBIE" /\ frame'[proc[c]] = "exit" /\ proc[c] \in Slot
    BY <1>a, <1>d, <1>f DEF TypeOK
  <2>2. ASSUME NEW d \in Cpu \ {c}, at[d] = "proc"
        PROVE  state'[proc[d]] = "RUNNING" /\ frame'[proc[d]] = "none"
    <3>1. /\ proc[d] \in Slot \ {p}
          /\ frame[proc[d]] = "none"
          /\ state[proc[d]] = "RUNNING"
      BY <1>i, <2>2
    <3>2. frame'[proc[d]] = "none"
      BY <1>d, <3>1 DEF TypeOK
    <3>3. state'[proc[d]] = "RUNNING"
      BY <1>f, <3>1
    <3> QED
      BY <3>2, <3>3
  <2> QED
    BY <1>a, <1>d, <1>i, <2>1, <2>2 DEF Stacks
<1>3. Places'
  <2>1. \A r \in Slot \ {p} : frame'[r] = frame[r]
    BY <1>d DEF TypeOK
  <2>2. frame'[p] = "exit"
    BY <1>d DEF TypeOK
  <2> QED
    BY <1>a, <1>d, <1>f, <2>1, <2>2, SMT DEF Places
<1>4. Forks'
  <2> SUFFICES ASSUME NEW r \in Slot
               PROVE  /\ np[r] # 0 <=> kpc[r] \in {"embryo", "copied"}
                      /\ np[r] # 0 =>
                            /\ state'[r] \in {"RUNNABLE", "RUNNING"}
                            /\ parent'[np[r]] = IF kpc[r] = "copied" THEN r ELSE 0
    BY <1>a, <1>d, SMT DEF Forks
  <2>1. np[r] # 0 <=> kpc[r] \in {"embryo", "copied"}
    BY DEF Forks
  <2>2. ASSUME np[r] # 0 PROVE r # p /\ np[r] \in Slot
    BY <1>a, <2>2, SMT DEF Forks, TypeOK
  <2>3. ASSUME np[r] # 0 PROVE state'[r] \in {"RUNNABLE", "RUNNING"}
    BY <1>f, <2>2, <2>3 DEF Forks
  <2>4. ASSUME np[r] # 0
        PROVE  parent[np[r]] = IF kpc[r] = "copied" THEN r ELSE 0
    BY <2>4 DEF Forks
  <2>5. ASSUME np[r] # 0 PROVE parent'[np[r]] = parent[np[r]]
    <3>1. parent[np[r]] # p
      BY <2>2, <2>4, <2>5
    <3> QED
      BY <1>d, <2>2, <2>5, <3>1
  <2> QED
    BY <2>1, <2>3, <2>4, <2>5
<1>5. EmbryoHasOwner'
  <2>1. ASSUME NEW q \in Slot, np[q] # 0
        PROVE  state'[np[q]] = "EMBRYO"
    <3>1. np[q] \in Slot /\ state[np[q]] = "EMBRYO"
      BY <2>1, SMT DEF TypeOK, EmbryoHasOwner
    <3> QED
      BY <1>j, <3>1
  <2>2. \A q \in Slot : state'[q] = "EMBRYO" => state[q] = "EMBRYO"
    BY <1>j
  <2>3. \A q \in Slot : state'[q] = "EMBRYO" =>
          \E r \in Slot : np[r] = q /\ kpc[r] \in {"embryo", "copied"}
    BY <2>2 DEF EmbryoHasOwner
  <2>4. \A q, r \in Slot : np[q] = np[r] /\ np[q] # 0 => q = r
    BY DEF EmbryoHasOwner
  <2> QED
    BY <1>a, <1>d, <2>1, <2>3, <2>4 DEF EmbryoHasOwner
<1>6. Orphans'
  <2>1. \A q \in Slot : state'[q] = "UNUSED" => parent'[q] = 0
    BY <1>d, <1>f DEF Orphans
  <2>2. \A q \in Slot : parent'[q] # q
    BY <1>d DEF Orphans
  <2>3. parent'[initproc] = 0
    BY <1>d DEF Orphans
  <2>4. state'[initproc] \in Live
    BY <1>c, <1>f DEF Orphans, Live
  <2> QED
    BY <2>1, <2>2, <2>3, <2>4 DEF Orphans
<1>7. HasLiveParent'
  <2> SUFFICES ASSUME NEW q \in Slot \ {initproc},
                      state'[q] \notin {"UNUSED", "EMBRYO"}
               PROVE  parent'[q] # 0 /\ state'[parent'[q]] \in Live
    BY DEF HasLiveParent, Live
  <2>1. state[q] \notin {"UNUSED", "EMBRYO"}
    BY <1>f, <1>h
  <2>2. parent[q] \in Slot /\ state[parent[q]] \in Live
    BY <2>1 DEF HasLiveParent, Live, TypeOK
  <2>3. \A r \in Slot \ {p} : state[r] \in Live => state'[r] \in Live
    BY <1>f DEF Live
  <2>4. CASE parent[q] = p
    BY <1>c, <1>d, <2>3, <2>4 DEF Orphans
  <2>5. CASE parent[q] # p
    BY <1>d, <2>2, <2>3, <2>5
  <2> QED
    BY <2>4, <2>5
<1>8. SleeperWaits'
  <2> SUFFICES ASSUME NEW q \in Slot, state'[q] = "SLEEPING"
               PROVE  Children(q)' # {} /\ Zombies(q)' = {} /\ ~killed'[q]
    BY DEF SleeperWaits
  <2>0. q # p /\ state[q] = "SLEEPING"
    BY <1>f
  <2>1. q # p /\ state[q] = "SLEEPING" /\ chan[q] = q
    BY <2>0 DEF Places
  <2>2. q # parent[p] /\ (Zombies(p) # {} => q # initproc)
    BY <1>e, <1>f, <2>1, SMT
  <2>3. ~killed'[q]
    BY <1>a, <2>1 DEF SleeperWaits
  <2>4. Children(q)' # {}
    <3>1. PICK r \in Slot : parent[r] = q
      BY <2>1 DEF SleeperWaits, Children
    <3>2. parent'[r] = q
      BY <1>d, <2>1, <3>1
    <3> QED
      BY <3>2 DEF Children
  <2>5. ASSUME NEW r \in Slot, parent'[r] = q, state'[r] = "ZOMBIE"
        PROVE  FALSE
    <3>1. CASE r = p
      BY <1>d, <2>2, <2>5, <3>1 DEF Orphans
    <3>2. CASE r # p
      <4>1. state[r] = "ZOMBIE"
        BY <1>f, <2>5, <3>2
      <4>2. parent[r] # q
        BY <2>1, <4>1 DEF SleeperWaits, Zombies, Children
      <4>3. parent[r] = p /\ q = initproc
        BY <1>d, <2>5, <4>2
      <4> QED
        BY <2>2, <4>1, <4>3 DEF Zombies, Children
    <3> QED
      BY <3>1, <3>2
  <2>6. Zombies(q)' = {}
    BY <2>5 DEF Zombies, Children
  <2> QED
    BY <2>3, <2>4, <2>6
<1> QED
  BY <1>1, <1>2, <1>3, <1>4, <1>5, <1>6, <1>7, <1>8

\* p runs the loop of wait() on c.
InWait(c, p) ==
    /\ at[c] = "proc" /\ proc[c] = p
    /\ state[p] = "RUNNING" /\ kpc[p] = "wait"
    /\ lock \in {NoCpu, c}

noWait == UNCHANGED <<at, proc, scan, nextpid, np, named>>

\* The three ways through the loop: wait() reaps q, gives up, or sleeps.
WaitReaps(p, q) ==
    /\ state' = [state EXCEPT ![q] = "UNUSED"]
    /\ pid' = [pid EXCEPT ![q] = 0]
    /\ parent' = [parent EXCEPT ![q] = 0]
    /\ killed' = [killed EXCEPT ![q] = FALSE]
    /\ frame' = [frame EXCEPT ![q] = "none", ![p] = "none"]
    /\ chan' = [chan EXCEPT ![p] = 0]
    /\ kpc' = [kpc EXCEPT ![p] = "ret"]
    /\ lock' = NoCpu

WaitFails(p) ==
    /\ frame' = [frame EXCEPT ![p] = "none"]
    /\ chan' = [chan EXCEPT ![p] = 0]
    /\ kpc' = [kpc EXCEPT ![p] = "ret"]
    /\ lock' = NoCpu
    /\ UNCHANGED <<state, pid, parent, killed>>

WaitSleeps(c, p) ==
    /\ lock' = c
    /\ chan' = [chan EXCEPT ![p] = p]
    /\ state' = [state EXCEPT ![p] = "SLEEPING"]
    /\ frame' = [frame EXCEPT ![p] = "wait"]
    /\ UNCHANGED <<pid, parent, killed, kpc>>

\* Who runs wait() has the table to itself: the other CPUs do not scan, and
\* the processes they run are in no call of sched().
LEMMA WaitAlone ==
  ASSUME TypeOK, Stacks, NEW c \in Cpu, NEW p \in Slot, InWait(c, p),
         NEW d \in Cpu \ {c}
  PROVE  /\ at[d] # "scan"
         /\ at[d] = "proc" => /\ proc[d] \in Slot \ {p}
                               /\ frame[proc[d]] = "none"
                               /\ state[proc[d]] = "RUNNING"
<1>1. lock # d
  BY SlotFacts DEF InWait
<1>2. at[d] # "scan"
  BY <1>1 DEF Stacks
<1>3. ASSUME at[d] = "proc"
      PROVE  /\ proc[d] \in Slot /\ frame[proc[d]] = "none"
             /\ state[proc[d]] = "RUNNING"
  BY <1>1, <1>3 DEF Stacks, TypeOK
<1>4. at[d] = "proc" => proc[d] # p
  BY DEF Stacks, InWait
<1> QED
  BY <1>2, <1>3, <1>4

\* The slots are as Stacks wants them after a step of wait() if p is, and if
\* the processes that other CPUs run are left alone.
LEMMA WaitStacks ==
  ASSUME TypeOK, Stacks, NEW c \in Cpu, NEW p \in Slot, InWait(c, p),
         UNCHANGED <<at, proc>>,
         state'[p] \notin {"UNUSED", "EMBRYO"},
         frame'[p] = "none" => state'[p] = "RUNNING",
         frame'[p] # "none" => lock' = c,
         \A r \in Slot \ {p} : state[r] = "RUNNING" => state'[r] = "RUNNING",
         \A r \in Slot \ {p} : frame[r] = "none" => frame'[r] = "none"
  PROVE  Stacks'
<1>1. at[c] = "proc" /\ proc[c] = p /\ proc[c] # 0
  BY SlotFacts DEF InWait
<1>2. ASSUME NEW d \in Cpu \ {c}
      PROVE  /\ at[d] # "scan"
             /\ at[d] = "proc" => /\ proc[d] # 0
                                   /\ frame'[proc[d]] = "none"
                                   /\ state'[proc[d]] = "RUNNING"
  <2>1. /\ at[d] # "scan"
        /\ at[d] = "proc" => /\ proc[d] \in Slot \ {p}
                              /\ frame[proc[d]] = "none"
                              /\ state[proc[d]] = "RUNNING"
    BY WaitAlone
  <2>2. at[d] = "proc" => proc[d] # 0
    BY <2>1, SlotFacts
  <2> QED
    BY <2>1, <2>2
<1>3. \A d, e \in Cpu : at[d] = "proc" /\ at[e] = "proc" /\ proc[d] = proc[e] => d = e
  BY DEF Stacks
<1> QED
  BY <1>1, <1>2, <1>3, SMT DEF Stacks

\* wait() reaps the zombie q.
LEMMA StepWaitReaps ==
  ASSUME IInv, NEW c \in Cpu, NEW p \in Slot, InWait(c, p),
         NEW q \in Slot, parent[q] = p, state[q] = "ZOMBIE",
         WaitReaps(p, q), noWait
  PROVE  IInv'
<1> USE SlotFacts DEF IInv
<1>a. q # p /\ q # initproc
  BY DEF InWait, Orphans, Live
<1>b. UNCHANGED <<at, proc, scan, nextpid, np, named>>
  BY DEF noWait
<1>c. \A r \in Slot \ {q} :
        /\ state'[r] = state[r] /\ parent'[r] = parent[r] /\ killed'[r] = killed[r]
        /\ r # p => frame'[r] = frame[r]
  BY DEF WaitReaps, TypeOK
<1>d. \A r \in Slot \ {p} : chan'[r] = chan[r] /\ kpc'[r] = kpc[r]
  BY DEF WaitReaps, TypeOK
<1>e. /\ state'[q] = "UNUSED" /\ parent'[q] = 0 /\ frame'[q] = "none"
      /\ state[p] = "RUNNING" /\ frame'[p] = "none" /\ kpc'[p] = "ret"
      /\ kpc[p] = "wait"
  BY <1>a DEF WaitReaps, TypeOK, InWait
<1>1. TypeOK'
  BY <1>b DEF TypeOK, KPC, Frame, ProcState, WaitReaps
<1>2. Stacks'
  <2>1. \A r \in Slot \ {p} : frame[r] = "none" => frame'[r] = "none"
    BY <1>c, <1>e
  <2>2. state'[p] = "RUNNING"
    BY <1>a, <1>c, <1>e
  <2>3. \A r \in Slot \ {p} : state[r] = "RUNNING" => state'[r] = "RUNNING"
    BY <1>c
  <2> QED
    BY <1>b, <1>e, <2>1, <2>2, <2>3, WaitStacks
<1>3. Places'
  BY <1>a, <1>c, <1>d, <1>e, SMT DEF Places
<1>4. Forks'
  <2> SUFFICES ASSUME NEW r \in Slot
               PROVE  /\ np[r] # 0 <=> kpc'[r] \in {"embryo", "copied"}
                      /\ np[r] # 0 =>
                            /\ state'[r] \in {"RUNNABLE", "RUNNING"}
                            /\ parent'[np[r]] = IF kpc'[r] = "copied" THEN r ELSE 0
    BY <1>b DEF Forks
  <2>1. np[r] # 0 <=> kpc'[r] \in {"embryo", "copied"}
    BY <1>d, <1>e DEF Forks
  <2>2. ASSUME np[r] # 0
        PROVE  /\ r # p /\ r # q /\ np[r] \in Slot \ {q}
    BY <1>e, <2>2, SMT DEF Forks, TypeOK, EmbryoHasOwner
  <2>3. ASSUME np[r] # 0
        PROVE  state'[r] \in {"RUNNABLE", "RUNNING"}
    <3>1. state'[r] = state[r]
      BY <1>c, <2>2, <2>3
    <3> QED
      BY <2>3, <3>1 DEF Forks
  <2>4. ASSUME np[r] # 0
        PROVE  parent'[np[r]] = IF kpc'[r] = "copied" THEN r ELSE 0
    <3>1. parent'[np[r]] = parent[np[r]] /\ kpc'[r] = kpc[r]
      BY <1>c, <1>d, <2>2, <2>4
    <3> QED
      BY <2>4, <3>1 DEF Forks
  <2> QED
    BY <2>1, <2>3, <2>4
<1>5. EmbryoHasOwner'
  <2>1. ASSUME NEW r \in Slot, state'[r] = "EMBRYO"
        PROVE  \E s \in Slot : np[s] = r /\ kpc'[s] \in {"embryo", "copied"}
    <3>1. PICK s \in Slot : np[s] = r /\ kpc[s] \in {"embryo", "copied"}
      BY <1>c, <1>e, <2>1, SMT DEF EmbryoHasOwner
    <3> QED
      BY <1>d, <1>e, <3>1
  <2>2. ASSUME NEW r \in Slot, np[r] # 0
        PROVE  state'[np[r]] = "EMBRYO"
    <3>1. np[r] \in Slot /\ state[np[r]] = "EMBRYO"
      BY <2>2, SMT DEF EmbryoHasOwner, TypeOK
    <3> QED
      BY <1>c, <3>1
  <2>3. \A r, s \in Slot : np[r] = np[s] /\ np[r] # 0 => r = s
    BY DEF EmbryoHasOwner
  <2> QED
    BY <1>b, <2>1, <2>2, <2>3, SMT DEF EmbryoHasOwner
<1>6. Orphans'
  BY <1>a, <1>c, <1>e, SMT DEF Orphans
<1>7. HasLiveParent'
  <2> SUFFICES ASSUME NEW r \in Slot \ {initproc},
                      state'[r] \notin {"UNUSED", "EMBRYO"}
               PROVE  parent'[r] # 0 /\ state'[parent'[r]] \in Live
    BY DEF HasLiveParent, Live
  <2>1. r # q /\ state'[r] = state[r] /\ parent'[r] = parent[r]
    BY <1>c, <1>e
  <2>2. parent[r] # 0 /\ parent[r] \in Slot /\ state[parent[r]] \in Live
    BY <2>1 DEF HasLiveParent, Live, TypeOK
  <2>3. parent[r] # q
    BY <2>2 DEF Live
  <2> QED
    BY <1>c, <2>1, <2>2, <2>3
<1>8. SleeperWaits'
  <2> SUFFICES ASSUME NEW r \in Slot, state'[r] = "SLEEPING"
               PROVE  Children(r)' # {} /\ Zombies(r)' = {} /\ ~killed'[r]
    BY DEF SleeperWaits
  <2>0. r # q /\ r # p /\ state[r] = "SLEEPING" /\ killed'[r] = killed[r]
    BY <1>a, <1>c, <1>e
  <2>1. r # q /\ r # p /\ state[r] = "SLEEPING" /\ ~killed'[r]
    BY <2>0 DEF SleeperWaits
  <2>2. Children(r)' # {}
    <3>1. PICK s \in Slot : parent[s] = r
      BY <2>1 DEF SleeperWaits, Children
    <3> QED
      BY <1>c, <2>1, <3>1 DEF Children
  <2>3. ASSUME NEW s \in Slot, parent'[s] = r, state'[s] = "ZOMBIE"
        PROVE  FALSE
    <3>1. parent[s] = r /\ state[s] = "ZOMBIE"
      BY <1>c, <1>e, <2>3
    <3> QED
      BY <2>1, <3>1 DEF SleeperWaits, Zombies, Children
  <2> QED
    BY <2>1, <2>2, <2>3 DEF Zombies, Children
<1> QED
  BY <1>1, <1>2, <1>3, <1>4, <1>5, <1>6, <1>7, <1>8

\* wait() gives up.
LEMMA StepWaitFails ==
  ASSUME IInv, NEW c \in Cpu, NEW p \in Slot, InWait(c, p), WaitFails(p), noWait
  PROVE  IInv'
<1> USE DEF IInv
<1>b. UNCHANGED <<at, proc, scan, nextpid, np, named, state, pid, parent, killed>>
  BY DEF noWait, WaitFails
<1>c. \A r \in Slot \ {p} :
        chan'[r] = chan[r] /\ kpc'[r] = kpc[r] /\ frame'[r] = frame[r]
  BY DEF WaitFails, TypeOK
<1>d. /\ frame'[p] = "none" /\ kpc'[p] = "ret" /\ kpc[p] = "wait"
      /\ state[p] = "RUNNING"
  BY DEF WaitFails, TypeOK, InWait
<1>1. TypeOK'
  BY <1>b DEF TypeOK, KPC, Frame, WaitFails
<1>2. Stacks'
  BY <1>b, <1>c, <1>d, WaitStacks
<1>3. Places'
  BY <1>b, <1>c, <1>d, SMT DEF Places
<1>4. Keeps
  BY <1>b, <1>c, <1>d DEF Keeps
<1> QED
  BY <1>1, <1>2, <1>3, <1>4, KeepsIInv

\* wait() sleeps.
LEMMA StepWaitSleeps ==
  ASSUME IInv, NEW c \in Cpu, NEW p \in Slot, InWait(c, p),
         Zombies(p) = {}, Children(p) # {}, ~killed[p],
         WaitSleeps(c, p), noWait
  PROVE  IInv'
<1> USE SlotFacts DEF IInv
<1>b. UNCHANGED <<at, proc, scan, nextpid, np, named, pid, parent, killed, kpc>>
  BY DEF noWait, WaitSleeps
<1>c. \A r \in Slot \ {p} :
        chan'[r] = chan[r] /\ state'[r] = state[r] /\ frame'[r] = frame[r]
  BY DEF WaitSleeps, TypeOK
<1>d. /\ frame'[p] = "wait" /\ chan'[p] = p /\ state'[p] = "SLEEPING"
      /\ kpc[p] = "wait" /\ state[p] = "RUNNING"
  BY DEF WaitSleeps, TypeOK, InWait
<1>e. \A r \in Slot, s \in {"UNUSED", "EMBRYO", "ZOMBIE"} : state'[r] = s <=> state[r] = s
  BY <1>c, <1>d
<1>1. TypeOK'
  BY <1>b DEF TypeOK, ProcState, Frame, WaitSleeps
<1>2. Stacks'
  <2>1. lock' = c
    BY DEF WaitSleeps
  <2> QED
    BY <1>b, <1>c, <1>d, <2>1, WaitStacks
<1>3. Places'
  BY <1>b, <1>c, <1>d, SMT DEF Places
<1>4. Forks'
  <2>1. \A r \in Slot : np[r] # 0 => r # p
    BY <1>d DEF Forks
  <2> QED
    BY <1>b, <1>c, <2>1 DEF Forks
<1>5. EmbryoHasOwner'
  <2>1. \A r \in Slot : np[r] # 0 => np[r] \in Slot
    BY DEF TypeOK
  <2>2. \A r \in Slot : state'[r] = "EMBRYO" <=> state[r] = "EMBRYO"
    BY <1>e
  <2> QED
    BY <1>b, <2>1, <2>2 DEF EmbryoHasOwner
<1>6. Orphans'
  BY <1>b, <1>c, <1>d, <1>e DEF Orphans, Live
<1>7. HasLiveParent'
  <2>1. \A r \in Slot : state[r] \in Live => state'[r] \in Live
    BY <1>c, <1>d DEF Live
  <2>2. \A r \in Slot : parent[r] # 0 => parent[r] \in Slot
    BY DEF TypeOK
  <2> QED
    BY <1>b, <1>e, <2>1, <2>2 DEF HasLiveParent, Live
<1>8. SleeperWaits'
  <2> SUFFICES ASSUME NEW r \in Slot, state'[r] = "SLEEPING"
               PROVE  Children(r)' # {} /\ Zombies(r)' = {} /\ ~killed'[r]
    BY DEF SleeperWaits
  <2>1. Children(r)' = Children(r)
    BY <1>b DEF Children
  <2>2. Zombies(r)' = Zombies(r)
    BY <1>e, <2>1 DEF Zombies, Children
  <2>3. Children(r) # {} /\ Zombies(r) = {} /\ ~killed[r]
    BY <1>c, <1>d DEF SleeperWaits
  <2> QED
    BY <1>b, <2>1, <2>2, <2>3
<1> QED
  BY <1>1, <1>2, <1>3, <1>4, <1>5, <1>6, <1>7, <1>8

\* The body of wait(), entered with or without the lock.
LEMMA WaitBodyStep ==
  ASSUME IInv, NEW c \in Cpu, NEW p \in Slot, InWait(c, p), WaitBody(c, p), noWait
  PROVE  IInv'
<1>1. CASE Zombies(p) # {}
  <2>1. PICK q \in Slot :
          parent[q] = p /\ state[q] = "ZOMBIE" /\ WaitReaps(p, q)
    BY <1>1 DEF WaitBody, First, Zombies, Children, Goto, WaitReaps
  <2> QED
    BY <2>1, StepWaitReaps
<1>2. CASE Zombies(p) = {} /\ (Children(p) = {} \/ killed[p])
  <2>1. WaitFails(p)
    BY <1>2 DEF WaitBody, First, Goto, WaitFails
  <2> QED
    BY <2>1, StepWaitFails
<1>3. CASE Zombies(p) = {} /\ Children(p) # {} /\ ~killed[p]
  <2>1. WaitSleeps(c, p)
    BY <1>3 DEF WaitBody, First, WaitSleeps
  <2> QED
    BY <1>3, <2>1, StepWaitSleeps
<1> QED
  BY <1>1, <1>2, <1>3

\* wait() from its call.
LEMMA StepWait ==
  ASSUME IInv, NEW c \in Cpu, NEW p \in Slot, Wait(c, p)
  PROVE  IInv'
<1>1. at[c] = "proc" /\ proc[c] = p /\ frame[p] = "none" /\ kpc[p] = "wait"
  BY DEF Wait, RunsAt, Runs
<1>2. state[p] = "RUNNING"
  BY <1>1 DEF IInv, Stacks
<1>3. InWait(c, p) /\ WaitBody(c, p) /\ noWait
  BY <1>1, <1>2 DEF Wait, InWait, noWait
<1> QED
  BY <1>3, WaitBodyStep

\* wait() after it slept.
LEMMA StepResumeWait ==
  ASSUME IInv, NEW c \in Cpu, NEW p \in Slot, ResumeWait(c, p)
  PROVE  IInv'
<1>1. /\ at[c] = "proc" /\ proc[c] = p /\ frame[p] = "wait"
      /\ state[p] = "RUNNING"
  BY DEF ResumeWait, Resumes
<1>2. lock = c /\ kpc[p] = "wait"
  BY <1>1 DEF IInv, Stacks, Places
<1>3. InWait(c, p) /\ WaitBody(c, p) /\ noWait
  BY <1>1, <1>2 DEF ResumeWait, InWait, noWait
<1> QED
  BY <1>3, WaitBodyStep

\* kill().
LEMMA StepKill ==
  ASSUME IInv, NEW c \in Cpu, NEW p \in Slot, NEW id \in KillArgs, Kill(c, p, id)
  PROVE  IInv'
<1> USE DEF IInv
<1>a. /\ Runs(c, p) /\ kpc[p] = "kill" /\ Goto(p, "ret") /\ lock = NoCpu
      /\ UNCHANGED <<cpuVars, pid, parent, chan, nextpid, frame, np>>
  BY DEF Kill, RunsAt
<1>b. named' \subseteq Nat
  <2>1. named' = named \cup {id} /\ id \in Nat /\ named \subseteq Nat
    BY ProcAssumption DEF Kill, TypeOK
  <2> QED
    BY <2>1
<1>c. CASE {q \in Slot : pid[q] = id} = {}
  <2>1. UNCHANGED <<killed, state>>
    BY <1>c DEF Kill
  <2>2. killed \in [Slot -> BOOLEAN] /\ "ret" \in KPC
    BY DEF TypeOK, KPC
  <2> QED
    BY <1>a, <1>b, <2>1, <2>2, StepGoto
<1>d. SUFFICES ASSUME {q \in Slot : pid[q] = id} # {} PROVE IInv'
  BY <1>c
<1>e. PICK q \in Slot :
        /\ killed' = [killed EXCEPT ![q] = TRUE]
        /\ state' = [state EXCEPT ![q] = IF @ = "SLEEPING" THEN "RUNNABLE" ELSE @]
  BY <1>d DEF Kill, First
<1>f. /\ UNCHANGED <<lock, at, proc, scan, pid, parent, chan, nextpid, frame, np>>
      /\ kpc' = [kpc EXCEPT ![p] = "ret"]
  BY <1>a DEF cpuVars, Goto
<1>g. /\ killed' \in [Slot -> BOOLEAN]
      /\ \A r \in Slot \ {q} : state'[r] = state[r] /\ killed'[r] = killed[r]
      /\ state'[q] # "SLEEPING"
      /\ \/ state'[q] = state[q]
         \/ state[q] = "SLEEPING" /\ state'[q] = "RUNNABLE"
  BY <1>e DEF TypeOK
<1>h. state' \in [Slot -> ProcState]
  BY <1>e DEF TypeOK, ProcState
<1>i. kpc'[p] = "ret" /\ \A r \in Slot \ {p} : kpc'[r] = kpc[r]
  BY <1>f DEF TypeOK
<1>j. state[p] = "RUNNING" /\ frame[p] = "none"
  BY <1>a DEF Stacks, Runs
<1>1. TypeOK'
  BY <1>b, <1>f, <1>g, <1>h DEF TypeOK, KPC
<1>2. Stacks'
  <2>1. ASSUME NEW d \in Cpu
        PROVE  /\ at[d] # "scan"
               /\ at[d] = "proc" => /\ proc[d] \in Slot
                                     /\ frame[proc[d]] = "none"
                                     /\ state[proc[d]] = "RUNNING"
    BY <1>a, SlotFacts DEF TypeOK, Stacks
  <2>2. ASSUME NEW d \in Cpu, at[d] = "proc" PROVE state'[proc[d]] = "RUNNING"
    <3>1. proc[d] \in Slot /\ state[proc[d]] = "RUNNING"
      BY <2>1, <2>2
    <3>2. \A r \in Slot : state[r] = "RUNNING" => state'[r] = "RUNNING"
      BY <1>g
    <3> QED
      BY <3>1, <3>2
  <2>3. \A d, f \in Cpu : at[d] = "proc" /\ at[f] = "proc" /\ proc[d] = proc[f] => d = f
    BY DEF Stacks
  <2> QED
    BY <1>f, <2>1, <2>2, <2>3, SlotFacts DEF Stacks
<1>3. Places'
  <2> SUFFICES ASSUME NEW r \in Slot
               PROVE  /\ state'[r] = "RUNNABLE" => frame[r] # "none"
                      /\ state'[r] = "SLEEPING" => frame[r] = "wait" /\ chan[r] = r
                      /\ state'[r] = "ZOMBIE" => kpc'[r] = "exit"
                      /\ frame[r] = "wait" => kpc'[r] = "wait"
    BY <1>f DEF Places
  <2>1. state'[r] = "RUNNABLE" => frame[r] # "none"
    BY <1>g, SMT DEF Places
  <2>2. state'[r] = "SLEEPING" => frame[r] = "wait" /\ chan[r] = r
    BY <1>g DEF Places
  <2>3. state'[r] = "ZOMBIE" => kpc'[r] = "exit"
    BY <1>g, <1>i, <1>j, SMT DEF Places
  <2>4. frame[r] = "wait" => kpc'[r] = "wait"
    BY <1>i, <1>j, SMT DEF Places
  <2> QED
    BY <2>1, <2>2, <2>3, <2>4
<1>4. Keeps
  <2>1. \A r \in Slot : \/ state'[r] = state[r]
                        \/ state[r] \in Live /\ state'[r] \in {"RUNNABLE", "RUNNING"}
    BY <1>g DEF Live
  <2>2. \A r \in Slot : state'[r] = "SLEEPING" => killed'[r] = killed[r]
    BY <1>g
  <2>3. \A r \in Slot : kpc'[r] = kpc[r] \/ r = p
    BY <1>i
  <2> QED
    BY <1>a, <1>f, <1>i, <2>1, <2>2, <2>3 DEF Keeps
<1> QED
  BY <1>1, <1>2, <1>3, <1>4, KeepsIInv

-----------------------------------------------------------------------------
\* The table after userinit() satisfies the invariant.
LEMMA InitIInv == Init => IInv
<1> SUFFICES ASSUME Init PROVE IInv
  OBVIOUS
<1> USE SlotFacts, ProcAssumption
<1>1. TypeOK
  BY SMT DEF Init, TypeOK, KPC, Syscalls, Frame, ProcState, Slot
<1>2. Stacks
  BY DEF Init, Stacks
<1>3. Places
  BY DEF Init, Places
<1>4. Forks /\ EmbryoHasOwner
  BY DEF Init, Forks, EmbryoHasOwner
<1>5. Orphans /\ HasLiveParent
  BY DEF Init, Orphans, Live, HasLiveParent
<1>6. SleeperWaits
  BY DEF Init, SleeperWaits
<1> QED
  BY <1>1, <1>2, <1>3, <1>4, <1>5, <1>6 DEF IInv

\* Every step preserves it.
LEMMA NextIInv ==
  ASSUME IInv, [Next]_vars
  PROVE  IInv'
<1>1. ASSUME NEW c \in Cpu, Scheduler(c)
      PROVE  IInv'
  BY <1>1, StepSchedulerAcquire, StepSchedulerSwitch, StepSchedulerRelease
     DEF Scheduler
<1>2. ASSUME NEW c \in Cpu, NEW p \in Slot, Switch(c, p) \/ Yield(c, p)
      PROVE  IInv'
  BY <1>2, StepSched, StepResumeRelease, StepResumeWait, StepYield DEF Switch
<1>3. ASSUME NEW c \in Cpu, NEW p \in Slot, Kernel(c, p)
      PROVE  IInv'
  BY <1>3, StepTrap, StepAllocproc, StepForkFail, StepForkCopy,
     StepForkRun, StepExit, StepWait, StepKill DEF Kernel
<1>4. ASSUME NEW c \in Cpu, NEW p \in Slot, User(c, p)
      PROVE  IInv'
  BY <1>4, StepTrap DEF User
<1>5. CASE UNCHANGED vars
  BY <1>5, SMT DEF vars, cpuVars, IInv, TypeOK, Stacks, Places, Forks,
     EmbryoHasOwner, Orphans, HasLiveParent, SleeperWaits, Children, Zombies
<1> QED
  BY <1>1, <1>2, <1>3, <1>4, <1>5 DEF Next

-----------------------------------------------------------------------------
\* The inductive invariant holds throughout.
THEOREM ProcInvariant == Spec => []IInv
<1>1. Init => IInv
  BY InitIInv
<1>2. IInv /\ [Next]_vars => IInv'
  BY NextIInv
<1> QED
  BY <1>1, <1>2, PTL DEF Spec

\* A kernel stack is used by one CPU at a time, and a process that has stopped
\* running is on its stack only under ptable.lock (sched, scheduler, wait).
THEOREM OneCpuPerStack == Spec => []StackHasOneCpu
<1>1. IInv => StackHasOneCpu
  <2> SUFFICES ASSUME IInv, NEW p \in Slot, NEW c \in OnStack(p)
               PROVE  /\ OnStack(p) = {c}
                      /\ state[p] \in {"RUNNING", "RUNNABLE", "SLEEPING", "ZOMBIE"}
                      /\ state[p] # "RUNNING" => lock = c
    BY DEF StackHasOneCpu
  <2> QED
    BY SMT DEF IInv, TypeOK, ProcState, Stacks, OnStack
<1> QED
  BY <1>1, ProcInvariant, PTL

\* A slot that fork() fills belongs to that fork alone, and every process has
\* a live parent that can reap it, whatever is forked, exits or is reaped.
THEOREM TableStaysSound == Spec => []TableIsSound
<1>1. IInv => TableIsSound
  BY DEF IInv, TableIsSound
<1> QED
  BY <1>1, ProcInvariant, PTL

\* No wakeup is lost: who sleeps in wait() has a child, none of its children
\* is a zombie, and it has not been killed (exit, kill, wait).
THEOREM NoLostWakeup == Spec => []SleeperWaits
<1>1. IInv => SleeperWaits
  BY DEF IInv
<1> QED
  BY <1>1, ProcInvariant, PTL
=============================================================================
