-------------------------------- MODULE Proc --------------------------------
(***************************************************************************)
(* proc.c with the part of trap.c that ends a process: the process table,  *)
(* the per-CPU scheduler, fork, exit, wait, yield and kill.                *)
(*                                                                         *)
(* A step is a section under ptable.lock, an access to the table without   *)
(* it, or a context switch.  The lock is held across a context switch, so  *)
(* its holder (a CPU) is state: yield, exit and wait take it and leave it  *)
(* to the scheduler on the same CPU, and the scheduler leaves it to the    *)
(* process it starts.                                                      *)
(*                                                                         *)
(* Slots of ptable.proc are 1 .. NPROC, 0 is the null pointer, and slot 1  *)
(* is initproc.  Contents of memory and files are left out: whether kalloc *)
(* and copyuvm succeed is a choice.                                        *)
(***************************************************************************)
EXTENDS Integers, FiniteSets

CONSTANTS
    NPROC,    \* param.h: slots of the process table
    Cpu,      \* CPUs
    NoCpu,    \* ptable.lock is free
    MaxPid,   \* bound: pids handed out in a run
    KillArgs  \* pids that programs pass to kill()

ASSUME ProcAssumption ==
    /\ NPROC \in Nat \ {0}
    /\ IsFiniteSet(Cpu)
    /\ NoCpu \notin Cpu
    /\ MaxPid \in Nat \ {0}
    /\ KillArgs \subseteq Nat

VARIABLES
    lock,     \* CPU that holds ptable.lock
    at,       \* what the CPU executes: "idle", "scan" (scheduler), "proc"
    proc,     \* c->proc
    scan,     \* loop variable p of scheduler()
    state, pid, parent, killed, \* fields of struct proc
    chan,     \* p->chan: only wait() sleeps here, on a slot of the table
    nextpid,  \* nextpid
    kpc,      \* where the process is in the kernel, or "user"
    frame,    \* call of sched() it is in, or "none"
    np,       \* fork(): slot of the child
    named     \* history: pids given to kill(), or of a process that faulted

cpuVars == <<lock, at, proc, scan>>
vars == <<cpuVars, state, pid, parent, killed, chan, nextpid, kpc, frame, np,
          named>>

Slot == 1 .. NPROC
initproc == 1
\* The slot, if there is one, at which a loop over the table stops that looks
\* for a slot of S.
First(S) == {q \in S : \A r \in S : q <= r}

ProcState == {"UNUSED", "EMBRYO", "SLEEPING", "RUNNABLE", "RUNNING", "ZOMBIE"}
Syscalls == {"fork", "wait", "kill"}
KPC == Syscalls \cup {"user", "embryo", "copied", "exit", "ret", "panic"}
Frame == {"none", "forkret", "yield", "wait", "exit"}

TypeOK ==
    /\ lock \in Cpu \cup {NoCpu}
    /\ at \in [Cpu -> {"idle", "scan", "proc"}]
    /\ proc \in [Cpu -> Slot \cup {0}]
    /\ scan \in [Cpu -> 1 .. NPROC + 1]
    /\ state \in [Slot -> ProcState]
    /\ pid \in [Slot -> Nat]
    /\ parent \in [Slot -> Slot \cup {0}]
    /\ killed \in [Slot -> BOOLEAN]
    /\ chan \in [Slot -> Slot \cup {0}]
    /\ nextpid \in Nat
    /\ kpc \in [Slot -> KPC]
    /\ frame \in [Slot -> Frame]
    /\ np \in [Slot -> Slot \cup {0}]
    /\ named \subseteq Nat

-----------------------------------------------------------------------------
\* The table after userinit(), with the CPUs about to call scheduler().
Init ==
    /\ lock = NoCpu
    /\ at = [c \in Cpu |-> "idle"]
    /\ proc = [c \in Cpu |-> 0]
    /\ scan = [c \in Cpu |-> 1]
    /\ state = [p \in Slot |-> IF p = initproc THEN "RUNNABLE" ELSE "UNUSED"]
    /\ pid = [p \in Slot |-> IF p = initproc THEN 1 ELSE 0]
    /\ parent = [p \in Slot |-> 0]
    /\ killed = [p \in Slot |-> FALSE]
    /\ chan = [p \in Slot |-> 0]
    /\ nextpid = 2
    /\ kpc = [p \in Slot |-> "user"]
    /\ frame = [p \in Slot |-> IF p = initproc THEN "forkret" ELSE "none"]
    /\ np = [p \in Slot |-> 0]
    /\ named = {}

\* p runs on c, outside sched().
Runs(c, p) == at[c] = "proc" /\ proc[c] = p /\ frame[p] = "none"

\* The same at a given place.
RunsAt(c, p, place) == Runs(c, p) /\ kpc[p] = place

Goto(p, place) == kpc' = [kpc EXCEPT ![p] = place]

\* wakeup1(): the states after waking the sleepers on any channel of chans.
Wakeup1(states, chans) ==
    [q \in Slot |-> IF states[q] = "SLEEPING" /\ chan[q] \in chans
                    THEN "RUNNABLE" ELSE states[q]]

-----------------------------------------------------------------------------
\* scheduler() and sched().

\* acquire(&ptable.lock) at the top of the scheduler's loop.
SchedulerAcquire(c) ==
    /\ at[c] = "idle"
    /\ lock = NoCpu
    /\ lock' = c
    /\ at' = [at EXCEPT ![c] = "scan"]
    /\ scan' = [scan EXCEPT ![c] = 1]
    /\ UNCHANGED <<proc, state, pid, parent, killed, chan, nextpid, kpc,
                   frame, np, named>>

\* RUNNABLE slots the scan has yet to meet.
Candidates(c) == {p \in Slot : p >= scan[c] /\ state[p] = "RUNNABLE"}

\* The scan goes on to the next RUNNABLE slot and switches to it.
SchedulerSwitch(c) ==
    /\ at[c] = "scan"
    /\ \E p \in First(Candidates(c)) :
          /\ proc' = [proc EXCEPT ![c] = p]
          /\ state' = [state EXCEPT ![p] = "RUNNING"]
          /\ scan' = [scan EXCEPT ![c] = p + 1]
    /\ at' = [at EXCEPT ![c] = "proc"]
    /\ UNCHANGED <<lock, pid, parent, killed, chan, nextpid, kpc, frame, np,
                   named>>

\* The scan ends: release(&ptable.lock).
SchedulerRelease(c) ==
    /\ at[c] = "scan"
    /\ Candidates(c) = {}
    /\ lock' = NoCpu
    /\ at' = [at EXCEPT ![c] = "idle"]
    /\ UNCHANGED <<proc, scan, state, pid, parent, killed, chan, nextpid, kpc,
                   frame, np, named>>

\* swtch() of sched(), and c->proc = 0 back in the scheduler.
\* The callers have changed the state before ("sched running" cannot happen),
\* and StackHasOneCpu says that the CPU then holds ptable.lock, so that "sched
\* ptable.lock" does not happen either; ncli and the interrupt flag, which the
\* other two panics test, belong to pushcli() and are not represented here.
Sched(c, p) ==
    /\ at[c] = "proc"
    /\ proc[c] = p
    /\ frame[p] # "none"
    /\ state[p] # "RUNNING"
    /\ at' = [at EXCEPT ![c] = "scan"]
    /\ proc' = [proc EXCEPT ![c] = 0]
    /\ UNCHANGED <<lock, scan, state, pid, parent, killed, chan, nextpid, kpc,
                   frame, np, named>>

\* A process the scheduler has switched to, in the call of sched() it left.
Resumes(c, p) ==
    /\ at[c] = "proc"
    /\ proc[c] = p
    /\ state[p] = "RUNNING"

\* Return from sched() in yield(), or first run in forkret().
ResumeRelease(c, p) ==
    /\ Resumes(c, p)
    /\ frame[p] \in {"yield", "forkret"}
    /\ frame' = [frame EXCEPT ![p] = "none"]
    /\ lock' = NoCpu
    /\ UNCHANGED <<at, proc, scan, state, pid, parent, killed, chan, nextpid,
                   kpc, np, named>>

\* Mutant: yield() releases ptable.lock before it calls sched().
YieldUnlocked(c, p) ==
    /\ Runs(c, p)
    /\ kpc[p] # "panic"
    /\ ~(kpc[p] = "user" /\ killed[p])
    /\ lock = NoCpu
    /\ state' = [state EXCEPT ![p] = "RUNNABLE"]
    /\ frame' = [frame EXCEPT ![p] = "yield"]
    /\ kpc' = [kpc EXCEPT ![p] = IF @ = "user" THEN "ret" ELSE @]
    /\ UNCHANGED <<cpuVars, pid, parent, killed, chan, nextpid, np, named>>

\* yield() on a timer interrupt.  In user mode a killed process exits first,
\* and the test is made again after the yield; kernel code just goes on.
Yield(c, p) ==
    /\ Runs(c, p)
    /\ kpc[p] # "panic"
    /\ ~(kpc[p] = "user" /\ killed[p])
    /\ lock = NoCpu
    /\ lock' = c
    /\ state' = [state EXCEPT ![p] = "RUNNABLE"]
    /\ frame' = [frame EXCEPT ![p] = "yield"]
    /\ kpc' = [kpc EXCEPT ![p] = IF @ = "user" THEN "ret" ELSE @]
    /\ UNCHANGED <<at, proc, scan, pid, parent, killed, chan, nextpid, np,
                   named>>

-----------------------------------------------------------------------------
\* trap().

\* Bound: no fork() is called that would need a pid above MaxPid.
ForkBudget == nextpid + Cardinality({q \in Slot : kpc[q] = "fork"}) <= MaxPid

\* A system call; a killed process exits before it.
Syscall(c, p, call) ==
    /\ RunsAt(c, p, "user")
    /\ call = "fork" => ForkBudget
    /\ Goto(p, IF killed[p] THEN "exit" ELSE call)
    /\ UNCHANGED <<cpuVars, state, pid, parent, killed, chan, nextpid, frame,
                   np, named>>

\* The exit system call, or a timer interrupt that finds the process killed.
\* init never calls exit: it only exits when killed.
TrapExit(c, p) ==
    /\ RunsAt(c, p, "user")
    /\ p # initproc \/ killed[p]
    /\ Goto(p, "exit")
    /\ UNCHANGED <<cpuVars, state, pid, parent, killed, chan, nextpid, frame,
                   np, named>>

\* An unexpected trap from user mode marks the process killed.
TrapFault(c, p) ==
    /\ RunsAt(c, p, "user")
    /\ p # initproc
    /\ killed' = [killed EXCEPT ![p] = TRUE]
    /\ named' = named \cup {pid[p]}
    /\ Goto(p, "exit")
    /\ UNCHANGED <<cpuVars, state, pid, parent, chan, nextpid, frame, np>>

\* The last test of p->killed on the way back to user mode.
TrapReturn(c, p) ==
    /\ RunsAt(c, p, "ret")
    /\ Goto(p, IF killed[p] THEN "exit" ELSE "user")
    /\ UNCHANGED <<cpuVars, state, pid, parent, killed, chan, nextpid, frame,
                   np, named>>

-----------------------------------------------------------------------------
\* fork() and allocproc().

Unused == {q \in Slot : state[q] = "UNUSED"}

\* Mutant: allocproc() leaves the slot UNUSED until its stack is allocated.
AllocprocLate(c, p) ==
    /\ RunsAt(c, p, "fork")
    /\ lock = NoCpu
    /\ \E q \in First(Unused) :
          /\ pid' = [pid EXCEPT ![q] = nextpid]
          /\ np' = [np EXCEPT ![p] = q]
    /\ nextpid' = nextpid + 1
    /\ Goto(p, "embryo")
    /\ UNCHANGED <<cpuVars, state, parent, killed, chan, frame, named>>

\* allocproc() under ptable.lock.  fork() returns -1 when the table is full.
Allocproc(c, p) ==
    /\ RunsAt(c, p, "fork")
    /\ lock = NoCpu
    /\ IF Unused = {}
       THEN /\ Goto(p, "ret")
            /\ UNCHANGED <<state, pid, nextpid, np>>
       ELSE /\ \E q \in First(Unused) :
                  /\ state' = [state EXCEPT ![q] = "EMBRYO"]
                  /\ pid' = [pid EXCEPT ![q] = nextpid]
                  /\ np' = [np EXCEPT ![p] = q]
            /\ nextpid' = nextpid + 1
            /\ Goto(p, "embryo")
    /\ UNCHANGED <<cpuVars, parent, killed, chan, frame, named>>

\* kalloc() or copyuvm() fails: the slot is given back without the lock.
ForkFail(c, p) ==
    /\ RunsAt(c, p, "embryo")
    /\ state' = [state EXCEPT ![np[p]] = "UNUSED"]
    /\ np' = [np EXCEPT ![p] = 0]
    /\ Goto(p, "ret")
    /\ UNCHANGED <<cpuVars, pid, parent, killed, chan, nextpid, frame, named>>

\* The copy of the parent, made without the lock.
ForkCopy(c, p) ==
    /\ RunsAt(c, p, "embryo")
    /\ parent' = [parent EXCEPT ![np[p]] = p]
    /\ Goto(p, "copied")
    /\ UNCHANGED <<cpuVars, state, pid, killed, chan, nextpid, frame, np,
                   named>>

\* The child becomes RUNNABLE; its context starts it in forkret().
ForkRun(c, p) ==
    /\ RunsAt(c, p, "copied")
    /\ lock = NoCpu
    /\ state' = [state EXCEPT ![np[p]] = "RUNNABLE"]
    /\ frame' = [frame EXCEPT ![np[p]] = "forkret"]
    /\ kpc' = [kpc EXCEPT ![p] = "ret", ![np[p]] = "user"]
    /\ np' = [np EXCEPT ![p] = 0]
    /\ UNCHANGED <<cpuVars, pid, parent, killed, chan, nextpid, named>>

-----------------------------------------------------------------------------
\* exit(), wait() and kill().

Children(p) == {q \in Slot : parent[q] = p}
Zombies(p) == {q \in Children(p) : state[q] = "ZOMBIE"}

\* Mutant: exit() does not wake its parent.
ExitSilently(c, p) ==
    /\ RunsAt(c, p, "exit")
    /\ p # initproc
    /\ lock = NoCpu
    /\ lock' = c
    /\ state' = [state EXCEPT ![p] = "ZOMBIE"]
    /\ parent' = [q \in Slot |-> IF parent[q] = p THEN initproc
                                                  ELSE parent[q]]
    /\ frame' = [frame EXCEPT ![p] = "exit"]
    /\ UNCHANGED <<at, proc, scan, pid, killed, chan, nextpid, kpc, np, named>>

\* Mutant: exit() does not wake init for the zombies it hands over.
ExitZombiesSilently(c, p) ==
    /\ RunsAt(c, p, "exit")
    /\ p # initproc
    /\ lock = NoCpu
    /\ lock' = c
    /\ state' = [Wakeup1(state, {parent[p]}) EXCEPT ![p] = "ZOMBIE"]
    /\ parent' = [q \in Slot |-> IF parent[q] = p THEN initproc
                                                  ELSE parent[q]]
    /\ frame' = [frame EXCEPT ![p] = "exit"]
    /\ UNCHANGED <<at, proc, scan, pid, killed, chan, nextpid, kpc, np, named>>

\* exit() under ptable.lock, up to sched(); init must not exit.
Exit(c, p) ==
    /\ RunsAt(c, p, "exit")
    /\ IF p = initproc
       THEN /\ Goto(p, "panic")
            /\ UNCHANGED <<lock, state, parent, frame>>
       ELSE /\ lock = NoCpu
            /\ lock' = c
            /\ LET woken == {parent[p]} \cup
                               (IF Zombies(p) # {} THEN {initproc} ELSE {})
               IN  state' = [Wakeup1(state, woken) EXCEPT ![p] = "ZOMBIE"]
            /\ parent' = [q \in Slot |-> IF parent[q] = p THEN initproc
                                                          ELSE parent[q]]
            /\ frame' = [frame EXCEPT ![p] = "exit"]
            /\ UNCHANGED kpc
    /\ UNCHANGED <<at, proc, scan, pid, killed, chan, nextpid, np, named>>

\* The body of wait()'s loop, run by p on c with ptable.lock held: reap the
\* first zombie child, give up, or sleep.
WaitBody(c, p) ==
    \/ /\ \E q \in First(Zombies(p)) :
             /\ state' = [state EXCEPT ![q] = "UNUSED"]
             /\ pid' = [pid EXCEPT ![q] = 0]
             /\ parent' = [parent EXCEPT ![q] = 0]
             /\ killed' = [killed EXCEPT ![q] = FALSE]
             /\ frame' = [frame EXCEPT ![q] = "none", ![p] = "none"]
             /\ chan' = [chan EXCEPT ![p] = 0]
       /\ Goto(p, "ret")
       /\ lock' = NoCpu
    \/ /\ Zombies(p) = {}
       /\ Children(p) = {} \/ killed[p]
       /\ Goto(p, "ret")
       /\ lock' = NoCpu
       /\ frame' = [frame EXCEPT ![p] = "none"]
       /\ chan' = [chan EXCEPT ![p] = 0]
       /\ UNCHANGED <<state, pid, parent, killed>>
    \/ /\ Zombies(p) = {}
       /\ Children(p) # {}
       /\ ~killed[p]
       /\ lock' = c
       /\ chan' = [chan EXCEPT ![p] = p]
       /\ state' = [state EXCEPT ![p] = "SLEEPING"]
       /\ frame' = [frame EXCEPT ![p] = "wait"]
       /\ UNCHANGED <<pid, parent, killed, kpc>>

\* wait() from its call.
Wait(c, p) ==
    /\ RunsAt(c, p, "wait")
    /\ lock = NoCpu
    /\ WaitBody(c, p)
    /\ UNCHANGED <<at, proc, scan, nextpid, np, named>>

\* wait() after sleep(curproc, &ptable.lock) returned.
ResumeWait(c, p) ==
    /\ Resumes(c, p)
    /\ frame[p] = "wait"
    /\ WaitBody(c, p)
    /\ UNCHANGED <<at, proc, scan, nextpid, np, named>>

\* Mutant: kill() does not wake the process.
KillSleeping(c, p, id) ==
    /\ RunsAt(c, p, "kill")
    /\ lock = NoCpu
    /\ named' = named \cup {id}
    /\ LET hit == {q \in Slot : pid[q] = id}
       IN  IF hit = {}
           THEN UNCHANGED killed
           ELSE \E q \in First(hit) : killed' = [killed EXCEPT ![q] = TRUE]
    /\ Goto(p, "ret")
    /\ UNCHANGED <<cpuVars, state, pid, parent, chan, nextpid, frame, np>>

\* kill(): the first slot with that pid, whatever its state.
Kill(c, p, id) ==
    /\ RunsAt(c, p, "kill")
    /\ lock = NoCpu
    /\ named' = named \cup {id}
    /\ LET hit == {q \in Slot : pid[q] = id}
       IN  IF hit = {}
           THEN UNCHANGED <<killed, state>>
           ELSE \E q \in First(hit) :
                   /\ killed' = [killed EXCEPT ![q] = TRUE]
                   /\ state' = [state EXCEPT ![q] =
                                   IF @ = "SLEEPING" THEN "RUNNABLE" ELSE @]
    /\ Goto(p, "ret")
    /\ UNCHANGED <<cpuVars, pid, parent, chan, nextpid, frame, np>>

-----------------------------------------------------------------------------
Scheduler(c) ==
    \/ SchedulerAcquire(c)
    \/ SchedulerSwitch(c)
    \/ SchedulerRelease(c)

Switch(c, p) ==
    \/ Sched(c, p)
    \/ ResumeRelease(c, p)
    \/ ResumeWait(c, p)

Kernel(c, p) ==
    \/ TrapReturn(c, p)
    \/ Allocproc(c, p)
    \/ ForkFail(c, p)
    \/ ForkCopy(c, p)
    \/ ForkRun(c, p)
    \/ Exit(c, p)
    \/ Wait(c, p)
    \/ \E id \in KillArgs : Kill(c, p, id)

User(c, p) ==
    \/ \E call \in Syscalls : Syscall(c, p, call)
    \/ TrapExit(c, p)
    \/ TrapFault(c, p)

Next ==
    \E c \in Cpu :
        \/ Scheduler(c)
        \/ \E p \in Slot : \/ Switch(c, p)
                           \/ Yield(c, p)
                           \/ Kernel(c, p)
                           \/ User(c, p)

Spec == Init /\ [][Next]_vars

(***************************************************************************)
(* Fairness on one CPU.  Kernel code and the scheduler never wait there    *)
(* for a lock that stays taken, a time slice is longer than a step of the  *)
(* kernel (hence SF: a process that runs again and again gets on), the     *)
(* timer interrupts whatever runs with interrupts on, and init calls       *)
(* wait() again and again (init.c).  On several CPUs acquire() is an       *)
(* unfair spin, which guarantees nothing.                                  *)
(***************************************************************************)
Timer(c, p) == Yield(c, p) \/ (killed[p] /\ TrapExit(c, p))

Fairness ==
    \A c \in Cpu :
        /\ WF_vars(Scheduler(c))
        /\ \A p \in Slot : /\ WF_vars(Switch(c, p))
                           /\ SF_vars(Kernel(c, p))
                           /\ WF_vars(Timer(c, p))
        /\ SF_vars(Syscall(c, initproc, "wait"))

FairSpec == Spec /\ Fairness

-----------------------------------------------------------------------------
\* Properties.

\* The CPUs whose stack pointer is in p's kernel stack.
OnStack(p) == {c \in Cpu : at[c] = "proc" /\ proc[c] = p}

\* A kernel stack is used by one CPU at a time, and it is neither free nor
\* up for grabs while a CPU is on it: a process that is no longer RUNNING is
\* still on its stack only under ptable.lock, until sched() has switched.
StackHasOneCpu ==
    \A p \in Slot : \A c \in OnStack(p) :
        /\ OnStack(p) = {c}
        /\ state[p] \in {"RUNNING", "RUNNABLE", "SLEEPING", "ZOMBIE"}
        /\ state[p] # "RUNNING" => lock = c

\* The slot fork() is filling belongs to that fork alone, although it gives
\* the slot back, or sets its parent, without ptable.lock.
EmbryoHasOwner ==
    /\ \A q \in Slot : state[q] = "EMBRYO" =>
          \E p \in Slot : np[p] = q /\ kpc[p] \in {"embryo", "copied"}
    /\ \A p \in Slot : np[p] # 0 => state[np[p]] = "EMBRYO"
    /\ \A p, q \in Slot : np[p] = np[q] /\ np[p] # 0 => p = q

\* A process that has exited, or will, can be reaped: exit() leaves no child
\* behind whose parent is gone.
HasLiveParent ==
    \A p \in Slot \ {initproc} :
        state[p] \notin {"UNUSED", "EMBRYO"} =>
            /\ parent[p] # 0
            /\ state[parent[p]] \in {"SLEEPING", "RUNNABLE", "RUNNING"}

\* The table stays sound while slots are filled, given up and inherited: the
\* types, and the two properties above (allocproc, fork, exit and wait).
TableIsSound == TypeOK /\ EmbryoHasOwner /\ HasLiveParent

\* No wakeup is lost between exit(), kill() and wait(): who sleeps in wait()
\* has a child to wait for, none to reap and has not been killed.
SleeperWaits ==
    \A p \in Slot : state[p] = "SLEEPING" =>
        Children(p) # {} /\ Zombies(p) = {} /\ ~killed[p]

\* A killed process leaves the system ("won't exit until it returns to user
\* space"), also when it sleeps or loops in user mode.
KilledExits ==
    \A p \in Slot :
        killed[p] /\ state[p] \in {"SLEEPING", "RUNNABLE", "RUNNING"}
            ~> state[p] \in {"ZOMBIE", "UNUSED"}

\* init reaps every zombie it inherits or whose parent it is.
OrphanReaped ==
    \A p \in Slot :
        state[p] = "ZOMBIE" /\ parent[p] = initproc ~> state[p] # "ZOMBIE"

\* "Kill the process with the given pid" (kill): a process is only marked
\* killed by a kill() with its own pid, or because it faulted.
KilledWasNamed ==
    \A p \in Slot : killed[p] /\ state[p] \in {"SLEEPING", "RUNNABLE", "RUNNING"}
                        => pid[p] \in named
=============================================================================
