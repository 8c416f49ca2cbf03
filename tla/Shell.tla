------------------------------- MODULE Shell -------------------------------
(***************************************************************************)
(* The shell: init.c, which keeps a shell running, main() and runcmd() of  *)
(* sh.c, and echo.c and cat.c as the programs that it runs.                *)
(*                                                                         *)
(* A step of a process is a system call, or a few on its own descriptors.  *)
(* The kernel is taken at its word: processes, descriptors, open files     *)
(* with an offset that a child shares with its parent, files, of which     *)
(* only the length matters, and pipes.  A unit of data is what echo writes *)
(* for an argument and what cat copies at a time.                          *)
(***************************************************************************)
EXTENDS Integers, Sequences, FiniteSetsExt, ShParse

CONSTANTS
    NPROC, NOFILE, NFILE, PIPESIZE, \* sizes of the kernel's tables
    Name,                   \* names of files
    Line,                   \* lines that are typed, as tokens
    MaxLines                \* bound: lines typed

ASSUME ShellAssumption ==
    /\ {NPROC, NFILE, PIPESIZE, MAXARGS} \subseteq Nat \ {0}
    /\ NOFILE \in Nat /\ NOFILE > 4 /\ MaxLines \in Nat
    /\ Name \subseteq Word

Pid == 1 .. NPROC
Fd == 0 .. NOFILE - 1
INIT == 1
CONSOLE == 1

VARIABLES
    proc,   \* processes
    ftable, \* open files
    pipe,   \* units in each pipe
    size,   \* length of the files, -1 for one that does not exist
    con,    \* units that programs wrote to the console since the line was typed
    \* History: the command of the line, the files before it, and whether
    \* it alone was executed and every fork and pipe succeeded.
    command, before, clean,
    nlines

vars == <<proc, ftable, pipe, size, con, command, before, clean, nlines>>

NoFds == [d \in Fd |-> 0]
Unused == [state |-> "unused", parent |-> 0, at |-> "none", cmd |-> Syntax, n |-> 0,
           fd |-> NoFds, p |-> <<0, 0>>, back |-> FALSE]
NoFile == [kind |-> "none", name |-> "", off |-> 0, pipe |-> 0]
noFiles == UNCHANGED <<ftable, pipe, size, con>>
noHistory == UNCHANGED <<command, before, nlines>>
\* The kernel panics, and nothing runs, when init exits.
panicked == proc[INIT].state # "runnable"
at(p, label) == ~panicked /\ proc[p].state = "runnable" /\ proc[p].at = label
-----------------------------------------------------------------------------
\* The kernel.
Refers(pr, f) == \E p \in Pid, d \in Fd : pr[p].fd[d] = f
lowest(fd) == Min({d \in Fd : fd[d] = 0})
freeFiles(pr) == {f \in 1 .. NFILE : ~Refers(pr, f)}
\* The open files that are an end of pipe k.
ends(k, kind) == {f \in 1 .. NFILE : ftable[f].kind = kind /\ ftable[f].pipe = k /\ Refers(proc, f)}
freePipes == {k \in 1 .. NFILE : ends(k, "r") = {} /\ ends(k, "w") = {}}
freeProcs == {p \in Pid : proc[p].state = "unused"}

close(fd, d) == [fd EXCEPT ![d] = 0]
dup(fd, d) == [fd EXCEPT ![lowest(fd)] = fd[d]]

exit(p) ==
    proc' = [q \in Pid |->
        IF q = p THEN [Unused EXCEPT !.state = "zombie", !.parent = proc[p].parent]
        ELSE IF proc[q].parent = p THEN [proc[q] EXCEPT !.parent = INIT] ELSE proc[q]]

\* fork1(): the parent goes on with the record parent, a child starts with
\* child; without a free slot the parent panics, that is, it exits.
fork1(p, parent, child) ==
    IF freeProcs = {} THEN exit(p)
    ELSE proc' = [proc EXCEPT ![p] = parent, ![Min(freeProcs)] = [child EXCEPT !.parent = p]]

\* History: the line is not executed as a whole if a fork fails.
forked == clean' = (clean /\ freeProcs # {})

\* wait() has found nothing to wait for, or the child that it frees.
children(p) == {q \in Pid : proc[q].state # "unused" /\ proc[q].parent = p}
zombies(p) == {q \in children(p) : proc[q].state = "zombie"}
wait(p, label) ==
    /\ children(p) = {} \/ zombies(p) # {}
    /\ proc' = [q \in Pid |-> IF q = p THEN [proc[p] EXCEPT !.at = label]
                              ELSE IF zombies(p) # {} /\ q = Min(zombies(p)) THEN Unused
                              ELSE proc[q]]
-----------------------------------------------------------------------------
\* init: the console is open as 0, 1 and 2.
Init ==
    /\ proc = [p \in Pid |-> IF p # INIT THEN Unused
                ELSE [Unused EXCEPT !.state = "runnable", !.at = "init",
                                    !.fd = [d \in Fd |-> IF d < 3 THEN CONSOLE ELSE 0]]]
    /\ ftable = [f \in 1 .. NFILE |-> IF f = CONSOLE THEN [NoFile EXCEPT !.kind = "console"]
                                     ELSE NoFile]
    /\ pipe = [f \in 1 .. NFILE |-> 0]
    /\ size = [n \in Name |-> -1]
    /\ con = 0
    /\ command = Syntax /\ before = size /\ clean = FALSE
    /\ nlines = 0

\* init starts a shell, which finds its three descriptors open, or exits if
\* it cannot,
InitFork ==
    LET init == [proc[INIT] EXCEPT !.at = "initwait", !.n = Min(freeProcs)] IN
    /\ at(INIT, "init")
    /\ fork1(INIT, init, [proc[INIT] EXCEPT !.at = "prompt"]) /\ forked
    /\ noFiles /\ noHistory

\* and waits for it; a zombie that is not the shell is no reason to go on.
InitWait ==
    /\ at(INIT, "initwait") /\ zombies(INIT) # {}
    /\ wait(INIT, IF Min(zombies(INIT)) = proc[INIT].n THEN "init" ELSE "initwait")
    /\ UNCHANGED clean /\ noFiles /\ noHistory

\* main() of sh: a line is read, a child is to run what parsecmd() makes of it,
ShLine(p, line) ==
    /\ at(p, "prompt") /\ nlines < MaxLines
    /\ fork1(p, [proc[p] EXCEPT !.at = "shwait"],
             [proc[p] EXCEPT !.at = "run", !.cmd = parsecmd(line)])
    /\ nlines' = nlines + 1
    /\ command' = parsecmd(line) /\ before' = size /\ con' = 0
    /\ clean' = (freeProcs # {} /\ \A q \in Pid \ {INIT, p} : proc[q].state # "runnable")
    /\ UNCHANGED <<ftable, pipe, size>>

\* and the shell waits for it.
ShWait(p) ==
    /\ at(p, "shwait") /\ wait(p, "prompt")
    /\ UNCHANGED clean /\ noFiles /\ noHistory

\* The end of the input.
ShEof(p) ==
    /\ at(p, "prompt") /\ nlines < MaxLines
    /\ exit(p) /\ nlines' = nlines + 1
    /\ UNCHANGED <<clean, command, before>> /\ noFiles
-----------------------------------------------------------------------------
\* runcmd(), a case of its switch each.
runs(p, type) == at(p, "run") /\ proc[p].cmd.type = type
cmd(p) == proc[p].cmd
become(p, label) == [proc[p] EXCEPT !.at = label]
run(p, c) == [proc[p] EXCEPT !.at = "run", !.cmd = c]

\* The panic() of the parser.
RunSyntax(p) == runs(p, "syntax") /\ exit(p) /\ UNCHANGED clean /\ noFiles /\ noHistory

RunExec(p) ==
    LET argv == cmd(p).argv IN
    /\ runs(p, "EXEC")
    /\ IF argv # <<>> /\ argv[1] \in {"echo", "cat"}
       THEN proc' = [proc EXCEPT ![p] = [@ EXCEPT !.at = argv[1], !.n = 1]]
       ELSE exit(p)
    /\ UNCHANGED clean /\ noFiles /\ noHistory

\* open() creates the file of an output, also if no open file is left for it.
RunRedir(p) ==
    LET c == cmd(p)
        fd == close(proc[p].fd, c.fd)
        free == freeFiles([proc EXCEPT ![p].fd = fd])
        opens == free # {} /\ (c.fd = 0 => size[c.file] >= 0)
    IN  /\ runs(p, "REDIR")
        /\ IF ~opens THEN exit(p) /\ UNCHANGED ftable
           ELSE /\ proc' = [proc EXCEPT ![p] =
                              [run(p, c.cmd) EXCEPT !.fd = [fd EXCEPT ![lowest(fd)] = Min(free)]]]
                /\ ftable' = [ftable EXCEPT ![Min(free)] =
                                 [NoFile EXCEPT !.kind = "file", !.name = c.file]]
        /\ size' = [size EXCEPT ![c.file] = IF c.fd = 1 /\ @ < 0 THEN 0 ELSE @]
        /\ UNCHANGED <<clean, pipe, con>> /\ noHistory

RunList(p) ==
    /\ runs(p, "LIST")
    /\ fork1(p, become(p, "listwait"), run(p, cmd(p).left)) /\ forked
    /\ noFiles /\ noHistory

ListWait(p) ==
    /\ at(p, "listwait") /\ wait(p, "right")
    /\ UNCHANGED clean /\ noFiles /\ noHistory

ListRight(p) ==
    /\ at(p, "right") /\ proc' = [proc EXCEPT ![p] = run(p, cmd(p).right)]
    /\ UNCHANGED clean /\ noFiles /\ noHistory

RunBack(p) ==
    /\ runs(p, "BACK")
    /\ fork1(p, become(p, "exit"), [run(p, cmd(p).cmd) EXCEPT !.back = TRUE])
    /\ forked
    /\ noFiles /\ noHistory

\* pipe(), which needs two open files,
RunPipe(p) ==
    LET free == freeFiles(proc)
        r == Min(free)
        w == Min(free \ {r})
        k == Min(freePipes)
        d == lowest(proc[p].fd)
        fd == [proc[p].fd EXCEPT ![d] = r]
    IN  /\ runs(p, "PIPE")
        /\ IF Cardinality(free) < 2 THEN exit(p) /\ UNCHANGED <<ftable, pipe>>
           ELSE /\ proc' = [proc EXCEPT ![p] = [become(p, "left") EXCEPT
                              !.fd = [fd EXCEPT ![lowest(fd)] = w], !.p = <<d, lowest(fd)>>]]
                /\ ftable' = [ftable EXCEPT
                                 ![r] = [NoFile EXCEPT !.kind = "r", !.pipe = k],
                                 ![w] = [NoFile EXCEPT !.kind = "w", !.pipe = k]]
                /\ pipe' = [pipe EXCEPT ![k] = 0]
        /\ clean' = (clean /\ Cardinality(free) > 1)
        /\ UNCHANGED <<size, con>> /\ noHistory

\* Mutant: the child keeps the end of the pipe that it does not use.
sideKept(fd, p, d) == close(dup(close(fd, d), p[IF d = 0 THEN 1 ELSE 2]), p[IF d = 0 THEN 1 ELSE 2])

\* the child of one side: close(d), dup() of its end, close() of both,
side(fd, p, d) ==
    close(close(dup(close(fd, d), p[IF d = 0 THEN 1 ELSE 2]), p[1]), p[2])

\* the two children,
PipeLeft(p) ==
    /\ at(p, "left")
    /\ fork1(p, become(p, "right2"),
             [run(p, cmd(p).left) EXCEPT !.fd = side(@, proc[p].p, 1)]) /\ forked
    /\ noFiles /\ noHistory

PipeRight(p) ==
    /\ at(p, "right2")
    /\ fork1(p, become(p, "close"),
             [run(p, cmd(p).right) EXCEPT !.fd = side(@, proc[p].p, 0)]) /\ forked
    /\ noFiles /\ noHistory

\* Mutant: the parent keeps the write end.
PipeCloseOne(p) ==
    /\ at(p, "close")
    /\ proc' = [proc EXCEPT ![p] = [become(p, "wait1") EXCEPT !.fd = close(@, proc[p].p[1])]]
    /\ UNCHANGED clean /\ noFiles /\ noHistory

PipeClose(p) ==
    /\ at(p, "close")
    /\ proc' = [proc EXCEPT ![p] = [become(p, "wait1") EXCEPT
                   !.fd = close(close(@, proc[p].p[1]), proc[p].p[2])]]
    /\ UNCHANGED clean /\ noFiles /\ noHistory

\* Mutant: the parent waits for one child only.
PipeWaitOnce(p) ==
    /\ at(p, "wait1") /\ wait(p, "exit")
    /\ UNCHANGED clean /\ noFiles /\ noHistory

\* and the two wait()s of the parent.
PipeWait(p) ==
    /\ \/ at(p, "wait1") /\ wait(p, "wait2")
       \/ at(p, "wait2") /\ wait(p, "exit")
    /\ UNCHANGED clean /\ noFiles /\ noHistory

\* The exit() at the end of runcmd().
RunExit(p) == at(p, "exit") /\ exit(p) /\ UNCHANGED clean /\ noFiles /\ noHistory
-----------------------------------------------------------------------------
\* write() of a unit to descriptor 1; the process goes on as good or bad say.
\* pipewrite() fails for want of readers only when the pipe is full.
write(p, good, bad) ==
    LET f == proc[p].fd[1]
        t == ftable[f]
        full == t.kind = "w" /\ pipe[t.pipe] = PIPESIZE
        broken == full /\ ends(t.pipe, "r") = {}
    IN  /\ full => broken
        /\ IF broken THEN bad ELSE good
        /\ con' = IF t.kind = "console" THEN con + 1 ELSE con
        /\ pipe' = IF t.kind = "w" /\ ~broken THEN [pipe EXCEPT ![t.pipe] = @ + 1] ELSE pipe
        /\ IF t.kind # "file" THEN UNCHANGED <<ftable, size>>
           ELSE /\ ftable' = [ftable EXCEPT ![f].off = @ + 1]
                /\ size' = [size EXCEPT ![t.name] = IF @ > t.off THEN @ ELSE t.off + 1]

\* main() of echo: argument n is next.
Echo(p) ==
    LET next == proc' = [proc EXCEPT ![p].n = @ + 1] IN
    /\ at(p, "echo")
    /\ IF proc[p].n = Len(cmd(p).argv) THEN exit(p) /\ noFiles ELSE write(p, next, next)
    /\ UNCHANGED clean /\ noHistory

\* main() of cat: the input is copied if there are no arguments, else the
\* file of each is opened, copied and closed.
Cat(p) ==
    LET argc == Len(cmd(p).argv)
        name == cmd(p).argv[proc[p].n + 1]
        free == freeFiles(proc)
        d == lowest(proc[p].fd)
        copy(fd, from) == proc' = [proc EXCEPT ![p] = [@ EXCEPT !.at = "read", !.n = @ + 1,
                                                         !.fd = fd, !.p = <<from, 0>>]]
    IN  /\ at(p, "cat")
        /\ IF argc = 1 /\ proc[p].n = 1 THEN copy(proc[p].fd, 0) /\ UNCHANGED ftable
           ELSE IF proc[p].n >= argc THEN exit(p) /\ UNCHANGED ftable
           ELSE IF free = {} \/ ~(name \in Name /\ size[name] >= 0)
           THEN proc' = [proc EXCEPT ![p].at = "complain"] /\ UNCHANGED ftable
           ELSE /\ copy([proc[p].fd EXCEPT ![d] = Min(free)], d)
                /\ ftable' = [ftable EXCEPT ![Min(free)] =
                                 [NoFile EXCEPT !.kind = "file", !.name = name]]
        /\ UNCHANGED <<clean, pipe, size, con>> /\ noHistory

\* A file that cannot be opened is reported on the output.
CatComplain(p) ==
    /\ at(p, "complain")
    /\ write(p, exit(p), exit(p))
    /\ UNCHANGED clean /\ noHistory

\* cat(): a unit is read; at the console the end of the input is typed.
CatRead(p) ==
    LET d == proc[p].p[1]
        f == proc[p].fd[d]
        t == ftable[f]
        units == IF t.kind = "r" THEN pipe[t.pipe]
                 ELSE IF t.kind = "file" THEN size[t.name] - t.off ELSE 0
    IN  /\ at(p, "read")
        /\ t.kind = "r" => units > 0 \/ ends(t.pipe, "w") = {}
        /\ IF units <= 0
           THEN /\ proc' = [proc EXCEPT ![p] = [become(p, "cat") EXCEPT
                               !.fd = IF d = 0 THEN @ ELSE close(@, d)]]
                /\ UNCHANGED <<pipe, ftable>>
           ELSE /\ proc' = [proc EXCEPT ![p].at = "write"]
                /\ pipe' = IF t.kind = "r" THEN [pipe EXCEPT ![t.pipe] = @ - 1] ELSE pipe
                /\ ftable' = IF t.kind = "file" THEN [ftable EXCEPT ![f].off = @ + 1] ELSE ftable
        /\ UNCHANGED <<clean, size, con>> /\ noHistory

\* Mutant: cat() copies once.
CatWriteOnce(p) ==
    /\ at(p, "write")
    /\ write(p, proc' = [proc EXCEPT ![p].at = "cat"], exit(p))
    /\ UNCHANGED clean /\ noHistory

CatWrite(p) ==
    /\ at(p, "write")
    /\ write(p, proc' = [proc EXCEPT ![p].at = "read"], exit(p))
    /\ UNCHANGED clean /\ noHistory

Step(p) ==
    \/ ShWait(p)
    \/ RunSyntax(p) \/ RunExec(p) \/ RunRedir(p) \/ RunList(p) \/ ListWait(p) \/ ListRight(p)
    \/ RunBack(p) \/ RunPipe(p) \/ PipeLeft(p) \/ PipeRight(p) \/ PipeClose(p) \/ PipeWait(p)
    \/ RunExit(p)
    \/ Echo(p) \/ Cat(p) \/ CatComplain(p) \/ CatRead(p) \/ CatWrite(p)

Next ==
    \/ InitFork \/ InitWait
    \/ \E p \in Pid : Step(p) \/ ShEof(p) \/ \E line \in Line : ShLine(p, line)

\* The scheduler runs every process that can run again and again.
Fairness == WF_vars(InitFork) /\ WF_vars(InitWait) /\ \A p \in Pid : WF_vars(Step(p))
Spec == Init /\ [][Next]_vars /\ Fairness
-----------------------------------------------------------------------------
\* Descriptors and open files exist, and the arguments of every command and
\* the 0 behind them fit in argv.
RECURSIVE Fits(_)
Fits(c) ==
    CASE c.type = "EXEC" -> Len(c.argv) < MAXARGS
      [] c.type \in {"REDIR", "BACK"} -> Fits(c.cmd)
      [] c.type \in {"PIPE", "LIST"} -> Fits(c.left) /\ Fits(c.right)
      [] OTHER -> TRUE
TypeOK ==
    /\ \A p \in Pid : /\ proc[p].state \in {"unused", "runnable", "zombie"}
                      /\ proc[p].fd \in [Fd -> 0 .. NFILE]
                      /\ Fits(proc[p].cmd)
    /\ size \in [Name -> Nat \cup {-1}] /\ pipe \in [1 .. NFILE -> 0 .. PIPESIZE]
    /\ con \in Nat

\* A program starts with the descriptors 0, 1 and 2 and no other, so that no
\* end of a pipe is held by a process that does not use it: 0 can be read, 1
\* can be written and 2 is the console, whatever pipes, redirections, lists
\* and parentheses it is in (runcmd); its arguments fit in argv.
ProgramHasThreeFiles ==
    /\ TypeOK
    /\ \A p \in Pid : (at(p, "echo") \/ at(p, "cat")) /\ proc[p].n = 1 =>
          /\ {d \in Fd : proc[p].fd[d] # 0} = 0 .. 2
          /\ ftable[proc[p].fd[0]].kind # "w" /\ ftable[proc[p].fd[1]].kind # "r"
          /\ proc[p].fd[2] = CONSOLE

\* When the shell asks for a line, the processes of the lines before it have
\* ended, except for those that a fork that failed left behind and those in
\* the background (wait() in runcmd and main).
NoStrays ==
    \A p \in Pid : at(p, "prompt") /\ clean =>
        \A q \in Pid \ {INIT, p} : proc[q].state # "runnable" \/ proc[q].back

\* What cat copies of the files named, up to the first that does not exist,
\* with the message about that.
RECURSIVE Copied(_, _)
Copied(names, file) ==
    IF names = <<>> THEN 0
    ELSE IF Head(names) \notin Name THEN 1
    ELSE IF file[Head(names)] < 0 THEN 1
    ELSE file[Head(names)] + Copied(Tail(names), file)

RECURSIVE HasBack(_)
HasBack(c) ==
    CASE c.type = "BACK" -> TRUE
      [] c.type = "REDIR" -> HasBack(c.cmd)
      [] c.type \in {"PIPE", "LIST"} -> HasBack(c.left) \/ HasBack(c.right)
      [] OTHER -> FALSE

\* What a command does to the world w: the units it leaves to be read on its
\* input, the units it adds to its output, and the length of the files.
RECURSIVE Meaning(_, _)
Meaning(c, w) ==
    CASE c.type = "EXEC" ->
           IF c.argv = <<>> THEN w
           ELSE IF c.argv[1] = "echo" THEN [w EXCEPT !.out = @ + Len(c.argv) - 1]
           ELSE IF c.argv = <<"cat">> THEN [w EXCEPT !.out = @ + w.in, !.in = 0]
           ELSE IF c.argv[1] = "cat" THEN [w EXCEPT !.out = @ + Copied(Tail(c.argv), w.file)]
           ELSE w
      [] c.type = "REDIR" /\ c.fd = 0 ->
           IF w.file[c.file] < 0 THEN w
           ELSE [Meaning(c.cmd, [w EXCEPT !.in = w.file[c.file]]) EXCEPT !.in = w.in]
      [] c.type = "REDIR" /\ c.fd = 1 ->
           LET r == Meaning(c.cmd, [w EXCEPT !.out = 0, !.file[c.file] = IF @ < 0 THEN 0 ELSE @])
           IN  [r EXCEPT !.out = w.out, !.file[c.file] = IF @ > r.out THEN @ ELSE r.out]
      [] c.type = "LIST" -> Meaning(c.right, Meaning(c.left, w))
      [] c.type = "PIPE" ->
           LET l == Meaning(c.left, [w EXCEPT !.out = 0])
               r == Meaning(c.right, [l EXCEPT !.in = l.out, !.out = w.out])
           IN  [r EXCEPT !.in = l.in]
      [] OTHER -> w

\* When a line without "&" is done and no fork or pipe failed, the console
\* and the files hold what the line means: the processes of a pipeline ran
\* until their input ended, those of a list one after the other, and ">" does
\* not truncate, however the processes were scheduled.
LineDoesWhatItSays ==
    (\E p \in Pid : at(p, "prompt")) /\ nlines > 0 /\ clean /\ ~HasBack(command) =>
        LET w == Meaning(command, [in |-> 0, out |-> 0, file |-> before])
        IN  con = w.out /\ size = w.file

\* Whatever is typed, also if forks fail, a shell asks for a line again: no
\* process of a line waits for ever for a pipe or for another process, and
\* init starts a new shell when one exits, unless processes in the background
\* take the slot that the shell left before init does: then init gives up and
\* the kernel panics (fork in init.c, exit in proc.c).
PromptReturns == []<>(panicked \/ \E p \in Pid : at(p, "prompt"))
=============================================================================
