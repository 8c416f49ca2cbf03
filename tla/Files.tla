------------------------------- MODULE Files -------------------------------
(***************************************************************************)
(* The inode cache and directories of fs.c, the file table of file.c and   *)
(* the system calls of sysfile.c that use them.                            *)
(*                                                                         *)
(* A step is what a process does between taking and releasing the sleep    *)
(* lock of an inode; icache.lock, ftable.lock and the lock of a disk       *)
(* buffer are never held across a step.  todo[p] is the rest of the system *)
(* call of process p, its current function first.                          *)
(*                                                                         *)
(* iget() keeps at most one cache entry with ref > 0 per inode number, so  *)
(* the cache is indexed by inode number.  A directory is a function from   *)
(* names to inode numbers (0: no entry); where in the directory an entry   *)
(* lies, and the contents of files, are left out.  Transactions (begin_op, *)
(* end_op) are in module Log.                                              *)
(***************************************************************************)
EXTENDS Integers, Sequences, FiniteSets, FiniteSetsExt, SequencesExt

CONSTANTS
    Proc, NoProc, \* processes; the holder of a free sleep lock
    NINODES,      \* number of inodes on the disk
    NINODE,       \* number of cache entries
    NFILE,        \* size of ftable
    NOFILE,       \* descriptors of a process
    Name,         \* names other than "." and ".."
    InRoot,       \* names of the files that are in "/" at the start
    Nested,       \* names of the directories at the start, each in the last
    Calls,        \* the calls with a path that processes make
    MaxCalls      \* bound: number of calls made

Inum == 1 .. NINODES
ROOTINO == 1
File == 1 .. NFILE
Fd == 0 .. NOFILE - 1
Entry == Name \cup {".", ".."}
Type == {"none", "dir", "file", "dev"}

ASSUME FilesAssumption ==
    /\ NoProc \notin Proc
    /\ {NINODES, NINODE, NFILE, NOFILE} \subseteq Nat \ {0}
    /\ InRoot \subseteq Name
    /\ Nested \in Seq(Name) /\ (Nested # <<>> => Head(Nested) \notin InRoot)
    /\ Cardinality(InRoot) + Len(Nested) < NINODES
    /\ MaxCalls \in Nat

VARIABLES
    dinode,   \* inodes on disk, with the entries of directories
    icache,   \* in-memory inodes
    ftable,   \* open files (ip = 0: FD_NONE)
    ofile,    \* descriptors of each process (0: closed)
    cwd,      \* current directory of each process (0: no process)
    todo,     \* what is left of the call of each process
    ret,      \* the inode that namex() or create() returned to it
    panicked, \* panic() was called
    ncalls,   \* number of calls so far
    strayed,  \* history: removed directories that were given an entry, and
              \* the inodes of these entries
    dangled   \* history: the ".." of a removed directory was looked up after
              \* its parent had been removed too

vars == <<dinode, icache, ftable, ofile, cwd, todo, ret, panicked, ncalls, strayed,
          dangled>>

TypeOK ==
    /\ dinode \in [Inum -> [type : Type, nlink : Nat,
                            ent : [Entry -> Inum \cup {0}]]]
    /\ icache \in [Inum -> [ref : Nat, valid : BOOLEAN, type : Type,
                            nlink : Nat, lock : Proc \cup {NoProc}]]
    /\ Cardinality({i \in Inum : icache[i].ref > 0}) <= NINODE
    /\ ftable \in [File -> [ref : Nat, ip : Inum \cup {0}]]
    /\ ofile \in [Proc -> [Fd -> File \cup {0}]]
    /\ cwd \in [Proc -> Inum \cup {0}]
    /\ ret \in [Proc -> Inum \cup {0}]
    /\ DOMAIN todo = Proc
    /\ panicked \in BOOLEAN
    /\ ncalls \in 0 .. MaxCalls
    /\ strayed \subseteq Inum
    /\ dangled \in BOOLEAN

NoEntries == [e \in Entry |-> 0]
Free == [type |-> "none", nlink |-> 0, ent |-> NoEntries]

\* The disk as mkfs leaves it, with one file for each name of InRoot, and with
\* the directories that mkdir has made since; every process has "/" as its
\* directory and no open file.
Init ==
    LET first == 1 + Cardinality(InRoot)
        at == CHOOSE g \in [InRoot -> 2 .. first] :
                  \A m, n \in InRoot : g[m] = g[n] => m = n
        dirs == {ROOTINO} \cup (first + 1 .. first + Len(Nested))
        level(i) == IF i = ROOTINO THEN 0 ELSE i - first
        dir(k) == IF k = 0 THEN ROOTINO ELSE first + k
        next(i) == level(i) + 1 \* the place in Nested of the directory in i
        entry(i, e) ==
            CASE e = "." -> i
              [] e = ".." -> dir(Max({level(i) - 1, 0}))
              [] i = ROOTINO /\ e \in InRoot -> at[e]
              [] next(i) <= Len(Nested) /\ Nested[next(i)] = e -> dir(next(i))
              [] OTHER -> 0
    IN  /\ dinode = [i \in Inum |->
              IF i \in dirs
              THEN [type |-> "dir",
                    nlink |-> IF next(i) <= Len(Nested) THEN 2 ELSE 1,
                    ent |-> [e \in Entry |-> entry(i, e)]]
              ELSE IF i \in 2 .. first THEN [Free EXCEPT !.type = "file", !.nlink = 1]
              ELSE Free]
        /\ icache = [i \in Inum |->
              [ref |-> IF i = ROOTINO THEN Cardinality(Proc) ELSE 0,
               valid |-> FALSE, type |-> "none", nlink |-> 0, lock |-> NoProc]]
        /\ ftable = [f \in File |-> [ref |-> 0, ip |-> 0]]
        /\ ofile = [p \in Proc |-> [fd \in Fd |-> 0]]
        /\ cwd = [p \in Proc |-> ROOTINO]
        /\ todo = [p \in Proc |-> <<>>]
        /\ ret = [p \in Proc |-> 0]
        /\ panicked = FALSE
        /\ ncalls = 0
        /\ strayed = {}
        /\ dangled = FALSE

(***************************************************************************)
(* The inode layer, as functions of the cache c and the disk d.            *)
(***************************************************************************)

\* Recycling an entry clears valid.
Iget(c, i) ==
    [c EXCEPT ![i] = IF @.ref > 0 THEN [@ EXCEPT !.ref = @ + 1]
                     ELSE [@ EXCEPT !.ref = 1, !.valid = FALSE]]

IgetPanics(c, i) ==
    c[i].ref = 0 /\ Cardinality({j \in Inum : c[j].ref > 0}) >= NINODE

Idup(c, i) == [c EXCEPT ![i].ref = @ + 1]

Ilock(c, i, p) ==
    [c EXCEPT ![i] = IF @.valid THEN [@ EXCEPT !.lock = p]
                     ELSE [@ EXCEPT !.lock = p, !.valid = TRUE,
                                    !.type = dinode[i].type,
                                    !.nlink = dinode[i].nlink]]

\* The panics "ilock" and "ilock: no type".
IlockPanics(c, i) ==
    c[i].ref < 1 \/ (~c[i].valid /\ dinode[i].type = "none")

\* The same, and "dirlookup not DIR".
DirPanics(c, i) ==
    IlockPanics(c, i) \/ (IF c[i].valid THEN c[i].type ELSE dinode[i].type) # "dir"

Iunlock(c, i) == [c EXCEPT ![i].lock = NoProc]

Iupdate(d, c, i) == [d EXCEPT ![i].type = c[i].type, ![i].nlink = c[i].nlink]

AddLinks(c, i, k) == [c EXCEPT ![i].nlink = @ + k]

\* dirlink() of a name that is not in the directory, and unlink's writei().
SetEntry(d, i, n, to) == [d EXCEPT ![i].ent[n] = to]

isdirempty(i) == \A n \in Name : dinode[i].ent[n] = 0

(***************************************************************************)
(* Calls in progress.                                                      *)
(***************************************************************************)
iunlock(i) == [f |-> "iunlock", ip |-> i]
iput(i) == [f |-> "iput", ip |-> i]
namei(path) == [f |-> "namex", path |-> path, ip |-> 0, parent |-> FALSE]
nameiparent(path) == [f |-> "namex", path |-> path, ip |-> 0, parent |-> TRUE]

Idle(p) == todo[p] = <<>>
At(p, f) == ~Idle(p) /\ todo[p][1].f = f
Top(p) == todo[p][1]

\* The current function of p returns after what is in s.
Then(p, s) == todo' = [todo EXCEPT ![p] = s \o Tail(@)]
Return(p, i) == ret' = [ret EXCEPT ![p] = i]
Require(b) == panicked' = ~b

\* The inode whose lock the next step of p takes (0: none).
Wanted(p) ==
    IF Idle(p) THEN 0
    ELSE CASE Top(p).f \in {"iput", "linkundo", "createold", "createnew",
                            "unlinkentry"} -> Top(p).ip
           [] Top(p).f = "namex" /\ Top(p).path.elems # <<>> -> Top(p).ip
           [] Top(p).f \in {"open", "create", "unlink", "link", "linkentry",
                            "chdir"} -> ret[p]
           [] OTHER -> 0

Lockable(p) == Wanted(p) # 0 /\ icache[Wanted(p)].lock = NoProc

\* An entry for inode i is written into dp.
Strayed(dp, i) == IF dinode[dp].nlink = 0 THEN strayed \cup {dp, i} ELSE strayed

\* n is looked up in directory i.
Dangled(i, n) ==
    \/ dangled
    \/ n = ".." /\ dinode[i].nlink = 0 /\ dinode[dinode[i].ent[n]].nlink = 0

noFiles == UNCHANGED <<ftable, ofile, cwd, strayed, dangled>>

Iunlocked(p) ==
    /\ At(p, "iunlock")
    /\ icache' = Iunlock(icache, Top(p).ip)
    /\ Require(icache[Top(p).ip].lock = p /\ icache[Top(p).ip].ref >= 1)
    /\ Then(p, <<>>)
    /\ UNCHANGED <<dinode, ret, ncalls>> /\ noFiles

(***************************************************************************)
(* iput(): the test of nlink and ref, the release of the inode on disk,    *)
(* and the decrement of ref are separate steps.                            *)
(***************************************************************************)


IputTest(p) ==
    LET i == Top(p).ip IN
    /\ At(p, "iput") /\ Lockable(p)
    /\ IF icache[i].valid /\ icache[i].nlink = 0 /\ icache[i].ref = 1
       THEN /\ icache' = [icache EXCEPT ![i].lock = p]
            /\ Then(p, <<[f |-> "ifree", ip |-> i]>>)
       ELSE /\ Then(p, <<[f |-> "idrop", ip |-> i]>>)
            /\ UNCHANGED icache
    /\ UNCHANGED <<dinode, ret, panicked, ncalls>> /\ noFiles

\* itrunc(ip); ip->type = 0; iupdate(ip)
IputFree(p) ==
    LET i == Top(p).ip IN
    /\ At(p, "ifree")
    /\ dinode' = [dinode EXCEPT ![i] = Free]
    /\ icache' = [icache EXCEPT ![i].type = "none"]
    /\ Then(p, <<[f |-> "ifreed", ip |-> i]>>)
    /\ strayed' = strayed \ {i}
    /\ UNCHANGED <<ret, panicked, ncalls, ftable, ofile, cwd, dangled>>

\* Mutant: the freed inode stays valid in the cache.
IputKeepsValid(p) ==
    /\ At(p, "ifreed")
    /\ icache' = [icache EXCEPT ![Top(p).ip].lock = NoProc]
    /\ Then(p, <<[f |-> "idrop", ip |-> Top(p).ip]>>)
    /\ UNCHANGED <<dinode, ret, panicked, ncalls>> /\ noFiles

IputInvalidate(p) ==
    /\ At(p, "ifreed")
    /\ icache' = [icache EXCEPT ![Top(p).ip].valid = FALSE,
                                ![Top(p).ip].lock = NoProc]
    /\ Then(p, <<[f |-> "idrop", ip |-> Top(p).ip]>>)
    /\ UNCHANGED <<dinode, ret, panicked, ncalls>> /\ noFiles

IputDrop(p) ==
    /\ At(p, "idrop")
    /\ icache' = [icache EXCEPT ![Top(p).ip].ref = @ - 1]
    /\ Then(p, <<>>)
    /\ UNCHANGED <<dinode, ret, panicked, ncalls>> /\ noFiles

(***************************************************************************)
(* namex(): one step per path element, an iput() of the directory after    *)
(* each.                                                                   *)
(***************************************************************************)
NamexBegin(p) ==
    LET start == IF Top(p).path.root THEN ROOTINO ELSE cwd[p] IN
    /\ At(p, "namex") /\ Top(p).ip = 0
    /\ icache' = IF Top(p).path.root THEN Iget(icache, start)
                 ELSE Idup(icache, start)
    /\ Require(~(Top(p).path.root /\ IgetPanics(icache, start)))
    /\ Then(p, <<[Top(p) EXCEPT !.ip = start]>>)
    /\ UNCHANGED <<dinode, ret, ncalls>> /\ noFiles

NamexEnd(p) ==
    /\ At(p, "namex") /\ Top(p).ip # 0 /\ Top(p).path.elems = <<>>
    /\ IF Top(p).parent THEN Return(p, 0) /\ Then(p, <<iput(Top(p).ip)>>)
       ELSE Return(p, Top(p).ip) /\ Then(p, <<>>)
    /\ UNCHANGED <<dinode, icache, panicked, ncalls>> /\ noFiles

NamexElem(p) ==
    LET i == Top(p).ip
        elems == Top(p).path.elems
        c == Ilock(icache, i, p)
        next == dinode[i].ent[Head(elems)]
        stop == Top(p).parent /\ Len(elems) = 1 \* one level early
    IN
    /\ At(p, "namex") /\ Lockable(p)
    /\ \/ /\ c[i].type = "dir" /\ stop
          /\ icache' = Iunlock(c, i)
          /\ Require(~IlockPanics(icache, i))
          /\ Return(p, i)
          /\ Then(p, <<>>)
          /\ UNCHANGED dangled
       \/ /\ c[i].type # "dir" \/ (next = 0 /\ ~stop)
          /\ icache' = Iunlock(c, i)
          /\ Require(~IlockPanics(icache, i))
          /\ Return(p, 0)
          /\ Then(p, <<iput(i)>>)
          /\ UNCHANGED dangled
       \/ /\ c[i].type = "dir" /\ next # 0 /\ ~stop
          /\ icache' = Iunlock(Iget(c, next), i)
          /\ Require(~IlockPanics(icache, i) /\ ~IgetPanics(c, next))
          /\ Then(p, <<iput(i), [Top(p) EXCEPT !.ip = next,
                                       !.path.elems = Tail(elems)]>>)
          /\ dangled' = Dangled(i, Head(elems))
          /\ UNCHANGED ret
    /\ UNCHANGED <<dinode, ncalls, ftable, ofile, cwd, strayed>>

(***************************************************************************)
(* create()                                                                *)
(***************************************************************************)
FreeInums == {i \in Inum : dinode[i].type = "none"}

\* Mutant: the parent stays locked until the inode found in it has been
\* locked.
CreateLookupKeepsParent(p) ==
    LET dp == ret[p]
        c == Ilock(icache, dp, p)
        old == dinode[dp].ent[Top(p).name]
    IN
    /\ At(p, "create")
    /\ \/ /\ dp = 0
          /\ Then(p, <<>>)
          /\ UNCHANGED <<dinode, icache, ret, panicked, dangled>>
       \/ /\ Lockable(p) /\ old # 0
          /\ icache' = Iget(c, old)
          /\ Require(~DirPanics(icache, dp) /\ ~IgetPanics(c, old))
          /\ Then(p, <<[f |-> "createold", ip |-> old, type |-> Top(p).type],
                       iunlock(dp), iput(dp)>>)
          /\ dangled' = Dangled(dp, Top(p).name)
          /\ UNCHANGED <<dinode, ret>>
       \/ /\ Lockable(p) /\ old = 0
          /\ IF FreeInums = {} \* "ialloc: no inodes"
             THEN Require(FALSE) /\ UNCHANGED <<dinode, icache, todo>>
             ELSE \E i \in FreeInums :
                /\ dinode' = [dinode EXCEPT ![i] = [Free EXCEPT !.type = Top(p).type]]
                /\ icache' = Iget(c, i)
                /\ Require(~DirPanics(icache, dp) /\ ~IgetPanics(c, i))
                /\ Then(p, <<[f |-> "createnew", ip |-> i, dp |-> dp,
                              name |-> Top(p).name]>>)
          /\ UNCHANGED <<ret, dangled>>
    /\ UNCHANGED <<ncalls, ftable, ofile, cwd, strayed>>

\* The parent is locked and searched.  If the name is new, ialloc() takes a
\* free inode (its scan is not atomic: any free one) and the parent stays
\* locked.
CreateLookup(p) ==
    LET dp == ret[p]
        c == Ilock(icache, dp, p)
        old == dinode[dp].ent[Top(p).name]
    IN
    /\ At(p, "create")
    /\ \/ /\ dp = 0
          /\ Then(p, <<>>)
          /\ UNCHANGED <<dinode, icache, ret, panicked, dangled>>
       \/ /\ Lockable(p) /\ old # 0
          /\ icache' = Iunlock(Iget(c, old), dp)
          /\ Require(~DirPanics(icache, dp) /\ ~IgetPanics(c, old))
          /\ Then(p, <<iput(dp), [f |-> "createold", ip |-> old,
                                  type |-> Top(p).type]>>)
          /\ dangled' = Dangled(dp, Top(p).name)
          /\ UNCHANGED <<dinode, ret>>
       \/ /\ Lockable(p) /\ old = 0
          /\ IF FreeInums = {} \* "ialloc: no inodes"
             THEN Require(FALSE) /\ UNCHANGED <<dinode, icache, todo>>
             ELSE \E i \in FreeInums :
                /\ dinode' = [dinode EXCEPT ![i] = [Free EXCEPT !.type = Top(p).type]]
                /\ icache' = Iget(c, i)
                /\ Require(~DirPanics(icache, dp) /\ ~IgetPanics(c, i))
                /\ Then(p, <<[f |-> "createnew", ip |-> i, dp |-> dp,
                              name |-> Top(p).name]>>)
          /\ UNCHANGED <<ret, dangled>>
    /\ UNCHANGED <<ncalls, ftable, ofile, cwd, strayed>>

CreateOld(p) ==
    LET i == Top(p).ip
        c == Ilock(icache, i, p)
    IN
    /\ At(p, "createold") /\ Lockable(p)
    /\ Require(~IlockPanics(icache, i))
    /\ IF Top(p).type = "file" /\ c[i].type = "file"
       THEN icache' = c /\ Return(p, i) /\ Then(p, <<>>)
       ELSE icache' = Iunlock(c, i) /\ Return(p, 0) /\ Then(p, <<iput(i)>>)
    /\ UNCHANGED <<dinode, ncalls>> /\ noFiles

CreateNew(p) ==
    LET i == Top(p).ip
        dp == Top(p).dp
        c == [Ilock(icache, i, p) EXCEPT ![i].nlink = 1]
        isdir == c[i].type = "dir"
        cdp == IF isdir THEN AddLinks(c, dp, 1) ELSE c
        d == SetEntry(Iupdate(Iupdate(dinode, c, i), cdp, dp), dp, Top(p).name, i)
    IN
    /\ At(p, "createnew") /\ Lockable(p)
    /\ Require(~IlockPanics(icache, i))
    /\ icache' = Iunlock(cdp, dp)
    /\ dinode' = IF isdir THEN SetEntry(SetEntry(d, i, ".", i), i, "..", dp) ELSE d
    /\ Return(p, i)
    /\ Then(p, <<iput(dp)>>)
    /\ strayed' = Strayed(dp, i)
    /\ UNCHANGED <<ncalls, ftable, ofile, cwd, dangled>>

(***************************************************************************)
(* unlink                                                                  *)
(***************************************************************************)
Unlink(p) ==
    LET dp == ret[p]
        c == Ilock(icache, dp, p)
        i == dinode[dp].ent[Top(p).name]
    IN
    /\ At(p, "unlink")
    /\ \/ /\ dp = 0
          /\ Then(p, <<>>)
          /\ UNCHANGED <<icache, panicked>>
       \/ /\ Lockable(p) /\ (Top(p).name \in {".", ".."} \/ i = 0)
          /\ icache' = Iunlock(c, dp)
          /\ Require(~IlockPanics(icache, dp))
          /\ Then(p, <<iput(dp)>>)
       \/ /\ Lockable(p) /\ Top(p).name \notin {".", ".."} /\ i # 0
          /\ icache' = Iget(c, i)
          /\ Require(~DirPanics(icache, dp) /\ ~IgetPanics(c, i))
          /\ Then(p, <<[f |-> "unlinkentry", ip |-> i, dp |-> dp,
                        name |-> Top(p).name]>>)
    /\ UNCHANGED <<dinode, ret, ncalls>> /\ noFiles

\* dp is unlocked and put while ip is still locked.
UnlinkEntry(p) ==
    LET i == Top(p).ip
        dp == Top(p).dp
        c == Ilock(icache, i, p)
        cdp == IF c[i].type = "dir" THEN AddLinks(c, dp, -1) ELSE c
    IN
    /\ At(p, "unlinkentry") /\ Lockable(p)
    /\ Require(~IlockPanics(icache, i) /\ c[i].nlink >= 1)
    /\ IF c[i].type = "dir" /\ ~isdirempty(i)
       THEN /\ icache' = Iunlock(c, i)
            /\ Then(p, <<iput(i), iunlock(dp), iput(dp)>>)
            /\ UNCHANGED dinode
       ELSE /\ icache' = Iunlock(cdp, dp)
            /\ dinode' = SetEntry(Iupdate(dinode, cdp, dp), dp, Top(p).name, 0)
            /\ Then(p, <<iput(dp), [f |-> "unlinkcount", ip |-> i], iput(i)>>)
    /\ UNCHANGED <<ret, ncalls>> /\ noFiles

UnlinkCount(p) ==
    LET i == Top(p).ip
        c == AddLinks(icache, i, -1)
    IN
    /\ At(p, "unlinkcount")
    /\ icache' = Iunlock(c, i)
    /\ dinode' = Iupdate(dinode, c, i)
    /\ Then(p, <<>>)
    /\ UNCHANGED <<ret, panicked, ncalls>> /\ noFiles

(***************************************************************************)
(* link: the count is raised before the entry is written, and lowered      *)
(* again (cleanupsyslink) if that fails.                                   *)
(***************************************************************************)

\* Mutant: the failing link does not lower the count.
LinkKeepsCount(p) ==
    /\ At(p, "linkundo") /\ Lockable(p)
    /\ Then(p, <<>>)
    /\ UNCHANGED <<dinode, icache, panicked, ret, ncalls>> /\ noFiles

LinkUndo(p) ==
    LET i == Top(p).ip
        c == AddLinks(Ilock(icache, i, p), i, -1)
    IN
    /\ At(p, "linkundo") /\ Lockable(p)
    /\ Require(~IlockPanics(icache, i))
    /\ icache' = Iunlock(c, i)
    /\ dinode' = Iupdate(dinode, c, i)
    /\ Then(p, <<>>)
    /\ UNCHANGED <<ret, ncalls>> /\ noFiles

Link(p) ==
    LET i == ret[p]
        c == Ilock(icache, i, p)
        more == AddLinks(c, i, 1)
    IN
    /\ At(p, "link")
    /\ \/ /\ i = 0
          /\ Then(p, <<>>)
          /\ UNCHANGED <<dinode, icache, panicked>>
       \/ /\ Lockable(p) /\ c[i].type = "dir"
          /\ icache' = Iunlock(c, i)
          /\ Require(~IlockPanics(icache, i))
          /\ Then(p, <<iput(i)>>)
          /\ UNCHANGED dinode
       \/ /\ Lockable(p) /\ c[i].type # "dir"
          /\ icache' = Iunlock(more, i)
          /\ dinode' = Iupdate(dinode, more, i)
          /\ Require(~IlockPanics(icache, i))
          /\ Then(p, <<nameiparent(Top(p).new),
                       [f |-> "linkentry", ip |-> i, name |-> Last(Top(p).new.elems)]>>)
    /\ UNCHANGED <<ret, ncalls>> /\ noFiles

\* When the name exists, dirlink() puts its inode with dp still locked; for
\* the name "." that inode is dp itself.
LinkEntry(p) ==
    LET i == Top(p).ip
        dp == ret[p]
        c == Ilock(icache, dp, p)
        old == dinode[dp].ent[Top(p).name]
        undo == <<[f |-> "linkundo", ip |-> i], iput(i)>>
    IN
    /\ At(p, "linkentry")
    /\ \/ /\ dp = 0
          /\ Then(p, undo)
          /\ UNCHANGED <<dinode, icache, panicked, strayed, dangled>>
       \/ /\ Lockable(p) /\ old # 0
          /\ icache' = Iget(c, old)
          /\ Require(~DirPanics(icache, dp) /\ ~IgetPanics(c, old))
          /\ Then(p, <<iput(old), iunlock(dp), iput(dp)>> \o undo)
          /\ dangled' = Dangled(dp, Top(p).name)
          /\ UNCHANGED <<dinode, strayed>>
       \/ /\ Lockable(p) /\ old = 0
          /\ icache' = Iunlock(c, dp)
          /\ dinode' = SetEntry(dinode, dp, Top(p).name, i)
          /\ strayed' = Strayed(dp, i)
          /\ Require(~DirPanics(icache, dp))
          /\ Then(p, <<iput(dp), iput(i)>>)
          /\ UNCHANGED dangled
    /\ UNCHANGED <<ret, ncalls, ftable, ofile, cwd>>

(***************************************************************************)
(* open, mkdir, mknod and chdir, once they have their inode                *)
(***************************************************************************)
FreeFiles == {f \in File : ftable[f].ref = 0}
FreeFds(p) == {fd \in Fd : ofile[p][fd] = 0}

\* filealloc() and fdalloc() with ip locked (cache c); if one of them fails,
\* what was taken is given back.
OpenFile(p, c, i) ==
    IF FreeFiles = {} \/ FreeFds(p) = {}
    THEN /\ icache' = Iunlock(c, i)
         /\ Then(p, <<iput(i)>>)
         /\ UNCHANGED <<ftable, ofile>>
    ELSE /\ ftable' = [ftable EXCEPT ![Min(FreeFiles)] = [ref |-> 1, ip |-> i]]
         /\ ofile' = [ofile EXCEPT ![p][Min(FreeFds(p))] = Min(FreeFiles)]
         /\ icache' = Iunlock(c, i)
         /\ Then(p, <<>>)

Open(p) ==
    LET i == ret[p]
        c == Ilock(icache, i, p)
    IN
    /\ At(p, "open")
    /\ \/ /\ i = 0
          /\ Then(p, <<>>)
          /\ UNCHANGED <<icache, ftable, ofile, panicked>>
       \/ /\ Lockable(p) /\ c[i].type = "dir" /\ ~Top(p).rdonly
          /\ icache' = Iunlock(c, i)
          /\ Require(~IlockPanics(icache, i))
          /\ Then(p, <<iput(i)>>)
          /\ UNCHANGED <<ftable, ofile>>
       \/ /\ Lockable(p) /\ ~(c[i].type = "dir" /\ ~Top(p).rdonly)
          /\ OpenFile(p, c, i)
          /\ Require(~IlockPanics(icache, i))
    /\ UNCHANGED <<dinode, cwd, ret, ncalls, strayed, dangled>>

\* create() returns its inode locked.
OpenCreated(p) ==
    /\ At(p, "opencreated")
    /\ \/ /\ ret[p] = 0
          /\ Then(p, <<>>)
          /\ UNCHANGED <<icache, ftable, ofile>>
       \/ /\ ret[p] # 0
          /\ OpenFile(p, icache, ret[p])
    /\ UNCHANGED <<dinode, cwd, ret, panicked, ncalls, strayed, dangled>>

Made(p) ==
    /\ At(p, "made")
    /\ Then(p, IF ret[p] = 0 THEN <<>> ELSE <<iunlock(ret[p]), iput(ret[p])>>)
    /\ UNCHANGED <<dinode, icache, ret, panicked, ncalls>> /\ noFiles

\* Only p reads its cwd, so it may be set before the old one is put.
Chdir(p) ==
    LET i == ret[p]
        c == Ilock(icache, i, p)
    IN
    /\ At(p, "chdir")
    /\ \/ /\ i = 0
          /\ Then(p, <<>>)
          /\ UNCHANGED <<icache, cwd, panicked>>
       \/ /\ Lockable(p)
          /\ icache' = Iunlock(c, i)
          /\ Require(~IlockPanics(icache, i))
          /\ IF c[i].type # "dir"
             THEN Then(p, <<iput(i)>>) /\ UNCHANGED cwd
             ELSE Then(p, <<iput(cwd[p])>>) /\ cwd' = [cwd EXCEPT ![p] = i]
    /\ UNCHANGED <<dinode, ret, ncalls, ftable, ofile, strayed, dangled>>

\* What sys_open, sys_mkdir, sys_mknod, sys_unlink, sys_link and sys_chdir do.
Body(c) ==
    CASE c.f = "open" -> IF c.create
           THEN <<nameiparent(c.path),
                  [f |-> "create", name |-> Last(c.path.elems), type |-> "file"],
                  [f |-> "opencreated"]>>
           ELSE <<namei(c.path), [f |-> "open", rdonly |-> c.rdonly]>>
      [] c.f = "make" ->
           <<nameiparent(c.path),
             [f |-> "create", name |-> Last(c.path.elems), type |-> c.type],
             [f |-> "made"]>>
      [] c.f = "unlink" ->
           <<nameiparent(c.path), [f |-> "unlink", name |-> Last(c.path.elems)]>>
      [] c.f = "link" -> <<namei(c.path), [f |-> "link", new |-> c.new]>>
      [] c.f = "chdir" -> <<namei(c.path), [f |-> "chdir"]>>

MayCall(p) == cwd[p] # 0 /\ Idle(p) /\ ncalls < MaxCalls

Syscall(p) ==
    /\ MayCall(p)
    /\ \E c \in Calls : todo' = [todo EXCEPT ![p] = Body(c)]
    /\ ncalls' = ncalls + 1
    /\ UNCHANGED <<dinode, icache, ret, panicked>> /\ noFiles

(***************************************************************************)
(* Descriptors                                                             *)
(***************************************************************************)

\* Mutant: fork() shares the files of the parent without filedup().
ForkShares(p, q) ==
    /\ MayCall(p) /\ cwd[q] = 0 /\ Idle(q)
    /\ cwd' = [cwd EXCEPT ![q] = cwd[p]]
    /\ icache' = Idup(icache, cwd[p])
    /\ ofile' = [ofile EXCEPT ![q] = ofile[p]]
    /\ UNCHANGED ftable
    /\ ncalls' = ncalls + 1
    /\ UNCHANGED <<dinode, todo, ret, panicked, strayed, dangled>>

Fork(p, q) ==
    /\ MayCall(p) /\ cwd[q] = 0 /\ Idle(q)
    /\ cwd' = [cwd EXCEPT ![q] = cwd[p]]
    /\ icache' = Idup(icache, cwd[p])
    /\ ofile' = [ofile EXCEPT ![q] = ofile[p]]
    /\ ftable' = [f \in File |-> [ftable[f] EXCEPT
                     !.ref = @ + Cardinality({fd \in Fd : ofile[p][fd] = f})]]
    /\ ncalls' = ncalls + 1
    /\ UNCHANGED <<dinode, todo, ret, panicked, strayed, dangled>>

Dup(p, fd) ==
    LET f == ofile[p][fd] IN
    /\ MayCall(p) /\ f # 0 /\ FreeFds(p) # {}
    /\ ofile' = [ofile EXCEPT ![p][Min(FreeFds(p))] = f]
    /\ ftable' = [ftable EXCEPT ![f].ref = @ + 1]
    /\ Require(ftable[f].ref >= 1)
    /\ ncalls' = ncalls + 1
    /\ UNCHANGED <<dinode, icache, cwd, todo, ret, strayed, dangled>>

\* The last close of a file puts its inode.
Fileclose(p, fd) ==
    LET f == ofile[p][fd] IN
    /\ ofile' = [ofile EXCEPT ![p][fd] = 0]
    /\ Require(ftable[f].ref >= 1)
    /\ IF ftable[f].ref > 1
       THEN /\ ftable' = [ftable EXCEPT ![f].ref = @ - 1]
            /\ todo' = [todo EXCEPT ![p] = IF @ = <<>> THEN @ ELSE Tail(@)]
       ELSE /\ ftable' = [ftable EXCEPT ![f] = [ref |-> 0, ip |-> 0]]
            /\ todo' = [todo EXCEPT ![p] = <<iput(ftable[f].ip)>> \o
                                           IF @ = <<>> THEN @ ELSE Tail(@)]
    /\ UNCHANGED <<dinode, icache, cwd, ret, strayed, dangled>>

Close(p, fd) ==
    /\ MayCall(p) /\ ofile[p][fd] # 0
    /\ Fileclose(p, fd)
    /\ ncalls' = ncalls + 1

\* read, write and fstat
Use(p, fd) ==
    LET i == ftable[ofile[p][fd]].ip IN
    /\ MayCall(p) /\ ofile[p][fd] # 0
    /\ icache[i].lock = NoProc
    /\ icache' = Iunlock(Ilock(icache, i, p), i)
    /\ Require(~IlockPanics(icache, i))
    /\ ncalls' = ncalls + 1
    /\ UNCHANGED <<dinode, todo, ret>> /\ noFiles

Exit(p) ==
    LET open == SetToSeq({fd \in Fd : ofile[p][fd] # 0}) IN
    /\ MayCall(p)
    /\ todo' = [todo EXCEPT ![p] = [k \in DOMAIN open |-> [f |-> "fileclose", fd |-> open[k]]]
                                   \o <<iput(cwd[p])>>]
    /\ cwd' = [cwd EXCEPT ![p] = 0]
    /\ ncalls' = ncalls + 1
    /\ UNCHANGED <<dinode, icache, ftable, ofile, ret, panicked, strayed, dangled>>

ExitClose(p) ==
    /\ At(p, "fileclose")
    /\ Fileclose(p, Top(p).fd)
    /\ UNCHANGED ncalls

Step(p) ==
    \/ Syscall(p) \/ Exit(p) \/ ExitClose(p)
    \/ Iunlocked(p) \/ IputTest(p) \/ IputFree(p) \/ IputInvalidate(p) \/ IputDrop(p)
    \/ NamexBegin(p) \/ NamexElem(p) \/ NamexEnd(p)
    \/ CreateLookup(p) \/ CreateOld(p) \/ CreateNew(p)
    \/ Unlink(p) \/ UnlinkEntry(p) \/ UnlinkCount(p)
    \/ Link(p) \/ LinkEntry(p) \/ LinkUndo(p)
    \/ Open(p) \/ OpenCreated(p) \/ Made(p) \/ Chdir(p)
    \/ \E q \in Proc : Fork(p, q)
    \/ \E fd \in Fd : Dup(p, fd) \/ Close(p, fd) \/ Use(p, fd)

Next == ~panicked /\ \E p \in Proc : Step(p)

Spec == Init /\ [][Next]_vars

(***************************************************************************)
(* Properties                                                              *)
(***************************************************************************)
Quiet == \A p \in Proc : Idle(p)

\* No panic of fs.c, file.c or sysfile.c is reached: nobody locks an inode
\* that is free on disk or has no reference ("ilock", "ilock: no type"),
\* searches what is not a directory, unlinks a file without links, closes a
\* closed file, or unlocks what it has not locked.  The exception is a process
\* that asks a removed directory for ".." when the parent has been removed as
\* well: the entry still names the parent's inode, which is free or is somebody
\* else's by now.
NoPanic == panicked => dangled

\* The same without the exception, which does not hold (FilesDotdot.cfg).
NeverPanics == ~panicked

\* The inode cache is write-through (fs.c:207-208): a valid entry agrees with
\* the inode on disk, which is allocated.  The exception is an inode that
\* iput() has just freed and not yet marked invalid, which ialloc() may
\* already have given to somebody else.  And no more inodes are in use than
\* the cache has entries.  (After a panic nothing runs any more.)
ValidIsCurrent ==
    /\ TypeOK
    /\ ~panicked => \A i \in Inum :
          (/\ icache[i].ref > 0 /\ icache[i].valid
           /\ ~\E p \in Proc : At(p, "ifreed") /\ Top(p).ip = i)
          => /\ icache[i].type = dinode[i].type
             /\ icache[i].nlink = dinode[i].nlink
             /\ dinode[i].type # "none"

\* When no call is in progress, ip->ref counts the open files and current
\* directories that point to the inode (fs.c:116-118), and f->ref the
\* descriptors that point to the file: no path through a call, failing or
\* not, gains or loses a reference, and no inode stays locked.
RefsAreExact ==
    Quiet =>
        /\ \A i \in Inum :
              /\ icache[i].ref = Cardinality({f \in File : ftable[f].ip = i})
                                 + Cardinality({p \in Proc : cwd[p] = i})
              /\ icache[i].lock = NoProc
        /\ \A f \in File :
              ftable[f].ref = Cardinality({pf \in Proc \X Fd : ofile[pf[1]][pf[2]] = f})

\* unlink has removed the name of inode i and not yet counted it.
Unlinking(i) ==
    \E p \in Proc : \E k \in DOMAIN todo[p] :
        todo[p][k].f = "unlinkcount" /\ todo[p][k].ip = i

\* The directories that have not been removed.
Directories ==
    {i \in Inum \ strayed : /\ dinode[i].type = "dir" /\ dinode[i].nlink > 0
                           /\ ~Unlinking(i)}

\* The entries of the directories ds that count as a link of inode i.
Links(ds, i) == {de \in ds \X (Entry \ {"."}) : dinode[de[1]].ent[de[2]] = i}

\* An entry of a directory never names a free inode, and when no call is in
\* progress nlink is the number of entries that name the inode, so that the
\* inode is freed with its last name and not before: however unlink, link,
\* mkdir and their failures overlap.  What is created in a directory that
\* another process has just removed is the exception (strayed).
LinksAreExact ==
    LET ds == Directories IN
    \A i \in Inum :
        /\ dinode[i].type = "none" => Links(ds, i) = {}
        /\ Quiet /\ i \notin strayed => dinode[i].nlink = Cardinality(Links(ds, i))

\* No set of processes waits for inode locks that are held within the set
\* (fs.c:141-143: the order of locks in pathname lookup avoids deadlock).
NoDeadlock ==
    \A S \in SUBSET Proc \ {{}} :
        \E p \in S : Wanted(p) = 0 \/ icache[Wanted(p)].lock \notin S

\* The order in which inodes are locked, a directory before its entries and
\* never two elements of a path (fs.c:141-143), is respected but for iput():
\* processes that wait for each other, or for themselves, include one that
\* puts an inode, which takes its lock again, while it holds the lock of an
\* inode.  create() and unlink do so with the parent directory, and dirlink()
\* with the inode it finds, which is its own directory for the name ".".
OnlyIputDeadlocks ==
    \A S \in SUBSET Proc \ {{}} :
        (\A p \in S : Wanted(p) # 0 /\ icache[Wanted(p)].lock \in S) =>
            \E p \in S : At(p, "iput") /\ \E i \in Inum : icache[i].lock = p

\* iput() frees an inode when its links and its references are gone
\* (fs.c:112-114): no inode stays allocated that nobody can reach.
UnlinkedIsFreed ==
    \A i \in Inum :
        icache[i].ref = 0 /\ dinode[i].type # "none" => dinode[i].nlink > 0
=============================================================================
