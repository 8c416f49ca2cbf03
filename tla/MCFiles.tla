------------------------------ MODULE MCFiles ------------------------------
EXTENDS Files, TLC

Symmetry == Permutations(Proc)

\* What a free cache entry, or one that is not valid, still has of its last
\* inode is not read again, nor what the last call of an idle process returned.
Settled(e) ==
    [e EXCEPT !.valid = @ /\ e.ref > 0,
              !.type = IF e.valid /\ e.ref > 0 THEN @ ELSE "none",
              !.nlink = IF e.valid /\ e.ref > 0 THEN @ ELSE 0]
View ==
    <<dinode, [i \in Inum |-> Settled(icache[i])], ftable, ofile, cwd, todo,
      [p \in Proc |-> IF Idle(p) THEN 0 ELSE ret[p]], panicked, ncalls, strayed,
      dangled>>

Abs(elems) == [root |-> TRUE, elems |-> elems]
Rel(elems) == [root |-> FALSE, elems |-> elems]

open(path) == [f |-> "open", path |-> path, create |-> FALSE, rdonly |-> FALSE]
openCreate(path) == [f |-> "open", path |-> path, create |-> TRUE, rdonly |-> FALSE]
make(type, path) == [f |-> "make", path |-> path, type |-> type]
unlink(path) == [f |-> "unlink", path |-> path]
link(old, new) == [f |-> "link", path |-> old, new |-> new]
chdir(path) == [f |-> "chdir", path |-> path]

\* The directories /d and /d/e, which are there at the start, are entered,
\* filled and removed; x is created, as a file or as a directory, opened, linked
\* as d/x and as d/. and unlinked.
TreeNested == <<"d", "e">>

TreeCalls ==
    {openCreate(Rel(<<"x">>)), open(Rel(<<"x">>)),
     make("dir", Rel(<<"x">>)), make("dir", Abs(<<"d", ".">>)),
     unlink(Rel(<<"x">>)), unlink(Abs(<<"d">>)), unlink(Abs(<<"d", "x">>)),
     unlink(Abs(<<"d", "e">>)),
     link(Abs(<<"x">>), Abs(<<"d", "x">>)), link(Abs(<<"x">>), Abs(<<"d", ".">>)),
     chdir(Abs(<<"d", "e">>)), chdir(Rel(<<"..">>))}

NoneNested == <<>>

\* A file with two names in "/", as in the test linkunlink of usertests.c.
LinkUnlinkCalls ==
    {openCreate(Rel(<<"x">>)), link(Rel(<<"cat">>), Rel(<<"x">>)),
     unlink(Rel(<<"x">>))}

\* A file that is opened and unlinked.
OpenUnlinkCalls == {open(Rel(<<"x">>)), unlink(Rel(<<"x">>))}

\* A process in /d/e, which is removed together with /d, goes up.
DotdotCalls ==
    {chdir(Abs(<<"d", "e">>)), unlink(Abs(<<"d", "e">>)), unlink(Abs(<<"d">>)),
     chdir(Rel(<<"..">>))}
=============================================================================
