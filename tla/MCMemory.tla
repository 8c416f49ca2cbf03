------------------------------ MODULE MCMemory ------------------------------
EXTENDS Memory

seg(vaddr, memsz, filesz) == [vaddr |-> vaddr, memsz |-> memsz, filesz |-> filesz]

\* A program of one page, one of two segments of which the second ends with
\* bytes that are not in the file, and one whose segment is longer in the file
\* than in memory.
Programs == {<<seg(0, 1, 1)>>, <<seg(0, 2, 2), seg(2, 3, 1)>>, <<seg(0, 1, 3)>>}
Increments == {-5, -2, -1, 1, 3}

\* Pages are interchangeable: as long as every page has one owner, a state is
\* given, up to the names of the pages, by the shape and the contents of the
\* address spaces and by the number of free pages.
Shape(s) ==
    [pte |-> [i \in Vpn |-> IF s.pte[i].pa = 0 THEN <<"none", FALSE>>
                            ELSE <<data[s.pte[i].pa], s.pte[i].u>>],
     tab |-> {i \in Pdx : s.tab[i] # 0},
     ktab |-> Cardinality(s.ktab),
     dir |-> s.dir # 0]

View ==
    <<panicked, PageHasOneOwner, Cardinality(FreePages), Cardinality(pipes),
      [p \in Proc |-> [proc[p] EXCEPT
          !.kstack = @ # 0, !.mem = IF @ = 0 THEN "none" ELSE data[@],
          !.pgdir = Shape(@), !.new = Shape(@)]]>>
=============================================================================
