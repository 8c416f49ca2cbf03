----------------------------- MODULE PipeProofs -----------------------------
(***************************************************************************)
(* The theorems about pipes, for any numbers of readers and writers, any   *)
(* size of the buffer and any width of the counters: the pipe is freed     *)
(* after its last use, it is a bounded FIFO queue, and no wakeup is lost.  *)
(***************************************************************************)
EXTENDS Pipe, SequenceTheorems, TLAPS

\* p->lock is held from acquire() to release() or sleep().
Locking ==
    \A p \in Proc : pc[p] \in {"loop", "copy", "sleep"} <=> lock = p

\* The last descriptor of an end goes to pipeclose(), which clears the flag of
\* that end: nobody holds an end whose flag is cleared.
Closing ==
    /\ \A p \in Proc : p \in open <=> pc[p] \notin {"pipeclose", "closed"}
    /\ \A p, q \in Proc :
          pc[p] = "pipeclose" /\ q # p /\ (q \in Writer <=> p \in Writer)
              => pc[q] = "closed"
    /\ ~readopen => \A p \in Reader : pc[p] = "closed"
    /\ ~writeopen => \A p \in Writer : pc[p] = "closed"
    /\ freed <=> ~readopen /\ ~writeopen

\* piperead() begins to copy when there are bytes, or no more can come.
Copying ==
    /\ \A p \in Writer : pc[p] # "copy"
    /\ \A p \in Reader : pc[p] = "copy" /\ i[p] = 0 /\ n[p] > 0
                             => ~Empty \/ ~writeopen

\* The invariant on which freeing and the queue rest.
IInv == TypeOK /\ Locking /\ Closing /\ Copying

\* The prover of the leaves that name none.
USE Zenon

-----------------------------------------------------------------------------
\* Ring buffers as sequences: counters that wrap around at u index a buffer
\* whose size divides u.

\* Quotient and remainder.
LEMMA QuotientRemainder ==
  ASSUME NEW m \in Nat \ {0}, NEW x \in Int
  PROVE  \E q \in Int, z \in 0 .. m - 1 : x = m * q + z /\ x % m = z
<1>1. x = m * (x \div m) + (x % m)
  BY SMT
<1> QED
  BY <1>1, SMT

\* The remainder is determined by the range it lies in.
LEMMA ModUnique ==
  ASSUME NEW m \in Nat \ {0}, NEW q \in Int, NEW z \in 0 .. m - 1
  PROVE  (m * q + z) % m = z
BY SMT

\* No turn of the ring, one forwards, one backwards.
LEMMA ModSame ==
  ASSUME NEW m \in Nat \ {0}, NEW x \in Int, 0 <= x, x < m
  PROVE  x % m = x
BY SMT

LEMMA ModForwards ==
  ASSUME NEW m \in Nat \ {0}, NEW x \in Int, m <= x, x < 2 * m
  PROVE  x % m = x - m
BY SMT

LEMMA ModBackwards ==
  ASSUME NEW m \in Nat \ {0}, NEW x \in Int, 0 <= x + m, x < 0
  PROVE  x % m = x + m
BY SMT

\* A multiple of the size of the buffer does not move the index.
LEMMA ModPeriodic ==
  ASSUME NEW m \in Nat \ {0}, NEW u \in Nat, u % m = 0, NEW x \in Int
  PROVE  (x + u) % m = x % m
<1>1. PICK q \in Int, z \in 0 .. m - 1 : x = m * q + z /\ x % m = z
  BY QuotientRemainder
<1>2. PICK k \in Int, y \in 0 .. m - 1 : u = m * k + y /\ u % m = y
  BY QuotientRemainder, SMT
<1>3. x + u = m * (q + k) + z /\ q + k \in Int
  BY <1>1, <1>2, SMT
<1>4. (m * (q + k) + z) % m = z
  BY <1>3, ModUnique
<1> QED
  BY <1>1, <1>3, <1>4

\* Positions less than a buffer apart have different indices.
LEMMA ModApart ==
  ASSUME NEW m \in Nat \ {0}, NEW x \in Int, NEW y \in Int, x < y, y < x + m
  PROVE  x % m # y % m
<1> SUFFICES ASSUME x % m = y % m PROVE FALSE
  OBVIOUS
<1>1. PICK q \in Int, z \in 0 .. m - 1 : x = m * q + z /\ x % m = z
  BY QuotientRemainder
<1>2. PICK k \in Int, s \in 0 .. m - 1 : y = m * k + s /\ y % m = s
  BY QuotientRemainder
<1>3. y - x = m * (k - q) /\ k - q \in Int
  BY <1>1, <1>2, SMT
<1>4. ASSUME NEW d \in Int, m * d > 0, m * d < m PROVE FALSE
  BY <1>4, SMT
<1> QED
  BY <1>3, <1>4, SMT

-----------------------------------------------------------------------------
\* The distance between two counters.
LEMMA Distance ==
  ASSUME NEW u \in Nat \ {0}, NEW x \in 0 .. u - 1, NEW y \in 0 .. u - 1
  PROVE  (y - x) % u = IF y >= x THEN y - x ELSE y - x + u
<1>1. PICK z \in Int : z = y - x
  BY SMT
<1>2. CASE z >= 0
  BY <1>1, <1>2, ModSame, SMT
<1>3. CASE z < 0
  <2>1. z % u = z + u
    BY <1>1, <1>3, ModBackwards, SMT
  <2> QED
    BY <1>1, <1>3, <2>1, SMT
<1> QED
  BY <1>1, <1>2, <1>3, SMT

\* A counter moved ahead by at most one turn.
LEMMA Ahead ==
  ASSUME NEW u \in Nat \ {0}, NEW x \in 0 .. u - 1, NEW k \in 0 .. u
  PROVE  (x + k) % u = IF x + k < u THEN x + k ELSE x + k - u
<1>1. PICK z \in Int : z = x + k
  BY SMT
<1>2. CASE z < u
  BY <1>1, <1>2, ModSame, SMT
<1>3. CASE z >= u
  <2>1. u <= z /\ z < 2 * u
    BY <1>1, <1>3, SMT
  <2>2. z % u = z - u
    BY <2>1, ModForwards
  <2> QED
    BY <1>1, <1>3, <2>2, SMT
<1> QED
  BY <1>1, <1>2, <1>3, SMT

\* A counter incremented.
LEMMA Increment ==
  ASSUME NEW u \in Nat \ {0}, NEW x \in 0 .. u - 1
  PROVE  /\ (x + 1) % u \in 0 .. u - 1
         /\ (x + 1) % u = IF x + 1 = u THEN 0 ELSE x + 1
<1>1. 1 \in 0 .. u
  BY SMT
<1>2. (x + 1) % u = IF x + 1 < u THEN x + 1 ELSE x + 1 - u
  BY <1>1, Ahead
<1> QED
  BY <1>2, SMT

-----------------------------------------------------------------------------
\* d is a buffer of that size for elements of S.
IsRing(d, size, S) == size \in Nat \ {0} /\ d \in [0 .. size - 1 -> S]

\* dd is d with c stored j places behind from.
Stored(d, dd, from, j, size, c) == dd = [d EXCEPT ![(from + j) % size] = c]

\* The len elements of the buffer d from position from on.
RingSeq(d, from, len, size) ==
    [k \in 1 .. len |-> d[(from + k - 1) % size]]

\* Positions lie in the buffer.
LEMMA RingPlace ==
  ASSUME NEW size \in Nat \ {0}, NEW x \in Int
  PROVE  x % size \in 0 .. size - 1
BY SMT

\* A function on 1 .. len is a sequence.
LEMMA FunctionIsSeq ==
  ASSUME NEW S, NEW len \in Nat, NEW s \in [1 .. len -> S]
  PROVE  s \in Seq(S) /\ Len(s) = len
<1>1. s \in Seq(S)
  BY SeqDef
<1> QED
  BY <1>1, LenProperties, SMT

\* A stretch of the ring is a sequence, and what its elements are.
LEMMA RingIsSeq ==
  ASSUME NEW S, NEW size, NEW d, IsRing(d, size, S),
         NEW from \in Nat, NEW len \in Nat
  PROVE  /\ RingSeq(d, from, len, size) \in Seq(S)
         /\ Len(RingSeq(d, from, len, size)) = len
<1> DEFINE s == RingSeq(d, from, len, size)
<1>1. s = [k \in 1 .. len |-> d[(from + k - 1) % size]]
  BY DEF RingSeq
<1> HIDE DEF s
<1>2. \A k \in 1 .. len : d[(from + k - 1) % size] \in S
  BY RingPlace, SMT DEF IsRing
<1>3. s \in [1 .. len -> S]
  BY <1>1, <1>2
<1>4. s \in Seq(S) /\ Len(s) = len
  BY <1>3, FunctionIsSeq
<1> QED
  BY <1>4 DEF s

LEMMA RingElement ==
  ASSUME NEW size, NEW d, NEW from, NEW len, NEW k \in 1 .. len
  PROVE  RingSeq(d, from, len, size)[k] = d[(from + k - 1) % size]
BY DEF RingSeq

\* Starting a turn later makes no difference.
LEMMA RingTurn ==
  ASSUME NEW size \in Nat \ {0}, NEW d, NEW from \in Nat, NEW len \in Nat,
         NEW u \in Nat, u % size = 0
  PROVE  RingSeq(d, from + u, len, size) = RingSeq(d, from, len, size)
<1>1. ASSUME NEW k \in 1 .. len
      PROVE  (from + u + k - 1) % size = (from + k - 1) % size
  <2>1. PICK x \in Int : x = from + k - 1
    BY SMT
  <2>2. (x + u) % size = x % size
    BY ModPeriodic
  <2>3. from + u + k - 1 = x + u
    BY <2>1, SMT
  <2> QED
    BY <2>1, <2>2, <2>3
<1> QED
  BY <1>1 DEF RingSeq

\* Storing outside a stretch does not change it.
LEMMA RingOther ==
  ASSUME NEW S, NEW size, NEW d, IsRing(d, size, S),
         NEW from \in Nat, NEW len \in Nat, NEW j \in len .. size - 1, NEW c \in S,
         NEW dd, Stored(d, dd, from, j, size, c)
  PROVE  RingSeq(dd, from, len, size) = RingSeq(d, from, len, size)
<1>1. ASSUME NEW k \in 1 .. len
      PROVE  dd[(from + k - 1) % size] = d[(from + k - 1) % size]
  <2>1. PICK x \in Int, y \in Int : x = from + k - 1 /\ y = from + j
    BY SMT
  <2>2. x < y /\ y < x + size
    BY <2>1, SMT DEF IsRing
  <2>3. x % size # y % size
    BY <2>2, ModApart DEF IsRing
  <2>4. x % size \in 0 .. size - 1
    BY RingPlace DEF IsRing
  <2> QED
    BY <2>1, <2>3, <2>4 DEF IsRing, Stored
<1> QED
  BY <1>1 DEF RingSeq

\* Storing behind a stretch makes it longer.
LEMMA RingAppend ==
  ASSUME NEW S, NEW size, NEW d, IsRing(d, size, S),
         NEW from \in Nat, NEW len \in Nat, len < size, NEW c \in S,
         NEW dd, Stored(d, dd, from, len, size, c)
  PROVE  /\ IsRing(dd, size, S)
         /\ RingSeq(dd, from, len + 1, size)
               = Append(RingSeq(d, from, len, size), c)
<1> DEFINE s == RingSeq(d, from, len, size)
<1> DEFINE t == RingSeq(dd, from, len + 1, size)
<1>1. (from + len) % size \in 0 .. size - 1
  <2>1. from + len \in Int
    BY SMT
  <2> QED
    BY <2>1, RingPlace DEF IsRing
<1>2. IsRing(dd, size, S) /\ dd[(from + len) % size] = c
  BY <1>1 DEF IsRing, Stored
<1>a. len \in Nat /\ len + 1 \in Nat /\ len \in len .. size - 1
  BY SMT DEF IsRing
<1>3. s \in Seq(S) /\ Len(s) = len
  BY RingIsSeq, SMT
<1>4. RingSeq(dd, from, len, size) = s
  BY <1>a, RingOther, SMT
<1>6. t \in Seq(S) /\ Len(t) = len + 1
  BY <1>2, <1>a, RingIsSeq, SMT
<1>7. t[len + 1] = c
  <2>1. from + (len + 1) - 1 = from + len /\ len + 1 \in 1 .. len + 1
    BY SMT
  <2>2. t[len + 1] = dd[(from + (len + 1) - 1) % size]
    BY <2>1, RingElement, SMT
  <2>3. dd[(from + (len + 1) - 1) % size] = dd[(from + len) % size]
    BY <2>1
  <2> QED
    BY <1>2, <2>2, <2>3
<1>8. ASSUME NEW k \in 1 .. len PROVE t[k] = s[k]
  <2>1. k \in 1 .. len + 1
    BY SMT
  <2>2. t[k] = dd[(from + k - 1) % size]
    BY <2>1, RingElement, SMT
  <2>3. RingSeq(dd, from, len, size)[k] = dd[(from + k - 1) % size]
    BY RingElement, SMT
  <2> QED
    BY <1>4, <2>2, <2>3
<1> HIDE DEF s, t
<1>9. /\ Append(s, c) \in Seq(S)
      /\ Len(Append(s, c)) = len + 1
      /\ Append(s, c)[len + 1] = c
      /\ \A k \in 1 .. len : Append(s, c)[k] = s[k]
  BY <1>3, AppendProperties, SMT
<1>10. t = Append(s, c)
  <2>1. \A k \in 1 .. len + 1 : t[k] = Append(s, c)[k]
    BY <1>7, <1>8, <1>9, SMT
  <2> QED
    BY <1>6, <1>9, <2>1, SeqEqual
<1> QED
  BY <1>2, <1>10 DEF s, t

\* Dropping the first element.
LEMMA RingTail ==
  ASSUME NEW S, NEW size, NEW d, IsRing(d, size, S),
         NEW from \in Nat, NEW len \in Nat, len > 0
  PROVE  RingSeq(d, from + 1, len - 1, size) = Tail(RingSeq(d, from, len, size))
<1> DEFINE s == RingSeq(d, from, len, size)
<1> DEFINE t == RingSeq(d, from + 1, len - 1, size)
<1>a. len \in Nat /\ len - 1 \in Nat /\ from + 1 \in Nat
  BY SMT
<1>1. s \in Seq(S) /\ Len(s) = len
  BY RingIsSeq, SMT
<1>2. t \in Seq(S) /\ Len(t) = len - 1
  BY <1>a, RingIsSeq, SMT
<1>3. ASSUME NEW k \in 1 .. len - 1 PROVE t[k] = s[k + 1]
  <2>1. from + 1 + k - 1 = from + (k + 1) - 1 /\ k + 1 \in 1 .. len
    BY SMT
  <2>2. s[k + 1] = d[(from + (k + 1) - 1) % size]
    BY <2>1, RingElement, SMT
  <2>3. t[k] = d[(from + 1 + k - 1) % size]
    BY RingElement, SMT
  <2> QED
    BY <2>1, <2>2, <2>3
<1> HIDE DEF s, t
<1>4. s # << >>
  BY <1>1, EmptySeq, SMT
<1>5. /\ Tail(s) \in Seq(S) /\ Len(Tail(s)) = len - 1
      /\ \A k \in 1 .. len - 1 : Tail(s)[k] = s[k + 1]
  BY <1>1, <1>4, HeadTailProperties
<1>6. t = Tail(s)
  BY <1>2, <1>3, <1>5, SeqEqual
<1> QED
  BY <1>6 DEF s, t

-----------------------------------------------------------------------------
\* The counters and the ring buffer.

\* The facts about the two sizes that the lemmas on rings ask for.
LEMMA Sizes ==
  /\ UINT \in Nat \ {0} /\ PIPESIZE \in Nat \ {0}
  /\ PIPESIZE < UINT /\ UINT % PIPESIZE = 0
BY PipeAssumption, SMT

\* The number of bytes in the pipe.
Length == (nwrite - nread) % UINT

\* Length is the distance between the counters, and Empty and Full, which the
\* code tests on the counters, are its limits.
LEMMA Counters ==
  ASSUME TypeOK
  PROVE  /\ Length \in 0 .. PIPESIZE
         /\ nwrite = nread + Length \/ nwrite + UINT = nread + Length
         /\ Empty <=> Length = 0
         /\ Full <=> Length = PIPESIZE
<1> USE Sizes
<1>0. /\ nread \in 0 .. UINT - 1 /\ nwrite \in 0 .. UINT - 1
      /\ Length <= PIPESIZE /\ PIPESIZE \in 0 .. UINT
  BY SMT DEF TypeOK, Length
<1>1. Length = IF nwrite >= nread THEN nwrite - nread ELSE nwrite - nread + UINT
  BY <1>0, Distance, SMT DEF Length
<1>2. (nread + PIPESIZE) % UINT = IF nread + PIPESIZE < UINT
                                  THEN nread + PIPESIZE
                                  ELSE nread + PIPESIZE - UINT
  BY <1>0, Ahead
<1> QED
  BY <1>0, <1>1, <1>2, SMT DEF Empty, Full

\* A byte more.
LEMMA CountPut ==
  ASSUME TypeOK, ~Full, nwrite' = (nwrite + 1) % UINT, nread' = nread
  PROVE  Length' = Length + 1 /\ nwrite' \in 0 .. UINT - 1
<1> USE Sizes
<1>0. nread \in 0 .. UINT - 1 /\ nwrite \in 0 .. UINT - 1
  BY DEF TypeOK
<1>1. /\ Length \in 0 .. PIPESIZE - 1
      /\ nwrite = nread + Length \/ nwrite + UINT = nread + Length
  BY Counters, SMT
<1>2. nwrite' \in 0 .. UINT - 1 /\ nwrite' = IF nwrite + 1 = UINT THEN 0 ELSE nwrite + 1
  BY <1>0, Increment, SMT
<1>3. Length' = IF nwrite' >= nread THEN nwrite' - nread ELSE nwrite' - nread + UINT
  BY <1>0, <1>2, Distance DEF Length
<1> QED
  BY <1>0, <1>1, <1>2, <1>3, SMT

\* A byte less.
LEMMA CountGet ==
  ASSUME TypeOK, ~Empty, nread' = (nread + 1) % UINT, nwrite' = nwrite
  PROVE  Length' = Length - 1 /\ nread' \in 0 .. UINT - 1
<1> USE Sizes
<1>0. nread \in 0 .. UINT - 1 /\ nwrite \in 0 .. UINT - 1
  BY DEF TypeOK
<1>1. /\ Length \in 1 .. PIPESIZE
      /\ nwrite = nread + Length \/ nwrite + UINT = nread + Length
  BY Counters, SMT
<1>2. nread' \in 0 .. UINT - 1 /\ nread' = IF nread + 1 = UINT THEN 0 ELSE nread + 1
  BY <1>0, Increment, SMT
<1>3. Length' = IF nwrite >= nread' THEN nwrite - nread' ELSE nwrite - nread' + UINT
  BY <1>0, <1>2, Distance DEF Length
<1> QED
  BY <1>0, <1>1, <1>2, <1>3, SMT

\* The bytes in the pipe are a stretch of the ring.
LEMMA ContentsIsRing ==
  /\ Contents = RingSeq(data, nread, Length, PIPESIZE)
  /\ Contents' = RingSeq(data', nread', Length', PIPESIZE)
BY DEF Contents, Length, RingSeq

LEMMA ContentsIsSeq ==
  ASSUME TypeOK
  PROVE  /\ IsRing(data, PIPESIZE, Byte)
         /\ nread \in Nat /\ Length \in Nat
         /\ Contents \in Seq(Byte) /\ Len(Contents) = Length
<1>1. IsRing(data, PIPESIZE, Byte) /\ nread \in Nat /\ Length \in Nat
  BY Sizes, Counters, SMT DEF TypeOK, IsRing
<1>2. /\ RingSeq(data, nread, Length, PIPESIZE) \in Seq(Byte)
      /\ Len(RingSeq(data, nread, Length, PIPESIZE)) = Length
  BY <1>1, RingIsSeq, SMT
<1> QED
  BY <1>1, <1>2, ContentsIsRing

\* An empty pipe.
LEMMA ContentsEmpty ==
  ASSUME TypeOK
  PROVE  Empty <=> Contents = << >>
<1>1. Contents \in Seq(Byte) /\ Len(Contents) = Length
  BY ContentsIsSeq
<1>2. Empty <=> Length = 0
  BY Counters
<1> QED
  BY <1>1, <1>2, EmptySeq

\* A write appends a byte: it goes behind the last one.
LEMMA WritePlace ==
  ASSUME TypeOK, ~Full, NEW b, data' = [data EXCEPT ![nwrite % PIPESIZE] = b]
  PROVE  Stored(data, data', nread, Length, PIPESIZE, b)
<1>1. /\ nwrite \in Int /\ Length \in 0 .. PIPESIZE
      /\ nwrite = nread + Length \/ nwrite + UINT = nread + Length
  BY Sizes, Counters, SMT DEF TypeOK
<1>2. (nwrite + UINT) % PIPESIZE = nwrite % PIPESIZE
  BY <1>1, Sizes, ModPeriodic
<1> QED
  BY <1>1, <1>2 DEF Stored

LEMMA ContentsPut ==
  ASSUME TypeOK, NEW b \in Byte,
         Stored(data, data', nread, Length, PIPESIZE, b),
         Length < PIPESIZE, Length' = Length + 1, nread' = nread
  PROVE  Contents' = Append(Contents, b)
<1>1. IsRing(data, PIPESIZE, Byte) /\ nread \in Nat /\ Length \in Nat
  BY ContentsIsSeq
<1>2. RingSeq(data', nread, Length + 1, PIPESIZE)
         = Append(RingSeq(data, nread, Length, PIPESIZE), b)
  BY <1>1, RingAppend, SMT
<1> QED
  BY <1>2, ContentsIsRing

\* A read takes the first byte away: the one at nread.
LEMMA ContentsGet ==
  ASSUME TypeOK, ~Empty, data' = data,
         nread' = (nread + 1) % UINT, nwrite' = nwrite
  PROVE  /\ Contents # << >> /\ Contents' = Tail(Contents)
         /\ data[nread % PIPESIZE] = Head(Contents)
<1>1. /\ IsRing(data, PIPESIZE, Byte) /\ nread \in 0 .. UINT - 1
      /\ Length' = Length - 1 /\ Length \in Nat /\ Length > 0
  BY Sizes, CountGet, Counters, ContentsIsSeq, SMT DEF TypeOK
<1>2. RingSeq(data, nread', Length', PIPESIZE)
         = RingSeq(data, nread + 1, Length', PIPESIZE)
  <2>1. nread' \in Nat /\ (nread + 1 = nread' \/ nread + 1 = nread' + UINT)
    BY <1>1, Sizes, Increment, SMT
  <2>2. Length' \in Nat
    BY <1>1, SMT
  <2>3. RingSeq(data, nread' + UINT, Length', PIPESIZE)
           = RingSeq(data, nread', Length', PIPESIZE)
    BY <2>1, <2>2, Sizes, RingTurn, SMT
  <2> QED
    BY <2>1, <2>3
<1>3. RingSeq(data, nread + 1, Length - 1, PIPESIZE)
         = Tail(RingSeq(data, nread, Length, PIPESIZE))
  BY <1>1, Sizes, RingTail, SMT
<1>4. Contents # << >>
  BY ContentsEmpty
<1>5. data[nread % PIPESIZE] = Head(Contents)
  <2>1. 1 \in 1 .. Length /\ nread + 1 - 1 = nread
    BY <1>1, SMT
  <2>2. Contents[1] = data[nread % PIPESIZE]
    BY <2>1 DEF Contents, Length
  <2> QED
    BY <1>4, <2>2, ContentsIsSeq, SMT
<1> QED
  BY <1>1, <1>2, <1>3, <1>4, <1>5, ContentsIsRing

-----------------------------------------------------------------------------
\* The two kinds of processes.
LEMMA Kinds ==
  /\ Writer \subseteq Proc /\ Reader \subseteq Proc /\ Nobody \notin Proc
  /\ \A p \in Proc : p \in Reader <=> p \notin Writer
BY PipeAssumption DEF Proc

\* A call begins.
LEMMA StepCall ==
  ASSUME IInv, NEW p \in Proc, NEW k \in 0 .. MaxN, Call(p, k)
  PROVE  IInv'
<1> USE Kinds DEF IInv
<1>1. TypeOK'
  BY PipeAssumption, SMT DEF Call, Goto, pipeVars, TypeOK, PC
<1>2. Locking'
  BY DEF Call, Goto, pipeVars, TypeOK, Locking
<1>3. Closing'
  BY DEF Call, Goto, pipeVars, TypeOK, Locking, Closing
<1>4. Copying'
  BY DEF Call, Goto, pipeVars, TypeOK, Locking, Closing, Copying, Empty
<1> QED
  BY <1>1, <1>2, <1>3, <1>4

\* The lock is taken.
LEMMA StepAcquire ==
  ASSUME IInv, NEW p \in Proc, Acquire(p)
  PROVE  IInv'
<1> USE Kinds DEF IInv
<1>1. TypeOK'
  BY PipeAssumption DEF Acquire, Goto, pipeVars, TypeOK, PC
<1>2. Locking'
  BY DEF Acquire, Goto, pipeVars, TypeOK, Locking
<1>3. Closing'
  BY DEF Acquire, Goto, pipeVars, TypeOK, Locking, Closing
<1>4. Copying'
  BY DEF Acquire, Goto, pipeVars, TypeOK, Locking, Closing, Copying, Empty
<1> QED
  BY <1>1, <1>2, <1>3, <1>4

\* A process goes to sleep.
LEMMA StepSleep ==
  ASSUME IInv, NEW p \in Proc, Sleep(p)
  PROVE  IInv'
<1> USE Kinds DEF IInv
<1>1. TypeOK'
  BY PipeAssumption DEF Sleep, Goto, pipeVars, TypeOK, PC
<1>2. Locking'
  BY DEF Sleep, Goto, pipeVars, TypeOK, Locking
<1>3. Closing'
  BY DEF Sleep, Goto, pipeVars, TypeOK, Locking, Closing
<1>4. Copying'
  BY DEF Sleep, Goto, pipeVars, TypeOK, Locking, Closing, Copying, Empty
<1> QED
  BY <1>1, <1>2, <1>3, <1>4

\* pipewrite() stores a byte.
LEMMA StepWriteByte ==
  ASSUME IInv, NEW p \in Proc, NEW b \in Byte, WriteByte(p, b)
  PROVE  IInv'
<1> USE Kinds DEF IInv
<1>a. Length' \in 0 .. PIPESIZE /\ nwrite' \in 0 .. UINT - 1 /\ nread' \in 0 .. UINT - 1
  <2>1. ~Full /\ Length \in 0 .. PIPESIZE - 1
    BY PipeAssumption, Counters, SMT DEF WriteByte
  <2>2. Length' = Length + 1 /\ nwrite' \in 0 .. UINT - 1
    BY CountPut DEF WriteByte
  <2> QED
    BY PipeAssumption, <2>1, <2>2, SMT DEF WriteByte, TypeOK
<1>1. TypeOK'
  BY PipeAssumption, <1>a, SMT DEF WriteByte, TypeOK, Length
<1>2. Locking'
  BY DEF WriteByte, TypeOK, Locking
<1>3. Closing'
  BY DEF WriteByte, TypeOK, Locking, Closing
<1>4. Copying'
  BY DEF WriteByte, TypeOK, Locking, Closing, Copying, Empty
<1> QED
  BY <1>1, <1>2, <1>3, <1>4

\* pipewrite() gives up.
LEMMA StepWriteGiveUp ==
  ASSUME IInv, NEW p \in Proc, WriteGiveUp(p)
  PROVE  IInv'
<1> USE Kinds DEF IInv
<1>1. TypeOK'
  BY PipeAssumption, SMT DEF WriteGiveUp, Goto, Return, pipeVars, TypeOK, PC
<1>2. Locking'
  BY DEF WriteGiveUp, Goto, Return, pipeVars, TypeOK, Locking
<1>3. Closing'
  BY DEF WriteGiveUp, Goto, Return, pipeVars, TypeOK, Locking, Closing
<1>4. Copying'
  BY DEF WriteGiveUp, Goto, Return, pipeVars, TypeOK, Locking, Closing,
     Copying, Empty
<1> QED
  BY <1>1, <1>2, <1>3, <1>4

\* pipewrite() finds no room.
LEMMA StepWriteFull ==
  ASSUME IInv, NEW p \in Proc, WriteFull(p)
  PROVE  IInv'
<1> USE Kinds DEF IInv
<1>1. TypeOK'
  BY PipeAssumption DEF WriteFull, WakeupGoto, pipeVars, TypeOK, PC
<1>2. Locking'
  BY DEF WriteFull, WakeupGoto, pipeVars, TypeOK, Locking
<1>3. Closing'
  BY DEF WriteFull, WakeupGoto, pipeVars, TypeOK, Locking, Closing
<1>4. Copying'
  BY DEF WriteFull, WakeupGoto, pipeVars, TypeOK, Locking, Closing, Copying,
     Empty
<1> QED
  BY <1>1, <1>2, <1>3, <1>4

\* pipewrite() returns.
LEMMA StepWriteReturn ==
  ASSUME IInv, NEW p \in Proc, WriteReturn(p)
  PROVE  IInv'
<1> USE Kinds DEF IInv
<1>1. TypeOK'
  BY PipeAssumption, SMT DEF WriteReturn, WakeupGoto, Return, pipeVars, TypeOK,
     PC
<1>2. Locking'
  BY DEF WriteReturn, WakeupGoto, Return, pipeVars, TypeOK, Locking
<1>3. Closing'
  BY DEF WriteReturn, WakeupGoto, Return, pipeVars, TypeOK, Locking, Closing
<1>4. Copying'
  BY DEF WriteReturn, WakeupGoto, Return, pipeVars, TypeOK, Locking,
     Closing, Copying, Empty
<1> QED
  BY <1>1, <1>2, <1>3, <1>4

\* piperead() finds nothing.
LEMMA StepReadEmpty ==
  ASSUME IInv, NEW p \in Proc, ReadEmpty(p)
  PROVE  IInv'
<1> USE Kinds DEF IInv
<1>1. TypeOK'
  BY PipeAssumption DEF ReadEmpty, Goto, pipeVars, TypeOK, PC
<1>2. Locking'
  BY DEF ReadEmpty, Goto, pipeVars, TypeOK, Locking
<1>3. Closing'
  BY DEF ReadEmpty, Goto, pipeVars, TypeOK, Locking, Closing
<1>4. Copying'
  BY DEF ReadEmpty, Goto, pipeVars, TypeOK, Locking, Closing, Copying, Empty
<1> QED
  BY <1>1, <1>2, <1>3, <1>4

\* piperead() gives up.
LEMMA StepReadGiveUp ==
  ASSUME IInv, NEW p \in Proc, ReadGiveUp(p)
  PROVE  IInv'
<1> USE Kinds DEF IInv
<1>1. TypeOK'
  BY PipeAssumption, SMT DEF ReadGiveUp, Goto, Return, pipeVars, TypeOK, PC
<1>2. Locking'
  BY DEF ReadGiveUp, Goto, Return, pipeVars, TypeOK, Locking
<1>3. Closing'
  BY DEF ReadGiveUp, Goto, Return, pipeVars, TypeOK, Locking, Closing
<1>4. Copying'
  BY DEF ReadGiveUp, Goto, Return, pipeVars, TypeOK, Locking, Closing,
     Copying, Empty
<1> QED
  BY <1>1, <1>2, <1>3, <1>4

\* piperead() begins to copy.
LEMMA StepReadStart ==
  ASSUME IInv, NEW p \in Proc, ReadStart(p)
  PROVE  IInv'
<1> USE Kinds DEF IInv
<1>1. TypeOK'
  BY PipeAssumption DEF ReadStart, Goto, pipeVars, TypeOK, PC
<1>2. Locking'
  BY DEF ReadStart, Goto, pipeVars, TypeOK, Locking
<1>3. Closing'
  BY DEF ReadStart, Goto, pipeVars, TypeOK, Locking, Closing
<1>4. Copying'
  BY DEF ReadStart, Goto, pipeVars, TypeOK, Locking, Closing, Copying, Empty
<1> QED
  BY <1>1, <1>2, <1>3, <1>4

\* piperead() takes a byte.
LEMMA StepReadByte ==
  ASSUME IInv, NEW p \in Proc, ReadByte(p)
  PROVE  IInv'
<1> USE Kinds DEF IInv
<1>a. Length' \in 0 .. PIPESIZE /\ nwrite' \in 0 .. UINT - 1 /\ nread' \in 0 .. UINT - 1
  <2>1. ~Empty /\ Length \in 1 .. PIPESIZE
    BY PipeAssumption, Counters, SMT DEF ReadByte
  <2>2. Length' = Length - 1 /\ nread' \in 0 .. UINT - 1
    BY CountGet DEF ReadByte
  <2> QED
    BY PipeAssumption, <2>1, <2>2, SMT DEF ReadByte, TypeOK
<1>1. TypeOK'
  BY PipeAssumption, <1>a, SMT DEF ReadByte, TypeOK, Length
<1>2. Locking'
  BY DEF ReadByte, TypeOK, Locking
<1>3. Closing'
  BY DEF ReadByte, TypeOK, Locking, Closing
<1>4. Copying'
  BY SMT DEF ReadByte, TypeOK, Locking, Closing, Copying, Empty
<1> QED
  BY <1>1, <1>2, <1>3, <1>4

\* piperead() returns.
LEMMA StepReadReturn ==
  ASSUME IInv, NEW p \in Proc, ReadReturn(p)
  PROVE  IInv'
<1> USE Kinds DEF IInv
<1>1. TypeOK'
  BY PipeAssumption, SMT DEF ReadReturn, WakeupGoto, Return, pipeVars, TypeOK, PC
<1>2. Locking'
  BY DEF ReadReturn, WakeupGoto, Return, pipeVars, TypeOK, Locking
<1>3. Closing'
  BY DEF ReadReturn, WakeupGoto, Return, pipeVars, TypeOK, Locking, Closing
<1>4. Copying'
  BY DEF ReadReturn, WakeupGoto, Return, pipeVars, TypeOK, Locking, Closing,
     Copying, Empty
<1> QED
  BY <1>1, <1>2, <1>3, <1>4

\* A descriptor is closed.
LEMMA StepFileclose ==
  ASSUME IInv, NEW p \in Proc, Fileclose(p)
  PROVE  IInv'
<1> USE Kinds DEF IInv
<1>1. TypeOK'
  BY PipeAssumption DEF Fileclose, Goto, Sharers, pipeVars, TypeOK, PC
<1>2. Locking'
  BY DEF Fileclose, Goto, Sharers, pipeVars, TypeOK, Locking
<1>3. Closing'
  BY SMT DEF Fileclose, Goto, Sharers, pipeVars, TypeOK, Locking, Closing
<1>4. Copying'
  BY DEF Fileclose, Goto, Sharers, pipeVars, TypeOK, Locking, Closing,
     Copying, Empty
<1> QED
  BY <1>1, <1>2, <1>3, <1>4

\* The last descriptor of an end is closed.
LEMMA StepPipeclose ==
  ASSUME IInv, NEW p \in Proc, Pipeclose(p)
  PROVE  IInv'
<1> USE Kinds DEF IInv
<1>1. TypeOK'
  BY PipeAssumption DEF Pipeclose, WakeupGoto, TypeOK, PC
<1>2. Locking'
  BY DEF Pipeclose, WakeupGoto, TypeOK, Locking
<1>3. Closing'
  BY DEF Pipeclose, WakeupGoto, TypeOK, Locking, Closing
<1>4. Copying'
  BY DEF Pipeclose, WakeupGoto, TypeOK, Locking, Closing, Copying, Empty
<1> QED
  BY <1>1, <1>2, <1>3, <1>4

\* kill().
LEMMA StepKill ==
  ASSUME IInv, NEW p \in Proc, Kill(p)
  PROVE  IInv'
<1> USE Kinds DEF IInv
<1>1. TypeOK'
  BY PipeAssumption DEF Kill, pipeVars, TypeOK, PC
<1>2. Locking'
  BY DEF Kill, pipeVars, TypeOK, Locking
<1>3. Closing'
  BY SMT DEF Kill, pipeVars, TypeOK, Locking, Closing
<1>4. Copying'
  BY DEF Kill, pipeVars, TypeOK, Locking, Closing, Copying, Empty
<1> QED
  BY <1>1, <1>2, <1>3, <1>4

\* After pipealloc().
LEMMA InitIInv == Init => IInv
<1> SUFFICES ASSUME Init PROVE IInv
  OBVIOUS
<1> USE Kinds, PipeAssumption
<1>1. TypeOK
  <2>1. (nwrite - nread) % UINT <= PIPESIZE
    <3>1. (0 - 0) % UINT = 0
      BY Distance, SMT
    <3> QED
      BY <3>1, SMT DEF Init
  <2>2. data \in [0 .. PIPESIZE - 1 -> Byte]
    BY DEF Init
  <2>3. {readopen, writeopen, freed} \subseteq BOOLEAN
    BY DEF Init
  <2>4. nread \in 0 .. UINT - 1 /\ nwrite \in 0 .. UINT - 1
    BY SMT DEF Init
  <2>5. n \in [Proc -> 0 .. MaxN] /\ i \in [Proc -> 0 .. MaxN]
    BY SMT DEF Init
  <2> QED
    BY <2>1, <2>2, <2>3, <2>4, <2>5 DEF Init, TypeOK, PC
<1>2. Locking
  BY DEF Init, Locking
<1>3. Closing
  BY DEF Init, Closing
<1>4. Copying
  BY DEF Init, Copying
<1> QED
  BY <1>1, <1>2, <1>3, <1>4 DEF IInv

\* Every step preserves the invariant.
LEMMA NextIInv ==
  ASSUME IInv, [Next]_vars
  PROVE  IInv'
<1>1. ASSUME NEW p \in Proc, Proceed(p)
      PROVE  IInv'
  BY <1>1, StepAcquire, StepSleep, StepWriteByte, StepWriteGiveUp,
     StepWriteFull, StepWriteReturn, StepReadEmpty, StepReadGiveUp,
     StepReadStart, StepReadByte, StepReadReturn, StepPipeclose
     DEF Proceed, Write, Read
<1>2. CASE UNCHANGED vars
  BY <1>2 DEF vars, pipeVars, IInv, TypeOK, Locking, Closing, Copying, Empty
<1> QED
  BY <1>1, <1>2, StepCall, StepFileclose, StepKill DEF Next

\* The invariant holds throughout.
THEOREM PipeInvariant == Spec => []IInv
<1>1. Init => IInv
  BY InitIInv
<1>2. IInv /\ [Next]_vars => IInv'
  BY NextIInv
<1> QED
  BY <1>1, <1>2, PTL DEF Spec

\* kfree() is called when the last descriptor of the second end is closed and
\* nobody is in a call on the pipe (pipeclose).
THEOREM FreedOnce == Spec => []FreedIsUnused
<1>1. IInv => FreedIsUnused
  <2> SUFFICES ASSUME IInv PROVE FreedIsUnused
    OBVIOUS
  <2>1. freed => \A p \in Proc : pc[p] = "closed"
    BY Kinds DEF IInv, Closing
  <2>2. freed => open = {}
    BY <2>1 DEF IInv, TypeOK, Closing
  <2> QED
    BY <2>1, <2>2 DEF IInv, FreedIsUnused
<1> QED
  BY <1>1, PipeInvariant, PTL

-----------------------------------------------------------------------------
\* Steps that move no byte leave the queue as it is.
LEMMA ContentsSame ==
  ASSUME UNCHANGED <<data, nread, nwrite>>
  PROVE  Contents' = Contents
BY DEF Contents

\* A step of the pipe is a step of the queue, or none.
LEMMA NextRefines ==
  ASSUME IInv, IInv', [Next]_vars
  PROVE  [FifoImpl!Next]_FifoImpl!fvars
<1> USE Kinds DEF IInv
<1>1. ASSUME NEW p \in Proc, NEW b \in Byte, WriteByte(p, b)
      PROVE  FifoImpl!Put(b)
  <2>1. writeopen
    BY <1>1 DEF WriteByte, Closing
  <2>2. Len(Contents) < PIPESIZE
    BY <1>1, PipeAssumption, Counters, ContentsIsSeq, SMT DEF WriteByte
  <2>3. Contents' = Append(Contents, b)
    <3>1. Stored(data, data', nread, Length, PIPESIZE, b)
      BY <1>1, WritePlace DEF WriteByte
    <3>2. Length < PIPESIZE /\ Length' = Length + 1 /\ nread' = nread
      BY <1>1, Sizes, Counters, CountPut, SMT DEF WriteByte
    <3> QED
      BY <3>1, <3>2, ContentsPut
  <2> QED
    BY <1>1, <2>1, <2>2, <2>3 DEF FifoImpl!Put, WriteByte
<1>2. ASSUME NEW p \in Proc, ReadByte(p)
      PROVE  FifoImpl!Get
  <2>1. readopen
    BY <1>2 DEF ReadByte, Closing
  <2>2. Contents # << >> /\ Contents' = Tail(Contents) /\ got' = Head(Contents)
    BY <1>2, ContentsGet DEF ReadByte
  <2> QED
    BY <1>2, <2>1, <2>2 DEF FifoImpl!Get, ReadByte
<1>3. ASSUME NEW p \in Proc, Pipeclose(p)
      PROVE  FifoImpl!CloseWrite \/ FifoImpl!CloseRead
  <2>1. Contents' = Contents
    BY <1>3, ContentsSame DEF Pipeclose
  <2>2. CASE p \in Writer
    BY <1>3, <2>1, <2>2 DEF Pipeclose, FifoImpl!CloseWrite, TypeOK, Closing
  <2>3. CASE p \in Reader
    BY <1>3, <2>1, <2>3 DEF Pipeclose, FifoImpl!CloseRead, TypeOK, Closing
  <2> QED
    BY <2>2, <2>3
<1>4. ASSUME NEW p \in Proc, NEW k \in 0 .. MaxN, Call(p, k)
      PROVE  FifoImpl!Answer
  <2>1. Contents' = Contents
    BY <1>4, ContentsSame DEF Call, pipeVars
  <2> QED
    BY <1>4, <2>1 DEF Call, pipeVars, FifoImpl!Answer
<1>5. ASSUME NEW p \in Proc, ReadReturn(p)
      PROVE  FifoImpl!Answer
  <2>1. Contents' = Contents
    BY <1>5, ContentsSame DEF ReadReturn, Return, pipeVars
  <2>2. i[p] = 0 /\ n[p] > 0 => ~writeopen /\ Contents = << >>
    BY <1>5, ContentsEmpty, SMT DEF ReadReturn, Copying
  <2> QED
    BY <1>5, <2>1, <2>2 DEF ReadReturn, Return, pipeVars, FifoImpl!Answer
<1>6. ASSUME NEW p \in Proc,
             \/ Acquire(p) \/ Sleep(p) \/ Fileclose(p) \/ Kill(p)
             \/ WriteGiveUp(p) \/ WriteFull(p) \/ WriteReturn(p)
             \/ ReadEmpty(p) \/ ReadGiveUp(p) \/ ReadStart(p)
      PROVE  UNCHANGED FifoImpl!fvars
  <2>1. UNCHANGED <<data, nread, nwrite, readopen, writeopen, got, eof>>
    BY <1>6 DEF Acquire, Sleep, Fileclose, Kill, WriteGiveUp, WriteFull,
       WriteReturn, ReadEmpty, ReadGiveUp, ReadStart, Return, pipeVars
  <2> QED
    BY <2>1, ContentsSame DEF FifoImpl!fvars
<1>7. CASE UNCHANGED vars
  BY <1>7, ContentsSame DEF vars, pipeVars, FifoImpl!fvars
<1> QED
  BY <1>1, <1>2, <1>3, <1>4, <1>5, <1>6, <1>7
     DEF Next, Proceed, Write, Read, FifoImpl!Next

\* The ring buffer of pipe.c, with its wrapping counters, is a bounded FIFO
\* queue whose first byte a reader gets, and read() reports the end of the file
\* only when the write end is closed and every byte has been read (pipewrite,
\* piperead, pipeclose).
THEOREM PipeIsFifo == Spec => FifoSpec
<1>1. Init => FifoImpl!Init
  <2> SUFFICES ASSUME Init PROVE FifoImpl!Init
    OBVIOUS
  <2>1. Contents = << >>
    BY InitIInv, ContentsEmpty DEF IInv, Init, Empty
  <2> QED
    BY <2>1 DEF Init, FifoImpl!Init
<1>2. IInv /\ IInv' /\ [Next]_vars => [FifoImpl!Next]_FifoImpl!fvars
  BY NextRefines
<1> QED
  BY <1>1, <1>2, PipeInvariant, PTL DEF Spec, FifoSpec, FifoImpl!Spec

-----------------------------------------------------------------------------
\* Writers are not killed: a killed one gives up on a full pipe without waking
\* the readers.
NoKilledWriter == Killable \cap Writer = {}

\* A reader sleeps on an empty pipe, or a writer that will wake it is at work;
\* a writer sleeps on a full one, or a reader that will wake it is.
Waiting ==
    /\ \A p \in Reader :
          /\ pc[p] = "sleep" => Empty /\ writeopen
          /\ pc[p] = "asleep" =>
                /\ writeopen
                /\ Empty \/ \E w \in Writer : lock = w /\ pc[w] = "loop"
    /\ \A p \in Writer :
          /\ pc[p] = "sleep" => Full /\ readopen
          /\ pc[p] = "asleep" =>
                /\ readopen
                /\ Full \/ \E r \in Reader : lock = r /\ pc[r] = "copy"
    /\ killed \cap Writer = {}

\* Every step preserves it.
LEMMA NextWaiting ==
  ASSUME NoKilledWriter, IInv, Waiting, [Next]_vars
  PROVE  Waiting'
<1> USE Kinds DEF IInv
<1>1. ASSUME NEW p \in Proc, NEW k \in 0 .. MaxN, Call(p, k)
      PROVE  Waiting'
  BY <1>1 DEF Call, Goto, pipeVars, TypeOK, Locking, Closing, Copying,
     Waiting, Empty, Full
<1>2. ASSUME NEW p \in Proc, Acquire(p)
      PROVE  Waiting'
  BY <1>2, SMT DEF Acquire, Goto, pipeVars, TypeOK, Locking, Closing, Copying,
     Waiting, Empty, Full
<1>3. ASSUME NEW p \in Proc, Sleep(p)
      PROVE  Waiting'
  BY <1>3 DEF Sleep, Goto, pipeVars, TypeOK, Locking, Closing, Copying,
     Waiting, Empty, Full
<1>4. ASSUME NEW p \in Proc, NEW b \in Byte, WriteByte(p, b)
      PROVE  Waiting'
  BY <1>4 DEF WriteByte, TypeOK, Locking, Closing, Copying, Waiting
<1>5. ASSUME NEW p \in Proc, WriteGiveUp(p)
      PROVE  Waiting'
  BY <1>5 DEF WriteGiveUp, Goto, Return, pipeVars, TypeOK, Locking, Closing,
     Copying, Waiting, Empty, Full
<1>6. ASSUME NEW p \in Proc, WriteFull(p)
      PROVE  Waiting'
  BY <1>6 DEF WriteFull, WakeupGoto, pipeVars, TypeOK, Locking, Closing,
     Copying, Waiting, Empty, Full
<1>7. ASSUME NEW p \in Proc, WriteReturn(p)
      PROVE  Waiting'
  BY <1>7 DEF WriteReturn, WakeupGoto, Return, pipeVars, TypeOK, Locking,
     Closing, Copying, Waiting, Empty, Full
<1>8. ASSUME NEW p \in Proc, ReadEmpty(p)
      PROVE  Waiting'
  BY <1>8 DEF ReadEmpty, Goto, pipeVars, TypeOK, Locking, Closing, Copying,
     Waiting, Empty, Full
<1>9. ASSUME NEW p \in Proc, ReadGiveUp(p)
      PROVE  Waiting'
  BY <1>9 DEF ReadGiveUp, Goto, Return, pipeVars, TypeOK, Locking, Closing,
     Copying, Waiting, Empty, Full
<1>10. ASSUME NEW p \in Proc, ReadStart(p)
      PROVE  Waiting'
  BY <1>10, SMT DEF ReadStart, Goto, pipeVars, TypeOK, Locking, Closing, Copying,
     Waiting, Empty, Full
<1>11. ASSUME NEW p \in Proc, ReadByte(p)
      PROVE  Waiting'
  BY <1>11 DEF ReadByte, TypeOK, Locking, Closing, Copying, Waiting
<1>12. ASSUME NEW p \in Proc, ReadReturn(p)
      PROVE  Waiting'
  BY <1>12 DEF ReadReturn, WakeupGoto, Return, pipeVars, TypeOK, Locking,
     Closing, Copying, Waiting, Empty, Full
<1>13. ASSUME NEW p \in Proc, Fileclose(p)
      PROVE  Waiting'
  BY <1>13 DEF Fileclose, Goto, Sharers, pipeVars, TypeOK, Locking, Closing,
     Copying, Waiting, Empty, Full
<1>14. ASSUME NEW p \in Proc, Pipeclose(p)
      PROVE  Waiting'
  BY <1>14 DEF Pipeclose, WakeupGoto, TypeOK, Locking, Closing, Copying,
     Waiting, Empty, Full
<1>15. ASSUME NEW p \in Proc, Kill(p)
      PROVE  Waiting'
  BY <1>15, SMT DEF Kill, pipeVars, TypeOK, Locking, Closing, Copying, Waiting,
     Empty, Full, NoKilledWriter
<1>16. CASE UNCHANGED vars
  BY <1>16 DEF vars, pipeVars, Waiting, Empty, Full
<1> QED
  BY SMT, <1>1, <1>2, <1>3, <1>4, <1>5, <1>6, <1>7, <1>8, <1>9, <1>10, <1>11,
     <1>12, <1>13, <1>14, <1>15, <1>16 DEF Next, Proceed, Write, Read

\* No wakeup is lost while writers are not killed: when nobody holds p->lock,
\* a reader sleeps only on an empty pipe, a writer only on a full one, and the
\* other end is open (pipewrite, piperead, pipeclose, kill).
THEOREM NoLostWakeup ==
  ASSUME NoKilledWriter
  PROVE  Spec => []SleepersHaveReason
<1>1. Init => Waiting
  BY Kinds DEF Init, Waiting
<1>2. IInv /\ Waiting /\ [Next]_vars => Waiting'
  BY NextWaiting
<1>3. IInv /\ Waiting => SleepersHaveReason
  BY Kinds DEF IInv, Waiting, SleepersHaveReason
<1> QED
  BY <1>1, <1>2, <1>3, PipeInvariant, PTL DEF Spec
=============================================================================
