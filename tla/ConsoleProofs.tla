--------------------------- MODULE ConsoleProofs ----------------------------
(***************************************************************************)
(* The theorems about the console's input, for any number of processes,    *)
(* any size of the ring buffer and any width of its indices: it implements *)
(* the line discipline Tty, and no wakeup is lost.                         *)
(***************************************************************************)
EXTENDS Console, SequenceTheorems, TLAPS

\* The line being typed, what is ready to be read, and how long they are.
Line == Window(w, e)
Ready == Window(r, w)
L == Dist(w, e)
R == Dist(r, w)

Byte == Char \cup {"NUL"}

\* The prover of the leaves that name none.
USE Zenon

-----------------------------------------------------------------------------
\* Ring buffers as sequences: counters that wrap around at u index a buffer
\* whose size divides u.

\* Quotient and remainder.
LEMMA QuotientRemainder ==
  ASSUME NEW m \in Nat \ {0}, NEW x \in Int
  PROVE  \E q \in Int, z \in 0 .. m - 1 : x = m * q + z /\ x % m = z
<1>1. x = m * (x \div m) + (x % m)
  BY SMT
<1> QED
  BY <1>1, SMT

\* The remainder is determined by the range it lies in.
LEMMA ModUnique ==
  ASSUME NEW m \in Nat \ {0}, NEW q \in Int, NEW z \in 0 .. m - 1
  PROVE  (m * q + z) % m = z
BY SMT

\* No turn of the ring, one forwards, one backwards.
LEMMA ModSame ==
  ASSUME NEW m \in Nat \ {0}, NEW x \in Int, 0 <= x, x < m
  PROVE  x % m = x
BY SMT

LEMMA ModForwards ==
  ASSUME NEW m \in Nat \ {0}, NEW x \in Int, m <= x, x < 2 * m
  PROVE  x % m = x - m
BY SMT

LEMMA ModBackwards ==
  ASSUME NEW m \in Nat \ {0}, NEW x \in Int, 0 <= x + m, x < 0
  PROVE  x % m = x + m
BY SMT

\* A multiple of the size of the buffer does not move the index.
LEMMA ModPeriodic ==
  ASSUME NEW m \in Nat \ {0}, NEW u \in Nat, u % m = 0, NEW x \in Int
  PROVE  (x + u) % m = x % m
<1>1. PICK q \in Int, z \in 0 .. m - 1 : x = m * q + z /\ x % m = z
  BY QuotientRemainder
<1>2. PICK k \in Int, y \in 0 .. m - 1 : u = m * k + y /\ u % m = y
  BY QuotientRemainder, SMT
<1>3. x + u = m * (q + k) + z /\ q + k \in Int
  BY <1>1, <1>2, SMT
<1>4. (m * (q + k) + z) % m = z
  BY <1>3, ModUnique
<1> QED
  BY <1>1, <1>3, <1>4

\* Positions less than a buffer apart have different indices.
LEMMA ModApart ==
  ASSUME NEW m \in Nat \ {0}, NEW x \in Int, NEW y \in Int, x < y, y < x + m
  PROVE  x % m # y % m
<1> SUFFICES ASSUME x % m = y % m PROVE FALSE
  OBVIOUS
<1>1. PICK q \in Int, z \in 0 .. m - 1 : x = m * q + z /\ x % m = z
  BY QuotientRemainder
<1>2. PICK k \in Int, s \in 0 .. m - 1 : y = m * k + s /\ y % m = s
  BY QuotientRemainder
<1>3. y - x = m * (k - q) /\ k - q \in Int
  BY <1>1, <1>2, SMT
<1>4. ASSUME NEW d \in Int, m * d > 0, m * d < m PROVE FALSE
  BY <1>4, SMT
<1> QED
  BY <1>3, <1>4, SMT

-----------------------------------------------------------------------------
\* The distance between two counters.
LEMMA Distance ==
  ASSUME NEW u \in Nat \ {0}, NEW x \in 0 .. u - 1, NEW y \in 0 .. u - 1
  PROVE  (y - x) % u = IF y >= x THEN y - x ELSE y - x + u
<1>1. PICK z \in Int : z = y - x
  BY SMT
<1>2. CASE z >= 0
  BY <1>1, <1>2, ModSame, SMT
<1>3. CASE z < 0
  <2>1. z % u = z + u
    BY <1>1, <1>3, ModBackwards, SMT
  <2> QED
    BY <1>1, <1>3, <2>1, SMT
<1> QED
  BY <1>1, <1>2, <1>3, SMT

\* A counter moved ahead by at most one turn.
LEMMA Ahead ==
  ASSUME NEW u \in Nat \ {0}, NEW x \in 0 .. u - 1, NEW k \in 0 .. u
  PROVE  (x + k) % u = IF x + k < u THEN x + k ELSE x + k - u
<1>1. PICK z \in Int : z = x + k
  BY SMT
<1>2. CASE z < u
  BY <1>1, <1>2, ModSame, SMT
<1>3. CASE z >= u
  <2>1. u <= z /\ z < 2 * u
    BY <1>1, <1>3, SMT
  <2>2. z % u = z - u
    BY <2>1, ModForwards
  <2> QED
    BY <1>1, <1>3, <2>2, SMT
<1> QED
  BY <1>1, <1>2, <1>3, SMT

\* A counter incremented, and one decremented.
LEMMA Increment ==
  ASSUME NEW u \in Nat \ {0}, NEW x \in 0 .. u - 1
  PROVE  /\ (x + 1) % u \in 0 .. u - 1
         /\ (x + 1) % u = IF x + 1 = u THEN 0 ELSE x + 1
<1>1. 1 \in 0 .. u
  BY SMT
<1>2. (x + 1) % u = IF x + 1 < u THEN x + 1 ELSE x + 1 - u
  BY <1>1, Ahead
<1> QED
  BY <1>2, SMT

LEMMA Decrement ==
  ASSUME NEW u \in Nat \ {0}, NEW x \in 0 .. u - 1
  PROVE  /\ (x - 1) % u \in 0 .. u - 1
         /\ (x - 1) % u = IF x = 0 THEN u - 1 ELSE x - 1
<1>1. CASE x = 0
  <2>1. (-1) % u = -1 + u
    BY ModBackwards, SMT
  <2> QED
    BY <1>1, <2>1, SMT
<1>2. CASE x > 0
  <2>1. (x - 1) % u = x - 1
    BY <1>2, ModSame, SMT
  <2> QED
    BY <1>2, <2>1, SMT
<1> QED
  BY <1>1, <1>2, SMT

-----------------------------------------------------------------------------
\* d is a buffer of that size for elements of S.
IsRing(d, size, S) == size \in Nat \ {0} /\ d \in [0 .. size - 1 -> S]

\* dd is d with c stored j places behind from.
Stored(d, dd, from, j, size, c) == dd = [d EXCEPT ![(from + j) % size] = c]

\* The len elements of the buffer d from position from on.
RingSeq(d, from, len, size) ==
    [k \in 1 .. len |-> d[(from + k - 1) % size]]

\* Positions lie in the buffer.
LEMMA RingPlace ==
  ASSUME NEW size \in Nat \ {0}, NEW x \in Int
  PROVE  x % size \in 0 .. size - 1
BY SMT

\* A function on 1 .. len is a sequence.
LEMMA FunctionIsSeq ==
  ASSUME NEW S, NEW len \in Nat, NEW s \in [1 .. len -> S]
  PROVE  s \in Seq(S) /\ Len(s) = len
<1>1. s \in Seq(S)
  BY SeqDef
<1> QED
  BY <1>1, LenProperties, SMT

\* A stretch of the ring is a sequence, and what its elements are.
LEMMA RingIsSeq ==
  ASSUME NEW S, NEW size, NEW d, IsRing(d, size, S),
         NEW from \in Nat, NEW len \in Nat
  PROVE  /\ RingSeq(d, from, len, size) \in Seq(S)
         /\ Len(RingSeq(d, from, len, size)) = len
<1> DEFINE s == RingSeq(d, from, len, size)
<1>1. s = [k \in 1 .. len |-> d[(from + k - 1) % size]]
  BY DEF RingSeq
<1> HIDE DEF s
<1>2. \A k \in 1 .. len : d[(from + k - 1) % size] \in S
  BY RingPlace, SMT DEF IsRing
<1>3. s \in [1 .. len -> S]
  BY <1>1, <1>2
<1>4. s \in Seq(S) /\ Len(s) = len
  BY <1>3, FunctionIsSeq
<1> QED
  BY <1>4 DEF s

LEMMA RingElement ==
  ASSUME NEW size, NEW d, NEW from, NEW len, NEW k \in 1 .. len
  PROVE  RingSeq(d, from, len, size)[k] = d[(from + k - 1) % size]
BY DEF RingSeq

\* The empty stretch.
LEMMA RingEmpty ==
  ASSUME NEW S, NEW size, NEW d, IsRing(d, size, S),
         NEW from \in Nat, NEW len \in Nat
  PROVE  RingSeq(d, from, len, size) = << >> <=> len = 0
<1>1. /\ RingSeq(d, from, len, size) \in Seq(S)
      /\ Len(RingSeq(d, from, len, size)) = len
  BY RingIsSeq, SMT
<1> QED
  BY <1>1, EmptySeq

\* Starting a turn later makes no difference.
LEMMA RingTurn ==
  ASSUME NEW size \in Nat \ {0}, NEW d, NEW from \in Nat, NEW len \in Nat,
         NEW u \in Nat, u % size = 0
  PROVE  RingSeq(d, from + u, len, size) = RingSeq(d, from, len, size)
<1>1. ASSUME NEW k \in 1 .. len
      PROVE  (from + u + k - 1) % size = (from + k - 1) % size
  <2>1. PICK x \in Int : x = from + k - 1
    BY SMT
  <2>2. (x + u) % size = x % size
    BY ModPeriodic
  <2>3. from + u + k - 1 = x + u
    BY <2>1, SMT
  <2> QED
    BY <2>1, <2>2, <2>3
<1> QED
  BY <1>1 DEF RingSeq

\* Storing outside a stretch does not change it.
LEMMA RingOther ==
  ASSUME NEW S, NEW size, NEW d, IsRing(d, size, S),
         NEW from \in Nat, NEW len \in Nat, NEW j \in len .. size - 1, NEW c \in S,
         NEW dd, Stored(d, dd, from, j, size, c)
  PROVE  RingSeq(dd, from, len, size) = RingSeq(d, from, len, size)
<1>1. ASSUME NEW k \in 1 .. len
      PROVE  dd[(from + k - 1) % size] = d[(from + k - 1) % size]
  <2>1. PICK x \in Int, y \in Int : x = from + k - 1 /\ y = from + j
    BY SMT
  <2>2. x < y /\ y < x + size
    BY <2>1, SMT DEF IsRing
  <2>3. x % size # y % size
    BY <2>2, ModApart DEF IsRing
  <2>4. x % size \in 0 .. size - 1
    BY RingPlace DEF IsRing
  <2> QED
    BY <2>1, <2>3, <2>4 DEF IsRing, Stored
<1> QED
  BY <1>1 DEF RingSeq

\* Storing behind a stretch makes it longer.
LEMMA RingAppend ==
  ASSUME NEW S, NEW size, NEW d, IsRing(d, size, S),
         NEW from \in Nat, NEW len \in Nat, len < size, NEW c \in S,
         NEW dd, Stored(d, dd, from, len, size, c)
  PROVE  /\ IsRing(dd, size, S)
         /\ RingSeq(dd, from, len + 1, size)
               = Append(RingSeq(d, from, len, size), c)
<1> DEFINE s == RingSeq(d, from, len, size)
<1> DEFINE t == RingSeq(dd, from, len + 1, size)
<1>1. (from + len) % size \in 0 .. size - 1
  <2>1. from + len \in Int
    BY SMT
  <2> QED
    BY <2>1, RingPlace DEF IsRing
<1>2. IsRing(dd, size, S) /\ dd[(from + len) % size] = c
  BY <1>1 DEF IsRing, Stored
<1>a. len \in Nat /\ len + 1 \in Nat /\ len \in len .. size - 1
  BY SMT DEF IsRing
<1>3. s \in Seq(S) /\ Len(s) = len
  BY RingIsSeq, SMT
<1>4. RingSeq(dd, from, len, size) = s
  BY <1>a, RingOther, SMT
<1>6. t \in Seq(S) /\ Len(t) = len + 1
  BY <1>2, <1>a, RingIsSeq, SMT
<1>7. t[len + 1] = c
  <2>1. from + (len + 1) - 1 = from + len /\ len + 1 \in 1 .. len + 1
    BY SMT
  <2>2. t[len + 1] = dd[(from + (len + 1) - 1) % size]
    BY <2>1, RingElement, SMT
  <2>3. dd[(from + (len + 1) - 1) % size] = dd[(from + len) % size]
    BY <2>1
  <2> QED
    BY <1>2, <2>2, <2>3
<1>8. ASSUME NEW k \in 1 .. len PROVE t[k] = s[k]
  <2>1. k \in 1 .. len + 1
    BY SMT
  <2>2. t[k] = dd[(from + k - 1) % size]
    BY <2>1, RingElement, SMT
  <2>3. RingSeq(dd, from, len, size)[k] = dd[(from + k - 1) % size]
    BY RingElement, SMT
  <2> QED
    BY <1>4, <2>2, <2>3
<1> HIDE DEF s, t
<1>9. /\ Append(s, c) \in Seq(S)
      /\ Len(Append(s, c)) = len + 1
      /\ Append(s, c)[len + 1] = c
      /\ \A k \in 1 .. len : Append(s, c)[k] = s[k]
  BY <1>3, AppendProperties, SMT
<1>10. t = Append(s, c)
  <2>1. \A k \in 1 .. len + 1 : t[k] = Append(s, c)[k]
    BY <1>7, <1>8, <1>9, SMT
  <2> QED
    BY <1>6, <1>9, <2>1, SeqEqual
<1> QED
  BY <1>2, <1>10 DEF s, t

\* Dropping the first element.
LEMMA RingTail ==
  ASSUME NEW S, NEW size, NEW d, IsRing(d, size, S),
         NEW from \in Nat, NEW len \in Nat, len > 0
  PROVE  RingSeq(d, from + 1, len - 1, size) = Tail(RingSeq(d, from, len, size))
<1> DEFINE s == RingSeq(d, from, len, size)
<1> DEFINE t == RingSeq(d, from + 1, len - 1, size)
<1>a. len \in Nat /\ len - 1 \in Nat /\ from + 1 \in Nat
  BY SMT
<1>1. s \in Seq(S) /\ Len(s) = len
  BY RingIsSeq, SMT
<1>2. t \in Seq(S) /\ Len(t) = len - 1
  BY <1>a, RingIsSeq, SMT
<1>3. ASSUME NEW k \in 1 .. len - 1 PROVE t[k] = s[k + 1]
  <2>1. from + 1 + k - 1 = from + (k + 1) - 1 /\ k + 1 \in 1 .. len
    BY SMT
  <2>2. s[k + 1] = d[(from + (k + 1) - 1) % size]
    BY <2>1, RingElement, SMT
  <2>3. t[k] = d[(from + 1 + k - 1) % size]
    BY RingElement, SMT
  <2> QED
    BY <2>1, <2>2, <2>3
<1> HIDE DEF s, t
<1>4. s # << >>
  BY <1>1, EmptySeq, SMT
<1>5. /\ Tail(s) \in Seq(S) /\ Len(Tail(s)) = len - 1
      /\ \A k \in 1 .. len - 1 : Tail(s)[k] = s[k + 1]
  BY <1>1, <1>4, HeadTailProperties
<1>6. t = Tail(s)
  BY <1>2, <1>3, <1>5, SeqEqual
<1> QED
  BY <1>6 DEF s, t

\* The first elements of a stretch.
LEMMA RingFront ==
  ASSUME NEW S, NEW size, NEW d, IsRing(d, size, S),
         NEW from \in Nat, NEW len \in Nat, NEW m \in Nat, m <= len
  PROVE  RingSeq(d, from, m, size) = SubSeq(RingSeq(d, from, len, size), 1, m)
<1> DEFINE s == RingSeq(d, from, len, size)
<1> DEFINE t == RingSeq(d, from, m, size)
<1>1. s \in Seq(S) /\ Len(s) = len
  BY RingIsSeq, SMT
<1>2. t \in Seq(S) /\ Len(t) = m
  BY RingIsSeq, SMT
<1>a. ASSUME NEW k \in 1 .. m PROVE t[k] = s[k]
  <2>1. k \in 1 .. len
    BY SMT
  <2>2. s[k] = d[(from + k - 1) % size]
    BY <2>1, RingElement, SMT
  <2>3. t[k] = d[(from + k - 1) % size]
    BY RingElement, SMT
  <2> QED
    BY <2>2, <2>3
<1> HIDE DEF s, t
<1>3. \A k \in 1 .. m : s[k] \in S
  BY <1>1, ElementOfSeq, SMT
<1>4. /\ SubSeq(s, 1, m) \in Seq(S)
      /\ Len(SubSeq(s, 1, m)) = m
      /\ \A k \in 1 .. m : SubSeq(s, 1, m)[k] = s[k]
  BY <1>3, SubSeqProperties, SMT
<1>5. \A k \in 1 .. m : t[k] = SubSeq(s, 1, m)[k]
  BY <1>4, <1>a
<1>6. t = SubSeq(s, 1, m)
  BY <1>2, <1>4, <1>5, SeqEqual
<1> QED
  BY <1>6 DEF s, t

\* Two stretches that follow each other.
RingJoin(d, from, l, m, size) ==
    RingSeq(d, from, l, size) \o RingSeq(d, from + l, m, size)

LEMMA RingConcat ==
  ASSUME NEW S, NEW size, NEW d, IsRing(d, size, S),
         NEW from \in Nat, NEW l \in Nat, NEW m \in Nat
  PROVE  RingSeq(d, from, l + m, size) = RingJoin(d, from, l, m, size)
<1> DEFINE s == RingSeq(d, from, l, size)
<1> DEFINE t == RingSeq(d, from + l, m, size)
<1> DEFINE v == RingSeq(d, from, l + m, size)
<1>a. l + m \in Nat /\ from + l \in Nat
  BY SMT
<1>1. s \in Seq(S) /\ Len(s) = l
  BY RingIsSeq, SMT
<1>2. t \in Seq(S) /\ Len(t) = m
  BY <1>a, RingIsSeq, SMT
<1>3. v \in Seq(S) /\ Len(v) = l + m
  BY <1>a, RingIsSeq, SMT
<1>b. \A k \in 1 .. l : s[k] = d[(from + k - 1) % size]
  BY RingElement, SMT
<1>c. \A k \in 1 .. m : t[k] = d[(from + l + k - 1) % size]
  BY RingElement, SMT
<1>d. \A k \in 1 .. l + m : v[k] = d[(from + k - 1) % size]
  BY RingElement, SMT
<1> HIDE DEF s, t, v
<1>4. /\ s \o t \in Seq(S) /\ Len(s \o t) = l + m
      /\ \A k \in 1 .. l + m : (s \o t)[k] = IF k <= l THEN s[k] ELSE t[k - l]
  BY <1>1, <1>2, ConcatProperties
<1>5. ASSUME NEW k \in 1 .. l + m PROVE v[k] = (s \o t)[k]
  <2>0. v[k] = d[(from + k - 1) % size]
    BY <1>d
  <2>1. CASE k <= l
    <3>1. k \in 1 .. l /\ (s \o t)[k] = s[k]
      BY <1>4, <2>1, SMT
    <3> QED
      BY <1>b, <2>0, <3>1
  <2>2. CASE k > l
    <3>1. k - l \in 1 .. m /\ from + l + (k - l) - 1 = from + k - 1
      BY <2>2, SMT
    <3>2. t[k - l] = d[(from + l + (k - l) - 1) % size]
      BY <1>c, <3>1
    <3>3. (s \o t)[k] = t[k - l]
      BY <1>4, <2>2, SMT
    <3> QED
      BY <2>0, <3>1, <3>2, <3>3
  <2>3. k <= l \/ k > l
    BY SMT
  <2> QED
    BY <2>1, <2>2, <2>3
<1>6. v = s \o t
  BY <1>3, <1>4, <1>5, SeqEqual
<1> QED
  BY <1>6 DEF s, t, v, RingJoin

-----------------------------------------------------------------------------

\* The facts about the two sizes that the lemmas on rings ask for.
LEMMA Sizes ==
  /\ UINT \in Nat \ {0} /\ INPUT_BUF \in Nat \ {0}
  /\ INPUT_BUF < UINT /\ UINT % INPUT_BUF = 0
BY ConsoleAssumption, SMT

-----------------------------------------------------------------------------
\* The indices.

\* The distance between two indices, and how it is recognised.
LEMMA DistFacts ==
  ASSUME NEW x \in 0 .. UINT - 1, NEW y \in 0 .. UINT - 1
  PROVE  /\ Dist(x, y) \in 0 .. UINT - 1
         /\ y = x + Dist(x, y) \/ y + UINT = x + Dist(x, y)
         /\ Dist(x, y) = 0 <=> x = y
<1>1. Dist(x, y) = IF y >= x THEN y - x ELSE y - x + UINT
  BY Sizes, Distance DEF Dist
<1> QED
  BY <1>1, Sizes, SMT

LEMMA DistIs ==
  ASSUME NEW x \in 0 .. UINT - 1, NEW y \in 0 .. UINT - 1, NEW k \in 0 .. UINT - 1,
         y = x + k \/ y + UINT = x + k
  PROVE  Dist(x, y) = k
<1>1. Dist(x, y) = IF y >= x THEN y - x ELSE y - x + UINT
  BY Sizes, Distance DEF Dist
<1> QED
  BY <1>1, Sizes, SMT

\* r, w and e follow each other within one turn.
LEMMA Indices ==
  ASSUME TypeOK
  PROVE  /\ r \in 0 .. UINT - 1 /\ w \in 0 .. UINT - 1 /\ e \in 0 .. UINT - 1
         /\ R \in Nat /\ L \in Nat /\ R + L <= INPUT_BUF
         /\ w = r + R \/ w + UINT = r + R
         /\ e = w + L \/ e + UINT = w + L
         /\ Dist(r, e) = R + L
         /\ R = 0 <=> r = w
         /\ L = 0 <=> w = e
<1>1. /\ r \in 0 .. UINT - 1 /\ w \in 0 .. UINT - 1 /\ e \in 0 .. UINT - 1
      /\ R + L <= INPUT_BUF
  BY DEF TypeOK, R, L
<1>2. /\ R \in 0 .. UINT - 1 /\ L \in 0 .. UINT - 1
      /\ w = r + R \/ w + UINT = r + R
      /\ e = w + L \/ e + UINT = w + L
      /\ R = 0 <=> r = w
      /\ L = 0 <=> w = e
  BY <1>1, DistFacts DEF R, L
<1>3. Dist(r, e) = R + L
  <2>1. R + L \in 0 .. UINT - 1 /\ (e = r + (R + L) \/ e + UINT = r + (R + L))
    BY <1>1, <1>2, Sizes, SMT
  <2> QED
    BY <1>1, <2>1, DistIs
<1> QED
  BY <1>1, <1>2, <1>3, SMT

\* A character more, one less, and one read.
LEMMA IndexType ==
  ASSUME TypeOK, Dist(r, e) < INPUT_BUF, e' = (e + 1) % UINT
  PROVE  /\ e' \in 0 .. UINT - 1
         /\ Dist(w, e') = L + 1 /\ Dist(r, e') = R + L + 1 /\ Dist(e', e') = 0
         /\ e' = (r + INPUT_BUF) % UINT <=> R + L + 1 = INPUT_BUF
<1> USE Sizes
<1>1. /\ r \in 0 .. UINT - 1 /\ w \in 0 .. UINT - 1 /\ e \in 0 .. UINT - 1
      /\ R \in Nat /\ L \in Nat /\ R + L < INPUT_BUF
      /\ w = r + R \/ w + UINT = r + R
      /\ e = w + L \/ e + UINT = w + L
  BY Indices
<1>2. e' \in 0 .. UINT - 1 /\ e' = IF e + 1 = UINT THEN 0 ELSE e + 1
  <2>1. PICK x \in 0 .. UINT - 1 : x = e
    BY <1>1
  <2>2. /\ (x + 1) % UINT \in 0 .. UINT - 1
        /\ (x + 1) % UINT = IF x + 1 = UINT THEN 0 ELSE x + 1
    BY Increment, SMT
  <2> QED
    BY <2>1, <2>2
<1>3. Dist(w, e') = L + 1
  <2>1. L + 1 \in 0 .. UINT - 1 /\ (e' = w + (L + 1) \/ e' + UINT = w + (L + 1))
    BY <1>1, <1>2, SMT
  <2> QED
    BY <1>1, <1>2, <2>1, DistIs, SMT
<1>4. Dist(r, e') = R + L + 1
  <2>1. /\ R + L + 1 \in 0 .. UINT - 1
        /\ e' = r + (R + L + 1) \/ e' + UINT = r + (R + L + 1)
    BY <1>1, <1>2, SMT
  <2> QED
    BY <1>1, <1>2, <2>1, DistIs, SMT
<1>5. Dist(e', e') = 0
  BY <1>2, DistFacts
<1>6. INPUT_BUF \in 0 .. UINT
  BY SMT
<1>7. (r + INPUT_BUF) % UINT = IF r + INPUT_BUF < UINT THEN r + INPUT_BUF
                                                      ELSE r + INPUT_BUF - UINT
  <2>1. PICK x \in 0 .. UINT - 1 : x = r
    BY <1>1
  <2>2. (x + INPUT_BUF) % UINT = IF x + INPUT_BUF < UINT THEN x + INPUT_BUF
                                                        ELSE x + INPUT_BUF - UINT
    BY <1>6, Ahead
  <2> QED
    BY <2>1, <2>2
<1>8. e' = r + (R + L + 1) \/ e' + UINT = r + (R + L + 1)
  BY <1>1, <1>2, SMT
<1>9. e' = (r + INPUT_BUF) % UINT <=> R + L + 1 = INPUT_BUF
  BY <1>1, <1>2, <1>7, <1>8, SMT
<1> QED
  BY <1>2, <1>3, <1>4, <1>5, <1>9

LEMMA IndexErase ==
  ASSUME TypeOK, e # w, e' = (e - 1) % UINT
  PROVE  e' \in 0 .. UINT - 1 /\ Dist(w, e') = L - 1 /\ L > 0
<1> USE Sizes
<1>1. /\ r \in 0 .. UINT - 1 /\ w \in 0 .. UINT - 1 /\ e \in 0 .. UINT - 1
      /\ L \in Nat /\ L > 0 /\ L < UINT
      /\ e = w + L \/ e + UINT = w + L
  BY Indices, SMT
<1>2. e' \in 0 .. UINT - 1 /\ e' = IF e = 0 THEN UINT - 1 ELSE e - 1
  <2>1. PICK x \in 0 .. UINT - 1 : x = e
    BY <1>1
  <2>2. /\ (x - 1) % UINT \in 0 .. UINT - 1
        /\ (x - 1) % UINT = IF x = 0 THEN UINT - 1 ELSE x - 1
    BY Decrement, SMT
  <2> QED
    BY <2>1, <2>2
<1>3. L - 1 \in 0 .. UINT - 1 /\ (e' = w + (L - 1) \/ e' + UINT = w + (L - 1))
  BY <1>1, <1>2, SMT
<1> QED
  BY <1>1, <1>2, <1>3, DistIs, SMT

LEMMA IndexRead ==
  ASSUME TypeOK, r # w, r' = (r + 1) % UINT
  PROVE  /\ r' \in 0 .. UINT - 1 /\ Dist(r', w) = R - 1 /\ R > 0
         /\ r' = r + 1 \/ r' + UINT = r + 1
<1> USE Sizes
<1>1. /\ r \in 0 .. UINT - 1 /\ w \in 0 .. UINT - 1
      /\ R \in Nat /\ R > 0 /\ R < UINT
      /\ w = r + R \/ w + UINT = r + R
  BY Indices, SMT
<1>2. r' \in 0 .. UINT - 1 /\ r' = IF r + 1 = UINT THEN 0 ELSE r + 1
  <2>1. PICK x \in 0 .. UINT - 1 : x = r
    BY <1>1
  <2>2. /\ (x + 1) % UINT \in 0 .. UINT - 1
        /\ (x + 1) % UINT = IF x + 1 = UINT THEN 0 ELSE x + 1
    BY Increment, SMT
  <2> QED
    BY <2>1, <2>2
<1>3. R - 1 \in 0 .. UINT - 1 /\ (w = r' + (R - 1) \/ w + UINT = r' + (R - 1))
  BY <1>1, <1>2, SMT
<1> QED
  BY <1>1, <1>2, <1>3, DistIs, SMT

-----------------------------------------------------------------------------
\* The ring buffer.

\* The two windows are stretches of the ring.
LEMMA Windows ==
  /\ Line = RingSeq(buf, w, L, INPUT_BUF)
  /\ Ready = RingSeq(buf, r, R, INPUT_BUF)
  /\ Line' = RingSeq(buf', w', L', INPUT_BUF)
  /\ Ready' = RingSeq(buf', r', R', INPUT_BUF)
BY DEF Line, Ready, Window, L, R, RingSeq

\* They are sequences.
LEMMA WindowsAreSeqs ==
  ASSUME TypeOK
  PROVE  /\ IsRing(buf, INPUT_BUF, Byte)
         /\ Line \in Seq(Byte) /\ Len(Line) = L
         /\ Ready \in Seq(Byte) /\ Len(Ready) = R
<1>1. /\ IsRing(buf, INPUT_BUF, Byte)
      /\ r \in Nat /\ w \in Nat /\ L \in Nat /\ R \in Nat
  BY Sizes, Indices, SMT DEF TypeOK, IsRing, Byte
<1>2. /\ RingSeq(buf, w, L, INPUT_BUF) \in Seq(Byte)
      /\ Len(RingSeq(buf, w, L, INPUT_BUF)) = L
  BY <1>1, RingIsSeq, SMT
<1>3. /\ RingSeq(buf, r, R, INPUT_BUF) \in Seq(Byte)
      /\ Len(RingSeq(buf, r, R, INPUT_BUF)) = R
  BY <1>1, RingIsSeq, SMT
<1> QED
  BY <1>1, <1>2, <1>3, Windows

\* A stretch that begins at an index or a turn of it later.
LEMMA Turned ==
  ASSUME NEW x \in Nat, NEW y \in Nat, x = y \/ x + UINT = y,
         NEW d, NEW len \in Nat
  PROVE  RingSeq(d, x, len, INPUT_BUF) = RingSeq(d, y, len, INPUT_BUF)
<1>1. RingSeq(d, x + UINT, len, INPUT_BUF) = RingSeq(d, x, len, INPUT_BUF)
  <2>1. UINT \in Nat
    BY Sizes
  <2> QED
    BY <2>1, Sizes, RingTurn
<1> QED
  BY <1>1

\* What is ready is followed by the line.
LEMMA Joined ==
  ASSUME TypeOK
  PROVE  RingSeq(buf, r, R + L, INPUT_BUF) = Ready \o Line
<1>1. /\ IsRing(buf, INPUT_BUF, Byte)
      /\ r \in Nat /\ w \in Nat /\ L \in Nat /\ R \in Nat
      /\ w = r + R \/ w + UINT = r + R
  BY Sizes, Indices, WindowsAreSeqs, SMT
<1>2. RingSeq(buf, r, R + L, INPUT_BUF) = RingJoin(buf, r, R, L, INPUT_BUF)
  BY <1>1, RingConcat
<1>3. r + R \in Nat
  BY <1>1, SMT
<1>4. RingSeq(buf, w, L, INPUT_BUF) = RingSeq(buf, r + R, L, INPUT_BUF)
  BY <1>1, <1>3, Turned, SMT
<1> QED
  BY <1>2, <1>4, Windows DEF RingJoin

\* The place of the next character, seen from w and from r.
LEMMA TypePlace ==
  ASSUME TypeOK, NEW c, buf' = [buf EXCEPT ![e % INPUT_BUF] = c]
  PROVE  /\ Stored(buf, buf', w, L, INPUT_BUF, c)
         /\ Stored(buf, buf', r, R + L, INPUT_BUF, c)
<1>1. /\ e \in Int /\ w \in Nat /\ r \in Nat /\ L \in Nat /\ R \in Nat
      /\ e = w + L \/ e + UINT = w + L
      /\ e = r + (R + L) \/ e + UINT = r + (R + L)
  BY Sizes, Indices, SMT
<1>2. (e + UINT) % INPUT_BUF = e % INPUT_BUF
  BY <1>1, Sizes, ModPeriodic
<1>3. e % INPUT_BUF = (w + L) % INPUT_BUF
  BY <1>1, <1>2
<1>4. e % INPUT_BUF = (r + (R + L)) % INPUT_BUF
  BY <1>1, <1>2
<1> QED
  BY <1>3, <1>4 DEF Stored

\* A character of an unfinished line.
LEMMA TypeEffect ==
  ASSUME TypeOK, NEW c \in Char, R + L < INPUT_BUF,
         Stored(buf, buf', w, L, INPUT_BUF, c),
         Stored(buf, buf', r, R + L, INPUT_BUF, c),
         r' = r, w' = w, L' = L + 1, R' = R
  PROVE  Line' = Append(Line, c) /\ Ready' = Ready
<1>1. /\ IsRing(buf, INPUT_BUF, Byte) /\ c \in Byte
      /\ w \in Nat /\ r \in Nat /\ L \in Nat /\ R \in Nat /\ L < INPUT_BUF
      /\ R + L \in R .. INPUT_BUF - 1
  BY Sizes, Indices, WindowsAreSeqs, SMT DEF Byte
<1>2. RingSeq(buf', w, L + 1, INPUT_BUF) = Append(RingSeq(buf, w, L, INPUT_BUF), c)
  BY <1>1, RingAppend, SMT
<1>3. RingSeq(buf', r, R, INPUT_BUF) = RingSeq(buf, r, R, INPUT_BUF)
  BY <1>1, RingOther, SMT
<1> QED
  BY <1>2, <1>3, Windows

\* A character that finishes the line.
LEMMA FinishEffect ==
  ASSUME TypeOK, NEW c \in Char, R + L < INPUT_BUF,
         Stored(buf, buf', r, R + L, INPUT_BUF, c),
         r' = r, L' = 0, R' = R + L + 1, w' \in Nat
  PROVE  Line' = << >> /\ Ready' = Ready \o Append(Line, c)
<1>1. /\ IsRing(buf, INPUT_BUF, Byte) /\ c \in Byte
      /\ r \in Nat /\ R + L \in Nat
      /\ Line \in Seq(Byte) /\ Ready \in Seq(Byte)
  BY Sizes, Indices, WindowsAreSeqs, SMT DEF Byte
<1>2. /\ IsRing(buf', INPUT_BUF, Byte)
      /\ RingSeq(buf', r, R + L + 1, INPUT_BUF)
            = Append(RingSeq(buf, r, R + L, INPUT_BUF), c)
  BY <1>1, RingAppend, SMT
<1>3. Append(Ready \o Line, c) = Ready \o Append(Line, c)
  <2>1. Ready \o Line \in Seq(Byte) /\ <<c>> \in Seq(Byte)
    BY <1>1, ConcatProperties, SMT
  <2>2. Append(Ready \o Line, c) = (Ready \o Line) \o <<c>>
    BY <1>1, <2>1, AppendIsConcat
  <2>3. (Ready \o Line) \o <<c>> = Ready \o (Line \o <<c>>)
    <3>1. \A x, y, z \in Seq(Byte) : (x \o y) \o z = x \o (y \o z)
      BY ConcatAssociative, SMT
    <3> QED
      BY <1>1, <2>1, <3>1
  <2>4. Append(Line, c) = Line \o <<c>>
    BY <1>1, AppendIsConcat
  <2> QED
    BY <2>2, <2>3, <2>4
<1>4. Ready' = Ready \o Append(Line, c)
  BY <1>2, <1>3, Joined, Windows
<1>5. RingSeq(buf', w', 0, INPUT_BUF) = << >>
  BY <1>2, RingEmpty
<1> QED
  BY <1>4, <1>5, Windows

\* A line that is erased, and one that loses its last character.
LEMMA KillEffect ==
  ASSUME TypeOK, e' = w, UNCHANGED <<buf, r, w>>
  PROVE  L' = 0 /\ R' = R /\ Line' = << >> /\ Ready' = Ready
<1>1. IsRing(buf, INPUT_BUF, Byte) /\ w \in Nat /\ w \in 0 .. UINT - 1
  BY Sizes, Indices, WindowsAreSeqs, SMT
<1>2. Dist(w, w) = 0
  BY <1>1, DistFacts
<1>3. RingSeq(buf, w, 0, INPUT_BUF) = << >>
  BY <1>1, RingEmpty
<1> QED
  BY <1>2, <1>3, Windows DEF L, R

LEMMA EraseEffect ==
  ASSUME TypeOK, L > 0, L' = L - 1, UNCHANGED <<buf, r, w>>
  PROVE  /\ Line # << >> /\ Line' = SubSeq(Line, 1, Len(Line) - 1)
         /\ R' = R /\ Ready' = Ready
<1>1. /\ IsRing(buf, INPUT_BUF, Byte)
      /\ w \in Nat /\ L \in Nat /\ L - 1 \in Nat /\ L - 1 <= L
      /\ Line \in Seq(Byte) /\ Len(Line) = L
  BY Sizes, Indices, WindowsAreSeqs, SMT
<1>2. RingSeq(buf, w, L - 1, INPUT_BUF)
         = SubSeq(RingSeq(buf, w, L, INPUT_BUF), 1, L - 1)
  BY <1>1, RingFront, SMT
<1>3. Line # << >>
  BY <1>1, EmptySeq, SMT
<1>4. R' = R
  BY DEF R
<1> QED
  BY <1>1, <1>2, <1>3, <1>4, Windows

\* A character that is read.
LEMMA TakeEffect ==
  ASSUME TypeOK, R > 0, R' = R - 1, r' \in Nat,
         r' = r + 1 \/ r' + UINT = r + 1, UNCHANGED <<buf, w, e>>
  PROVE  /\ Ready # << >> /\ Ready' = Tail(Ready)
         /\ Line' = Line /\ L' = L
<1>1. /\ IsRing(buf, INPUT_BUF, Byte) /\ r \in Nat /\ r + 1 \in Nat
      /\ R \in Nat /\ R - 1 \in Nat
      /\ Ready \in Seq(Byte) /\ Len(Ready) = R
  <2>1. R \in Nat /\ r \in 0 .. UINT - 1
    BY Indices
  <2>2. r \in Nat /\ r + 1 \in Nat /\ R - 1 \in Nat
    BY <2>1, Sizes, SMT
  <2> QED
    BY <2>1, <2>2, WindowsAreSeqs
<1>2. RingSeq(buf, r + 1, R - 1, INPUT_BUF) = Tail(RingSeq(buf, r, R, INPUT_BUF))
  BY <1>1, RingTail, SMT
<1>3. RingSeq(buf, r', R - 1, INPUT_BUF) = RingSeq(buf, r + 1, R - 1, INPUT_BUF)
  BY <1>1, Turned, SMT
<1>4. Ready # << >>
  BY <1>1, EmptySeq, SMT
<1>5. L' = L
  BY DEF L
<1> QED
  BY <1>2, <1>3, <1>4, <1>5, Windows

\* The next character to read.
LEMMA NextChar ==
  ASSUME TypeOK, r # w
  PROVE  Ready # << >> /\ Head(Ready) = buf[r % INPUT_BUF]
<1>1. R \in Nat /\ R > 0 /\ r \in Nat /\ 1 \in 1 .. R /\ r + 1 - 1 = r
  BY Sizes, Indices, SMT
<1>2. RingSeq(buf, r, R, INPUT_BUF)[1] = buf[(r + 1 - 1) % INPUT_BUF]
  BY <1>1, RingElement, SMT
<1>3. Ready \in Seq(Byte) /\ Len(Ready) = R
  BY WindowsAreSeqs
<1>4. Ready # << >>
  BY <1>1, <1>3, EmptySeq, SMT
<1>5. Head(Ready) = Ready[1]
  BY <1>3, <1>4, SMT
<1> QED
  BY <1>1, <1>2, <1>4, <1>5, Windows

-----------------------------------------------------------------------------
\* The inductive invariant.

\* cons.lock is held from acquire() to release() or sleep().
Locking ==
    \A p \in Proc : pc[p] \in {"loop", "sleep", "break", "poll"} <=> lock = p

\* The unfinished line has no end of a line in it, so ^U erases all of it; and
\* every place that a read can reach has been filled by the handler.
Lines ==
    /\ Line \in Seq(Char \ {"NL", "EOT"})
    /\ Ready \in Seq(Char)

\* consoleread() has stored target - n characters, and before the first read
\* and after the last nothing.
Reading ==
    \A p \in Proc :
        /\ n[p] <= target[p]
        /\ Len(dst[p]) = target[p] - n[p]
        /\ pc[p] \in {"user", "getch", "poll"} => n[p] = target[p]

\* A process sleeps, or is about to, only if there is nothing to read.
Waiting ==
    \A p \in Proc : pc[p] \in {"sleep", "asleep"} => r = w

IInv == TypeOK /\ Locking /\ Lines /\ Reading /\ Waiting

\* The two halves of the type invariant.
RingOK ==
    /\ buf \in [0 .. INPUT_BUF - 1 -> Char \cup {"NUL"}]
    /\ {r, w, e} \subseteq 0 .. UINT - 1
    /\ Dist(r, w) + Dist(w, e) <= INPUT_BUF

CallOK ==
    /\ keys \in Seq(Key) /\ Len(keys) <= MaxKeys
    /\ lock \in Proc \cup {Nobody}
    /\ killed \subseteq Proc
    /\ pc \in [Proc -> PC]
    /\ target \in [Proc -> 0 .. MaxN] /\ n \in [Proc -> 0 .. MaxN]
    /\ dst \in [Proc -> Seq(Char)]
    /\ \A p \in Proc : Len(dst[p]) <= MaxN

LEMMA TypeHalves ==
  /\ TypeOK <=> RingOK /\ CallOK
  /\ TypeOK' <=> RingOK' /\ CallOK'
BY DEF TypeOK, RingOK, CallOK

\* Steps that leave the ring alone leave the two windows alone.
LEMMA WindowsSame ==
  ASSUME UNCHANGED input
  PROVE  Line' = Line /\ Ready' = Ready /\ L' = L /\ R' = R
BY DEF input, Line, Ready, Window, L, R, Dist

\* A character is taken from the keyboard.
LEMMA TailKeys ==
  ASSUME TypeOK, keys # << >>
  PROVE  /\ Head(keys) \in Key
         /\ Tail(keys) \in Seq(Key) /\ Len(Tail(keys)) <= MaxKeys
<1>1. /\ Head(keys) \in Key
      /\ Tail(keys) \in Seq(Key) /\ Len(Tail(keys)) = Len(keys) - 1
  BY HeadTailProperties DEF TypeOK
<1>2. Len(keys) \in Nat /\ Len(keys) <= MaxKeys
  BY LenProperties DEF TypeOK
<1> QED
  BY <1>1, <1>2, ConsoleAssumption, SMT

\* A key is pressed.
LEMMA StepPress ==
  ASSUME IInv, NEW c \in Key, Press(c)
  PROVE  IInv'
<1> USE DEF IInv
<1>0. Line' = Line /\ Ready' = Ready /\ UNCHANGED <<buf, r, w, e>>
  BY WindowsSame DEF Press, input
<1>k. keys' \in Seq(Key) /\ Len(keys') <= MaxKeys
  BY ConsoleAssumption, AppendProperties, SMT DEF Press, TypeOK
<1>1. TypeOK'
  <2>1. CallOK'
    BY <1>k, TypeHalves, ConsoleAssumption DEF Press, CallOK, PC
  <2>2. RingOK'
    BY <1>0, TypeHalves DEF RingOK, Dist
  <2> QED
    BY <2>1, <2>2, TypeHalves
<1>2. Locking'
  BY ConsoleAssumption DEF Press, TypeOK, Locking
<1>3. Lines'
  BY <1>0 DEF Lines
<1>4. Reading'
  BY ConsoleAssumption DEF Press, TypeOK, Reading
<1>5. Waiting'
  BY <1>0 DEF Press, TypeOK, Waiting
<1> QED
  BY <1>1, <1>2, <1>3, <1>4, <1>5

\* The handler drops a character.
LEMMA StepIgnore ==
  ASSUME IInv, IntrIgnore
  PROVE  IInv'
<1> USE DEF IInv
<1>0. Line' = Line /\ Ready' = Ready /\ UNCHANGED <<buf, r, w, e>>
  BY WindowsSame DEF IntrIgnore, Getc, input
<1>k. keys' \in Seq(Key) /\ Len(keys') <= MaxKeys
  BY TailKeys DEF IntrIgnore, Getc
<1>1. TypeOK'
  <2>1. CallOK'
    BY <1>k, TypeHalves, ConsoleAssumption DEF IntrIgnore, Getc, CallOK, PC
  <2>2. RingOK'
    BY <1>0, TypeHalves DEF RingOK, Dist
  <2> QED
    BY <2>1, <2>2, TypeHalves
<1>2. Locking'
  BY ConsoleAssumption DEF IntrIgnore, Getc, TypeOK, Locking
<1>3. Lines'
  BY <1>0 DEF Lines
<1>4. Reading'
  BY ConsoleAssumption DEF IntrIgnore, Getc, TypeOK, Reading
<1>5. Waiting'
  BY <1>0 DEF IntrIgnore, Getc, TypeOK, Waiting
<1> QED
  BY <1>1, <1>2, <1>3, <1>4, <1>5

\* A read begins.
LEMMA StepCall ==
  ASSUME IInv, NEW p \in Proc, NEW k \in 0 .. MaxN, Call(p, k)
  PROVE  IInv'
<1> USE DEF IInv
<1>0. Line' = Line /\ Ready' = Ready /\ UNCHANGED <<buf, r, w, e>>
  BY WindowsSame DEF Call, Goto, input
<1>1. TypeOK'
  <2>1. CallOK'
    BY TypeHalves, ConsoleAssumption DEF Call, Goto, CallOK, PC
  <2>2. RingOK'
    BY <1>0, TypeHalves DEF RingOK, Dist
  <2> QED
    BY <2>1, <2>2, TypeHalves
<1>2. Locking'
  BY ConsoleAssumption DEF Call, Goto, TypeOK, Locking
<1>3. Lines'
  BY <1>0 DEF Lines
<1>4. Reading'
  BY ConsoleAssumption, SMT DEF Call, Goto, TypeOK, Reading
<1>5. Waiting'
  BY <1>0 DEF Call, Goto, TypeOK, Waiting
<1> QED
  BY <1>1, <1>2, <1>3, <1>4, <1>5

\* The lock is taken.
LEMMA StepAcquire ==
  ASSUME IInv, NEW p \in Proc, Acquire(p)
  PROVE  IInv'
<1> USE DEF IInv
<1>0. Line' = Line /\ Ready' = Ready /\ UNCHANGED <<buf, r, w, e>>
  BY WindowsSame DEF Acquire, Goto, input
<1>1. TypeOK'
  <2>1. CallOK'
    BY TypeHalves, ConsoleAssumption DEF Acquire, Goto, CallOK, PC
  <2>2. RingOK'
    BY <1>0, TypeHalves DEF RingOK, Dist
  <2> QED
    BY <2>1, <2>2, TypeHalves
<1>2. Locking'
  BY ConsoleAssumption DEF Acquire, Goto, TypeOK, Locking
<1>3. Lines'
  BY <1>0 DEF Lines
<1>4. Reading'
  BY ConsoleAssumption DEF Acquire, Goto, TypeOK, Reading
<1>5. Waiting'
  BY <1>0 DEF Acquire, Goto, TypeOK, Waiting
<1> QED
  BY <1>1, <1>2, <1>3, <1>4, <1>5

\* A read returns.
LEMMA StepReadReturn ==
  ASSUME IInv, NEW p \in Proc, ReadReturn(p)
  PROVE  IInv'
<1> USE DEF IInv
<1>0. Line' = Line /\ Ready' = Ready /\ UNCHANGED <<buf, r, w, e>>
  BY WindowsSame DEF ReadReturn, Goto, input
<1>d. /\ dst' \in [Proc -> Seq(Char)]
      /\ \A q \in Proc : Len(dst'[q]) <= MaxN
  <2>1. << >> \in Seq(Char) /\ Len(<< >>) = 0
    BY EmptySeq
  <2> QED
    BY <2>1, ConsoleAssumption, SMT DEF ReadReturn, TypeOK
<1>1. TypeOK'
  <2>1. CallOK'
    BY <1>d, TypeHalves, ConsoleAssumption, SMT DEF ReadReturn, Goto, CallOK, PC
  <2>2. RingOK'
    BY <1>0, TypeHalves DEF RingOK, Dist
  <2> QED
    BY <2>1, <2>2, TypeHalves
<1>2. Locking'
  BY ConsoleAssumption DEF ReadReturn, Goto, TypeOK, Locking
<1>3. Lines'
  BY <1>0 DEF Lines
<1>4. Reading'
  BY ConsoleAssumption, EmptySeq, SMT DEF ReadReturn, Goto, TypeOK, Reading
<1>5. Waiting'
  BY <1>0 DEF ReadReturn, Goto, TypeOK, Waiting
<1> QED
  BY <1>1, <1>2, <1>3, <1>4, <1>5

\* There is nothing to read.
LEMMA StepReadWait ==
  ASSUME IInv, NEW p \in Proc, ReadWait(p)
  PROVE  IInv'
<1> USE DEF IInv
<1>0. Line' = Line /\ Ready' = Ready /\ UNCHANGED <<buf, r, w, e>>
  BY WindowsSame DEF ReadWait, Goto, input
<1>1. TypeOK'
  <2>1. CallOK'
    BY TypeHalves, ConsoleAssumption DEF ReadWait, Goto, CallOK, PC
  <2>2. RingOK'
    BY <1>0, TypeHalves DEF RingOK, Dist
  <2> QED
    BY <2>1, <2>2, TypeHalves
<1>2. Locking'
  BY ConsoleAssumption DEF ReadWait, Goto, TypeOK, Locking
<1>3. Lines'
  BY <1>0 DEF Lines
<1>4. Reading'
  BY ConsoleAssumption DEF ReadWait, Goto, TypeOK, Reading
<1>5. Waiting'
  BY <1>0 DEF ReadWait, Goto, TypeOK, Waiting
<1> QED
  BY <1>1, <1>2, <1>3, <1>4, <1>5

\* sleep() releases the lock.
LEMMA StepSleep ==
  ASSUME IInv, NEW p \in Proc, Sleep(p)
  PROVE  IInv'
<1> USE DEF IInv
<1>0. Line' = Line /\ Ready' = Ready /\ UNCHANGED <<buf, r, w, e>>
  BY WindowsSame DEF Sleep, Goto, input
<1>1. TypeOK'
  <2>1. CallOK'
    BY TypeHalves, ConsoleAssumption DEF Sleep, Goto, CallOK, PC
  <2>2. RingOK'
    BY <1>0, TypeHalves DEF RingOK, Dist
  <2> QED
    BY <2>1, <2>2, TypeHalves
<1>2. Locking'
  BY ConsoleAssumption DEF Sleep, Goto, TypeOK, Locking
<1>3. Lines'
  BY <1>0 DEF Lines
<1>4. Reading'
  BY ConsoleAssumption DEF Sleep, Goto, TypeOK, Reading
<1>5. Waiting'
  BY <1>0 DEF Sleep, Goto, TypeOK, Waiting
<1> QED
  BY <1>1, <1>2, <1>3, <1>4, <1>5

\* getch() begins.
LEMMA StepGetch ==
  ASSUME IInv, NEW p \in Proc, Getch(p)
  PROVE  IInv'
<1> USE DEF IInv
<1>0. Line' = Line /\ Ready' = Ready /\ UNCHANGED <<buf, r, w, e>>
  BY WindowsSame DEF Getch, Goto, input
<1>1. TypeOK'
  <2>1. CallOK'
    BY TypeHalves, ConsoleAssumption DEF Getch, Goto, CallOK, PC
  <2>2. RingOK'
    BY <1>0, TypeHalves DEF RingOK, Dist
  <2> QED
    BY <2>1, <2>2, TypeHalves
<1>2. Locking'
  BY ConsoleAssumption DEF Getch, Goto, TypeOK, Locking
<1>3. Lines'
  BY <1>0 DEF Lines
<1>4. Reading'
  BY ConsoleAssumption DEF Getch, Goto, TypeOK, Reading
<1>5. Waiting'
  BY <1>0 DEF Getch, Goto, TypeOK, Waiting
<1> QED
  BY <1>1, <1>2, <1>3, <1>4, <1>5

\* getch() takes the lock.
LEMMA StepGetchAcquire ==
  ASSUME IInv, NEW p \in Proc, GetchAcquire(p)
  PROVE  IInv'
<1> USE DEF IInv
<1>0. Line' = Line /\ Ready' = Ready /\ UNCHANGED <<buf, r, w, e>>
  BY WindowsSame DEF GetchAcquire, Goto, input
<1>1. TypeOK'
  <2>1. CallOK'
    BY TypeHalves, ConsoleAssumption DEF GetchAcquire, Goto, CallOK, PC
  <2>2. RingOK'
    BY <1>0, TypeHalves DEF RingOK, Dist
  <2> QED
    BY <2>1, <2>2, TypeHalves
<1>2. Locking'
  BY ConsoleAssumption DEF GetchAcquire, Goto, TypeOK, Locking
<1>3. Lines'
  BY <1>0 DEF Lines
<1>4. Reading'
  BY ConsoleAssumption DEF GetchAcquire, Goto, TypeOK, Reading
<1>5. Waiting'
  BY <1>0 DEF GetchAcquire, Goto, TypeOK, Waiting
<1> QED
  BY <1>1, <1>2, <1>3, <1>4, <1>5

\* getch() drops what a key release brought.
LEMMA StepGetchSkip ==
  ASSUME IInv, NEW p \in Proc, GetchSkip(p)
  PROVE  IInv'
<1> USE DEF IInv
<1>0. Line' = Line /\ Ready' = Ready /\ UNCHANGED <<buf, r, w, e>>
  BY WindowsSame DEF GetchSkip, input
<1>k. keys' \in Seq(Key) /\ Len(keys') <= MaxKeys
  <2>1. Tail(keys) \in Seq(Key) /\ Len(Tail(keys)) = Len(keys) - 1
    BY HeadTailProperties DEF GetchSkip, TypeOK
  <2>2. CASE Len(keys) > 1
    <3>1. Len(keys) \in Nat /\ Len(keys) <= MaxKeys
      BY LenProperties DEF TypeOK
    <3>2. Tail(keys) # << >>
      <4>1. Len(Tail(keys)) # 0
        BY <2>1, <2>2, <3>1, SMT
      <4>2. Len(<< >>) = 0
        BY EmptySeq
      <4> QED
        BY <4>1, <4>2
    <3>3. /\ Tail(Tail(keys)) \in Seq(Key)
          /\ Len(Tail(Tail(keys))) = Len(Tail(keys)) - 1
      BY <2>1, <3>2, HeadTailProperties
    <3> QED
      BY <2>1, <2>2, <3>1, <3>3, ConsoleAssumption, SMT DEF GetchSkip
  <2>3. CASE ~(Len(keys) > 1)
    BY <2>3, ConsoleAssumption, EmptySeq, SMT DEF GetchSkip
  <2> QED
    BY <2>2, <2>3
<1>1. TypeOK'
  <2>1. CallOK'
    BY <1>k, TypeHalves, ConsoleAssumption DEF GetchSkip, CallOK, PC
  <2>2. RingOK'
    BY <1>0, TypeHalves DEF RingOK, Dist
  <2> QED
    BY <2>1, <2>2, TypeHalves
<1>2. Locking'
  BY ConsoleAssumption DEF GetchSkip, TypeOK, Locking
<1>3. Lines'
  BY <1>0 DEF Lines
<1>4. Reading'
  BY ConsoleAssumption DEF GetchSkip, TypeOK, Reading
<1>5. Waiting'
  BY <1>0 DEF GetchSkip, TypeOK, Waiting
<1> QED
  BY <1>1, <1>2, <1>3, <1>4, <1>5

\* getch() returns.
LEMMA StepGetchReturn ==
  ASSUME IInv, NEW p \in Proc, GetchReturn(p)
  PROVE  IInv'
<1> USE DEF IInv
<1>0. Line' = Line /\ Ready' = Ready /\ UNCHANGED <<buf, r, w, e>>
  BY WindowsSame DEF GetchReturn, Goto, input
<1>k. keys' \in Seq(Key) /\ Len(keys') <= MaxKeys
  BY TailKeys DEF GetchReturn
<1>1. TypeOK'
  <2>1. CallOK'
    BY <1>k, TypeHalves, ConsoleAssumption DEF GetchReturn, Goto, CallOK, PC
  <2>2. RingOK'
    BY <1>0, TypeHalves DEF RingOK, Dist
  <2> QED
    BY <2>1, <2>2, TypeHalves
<1>2. Locking'
  BY ConsoleAssumption DEF GetchReturn, Goto, TypeOK, Locking
<1>3. Lines'
  BY <1>0 DEF Lines
<1>4. Reading'
  BY ConsoleAssumption DEF GetchReturn, Goto, TypeOK, Reading
<1>5. Waiting'
  BY <1>0 DEF GetchReturn, Goto, TypeOK, Waiting
<1> QED
  BY <1>1, <1>2, <1>3, <1>4, <1>5

\* A process is killed.
LEMMA StepKill ==
  ASSUME IInv, NEW p \in Proc, Kill(p)
  PROVE  IInv'
<1> USE DEF IInv
<1>0. Line' = Line /\ Ready' = Ready /\ UNCHANGED <<buf, r, w, e>>
  BY WindowsSame DEF Kill, input
<1>1. TypeOK'
  <2>1. CallOK'
    BY TypeHalves, ConsoleAssumption DEF Kill, CallOK, PC
  <2>2. RingOK'
    BY <1>0, TypeHalves DEF RingOK, Dist
  <2> QED
    BY <2>1, <2>2, TypeHalves
<1>2. Locking'
  BY ConsoleAssumption DEF Kill, TypeOK, Locking
<1>3. Lines'
  BY <1>0 DEF Lines
<1>4. Reading'
  BY ConsoleAssumption DEF Kill, TypeOK, Reading
<1>5. Waiting'
  BY <1>0 DEF Kill, TypeOK, Waiting
<1> QED
  BY <1>1, <1>2, <1>3, <1>4, <1>5

\* ^U: the whole line goes.
LEMMA StepKillLine ==
  ASSUME IInv, IntrKillLine
  PROVE  IInv' /\ Line' = << >> /\ Ready' = Ready
<1> USE DEF IInv
<1>0. e' = w
  <2>1. PICK k \in 0 .. Dist(w, e) :
           (k > 0 => Window(w, e)[k] = "NL") /\ e' = (w + k) % UINT
    BY DEF IntrKillLine
  <2>2. k = 0
    <3>1. L \in Nat /\ Len(Line) = L /\ k \in 0 .. L
      BY Indices, WindowsAreSeqs DEF L
    <3>2. \A j \in 1 .. L : Line[j] # "NL"
      BY <3>1, ElementOfSeq, SMT DEF Lines
    <3> QED
      BY <2>1, <3>1, <3>2, SMT DEF Line
  <2>3. w \in 0 .. UINT - 1
    BY Indices
  <2>4. w % UINT = w
    BY <2>3, Sizes, ModSame, SMT
  <2> QED
    BY <2>1, <2>2, <2>3, <2>4, SMT
<1>a. L' = 0 /\ R' = R /\ Line' = << >> /\ Ready' = Ready
  BY <1>0, KillEffect DEF IntrKillLine
<1>k. keys' \in Seq(Key) /\ Len(keys') <= MaxKeys
  BY TailKeys DEF IntrKillLine, Getc
<1>x. /\ w \in 0 .. UINT - 1 /\ R \in Nat /\ L \in Nat /\ R + L <= INPUT_BUF
  BY Indices
<1>y. Dist(r, w)' + Dist(w, e)' <= INPUT_BUF
  BY <1>a, <1>x, Sizes, SMT DEF L, R
<1>1. TypeOK'
  BY <1>0, <1>k, <1>x, <1>y DEF IntrKillLine, Getc, TypeOK, PC
<1>2. Locking'
  BY DEF IntrKillLine, Getc, Locking
<1>3. Lines'
  BY <1>a, EmptySeq DEF Lines
<1>4. Reading'
  BY DEF IntrKillLine, Getc, Reading
<1>5. Waiting'
  BY DEF IntrKillLine, Getc, Waiting
<1> QED
  BY <1>a, <1>1, <1>2, <1>3, <1>4, <1>5

\* Backspace: the last character of the line goes, if there is one.
LEMMA StepErase ==
  ASSUME IInv, IntrErase
  PROVE  /\ IInv' /\ Ready' = Ready
         /\ \/ Line # << >> /\ Line' = SubSeq(Line, 1, Len(Line) - 1)
            \/ Line' = Line
<1> USE DEF IInv
<1>1. CASE e = w
  <2>0. Line' = Line /\ Ready' = Ready /\ UNCHANGED <<buf, r, w, e>>
    BY <1>1, WindowsSame DEF IntrErase, input
  <2>k. keys' \in Seq(Key) /\ Len(keys') <= MaxKeys
    BY TailKeys DEF IntrErase, Getc
  <2>1. TypeOK'
    BY <2>0, <2>k DEF IntrErase, Getc, TypeOK, PC
  <2>2. Locking' /\ Reading'
    BY DEF IntrErase, Getc, Locking, Reading
  <2>3. Lines'
    BY <2>0 DEF Lines
  <2>4. Waiting'
    BY DEF IntrErase, Getc, Waiting
  <2> QED
    BY <2>0, <2>1, <2>2, <2>3, <2>4
<1>2. CASE e # w
  <2>0. e' \in 0 .. UINT - 1 /\ L' = L - 1 /\ L > 0
    BY <1>2, IndexErase DEF IntrErase, L
  <2>a. /\ Line # << >> /\ Line' = SubSeq(Line, 1, Len(Line) - 1)
        /\ R' = R /\ Ready' = Ready
    BY <2>0, EraseEffect DEF IntrErase
  <2>k. keys' \in Seq(Key) /\ Len(keys') <= MaxKeys
    BY TailKeys DEF IntrErase, Getc
  <2>x. R \in Nat /\ L \in Nat /\ R + L <= INPUT_BUF
    BY Indices
  <2>y. Dist(r, w)' + Dist(w, e)' <= INPUT_BUF
    BY <2>0, <2>a, <2>x, Sizes, SMT DEF L, R
  <2>1. TypeOK'
    BY <2>0, <2>k, <2>y DEF IntrErase, Getc, TypeOK, PC
  <2>2. Locking' /\ Reading'
    BY DEF IntrErase, Getc, Locking, Reading
  <2>3. Lines'
    <3>1. Len(Line) = L /\ L \in Nat
      BY <2>x, WindowsAreSeqs
    <3>2. \A k \in 1 .. L - 1 : Line[k] \in Char \ {"NL", "EOT"}
      BY <3>1, ElementOfSeq, SMT DEF Lines
    <3>3. SubSeq(Line, 1, L - 1) \in Seq(Char \ {"NL", "EOT"})
      BY <3>1, <3>2, SubSeqProperties, SMT
    <3> QED
      BY <2>a, <3>1, <3>3 DEF Lines
  <2>4. Waiting'
    BY DEF IntrErase, Getc, Waiting
  <2> QED
    BY <2>a, <2>1, <2>2, <2>3, <2>4
<1> QED
  BY <1>1, <1>2

\* A character goes into the ring, and finishes the line or not.
Finishes(c) == c \in {"NL", "EOT"} \/ R + L + 1 = INPUT_BUF

LEMMA CharEffect ==
  ASSUME IInv, IntrChar
  PROVE  \E c \in Char :
            /\ R + L < INPUT_BUF
            /\ e' \in 0 .. UINT - 1 /\ w' \in 0 .. UINT - 1
            /\ R' + L' <= INPUT_BUF
            /\ buf' \in [0 .. INPUT_BUF - 1 -> Byte]
            /\ \/ /\ Finishes(c) /\ Wakeup
                  /\ Line' = << >> /\ Ready' = Ready \o Append(Line, c)
               \/ /\ ~Finishes(c) /\ UNCHANGED <<w, pc>>
                  /\ Line' = Append(Line, c) /\ Ready' = Ready
<1> USE DEF IInv
<1> DEFINE c == Cook(Head(keys))
<1>1. c \in Char
  BY DEF IntrChar, Getc, Cook, Char
<1>2. /\ Dist(r, e) < INPUT_BUF /\ e' = (e + 1) % UINT /\ r' = r
      /\ buf' = [buf EXCEPT ![e % INPUT_BUF] = c]
      /\ IF c \in {"NL", "EOT"} \/ e' = (r + INPUT_BUF) % UINT
         THEN w' = e' /\ Wakeup
         ELSE UNCHANGED <<w, pc>>
  BY DEF IntrChar
<1> HIDE DEF c
<1>3. /\ R \in Nat /\ L \in Nat /\ R + L < INPUT_BUF /\ w \in 0 .. UINT - 1
  BY <1>2, Indices, Sizes
<1>4. /\ e' \in 0 .. UINT - 1
      /\ Dist(w, e') = L + 1 /\ Dist(r, e') = R + L + 1 /\ Dist(e', e') = 0
      /\ e' = (r + INPUT_BUF) % UINT <=> R + L + 1 = INPUT_BUF
  BY <1>2, IndexType
<1>5. /\ Stored(buf, buf', w, L, INPUT_BUF, c)
      /\ Stored(buf, buf', r, R + L, INPUT_BUF, c)
  BY <1>2, TypePlace
<1>6. buf' \in [0 .. INPUT_BUF - 1 -> Byte]
  BY <1>1, <1>2 DEF TypeOK, Byte
<1>7. CASE Finishes(c)
  <2>1. w' = e' /\ Wakeup
    BY <1>2, <1>4, <1>7 DEF Finishes
  <2>2. L' = 0 /\ R' = R + L + 1 /\ w' \in Nat
    BY <1>2, <1>4, <2>1, Sizes, SMT DEF L, R
  <2>3. Line' = << >> /\ Ready' = Ready \o Append(Line, c)
    BY <1>1, <1>2, <1>3, <1>5, <2>2, FinishEffect
  <2> QED
    <3>1. w' \in 0 .. UINT - 1 /\ R' + L' <= INPUT_BUF
      BY <1>3, <1>4, <2>1, <2>2, Sizes, SMT
    <3> QED
      BY <1>1, <1>3, <1>4, <1>6, <1>7, <2>1, <2>3, <3>1
<1>8. CASE ~Finishes(c)
  <2>1. UNCHANGED <<w, pc>>
    BY <1>2, <1>4, <1>8 DEF Finishes
  <2>2. L' = L + 1 /\ R' = R
    BY <1>2, <1>4, <2>1 DEF L, R, Dist
  <2>3. Line' = Append(Line, c) /\ Ready' = Ready
    BY <1>1, <1>2, <1>3, <1>5, <2>1, <2>2, TypeEffect
  <2> QED
    <3>1. w' \in 0 .. UINT - 1 /\ R' + L' <= INPUT_BUF
      BY <1>3, <2>1, <2>2, Sizes, SMT
    <3> QED
      BY <1>1, <1>3, <1>4, <1>6, <1>8, <2>1, <2>3, <3>1
<1> QED
  BY <1>7, <1>8

LEMMA StepChar ==
  ASSUME IInv, IntrChar
  PROVE  IInv'
<1> USE DEF IInv
<1>1. PICK c \in Char :
         /\ R + L < INPUT_BUF
         /\ e' \in 0 .. UINT - 1 /\ w' \in 0 .. UINT - 1
         /\ R' + L' <= INPUT_BUF
         /\ buf' \in [0 .. INPUT_BUF - 1 -> Byte]
         /\ \/ /\ Finishes(c) /\ Wakeup
               /\ Line' = << >> /\ Ready' = Ready \o Append(Line, c)
            \/ /\ ~Finishes(c) /\ UNCHANGED <<w, pc>>
               /\ Line' = Append(Line, c) /\ Ready' = Ready
  BY CharEffect
<1>k. keys' \in Seq(Key) /\ Len(keys') <= MaxKeys
  BY TailKeys DEF IntrChar, Getc
<1>r. r' = r /\ r \in 0 .. UINT - 1
  BY Indices DEF IntrChar
<1>p. pc' = pc \/ Wakeup
  BY <1>1
<1>y. Dist(r, w)' + Dist(w, e)' <= INPUT_BUF
  BY <1>1 DEF L, R
<1>2. TypeOK'
  <2>1. pc' \in [Proc -> PC]
    BY <1>p DEF Wakeup, TypeOK, PC
  <2> QED
    BY <1>1, <1>k, <1>r, <1>y, <2>1 DEF IntrChar, Getc, TypeOK, Byte
<1>3. Locking'
  <2>1. lock' = lock
    BY DEF IntrChar, Getc
  <2> QED
    BY <1>p, <2>1 DEF Wakeup, TypeOK, Locking
<1>4. Lines'
  <2>0. Line \in Seq(Char)
    <3>1. Char \ {"NL", "EOT"} \subseteq Char
      OBVIOUS
    <3> QED
      BY <3>1, SeqMonotonic DEF Lines
  <2>1. CASE Finishes(c)
    <3>1. Append(Line, c) \in Seq(Char)
      BY <2>0, AppendProperties
    <3>2. Ready \o Append(Line, c) \in Seq(Char)
      BY <3>1, ConcatProperties DEF Lines
    <3> QED
      BY <1>1, <2>1, <3>2, EmptySeq DEF Lines
  <2>2. CASE ~Finishes(c)
    <3>1. c \in Char \ {"NL", "EOT"}
      BY <2>2 DEF Finishes
    <3>2. Append(Line, c) \in Seq(Char \ {"NL", "EOT"})
      BY <3>1, AppendProperties DEF Lines
    <3> QED
      BY <1>1, <2>2, <3>2 DEF Lines
  <2> QED
    BY <2>1, <2>2
<1>5. Reading'
  <2>1. UNCHANGED <<n, target, dst>>
    BY DEF IntrChar, Getc
  <2> QED
    BY <1>p, <2>1 DEF Wakeup, TypeOK, Reading
<1>6. Waiting'
  <2>1. CASE Wakeup
    <3>1. lock = Nobody
      BY DEF IntrChar, Getc
    <3>2. \A p \in Proc : pc'[p] \notin {"sleep", "asleep"}
      BY <2>1, <3>1, ConsoleAssumption DEF Wakeup, TypeOK, Locking
    <3> QED
      BY <3>2 DEF Waiting
  <2>2. CASE UNCHANGED <<w, pc>>
    BY <1>r, <2>2 DEF Waiting
  <2> QED
    BY <1>1, <2>1, <2>2
<1> QED
  BY <1>2, <1>3, <1>4, <1>5, <1>6

\* What a read takes from the ring.
LEMMA ReadEffect ==
  ASSUME IInv, r # w, r' = (r + 1) % UINT, UNCHANGED <<buf, w, e>>
  PROVE  /\ r' \in 0 .. UINT - 1 /\ Dist(r, w)' + Dist(w, e)' <= INPUT_BUF
         /\ Ready # << >> /\ Head(Ready) = buf[r % INPUT_BUF]
         /\ Head(Ready) \in Char
         /\ Ready' = Tail(Ready) /\ Line' = Line /\ Lines'
<1> USE DEF IInv
<1>1. /\ r' \in 0 .. UINT - 1 /\ Dist(r', w) = R - 1 /\ R > 0
      /\ r' = r + 1 \/ r' + UINT = r + 1
  BY IndexRead
<1>2. R' = R - 1 /\ r' \in Nat
  BY <1>1, Sizes, SMT DEF R
<1>3. Ready # << >> /\ Ready' = Tail(Ready) /\ Line' = Line /\ L' = L
  BY <1>1, <1>2, TakeEffect
<1>4. Head(Ready) = buf[r % INPUT_BUF]
  BY NextChar
<1>5. Head(Ready) \in Char /\ Tail(Ready) \in Seq(Char)
  BY <1>3, HeadTailProperties DEF Lines
<1>6. R \in Nat /\ L \in Nat /\ R + L <= INPUT_BUF
  BY Indices
<1>7. Dist(r, w)' + Dist(w, e)' <= INPUT_BUF
  BY <1>2, <1>3, <1>6, Sizes, SMT DEF R, L
<1> QED
  BY <1>1, <1>3, <1>4, <1>5, <1>7 DEF Lines

\* ^D is read, and stays if the read has got something.
LEMMA StepReadEof ==
  ASSUME IInv, NEW p \in Proc, ReadEof(p)
  PROVE  /\ IInv' /\ Line' = Line
         /\ \/ Ready' = Ready
            \/ /\ Ready # << >> /\ Head(Ready) = "EOT"
               /\ dst[p] = << >> /\ Ready' = Tail(Ready)
<1> USE DEF IInv
<1>a. /\ r' \in 0 .. UINT - 1 /\ Dist(r, w)' + Dist(w, e)' <= INPUT_BUF
      /\ Line' = Line /\ Lines'
      /\ \/ Ready' = Ready
         \/ /\ Ready # << >> /\ Head(Ready) = "EOT"
            /\ dst[p] = << >> /\ Ready' = Tail(Ready)
  <2>1. CASE n[p] < target[p]
    <3>1. UNCHANGED <<buf, r, w, e>>
      BY <2>1 DEF ReadEof
    <3>2. Line' = Line /\ Ready' = Ready
      BY <3>1, WindowsSame DEF input
    <3>3. r \in 0 .. UINT - 1 /\ Dist(r, w) + Dist(w, e) <= INPUT_BUF
      BY DEF TypeOK
    <3> QED
      BY <3>1, <3>2, <3>3 DEF Lines, Dist
  <2>2. CASE ~(n[p] < target[p])
    <3>1. /\ r # w /\ r' = (r + 1) % UINT /\ UNCHANGED <<buf, w, e>>
          /\ buf[r % INPUT_BUF] = "EOT"
      BY <2>2 DEF ReadEof
    <3>2. dst[p] = << >>
      <4>1. /\ n[p] \in Nat /\ target[p] \in Nat /\ n[p] <= target[p]
            /\ Len(dst[p]) = target[p] - n[p] /\ dst[p] \in Seq(Char)
        BY ConsoleAssumption, SMT DEF TypeOK, Reading
      <4>2. Len(dst[p]) = 0
        BY <2>2, <4>1, SMT
      <4> QED
        BY <4>1, <4>2, EmptySeq
    <3> QED
      BY <3>1, <3>2, ReadEffect
  <2> QED
    BY <2>1, <2>2
<1>1. TypeOK'
  BY <1>a DEF ReadEof, Goto, TypeOK, PC
<1>2. Locking'
  BY DEF ReadEof, Goto, TypeOK, Locking
<1>4. Reading'
  BY DEF ReadEof, Goto, TypeOK, Reading
<1>5. Waiting'
  <2>1. \A q \in Proc : pc[q] \notin {"sleep", "asleep"}
    BY DEF ReadEof, Waiting
  <2> QED
    BY <2>1 DEF ReadEof, Goto, TypeOK, Waiting
<1> QED
  BY <1>a, <1>1, <1>2, <1>4, <1>5

\* A character is read.
LEMMA StepReadChar ==
  ASSUME IInv, NEW p \in Proc, ReadChar(p)
  PROVE  /\ IInv' /\ Line' = Line
         /\ Ready # << >> /\ Head(Ready) # "EOT" /\ Ready' = Tail(Ready)
         /\ dst' = [dst EXCEPT ![p] = Append(@, Head(Ready))]
<1> USE DEF IInv
<1> DEFINE c == buf[r % INPUT_BUF]
<1>0. /\ r # w /\ r' = (r + 1) % UINT /\ UNCHANGED <<buf, w, e>>
      /\ c # "EOT" /\ n[p] > 0
      /\ dst' = [dst EXCEPT ![p] = Append(@, c)]
      /\ n' = [n EXCEPT ![p] = @ - 1]
      /\ Goto(p, IF c = "NL" THEN "break" ELSE "loop")
      /\ pc[p] = "loop" /\ UNCHANGED <<keys, lock, killed, target>>
  BY DEF ReadChar
<1>a. /\ r' \in 0 .. UINT - 1 /\ Dist(r, w)' + Dist(w, e)' <= INPUT_BUF
      /\ Ready # << >> /\ Head(Ready) = c /\ c \in Char
      /\ Ready' = Tail(Ready) /\ Line' = Line /\ Lines'
  BY <1>0, ReadEffect
<1> HIDE DEF c
<1>b. /\ n[p] \in 0 .. MaxN /\ target[p] \in 0 .. MaxN /\ n[p] <= target[p]
      /\ Len(dst[p]) = target[p] - n[p] /\ dst[p] \in Seq(Char)
  BY DEF TypeOK, Reading
<1>c. /\ Append(dst[p], c) \in Seq(Char)
      /\ Len(Append(dst[p], c)) = target[p] - (n[p] - 1)
  <2>1. /\ Append(dst[p], c) \in Seq(Char)
        /\ Len(Append(dst[p], c)) = Len(dst[p]) + 1
    BY <1>a, <1>b, AppendProperties, SMT
  <2> QED
    BY <1>b, <2>1, ConsoleAssumption, SMT
<1>e. /\ dst' = [dst EXCEPT ![p] = Append(dst[p], c)]
      /\ n' = [n EXCEPT ![p] = n[p] - 1]
      /\ dst'[p] = Append(dst[p], c) /\ n'[p] = n[p] - 1
      /\ \A q \in Proc \ {p} : dst'[q] = dst[q] /\ n'[q] = n[q]
  BY <1>0 DEF TypeOK
<1>d. /\ dst' \in [Proc -> Seq(Char)]
      /\ \A q \in Proc : Len(dst'[q]) <= MaxN
      /\ n' \in [Proc -> 0 .. MaxN]
  <2>1. dst' \in [Proc -> Seq(Char)]
    BY <1>e, <1>c DEF TypeOK
  <2>2. n' \in [Proc -> 0 .. MaxN]
    <3>1. n[p] - 1 \in 0 .. MaxN
      BY <1>0, <1>b, ConsoleAssumption, SMT
    <3>2. n \in [Proc -> 0 .. MaxN]
      BY DEF TypeOK
    <3> QED
      BY <1>e, <3>1, <3>2
  <2>3. Len(dst'[p]) <= MaxN
    BY <1>0, <1>b, <1>c, <1>e, ConsoleAssumption, SMT
  <2>4. \A q \in Proc \ {p} : Len(dst'[q]) <= MaxN
    BY <1>e DEF TypeOK
  <2> QED
    BY <2>1, <2>2, <2>3, <2>4
<1>1. TypeOK'
  <2>1. pc' \in [Proc -> PC]
    BY <1>0, SMT DEF Goto, TypeOK, PC
  <2>2. /\ {r', w', e'} \subseteq 0 .. UINT - 1
        /\ {target', n'} \subseteq [Proc -> 0 .. MaxN]
    BY <1>0, <1>a, <1>d DEF TypeOK
  <2> QED
    BY <1>0, <1>a, <1>d, <2>1, <2>2 DEF TypeOK
<1>2. Locking'
  BY <1>0 DEF Goto, TypeOK, Locking
<1>4. Reading'
  <2>1. /\ n'[p] <= target[p] /\ Len(dst'[p]) = target[p] - n'[p]
        /\ pc'[p] \in {"loop", "break"}
    BY <1>0, <1>b, <1>c, <1>e, ConsoleAssumption, SMT DEF Goto, TypeOK
  <2>2. \A q \in Proc \ {p} : pc'[q] = pc[q]
    BY <1>0 DEF Goto, TypeOK
  <2>3. target' = target
    BY <1>0
  <2> QED
    BY <1>e, <2>1, <2>2, <2>3 DEF Reading
<1>5. Waiting'
  <2>1. \A q \in Proc : pc[q] \notin {"sleep", "asleep"}
    BY <1>0 DEF Waiting
  <2> QED
    BY <1>0, <2>1 DEF Goto, TypeOK, Waiting
<1> QED
  BY <1>0, <1>a, <1>1, <1>2, <1>4, <1>5

-----------------------------------------------------------------------------
LEMMA InitIInv == Init => IInv /\ Line = << >> /\ Ready = << >>
<1> SUFFICES ASSUME Init PROVE IInv /\ Line = << >> /\ Ready = << >>
  OBVIOUS
<1>0. 0 \in 0 .. UINT - 1 /\ Dist(0, 0) = 0
  <2>1. 0 \in 0 .. UINT - 1
    BY Sizes, SMT
  <2> QED
    BY <2>1, DistFacts
<1>1. TypeOK
  <2>1. << >> \in Seq(Key) /\ << >> \in Seq(Char) /\ Len(<< >>) = 0
    BY EmptySeq
  <2> QED
    BY <1>0, <2>1, ConsoleAssumption, SMT DEF Init, TypeOK, PC
<1>2. Line = << >> /\ Ready = << >>
  <2>1. IsRing(buf, INPUT_BUF, Byte)
    BY <1>1, WindowsAreSeqs
  <2>2. RingSeq(buf, 0, 0, INPUT_BUF) = << >>
    BY <2>1, RingEmpty
  <2> QED
    BY <1>0, <2>2, Windows DEF Init, L, R
<1>3. Locking /\ Waiting
  BY ConsoleAssumption DEF Init, Locking, Waiting
<1>4. Lines
  BY <1>2, EmptySeq DEF Lines
<1>5. Reading
  <2>1. Len(<< >>) = 0
    BY EmptySeq
  <2> QED
    BY <2>1, ConsoleAssumption, SMT DEF Init, Reading
<1> QED
  BY <1>1, <1>2, <1>3, <1>4, <1>5 DEF IInv

LEMMA NextIInv ==
  ASSUME IInv, [Next]_vars
  PROVE  IInv'
<1>1. CASE UNCHANGED vars
  <2>1. Line' = Line /\ Ready' = Ready
    BY <1>1, WindowsSame DEF vars
  <2> QED
    BY <1>1, <2>1 DEF vars, input, IInv, TypeOK, Locking, Lines, Reading,
       Waiting, Dist
<1>2. CASE Consoleintr
  BY <1>2, StepKillLine, StepErase, StepIgnore, StepChar DEF Consoleintr
<1>3. CASE \E c \in Key : Press(c)
  BY <1>3, StepPress
<1>4. ASSUME NEW p \in Proc,
             \/ \E k \in 0 .. MaxN : Call(p, k)
             \/ Getch(p)
             \/ Kill(p)
      PROVE  IInv'
  BY <1>4, StepCall, StepGetch, StepKill
<1>5. ASSUME NEW p \in Proc, Consoleread(p) PROVE IInv'
  BY <1>5, StepAcquire, StepReadWait, StepSleep, StepReadEof, StepReadChar,
     StepReadReturn DEF Consoleread
<1>6. ASSUME NEW p \in Proc, Consoleget(p) PROVE IInv'
  BY <1>6, StepGetchAcquire, StepGetchSkip, StepGetchReturn DEF Consoleget
<1> QED
  BY <1>1, <1>2, <1>3, <1>4, <1>5, <1>6 DEF Next

\* The invariant holds in every reachable state.
THEOREM ConsoleInvariant == Spec => []IInv
<1>1. Init => IInv
  BY InitIInv
<1>2. IInv /\ [Next]_vars => IInv'
  BY NextIInv
<1> QED
  BY <1>1, <1>2, PTL DEF Spec

\* No wakeup of a reader is lost, whatever finishes a line: a process sleeps in
\* consoleread() only while there is nothing to read (consoleintr, consoleread).
THEOREM NoLostWakeup == Spec => []SleepersHaveNothing
<1>1. IInv => SleepersHaveNothing
  BY DEF IInv, Waiting, SleepersHaveNothing
<1> QED
  BY <1>1, ConsoleInvariant, PTL

-----------------------------------------------------------------------------
\* A step of the console is a step of the line discipline, or none.
LEMMA NextRefines ==
  ASSUME IInv, [Next]_vars
  PROVE  [TtyImpl!Next]_TtyImpl!tvars
<1>1. CASE IntrKillLine
  <2>1. Line' = << >> /\ Ready' = Ready /\ dst' = dst
    BY <1>1, StepKillLine DEF IntrKillLine, Getc
  <2> QED
    BY <2>1 DEF TtyImpl!Next, TtyImpl!KillLine, Line, Ready
<1>2. CASE IntrErase
  <2>1. /\ Ready' = Ready /\ dst' = dst
        /\ \/ Line # << >> /\ Line' = SubSeq(Line, 1, Len(Line) - 1)
           \/ Line' = Line
    BY <1>2, StepErase DEF IntrErase, Getc
  <2> QED
    BY <2>1 DEF TtyImpl!Next, TtyImpl!Erase, TtyImpl!tvars, Line, Ready
<1>3. CASE IntrChar
  <2>1. PICK c \in Char :
           /\ R + L < INPUT_BUF
           /\ \/ /\ Finishes(c)
                 /\ Line' = << >> /\ Ready' = Ready \o Append(Line, c)
              \/ /\ ~Finishes(c)
                 /\ Line' = Append(Line, c) /\ Ready' = Ready
    BY <1>3, CharEffect
  <2>2. Len(Line) + Len(Ready) = R + L /\ R \in Nat /\ L \in Nat
    BY WindowsAreSeqs, Indices, SMT DEF IInv
  <2>3. dst' = dst
    BY <1>3 DEF IntrChar, Getc
  <2>4. TtyImpl!Type(c)
    BY <2>1, <2>2, <2>3, Sizes DEF TtyImpl!Type, Finishes, Line, Ready
  <2> QED
    BY <2>4 DEF TtyImpl!Next
<1>4. ASSUME NEW p \in Proc, ReadReturn(p) PROVE TtyImpl!Return(p)
  <2>1. Line' = Line /\ Ready' = Ready
    BY <1>4, WindowsSame DEF ReadReturn
  <2> QED
    BY <1>4, <2>1 DEF ReadReturn, TtyImpl!Return, Line, Ready
<1>5. ASSUME NEW p \in Proc, ReadChar(p) PROVE TtyImpl!Take(p)
  BY <1>5, StepReadChar DEF TtyImpl!Take, Line, Ready
<1>6. ASSUME NEW p \in Proc, ReadEof(p)
      PROVE  TtyImpl!TakeEof(p) \/ UNCHANGED TtyImpl!tvars
  <2>1. dst' = dst
    BY <1>6 DEF ReadEof
  <2> QED
    BY <1>6, <2>1, StepReadEof DEF TtyImpl!TakeEof, TtyImpl!tvars, Line, Ready
<1>7. ASSUME UNCHANGED <<input, dst>> PROVE UNCHANGED TtyImpl!tvars
  BY <1>7, WindowsSame DEF TtyImpl!tvars, Line, Ready
<1>8. CASE IntrIgnore \/ UNCHANGED vars \/ \E c \in Key : Press(c)
  BY <1>7, <1>8 DEF IntrIgnore, Getc, vars, Press
<1>9. ASSUME NEW p \in Proc,
             \/ \E k \in 0 .. MaxN : Call(p, k)
             \/ Getch(p) \/ Kill(p) \/ Acquire(p) \/ ReadWait(p) \/ Sleep(p)
             \/ GetchAcquire(p) \/ GetchSkip(p) \/ GetchReturn(p)
      PROVE  UNCHANGED TtyImpl!tvars
  BY <1>7, <1>9 DEF Call, Getch, Kill, Acquire, ReadWait, Sleep, GetchAcquire,
     GetchSkip, GetchReturn
<1> QED
  BY <1>1, <1>2, <1>3, <1>4, <1>5, <1>6, <1>8, <1>9
     DEF Next, Consoleintr, Consoleread, Consoleget, TtyImpl!Next

\* The ring buffer of console.c, with its three wrapping indices, is a line
\* discipline: what a read gets was typed, in order, in a finished line, with
\* nothing lost or read twice, and editing never reaches a finished line
\* (consoleintr, consoleread).
THEOREM ConsoleIsTty == Spec => TtySpec
<1>1. Init => TtyImpl!Init
  <2> SUFFICES ASSUME Init PROVE TtyImpl!Init
    OBVIOUS
  <2>1. Line = << >> /\ Ready = << >>
    BY InitIInv
  <2> QED
    BY <2>1 DEF Init, TtyImpl!Init, Line, Ready
<1>2. IInv /\ [Next]_vars => [TtyImpl!Next]_TtyImpl!tvars
  BY NextRefines
<1> QED
  BY <1>1, <1>2, ConsoleInvariant, PTL DEF Spec, TtySpec, TtyImpl!Spec
=============================================================================
