--------------------------- MODULE PrivateHeapInv ---------------------------
(***************************************************************************)
(* The inductive invariant of PrivateHeap, for any number of workers,      *)
(* bytes, word sizes and loops; what the accesses of an iteration do, and  *)
(* that they preserve it.                                                  *)
(***************************************************************************)
EXTENDS PrivateHeap, FiniteSetTheorems, WellFoundedInduction, TLAPS

-------------------------------------------------------------------------------
(* The inductive invariant *)

Owner(i)   == i % NumWorkers
GroupOf(i) == i \div Granularity

\* The number of checkpoints worker w has contributed to, and the workers that
\* have contributed to checkpoint g.
Given(w)       == IF iter[w] > End THEN Final + 1 ELSE iter[w] \div Granularity
Contributed(g) == {w \in Worker : Given(w) > g}

CountInv == \A g \in Group : chk[g].num_workers = Cardinality(Contributed(g))

\* Only complete checkpoints have been combined.
MergedInv == oldest > 0 => \A w \in Worker : Given(w) > oldest \/ Given(w) = Final + 1

\* Iteration i wrote byte b; it read it as it was before the loop.
Wrote(b, i)      == <<b, i>> \in written
ReadLiveIn(b, i) == <<b, i, -1>> \in seen

\* What iteration i did is not yet in a checkpoint.
Pending(i) == Given(Owner(i)) <= GroupOf(i)

\* A worker's metadata tell when it last wrote a byte, if it has.
WorkerInv(w, b) ==
  IF mem[w][b] = -1 THEN shadow[w][b] \in {LIVE_IN, READ_LIVE_IN}
  ELSE /\ Wrote(b, mem[w][b]) /\ Owner(mem[w][b]) = w
       /\ shadow[w][b] = code8(mem[w][b])

\* The worker has passed iteration i and has the byte in its range until the
\* next checkpoint.
Noted(b, i) ==
  /\ i <= iter[Owner(i)]
  /\ Pending(i) => b \in Span(lo[Owner(i)], hi[Owner(i)])

HistoryInv ==
  /\ \A b \in Byte, j \in Iter : Wrote(b, j) => Noted(b, j) /\ j <= mem[Owner(j)][b]
  /\ \A b \in Byte, i \in Iter :
       ReadLiveIn(b, i) => Noted(b, i) /\ shadow[Owner(i)][b] = READ_LIVE_IN
  /\ \A r \in seen : r[3] \in {-1, r[2]}

\* What iteration j did is in checkpoint g: as part of its group, or by
\* combination.
In(j, g) == ~Pending(j) /\ (GroupOf(j) = g \/ (g = oldest /\ GroupOf(j) < g))

\* A checkpoint has the last of the writes that are in it, and marks the bytes
\* that were read in its group and not written.
ChkInv(g, b) ==
  LET c == chk[g] IN
  /\ \A j \in Iter : Wrote(b, j) /\ In(j, g) =>
       WAS_WRITTEN_EVER(c.shadow[b]) /\ j <= c.priv[b]
  /\ WAS_WRITTEN_EVER(c.shadow[b]) =>
       /\ c.priv[b] \in Iter /\ Wrote(b, c.priv[b]) /\ In(c.priv[b], g)
       /\ c.shadow[b] = IF GroupOf(c.priv[b]) = g THEN code8(c.priv[b]) ELSE OLD_ITERATION
       /\ b \in Span(c.lo, c.hi)
  /\ \A i \in Iter : ReadLiveIn(b, i) /\ ~Pending(i) /\ GroupOf(i) = g =>
       c.shadow[b] = READ_LIVE_IN

\* No read that is in a combined checkpoint should have seen a write.
ReadInv ==
  \A b \in Byte, i, j \in Iter :
    ReadLiveIn(b, i) /\ GroupOf(i) < oldest /\ j < i => ~Wrote(b, j)

SoundInv ==
  /\ \A w \in Worker, b \in Byte : WorkerInv(w, b)
  /\ HistoryInv /\ ReadInv
  /\ \A g \in Group, b \in Byte : g >= oldest => ChkInv(g, b)
  /\ oldest > Final => Sequential

\* Nothing is marked as read before the first read.
UnreadInv ==
  seen = {} => /\ ~misspec /\ "refused" \notin excused
               /\ \A w \in Worker, b \in Byte : shadow[w][b] # READ_LIVE_IN
               /\ \A g \in Group, b \in Byte : chk[g].shadow[b] # READ_LIVE_IN

BasicInv ==
  /\ TypeOK /\ CountInv /\ MergedInv
  /\ misspec => oldest <= Final
  /\ oldest <= Final => \A b \in Byte : main[b] = -1

IInv ==
  /\ BasicInv /\ UnreadInv
  /\ excused = {} /\ ~misspec => SoundInv

-------------------------------------------------------------------------------
(* Arithmetic *)

LEMMA DivFacts ==
  ASSUME NEW a \in Nat, NEW N \in Nat \ {0}
  PROVE  /\ a % N \in Nat /\ a % N < N /\ a \div N \in Nat
         /\ a = N * (a \div N) + (a % N)
BY Z3

LEMMA ProductMono ==
  ASSUME NEW N \in Nat \ {0}, NEW p \in Nat, NEW q \in Nat, p < q
  PROVE  N * p + N <= N * q
BY Z3

LEMMA DivMono ==
  ASSUME NEW a \in Nat, NEW b \in Nat, a <= b, NEW N \in Nat \ {0}
  PROVE  a \div N <= b \div N
<1> SUFFICES ASSUME b \div N < a \div N PROVE FALSE
  BY DivFacts, Z3
<1>1. N * (b \div N) + N <= N * (a \div N)
  BY DivFacts, ProductMono
<1>2. QED  BY <1>1, DivFacts, Z3

LEMMA DivNext ==
  ASSUME NEW a \in Nat, NEW N \in Nat \ {0}
  PROVE  (a + 1) \div N = (a \div N) + (IF (a + 1) % N = 0 THEN 1 ELSE 0)
BY Z3

LEMMA SameDiv ==
  ASSUME NEW a \in Nat, NEW b \in Nat, NEW N \in Nat \ {0}, a \div N = b \div N
  PROVE  a < b <=> a % N < b % N
BY DivFacts, Z3

LEMMA NatMin ==
  ASSUME NEW T \in SUBSET Nat, T # {}
  PROVE  \E m \in T : \A k \in T : m <= k
<1>1. PICK m \in T : \A k \in T : <<k, m>> \notin OpToRel(<, Nat)
  BY NatLessThanWellFounded, WFMin, Zenon
<1>2. \A k \in T : ~(k < m)
  BY <1>1, Zenon DEF OpToRel
<1>3. QED  BY <1>2

LEMMA MinPair ==
  ASSUME NEW a \in Int, NEW b \in Int
  PROVE  Min({a, b}) = IF a <= b THEN a ELSE b
BY DEF Min

LEMMA MaxPair ==
  ASSUME NEW a \in Int, NEW b \in Int
  PROVE  Max({a, b}) = IF a <= b THEN b ELSE a
BY DEF Max

LEMMA MaxIs ==
  ASSUME NEW S \in SUBSET Int, NEW m \in S, \A x \in S : x <= m
  PROVE  Max(S) = m
<1>1. \A y \in S : m >= y
  OBVIOUS
<1>2. Max(S) \in S /\ \A y \in S : Max(S) >= y
  BY <1>1, Zenon DEF Max
<1>3. Max(S) \in Int /\ m \in Int /\ Max(S) >= m /\ m >= Max(S)
  BY <1>1, <1>2, Zenon
<1>4. QED  BY <1>3

-------------------------------------------------------------------------------
(* Strided reads *)

\* The recursive function of a strided read exists: it is the limit of the ones
\* for its first elements.
LEMMA StrideSteps ==
  ASSUME NEW m, NEW b, NEW n \in Nat, NEW width, NEW len, NEW s,
         s = StrideMarked(m, b, n, width, len)
  PROVE  /\ s[0] = m
         /\ \A i \in 0..(n - 1) : s[i + 1] = ElementMarked(s[i], b + i * width, len)
<1> DEFINE Step(f, i) == IF i = 0 THEN m ELSE ElementMarked(f[i - 1], b + (i - 1) * width, len)
           Upto(k) == \E f : f = [i \in 0..k |-> Step(f, i)]
           T == {k \in Nat : ~Upto(k)}
<1>1. Upto(0)
  <2>1. [i \in 0..0 |-> m] = [i \in 0..0 |-> Step([j \in 0..0 |-> m], i)]
    OBVIOUS
  <2>2. QED  BY <2>1, Zenon
<1>2. ASSUME NEW k \in Nat, Upto(k) PROVE Upto(k + 1)
  <2>1. PICK f : f = [i \in 0..k |-> Step(f, i)]
    BY <1>2, Zenon
  <2> DEFINE g == [i \in 0..(k + 1) |-> Step(f, i)]
  <2>2. ASSUME NEW i \in 0..(k + 1) PROVE Step(f, i) = Step(g, i)
    <3>1. CASE i = 0
      BY <3>1, Zenon
    <3>2. CASE i # 0
      <4>1. i - 1 \in 0..k /\ i - 1 \in 0..(k + 1)
        BY <3>2
      <4>2. f[i - 1] = Step(f, i - 1) /\ g[i - 1] = Step(f, i - 1)
        BY <2>1, <4>1, Zenon
      <4>3. QED  BY <4>2, Zenon
    <3>3. QED  BY <3>1, <3>2, Zenon
  <2>3. g = [i \in 0..(k + 1) |-> Step(g, i)]
    BY <2>2, Zenon
  <2>4. QED  BY <2>3, Zenon
<1>3. T = {}
  <2> SUFFICES ASSUME T # {} PROVE FALSE
    OBVIOUS
  <2>1. PICK k \in T : \A j \in T : k <= j
    BY NatMin, Zenon
  <2>2. k # 0
    BY <1>1, <2>1, Zenon
  <2>3. k \in Nat /\ k - 1 \in Nat /\ (k - 1) + 1 = k /\ ~(k <= k - 1)
    BY <2>1, <2>2
  <2>4. Upto(k - 1)
    BY <2>1, <2>3, Zenon
  <2>5. Upto((k - 1) + 1)
    BY <1>2, <2>3, <2>4, Zenon
  <2>6. Upto(k)
    BY <2>5, <2>3, Zenon
  <2>7. QED  BY <2>6, <2>1, Zenon
<1>4. Upto(n)
  BY <1>3, Zenon
<1>5. s = CHOOSE f : f = [i \in 0..n |-> Step(f, i)]
  BY Zenon DEF StrideMarked
<1>6. s = [i \in 0..n |-> Step(s, i)]
  <2> HIDE DEF Step
  <2>1. QED  BY <1>4, <1>5, Zenon
<1>7. 0 \in 0..n
  OBVIOUS
<1>8. s[0] = m
  BY <1>6, <1>7, Zenon
<1>9. ASSUME NEW i \in 0..(n - 1) PROVE s[i + 1] = ElementMarked(s[i], b + i * width, len)
  <2>1. i + 1 \in 0..n /\ i + 1 # 0 /\ (i + 1) - 1 = i
    OBVIOUS
  <2>2. s[i + 1] = ElementMarked(s[(i + 1) - 1], b + ((i + 1) - 1) * width, len)
    BY <1>6, <2>1, Zenon
  <2>3. QED  BY <2>1, <2>2, Zenon
<1>10. QED  BY <1>8, <1>9, Zenon

\* Induction up to n, over a set.
LEMMA UpTo ==
  ASSUME NEW n \in Nat, NEW Q, 0 \in Q, \A k \in 0..(n - 1) : k \in Q => k + 1 \in Q
  PROVE  0..n \subseteq Q
<1> DEFINE T == (0..n) \ Q
<1> SUFFICES ASSUME T # {} PROVE FALSE
  OBVIOUS
<1>1. PICK k \in T : \A j \in T : k <= j
  BY NatMin, T \in SUBSET Nat, Zenon
<1>2. k # 0
  BY <1>1, Zenon
<1>3. k - 1 \in 0..(n - 1) /\ k - 1 \in 0..n /\ (k - 1) + 1 = k /\ ~(k <= k - 1)
  BY <1>1, <1>2
<1>4. QED  BY <1>1, <1>3, Zenon

\* s has the marks of m, and possibly live-in bytes marked as read.
MarksOnly(m, s) ==
  \A c \in Byte : s[c] = m[c] \/ (m[c] = LIVE_IN /\ s[c] = READ_LIVE_IN)

LEMMA MarkIs ==
  ASSUME NEW m, NEW S
  PROVE  /\ MarksOnly(m, Mark(m, S))
         /\ \A c \in Byte \ S : Mark(m, S)[c] = m[c]
BY Zenon DEF MarksOnly, Mark

\* An element that is not two words is marked like any other read.
LEMMA ElementOther ==
  ASSUME NEW m, NEW a, NEW len, len # 2 * WordBytes
  PROVE  MarksOnly(m, ElementMarked(m, a, len))
<1>1. CASE len \in {Four, WordBytes}
  <2>1. ElementMarked(m, a, len) = Mark(m, Span(a, a + len))
    BY <1>1, Zenon DEF ElementMarked
  <2>2. QED  BY <2>1, MarkIs, Zenon
<1>2. CASE len \notin {Four, WordBytes}
  <2>1. ElementMarked(m, a, len) = RangeMarked(m, a, a + len)
    BY <1>2, Zenon DEF ElementMarked
  <2>2. QED  BY <2>1, MarkIs, Zenon DEF RangeMarked
<1>3. QED  BY <1>1, <1>2, Zenon

\* The third word is marked only if the second is all live-in.
LEMMA ElementTwo ==
  ASSUME NEW m, NEW a, NEW len, len = 2 * WordBytes, NEW c \in Byte,
         \/ c \notin Span(a + len, a + len + WordBytes)
         \/ \E d \in Span(a + WordBytes, a + len) : m[d] # LIVE_IN
  PROVE  ElementMarked(m, a, len)[c] = Mark(m, Span(a, a + WordBytes))[c]
<1>1. len \notin {Four, WordBytes}
  BY SizeAssumption
<1>2. QED  BY <1>1, Zenon DEF ElementMarked

\* Element i + 1 of a strided access begins behind element i.
LEMMA StrideOrder ==
  ASSUME NEW b \in Nat, NEW width \in Nat, NEW len \in Nat, width > len,
         NEW i \in Nat, NEW k \in Nat, i < k
  PROVE  b + k * width > b + i * width + len
<1>1. k * width >= i * width + width
  BY ProductMono, width \in Nat \ {0}
<1>2. i * width \in Nat /\ k * width \in Nat
  BY Z3
<1>3. QED  BY <1>1, <1>2

\* A strided access lies in its range.
LEMMA StrideSpan ==
  ASSUME NEW b \in Nat, NEW n \in Nat \ {0}, NEW width \in Nat, NEW len \in Nat \ {0},
         b + (n - 1) * width + len <= NumBytes, NEW i \in 0..(n - 1)
  PROVE  /\ b + i * width \in Nat /\ b + i * width + len <= b + (n - 1) * width + len
         /\ b + (n - 1) * width + len \in 0..NumBytes
         /\ b + i * width + len <= NumBytes
<1>1. i * width \in Nat /\ i * width <= (n - 1) * width /\ (n - 1) * width \in Nat
  BY Z3
<1> DEFINE p == i * width
           q == (n - 1) * width
<1> HIDE DEF p, q
<1>2. p \in Nat /\ q \in Nat /\ p <= q /\ b + q + len <= NumBytes /\ NumBytes \in Nat
  BY <1>1, SizeAssumption DEF p, q
<1>3. /\ b + p \in Nat /\ b + p + len <= b + q + len /\ b + q + len \in 0..NumBytes
      /\ b + p + len <= NumBytes
  BY <1>2
<1>4. QED  BY <1>3, Zenon DEF p, q

\* A strided read that leaves none of its bytes unmarked has marked only bytes
\* that it read: the third word behind an element of two is marked only if the
\* second stays unmarked.
LEMMA StrideMarks ==
  ASSUME NEW m, NEW b \in Nat, NEW n \in Nat \ {0}, NEW width \in Nat, NEW len \in Nat \ {0},
         n > 1 => width > len, b + (n - 1) * width + len <= NumBytes,
         NEW s, s = StrideMarked(m, b, n, width, len),
         \A c \in Elements(b, n, width, len) : s[n][c] # LIVE_IN
  PROVE  \A k \in 0..n : MarksOnly(m, s[k])
<1> DEFINE a(i) == b + i * width
           second(i) == Span(a(i) + WordBytes, a(i) + len)
<1>1. s[0] = m /\ \A i \in 0..(n - 1) : s[i + 1] = ElementMarked(s[i], a(i), len)
  <2>1. n \in Nat
    OBVIOUS
  <2>2. QED  BY <2>1, StrideSteps
<1>2. ASSUME NEW i \in 0..(n - 1) PROVE a(i) \in Nat /\ a(i) + len <= NumBytes
  BY StrideSpan, Zenon
<1>3. WordBytes \in Nat \ {0}
  BY SizeAssumption, Zenon
<1>4. ASSUME NEW i \in 0..(n - 1), len = 2 * WordBytes, \A c \in second(i) : s[i][c] = LIVE_IN
      PROVE  FALSE
  <2> DEFINE Q == {k \in 0..n : k <= i \/ \A c \in second(i) : s[k][c] = LIVE_IN}
  <2>1. ASSUME NEW k \in 0..(n - 1), k \in Q PROVE k + 1 \in Q
    <3>1. CASE k + 1 <= i
      BY <3>1
    <3>2. CASE ~(k + 1 <= i)
      <4>1. i <= k /\ k + 1 \in 0..n
        BY <3>2
      <4>2. \A c \in second(i) : s[k][c] = LIVE_IN
        BY <1>4, <2>1, <4>1, i = k \/ ~(k <= i), Zenon
      <4>3. ASSUME NEW c \in second(i)
            PROVE  c \notin Span(a(k), a(k) + WordBytes) /\ c \notin Span(a(k) + len, a(k) + len + WordBytes)
        <5>1. c \in Int /\ a(i) + WordBytes <= c /\ c < a(i) + len
          BY DEF Span, Byte
        <5>2. CASE i = k
          BY <1>2, <1>3, <1>4, <5>1, <5>2 DEF Span
        <5>3. CASE i < k
          <6>1. a(k) > a(i) + len
            BY <5>3, n > 1, StrideOrder
          <6>2. QED  BY <1>2, <1>3, <5>1, <6>1 DEF Span
        <5>4. QED  BY <4>1, <5>2, <5>3
      <4>4. ASSUME NEW c \in second(i) PROVE s[k + 1][c] = s[k][c]
        <5>1. s[k + 1] = ElementMarked(s[k], a(k), len) /\ c \in Byte
          BY <1>1, Zenon DEF Span
        <5>2. ElementMarked(s[k], a(k), len)[c] = Mark(s[k], Span(a(k), a(k) + WordBytes))[c]
          BY <1>4, <4>3, <5>1, ElementTwo
        <5>3. QED  BY <4>3, <5>1, <5>2 DEF Mark
      <4>5. QED  BY <4>1, <4>2, <4>4, Zenon
    <3>3. QED  BY <3>1, <3>2, Zenon
  <2>2. 0..n \subseteq Q
    <3>1. 0 \in Q
      OBVIOUS
    <3> HIDE DEF Q
    <3>2. QED  BY <2>1, <3>1, UpTo, Zenon
  <2>3. n \in 0..n /\ ~(n <= i) /\ a(i) + WordBytes \in second(i)
    <3> HIDE DEF a
    <3>1. QED  BY <1>2, <1>3, <1>4, SizeAssumption DEF Span, Byte
  <2>4. s[n][a(i) + WordBytes] = LIVE_IN
    BY <2>2, <2>3, Zenon
  <2>5. a(i) + WordBytes \in Element(b, i, width, len)
    BY <1>2, <1>3, <2>3 DEF Span, Element
  <2>6. QED  BY <2>4, <2>5, Zenon DEF Elements
<1>5. ASSUME NEW i \in 0..(n - 1) PROVE MarksOnly(s[i], s[i + 1])
  <2>1. s[i + 1] = ElementMarked(s[i], a(i), len)
    BY <1>1, Zenon
  <2>2. CASE len # 2 * WordBytes
    BY <2>1, <2>2, ElementOther, Zenon
  <2>3. CASE len = 2 * WordBytes
    <3>1. ~\A c \in second(i) : s[i][c] = LIVE_IN
      BY <1>4, <2>3, Zenon
    <3>2. \A c \in Byte : ElementMarked(s[i], a(i), len)[c] = Mark(s[i], Span(a(i), a(i) + WordBytes))[c]
      BY <2>3, <3>1, ElementTwo
    <3>3. QED  BY <2>1, <3>2 DEF MarksOnly, Mark
  <2>4. QED  BY <2>2, <2>3, Zenon
<1> DEFINE Q == {k \in 0..n : MarksOnly(m, s[k])}
<1>6. 0 \in Q
  BY <1>1, 0 \in 0..n, Zenon DEF MarksOnly
<1>7. ASSUME NEW k \in 0..(n - 1), k \in Q PROVE k + 1 \in Q
  BY <1>5, <1>7, k + 1 \in 0..n, Zenon DEF MarksOnly
<1>8. 0..n \subseteq Q
  <2> HIDE DEF Q
  <2>1. QED  BY <1>6, <1>7, UpTo, Zenon
<1>9. QED  BY <1>8, Zenon

LEMMA MarkType ==
  ASSUME NEW m \in [Byte -> Shadow], READ_LIVE_IN \in Shadow
  PROVE  /\ \A S : Mark(m, S) \in [Byte -> Shadow]
         /\ \A a, len : ElementMarked(m, a, len) \in [Byte -> Shadow]
<1>1. ASSUME NEW S PROVE Mark(m, S) \in [Byte -> Shadow]
  BY Zenon DEF Mark
<1>2. ASSUME NEW a, NEW len PROVE ElementMarked(m, a, len) \in [Byte -> Shadow]
  <2>1. CASE len # 2 * WordBytes /\ len \in {Four, WordBytes}
    BY <1>1, <2>1, Zenon DEF ElementMarked
  <2>2. CASE len # 2 * WordBytes /\ len \notin {Four, WordBytes}
    BY <1>1, <2>2, Zenon DEF ElementMarked, RangeMarked
  <2>3. CASE len = 2 * WordBytes
    <3>1. len \notin {Four, WordBytes}
      BY <2>3, SizeAssumption
    <3>2. Mark(m, Span(a, a + WordBytes)) \in [Byte -> Shadow]
      BY <1>1, Zenon
    <3>3. QED  BY <2>3, <3>1, <3>2, Zenon DEF ElementMarked
  <2>4. QED  BY <2>1, <2>2, <2>3, Zenon
<1>3. QED  BY <1>1, <1>2, Zenon

LEMMA StrideType ==
  ASSUME NEW m \in [Byte -> Shadow], READ_LIVE_IN \in Shadow,
         NEW b, NEW n \in Nat, NEW width, NEW len, NEW s, s = StrideMarked(m, b, n, width, len)
  PROVE  s[n] \in [Byte -> Shadow]
<1> DEFINE Q == {k \in 0..n : s[k] \in [Byte -> Shadow]}
<1>1. s[0] = m /\ \A i \in 0..(n - 1) : s[i + 1] = ElementMarked(s[i], b + i * width, len)
  BY StrideSteps
<1>2. 0 \in Q
  BY <1>1, 0 \in 0..n, Zenon
<1>3. ASSUME NEW k \in 0..(n - 1), k \in Q PROVE k + 1 \in Q
  <2>1. s[k] \in [Byte -> Shadow] /\ s[k + 1] = ElementMarked(s[k], b + k * width, len) /\ k + 1 \in 0..n
    BY <1>1, <1>3
  <2>2. ElementMarked(s[k], b + k * width, len) \in [Byte -> Shadow]
    BY <2>1, MarkType, Zenon
  <2>3. QED  BY <2>1, <2>2, Zenon
<1>4. 0..n \subseteq Q
  <2> HIDE DEF Q
  <2>1. QED  BY <1>2, <1>3, UpTo, Zenon
<1>5. QED  BY <1>4, n \in 0..n, Zenon

LEMMA OwnWord ==
  ASSUME NEW c \in Byte
  PROVE  c \in Word(c)
<1>1. c \in Nat /\ WordBytes \in Nat \ {0}
  BY SizeAssumption DEF Byte
<1>2. c % WordBytes \in Nat /\ c % WordBytes < WordBytes /\ c % WordBytes <= c
  BY <1>1, DivFacts, Z3
<1>3. QED  BY <1>1, <1>2 DEF Word, Span, RoundDown

\* A range that read_range accepts has no byte that it should not.
LEMMA RangeAccepts ==
  ASSUME NEW w, NEW s, NEW l \in 0..NumBytes, NEW h \in 0..NumBytes, RangeOK(w, s, l, h)
  PROVE  Acceptable(w, s, Span(l, h))
<1>1. ASSUME NEW c \in Span(l, h)
      PROVE  c \in Bytewise(l, h) \/ c \in Wordwise(l, h)
  <2>1. WordBytes \in Nat \ {0} /\ NumBytes \in Nat
    BY SizeAssumption
  <2>2. RoundUp(l) \in Int /\ RoundDown(h) \in Int
    BY <2>1 DEF RoundUp, RoundDown
  <2>3. c \in Byte /\ c \in Int /\ l <= c /\ c < h
    BY <2>1 DEF Span, Byte
  <2>4. QED  BY <2>2, <2>3 DEF Bytewise, Wordwise, Span
<1>2. ASSUME NEW c \in Wordwise(l, h) PROVE Acceptable(w, s, {c})
  BY OwnWord, Zenon DEF RangeOK, Uniform, Acceptable, Wordwise, Span
<1>3. QED  BY <1>1, <1>2, Zenon DEF RangeOK, Acceptable

LEMMA ElementAccepts ==
  ASSUME NEW w, NEW s, NEW a \in Nat, NEW len \in Nat, a + len <= NumBytes, ElementOK(w, s, a, len)
  PROVE  Acceptable(w, s, Span(a, a + len))
<1>1. CASE len \in {Four, WordBytes}
  <2>1. len # 2 * WordBytes
    BY <1>1, SizeAssumption
  <2>2. QED  BY <1>1, <2>1, Zenon DEF ElementOK, Uniform
<1>2. CASE len \notin {Four, WordBytes} /\ len = 2 * WordBytes
  <2>1. Acceptable(w, s, Span(a, a + WordBytes)) /\ Acceptable(w, s, Span(a + WordBytes, a + len))
    BY <1>2, Zenon DEF ElementOK, Uniform
  <2>2. \A c \in Span(a, a + len) : c \in Span(a, a + WordBytes) \/ c \in Span(a + WordBytes, a + len)
    BY SizeAssumption DEF Span, Byte
  <2>3. QED  BY <2>1, <2>2, Zenon DEF Acceptable
<1>3. CASE len \notin {Four, WordBytes} /\ len # 2 * WordBytes
  <2>1. RangeOK(w, s, a, a + len)
    BY <1>3, Zenon DEF ElementOK
  <2>2. a \in 0..NumBytes /\ a + len \in 0..NumBytes
    BY SizeAssumption
  <2>3. QED  BY <2>1, <2>2, RangeAccepts, Zenon
<1>4. QED  BY <1>1, <1>2, <1>3, Zenon

LEMMA StrideAccepts ==
  ASSUME NEW w, NEW m, NEW b \in Nat, NEW n \in Nat \ {0}, NEW width \in Nat, NEW len \in Nat \ {0},
         b + (n - 1) * width + len <= NumBytes, NEW s,
         \A i \in 0..(n - 1) : ElementOK(w, s[i], b + i * width, len) /\ MarksOnly(m, s[i])
  PROVE  Acceptable(w, m, Elements(b, n, width, len))
<1>1. ASSUME NEW i \in 0..(n - 1), NEW c \in Element(b, i, width, len)
      PROVE  m[c] \in {LIVE_IN, READ_LIVE_IN, code8(iter[w])}
  <2>1. b + i * width \in Nat /\ b + i * width + len <= NumBytes
    BY StrideSpan, Zenon
  <2>2. len \in Nat /\ ElementOK(w, s[i], b + i * width, len)
    OBVIOUS
  <2>3. Acceptable(w, s[i], Element(b, i, width, len))
    BY <2>1, <2>2, ElementAccepts, Zenon DEF Element
  <2>4. s[i][c] \in {LIVE_IN, READ_LIVE_IN, code8(iter[w])} /\ c \in Byte
    BY <2>3, Zenon DEF Acceptable, Element, Span
  <2>5. QED  BY <2>4, Zenon DEF MarksOnly
<1>2. QED  BY <1>1, Zenon DEF Acceptable, Elements

-------------------------------------------------------------------------------
(* Accesses *)

\* The three outcomes of an access to the bytes S, between l and h.
Fails(w, S)        == Misspec /\ (See(w, S) \/ (UNCHANGED seen /\ Conflict(w, S)))
Stores(w, S, l, h) == Store(w, S, l, h) /\ Excuse("elided", Conflict(w, S))
Loads(w, S, l, h, s) ==
  /\ Load(w, S, l, h, s)
  /\ recent' \in [Worker -> [start : -1..NumBytes, end : -1..NumBytes]]
  /\ excused' = {} => MarksOnly(shadow[w], s) /\ Acceptable(w, shadow[w], S)

Access(w) ==
  \E l, h \in 0..NumBytes : \E S \in SUBSET Span(l, h) :
    S # {} /\ \/ Fails(w, S)
              \/ Stores(w, S, l, h)
              \/ \E s \in [Byte -> Shadow] : Loads(w, S, l, h, s)

LEMMA WriteIs ==
  ASSUME NEW w, NEW S, NEW l, NEW h, Write(w, S, l, h)
  PROVE  OnIter(w) /\ (Fails(w, S) \/ Stores(w, S, l, h))
BY Zenon DEF Write, Fails, Stores, Excuse

LEMMA WriteUnlessReadIs ==
  ASSUME NEW w, NEW b, NEW n, WriteUnlessRead(w, b, n)
  PROVE  OnIter(w) /\ (Fails(w, Span(b, b + n)) \/ Stores(w, Span(b, b + n), b, b + n))
BY Zenon DEF WriteUnlessRead, Fails, Stores

LEMMA MarkedIs ==
  ASSUME TypeOK
  PROVE  READ_LIVE_IN \in Shadow
BY LoopsAssumption DEF TypeOK, Shadow, Granularity, READ_LIVE_IN, NUM_RESERVED

LEMMA ReadRangeIs ==
  ASSUME TypeOK, NEW w \in Worker, NEW l \in 0..NumBytes, NEW h \in 0..NumBytes, ReadRange(w, l, h)
  PROVE  OnIter(w) /\ (Fails(w, Span(l, h)) \/ \E s \in [Byte -> Shadow] : Loads(w, Span(l, h), l, h, s))
<1>1. CASE RangeOK(w, shadow[w], l, h)
  <2> DEFINE s == RangeMarked(shadow[w], l, h)
  <2>1. Load(w, Span(l, h), l, h, s) /\ recent' = recent /\ OnIter(w)
    BY <1>1, Zenon DEF ReadRange
  <2>2. shadow[w] \in [Byte -> Shadow]
    BY Zenon DEF TypeOK
  <2>3. s \in [Byte -> Shadow] /\ MarksOnly(shadow[w], s)
    BY <2>2, MarkedIs, MarkType, MarkIs, Zenon DEF RangeMarked
  <2>4. Acceptable(w, shadow[w], Span(l, h))
    BY <1>1, RangeAccepts, Zenon
  <2> HIDE DEF s
  <2>5. QED  BY <2>1, <2>3, <2>4, Zenon DEF Loads, TypeOK
<1>2. CASE ~RangeOK(w, shadow[w], l, h)
  BY <1>2, Zenon DEF ReadRange, Fails
<1>3. QED  BY <1>1, <1>2, Zenon

LEMMA ReadFixedIs ==
  ASSUME TypeOK, NEW w \in Worker, NEW b, NEW n, ReadFixed(w, b, n),
         recent' \in [Worker -> [start : -1..NumBytes, end : -1..NumBytes]]
  PROVE  OnIter(w) /\ (Fails(w, Span(b, b + n)) \/ \E s \in [Byte -> Shadow] : Loads(w, Span(b, b + n), b, b + n, s))
<1>1. CASE Acceptable(w, shadow[w], Span(b, b + n))
  <2> DEFINE s == Mark(shadow[w], Span(b, b + n))
  <2>1. Load(w, Span(b, b + n), b, b + n, s) /\ OnIter(w)
    BY <1>1, Zenon DEF ReadFixed
  <2>2. shadow[w] \in [Byte -> Shadow]
    BY Zenon DEF TypeOK
  <2>3. s \in [Byte -> Shadow] /\ MarksOnly(shadow[w], s)
    BY <2>2, MarkedIs, MarkType, MarkIs, Zenon
  <2> HIDE DEF s
  <2>4. QED  BY <1>1, <2>1, <2>3, Zenon DEF Loads
<1>2. CASE ~Acceptable(w, shadow[w], Span(b, b + n))
  BY <1>2, Zenon DEF ReadFixed, Fails
<1>3. QED  BY <1>1, <1>2, Zenon

LEMMA RememberType ==
  ASSUME TypeOK, NEW w \in Worker, NEW b \in Nat, NEW n \in Nat, b + n <= NumBytes, Remember(w, b, n)
  PROVE  recent' \in [Worker -> [start : -1..NumBytes, end : -1..NumBytes]]
<1> DEFINE R == [start : -1..NumBytes, end : -1..NumBytes]
<1>1. recent \in [Worker -> R] /\ recent[w] \in R
  BY Zenon DEF TypeOK
<1>2. [start |-> b, end |-> b + n] \in R
  BY SizeAssumption
<1>3. recent[w].end = b => [start |-> recent[w].start, end |-> recent[w].end + n] \in R
  BY <1>1, SizeAssumption
<1> HIDE DEF R
<1>4. [recent EXCEPT ![w] = IF @.start = -1 \/ @.end # b THEN [start |-> b, end |-> b + n]
                            ELSE [start |-> @.start, end |-> @.end + n]] \in [Worker -> R]
  BY <1>1, <1>2, <1>3
<1>5. recent' \in [Worker -> R]
  BY <1>1, <1>4, Zenon DEF Remember
<1>6. QED  BY <1>5, Zenon DEF R

LEMMA ReadStrideIs ==
  ASSUME TypeOK, NEW w \in Worker,
         NEW b \in Nat, NEW n \in Nat \ {0}, NEW width \in Nat, NEW len \in Nat \ {0},
         n > 1 => width > len, b + (n - 1) * width + len <= NumBytes,
         private_read_range_stride(w, b, n, width, len),
         NEW S, S = Elements(b, n, width, len)
  PROVE  /\ OnIter(w)
         /\ \/ Fails(w, S)
            \/ \E s \in [Byte -> Shadow] : Loads(w, S, b, b + (n - 1) * width + len, s)
<1> DEFINE h == b + (n - 1) * width + len
           s == StrideMarked(shadow[w], b, n, width, len)
           ok == \A i \in 0..(n - 1) : ElementOK(w, s[i], b + i * width, len)
<1>1. CASE ok
  <2>1. Load(w, S, b, h, s[n]) /\ recent' = recent /\ OnIter(w)
    BY <1>1, Zenon DEF private_read_range_stride
  <2>2. shadow[w] \in [Byte -> Shadow] /\ n \in Nat
    BY DEF TypeOK
  <2>3. s[n] \in [Byte -> Shadow]
    BY <2>2, MarkedIs, StrideType, Zenon
  <2>4. ASSUME excused' = {}
        PROVE  MarksOnly(shadow[w], s[n]) /\ Acceptable(w, shadow[w], S)
    <3>1. \A c \in S : s[n][c] # LIVE_IN
      <4> HIDE DEF s
      <4>1. QED  BY <2>1, <2>4, Zenon DEF Load
    <3>2. \A k \in 0..n : MarksOnly(shadow[w], s[k])
      BY <3>1, StrideMarks
    <3>3. n \in 0..n /\ 0..(n - 1) \subseteq 0..n
      OBVIOUS
    <3> HIDE DEF s
    <3>4. \A i \in 0..(n - 1) : ElementOK(w, s[i], b + i * width, len) /\ MarksOnly(shadow[w], s[i])
      BY <1>1, <3>2, <3>3, Zenon
    <3>5. Acceptable(w, shadow[w], S)
      BY <3>4, StrideAccepts
    <3>6. QED  BY <3>2, <3>3, <3>5, Zenon
  <2> HIDE DEF s, h
  <2>5. Loads(w, S, b, h, s[n])
    BY <2>1, <2>4, Zenon DEF Loads, TypeOK
  <2>6. QED  BY <2>1, <2>3, <2>5, Zenon DEF h
<1>2. CASE ~ok
  BY <1>2, Zenon DEF private_read_range_stride, Fails
<1>3. QED  BY <1>1, <1>2, Zenon

\* Every access of a loop body is one of the three, of at least one byte.
LEMMA BodyIs ==
  ASSUME TypeOK, NEW w \in Worker, Body(w)
  PROVE  OnIter(w) /\ Access(w)
<1>1. PICK a \in loop.body :
        \/ a.op = "write_range" /\ private_write_range(w, a.at, a.at + a.len)
        \/ a.op = "write_1b" /\ private_write_1b(w, a.at)
        \/ a.op = "write_2b" /\ private_write_2b(w, a.at)
        \/ a.op = "write_4b" /\ private_write_4b(w, a.at)
        \/ a.op = "write_8b" /\ private_write_8b(w, a.at)
        \/ a.op = "write_stride" /\ private_write_range_stride(w, a.at, a.n, a.width, a.len)
        \/ a.op = "read_range" /\ private_read_range(w, a.at, a.at + a.len)
        \/ a.op = "read_1b" /\ private_read_1b(w, a.at)
        \/ a.op = "read_2b" /\ private_read_2b(w, a.at)
        \/ a.op = "read_4b" /\ private_read_4b(w, a.at)
        \/ a.op = "read_8b" /\ private_read_8b(w, a.at)
        \/ a.op = "read_stride" /\ private_read_range_stride(w, a.at, a.n, a.width, a.len)
  BY Zenon DEF Body
<1> DEFINE b == a.at
           n == a.n
<1>2. /\ b \in Nat /\ n \in Nat \ {0} /\ a.len \in Nat \ {0} /\ a.width \in Nat
      /\ a.op \notin {"write_stride", "read_stride"} => n = 1
      /\ n > 1 => a.width > a.len
      /\ b + (n - 1) * a.width + SizeOf(a) <= NumBytes
  BY LoopsAssumption, Zenon DEF TypeOK
<1>3. ASSUME a.op \notin {"write_stride", "read_stride"} PROVE b + SizeOf(a) <= NumBytes
  <2>1. (n - 1) * a.width = 0
    BY <1>2, <1>3
  <2> HIDE DEF b, n
  <2>2. b + 0 + SizeOf(a) <= NumBytes
    BY <1>2, <2>1, Zenon
  <2>3. QED  BY <1>2, <2>2
<1>4. /\ Two \in Nat \ {0} /\ Four \in Nat \ {0} /\ WordBytes \in Nat \ {0} /\ NumBytes \in Nat
  BY SizeAssumption
<1> DEFINE Whole(k) == /\ k \in Nat \ {0} /\ b \in 0..NumBytes /\ b + k \in 0..NumBytes
                       /\ Span(b, b + k) # {} /\ b + k <= NumBytes
<1>5. ASSUME NEW k \in Nat \ {0}, b + k <= NumBytes PROVE Whole(k)
  <2>1. b \in 0..NumBytes /\ b + k \in 0..NumBytes /\ b \in Span(b, b + k)
    BY <1>2, <1>4, <1>5 DEF Span, Byte
  <2>2. QED  BY <1>5, <2>1, Zenon
<1> DEFINE One(k) == \/ Fails(w, Span(b, b + k)) \/ Stores(w, Span(b, b + k), b, b + k)
                     \/ \E s \in [Byte -> Shadow] : Loads(w, Span(b, b + k), b, b + k, s)
<1>6. ASSUME NEW k, Whole(k), One(k) PROVE Access(w)
  <2>1. b \in 0..NumBytes /\ b + k \in 0..NumBytes /\ Span(b, b + k) # {}
    BY <1>6, Zenon
  <2> DEFINE S == Span(b, b + k)
             h == b + k
  <2>2. S \in SUBSET Span(b, h) /\ S # {} /\ h \in 0..NumBytes
    BY <2>1, Zenon
  <2>3. Fails(w, S) \/ Stores(w, S, b, h) \/ \E s \in [Byte -> Shadow] : Loads(w, S, b, h, s)
    BY <1>6, Zenon
  <2> HIDE DEF S, h, b
  <2>4. QED  BY <2>1, <2>2, <2>3, Zenon DEF Access
<1> HIDE DEF b, n
<1>7. CASE a.op = "write_range" /\ private_write_range(w, b, b + a.len)
  <2>1. SizeOf(a) = a.len
    BY <1>7 DEF SizeOf
  <2>2. Whole(a.len)
    BY <1>2, <1>3, <1>5, <1>7, <2>1, Zenon
  <2>3. QED  BY <1>6, <1>7, <2>2, WriteIs, Zenon DEF private_write_range
<1>8. CASE a.op = "write_1b" /\ private_write_1b(w, b)
  <2>1. SizeOf(a) = 1
    BY <1>8 DEF SizeOf
  <2>2. Whole(1) /\ {b} = Span(b, b + 1)
    <3>1. Whole(1)
      BY <1>3, <1>5, <1>8, <2>1, 1 \in Nat \ {0}, Zenon
    <3>2. b \in Int /\ b \in 0..NumBytes /\ b + 1 <= NumBytes
      BY <1>2, <3>1
    <3>3. {b} = Span(b, b + 1)
      BY <1>4, <3>2 DEF Span, Byte
    <3>4. QED  BY <3>1, <3>3, Zenon
  <2>3. QED  BY <1>6, <1>8, <2>2, WriteIs, Zenon DEF private_write_1b
<1>9. CASE a.op = "write_2b" /\ private_write_2b(w, b)
  <2>1. SizeOf(a) = Two
    BY <1>9 DEF SizeOf
  <2>2. Whole(Two)
    BY <1>3, <1>4, <1>5, <1>9, <2>1, Zenon
  <2>3. QED  BY <1>6, <1>9, <2>2, WriteIs, Zenon DEF private_write_2b
<1>10. CASE a.op = "write_4b" /\ private_write_4b(w, b)
  <2>1. SizeOf(a) = Four
    BY <1>10 DEF SizeOf
  <2>2. Whole(Four)
    BY <1>3, <1>4, <1>5, <1>10, <2>1, Zenon
  <2>3. QED  BY <1>6, <1>10, <2>2, WriteUnlessReadIs, Zenon DEF private_write_4b
<1>11. CASE a.op = "write_8b" /\ private_write_8b(w, b)
  <2>1. SizeOf(a) = WordBytes
    BY <1>11 DEF SizeOf
  <2>2. Whole(WordBytes)
    BY <1>3, <1>4, <1>5, <1>11, <2>1, Zenon
  <2>3. QED  BY <1>6, <1>11, <2>2, WriteUnlessReadIs, Zenon DEF private_write_8b
<1>12. CASE a.op = "read_range" /\ private_read_range(w, b, b + a.len)
  <2>1. SizeOf(a) = a.len
    BY <1>12 DEF SizeOf
  <2>2. Whole(a.len)
    BY <1>2, <1>3, <1>5, <1>12, <2>1, Zenon
  <2>3. QED  BY <1>6, <1>12, <2>2, ReadRangeIs, Zenon DEF private_read_range
<1>13. CASE a.op = "read_1b" /\ private_read_1b(w, b)
  <2>1. SizeOf(a) = 1
    BY <1>13 DEF SizeOf
  <2>2. Whole(1)
    BY <1>3, <1>5, <1>13, <2>1, 1 \in Nat \ {0}, Zenon
  <2>3. QED  BY <1>6, <1>13, <2>2, ReadRangeIs, Zenon DEF private_read_1b
<1>14. CASE a.op = "read_2b" /\ private_read_2b(w, b)
  <2>1. SizeOf(a) = Two
    BY <1>14 DEF SizeOf
  <2>2. Whole(Two)
    BY <1>3, <1>4, <1>5, <1>14, <2>1, Zenon
  <2>3. recent' \in [Worker -> [start : -1..NumBytes, end : -1..NumBytes]]
    BY <1>14, Zenon DEF private_read_2b, TypeOK
  <2>4. QED  BY <1>6, <1>14, <2>2, <2>3, ReadFixedIs, Zenon DEF private_read_2b
<1>15. CASE a.op = "read_4b" /\ private_read_4b(w, b)
  <2>1. SizeOf(a) = Four
    BY <1>15 DEF SizeOf
  <2>2. Whole(Four)
    BY <1>3, <1>4, <1>5, <1>15, <2>1, Zenon
  <2>3. recent' \in [Worker -> [start : -1..NumBytes, end : -1..NumBytes]]
    BY <1>2, <1>4, <1>15, <2>2, RememberType, Zenon DEF private_read_4b
  <2>4. QED  BY <1>6, <1>15, <2>2, <2>3, ReadFixedIs, Zenon DEF private_read_4b
<1>16. CASE a.op = "read_8b" /\ private_read_8b(w, b)
  <2>1. SizeOf(a) = WordBytes
    BY <1>16 DEF SizeOf
  <2>2. Whole(WordBytes)
    BY <1>3, <1>4, <1>5, <1>16, <2>1, Zenon
  <2>3. recent' \in [Worker -> [start : -1..NumBytes, end : -1..NumBytes]]
    BY <1>2, <1>4, <1>16, <2>2, RememberType, Zenon DEF private_read_8b
  <2>4. QED  BY <1>6, <1>16, <2>2, <2>3, ReadFixedIs, Zenon DEF private_read_8b
<1>17. CASE \/ a.op = "write_stride" /\ private_write_range_stride(w, b, n, a.width, a.len)
            \/ a.op = "read_stride" /\ private_read_range_stride(w, b, n, a.width, a.len)
  <2> DEFINE S == Elements(b, n, a.width, a.len)
             h == b + (n - 1) * a.width + a.len
  <2>1. SizeOf(a) = a.len
    BY <1>17 DEF SizeOf
  <2>2. h <= NumBytes
    BY <1>2, <2>1, Zenon
  <2>3. b \in 0..NumBytes /\ h \in 0..NumBytes /\ S \in SUBSET Span(b, h) /\ S # {}
    <3>1. 0 \in 0..(n - 1)
      BY <1>2
    <3>2. ASSUME NEW i \in 0..(n - 1)
          PROVE  /\ b + i * a.width \in Nat /\ b + i * a.width + a.len <= h /\ h \in 0..NumBytes
                 /\ b <= b + i * a.width
      <4>1. b + i * a.width \in Nat /\ b + i * a.width + a.len <= h /\ h \in 0..NumBytes
        BY <1>2, <2>2, StrideSpan
      <4>2. i * a.width \in Nat
        BY <1>2
      <4>3. QED  BY <1>2, <4>1, <4>2
    <3> HIDE DEF h
    <3>3. ASSUME NEW i \in 0..(n - 1)
          PROVE  Element(b, i, a.width, a.len) \subseteq Span(b, h) /\ Element(b, i, a.width, a.len) # {}
      <4> DEFINE e == b + i * a.width
      <4>1. e \in Nat /\ e + a.len <= h /\ h \in 0..NumBytes /\ b <= e
        BY <3>2, Zenon
      <4> HIDE DEF e
      <4>2. Span(e, e + a.len) \subseteq Span(b, h) /\ e \in Span(e, e + a.len)
        BY <1>2, <1>4, <4>1 DEF Span, Byte
      <4>3. QED  BY <4>2, Zenon DEF e, Element
    <3>4. b \in 0..NumBytes
      <4> DEFINE e == b + 0 * a.width
      <4>1. e \in Nat /\ e + a.len <= h /\ h \in 0..NumBytes /\ b <= e
        BY <3>1, <3>2, Zenon
      <4> HIDE DEF e
      <4>2. QED  BY <1>2, <1>4, <4>1
    <3>5. QED  BY <3>1, <3>2, <3>3, <3>4, Zenon DEF Elements
  <2>4. OnIter(w) /\ \/ Fails(w, S) \/ Stores(w, S, b, h)
                     \/ \E s \in [Byte -> Shadow] : Loads(w, S, b, h, s)
    <3>1. CASE private_write_range_stride(w, b, n, a.width, a.len)
      BY <3>1, WriteIs, Zenon DEF private_write_range_stride
    <3>2. CASE private_read_range_stride(w, b, n, a.width, a.len)
      BY <1>2, <2>2, <3>2, ReadStrideIs, Zenon
    <3>3. QED  BY <1>17, <3>1, <3>2, Zenon
  <2> HIDE DEF S, h
  <2>5. QED  BY <2>3, <2>4, Zenon DEF Access
<1>18. QED
  BY <1>1, <1>7, <1>8, <1>9, <1>10, <1>11, <1>12, <1>13, <1>14, <1>15, <1>16, <1>17, Zenon DEF b, n

-------------------------------------------------------------------------------
(* What the steps have in common *)

LEMMA Sizes ==
  ASSUME TypeOK
  PROVE  /\ End \in Nat /\ Granularity \in Nat \ {0} /\ NumWorkers \in Nat \ {0}
         /\ NumBytes \in Nat \ {0} /\ Final \in Nat /\ Group = 0..Final
         /\ Iter = 0..(End - 1) /\ Value = {-1} \cup Iter
<1>1. loop \in Loops
  BY Zenon DEF TypeOK
<1>2. End \in Nat /\ Granularity \in Nat \ {0}
  BY <1>1, LoopsAssumption, Zenon DEF End, Granularity
<1>3. Final \in Nat
  BY <1>2, DivFacts, Zenon DEF Final
<1>4. QED  BY <1>2, <1>3, SizeAssumption, Zenon DEF Group, Final, Iter, Value

LEMMA IterFacts ==
  ASSUME TypeOK, NEW i \in Iter
  PROVE  /\ i \in Nat /\ i < End /\ GroupOf(i) \in Nat /\ GroupOf(i) <= Final /\ GroupOf(i) \in Group
         /\ Owner(i) \in Worker
         /\ code8(i) \in Shadow /\ code8(i) >= 3 /\ code8(i) \in Nat
<1>1. /\ End \in Nat /\ Granularity \in Nat \ {0} /\ NumWorkers \in Nat \ {0} /\ Final \in Nat
      /\ Group = 0..Final /\ i \in Nat /\ i < End
  BY Sizes
<1>2. GroupOf(i) \in Nat /\ GroupOf(i) <= Final
  <2>1. i <= End
    BY <1>1
  <2>2. QED  BY <1>1, <2>1, DivMono, DivFacts, Zenon DEF GroupOf, Final
<1>3. i % NumWorkers \in Nat /\ i % NumWorkers < NumWorkers
  BY <1>1, DivFacts, Zenon
<1>4. i % Granularity \in Nat /\ i % Granularity < Granularity
  BY <1>1, DivFacts, Zenon
<1>5. Owner(i) \in Worker
  BY <1>1, <1>3 DEF Owner, Worker
<1>6. code8(i) \in Shadow /\ code8(i) >= 3 /\ code8(i) \in Nat
  BY <1>1, <1>4 DEF code8, Shadow, NUM_RESERVED
<1>7. QED  BY <1>1, <1>2, <1>5, <1>6

LEMMA GivenFacts ==
  ASSUME TypeOK, NEW w \in Worker
  PROVE  /\ Given(w) \in Nat /\ Given(w) <= Final + 1 /\ iter[w] \in Nat
         /\ iter[w] <= End => Given(w) = GroupOf(iter[w]) /\ Given(w) <= Final
         /\ ~(iter[w] <= End) => iter[w] = End + 1 /\ Given(w) = Final + 1
<1>1. End \in Nat /\ Granularity \in Nat \ {0} /\ Final \in Nat
  BY Sizes, Zenon
<1>2. iter[w] \in 0..(End + 1)
  BY Zenon DEF TypeOK
<1>3. CASE iter[w] <= End
  <2>1. iter[w] \in Nat /\ ~(iter[w] > End)
    BY <1>1, <1>2, <1>3
  <2>2. iter[w] \div Granularity <= Final /\ iter[w] \div Granularity \in Nat
    BY <1>1, <1>3, <2>1, DivMono, DivFacts, Zenon DEF Final
  <2>3. Given(w) = iter[w] \div Granularity
    BY <2>1, Zenon DEF Given
  <2>4. QED  BY <1>1, <1>3, <2>1, <2>2, <2>3 DEF GroupOf
<1>4. CASE ~(iter[w] <= End)
  <2>1. iter[w] = End + 1 /\ iter[w] > End /\ iter[w] \in Nat
    BY <1>1, <1>2, <1>4
  <2>2. Given(w) = Final + 1
    BY <2>1, Zenon DEF Given
  <2>3. QED  BY <1>1, <1>4, <2>1, <2>2
<1>5. QED  BY <1>3, <1>4, Zenon

\* A worker that has not given its last checkpoint holds the combination back.
LEMMA Unfinished ==
  ASSUME TypeOK, MergedInv, NEW w \in Worker, Given(w) <= Final
  PROVE  oldest <= Final /\ oldest <= Given(w) /\ (oldest > 0 => oldest < Given(w))
<1>1. oldest \in Nat /\ Given(w) \in Nat /\ Final \in Nat
  <2>1. oldest \in 0..(Final + 1) /\ Given(w) \in Nat /\ Final \in Nat
    BY Sizes, GivenFacts, Zenon DEF TypeOK
  <2>2. QED  BY <2>1
<1>2. oldest > 0 => Given(w) > oldest \/ Given(w) = Final + 1
  BY Zenon DEF MergedInv
<1>3. QED  BY <1>1, <1>2

LEMMA OnIterFacts ==
  ASSUME TypeOK, NEW w \in Worker, OnIter(w)
  PROVE  /\ ~misspec /\ iter[w] \in Iter /\ Owner(iter[w]) = w
         /\ Given(w) = GroupOf(iter[w]) /\ Given(w) <= Final /\ Pending(iter[w])
<1>1. iter[w] \in Nat /\ iter[w] < End /\ End \in Nat
  BY Sizes, GivenFacts DEF OnIter
<1>2. iter[w] \in Iter /\ iter[w] <= End
  BY <1>1, Sizes
<1>3. Given(w) = GroupOf(iter[w]) /\ Given(w) <= Final /\ Given(w) \in Nat
  BY <1>2, GivenFacts, Zenon
<1>4. Owner(iter[w]) = w
  BY Zenon DEF OnIter, Owner
<1>5. Pending(iter[w])
  BY <1>3, <1>4 DEF Pending
<1>6. QED  BY <1>2, <1>3, <1>4, <1>5, Zenon DEF OnIter

\* The loop is never changed, and nothing that depends on it alone is.
SameLoop ==
  /\ End' = End /\ Granularity' = Granularity /\ Iter' = Iter /\ Group' = Group /\ Final' = Final
  /\ Value' = Value /\ Shadow' = Shadow
  /\ \A i : GroupOf(i)' = GroupOf(i) /\ code8(i)' = code8(i)

LEMMA LoopSame == loop' = loop => SameLoop
<1> SUFFICES ASSUME loop' = loop PROVE SameLoop
  OBVIOUS
<1>1. End' = End /\ Granularity' = Granularity
  BY Zenon DEF End, Granularity
<1>2. QED
  BY <1>1, Zenon DEF SameLoop, Iter, Group, Final, Value, Shadow, GroupOf, code8

\* A worker ends an iteration, without and with a checkpoint.
Quiet(w) ==
  /\ ~misspec /\ iter[w] < End /\ iter' = [iter EXCEPT ![w] = @ + 1]
  /\ \A v \in Worker : Given(v)' = Given(v)
  /\ UNCHANGED <<loop, mem, shadow, lo, hi, chk, oldest, misspec, main, written, seen, excused>>

Contributes(w, g) ==
  /\ ~misspec /\ iter[w] <= End /\ iter' = [iter EXCEPT ![w] = @ + 1]
  /\ g = Given(w) /\ g <= Final /\ Given(w)' = g + 1
  /\ \A v \in Worker \ {w} : Given(v)' = Given(v)
  /\ distill_worker(w, g)
  /\ UNCHANGED <<loop, mem, shadow, oldest, misspec, main, written, seen>>

LEMMA WorkerIs ==
  ASSUME TypeOK, NEW w \in Worker, end_iter(w) \/ worker_finishes(w)
  PROVE  /\ Quiet(w) \/ \E g \in Group : Contributes(w, g)
         /\ recent' \in [Worker -> [start : -1..NumBytes, end : -1..NumBytes]]
<1>1. /\ End \in Nat /\ Granularity \in Nat \ {0} /\ Final \in Nat /\ Group = 0..Final /\ NumBytes \in Nat
      /\ iter \in [Worker -> 0..(End + 1)] /\ iter[w] \in Nat
      /\ recent \in [Worker -> [start : -1..NumBytes, end : -1..NumBytes]]
  BY Sizes, GivenFacts, Zenon DEF TypeOK
<1>2. loop' = loop
  BY Zenon DEF end_iter, worker_finishes
<1>3. End' = End /\ Granularity' = Granularity /\ Final' = Final
  BY <1>2, LoopSame, Zenon DEF SameLoop
<1>4. iter' = [iter EXCEPT ![w] = @ + 1] /\ iter[w] <= End /\ ~misspec
  <2>1. CASE end_iter(w)
    BY <1>1, <2>1 DEF end_iter
  <2>2. CASE worker_finishes(w)
    BY <1>1, <2>2 DEF worker_finishes
  <2>3. QED  BY <2>1, <2>2, Zenon
<1>5. \A v \in Worker \ {w} : Given(v)' = Given(v)
  <2>1. \A v \in Worker \ {w} : iter'[v] = iter[v]
    BY <1>1, <1>4, Zenon
  <2>2. QED  BY <1>3, <2>1, Zenon DEF Given
<1>6. iter'[w] = iter[w] + 1
  BY <1>1, <1>4, Zenon
<1>7. Given(w) = iter[w] \div Granularity /\ Given(w) <= Final /\ Given(w) \in Nat
  BY <1>4, GivenFacts, Zenon DEF GroupOf
<1>8. Given(w) \in Group
  BY <1>1, <1>7
<1>9. recent' \in [Worker -> [start : -1..NumBytes, end : -1..NumBytes]]
  <2>1. CASE end_iter(w)
    <3>1. recent' = [recent EXCEPT ![w] = [start |-> -1, end |-> -1]]
      BY <2>1, Zenon DEF end_iter
    <3>2. [start |-> -1, end |-> -1] \in [start : -1..NumBytes, end : -1..NumBytes]
      BY <1>1
    <3>3. QED  BY <1>1, <3>1, <3>2, Zenon
  <2>2. CASE worker_finishes(w)
    BY <1>1, <2>2, Zenon DEF worker_finishes
  <2>3. QED  BY <2>1, <2>2, Zenon
<1>10. CASE worker_finishes(w)
  <2>1. iter[w] = End /\ distill_worker(w, Final)
    BY <1>10, Zenon DEF worker_finishes
  <2>2. Given(w) = Final
    BY <1>7, <2>1, Zenon DEF Final
  <2>3. Given(w)' = Final + 1
    <3>1. iter'[w] > End'
      BY <1>1, <1>3, <1>6, <2>1
    <3>2. QED  BY <1>3, <3>1, Zenon DEF Given
  <2>4. Contributes(w, Given(w))
    BY <1>4, <1>5, <1>7, <1>10, <2>1, <2>2, <2>3, Zenon DEF Contributes, worker_finishes
  <2>5. QED  BY <1>8, <1>9, <2>4, Zenon
<1>11. CASE end_iter(w)
  <2>1. iter[w] < End /\ ~(iter'[w] > End')
    BY <1>1, <1>3, <1>6, <1>11 DEF end_iter
  <2>2. Given(w)' = (iter[w] + 1) \div Granularity
    BY <1>3, <1>6, <2>1, Zenon DEF Given
  <2>3. Given(w)' = Given(w) + (IF (iter[w] + 1) % Granularity = 0 THEN 1 ELSE 0)
    BY <1>1, <1>7, <2>2, DivNext, Zenon
  <2>4. CASE (iter[w] + 1) % Granularity = 0
    <3>1. Given(w)' = Given(w) + 1
      BY <2>3, <2>4, Zenon
    <3>2. distill_worker(w, Given(w))
      BY <1>7, <1>11, <2>4, Zenon DEF end_iter
    <3>3. Contributes(w, Given(w))
      BY <1>4, <1>5, <1>7, <1>11, <3>1, <3>2, Zenon DEF Contributes, end_iter
    <3>4. QED  BY <1>8, <1>9, <3>3, Zenon
  <2>5. CASE (iter[w] + 1) % Granularity # 0
    <3>1. Given(w)' = Given(w)
      BY <1>7, <2>3, <2>5
    <3>2. \A v \in Worker : Given(v)' = Given(v)
      BY <1>5, <3>1, Zenon
    <3>3. Quiet(w)
      BY <1>4, <1>11, <2>1, <2>5, <3>2, Zenon DEF Quiet, end_iter
    <3>4. QED  BY <1>9, <3>3, Zenon
  <2>6. QED  BY <2>4, <2>5, Zenon
<1>12. QED  BY <1>10, <1>11, Zenon

-------------------------------------------------------------------------------
(* Types *)

\* The types, for a step that does not change the loop.
TypeNext ==
  /\ mem' \in [Worker -> [Byte -> Value]] /\ shadow' \in [Worker -> [Byte -> Shadow]]
  /\ lo' \in [Worker -> 0..NumBytes] /\ hi' \in [Worker -> 0..NumBytes]
  /\ recent' \in [Worker -> [start : -1..NumBytes, end : -1..NumBytes]]
  /\ iter' \in [Worker -> 0..(End + 1)]
  /\ chk' \in [Group -> [priv : [Byte -> Value], shadow : [Byte -> Shadow],
                        lo : 0..NumBytes, hi : 0..NumBytes, num_workers : 0..NumWorkers]]
  /\ oldest' \in 0..(Final + 1) /\ misspec' \in BOOLEAN /\ main' \in [Byte -> Value]
  /\ written' \subseteq Byte \X Iter /\ seen' \subseteq Byte \X Iter \X Value
  /\ excused' \subseteq {"refused", "elided", "stale", "unmarked"}

LEMMA TypeKept == TypeOK /\ loop' = loop /\ TypeNext => TypeOK'
<1> SUFFICES ASSUME TypeOK, loop' = loop, TypeNext PROVE TypeOK'
  OBVIOUS
<1>1. SameLoop
  BY LoopSame, Zenon
<1>2. loop' \in Loops
  BY Zenon DEF TypeOK
<1>3. QED  BY <1>1, <1>2, Zenon DEF TypeOK, TypeNext, SameLoop

LEMMA SeeType ==
  ASSUME TypeOK, NEW w \in Worker, iter[w] \in Iter, NEW S \in SUBSET Byte, See(w, S)
  PROVE  seen' \subseteq Byte \X Iter \X Value
<1>1. seen \subseteq Byte \X Iter \X Value /\ mem[w] \in [Byte -> Value]
  BY Zenon DEF TypeOK
<1>2. \A b \in S : <<b, iter[w], mem[w][b]>> \in Byte \X Iter \X Value
  BY <1>1
<1>3. QED  BY <1>1, <1>2, Zenon DEF See

LEMMA RangeType ==
  ASSUME TypeOK, NEW w \in Worker, NEW l \in 0..NumBytes, NEW h \in 0..NumBytes,
         update_shadow_range(w, l, h)
  PROVE  /\ lo' \in [Worker -> 0..NumBytes] /\ hi' \in [Worker -> 0..NumBytes]
         /\ Span(lo[w], hi[w]) \cup Span(l, h) \subseteq Span(lo'[w], hi'[w])
         /\ \A v \in Worker \ {w} : lo'[v] = lo[v] /\ hi'[v] = hi[v]
<1>1. /\ lo \in [Worker -> 0..NumBytes] /\ hi \in [Worker -> 0..NumBytes]
      /\ lo[w] \in 0..NumBytes /\ hi[w] \in 0..NumBytes /\ NumBytes \in Nat
  BY SizeAssumption, Zenon DEF TypeOK
<1>2. /\ Min({lo[w], l}) = IF lo[w] <= l THEN lo[w] ELSE l
      /\ Max({hi[w], h}) = IF hi[w] <= h THEN h ELSE hi[w]
  <2>1. lo[w] \in Int /\ l \in Int /\ hi[w] \in Int /\ h \in Int
    BY <1>1
  <2>2. QED  BY <2>1, MinPair, MaxPair, Zenon
<1>3. Min({lo[w], l}) \in 0..NumBytes /\ Max({hi[w], h}) \in 0..NumBytes
  BY <1>1, <1>2, Zenon
<1>4. /\ lo' = [lo EXCEPT ![w] = Min({@, l})] /\ hi' = [hi EXCEPT ![w] = Max({@, h})]
  BY Zenon DEF update_shadow_range
<1>5. /\ lo'[w] = Min({lo[w], l}) /\ hi'[w] = Max({hi[w], h})
      /\ lo' \in [Worker -> 0..NumBytes] /\ hi' \in [Worker -> 0..NumBytes]
      /\ \A v \in Worker \ {w} : lo'[v] = lo[v] /\ hi'[v] = hi[v]
  BY <1>1, <1>3, <1>4, Zenon
<1>6. Span(lo[w], hi[w]) \cup Span(l, h) \subseteq Span(lo'[w], hi'[w])
  BY <1>1, <1>2, <1>5 DEF Span, Byte
<1>7. QED  BY <1>5, <1>6, Zenon

LEMMA FailsType ==
  ASSUME TypeOK, NEW w \in Worker, OnIter(w), NEW S \in SUBSET Byte, Fails(w, S)
  PROVE  loop' = loop /\ TypeNext
<1>1. seen' \subseteq Byte \X Iter \X Value
  <2>1. iter[w] \in Iter /\ seen \subseteq Byte \X Iter \X Value
    BY OnIterFacts, Zenon DEF TypeOK
  <2>2. QED  BY <2>1, SeeType, Zenon DEF Fails
<1>2. QED  BY <1>1, Zenon DEF TypeNext, TypeOK, Fails, Misspec, worker

LEMMA StoresType ==
  ASSUME TypeOK, NEW w \in Worker, OnIter(w), NEW l \in 0..NumBytes, NEW h \in 0..NumBytes,
         NEW S \in SUBSET Byte, Stores(w, S, l, h)
  PROVE  loop' = loop /\ TypeNext
<1>1. iter[w] \in Iter /\ iter[w] \in Value /\ code8(iter[w]) \in Shadow
  BY OnIterFacts, IterFacts, Zenon DEF Value
<1>2. mem \in [Worker -> [Byte -> Value]] /\ shadow \in [Worker -> [Byte -> Shadow]]
  BY Zenon DEF TypeOK
<1>3. mem' \in [Worker -> [Byte -> Value]] /\ shadow' \in [Worker -> [Byte -> Shadow]]
  <2>1. /\ shadow' = [shadow EXCEPT ![w] = [b \in Byte |-> IF b \in S THEN code8(iter[w]) ELSE @[b]]]
        /\ mem' = [mem EXCEPT ![w] = [b \in Byte |-> IF b \in S THEN iter[w] ELSE @[b]]]
    BY Zenon DEF Stores, Store
  <2>2. /\ [b \in Byte |-> IF b \in S THEN code8(iter[w]) ELSE shadow[w][b]] \in [Byte -> Shadow]
        /\ [b \in Byte |-> IF b \in S THEN iter[w] ELSE mem[w][b]] \in [Byte -> Value]
    BY <1>1, <1>2, Zenon
  <2>3. QED  BY <1>2, <2>1, <2>2, Zenon
<1>4. lo' \in [Worker -> 0..NumBytes] /\ hi' \in [Worker -> 0..NumBytes]
  BY RangeType, Zenon DEF Stores, Store
<1>5. written' \subseteq Byte \X Iter /\ excused' \subseteq {"refused", "elided", "stale", "unmarked"}
  <2>1. written \subseteq Byte \X Iter /\ excused \subseteq {"refused", "elided", "stale", "unmarked"}
    BY Zenon DEF TypeOK
  <2>2. S \X {iter[w]} \subseteq Byte \X Iter
    BY <1>1
  <2>3. QED  BY <2>1, <2>2, Zenon DEF Stores, Store, Excuse
<1>6. QED  BY <1>3, <1>4, <1>5, Zenon DEF TypeNext, TypeOK, Stores, Store

LEMMA LoadsType ==
  ASSUME TypeOK, NEW w \in Worker, OnIter(w), NEW l \in 0..NumBytes, NEW h \in 0..NumBytes,
         NEW S \in SUBSET Byte, NEW s \in [Byte -> Shadow], Loads(w, S, l, h, s)
  PROVE  loop' = loop /\ TypeNext
<1>1. iter[w] \in Iter
  BY OnIterFacts, Zenon
<1>2. shadow' \in [Worker -> [Byte -> Shadow]]
  BY Zenon DEF TypeOK, Loads, Load
<1>3. lo' \in [Worker -> 0..NumBytes] /\ hi' \in [Worker -> 0..NumBytes]
  BY RangeType, Zenon DEF Loads, Load
<1>4. seen' \subseteq Byte \X Iter \X Value
  BY <1>1, SeeType, Zenon DEF Loads, Load
<1>5. excused' \subseteq {"refused", "elided", "stale", "unmarked"}
  BY Zenon DEF TypeOK, Loads, Load
<1>6. QED  BY <1>2, <1>3, <1>4, <1>5, Zenon DEF TypeNext, TypeOK, Loads, Load

LEMMA Missing ==
  ASSUME TypeOK, NEW w \in Worker, NEW g \in Group, ~(Given(w) > g)
  PROVE  /\ IsFiniteSet(Contributed(g)) /\ Cardinality(Contributed(g)) \in Nat
         /\ Cardinality(Contributed(g)) < NumWorkers
<1>1. NumWorkers \in Nat \ {0} /\ NumWorkers - 1 \in Int /\ 0 \in Int
  BY SizeAssumption
<1>2. /\ IsFiniteSet(0..(NumWorkers - 1))
      /\ Cardinality(0..(NumWorkers - 1)) = IF 0 > NumWorkers - 1 THEN 0 ELSE NumWorkers - 1 - 0 + 1
  BY <1>1, FS_Interval, Zenon
<1>3. IsFiniteSet(Worker) /\ Cardinality(Worker) = NumWorkers
  BY <1>1, <1>2 DEF Worker
<1>4. IsFiniteSet(Worker \ {w}) /\ Cardinality(Worker \ {w}) = Cardinality(Worker) - 1
  BY <1>3, FS_RemoveElement, Zenon
<1>5. Contributed(g) \in SUBSET (Worker \ {w})
  BY Zenon DEF Contributed
<1>6. /\ IsFiniteSet(Contributed(g))
      /\ Cardinality(Contributed(g)) <= Cardinality(Worker \ {w})
  BY <1>4, <1>5, FS_Subset, Zenon
<1>7. Cardinality(Contributed(g)) \in Nat
  BY <1>6, FS_CardinalityType, Zenon
<1>8. QED  BY <1>1, <1>3, <1>4, <1>6, <1>7

\* A complete checkpoint has been given by every worker.
LEMMA CompleteMeans ==
  ASSUME TypeOK, CountInv, NEW g \in Group, Complete(g)
  PROVE  \A w \in Worker : Given(w) > g
<1>1. SUFFICES ASSUME NEW w \in Worker, ~(Given(w) > g) PROVE FALSE
  BY Zenon
<1>2. Cardinality(Contributed(g)) \in Nat /\ Cardinality(Contributed(g)) < NumWorkers
  BY <1>1, Missing, Zenon
<1>3. Cardinality(Contributed(g)) = NumWorkers
  BY Zenon DEF CountInv, Complete
<1>4. QED  BY <1>2, <1>3, SizeAssumption

LEMMA RecordType ==
  ASSUME NEW g \in Group, NEW V, NEW T, NEW P \in [Byte -> V], NEW Q \in [Byte -> T],
         NEW L \in 0..NumBytes, NEW H \in 0..NumBytes, NEW N \in 0..NumWorkers
  PROVE  [priv |-> P, shadow |-> Q, lo |-> L, hi |-> H, num_workers |-> N] \in
           [priv : [Byte -> V], shadow : [Byte -> T],
            lo : 0..NumBytes, hi : 0..NumBytes, num_workers : 0..NumWorkers]
OBVIOUS

\* What a worker's checkpoint makes of the object.
LEMMA DistillIs ==
  ASSUME TypeOK, CountInv, NEW w \in Worker, NEW g \in Group, Given(w) = g, distill_worker(w, g)
  PROVE  /\ chk' \in [Group -> [priv : [Byte -> Value], shadow : [Byte -> Shadow],
                               lo : 0..NumBytes, hi : 0..NumBytes, num_workers : 0..NumWorkers]]
         /\ chk'[g].num_workers = chk[g].num_workers + 1
         /\ \A h \in Group \ {g} : chk'[h] = chk[h]
         /\ lo' \in [Worker -> 0..NumBytes] /\ hi' \in [Worker -> 0..NumBytes]
         /\ excused' \subseteq {"refused", "elided", "stale", "unmarked"}
<1> DEFINE R == [priv : [Byte -> Value], shadow : [Byte -> Shadow],
                 lo : 0..NumBytes, hi : 0..NumBytes, num_workers : 0..NumWorkers]
           c == chk[g]
           bad == {b \in Distilled(w) : Refuses(shadow[w][b], c.shadow[b])}
           merged == {b \in Distilled(w) : \A d \in bad : b < d}
           P == [b \in Byte |-> IF b \in merged /\ Newer(shadow[w][b], c.shadow[b])
                                THEN mem[w][b] ELSE c.priv[b]]
           Q == [b \in Byte |-> IF b \in merged THEN Max({shadow[w][b], c.shadow[b]}) ELSE c.shadow[b]]
           L == IF bad = {} THEN Min({lo[w], c.lo}) ELSE c.lo
           H == IF bad = {} THEN Max({hi[w], c.hi}) ELSE c.hi
           N == c.num_workers + 1
<1>1. /\ chk' = [chk EXCEPT ![g] = [priv |-> P, shadow |-> Q, lo |-> L, hi |-> H, num_workers |-> N]]
      /\ IF bad = {} THEN lo' = [lo EXCEPT ![w] = NumBytes] /\ hi' = [hi EXCEPT ![w] = 0]
         ELSE UNCHANGED <<lo, hi>>
  BY Zenon DEF distill_worker
<1>2. /\ chk \in [Group -> R] /\ lo \in [Worker -> 0..NumBytes] /\ hi \in [Worker -> 0..NumBytes]
      /\ mem[w] \in [Byte -> Value] /\ shadow[w] \in [Byte -> Shadow]
      /\ excused \subseteq {"refused", "elided", "stale", "unmarked"}
      /\ lo[w] \in 0..NumBytes /\ hi[w] \in 0..NumBytes
  BY Zenon DEF TypeOK
<1>3. /\ c.priv \in [Byte -> Value] /\ c.shadow \in [Byte -> Shadow]
      /\ c.lo \in 0..NumBytes /\ c.hi \in 0..NumBytes /\ c.num_workers \in 0..NumWorkers
  <2>1. c \in R
    BY <1>2, Zenon
  <2> HIDE DEF c
  <2>2. QED  BY <2>1
<1>4. NumBytes \in Nat /\ NumWorkers \in Nat /\ Granularity \in Nat
  BY Sizes
<1>5. N \in 0..NumWorkers
  <2>1. ~(Given(w) > g) /\ g \in Nat
    BY Sizes
  <2>2. c.num_workers < NumWorkers
    BY <2>1, Missing, Zenon DEF CountInv
  <2> HIDE DEF c
  <2>3. QED  BY <1>3, <1>4, <2>2
<1>6. P \in [Byte -> Value]
  <2> HIDE DEF c, merged
  <2>1. QED  BY <1>2, <1>3, Zenon
<1>7. Q \in [Byte -> Shadow]
  <2> HIDE DEF c, merged
  <2>1. ASSUME NEW b \in Byte PROVE Max({shadow[w][b], c.shadow[b]}) \in Shadow
    <3>1. shadow[w][b] \in Shadow /\ c.shadow[b] \in Shadow
      BY <1>2, <1>3, Zenon
    <3>2. shadow[w][b] \in Int /\ c.shadow[b] \in Int
      BY <1>4, <3>1 DEF Shadow, NUM_RESERVED
    <3>3. QED  BY <3>1, <3>2, MaxPair, Zenon
  <2>2. QED  BY <1>3, <2>1, Zenon
<1>8. L \in 0..NumBytes /\ H \in 0..NumBytes
  <2> HIDE DEF c, bad
  <2>1. lo[w] \in Int /\ hi[w] \in Int /\ c.lo \in Int /\ c.hi \in Int
    BY <1>2, <1>3, <1>4
  <2>2. QED  BY <1>2, <1>3, <2>1, MinPair, MaxPair, Zenon
<1>9. excused' \subseteq {"refused", "elided", "stale", "unmarked"}
  BY <1>2, Zenon DEF distill_worker
<1>10. lo' \in [Worker -> 0..NumBytes] /\ hi' \in [Worker -> 0..NumBytes]
  <2> HIDE DEF c, bad
  <2>1. NumBytes \in 0..NumBytes /\ 0 \in 0..NumBytes
    BY <1>4
  <2>2. QED  BY <1>1, <1>2, <2>1, Zenon
<1> HIDE DEF P, Q, L, H, N, c
<1>11. [priv |-> P, shadow |-> Q, lo |-> L, hi |-> H, num_workers |-> N] \in R
  BY <1>5, <1>6, <1>7, <1>8, RecordType, Zenon
<1>12. chk' \in [Group -> R] /\ \A h \in Group \ {g} : chk'[h] = chk[h]
  BY <1>1, <1>2, <1>11, Zenon
<1>13. chk'[g] = [priv |-> P, shadow |-> Q, lo |-> L, hi |-> H, num_workers |-> N]
  BY <1>1, <1>2, Zenon
<1>14. chk'[g].num_workers = N
  BY <1>13
<1>15. QED  BY <1>9, <1>10, <1>12, <1>14, Zenon DEF N, c

-------------------------------------------------------------------------------
(* The counts of contributions *)

LEMMA CountSame ==
  ASSUME CountInv, SameLoop, \A v \in Worker : Given(v)' = Given(v),
         \A g \in Group : chk'[g].num_workers = chk[g].num_workers
  PROVE  CountInv'
<1>1. ASSUME NEW g \in Group PROVE Contributed(g)' = Contributed(g)
  BY Zenon DEF Contributed
<1>2. QED  BY <1>1, Zenon DEF CountInv, SameLoop

LEMMA MergedSame ==
  ASSUME MergedInv, SameLoop, oldest' = oldest, \A v \in Worker : Given(v)' = Given(v)
  PROVE  MergedInv'
BY Zenon DEF MergedInv, SameLoop

LEMMA GivenSame ==
  ASSUME SameLoop, iter' = iter
  PROVE  \A v : Given(v)' = Given(v)
BY Zenon DEF Given, SameLoop

\* An access leaves the checkpoints alone.
LEMMA AccessBasic ==
  ASSUME BasicInv, NEW w \in Worker, OnIter(w), loop' = loop, TypeNext,
         UNCHANGED <<iter, chk, oldest, main>>
  PROVE  BasicInv'
<1>1. SameLoop
  BY LoopSame, Zenon
<1>2. TypeOK'
  BY TypeKept, Zenon DEF BasicInv
<1>3. CountInv' /\ MergedInv'
  BY <1>1, GivenSame, CountSame, MergedSame, Zenon DEF BasicInv
<1>4. oldest <= Final
  BY OnIterFacts, Unfinished, Zenon DEF BasicInv
<1>5. QED  BY <1>1, <1>2, <1>3, <1>4, Zenon DEF BasicInv, SameLoop

LEMMA QuietBasic ==
  ASSUME BasicInv, NEW w \in Worker, Quiet(w),
         recent' \in [Worker -> [start : -1..NumBytes, end : -1..NumBytes]]
  PROVE  BasicInv'
<1>1. SameLoop
  BY LoopSame, Zenon DEF Quiet
<1>2. iter' \in [Worker -> 0..(End + 1)]
  <2>1. End \in Nat /\ iter \in [Worker -> 0..(End + 1)] /\ iter[w] \in Nat /\ iter[w] < End
    BY Sizes, GivenFacts, Zenon DEF BasicInv, Quiet, TypeOK
  <2>2. iter[w] + 1 \in 0..(End + 1)
    BY <2>1
  <2>3. QED  BY <2>1, <2>2, Zenon DEF Quiet
<1>3. TypeOK'
  <2>1. TypeNext
    BY <1>2, Zenon DEF TypeNext, BasicInv, TypeOK, Quiet
  <2>2. QED  BY <2>1, TypeKept, Zenon DEF BasicInv, Quiet
<1>4. CountInv' /\ MergedInv'
  BY <1>1, CountSame, MergedSame, Zenon DEF BasicInv, Quiet
<1>5. QED  BY <1>1, <1>3, <1>4, Zenon DEF BasicInv, SameLoop, Quiet

LEMMA ContributesBasic ==
  ASSUME BasicInv, NEW w \in Worker, NEW g \in Group, Contributes(w, g),
         recent' \in [Worker -> [start : -1..NumBytes, end : -1..NumBytes]]
  PROVE  BasicInv'
<1>1. SameLoop /\ loop' = loop
  BY LoopSame, Zenon DEF Contributes
<1>2. iter' \in [Worker -> 0..(End + 1)]
  <2>1. End \in Nat /\ iter \in [Worker -> 0..(End + 1)] /\ iter[w] \in Nat /\ iter[w] <= End
    BY Sizes, GivenFacts, Zenon DEF BasicInv, Contributes, TypeOK
  <2>2. iter[w] + 1 \in 0..(End + 1)
    BY <2>1
  <2>3. QED  BY <2>1, <2>2, Zenon DEF Contributes
<1>3. /\ Given(w) = g /\ g <= Final /\ distill_worker(w, g) /\ oldest' = oldest
      /\ Given(w)' = g + 1 /\ \A v \in Worker \ {w} : Given(v)' = Given(v)
      /\ TypeOK /\ CountInv /\ MergedInv
  BY Zenon DEF Contributes, BasicInv
<1>4. TypeOK'
  <2>1. TypeNext
    BY <1>2, <1>3, DistillIs, Zenon DEF TypeNext, TypeOK, Contributes
  <2>2. QED  BY <1>1, <1>3, <2>1, TypeKept, Zenon
<1>5. /\ g \in Nat /\ Final \in Nat /\ oldest <= Final /\ oldest <= g /\ oldest \in Nat
      /\ Group = 0..Final /\ \A v \in Worker : Given(v) \in Nat
  <2>1. oldest \in 0..(Final + 1)
    BY <1>3, Zenon DEF TypeOK
  <2>2. /\ Final \in Nat /\ oldest <= Final /\ oldest <= g
        /\ Group = 0..Final /\ \A v \in Worker : Given(v) \in Nat
    BY <1>3, Sizes, GivenFacts, Unfinished, Zenon
  <2>3. QED  BY <2>1, <2>2
<1>6. CountInv'
  <2>1. ASSUME NEW h \in Group PROVE chk'[h].num_workers = Cardinality(Contributed(h)')
    <3>1. CASE h # g
      <4>1. g + 1 > h <=> Given(w) > h
        BY <1>3, <1>5, <3>1
      <4>2. Contributed(h)' = Contributed(h)
        BY <1>3, <4>1, Zenon DEF Contributed
      <4>3. chk'[h] = chk[h]
        BY <1>3, <3>1, DistillIs, Zenon
      <4>4. QED  BY <1>3, <4>2, <4>3, Zenon DEF CountInv
    <3>2. CASE h = g
      <4>1. g + 1 > h /\ ~(Given(w) > h)
        BY <1>3, <1>5, <3>2
      <4>2. Contributed(h)' = Contributed(h) \cup {w} /\ w \notin Contributed(h)
        BY <1>3, <4>1, Zenon DEF Contributed
      <4>3. IsFiniteSet(Contributed(h))
        BY <1>3, <4>1, Missing, Zenon
      <4>4. Cardinality(Contributed(h)') = Cardinality(Contributed(h)) + 1
        BY <4>2, <4>3, FS_AddElement, Zenon
      <4>5. chk'[h].num_workers = chk[h].num_workers + 1
        BY <1>3, <3>2, DistillIs, Zenon
      <4>6. QED  BY <1>3, <4>4, <4>5, Zenon DEF CountInv
    <3>3. QED  BY <3>1, <3>2, Zenon
  <2>2. QED  BY <1>1, <2>1, Zenon DEF CountInv, SameLoop
<1>7. MergedInv'
  <2>1. SUFFICES ASSUME oldest > 0, NEW v \in Worker
                 PROVE  Given(v)' > oldest \/ Given(v)' = Final + 1
    BY <1>1, <1>3, Zenon DEF MergedInv, SameLoop
  <2>2. Given(v) > oldest \/ Given(v) = Final + 1
    BY <1>3, <2>1, Zenon DEF MergedInv
  <2>3. CASE v = w
    BY <1>3, <1>5, <2>3
  <2>4. CASE v # w
    BY <1>3, <2>2, <2>4, Zenon
  <2>5. QED  BY <2>3, <2>4, Zenon
<1>8. QED  BY <1>1, <1>3, <1>4, <1>5, <1>6, <1>7, Zenon DEF BasicInv, Contributes, SameLoop

\* What the combination makes of the newer checkpoint, unless it fails.
Combined(older, newer) ==
  [priv   |-> [b \in Byte |-> IF b \in Span(older.lo, older.hi) /\ Older(older, newer, b)
                              THEN older.priv[b] ELSE newer.priv[b]],
   shadow |-> [b \in Byte |-> IF b \in Span(older.lo, older.hi) /\ Older(older, newer, b)
                              THEN OLD_ITERATION ELSE newer.shadow[b]],
   lo     |-> Min({older.lo, newer.lo}), hi |-> Max({older.hi, newer.hi}),
   num_workers |-> newer.num_workers]

Combines ==
  /\ ~misspec /\ oldest < Final /\ Complete(oldest) /\ Complete(oldest + 1)
  /\ \A b \in Span(chk[oldest].lo, chk[oldest].hi) :
       ~(chk[oldest + 1].shadow[b] = READ_LIVE_IN /\ WAS_WRITTEN_EVER(chk[oldest].shadow[b]))
  /\ chk' = [chk EXCEPT ![oldest + 1] = Combined(chk[oldest], chk[oldest + 1])]
  /\ oldest' = oldest + 1
  /\ UNCHANGED <<loop, worker, misspec, main, history>>

CombineFails ==
  /\ ~misspec /\ oldest < Final
  /\ \E b \in Byte : chk[oldest + 1].shadow[b] = READ_LIVE_IN
  /\ Misspec /\ UNCHANGED seen

LEMMA CombineIs ==
  ASSUME combine_private
  PROVE  Combines \/ CombineFails
<1> DEFINE older == chk[oldest]
           newer == chk[oldest + 1]
           range == Span(older.lo, older.hi)
           conflict == \E b \in range : newer.shadow[b] = READ_LIVE_IN /\ WAS_WRITTEN_EVER(older.shadow[b])
<1>1. CASE conflict
  <2>1. \E b \in Byte : newer.shadow[b] = READ_LIVE_IN
    BY <1>1, Zenon DEF Span
  <2>2. QED  BY <1>1, <2>1, Zenon DEF combine_private, CombineFails
<1>2. CASE ~conflict
  BY <1>2, Zenon DEF combine_private, Combines, Combined
<1>3. QED  BY <1>1, <1>2, Zenon

LEMMA ChkType ==
  ASSUME TypeOK, NEW g \in Group
  PROVE  /\ chk[g].priv \in [Byte -> Value] /\ chk[g].shadow \in [Byte -> Shadow]
         /\ chk[g].lo \in 0..NumBytes /\ chk[g].hi \in 0..NumBytes
         /\ chk[g].num_workers \in 0..NumWorkers
<1>1. chk[g] \in [priv : [Byte -> Value], shadow : [Byte -> Shadow],
                  lo : 0..NumBytes, hi : 0..NumBytes, num_workers : 0..NumWorkers]
  BY Zenon DEF TypeOK
<1>2. QED  BY <1>1

ChkObject == [priv : [Byte -> Value], shadow : [Byte -> Shadow],
              lo : 0..NumBytes, hi : 0..NumBytes, num_workers : 0..NumWorkers]

IsCombined(c, older, newer) ==
  /\ c.num_workers = newer.num_workers
  /\ \A b \in Byte :
       IF b \in Span(older.lo, older.hi) /\ Older(older, newer, b)
       THEN c.priv[b] = older.priv[b] /\ c.shadow[b] = OLD_ITERATION
       ELSE c.priv[b] = newer.priv[b] /\ c.shadow[b] = newer.shadow[b]
  /\ Span(older.lo, older.hi) \cup Span(newer.lo, newer.hi) \subseteq Span(c.lo, c.hi)

LEMMA CombinedIs ==
  ASSUME TypeOK, NEW older \in ChkObject, NEW newer \in ChkObject
  PROVE  Combined(older, newer) \in ChkObject /\ IsCombined(Combined(older, newer), older, newer)
<1> DEFINE c == Combined(older, newer)
           old(b) == b \in Span(older.lo, older.hi) /\ Older(older, newer, b)
           P == [b \in Byte |-> IF old(b) THEN older.priv[b] ELSE newer.priv[b]]
           Q == [b \in Byte |-> IF old(b) THEN OLD_ITERATION ELSE newer.shadow[b]]
           L == Min({older.lo, newer.lo})
           H == Max({older.hi, newer.hi})
           N == newer.num_workers
<1>1. /\ older.priv \in [Byte -> Value] /\ newer.priv \in [Byte -> Value] /\ newer.shadow \in [Byte -> Shadow]
      /\ older.lo \in 0..NumBytes /\ older.hi \in 0..NumBytes
      /\ newer.lo \in 0..NumBytes /\ newer.hi \in 0..NumBytes /\ N \in 0..NumWorkers
  BY DEF ChkObject
<1>2. NumBytes \in Nat /\ OLD_ITERATION \in Shadow
  BY Sizes DEF Shadow, OLD_ITERATION, NUM_RESERVED
<1>3. c = [priv |-> P, shadow |-> Q, lo |-> L, hi |-> H, num_workers |-> N]
  BY Zenon DEF Combined
<1>4. /\ L = (IF older.lo <= newer.lo THEN older.lo ELSE newer.lo)
      /\ H = (IF older.hi <= newer.hi THEN newer.hi ELSE older.hi)
  <2>1. older.lo \in Int /\ newer.lo \in Int /\ older.hi \in Int /\ newer.hi \in Int
    BY <1>1, <1>2
  <2>2. QED  BY <2>1, MinPair, MaxPair, Zenon
<1>5. P \in [Byte -> Value] /\ Q \in [Byte -> Shadow] /\ L \in 0..NumBytes /\ H \in 0..NumBytes
  <2> HIDE DEF old, L, H
  <2>1. QED  BY <1>1, <1>2, <1>4, Zenon
<1>6. \A b \in Byte : IF old(b) THEN P[b] = older.priv[b] /\ Q[b] = OLD_ITERATION
                      ELSE P[b] = newer.priv[b] /\ Q[b] = newer.shadow[b]
  <2> HIDE DEF old
  <2>1. QED  BY Zenon
<1>7. Span(older.lo, older.hi) \cup Span(newer.lo, newer.hi) \subseteq Span(L, H)
  <2> HIDE DEF L, H
  <2>1. QED  BY <1>1, <1>2, <1>4 DEF Span, Byte
<1> HIDE DEF P, Q, L, H, N, c
<1>8. c.priv = P /\ c.shadow = Q /\ c.lo = L /\ c.hi = H /\ c.num_workers = N
  BY <1>3
<1>9. c \in ChkObject
  BY <1>1, <1>3, <1>5 DEF ChkObject
<1>10. IsCombined(c, older, newer)
  BY <1>6, <1>7, <1>8, Zenon DEF N, IsCombined
<1>11. QED  BY <1>9, <1>10, Zenon DEF c

LEMMA CombinesFacts ==
  ASSUME TypeOK, CountInv, Combines
  PROVE  /\ oldest \in Nat /\ oldest \in Group /\ oldest + 1 \in Group /\ oldest + 1 <= Final
         /\ \A w \in Worker : Given(w) > oldest + 1
         /\ IsCombined(chk'[oldest + 1], chk[oldest], chk[oldest + 1])
         /\ \A g \in Group : g # oldest + 1 => chk'[g] = chk[g]
         /\ chk' \in [Group -> ChkObject]
<1>1. /\ oldest \in 0..(Final + 1) /\ Final \in Nat /\ Group = 0..Final /\ oldest < Final
      /\ chk \in [Group -> ChkObject]
  BY Sizes, Zenon DEF TypeOK, Combines, ChkObject
<1> DEFINE n == oldest + 1
<1>2. oldest \in Nat /\ oldest \in Group /\ n \in Group /\ n <= Final
  BY <1>1
<1>3. \A w \in Worker : Given(w) > n
  BY <1>2, CompleteMeans, Zenon DEF Combines
<1>4. chk[oldest] \in ChkObject /\ chk[n] \in ChkObject
  BY <1>1, <1>2, Zenon
<1>5. chk' = [chk EXCEPT ![n] = Combined(chk[oldest], chk[n])]
  BY Zenon DEF Combines
<1>6. chk'[n] = Combined(chk[oldest], chk[n]) /\ \A g \in Group : g # n => chk'[g] = chk[g]
  BY <1>1, <1>2, <1>5, Zenon
<1> HIDE DEF n
<1>7. Combined(chk[oldest], chk[n]) \in ChkObject /\ IsCombined(chk'[n], chk[oldest], chk[n])
  BY <1>4, <1>6, CombinedIs, Zenon
<1>8. chk' \in [Group -> ChkObject]
  BY <1>1, <1>5, <1>7, Zenon
<1>9. QED  BY <1>2, <1>3, <1>6, <1>7, <1>8, Zenon DEF n

LEMMA CombinesBasic ==
  ASSUME BasicInv, Combines
  PROVE  BasicInv'
<1>1. SameLoop /\ loop' = loop /\ iter' = iter /\ oldest' = oldest + 1 /\ main' = main /\ misspec' = misspec
  BY LoopSame, Zenon DEF Combines, worker
<1>2. TypeOK /\ CountInv /\ ~misspec /\ oldest < Final
  BY Zenon DEF BasicInv, Combines
<1>3. /\ oldest \in Nat /\ oldest + 1 \in Group /\ oldest + 1 <= Final
      /\ \A w \in Worker : Given(w) > oldest + 1
      /\ chk'[oldest + 1].num_workers = chk[oldest + 1].num_workers
      /\ \A g \in Group : g # oldest + 1 => chk'[g] = chk[g]
      /\ chk' \in [Group -> ChkObject]
  BY <1>2, CombinesFacts, Zenon DEF IsCombined
<1>4. Final \in Nat /\ oldest <= Final
  BY <1>2, <1>3, Sizes
<1>5. TypeOK'
  <2>1. oldest' \in 0..(Final + 1)
    BY <1>1, <1>3, <1>4
  <2>2. TypeNext
    BY <1>2, <1>3, <2>1, Zenon DEF TypeNext, TypeOK, Combines, worker, history, ChkObject
  <2>3. QED  BY <1>1, <1>2, <2>2, TypeKept, Zenon
<1>6. CountInv'
  BY <1>1, <1>2, <1>3, GivenSame, CountSame, Zenon
<1>7. MergedInv'
  BY <1>1, <1>3, GivenSame, Zenon DEF MergedInv
<1>8. QED  BY <1>1, <1>2, <1>4, <1>5, <1>6, <1>7, Zenon DEF BasicInv

LEMMA CombineFailsBasic ==
  ASSUME BasicInv, CombineFails
  PROVE  BasicInv'
<1>1. /\ SameLoop /\ loop' = loop /\ UNCHANGED <<iter, chk, oldest, main>> /\ oldest < Final
      /\ TypeOK /\ CountInv /\ MergedInv
  BY LoopSame, Zenon DEF CombineFails, Misspec, worker, BasicInv
<1>2. oldest <= Final
  <2>1. oldest \in 0..(Final + 1) /\ Final \in Nat
    BY <1>1, Sizes, Zenon DEF TypeOK
  <2>2. QED  BY <1>1, <2>1
<1>3. TypeOK'
  <2>1. TypeNext
    BY <1>1, Zenon DEF TypeNext, TypeOK, CombineFails, Misspec, worker
  <2>2. QED  BY <1>1, <2>1, TypeKept, Zenon
<1>4. CountInv' /\ MergedInv'
  BY <1>1, GivenSame, CountSame, MergedSame, Zenon
<1>5. QED  BY <1>1, <1>2, <1>3, <1>4, Zenon DEF BasicInv, SameLoop

LEMMA AdoptFacts ==
  ASSUME TypeOK, CountInv, adopt_private
  PROVE  /\ Final \in Group /\ oldest = Final /\ oldest' = Final + 1 /\ ~(oldest' <= Final)
         /\ \A w \in Worker : Given(w) > Final /\ Given(w) = Final + 1
<1>1. Final \in Nat /\ Final \in Group
  BY Sizes
<1>2. \A w \in Worker : Given(w) > Final
  BY <1>1, CompleteMeans, Zenon DEF adopt_private
<1>3. \A w \in Worker : Given(w) = Final + 1
  BY <1>1, <1>2, GivenFacts
<1>4. oldest' = Final + 1 /\ oldest = Final
  BY Zenon DEF adopt_private
<1>5. QED  BY <1>1, <1>2, <1>3, <1>4

LEMMA AdoptBasic ==
  ASSUME BasicInv, adopt_private
  PROVE  BasicInv'
<1>1. /\ SameLoop /\ loop' = loop /\ UNCHANGED <<iter, chk, misspec>> /\ ~misspec
      /\ TypeOK /\ CountInv
  BY LoopSame, Zenon DEF adopt_private, worker, BasicInv
<1>2. /\ Final \in Group /\ oldest = Final /\ oldest' = Final + 1 /\ ~(oldest' <= Final)
      /\ \A w \in Worker : Given(w) = Final + 1
  BY <1>1, AdoptFacts, Zenon
<1>3. TypeOK'
  <2>1. oldest' \in 0..(Final + 1)
    BY <1>1, <1>2, Sizes
  <2>2. main \in [Byte -> Value] /\ chk[Final].priv \in [Byte -> Value]
    BY <1>1, <1>2, ChkType, Zenon DEF TypeOK
  <2>3. main' \in [Byte -> Value]
    BY <2>2, Zenon DEF adopt_private
  <2>4. TypeNext
    BY <1>1, <2>1, <2>3, Zenon DEF TypeNext, TypeOK, adopt_private, worker, history
  <2>5. QED  BY <1>1, <2>4, TypeKept, Zenon
<1>4. CountInv'
  BY <1>1, GivenSame, CountSame, Zenon
<1>5. MergedInv'
  BY <1>1, <1>2, GivenSame, Zenon DEF MergedInv, SameLoop
<1>6. QED  BY <1>1, <1>2, <1>3, <1>4, <1>5, Zenon DEF BasicInv, SameLoop

\* What distill_worker_private_into_partial does when nothing conflicts.
Merges(w, g) ==
  /\ \A b \in Byte :
       IF b \in Distilled(w)
       THEN /\ chk'[g].shadow[b] = Max({shadow[w][b], chk[g].shadow[b]})
            /\ chk'[g].priv[b] = IF Newer(shadow[w][b], chk[g].shadow[b])
                                 THEN mem[w][b] ELSE chk[g].priv[b]
       ELSE chk'[g].shadow[b] = chk[g].shadow[b] /\ chk'[g].priv[b] = chk[g].priv[b]
  /\ Span(lo[w], hi[w]) \cup Span(chk[g].lo, chk[g].hi) \subseteq Span(chk'[g].lo, chk'[g].hi)
  /\ \A v \in Worker \ {w} : lo'[v] = lo[v] /\ hi'[v] = hi[v]

LEMMA MergesIs ==
  ASSUME TypeOK, NEW w \in Worker, NEW g \in Group, distill_worker(w, g),
         \A b \in Distilled(w) : ~Refuses(shadow[w][b], chk[g].shadow[b])
  PROVE  Merges(w, g) /\ ("refused" \in excused' => "refused" \in excused)
<1> DEFINE c == chk[g]
           bad == {b \in Distilled(w) : Refuses(shadow[w][b], c.shadow[b])}
           merged == {b \in Distilled(w) : \A d \in bad : b < d}
           P == [b \in Byte |-> IF b \in merged /\ Newer(shadow[w][b], c.shadow[b])
                                THEN mem[w][b] ELSE c.priv[b]]
           Q == [b \in Byte |-> IF b \in merged THEN Max({shadow[w][b], c.shadow[b]}) ELSE c.shadow[b]]
           L == IF bad = {} THEN Min({lo[w], c.lo}) ELSE c.lo
           H == IF bad = {} THEN Max({hi[w], c.hi}) ELSE c.hi
           N == c.num_workers + 1
<1>1. /\ chk' = [chk EXCEPT ![g] = [priv |-> P, shadow |-> Q, lo |-> L, hi |-> H, num_workers |-> N]]
      /\ IF bad = {} THEN lo' = [lo EXCEPT ![w] = NumBytes] /\ hi' = [hi EXCEPT ![w] = 0]
         ELSE UNCHANGED <<lo, hi>>
      /\ excused' = excused
           \cup {x \in {"refused"} : bad # {}}
           \cup {x \in {"stale"} : \E b \in Distilled(w) :
                    WAS_WRITTEN_EVER(shadow[w][b]) /\ mem[w][b] \div Granularity # g}
  BY Zenon DEF distill_worker
<1>2. bad = {}
  BY Zenon
<1>3. \A b : b \in merged <=> b \in Distilled(w)
  BY <1>2, Zenon
<1>4. \A b \in Byte :
        IF b \in Distilled(w)
        THEN /\ Q[b] = Max({shadow[w][b], c.shadow[b]})
             /\ P[b] = IF Newer(shadow[w][b], c.shadow[b]) THEN mem[w][b] ELSE c.priv[b]
        ELSE Q[b] = c.shadow[b] /\ P[b] = c.priv[b]
  <2> HIDE DEF merged, c
  <2>1. QED  BY <1>3, Zenon
<1>5. /\ chk \in [Group -> ChkObject] /\ lo \in [Worker -> 0..NumBytes] /\ hi \in [Worker -> 0..NumBytes]
  BY Zenon DEF TypeOK, ChkObject
<1>6. lo[w] \in Int /\ hi[w] \in Int /\ c.lo \in Int /\ c.hi \in Int
  <2>1. /\ lo[w] \in 0..NumBytes /\ hi[w] \in 0..NumBytes /\ c.lo \in 0..NumBytes /\ c.hi \in 0..NumBytes
        /\ NumBytes \in Nat
    BY <1>5, ChkType, SizeAssumption, Zenon
  <2> HIDE DEF c
  <2>2. QED  BY <2>1
<1>7. /\ L = IF lo[w] <= c.lo THEN lo[w] ELSE c.lo
      /\ H = IF hi[w] <= c.hi THEN c.hi ELSE hi[w]
  <2> HIDE DEF c, bad
  <2>1. QED  BY <1>2, <1>6, MinPair, MaxPair, Zenon
<1>8. Span(lo[w], hi[w]) \cup Span(c.lo, c.hi) \subseteq Span(L, H)
  <2> HIDE DEF c, L, H
  <2>1. QED  BY <1>6, <1>7 DEF Span, Byte
<1>9. \A v \in Worker \ {w} : lo'[v] = lo[v] /\ hi'[v] = hi[v]
  <2> HIDE DEF c, bad
  <2>1. QED  BY <1>1, <1>2, <1>5, Zenon
<1>10. "refused" \in excused' => "refused" \in excused
  <2> HIDE DEF bad
  <2>1. "refused" # "stale"
    OBVIOUS
  <2>2. QED  BY <1>1, <1>2, <2>1, Zenon
<1> HIDE DEF P, Q, L, H, N, c
<1>11. chk'[g] = [priv |-> P, shadow |-> Q, lo |-> L, hi |-> H, num_workers |-> N]
  BY <1>1, <1>5, Zenon
<1>12. chk'[g].priv = P /\ chk'[g].shadow = Q /\ chk'[g].lo = L /\ chk'[g].hi = H
  BY <1>11
<1>13. QED  BY <1>4, <1>8, <1>9, <1>10, <1>12, Zenon DEF Merges, c

-------------------------------------------------------------------------------
(* Nothing is marked as read before the first read *)

LEMMA SeesOne ==
  ASSUME NEW w, NEW S, S # {}, See(w, S)
  PROVE  seen' # {}
BY Zenon DEF See

LEMMA FailsUnread ==
  ASSUME TypeOK, UnreadInv, NEW w \in Worker, NEW S \in SUBSET Byte, S # {}, Fails(w, S)
  PROVE  UnreadInv'
<1>1. CASE seen = {} /\ Conflict(w, S)
  BY <1>1, Zenon DEF UnreadInv, Conflict
<1>2. CASE seen' # {}
  BY <1>2, Zenon DEF UnreadInv
<1>3. QED  BY <1>1, <1>2, SeesOne, Zenon DEF Fails

LEMMA StoresUnread ==
  ASSUME TypeOK, UnreadInv, NEW w \in Worker, OnIter(w), NEW S \in SUBSET Byte, NEW l, NEW h,
         Stores(w, S, l, h)
  PROVE  UnreadInv'
<1>1. SameLoop /\ seen' = seen /\ misspec' = misspec /\ chk' = chk
  BY LoopSame, Zenon DEF Stores, Store
<1>2. code8(iter[w]) # READ_LIVE_IN
  <2>1. code8(iter[w]) \in Nat /\ code8(iter[w]) >= 3
    BY OnIterFacts, IterFacts, Zenon
  <2>2. QED  BY <2>1 DEF READ_LIVE_IN
<1>3. shadow' = [shadow EXCEPT ![w] = [b \in Byte |-> IF b \in S THEN code8(iter[w]) ELSE @[b]]]
  BY Zenon DEF Stores, Store
<1>4. \A v \in Worker, b \in Byte : shadow'[v][b] \in {shadow[v][b], code8(iter[w])}
  BY <1>3, Zenon DEF TypeOK
<1>5. "refused" \in excused' => "refused" \in excused
  <2>1. "refused" # "elided"
    OBVIOUS
  <2>2. QED  BY <2>1, Zenon DEF Stores, Excuse
<1>6. QED  BY <1>1, <1>2, <1>4, <1>5, Zenon DEF UnreadInv, SameLoop

LEMMA LoadsUnread ==
  ASSUME NEW w, NEW S, S # {}, NEW l, NEW h, NEW s, Loads(w, S, l, h, s)
  PROVE  UnreadInv'
BY SeesOne, Zenon DEF UnreadInv, Loads, Load

LEMMA QuietUnread ==
  ASSUME UnreadInv, NEW w, Quiet(w)
  PROVE  UnreadInv'
<1>1. SameLoop
  BY LoopSame, Zenon DEF Quiet
<1>2. QED  BY <1>1, Zenon DEF UnreadInv, SameLoop, Quiet

LEMMA ShadowType ==
  ASSUME TypeOK
  PROVE  /\ \A w \in Worker, b \in Byte : shadow[w][b] \in Shadow /\ shadow[w][b] \in Nat
         /\ \A g \in Group, b \in Byte : chk[g].shadow[b] \in Shadow /\ chk[g].shadow[b] \in Nat
<1>1. Shadow \subseteq Nat
  BY Sizes DEF Shadow, NUM_RESERVED
<1>2. \A w \in Worker, b \in Byte : shadow[w][b] \in Shadow
  <2>1. shadow \in [Worker -> [Byte -> Shadow]]
    BY Zenon DEF TypeOK
  <2>2. QED  BY <2>1
<1>3. \A g \in Group, b \in Byte : chk[g].shadow[b] \in Shadow
  BY ChkType, Zenon
<1>4. QED  BY <1>1, <1>2, <1>3, Zenon

LEMMA ContributesUnread ==
  ASSUME BasicInv, UnreadInv, NEW w \in Worker, NEW g \in Group, Contributes(w, g)
  PROVE  UnreadInv'
<1>1. /\ SameLoop /\ UNCHANGED <<seen, misspec, shadow>> /\ distill_worker(w, g)
      /\ TypeOK /\ CountInv /\ Given(w) = g
  BY LoopSame, Zenon DEF Contributes, BasicInv
<1>2. CASE seen # {}
  BY <1>1, <1>2, Zenon DEF UnreadInv
<1>3. CASE seen = {}
  <2>1. Distilled(w) \subseteq Byte
    BY Zenon DEF Distilled, Span
  <2>2. \A b \in Distilled(w) : ~Refuses(shadow[w][b], chk[g].shadow[b])
    BY <1>3, <2>1, Zenon DEF UnreadInv, Refuses
  <2>3. Merges(w, g) /\ ("refused" \in excused' => "refused" \in excused)
    BY <1>1, <2>2, MergesIs, Zenon
  <2>5. ASSUME NEW h \in Group, NEW b \in Byte PROVE chk'[h].shadow[b] # READ_LIVE_IN
    <3>1. CASE h # g
      BY <1>1, <1>3, <3>1, DistillIs, Zenon DEF UnreadInv
    <3>2. CASE h = g
      <4>1. shadow[w][b] \in Int /\ chk[g].shadow[b] \in Int
        BY <1>1, ShadowType
      <4>2. chk'[g].shadow[b] \in {shadow[w][b], chk[g].shadow[b]}
        BY <2>3, <4>1, MaxPair, Zenon DEF Merges
      <4>3. QED  BY <1>3, <3>2, <4>2, Zenon DEF UnreadInv
    <3>3. QED  BY <3>1, <3>2, Zenon
  <2>6. QED  BY <1>1, <1>3, <2>3, <2>5, Zenon DEF UnreadInv, SameLoop
<1>4. QED  BY <1>2, <1>3, Zenon

LEMMA CombinesUnread ==
  ASSUME BasicInv, UnreadInv, Combines
  PROVE  UnreadInv'
<1>1. SameLoop /\ UNCHANGED <<seen, misspec, shadow, excused>> /\ TypeOK /\ CountInv
  BY LoopSame, Zenon DEF Combines, BasicInv, worker, history
<1>2. OLD_ITERATION # READ_LIVE_IN
  BY DEF OLD_ITERATION, READ_LIVE_IN
<1>3. /\ IsCombined(chk'[oldest + 1], chk[oldest], chk[oldest + 1])
      /\ \A g \in Group : g # oldest + 1 => chk'[g] = chk[g]
      /\ oldest + 1 \in Group
  BY <1>1, CombinesFacts, Zenon
<1>4. \A b \in Byte : chk'[oldest + 1].shadow[b] \in {chk[oldest + 1].shadow[b], OLD_ITERATION}
  BY <1>3, Zenon DEF IsCombined
<1>5. QED  BY <1>1, <1>2, <1>3, <1>4, Zenon DEF UnreadInv, SameLoop

-------------------------------------------------------------------------------
(* Accesses keep the metadata sound *)

LEMMA GroupOrder ==
  ASSUME TypeOK, NEW i \in Iter, NEW j \in Iter, GroupOf(i) < GroupOf(j)
  PROVE  i < j
<1>1. i \in Nat /\ j \in Nat /\ GroupOf(i) \in Nat /\ GroupOf(j) \in Nat /\ Granularity \in Nat \ {0}
  BY IterFacts, Sizes, Zenon
<1>2. j <= i => GroupOf(j) <= GroupOf(i)
  BY <1>1, DivMono, Zenon DEF GroupOf
<1>3. QED  BY <1>1, <1>2

LEMMA InSame ==
  ASSUME TypeOK, SameLoop, oldest' = oldest, \A v \in Worker : Given(v)' = Given(v), NEW j \in Iter
  PROVE  (Pending(j)' <=> Pending(j)) /\ \A g : In(j, g)' <=> In(j, g)
<1>1. Pending(j)' <=> Pending(j)
  BY IterFacts, Zenon DEF Pending, SameLoop
<1>2. QED  BY <1>1, Zenon DEF In, SameLoop

\* A worker's range only grows between its checkpoints.
LEMMA NotedGrows ==
  ASSUME TypeOK, SameLoop, oldest' = oldest, \A v \in Worker : Given(v)' = Given(v),
         \A v \in Worker : iter[v] <= iter'[v] /\ iter'[v] \in Nat,
         \A v \in Worker : Span(lo[v], hi[v]) \subseteq Span(lo'[v], hi'[v]),
         NEW b \in Byte, NEW i \in Iter, Noted(b, i)
  PROVE  Noted(b, i)'
<1>1. (Pending(i)' <=> Pending(i)) /\ Owner(i) \in Worker /\ i \in Nat
  BY InSame, IterFacts, Zenon
<1>2. i <= iter'[Owner(i)]
  <2>1. i <= iter[Owner(i)] /\ iter[Owner(i)] <= iter'[Owner(i)] /\ iter'[Owner(i)] \in Nat
        /\ iter[Owner(i)] \in Nat
    BY <1>1, GivenFacts, Zenon DEF Noted
  <2>2. QED  BY <1>1, <2>1
<1>3. QED  BY <1>1, <1>2, Zenon DEF Noted

\* What an access to bytes between l and h leaves as it is.
LEMMA AccessFrame ==
  ASSUME BasicInv, NEW w \in Worker, OnIter(w), NEW l \in 0..NumBytes, NEW h \in 0..NumBytes,
         update_shadow_range(w, l, h), UNCHANGED <<loop, iter, oldest>>, NEW i0, i0 = iter[w]
  PROVE  /\ SameLoop /\ oldest <= Final /\ oldest <= GroupOf(i0)
         /\ \A j \in Iter : Pending(j)' <=> Pending(j)
         /\ \A j \in Iter : \A g : In(j, g)' <=> In(j, g)
         /\ \A b \in Byte, i \in Iter : Noted(b, i) => Noted(b, i)'
         /\ \A b \in Span(l, h) : Noted(b, i0)'
<1>1. SameLoop /\ TypeOK
  BY LoopSame, Zenon DEF BasicInv
<1>2. \A v : Given(v)' = Given(v)
  BY <1>1, GivenSame, Zenon
<1>3. iter[w] \in Iter /\ Owner(iter[w]) = w /\ Given(w) = GroupOf(iter[w]) /\ Given(w) <= Final
  BY <1>1, OnIterFacts, Zenon
<1>4. oldest <= Final /\ oldest <= GroupOf(i0)
  BY <1>1, <1>3, Unfinished, Zenon DEF BasicInv
<1>5. \A v \in Worker : iter[v] \in Nat /\ iter[v] <= iter[v]
  BY <1>1, GivenFacts
<1>6. /\ Span(lo[w], hi[w]) \cup Span(l, h) \subseteq Span(lo'[w], hi'[w])
      /\ \A v \in Worker \ {w} : lo'[v] = lo[v] /\ hi'[v] = hi[v]
  BY <1>1, RangeType, Zenon
<1>7. \A v \in Worker : Span(lo[v], hi[v]) \subseteq Span(lo'[v], hi'[v])
  BY <1>6, Zenon
<1>8. \A b \in Byte, i \in Iter : Noted(b, i) => Noted(b, i)'
  BY <1>1, <1>2, <1>5, <1>7, NotedGrows, Zenon
<1>9. \A b \in Span(l, h) : Noted(b, i0)'
  BY <1>3, <1>5, <1>6, Zenon DEF Noted
<1>10. QED  BY <1>1, <1>2, <1>4, <1>8, <1>9, InSame, Zenon

LEMMA WorkerSame ==
  ASSUME SameLoop, NEW v, NEW b, WorkerInv(v, b),
         mem'[v][b] = mem[v][b], shadow'[v][b] = shadow[v][b], \A j : Wrote(b, j) => Wrote(b, j)'
  PROVE  WorkerInv(v, b)'
<1>1. PICK m : m = mem[v][b] /\ m = mem'[v][b]
  BY Zenon
<1>2. (Wrote(b, m) => Wrote(b, m)') /\ code8(m)' = code8(m)
  BY Zenon DEF SameLoop
<1>3. QED  BY <1>1, <1>2, Zenon DEF WorkerInv

LEMMA StoresSound ==
  ASSUME BasicInv, SoundInv, NEW w \in Worker, OnIter(w), NEW l \in 0..NumBytes, NEW h \in 0..NumBytes,
         NEW S \in SUBSET Span(l, h), Stores(w, S, l, h), excused' = {}
  PROVE  SoundInv'
<1>0. PICK i0 \in Iter : i0 = iter[w] /\ Owner(i0) = w /\ Pending(i0)
  BY OnIterFacts, Zenon DEF BasicInv
<1>1. /\ UNCHANGED <<loop, iter, chk, oldest, main, seen>> /\ written' = written \cup (S \X {i0})
      /\ update_shadow_range(w, l, h) /\ TypeOK /\ S \subseteq Byte
  BY <1>0, Zenon DEF Stores, Store, BasicInv, Span
<1>2. /\ SameLoop /\ oldest <= Final /\ oldest <= GroupOf(i0)
      /\ \A j \in Iter : Pending(j)' <=> Pending(j)
      /\ \A j \in Iter : \A g : In(j, g)' <=> In(j, g)
      /\ \A b \in Byte, i \in Iter : Noted(b, i) => Noted(b, i)'
      /\ \A b \in Span(l, h) : Noted(b, i0)'
  BY <1>0, <1>1, AccessFrame, Zenon
<1>3. i0 \in Nat /\ i0 # -1
  <2>1. i0 \in Nat
    BY <1>1, IterFacts, Zenon
  <2>2. QED  BY <2>1
<1>4. ~Conflict(w, S)
  BY Zenon DEF Stores, Excuse
<1>5. \A v \in Worker, b \in Byte :
        IF v = w /\ b \in S THEN mem'[v][b] = i0 /\ shadow'[v][b] = code8(i0)
        ELSE mem'[v][b] = mem[v][b] /\ shadow'[v][b] = shadow[v][b]
  <2>1. /\ shadow' = [shadow EXCEPT ![w] = [b \in Byte |-> IF b \in S THEN code8(i0) ELSE @[b]]]
        /\ mem' = [mem EXCEPT ![w] = [b \in Byte |-> IF b \in S THEN i0 ELSE @[b]]]
    BY <1>0, Zenon DEF Stores, Store
  <2>2. mem \in [Worker -> [Byte -> Value]] /\ shadow \in [Worker -> [Byte -> Shadow]]
    BY <1>1, Zenon DEF TypeOK
  <2>3. QED  BY <2>1, <2>2, Zenon
<1>6. \A b, j : Wrote(b, j)' <=> Wrote(b, j) \/ (b \in S /\ j = i0)
  <2>1. written' = written \cup (S \X {i0})
    BY <1>1, Zenon
  <2>2. QED  BY <2>1 DEF Wrote
<1>7. \A b, i : ReadLiveIn(b, i)' <=> ReadLiveIn(b, i)
  BY <1>1, Zenon DEF ReadLiveIn
<1>8. \A v \in Worker, b \in Byte : WorkerInv(v, b)'
  <2>1. SUFFICES ASSUME NEW v \in Worker, NEW b \in Byte PROVE WorkerInv(v, b)'
    BY Zenon
  <2>2. CASE v = w /\ b \in S
    BY <1>0, <1>2, <1>3, <1>5, <1>6, <2>2, Zenon DEF WorkerInv, SameLoop
  <2>3. CASE ~(v = w /\ b \in S)
    BY <1>2, <1>5, <1>6, <2>3, WorkerSame, Zenon DEF SoundInv
  <2>4. QED  BY <2>2, <2>3, Zenon
<1>9. HistoryInv'
  <2>1. ASSUME NEW b \in Byte, NEW j \in Iter, Wrote(b, j)'
        PROVE  Noted(b, j)' /\ j <= mem'[Owner(j)][b]
    <3>1. Owner(j) \in Worker /\ j \in Nat
      BY <1>1, IterFacts, Zenon
    <3>2. CASE b \in S /\ Owner(j) = w
      <4>1. j <= i0
        <5>1. CASE j = i0
          BY <1>3, <5>1
        <5>2. CASE Wrote(b, j)
          BY <1>0, <3>2, <5>2, Zenon DEF SoundInv, HistoryInv, Noted
        <5>3. QED  BY <1>6, <2>1, <5>1, <5>2, Zenon
      <4>2. mem'[Owner(j)][b] = i0
        BY <1>5, <3>1, <3>2, Zenon
      <4>3. Noted(b, j)'
        <5>1. CASE j = i0
          BY <1>2, <3>2, <5>1, Zenon
        <5>2. CASE Wrote(b, j)
          BY <1>2, <5>2, Zenon DEF SoundInv, HistoryInv
        <5>3. QED  BY <1>6, <2>1, <5>1, <5>2, Zenon
      <4>4. QED  BY <4>1, <4>2, <4>3, Zenon
    <3>3. CASE ~(b \in S /\ Owner(j) = w)
      <4>1. Wrote(b, j)
        BY <1>0, <1>6, <2>1, <3>3, Zenon
      <4>2. mem'[Owner(j)][b] = mem[Owner(j)][b]
        BY <1>5, <3>1, <3>3, Zenon
      <4>3. QED  BY <1>2, <4>1, <4>2, Zenon DEF SoundInv, HistoryInv
    <3>4. QED  BY <3>2, <3>3, Zenon
  <2>2. ASSUME NEW b \in Byte, NEW i \in Iter, ReadLiveIn(b, i)
        PROVE  Noted(b, i)' /\ shadow'[Owner(i)][b] = READ_LIVE_IN
    <3>1. Noted(b, i)' /\ shadow[Owner(i)][b] = READ_LIVE_IN /\ Owner(i) \in Worker
      BY <1>1, <1>2, <2>2, IterFacts, Zenon DEF SoundInv, HistoryInv
    <3>2. ~(Owner(i) = w /\ b \in S)
      BY <1>4, <3>1, Zenon DEF Conflict
    <3>3. QED  BY <1>5, <3>1, <3>2, Zenon
  <2>3. \A r \in seen' : r[3] \in {-1, r[2]}
    BY <1>1, Zenon DEF SoundInv, HistoryInv
  <2>4. QED  BY <1>2, <1>7, <2>1, <2>2, <2>3, Zenon DEF HistoryInv, SameLoop
<1>10. ReadInv'
  <2>1. SUFFICES ASSUME NEW b \in Byte, NEW i \in Iter, NEW j \in Iter,
                        ReadLiveIn(b, i), GroupOf(i) < oldest, j < i
                 PROVE  ~Wrote(b, j)'
    BY <1>1, <1>2, <1>7, Zenon DEF ReadInv, SameLoop
  <2>2. ~Wrote(b, j)
    BY <2>1, Zenon DEF SoundInv, ReadInv
  <2>3. j # i0
    <3>1. /\ GroupOf(i) \in Nat /\ GroupOf(i0) \in Nat /\ oldest \in 0..(Final + 1) /\ Final \in Nat
          /\ i \in Nat /\ j \in Nat
      BY <1>1, <1>3, IterFacts, Sizes, Zenon DEF TypeOK
    <3>2. GroupOf(i) < GroupOf(i0)
      BY <1>2, <2>1, <3>1
    <3>3. i < i0
      BY <1>1, <1>3, <3>2, GroupOrder, Zenon
    <3>4. QED  BY <1>3, <2>1, <3>1, <3>3
  <2>4. QED  BY <1>6, <2>2, <2>3, Zenon
<1>11. \A g \in Group, b \in Byte : g >= oldest => ChkInv(g, b)'
  <2>1. SUFFICES ASSUME NEW g \in Group, NEW b \in Byte, ChkInv(g, b) PROVE ChkInv(g, b)'
    BY Zenon DEF SoundInv
  <2>2. ASSUME NEW j \in Iter, Wrote(b, j)', In(j, g)
        PROVE  WAS_WRITTEN_EVER(chk[g].shadow[b]) /\ j <= chk[g].priv[b]
    <3>1. j # i0
      BY <1>0, <2>2, Zenon DEF In
    <3>2. QED  BY <1>6, <2>1, <2>2, <3>1, Zenon DEF ChkInv
  <2>3. QED  BY <1>1, <1>2, <1>6, <1>7, <2>1, <2>2, ZenonT(40) DEF ChkInv, SameLoop
<1>12. ~(oldest > Final)
  <2>1. oldest \in 0..(Final + 1) /\ Final \in Nat
    BY <1>1, Sizes, Zenon DEF TypeOK
  <2>2. QED  BY <1>2, <2>1
<1>13. QED  BY <1>1, <1>2, <1>8, <1>9, <1>10, <1>11, <1>12, Zenon DEF SoundInv, SameLoop

LEMMA LoadsSound ==
  ASSUME BasicInv, SoundInv, NEW w \in Worker, OnIter(w), NEW l \in 0..NumBytes, NEW h \in 0..NumBytes,
         NEW S \in SUBSET Span(l, h), NEW s \in [Byte -> Shadow], Loads(w, S, l, h, s), excused' = {}
  PROVE  SoundInv'
<1>0. PICK i0 \in Iter : i0 = iter[w] /\ Owner(i0) = w /\ Pending(i0)
  BY OnIterFacts, Zenon DEF BasicInv
<1>1. /\ UNCHANGED <<loop, mem, iter, chk, oldest, main, written>> /\ See(w, S)
      /\ update_shadow_range(w, l, h) /\ TypeOK /\ S \subseteq Byte
      /\ shadow' = [shadow EXCEPT ![w] = s]
      /\ MarksOnly(shadow[w], s) /\ Acceptable(w, shadow[w], S)
  BY Zenon DEF Loads, Load, BasicInv, Span
<1>2. /\ SameLoop /\ oldest <= Final /\ oldest <= GroupOf(i0)
      /\ \A j \in Iter : Pending(j)' <=> Pending(j)
      /\ \A j \in Iter : \A g : In(j, g)' <=> In(j, g)
      /\ \A b \in Byte, i \in Iter : Noted(b, i) => Noted(b, i)'
      /\ \A b \in Span(l, h) : Noted(b, i0)'
  BY <1>0, <1>1, AccessFrame, Zenon
<1>3. ASSUME NEW b \in S
      PROVE  s[b] # LIVE_IN /\ (shadow[w][b] = code8(i0) => mem[w][b] = i0)
  BY <1>0, Zenon DEF Loads, Load
<1>4. shadow'[w] = s /\ \A v \in Worker \ {w} : shadow'[v] = shadow[v]
  BY <1>1, Zenon DEF TypeOK
<1>5. \A b, j : Wrote(b, j)' <=> Wrote(b, j)
  BY <1>1, Zenon DEF Wrote
<1>6. LIVE_IN # READ_LIVE_IN /\ -1 \notin Iter
  BY <1>1, Sizes DEF LIVE_IN, READ_LIVE_IN
<1>7. ASSUME NEW b \in Byte, mem[w][b] # -1
      PROVE  /\ shadow[w][b] # LIVE_IN /\ shadow[w][b] # READ_LIVE_IN
  <2>1. mem[w][b] \in Iter
    <3>1. mem \in [Worker -> [Byte -> Value]]
      BY Zenon DEF BasicInv, TypeOK
    <3>2. mem[w][b] \in Value
      BY <3>1, Zenon
    <3>3. QED  BY <1>7, <3>2, Zenon DEF Value
  <2>2. shadow[w][b] = code8(mem[w][b])
    BY <1>7, Zenon DEF SoundInv, WorkerInv
  <2>3. code8(mem[w][b]) \in Nat /\ code8(mem[w][b]) >= 3
    BY <1>1, <2>1, IterFacts, Zenon
  <2>4. QED  BY <2>2, <2>3 DEF LIVE_IN, READ_LIVE_IN
<1>8. ASSUME NEW b \in Byte
      PROVE  /\ shadow[w][b] # LIVE_IN => s[b] = shadow[w][b]
             /\ mem[w][b] = -1 => s[b] \in {LIVE_IN, READ_LIVE_IN}
  <2>1. s[b] = shadow[w][b] \/ (shadow[w][b] = LIVE_IN /\ s[b] = READ_LIVE_IN)
    BY <1>1, Zenon DEF MarksOnly
  <2>2. mem[w][b] = -1 => shadow[w][b] \in {LIVE_IN, READ_LIVE_IN}
    BY Zenon DEF SoundInv, WorkerInv
  <2>3. QED  BY <2>1, <2>2, Zenon
<1>9. \A v \in Worker, b \in Byte : WorkerInv(v, b)'
  <2>1. SUFFICES ASSUME NEW v \in Worker, NEW b \in Byte PROVE WorkerInv(v, b)'
    BY Zenon
  <2>2. mem'[v][b] = mem[v][b] /\ \A j : Wrote(b, j) => Wrote(b, j)'
    BY <1>1, <1>5, Zenon
  <2>3. CASE v # w \/ mem[w][b] # -1
    <3>1. shadow'[v][b] = shadow[v][b]
      BY <1>4, <1>7, <1>8, <2>3, Zenon
    <3>2. QED  BY <1>2, <2>2, <3>1, WorkerSame, Zenon DEF SoundInv
  <2>4. CASE v = w /\ mem[w][b] = -1
    BY <1>4, <1>8, <2>2, <2>4, Zenon DEF WorkerInv
  <2>5. QED  BY <2>3, <2>4, Zenon
<1>10. \A r : r \in seen' <=> r \in seen \/ \E b \in S : r = <<b, i0, mem[w][b]>>
  BY <1>0, <1>1, Zenon DEF See
<1>11. ASSUME NEW b \in S
       PROVE  mem[w][b] \in {-1, i0}
  <2>1. b \in Byte /\ shadow[w][b] \in {LIVE_IN, READ_LIVE_IN, code8(i0)}
    BY <1>0, <1>1, Zenon DEF Acceptable
  <2>2. QED  BY <1>3, <1>7, <2>1, Zenon
<1>12. ASSUME NEW b \in Byte, NEW i \in Iter, ReadLiveIn(b, i)'
       PROVE  ReadLiveIn(b, i) \/ (b \in S /\ i = i0 /\ mem[w][b] = -1)
  <2>1. <<b, i, -1>> \in seen \/ \E d \in S : <<b, i, -1>> = <<d, i0, mem[w][d]>>
    BY <1>10, <1>12, Zenon DEF ReadLiveIn
  <2>2. CASE <<b, i, -1>> \in seen
    BY <2>2, Zenon DEF ReadLiveIn
  <2>3. ASSUME NEW d \in S, <<b, i, -1>> = <<d, i0, mem[w][d]>>
        PROVE  b \in S /\ i = i0 /\ mem[w][b] = -1
    <3>1. b = d /\ i = i0 /\ -1 = mem[w][d]
      BY <2>3
    <3>2. QED  BY <3>1, Zenon
  <2>4. QED  BY <2>1, <2>2, <2>3, Zenon
<1>13. HistoryInv'
  <2>1. ASSUME NEW b \in Byte, NEW j \in Iter, Wrote(b, j)
        PROVE  Noted(b, j)' /\ j <= mem'[Owner(j)][b]
    BY <1>1, <1>2, <2>1, Zenon DEF SoundInv, HistoryInv
  <2>2. ASSUME NEW b \in Byte, NEW i \in Iter, ReadLiveIn(b, i)'
        PROVE  Noted(b, i)' /\ shadow'[Owner(i)][b] = READ_LIVE_IN
    <3>1. CASE ReadLiveIn(b, i)
      <4>1. Noted(b, i)' /\ shadow[Owner(i)][b] = READ_LIVE_IN /\ Owner(i) \in Worker
        BY <1>1, <1>2, <3>1, IterFacts, Zenon DEF SoundInv, HistoryInv
      <4>2. QED  BY <1>4, <1>6, <1>8, <4>1, Zenon
    <3>2. CASE b \in S /\ i = i0 /\ mem[w][b] = -1
      <4>1. s[b] = READ_LIVE_IN
        BY <1>3, <1>8, <3>2, Zenon
      <4>2. QED  BY <1>0, <1>2, <1>4, <3>2, <4>1, Zenon
    <3>3. QED  BY <1>12, <2>2, <3>1, <3>2, Zenon
  <2>3. ASSUME NEW r \in seen' PROVE r[3] \in {-1, r[2]}
    <3>1. CASE r \in seen
      BY <3>1, Zenon DEF SoundInv, HistoryInv
    <3>2. ASSUME NEW b \in S, r = <<b, i0, mem[w][b]>> PROVE r[3] \in {-1, r[2]}
      <4>1. r[3] = mem[w][b] /\ r[2] = i0
        BY <3>2
      <4>2. QED  BY <1>11, <4>1, Zenon
    <3>3. QED  BY <1>10, <3>1, <3>2, Zenon
  <2>4. QED  BY <1>2, <1>5, <2>1, <2>2, <2>3, Zenon DEF HistoryInv, SameLoop
<1>14. ASSUME NEW i \in Iter, GroupOf(i) < oldest PROVE i # i0
  <2>1. GroupOf(i0) \in Nat /\ oldest \in 0..(Final + 1) /\ Final \in Nat
    BY <1>1, IterFacts, Sizes, Zenon DEF TypeOK
  <2>2. QED  BY <1>2, <1>14, <2>1
<1>15. ReadInv'
  BY <1>1, <1>2, <1>5, <1>12, <1>14, Zenon DEF SoundInv, ReadInv, SameLoop
<1>16. \A g \in Group, b \in Byte : g >= oldest => ChkInv(g, b)'
  <2>1. SUFFICES ASSUME NEW g \in Group, NEW b \in Byte, ChkInv(g, b) PROVE ChkInv(g, b)'
    BY Zenon DEF SoundInv
  <2>2. ASSUME NEW i \in Iter, ReadLiveIn(b, i)', ~Pending(i), GroupOf(i) = g
        PROVE  chk[g].shadow[b] = READ_LIVE_IN
    BY <1>0, <1>12, <2>1, <2>2, Zenon DEF ChkInv
  <2>3. QED  BY <1>1, <1>2, <1>5, <2>1, <2>2, ZenonT(40) DEF ChkInv, SameLoop
<1>17. ~(oldest > Final)
  <2>1. oldest \in 0..(Final + 1) /\ Final \in Nat
    BY <1>1, Sizes, Zenon DEF TypeOK
  <2>2. QED  BY <1>2, <2>1
<1>18. QED  BY <1>1, <1>2, <1>9, <1>13, <1>15, <1>16, <1>17, Zenon DEF SoundInv, SameLoop

LEMMA ChkSame ==
  ASSUME SameLoop, NEW g, NEW b, ChkInv(g, b), chk'[g] = chk[g],
         \A j : Wrote(b, j)' <=> Wrote(b, j), \A i : ReadLiveIn(b, i)' => ReadLiveIn(b, i),
         \A j \in Iter : In(j, g)' <=> In(j, g),
         \A i \in Iter : GroupOf(i) = g => (Pending(i)' <=> Pending(i))
  PROVE  ChkInv(g, b)'
<1>1. PICK c : c = chk[g] /\ c = chk'[g]
  BY Zenon
<1>2. ASSUME NEW j \in Iter, Wrote(b, j)', In(j, g)'
      PROVE  WAS_WRITTEN_EVER(c.shadow[b]) /\ j <= c.priv[b]
  BY <1>1, <1>2, Zenon DEF ChkInv
<1>3. ASSUME WAS_WRITTEN_EVER(c.shadow[b])
      PROVE  /\ c.priv[b] \in Iter /\ Wrote(b, c.priv[b])' /\ In(c.priv[b], g)'
             /\ c.shadow[b] = IF GroupOf(c.priv[b]) = g THEN code8(c.priv[b]) ELSE OLD_ITERATION
             /\ b \in Span(c.lo, c.hi)
  BY <1>1, <1>3, Zenon DEF ChkInv
<1>4. ASSUME NEW i \in Iter, ReadLiveIn(b, i)', ~Pending(i)', GroupOf(i) = g
      PROVE  c.shadow[b] = READ_LIVE_IN
  BY <1>1, <1>4, Zenon DEF ChkInv
<1>5. PICK p : p = c.priv[b]
  BY Zenon
<1>6. GroupOf(p)' = GroupOf(p) /\ code8(p)' = code8(p) /\ Iter' = Iter /\ \A i : GroupOf(i)' = GroupOf(i)
  BY Zenon DEF SameLoop
<1>7. QED  BY <1>1, <1>2, <1>3, <1>4, <1>5, <1>6, ZenonT(40) DEF ChkInv

LEMMA QuietSound ==
  ASSUME BasicInv, SoundInv, NEW w \in Worker, Quiet(w)
  PROVE  SoundInv'
<1>1. /\ UNCHANGED <<loop, mem, shadow, lo, hi, chk, oldest, main, written, seen>>
      /\ \A v \in Worker : Given(v)' = Given(v)
      /\ iter' = [iter EXCEPT ![w] = @ + 1] /\ iter[w] < End
      /\ SameLoop /\ TypeOK /\ MergedInv
  BY LoopSame, Zenon DEF Quiet, BasicInv
<1>2. oldest <= Final
  <2>1. End \in Nat /\ iter[w] \in Nat
    BY <1>1, Sizes, GivenFacts, Zenon
  <2>2. iter[w] <= End
    BY <1>1, <2>1
  <2>3. QED  BY <1>1, <2>2, GivenFacts, Unfinished, Zenon
<1>3. \A v \in Worker : iter[v] <= iter'[v] /\ iter'[v] \in Nat
  <2>1. iter \in [Worker -> 0..(End + 1)] /\ End \in Nat
    BY <1>1, Sizes, Zenon DEF TypeOK
  <2>2. QED  BY <1>1, <2>1
<1>4. /\ \A j \in Iter : Pending(j)' <=> Pending(j)
      /\ \A j \in Iter : \A g : In(j, g)' <=> In(j, g)
  BY <1>1, InSame, Zenon
<1>5. \A b \in Byte, i \in Iter : Noted(b, i) => Noted(b, i)'
  <2>1. \A v : Span(lo[v], hi[v]) \subseteq Span(lo'[v], hi'[v])
    BY <1>1, Zenon
  <2>2. QED  BY <1>1, <1>3, <2>1, NotedGrows, Zenon
<1>6. \A b, j : (Wrote(b, j)' <=> Wrote(b, j)) /\ (ReadLiveIn(b, j)' <=> ReadLiveIn(b, j))
  BY <1>1, Zenon DEF Wrote, ReadLiveIn
<1>7. \A v \in Worker, b \in Byte : WorkerInv(v, b)'
  BY <1>1, <1>6, WorkerSame, Zenon DEF SoundInv
<1>8. HistoryInv'
  <2>1. HistoryInv
    BY Zenon DEF SoundInv
  <2>2. QED  BY <1>1, <1>5, <1>6, <2>1, Zenon DEF HistoryInv, SameLoop
<1>9. ReadInv'
  BY <1>1, <1>6, Zenon DEF SoundInv, ReadInv, SameLoop
<1>10. \A g \in Group, b \in Byte : g >= oldest => ChkInv(g, b)'
  BY <1>1, <1>4, <1>6, ChkSame, Zenon DEF SoundInv
<1>11. ~(oldest > Final)
  <2>1. oldest \in 0..(Final + 1) /\ Final \in Nat
    BY <1>1, Sizes, Zenon DEF TypeOK
  <2>2. QED  BY <1>2, <2>1
<1>12. QED  BY <1>1, <1>7, <1>8, <1>9, <1>10, <1>11, Zenon DEF SoundInv, SameLoop
=============================================================================
