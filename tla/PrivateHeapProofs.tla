------------------------- MODULE PrivateHeapProofs -------------------------
(***************************************************************************)
(* Theorems about PrivateHeap: what the shadow metadata promises of a      *)
(* region that neither misspeculates nor is excused.  Contributing,        *)
(* combining and adopting checkpoints preserve the invariant.              *)
(***************************************************************************)
EXTENDS PrivateHeapInv

-------------------------------------------------------------------------------
(* Contributing to a checkpoint *)

\* A worker that has touched a byte looks at it at the checkpoint.
LEMMA Looked ==
  ASSUME TypeOK, NEW w \in Worker, NEW b \in Span(lo[w], hi[w]), shadow[w][b] # LIVE_IN
  PROVE  b \in Distilled(w)
<1>1. b \in Byte /\ lo[w] <= b /\ b < hi[w]
  BY Zenon DEF Span
<1>2. lo[w] \in 0..NumBytes /\ hi[w] \in 0..NumBytes /\ NumBytes \in Nat /\ WordBytes \in Nat \ {0}
  BY SizeAssumption, Zenon DEF TypeOK
<1>3. lo[w] \in Nat /\ hi[w] \in Nat /\ b \in Nat
  BY <1>1, <1>2 DEF Byte
<1>4. RoundDown(lo[w]) \in Int /\ RoundDown(lo[w]) <= lo[w]
  <2>1. lo[w] % WordBytes \in Nat
    BY <1>2, <1>3, DivFacts, Zenon
  <2>2. QED  BY <1>3, <2>1 DEF RoundDown
<1>5. RoundUp(hi[w]) \in Int /\ RoundUp(hi[w]) >= hi[w]
  <2>1. PICK x \in Nat : x = hi[w] + WordBytes - 1
    BY <1>2, <1>3
  <2>2. x % WordBytes \in Nat /\ x % WordBytes < WordBytes
    BY <1>2, <2>1, DivFacts, Zenon
  <2>3. RoundUp(hi[w]) = x - (x % WordBytes)
    BY <2>1, Zenon DEF RoundUp, RoundDown
  <2>4. QED  BY <1>2, <1>3, <2>1, <2>2, <2>3
<1>6. b \in Span(RoundDown(lo[w]), RoundUp(hi[w]))
  BY <1>1, <1>3, <1>4, <1>5 DEF Span
<1>7. QED  BY <1>1, <1>6, OwnWord, Zenon DEF Distilled

\* What contributing moves from the worker to the checkpoint.
LEMMA ContributesFrame ==
  ASSUME BasicInv, NEW w \in Worker, NEW g \in Group, Contributes(w, g)
  PROVE  /\ SameLoop /\ oldest <= Final
         /\ \A j \in Iter : Owner(j) = w /\ GroupOf(j) = g => Pending(j)
         /\ \A j \in Iter : ~Pending(j)' <=> ~Pending(j) \/ (Owner(j) = w /\ GroupOf(j) = g)
         /\ \A j \in Iter : In(j, g) <=> ~Pending(j) /\ GroupOf(j) = g
         /\ \A j \in Iter : \A h \in Group :
              In(j, h)' <=> In(j, h) \/ (Owner(j) = w /\ GroupOf(j) = g /\ h = g)
<1>1. /\ SameLoop /\ TypeOK /\ MergedInv /\ oldest' = oldest
      /\ g = Given(w) /\ g <= Final /\ Given(w)' = g + 1
      /\ \A v \in Worker \ {w} : Given(v)' = Given(v)
  BY LoopSame, Zenon DEF Contributes, BasicInv
<1>2. oldest <= Final /\ oldest <= g /\ (oldest > 0 => oldest < g)
  BY <1>1, Unfinished, Zenon
<1>3. oldest \in Nat /\ g \in Nat /\ Final \in Nat
  <2>1. oldest \in 0..(Final + 1) /\ Final \in Nat /\ Group = 0..Final
    BY <1>1, Sizes, Zenon DEF TypeOK
  <2>2. QED  BY <2>1
<1>4. ASSUME NEW j \in Iter
      PROVE  /\ Owner(j) = w /\ GroupOf(j) = g => Pending(j)
             /\ ~Pending(j)' <=> ~Pending(j) \/ (Owner(j) = w /\ GroupOf(j) = g)
             /\ In(j, g) <=> ~Pending(j) /\ GroupOf(j) = g
             /\ \A h \in Group : In(j, h)' <=> In(j, h) \/ (Owner(j) = w /\ GroupOf(j) = g /\ h = g)
  <2>1. /\ GroupOf(j) \in Nat /\ Owner(j) \in Worker /\ Given(Owner(j)) \in Nat
        /\ GroupOf(j)' = GroupOf(j) /\ Owner(j)' = Owner(j)
    BY <1>1, IterFacts, GivenFacts, Zenon DEF SameLoop, Owner
  <2>2. PICK o \in Worker, x \in Nat : o = Owner(j) /\ x = GroupOf(j)
    BY <2>1, Zenon
  <2>3. (Pending(j) <=> Given(o) <= x) /\ (Pending(j)' <=> Given(o)' <= x)
    BY <2>1, <2>2, Zenon DEF Pending
  <2>4. /\ o = w /\ x = g => Pending(j)
        /\ ~Pending(j)' <=> ~Pending(j) \/ (o = w /\ x = g)
    <3>1. CASE o # w
      <4>1. Given(o)' = Given(o)
        BY <1>1, <3>1, Zenon
      <4>2. QED  BY <2>3, <3>1, <4>1, Zenon
    <3>2. CASE o = w
      <4>1. (Pending(j) <=> g <= x) /\ (Pending(j)' <=> g + 1 <= x)
        BY <1>1, <2>3, <3>2, Zenon
      <4>2. QED  BY <1>3, <3>2, <4>1
    <3>3. QED  BY <3>1, <3>2, Zenon
  <2>5. In(j, g) <=> ~Pending(j) /\ x = g
    <3>1. ~(g = oldest /\ x < g)
      BY <1>2, <1>3
    <3>2. QED  BY <2>2, <3>1, Zenon DEF In
  <2>6. ASSUME NEW h \in Group PROVE In(j, h)' <=> In(j, h) \/ (o = w /\ x = g /\ h = g)
    <3>1. /\ In(j, h) <=> ~Pending(j) /\ (x = h \/ (h = oldest /\ x < h))
          /\ In(j, h)' <=> ~Pending(j)' /\ (x = h \/ (h = oldest /\ x < h))
      BY <1>1, <2>1, <2>2, Zenon DEF In
    <3>2. ~(x = g /\ h = oldest /\ x < h)
      BY <1>2, <1>3
    <3>3. QED  BY <2>4, <3>1, <3>2, Zenon
  <2>7. QED  BY <2>2, <2>4, <2>5, <2>6, Zenon
<1>5. QED  BY <1>1, <1>2, <1>4, Zenon

\* What worker w has in byte b at the checkpoint of group g, when the merge
\* is neither refused nor of a stale write.
Finds(w, g, b) ==
  LET ss == shadow[w][b]
      m  == mem[w][b]
  IN  /\ ss = LIVE_IN => m = -1
      /\ ss = READ_LIVE_IN => m = -1
      /\ ss \notin {LIVE_IN, READ_LIVE_IN} =>
           /\ m \in Iter /\ ss = code8(m) /\ GroupOf(m) = g /\ Owner(m) = w /\ Wrote(b, m)
           /\ b \in Span(lo[w], hi[w])

LEMMA FindsIs ==
  ASSUME TypeOK, SoundInv, NEW w \in Worker, NEW g \in Group, distill_worker(w, g), Given(w) = g,
         excused' = {}
  PROVE  /\ \A b \in Distilled(w) : ~Refuses(shadow[w][b], chk[g].shadow[b])
         /\ \A b \in Distilled(w) : Finds(w, g, b)
<1>1. ASSUME NEW b \in Distilled(w)
      PROVE  /\ ~Refuses(shadow[w][b], chk[g].shadow[b])
             /\ WAS_WRITTEN_EVER(shadow[w][b]) => mem[w][b] \div Granularity = g
  BY Zenon DEF distill_worker
<1>2. ASSUME NEW b \in Distilled(w) PROVE Finds(w, g, b)
  <2>1. b \in Byte /\ WorkerInv(w, b)
    BY Zenon DEF Distilled, Span, SoundInv
  <2>2. mem \in [Worker -> [Byte -> Value]]
    BY Zenon DEF TypeOK
  <2>3. mem[w][b] = -1 \/ mem[w][b] \in Iter
    BY <2>1, <2>2, Zenon DEF Value
  <2>4. CASE mem[w][b] = -1
    BY <2>1, <2>4, Zenon DEF Finds, WorkerInv
  <2>5. CASE mem[w][b] # -1 /\ mem[w][b] \in Iter
    <3>1. PICK m \in Iter : m = mem[w][b]
      BY <2>5, Zenon
    <3>2. Wrote(b, m) /\ Owner(m) = w /\ shadow[w][b] = code8(m)
      BY <2>1, <2>5, <3>1, Zenon DEF WorkerInv
    <3>3. code8(m) \in Nat /\ code8(m) >= 3
      BY IterFacts, Zenon
    <3>4. WAS_WRITTEN_EVER(code8(m)) /\ code8(m) # LIVE_IN /\ code8(m) # READ_LIVE_IN
      BY <3>3 DEF WAS_WRITTEN_EVER, LIVE_IN, READ_LIVE_IN, OLD_ITERATION
    <3>5. GroupOf(m) = g
      BY <1>1, <3>1, <3>2, <3>4, Zenon DEF GroupOf
    <3>6. Pending(m)
      <4>1. g \in Nat
        BY Sizes
      <4>2. g <= g
        BY <4>1
      <4>3. QED  BY <3>2, <3>5, <4>2, Zenon DEF Pending
    <3>7. b \in Span(lo[w], hi[w])
      BY <2>1, <3>2, <3>6, Zenon DEF SoundInv, HistoryInv, Noted
    <3>8. QED  BY <3>1, <3>2, <3>4, <3>5, <3>7, Zenon DEF Finds
  <2>6. QED  BY <2>3, <2>4, <2>5, Zenon
<1>3. QED  BY <1>1, <1>2, Zenon

\* Within a group the codes have the order of the iterations.
LEMMA CodeOrder ==
  ASSUME TypeOK, NEW i \in Iter, NEW j \in Iter, GroupOf(i) = GroupOf(j)
  PROVE  i < j <=> code8(i) < code8(j)
<1>1. i \in Nat /\ j \in Nat /\ Granularity \in Nat \ {0}
  BY IterFacts, Sizes, Zenon
<1>2. i < j <=> i % Granularity < j % Granularity
  BY <1>1, SameDiv, Zenon DEF GroupOf
<1>3. i % Granularity \in Nat /\ j % Granularity \in Nat
  BY <1>1, DivFacts, Zenon
<1>4. QED  BY <1>2, <1>3 DEF code8, NUM_RESERVED

\* What worker w adds to a checkpoint: the writes and reads of its iterations.
Adds(w, g, b) ==
  /\ \A j \in Iter : Wrote(b, j) /\ Owner(j) = w /\ GroupOf(j) = g =>
       b \in Distilled(w) /\ mem[w][b] # -1 /\ j <= mem[w][b]
  /\ \A i \in Iter : ReadLiveIn(b, i) /\ Owner(i) = w /\ GroupOf(i) = g =>
       b \in Distilled(w) /\ shadow[w][b] = READ_LIVE_IN

LEMMA AddsIs ==
  ASSUME TypeOK, SoundInv, NEW w \in Worker, NEW g \in Group, NEW b \in Byte,
         \A j \in Iter : Owner(j) = w /\ GroupOf(j) = g => Pending(j)
  PROVE  Adds(w, g, b)
<1>1. LIVE_IN # READ_LIVE_IN
  BY DEF LIVE_IN, READ_LIVE_IN
<1>2. ASSUME NEW j \in Iter, Wrote(b, j), Owner(j) = w, GroupOf(j) = g
      PROVE  b \in Distilled(w) /\ mem[w][b] # -1 /\ j <= mem[w][b]
  <2>1. b \in Span(lo[w], hi[w]) /\ j <= mem[w][b]
    BY <1>2, Zenon DEF SoundInv, HistoryInv, Noted
  <2>2. mem[w][b] # -1
    <3>1. j \in Nat
      BY IterFacts, Zenon
    <3>2. QED  BY <2>1, <3>1
  <2>3. mem[w][b] \in Iter
    <3>1. mem \in [Worker -> [Byte -> Value]]
      BY Zenon DEF TypeOK
    <3>2. mem[w][b] \in Value
      BY <3>1, Zenon
    <3>3. QED  BY <2>2, <3>2, Zenon DEF Value
  <2>4. shadow[w][b] = code8(mem[w][b])
    BY <2>2, Zenon DEF SoundInv, WorkerInv
  <2>5. code8(mem[w][b]) \in Nat /\ code8(mem[w][b]) >= 3
    BY <2>3, IterFacts, Zenon
  <2>6. shadow[w][b] # LIVE_IN
    BY <2>4, <2>5 DEF LIVE_IN
  <2>7. QED  BY <2>1, <2>2, <2>6, Looked, Zenon
<1>3. ASSUME NEW i \in Iter, ReadLiveIn(b, i), Owner(i) = w, GroupOf(i) = g
      PROVE  b \in Distilled(w) /\ shadow[w][b] = READ_LIVE_IN
  <2>1. b \in Span(lo[w], hi[w]) /\ shadow[w][b] = READ_LIVE_IN
    BY <1>3, Zenon DEF SoundInv, HistoryInv, Noted
  <2>2. QED  BY <1>1, <2>1, Looked, Zenon
<1>4. QED  BY <1>2, <1>3, Zenon DEF Adds

\* A byte of the checkpoint after the merge.
LEMMA MergeChk ==
  ASSUME BasicInv, SoundInv, NEW w \in Worker, NEW g \in Group, Contributes(w, g), excused' = {},
         NEW b \in Byte, ChkInv(g, b)
  PROVE  ChkInv(g, b)'
<1>1. TypeOK /\ SameLoop /\ distill_worker(w, g) /\ Given(w) = g /\ UNCHANGED <<written, seen>>
  BY LoopSame, Zenon DEF BasicInv, Contributes
<1>2. /\ \A d \in Distilled(w) : ~Refuses(shadow[w][d], chk[g].shadow[d])
      /\ \A d \in Distilled(w) : Finds(w, g, d)
  BY <1>1, FindsIs, Zenon
<1>3. Merges(w, g)
  BY <1>1, <1>2, MergesIs, Zenon
<1>4. Adds(w, g, b)
  BY <1>1, ContributesFrame, AddsIs, Zenon
<1>5. /\ \A j \in Iter : ~Pending(j)' <=> ~Pending(j) \/ (Owner(j) = w /\ GroupOf(j) = g)
      /\ \A j \in Iter : In(j, g) <=> ~Pending(j) /\ GroupOf(j) = g
      /\ \A j \in Iter : In(j, g)' <=> In(j, g) \/ (Owner(j) = w /\ GroupOf(j) = g)
  BY ContributesFrame, Zenon
<1>6. PICK ss \in Nat, ds \in Nat, x \in Nat,
           m \in {mem[w][b]}, p \in {chk[g].priv[b]}, y \in {chk'[g].priv[b]} :
        /\ ss = shadow[w][b] /\ ds = chk[g].shadow[b] /\ x = chk'[g].shadow[b]
        /\ m = mem[w][b] /\ p = chk[g].priv[b] /\ y = chk'[g].priv[b]
  <2>1. shadow[w][b] \in Nat /\ chk[g].shadow[b] \in Nat
    BY <1>1, ShadowType, Zenon
  <2>2. chk'[g].shadow[b] \in Nat
    <3>1. CASE b \in Distilled(w)
      <4>1. chk'[g].shadow[b] = Max({shadow[w][b], chk[g].shadow[b]})
        BY <1>3, <3>1, Zenon DEF Merges
      <4>2. \A d, e \in Nat : Max({d, e}) = IF d <= e THEN e ELSE d
        BY MaxPair
      <4>3. QED  BY <2>1, <4>1, <4>2, Zenon
    <3>2. CASE b \notin Distilled(w)
      BY <1>3, <2>1, <3>2, Zenon DEF Merges
    <3>3. QED  BY <3>1, <3>2, Zenon
  <2>3. QED  BY <2>1, <2>2, Zenon
<1>7. /\ \A j \in Iter : Wrote(b, j) /\ ~Pending(j) /\ GroupOf(j) = g => ds >= 2 /\ j <= p
      /\ ds >= 2 => /\ p \in Iter /\ Wrote(b, p) /\ ~Pending(p) /\ GroupOf(p) = g /\ ds = code8(p)
                    /\ b \in Span(chk'[g].lo, chk'[g].hi)
      /\ \A i \in Iter : ReadLiveIn(b, i) /\ ~Pending(i) /\ GroupOf(i) = g => ds = READ_LIVE_IN
  <2>1. /\ \A j \in Iter : Wrote(b, j) /\ In(j, g) => WAS_WRITTEN_EVER(ds) /\ j <= p
        /\ WAS_WRITTEN_EVER(ds) => /\ p \in Iter /\ Wrote(b, p) /\ In(p, g)
                                   /\ ds = IF GroupOf(p) = g THEN code8(p) ELSE OLD_ITERATION
                                   /\ b \in Span(chk[g].lo, chk[g].hi)
        /\ \A i \in Iter : ReadLiveIn(b, i) /\ ~Pending(i) /\ GroupOf(i) = g => ds = READ_LIVE_IN
    BY <1>6, Zenon DEF ChkInv
  <2>2. Span(chk[g].lo, chk[g].hi) \subseteq Span(chk'[g].lo, chk'[g].hi)
    BY <1>3, Zenon DEF Merges
  <2>3. WAS_WRITTEN_EVER(ds) <=> ds >= 2
    BY Zenon DEF WAS_WRITTEN_EVER, OLD_ITERATION
  <2>4. QED  BY <1>5, <2>1, <2>2, <2>3, Zenon
<1>8. SUFFICES /\ \A j \in Iter : Wrote(b, j) /\ GroupOf(j) = g /\ (~Pending(j) \/ Owner(j) = w) =>
                    x >= 2 /\ j <= y
               /\ x >= 2 => /\ y \in Iter /\ Wrote(b, y) /\ GroupOf(y) = g /\ x = code8(y)
                            /\ ~Pending(y) \/ Owner(y) = w
                            /\ b \in Span(chk'[g].lo, chk'[g].hi)
               /\ \A i \in Iter : ReadLiveIn(b, i) /\ GroupOf(i) = g /\ (~Pending(i) \/ Owner(i) = w) =>
                    x = READ_LIVE_IN
  <2>1. /\ \A j : (Wrote(b, j)' <=> Wrote(b, j)) /\ (ReadLiveIn(b, j)' <=> ReadLiveIn(b, j))
        /\ Iter' = Iter /\ \A i : GroupOf(i)' = GroupOf(i) /\ code8(i)' = code8(i)
    BY <1>1, Zenon DEF Wrote, ReadLiveIn, SameLoop
  <2>2. WAS_WRITTEN_EVER(x) <=> x >= 2
    BY Zenon DEF WAS_WRITTEN_EVER, OLD_ITERATION
  <2>3. /\ \A j \in Iter : Wrote(b, j)' /\ In(j, g)' => WAS_WRITTEN_EVER(x) /\ j <= y
        /\ WAS_WRITTEN_EVER(x) => /\ y \in Iter /\ Wrote(b, y)' /\ In(y, g)' /\ GroupOf(y)' = g
                                  /\ x = code8(y)' /\ b \in Span(chk'[g].lo, chk'[g].hi)
        /\ \A i \in Iter : ReadLiveIn(b, i)' /\ ~Pending(i)' /\ GroupOf(i)' = g => x = READ_LIVE_IN
    BY <1>5, <1>8, <2>1, <2>2, ZenonT(40)
  <2>4. QED  BY <1>6, <2>1, <2>3, ZenonT(40) DEF ChkInv
<1>9. CASE b \notin Distilled(w)
  <2>1. x = ds /\ y = p
    BY <1>3, <1>6, <1>9, Zenon DEF Merges
  <2>2. QED  BY <1>4, <1>7, <1>9, <2>1, Zenon DEF Adds
<1>10. CASE b \in Distilled(w)
  <2>1. x = IF ss <= ds THEN ds ELSE ss
    <3>1. x = Max({ss, ds})
      BY <1>3, <1>6, <1>10, Zenon DEF Merges
    <3>2. QED  BY <3>1, MaxPair
  <2>2. y = IF ss > ds /\ ss # READ_LIVE_IN THEN m ELSE p
    BY <1>3, <1>6, <1>10, Zenon DEF Merges, Newer
  <2>3. /\ ss = READ_LIVE_IN => ds \in {LIVE_IN, READ_LIVE_IN}
        /\ ss # READ_LIVE_IN => ds # READ_LIVE_IN
    BY <1>2, <1>6, <1>10, Zenon DEF Refuses
  <2>4. /\ ss \in {LIVE_IN, READ_LIVE_IN} => m = -1
        /\ ss \notin {LIVE_IN, READ_LIVE_IN} =>
             /\ m \in Iter /\ ss = code8(m) /\ GroupOf(m) = g /\ Owner(m) = w /\ Wrote(b, m)
             /\ b \in Span(lo[w], hi[w])
    BY <1>2, <1>6, <1>10, Zenon DEF Finds
  <2>5. /\ \A j \in Iter : Wrote(b, j) /\ Owner(j) = w /\ GroupOf(j) = g => m # -1 /\ j <= m
        /\ \A i \in Iter : ReadLiveIn(b, i) /\ Owner(i) = w /\ GroupOf(i) = g => ss = READ_LIVE_IN
    BY <1>4, <1>6, Zenon DEF Adds
  <2>6. CASE ss = READ_LIVE_IN
    <3>1. x = READ_LIVE_IN /\ ~(x >= 2) /\ ~(ds >= 2)
      BY <2>1, <2>3, <2>6 DEF READ_LIVE_IN, LIVE_IN
    <3>2. QED  BY <1>7, <2>4, <2>5, <2>6, <3>1, Zenon
  <2>7. CASE ss = LIVE_IN
    <3>1. x = ds /\ y = p /\ ss # READ_LIVE_IN
      BY <2>1, <2>2, <2>7 DEF READ_LIVE_IN, LIVE_IN
    <3>2. QED  BY <1>7, <2>4, <2>5, <2>7, <3>1, Zenon
  <2>8. CASE ss \notin {LIVE_IN, READ_LIVE_IN}
    <3>1. /\ m \in Iter /\ ss = code8(m) /\ GroupOf(m) = g /\ Owner(m) = w /\ Wrote(b, m)
          /\ ss # READ_LIVE_IN /\ ds # READ_LIVE_IN
      BY <2>3, <2>4, <2>8, Zenon
    <3>2. ss >= 3 /\ m \in Nat
      BY <1>1, <3>1, IterFacts, Zenon
    <3>3. b \in Span(chk'[g].lo, chk'[g].hi)
      BY <1>3, <2>4, <2>8, Zenon DEF Merges
    <3>4. CASE ss > ds
      <4>1. x = ss /\ y = m /\ x >= 2
        <5>1. ~(ss <= ds) /\ ss >= 2
          BY <3>2, <3>4
        <5>2. QED  BY <2>1, <2>2, <3>1, <3>4, <5>1, Zenon
      <4>2. ASSUME NEW j \in Iter, Wrote(b, j), ~Pending(j), GroupOf(j) = g
            PROVE  j <= m
        <5>1. ds >= 2 /\ j <= p /\ p \in Iter /\ GroupOf(p) = g /\ ds = code8(p)
          BY <1>7, <4>2, Zenon
        <5>2. ~(m < p) /\ p \in Nat /\ j \in Nat
          <6>1. (m < p <=> code8(m) < code8(p)) /\ p \in Nat /\ j \in Nat
            BY <1>1, <3>1, <5>1, CodeOrder, IterFacts, Zenon
          <6>2. ~(ss < ds)
            BY <3>4
          <6>3. QED  BY <3>1, <5>1, <6>1, <6>2, Zenon
        <5>3. QED  BY <3>2, <5>1, <5>2
      <4>3. QED  BY <1>7, <2>5, <3>1, <3>3, <4>1, <4>2, Zenon
    <3>5. CASE ~(ss > ds)
      <4>1. x = ds /\ y = p /\ ds >= 2
        <5>1. ss <= ds /\ ds >= 2
          BY <3>2, <3>5
        <5>2. QED  BY <2>1, <2>2, <3>5, <5>1, Zenon
      <4>2. p \in Iter /\ GroupOf(p) = g /\ ds = code8(p)
        BY <1>7, <4>1, Zenon
      <4>3. ~(p < m) /\ p \in Nat
        <5>1. (p < m <=> code8(p) < code8(m)) /\ p \in Nat
          BY <1>1, <3>1, <4>2, CodeOrder, IterFacts, Zenon
        <5>2. ~(ds < ss)
          BY <3>5
        <5>3. QED  BY <3>1, <4>2, <5>1, <5>2, Zenon
      <4>4. ASSUME NEW j \in Iter, Wrote(b, j), Owner(j) = w, GroupOf(j) = g
            PROVE  j <= p
        <5>1. j <= m /\ j \in Nat
          BY <1>1, <2>5, <4>4, IterFacts, Zenon
        <5>2. QED  BY <3>2, <4>3, <5>1
      <4>5. QED  BY <1>7, <2>5, <3>1, <4>1, <4>4, Zenon
    <3>6. QED  BY <3>4, <3>5, Zenon
  <2>9. QED  BY <2>6, <2>7, <2>8, Zenon
<1>11. QED  BY <1>9, <1>10, Zenon

LEMMA ContributesSound ==
  ASSUME BasicInv, SoundInv, NEW w \in Worker, NEW g \in Group, Contributes(w, g), excused' = {}
  PROVE  SoundInv'
<1>1. /\ UNCHANGED <<loop, mem, shadow, oldest, main, written, seen>>
      /\ iter' = [iter EXCEPT ![w] = @ + 1] /\ iter[w] <= End /\ g = Given(w)
      /\ SameLoop /\ TypeOK /\ CountInv /\ distill_worker(w, g)
  BY LoopSame, Zenon DEF Contributes, BasicInv
<1>2. /\ oldest <= Final
      /\ \A j \in Iter : ~Pending(j)' <=> ~Pending(j) \/ (Owner(j) = w /\ GroupOf(j) = g)
      /\ \A j \in Iter : \A h \in Group :
           In(j, h)' <=> In(j, h) \/ (Owner(j) = w /\ GroupOf(j) = g /\ h = g)
  BY ContributesFrame, Zenon
<1>3. \A b, j : (Wrote(b, j)' <=> Wrote(b, j)) /\ (ReadLiveIn(b, j)' <=> ReadLiveIn(b, j))
  BY <1>1, Zenon DEF Wrote, ReadLiveIn
<1>4. /\ \A h \in Group \ {g} : chk'[h] = chk[h]
      /\ \A v \in Worker \ {w} : lo'[v] = lo[v] /\ hi'[v] = hi[v]
  BY <1>1, DistillIs, FindsIs, MergesIs, Zenon DEF Merges
<1>5. \A v \in Worker, b \in Byte : WorkerInv(v, b)'
  BY <1>1, <1>3, WorkerSame, Zenon DEF SoundInv
<1>6. ASSUME NEW b \in Byte, NEW i \in Iter, Noted(b, i) PROVE Noted(b, i)'
  <2>1. Owner(i)' = Owner(i) /\ Owner(i) \in Worker
    BY <1>1, IterFacts, Zenon DEF Owner
  <2>2. PICK o \in Worker : o = Owner(i)
    BY <2>1, Zenon
  <2>3. i <= iter[o] /\ (Pending(i) => b \in Span(lo[o], hi[o]))
    BY <1>6, <2>2, Zenon DEF Noted
  <2>4. i <= iter'[o]
    <3>1. iter \in [Worker -> 0..(End + 1)] /\ End \in Nat /\ i \in Nat
      BY <1>1, Sizes, IterFacts, Zenon DEF TypeOK
    <3>2. QED  BY <1>1, <2>3, <3>1
  <2>5. ASSUME Pending(i)' PROVE o # w
    <3>1. SUFFICES ASSUME o = w PROVE FALSE
      BY Zenon
    <3>2. i \in Nat /\ iter[w] \in Nat /\ Granularity \in Nat \ {0} /\ GroupOf(iter[w]) = g
      BY <1>1, IterFacts, GivenFacts, Sizes, Zenon
    <3>3. GroupOf(i) <= g
      BY <2>3, <3>1, <3>2, DivMono, Zenon DEF GroupOf
    <3>4. Pending(i) /\ GroupOf(i) # g
      BY <1>2, <2>2, <2>5, <3>1, Zenon
    <3>5. g <= GroupOf(i)
      BY <1>1, <2>2, <3>1, <3>4, Zenon DEF Pending
    <3>6. g \in Nat /\ GroupOf(i) \in Nat
      <4>1. Group = 0..Final /\ Final \in Nat /\ GroupOf(i) \in Nat
        BY <1>1, Sizes, IterFacts, Zenon
      <4>2. QED  BY <4>1
    <3>7. QED  BY <3>3, <3>4, <3>5, <3>6
  <2>6. Pending(i)' => b \in Span(lo'[o], hi'[o])
    BY <1>2, <1>4, <2>3, <2>5, Zenon
  <2>7. QED  BY <2>1, <2>2, <2>4, <2>6, Zenon DEF Noted
<1>7. HistoryInv'
  <2>1. HistoryInv
    BY Zenon DEF SoundInv
  <2>2. QED  BY <1>1, <1>3, <1>6, <2>1, Zenon DEF HistoryInv, SameLoop
<1>8. ReadInv'
  BY <1>1, <1>3, Zenon DEF SoundInv, ReadInv, SameLoop
<1>9. ASSUME NEW h \in Group, NEW b \in Byte, h >= oldest PROVE ChkInv(h, b)'
  <2>1. ChkInv(h, b)
    BY <1>9, Zenon DEF SoundInv
  <2>2. CASE h = g
    BY <2>1, <2>2, MergeChk, Zenon
  <2>3. CASE h # g
    <3>1. \A j \in Iter : In(j, h)' <=> In(j, h)
      BY <1>2, <2>3, Zenon
    <3>2. ASSUME NEW i \in Iter, GroupOf(i) = h PROVE Pending(i)' <=> Pending(i)
      <4>1. GroupOf(i) # g
        BY <2>3, <3>2, Zenon
      <4>2. QED  BY <1>2, <4>1, Zenon
    <3>3. chk'[h] = chk[h]
      BY <1>4, <2>3, Zenon
    <3>4. QED  BY <1>1, <1>3, <2>1, <3>1, <3>2, <3>3, ChkSame, Zenon
  <2>4. QED  BY <2>2, <2>3, Zenon
<1>10. ~(oldest > Final)
  <2>1. oldest \in 0..(Final + 1) /\ Final \in Nat
    BY <1>1, Sizes, Zenon DEF TypeOK
  <2>2. QED  BY <1>2, <2>1
<1>11. QED  BY <1>1, <1>5, <1>7, <1>8, <1>9, <1>10, Zenon DEF SoundInv, SameLoop

\* A read and an earlier write that are both in a checkpoint: the checkpoint
\* has the mark of either, never of both.
LEMMA ReadsNothing ==
  ASSUME TypeOK, SoundInv, oldest \in Group, NEW b \in Byte, NEW i \in Iter, NEW j \in Iter,
         ReadLiveIn(b, i), GroupOf(i) = oldest, j < i,
         \A k \in Iter : GroupOf(k) <= oldest => ~Pending(k)
  PROVE  ~Wrote(b, j)
<1>1. oldest \in Nat /\ GroupOf(j) \in Nat /\ i \in Nat /\ j \in Nat /\ Granularity \in Nat \ {0}
  <2>1. /\ GroupOf(j) \in Nat /\ i \in Nat /\ j \in Nat /\ Granularity \in Nat \ {0}
        /\ Group = 0..Final /\ Final \in Nat
    BY IterFacts, Sizes, Zenon
  <2>2. QED  BY <2>1
<1>2. oldest >= oldest /\ oldest <= oldest /\ j <= i
  BY <1>1
<1>3. GroupOf(j) <= GroupOf(i)
  BY <1>1, <1>2, DivMono, Zenon DEF GroupOf
<1>4. GroupOf(j) = oldest \/ GroupOf(j) < oldest
  BY <1>1, <1>3
<1>5. ~Pending(i) /\ In(j, oldest)
  BY <1>2, <1>3, <1>4, Zenon DEF In
<1>6. ChkInv(oldest, b)
  BY <1>2, Zenon DEF SoundInv
<1>7. chk[oldest].shadow[b] = READ_LIVE_IN
  BY <1>5, <1>6, Zenon DEF ChkInv
<1>8. ~WAS_WRITTEN_EVER(READ_LIVE_IN)
  BY DEF WAS_WRITTEN_EVER, READ_LIVE_IN, OLD_ITERATION
<1>9. QED  BY <1>5, <1>6, <1>7, <1>8, Zenon DEF ChkInv

\* What is in the checkpoints before and after a combination.
LEMMA CombinesFrame ==
  ASSUME BasicInv, Combines, NEW n, n = oldest + 1
  PROVE  /\ \A j \in Iter : Pending(j)' <=> Pending(j)
         /\ \A j \in Iter : GroupOf(j) <= n => ~Pending(j)
         /\ \A j \in Iter : In(j, oldest) <=> GroupOf(j) <= oldest
         /\ \A j \in Iter : In(j, n) <=> GroupOf(j) = n
         /\ \A j \in Iter : In(j, n)' <=> GroupOf(j) <= oldest \/ GroupOf(j) = n
         /\ \A j \in Iter : \A g \in Group : g > n => (In(j, g)' <=> In(j, g))
<1>1. /\ TypeOK /\ SameLoop /\ oldest' = n /\ \A v : Given(v)' = Given(v)
  BY LoopSame, GivenSame, Zenon DEF BasicInv, Combines, worker
<1>2. oldest \in Nat /\ \A v \in Worker : Given(v) > oldest + 1
  BY CombinesFacts, Zenon DEF BasicInv
<1>3. ASSUME NEW j \in Iter
      PROVE  /\ Pending(j)' <=> Pending(j)
             /\ GroupOf(j) <= n => ~Pending(j)
             /\ In(j, oldest) <=> GroupOf(j) <= oldest
             /\ In(j, n) <=> GroupOf(j) = n
             /\ In(j, n)' <=> GroupOf(j) <= oldest \/ GroupOf(j) = n
             /\ \A g \in Group : g > n => (In(j, g)' <=> In(j, g))
  <2>1. /\ GroupOf(j) \in Nat /\ Owner(j) \in Worker /\ Given(Owner(j)) \in Nat
        /\ GroupOf(j)' = GroupOf(j) /\ Owner(j)' = Owner(j)
    BY <1>1, IterFacts, GivenFacts, Zenon DEF SameLoop, Owner
  <2>2. PICK x \in Nat, o \in Nat, d \in Nat : x = GroupOf(j) /\ o = oldest /\ d = Given(Owner(j))
    BY <1>2, <2>1, Zenon
  <2>3. (Pending(j) <=> d <= x) /\ (Pending(j)' <=> d <= x)
    BY <1>1, <2>1, <2>2, Zenon DEF Pending
  <2>4. d > n /\ n = o + 1
    BY <1>2, <2>1, <2>2, Zenon
  <2>5. /\ \A g : In(j, g) <=> ~Pending(j) /\ (x = g \/ (g = o /\ x < g))
        /\ \A g : In(j, g)' <=> ~Pending(j) /\ (x = g \/ (g = n /\ x < g))
    BY <1>1, <2>1, <2>2, <2>3, Zenon DEF In
  <2>6. /\ n \in Nat
        /\ x <= n => ~(d <= x)
        /\ (x = o \/ x < o) <=> x <= o
        /\ x <= o => x <= n /\ x < n
        /\ x < n => x <= o
        /\ x = n => x <= n
        /\ o # n
    BY <2>4
  <2>7. ASSUME NEW g \in Group, g > n PROVE g # n /\ g # o
    <3>1. g \in Nat
      BY <1>1, Sizes
    <3>2. QED  BY <2>4, <2>6, <2>7, <3>1
  <2>8. QED  BY <2>2, <2>3, <2>5, <2>6, <2>7, ZenonT(40)
<1>4. QED  BY <1>3, Zenon

\* A byte of the newer checkpoint after the combination.
LEMMA CombineChk ==
  ASSUME BasicInv, SoundInv, Combines, NEW n \in Group, n = oldest + 1, NEW b \in Byte
  PROVE  ChkInv(n, b)'
<1>1. TypeOK /\ CountInv /\ SameLoop /\ UNCHANGED <<written, seen>>
  BY LoopSame, Zenon DEF BasicInv, Combines, history
<1>2. /\ oldest \in Group /\ oldest \in Nat /\ IsCombined(chk'[n], chk[oldest], chk[n])
  BY <1>1, CombinesFacts, Zenon
<1>3. /\ \A j \in Iter : Pending(j)' <=> Pending(j)
      /\ \A j \in Iter : GroupOf(j) <= n => ~Pending(j)
      /\ \A j \in Iter : In(j, oldest) <=> GroupOf(j) <= oldest
      /\ \A j \in Iter : In(j, n) <=> GroupOf(j) = n
      /\ \A j \in Iter : In(j, n)' <=> GroupOf(j) <= oldest \/ GroupOf(j) = n
  BY CombinesFrame, Zenon
<1>4. oldest >= oldest /\ n >= oldest /\ n \in Nat
  BY <1>2
<1>5. ChkInv(oldest, b) /\ ChkInv(n, b)
  BY <1>2, <1>4, Zenon DEF SoundInv
<1>6. PICK o \in Nat, os \in Nat, ns \in Nat, op \in {chk[oldest].priv[b]}, np \in {chk[n].priv[b]},
           x \in {chk'[n].shadow[b]}, y \in {chk'[n].priv[b]} :
        /\ o = oldest /\ os = chk[oldest].shadow[b] /\ ns = chk[n].shadow[b]
        /\ op = chk[oldest].priv[b] /\ np = chk[n].priv[b]
        /\ x = chk'[n].shadow[b] /\ y = chk'[n].priv[b]
  <2>1. chk[oldest].shadow[b] \in Nat /\ chk[n].shadow[b] \in Nat
    BY <1>1, <1>2, ShadowType, Zenon
  <2>2. QED  BY <1>2, <2>1, Zenon
<1>7. /\ \A j \in Iter : Wrote(b, j) /\ GroupOf(j) <= o => WAS_WRITTEN_EVER(os) /\ j <= op
      /\ WAS_WRITTEN_EVER(os) =>
           op \in Iter /\ Wrote(b, op) /\ GroupOf(op) <= o /\ b \in Span(chk[oldest].lo, chk[oldest].hi)
  <2>1. /\ \A j \in Iter : Wrote(b, j) /\ In(j, oldest) => WAS_WRITTEN_EVER(os) /\ j <= op
        /\ WAS_WRITTEN_EVER(os) =>
             op \in Iter /\ Wrote(b, op) /\ In(op, oldest) /\ b \in Span(chk[oldest].lo, chk[oldest].hi)
    BY <1>5, <1>6, Zenon DEF ChkInv
  <2>2. QED  BY <1>3, <1>6, <2>1, Zenon
<1>8. /\ \A j \in Iter : Wrote(b, j) /\ GroupOf(j) = n => WAS_WRITTEN_EVER(ns) /\ j <= np
      /\ WAS_WRITTEN_EVER(ns) =>
           /\ np \in Iter /\ Wrote(b, np) /\ GroupOf(np) = n /\ ns = code8(np)
           /\ b \in Span(chk[n].lo, chk[n].hi)
      /\ \A i \in Iter : ReadLiveIn(b, i) /\ GroupOf(i) = n => ns = READ_LIVE_IN
  <2>1. /\ \A j \in Iter : Wrote(b, j) /\ In(j, n) => WAS_WRITTEN_EVER(ns) /\ j <= np
        /\ WAS_WRITTEN_EVER(ns) =>
             /\ np \in Iter /\ Wrote(b, np) /\ In(np, n)
             /\ ns = IF GroupOf(np) = n THEN code8(np) ELSE OLD_ITERATION
             /\ b \in Span(chk[n].lo, chk[n].hi)
        /\ \A i \in Iter : ReadLiveIn(b, i) /\ ~Pending(i) /\ GroupOf(i) = n => ns = READ_LIVE_IN
    BY <1>5, <1>6, Zenon DEF ChkInv
  <2>2. n <= n
    BY <1>4
  <2>3. QED  BY <1>3, <2>1, <2>2, Zenon
<1>9. /\ b \in Span(chk[oldest].lo, chk[oldest].hi) /\ ns = LIVE_IN /\ WAS_WRITTEN_EVER(os) =>
           x = OLD_ITERATION /\ y = op
      /\ ~(b \in Span(chk[oldest].lo, chk[oldest].hi) /\ ns = LIVE_IN /\ WAS_WRITTEN_EVER(os)) =>
           x = ns /\ y = np
      /\ b \in Span(chk[oldest].lo, chk[oldest].hi) \cup Span(chk[n].lo, chk[n].hi) =>
           b \in Span(chk'[n].lo, chk'[n].hi)
  BY <1>2, <1>6, Zenon DEF IsCombined, Older
<1>10. b \in Span(chk[oldest].lo, chk[oldest].hi) => ~(ns = READ_LIVE_IN /\ WAS_WRITTEN_EVER(os))
  BY <1>6, Zenon DEF Combines
<1>11. /\ ~WAS_WRITTEN_EVER(LIVE_IN) /\ WAS_WRITTEN_EVER(OLD_ITERATION)
       /\ LIVE_IN # READ_LIVE_IN /\ OLD_ITERATION # READ_LIVE_IN
       /\ ns = LIVE_IN \/ ns = READ_LIVE_IN \/ WAS_WRITTEN_EVER(ns)
  BY DEF WAS_WRITTEN_EVER, LIVE_IN, READ_LIVE_IN, OLD_ITERATION
<1>12. SUFFICES
         /\ \A j \in Iter : Wrote(b, j) /\ (GroupOf(j) <= o \/ GroupOf(j) = n) =>
              WAS_WRITTEN_EVER(x) /\ j <= y
         /\ WAS_WRITTEN_EVER(x) =>
              /\ y \in Iter /\ Wrote(b, y) /\ (GroupOf(y) <= o \/ GroupOf(y) = n)
              /\ x = IF GroupOf(y) = n THEN code8(y) ELSE OLD_ITERATION
              /\ b \in Span(chk'[n].lo, chk'[n].hi)
         /\ \A i \in Iter : ReadLiveIn(b, i) /\ GroupOf(i) = n => x = READ_LIVE_IN
  <2>1. /\ \A j : (Wrote(b, j)' <=> Wrote(b, j)) /\ (ReadLiveIn(b, j)' <=> ReadLiveIn(b, j))
        /\ Iter' = Iter /\ \A i : GroupOf(i)' = GroupOf(i) /\ code8(i)' = code8(i)
    BY <1>1, Zenon DEF Wrote, ReadLiveIn, SameLoop
  <2>2. /\ \A j \in Iter : Wrote(b, j)' /\ In(j, n)' => WAS_WRITTEN_EVER(x) /\ j <= y
        /\ WAS_WRITTEN_EVER(x) => /\ y \in Iter /\ Wrote(b, y)' /\ In(y, n)'
                                  /\ x = IF GroupOf(y)' = n THEN code8(y)' ELSE OLD_ITERATION
                                  /\ b \in Span(chk'[n].lo, chk'[n].hi)
        /\ \A i \in Iter : ReadLiveIn(b, i)' /\ ~Pending(i)' /\ GroupOf(i)' = n => x = READ_LIVE_IN
    BY <1>3, <1>6, <1>12, <2>1, ZenonT(40)
  <2>3. QED  BY <1>6, <2>1, <2>2, ZenonT(40) DEF ChkInv
<1>13. CASE b \in Span(chk[oldest].lo, chk[oldest].hi) /\ ns = LIVE_IN /\ WAS_WRITTEN_EVER(os)
  <2>1. x = OLD_ITERATION /\ y = op /\ op \in Iter /\ Wrote(b, op) /\ GroupOf(op) <= o
    BY <1>7, <1>9, <1>13, Zenon
  <2>2. GroupOf(op) # n
    <3>1. GroupOf(op) \in Nat
      BY <1>1, <2>1, IterFacts, Zenon
    <3>2. n = o + 1
      BY <1>6, Zenon
    <3>3. QED  BY <2>1, <3>1, <3>2
  <2>3. QED  BY <1>7, <1>8, <1>9, <1>11, <1>13, <2>1, <2>2, Zenon
<1>14. CASE ~(b \in Span(chk[oldest].lo, chk[oldest].hi) /\ ns = LIVE_IN /\ WAS_WRITTEN_EVER(os))
  <2>1. x = ns /\ y = np
    BY <1>9, <1>14, Zenon
  <2>2. ASSUME NEW j \in Iter, Wrote(b, j), GroupOf(j) <= o
        PROVE  WAS_WRITTEN_EVER(ns) /\ j <= np
    <3>1. WAS_WRITTEN_EVER(ns) /\ np \in Iter /\ GroupOf(np) = n
      BY <1>7, <1>8, <1>10, <1>11, <1>14, <2>2, Zenon
    <3>2. /\ j \in Nat /\ np \in Nat /\ GroupOf(j) \in Nat
      BY <1>1, <3>1, IterFacts, Zenon
    <3>3. GroupOf(j) < GroupOf(np)
      <4>1. n = o + 1
        BY <1>6, Zenon
      <4>2. QED  BY <2>2, <3>1, <3>2, <4>1
    <3>4. j < np
      BY <1>1, <3>1, <3>3, GroupOrder, Zenon
    <3>5. QED  BY <3>1, <3>2, <3>4
  <2>3. QED  BY <1>8, <1>9, <2>1, <2>2, Zenon
<1>15. QED  BY <1>13, <1>14, Zenon

LEMMA CombinesSound ==
  ASSUME BasicInv, SoundInv, Combines
  PROVE  SoundInv'
<1>1. /\ UNCHANGED <<loop, mem, shadow, lo, hi, iter, main, written, seen>> /\ oldest' = oldest + 1
      /\ SameLoop /\ TypeOK /\ CountInv
  BY LoopSame, Zenon DEF Combines, BasicInv, worker, history
<1>2. /\ oldest \in Nat /\ oldest \in Group /\ oldest + 1 \in Group /\ oldest + 1 <= Final
      /\ \A g \in Group : g # oldest + 1 => chk'[g] = chk[g]
  BY <1>1, CombinesFacts, Zenon
<1>3. PICK n \in Group : n = oldest + 1
  BY <1>2, Zenon
<1>4. /\ \A j \in Iter : Pending(j)' <=> Pending(j)
      /\ \A j \in Iter : GroupOf(j) <= n => ~Pending(j)
      /\ \A j \in Iter : \A g \in Group : g > n => (In(j, g)' <=> In(j, g))
  BY <1>3, CombinesFrame, Zenon
<1>5. \A b, j : (Wrote(b, j)' <=> Wrote(b, j)) /\ (ReadLiveIn(b, j)' <=> ReadLiveIn(b, j))
  BY <1>1, Zenon DEF Wrote, ReadLiveIn
<1>6. \A v \in Worker, b \in Byte : WorkerInv(v, b)'
  BY <1>1, <1>5, WorkerSame, Zenon DEF SoundInv
<1>7. HistoryInv'
  <2>1. \A b \in Byte, i \in Iter : Noted(b, i) => Noted(b, i)'
    BY <1>1, <1>4, Zenon DEF Noted, Owner
  <2>2. HistoryInv
    BY Zenon DEF SoundInv
  <2>3. QED  BY <1>1, <1>5, <2>1, <2>2, Zenon DEF HistoryInv, SameLoop
<1>8. ReadInv'
  <2>1. ASSUME NEW b \in Byte, NEW i \in Iter, NEW j \in Iter, ReadLiveIn(b, i), GroupOf(i) < n, j < i
        PROVE  ~Wrote(b, j)
    <3>1. GroupOf(i) < oldest \/ GroupOf(i) = oldest
      <4>1. GroupOf(i) \in Nat
        BY <1>1, IterFacts, Zenon
      <4>2. QED  BY <1>2, <1>3, <2>1, <4>1
    <3>2. CASE GroupOf(i) < oldest
      BY <2>1, <3>2, Zenon DEF SoundInv, ReadInv
    <3>3. CASE GroupOf(i) = oldest
      <4>1. \A k \in Iter : GroupOf(k) <= oldest => GroupOf(k) <= n
        <5>1. \A k \in Iter : GroupOf(k) \in Nat
          BY <1>1, IterFacts, Zenon
        <5>2. QED  BY <1>2, <1>3, <5>1
      <4>2. QED  BY <1>1, <1>2, <1>4, <2>1, <3>3, <4>1, ReadsNothing, Zenon
    <3>4. QED  BY <3>1, <3>2, <3>3, Zenon
  <2>2. QED  BY <1>1, <1>3, <1>5, <2>1, Zenon DEF ReadInv, SameLoop
<1>9. ASSUME NEW g \in Group, NEW b \in Byte, g >= oldest' PROVE ChkInv(g, b)'
  <2>1. g \in Nat /\ n \in Nat
    BY <1>1, Sizes
  <2>2. g = n \/ (g > n /\ g >= oldest)
    BY <1>1, <1>2, <1>3, <1>9, <2>1
  <2>3. CASE g = n
    BY <1>3, <2>3, CombineChk, Zenon
  <2>4. CASE g > n /\ g >= oldest
    <3>1. g # n
      BY <2>1, <2>4
    <3>2. ChkInv(g, b) /\ chk'[g] = chk[g]
      BY <1>2, <1>3, <2>4, <3>1, Zenon DEF SoundInv
    <3>3. QED  BY <1>1, <1>4, <1>5, <2>4, <3>2, ChkSame, Zenon
  <2>5. QED  BY <2>2, <2>3, <2>4, Zenon
<1>10. ~(oldest' > Final)
  <2>1. Final \in Nat
    BY <1>1, Sizes, Zenon
  <2>2. QED  BY <1>1, <1>2, <2>1
<1>11. QED  BY <1>1, <1>6, <1>7, <1>8, <1>9, <1>10, Zenon DEF SoundInv, SameLoop

\* What the main process takes over is what a sequential execution leaves.
LEMMA AdoptSequential ==
  ASSUME BasicInv, SoundInv, adopt_private, HistoryInv', ReadInv',
         \A j \in Iter : In(j, Final) /\ GroupOf(j) < oldest'
  PROVE  Sequential'
<1>1. /\ TypeOK /\ CountInv /\ SameLoop /\ UNCHANGED <<written, seen>> /\ oldest <= Final
      /\ Final \in Group /\ oldest = Final
  <2>1. TypeOK /\ CountInv /\ SameLoop /\ UNCHANGED <<written, seen>>
    BY LoopSame, Zenon DEF BasicInv, adopt_private, history
  <2>2. Final \in Group /\ oldest = Final /\ Final \in Nat
    BY <2>1, AdoptFacts, Sizes, Zenon
  <2>3. oldest <= Final
    BY <2>2
  <2>4. QED  BY <2>1, <2>2, <2>3, Zenon
<1>2. Final >= oldest
  <2>1. Final \in Nat
    BY <1>1, Sizes, Zenon
  <2>2. QED  BY <1>1, <2>1
<1>3. /\ \A b : LastWrite(b, End)' = Max({-1} \cup {j \in Iter : j < End /\ Wrote(b, j)})
      /\ \A b, i : LastWrite(b, i)' = Max({-1} \cup {j \in Iter : j < i /\ Wrote(b, j)})
  BY <1>1, Zenon DEF LastWrite, SameLoop, Wrote
<1>4. \A j \in Iter : j \in Nat /\ j \in Int /\ j < End /\ -1 <= j
  <2>1. \A j \in Iter : j \in Nat /\ j < End
    BY <1>1, IterFacts, Zenon
  <2>2. QED  BY <2>1
<1>5. -1 \in Int /\ -1 <= -1
  OBVIOUS
<1>6. ASSUME NEW b \in Byte PROVE main'[b] = LastWrite(b, End)'
  <2>1. PICK S : S = {-1} \cup {j \in Iter : j < End /\ Wrote(b, j)}
    BY Zenon
  <2>2. S \in SUBSET Int
    BY <1>4, <1>5, <2>1, Zenon
  <2>3. PICK c : c = chk[Final]
    BY Zenon
  <2>4. main'[b] = IF b \in Span(c.lo, c.hi) /\ WAS_WRITTEN_EVER(c.shadow[b]) THEN c.priv[b] ELSE -1
    <3>1. main[b] = -1
      BY <1>1, Zenon DEF BasicInv
    <3>2. QED  BY <2>3, <3>1, Zenon DEF adopt_private
  <2>5. /\ \A j \in Iter : Wrote(b, j) => WAS_WRITTEN_EVER(c.shadow[b]) /\ j <= c.priv[b]
        /\ WAS_WRITTEN_EVER(c.shadow[b]) =>
             c.priv[b] \in Iter /\ Wrote(b, c.priv[b]) /\ b \in Span(c.lo, c.hi)
    <3>1. ChkInv(Final, b)
      BY <1>1, <1>2, Zenon DEF SoundInv
    <3>2. QED  BY <2>3, <3>1, Zenon DEF ChkInv
  <2>6. PICK m : m = main'[b]
    BY Zenon
  <2>7. m \in S /\ \A x \in S : x <= m
    <3>1. CASE WAS_WRITTEN_EVER(c.shadow[b])
      <4>1. m = c.priv[b] /\ m \in Iter /\ Wrote(b, m)
        BY <2>4, <2>5, <2>6, <3>1, Zenon
      <4>2. QED  BY <1>4, <2>1, <2>5, <4>1, Zenon
    <3>2. CASE ~WAS_WRITTEN_EVER(c.shadow[b])
      BY <1>5, <2>1, <2>4, <2>5, <2>6, <3>2, Zenon
    <3>3. QED  BY <3>1, <3>2, Zenon
  <2>8. Max(S) = m
    BY <2>2, <2>7, MaxIs, Zenon
  <2>9. QED  BY <1>3, <2>1, <2>6, <2>8, Zenon
<1>7. ASSUME NEW r \in seen' PROVE r[3] \in {r[2], LastWrite(r[1], r[2])'}
  <2>1. r \in Byte \X Iter \X Value
    BY <1>1, Zenon DEF TypeOK
  <2>2. PICK b \in Byte, i \in Iter, v \in Value : r = <<b, i, v>>
    <3>1. r = <<r[1], r[2], r[3]>> /\ r[1] \in Byte /\ r[2] \in Iter /\ r[3] \in Value
      BY <2>1
    <3>2. QED  BY <3>1, Zenon
  <2>3. r[1] = b /\ r[2] = i /\ r[3] = v
    BY <2>2
  <2>4. v \in {-1, i}
    BY <2>3, Zenon DEF HistoryInv
  <2>5. CASE v = i
    BY <2>3, <2>5, Zenon
  <2>6. CASE v = -1
    <3>1. ReadLiveIn(b, i)'
      BY <2>2, <2>6, Zenon DEF ReadLiveIn
    <3>2. \A j \in Iter : j < i => ~Wrote(b, j)
      BY <1>1, <3>1, Zenon DEF ReadInv, SameLoop, Wrote
    <3>3. PICK S : S = {-1} \cup {j \in Iter : j < i /\ Wrote(b, j)}
      BY Zenon
    <3>4. S = {-1}
      BY <3>2, <3>3, Zenon
    <3>5. S \in SUBSET Int /\ -1 \in S /\ \A x \in S : x <= -1
      BY <1>5, <3>4, Zenon
    <3>6. Max(S) = -1
      BY <3>5, MaxIs, Zenon
    <3>7. QED  BY <1>3, <2>3, <2>6, <3>3, <3>6, Zenon
  <2>7. QED  BY <2>4, <2>5, <2>6, Zenon
<1>8. QED  BY <1>6, <1>7, Zenon DEF Sequential

LEMMA AdoptSound ==
  ASSUME BasicInv, SoundInv, adopt_private
  PROVE  SoundInv'
<1>1. /\ UNCHANGED <<loop, mem, shadow, lo, hi, iter, chk, written, seen>>
      /\ SameLoop /\ TypeOK /\ CountInv
  BY LoopSame, Zenon DEF adopt_private, BasicInv, worker, history
<1>2. /\ Final \in Group /\ oldest = Final /\ oldest' = Final + 1
      /\ \A w \in Worker : Given(w) > Final /\ Given(w)' = Given(w)
  BY <1>1, AdoptFacts, GivenSame, Zenon
<1>3. ASSUME NEW j \in Iter
      PROVE  /\ ~Pending(j) /\ ~Pending(j)' /\ In(j, Final) /\ GroupOf(j) < Final + 1
             /\ GroupOf(j) = Final \/ GroupOf(j) < Final
  <2>1. /\ GroupOf(j) \in Nat /\ GroupOf(j) <= Final /\ Owner(j) \in Worker /\ Given(Owner(j)) \in Nat
        /\ Final \in Nat /\ GroupOf(j)' = GroupOf(j) /\ Owner(j)' = Owner(j)
    BY <1>1, IterFacts, GivenFacts, Sizes, Zenon DEF SameLoop, Owner
  <2>2. PICK x \in Nat, d \in Nat, f \in Nat : x = GroupOf(j) /\ d = Given(Owner(j)) /\ f = Final
    BY <2>1, Zenon
  <2>3. x <= f /\ d > f
    BY <1>2, <2>1, <2>2, Zenon
  <2>4. ~(d <= x) /\ x < f + 1 /\ (x = f \/ x < f)
    BY <2>3
  <2>5. ~Pending(j) /\ ~Pending(j)'
    BY <1>2, <2>1, <2>2, <2>4, Zenon DEF Pending
  <2>6. QED  BY <1>2, <2>2, <2>4, <2>5, Zenon DEF In
<1>4. \A b, j : (Wrote(b, j)' <=> Wrote(b, j)) /\ (ReadLiveIn(b, j)' <=> ReadLiveIn(b, j))
  BY <1>1, Zenon DEF Wrote, ReadLiveIn
<1>5. \A v \in Worker, b \in Byte : WorkerInv(v, b)'
  BY <1>1, <1>4, WorkerSame, Zenon DEF SoundInv
<1>6. HistoryInv'
  <2>1. \A b \in Byte, i \in Iter : Noted(b, i) => Noted(b, i)'
    BY <1>1, <1>3, Zenon DEF Noted, Owner
  <2>2. HistoryInv
    BY Zenon DEF SoundInv
  <2>3. QED  BY <1>1, <1>4, <2>1, <2>2, Zenon DEF HistoryInv, SameLoop
<1>7. ReadInv'
  <2>1. ASSUME NEW b \in Byte, NEW i \in Iter, NEW j \in Iter, ReadLiveIn(b, i), j < i
        PROVE  ~Wrote(b, j)
    <3>1. CASE GroupOf(i) < oldest
      BY <2>1, <3>1, Zenon DEF SoundInv, ReadInv
    <3>2. CASE GroupOf(i) = oldest
      BY <1>1, <1>2, <1>3, <2>1, <3>2, ReadsNothing, Zenon
    <3>3. QED  BY <1>2, <1>3, <3>1, <3>2, Zenon
  <2>2. QED  BY <1>1, <1>4, <2>1, Zenon DEF ReadInv, SameLoop
<1>8. Sequential'
  BY <1>2, <1>3, <1>6, <1>7, AdoptSequential, Zenon
<1>9. ASSUME NEW g \in Group PROVE ~(g >= oldest')
  <2>1. Group = 0..Final /\ Final \in Nat
    BY <1>1, Sizes, Zenon
  <2>2. QED  BY <1>2, <2>1
<1>10. QED  BY <1>1, <1>5, <1>6, <1>7, <1>8, <1>9, Zenon DEF SoundInv, SameLoop

LEMMA AdoptUnread ==
  ASSUME UnreadInv, adopt_private
  PROVE  UnreadInv'
<1>1. UNCHANGED <<seen, misspec, excused, shadow, chk>> /\ SameLoop
  BY LoopSame, Zenon DEF adopt_private, worker, history
<1>2. QED  BY <1>1, Zenon DEF UnreadInv, SameLoop

LEMMA CombineFailsUnread ==
  ASSUME BasicInv, UnreadInv, CombineFails
  PROVE  UnreadInv'
<1>1. oldest + 1 \in Group
  <2>1. oldest \in 0..(Final + 1) /\ Final \in Nat /\ Group = 0..Final /\ oldest < Final
    BY Sizes, Zenon DEF BasicInv, TypeOK, CombineFails
  <2>2. QED  BY <2>1
<1>2. seen # {}
  BY <1>1, Zenon DEF CombineFails, UnreadInv
<1>3. QED  BY <1>2, Zenon DEF UnreadInv, CombineFails

-------------------------------------------------------------------------------
(* The invariant *)

\* No step takes an excuse back, and what is abandoned stays so.
LEMMA ExcusedGrows ==
  ASSUME NEW w, Access(w) \/ Quiet(w) \/ (\E g : Contributes(w, g))
  PROVE  excused \subseteq excused'
<1>1. CASE Access(w)
  BY <1>1, Zenon DEF Access, Fails, Misspec, Stores, Loads, Load, Excuse
<1>2. CASE Quiet(w)
  BY <1>2, Zenon DEF Quiet
<1>3. CASE \E g : Contributes(w, g)
  BY <1>3, Zenon DEF Contributes, distill_worker
<1>4. QED  BY <1>1, <1>2, <1>3, Zenon

LEMMA AccessKeeps ==
  ASSUME IInv, NEW w \in Worker, OnIter(w), Access(w)
  PROVE  IInv'
<1>1. PICK l \in 0..NumBytes, h \in 0..NumBytes : \E S \in SUBSET Span(l, h) :
        S # {} /\ \/ Fails(w, S)
                  \/ Stores(w, S, l, h)
                  \/ \E s \in [Byte -> Shadow] : Loads(w, S, l, h, s)
  BY Zenon DEF Access
<1>2. PICK S \in SUBSET Span(l, h) :
        S # {} /\ \/ Fails(w, S)
                  \/ Stores(w, S, l, h)
                  \/ \E s \in [Byte -> Shadow] : Loads(w, S, l, h, s)
  BY <1>1, Zenon
<1>3. S \in SUBSET Byte /\ S # {}
  BY <1>2, Zenon DEF Span
<1>4. BasicInv /\ UnreadInv /\ TypeOK /\ ~misspec /\ (excused' = {} => SoundInv)
  <2>1. excused' = {} => excused = {}
    BY ExcusedGrows, Zenon
  <2>2. QED  BY <2>1, Zenon DEF IInv, BasicInv, OnIter
<1>5. CASE Fails(w, S)
  <2>1. misspec'
    BY <1>5, Zenon DEF Fails, Misspec
  <2>2. BasicInv'
    <3>1. UNCHANGED <<iter, chk, oldest, main>> /\ loop' = loop /\ TypeNext
      BY <1>3, <1>4, <1>5, FailsType, Zenon DEF Fails, Misspec, worker
    <3>2. QED  BY <1>4, <3>1, AccessBasic, Zenon
  <2>3. QED  BY <1>3, <1>4, <1>5, <2>1, <2>2, FailsUnread, Zenon DEF IInv
<1>6. CASE Stores(w, S, l, h)
  <2>1. BasicInv'
    <3>1. UNCHANGED <<iter, chk, oldest, main>> /\ loop' = loop /\ TypeNext
      BY <1>3, <1>4, <1>6, StoresType, Zenon DEF Stores, Store
    <3>2. QED  BY <1>4, <3>1, AccessBasic, Zenon
  <2>2. QED  BY <1>2, <1>3, <1>4, <1>6, <2>1, StoresUnread, StoresSound, Zenon DEF IInv
<1>7. ASSUME NEW s \in [Byte -> Shadow], Loads(w, S, l, h, s) PROVE IInv'
  <2>1. BasicInv'
    <3>1. UNCHANGED <<iter, chk, oldest, main>> /\ loop' = loop /\ TypeNext
      BY <1>3, <1>4, <1>7, LoadsType, Zenon DEF Loads, Load
    <3>2. QED  BY <1>4, <3>1, AccessBasic, Zenon
  <2>2. QED  BY <1>2, <1>3, <1>4, <1>7, <2>1, LoadsUnread, LoadsSound, Zenon DEF IInv
<1>8. QED  BY <1>2, <1>5, <1>6, <1>7, Zenon

LEMMA WorkerKeeps ==
  ASSUME IInv, NEW w \in Worker, end_iter(w) \/ worker_finishes(w)
  PROVE  IInv'
<1>1. BasicInv /\ UnreadInv /\ TypeOK
  BY Zenon DEF IInv, BasicInv
<1>2. /\ Quiet(w) \/ \E g \in Group : Contributes(w, g)
      /\ recent' \in [Worker -> [start : -1..NumBytes, end : -1..NumBytes]]
  BY <1>1, WorkerIs, Zenon
<1>3. excused' = {} => excused = {}
  BY <1>2, ExcusedGrows, Zenon
<1>4. CASE Quiet(w)
  <2>1. ~misspec
    BY <1>4, Zenon DEF Quiet
  <2>2. QED  BY <1>1, <1>2, <1>3, <1>4, <2>1, QuietBasic, QuietUnread, QuietSound, Zenon DEF IInv
<1>5. ASSUME NEW g \in Group, Contributes(w, g) PROVE IInv'
  <2>1. ~misspec
    BY <1>5, Zenon DEF Contributes
  <2>2. QED  BY <1>1, <1>2, <1>3, <1>5, <2>1, ContributesBasic, ContributesUnread, ContributesSound, Zenon
             DEF IInv
<1>6. QED  BY <1>2, <1>4, <1>5, Zenon

LEMMA CombineKeeps ==
  ASSUME IInv, combine_private
  PROVE  IInv'
<1>1. BasicInv /\ UnreadInv /\ (Combines \/ CombineFails)
  BY CombineIs, Zenon DEF IInv
<1>2. CASE Combines
  <2>1. excused' = excused /\ ~misspec
    BY <1>2, Zenon DEF Combines, history
  <2>2. QED  BY <1>1, <1>2, <2>1, CombinesBasic, CombinesUnread, CombinesSound, Zenon DEF IInv
<1>3. CASE CombineFails
  <2>1. misspec'
    BY <1>3, Zenon DEF CombineFails, Misspec
  <2>2. QED  BY <1>1, <1>3, <2>1, CombineFailsBasic, CombineFailsUnread, Zenon DEF IInv
<1>4. QED  BY <1>1, <1>2, <1>3, Zenon

LEMMA AdoptKeeps ==
  ASSUME IInv, adopt_private
  PROVE  IInv'
<1>1. excused' = excused /\ ~misspec
  BY Zenon DEF adopt_private, history
<1>2. QED  BY <1>1, AdoptBasic, AdoptUnread, AdoptSound, Zenon DEF IInv

LEMMA StutterKeeps ==
  ASSUME IInv, UNCHANGED vars
  PROVE  IInv'
<1>1. /\ UNCHANGED <<loop, mem, shadow, lo, hi, recent, iter>>
      /\ UNCHANGED <<chk, oldest, misspec, main, written, seen, excused>>
  BY Zenon DEF vars, worker, history
<1>2. SameLoop /\ TypeOK /\ CountInv /\ MergedInv
  BY <1>1, LoopSame, Zenon DEF IInv, BasicInv
<1>3. \A v : Given(v)' = Given(v)
  BY <1>1, <1>2, GivenSame, Zenon
<1>4. BasicInv'
  <2>1. TypeNext
    BY <1>1, <1>2, Zenon DEF TypeNext, TypeOK
  <2>2. TypeOK' /\ CountInv' /\ MergedInv'
    BY <1>1, <1>2, <1>3, <2>1, TypeKept, CountSame, MergedSame, Zenon
  <2>3. QED  BY <1>1, <1>2, <2>2, Zenon DEF IInv, BasicInv, SameLoop
<1>5. UnreadInv'
  BY <1>1, <1>2, Zenon DEF IInv, UnreadInv, SameLoop
<1>6. ASSUME SoundInv PROVE SoundInv'
  <2>1. /\ \A j \in Iter : Pending(j)' <=> Pending(j)
        /\ \A j \in Iter : \A g : In(j, g)' <=> In(j, g)
    BY <1>1, <1>2, <1>3, InSame, Zenon
  <2>2. \A b, j : (Wrote(b, j)' <=> Wrote(b, j)) /\ (ReadLiveIn(b, j)' <=> ReadLiveIn(b, j))
    BY <1>1, Zenon DEF Wrote, ReadLiveIn
  <2>3. \A v \in Worker, b \in Byte : WorkerInv(v, b)'
    BY <1>1, <1>2, <1>6, <2>2, WorkerSame, Zenon DEF SoundInv
  <2>4. HistoryInv'
    <3>1. \A b \in Byte, i \in Iter : Noted(b, i) => Noted(b, i)'
      BY <1>1, <2>1, Zenon DEF Noted, Owner
    <3>2. QED  BY <1>1, <1>2, <1>6, <2>2, <3>1, Zenon DEF SoundInv, HistoryInv, SameLoop
  <2>5. ReadInv'
    BY <1>1, <1>2, <1>6, <2>2, Zenon DEF SoundInv, ReadInv, SameLoop
  <2>6. \A g \in Group, b \in Byte : g >= oldest => ChkInv(g, b)'
    BY <1>1, <1>2, <1>6, <2>1, <2>2, ChkSame, Zenon DEF SoundInv
  <2>7. Sequential => Sequential'
    <3>1. \A b, i : LastWrite(b, i)' = LastWrite(b, i)
      BY <1>1, <1>2, Zenon DEF LastWrite, SameLoop
    <3>2. QED  BY <1>1, <1>2, <3>1, Zenon DEF Sequential, SameLoop
  <2>8. QED  BY <1>1, <1>2, <1>6, <2>3, <2>4, <2>5, <2>6, <2>7, Zenon DEF SoundInv, SameLoop
<1>7. QED  BY <1>1, <1>4, <1>5, <1>6, Zenon DEF IInv

LEMMA InitBasic ==
  ASSUME Init
  PROVE  BasicInv /\ \A w \in Worker : Given(w) = 0
<1>1. /\ loop \in Loops /\ End \in Nat /\ Granularity \in Nat \ {0} /\ Final \in Nat
      /\ Group = 0..Final /\ NumBytes \in Nat \ {0} /\ NumWorkers \in Nat \ {0}
  <2>1. loop \in Loops
    BY Zenon DEF Init
  <2>2. End \in Nat /\ Granularity \in Nat \ {0}
    BY <2>1, LoopsAssumption, Zenon DEF End, Granularity
  <2>3. QED  BY <2>1, <2>2, SizeAssumption, DivFacts, Zenon DEF Final, Group
<1>2. /\ 0 \in Shadow /\ -1 \in Value /\ 0 \in 0..NumBytes /\ NumBytes \in 0..NumBytes
      /\ 0 \in 0..(End + 1) /\ 0 \in 0..(Final + 1) /\ 0 \in 0..NumWorkers /\ -1 \in -1..NumBytes
  <2>1. 0 \in Shadow
    BY <1>1 DEF Shadow, NUM_RESERVED
  <2>2. -1 \in Value
    BY Zenon DEF Value
  <2>3. QED  BY <1>1, <2>1, <2>2
<1>3. TypeOK
  <2>1. [start |-> -1, end |-> -1] \in [start : -1..NumBytes, end : -1..NumBytes]
    BY <1>2
  <2>2. [b \in Byte |-> -1] \in [Byte -> Value] /\ [b \in Byte |-> LIVE_IN] \in [Byte -> Shadow]
    BY <1>2, Zenon DEF LIVE_IN
  <2>3. PICK P \in [Byte -> Value], Q \in [Byte -> Shadow] :
          P = [b \in Byte |-> -1] /\ Q = [b \in Byte |-> LIVE_IN]
    BY <2>2, Zenon
  <2>4. [priv |-> P, shadow |-> Q, lo |-> NumBytes, hi |-> 0, num_workers |-> 0] \in ChkObject
    BY <1>2 DEF ChkObject
  <2>5. chk = [g \in Group |-> [priv |-> P, shadow |-> Q, lo |-> NumBytes, hi |-> 0, num_workers |-> 0]]
    BY <2>3, Zenon DEF Init
  <2>6. chk \in [Group -> ChkObject]
    BY <2>4, <2>5, Zenon
  <2>7. /\ mem \in [Worker -> [Byte -> Value]] /\ shadow \in [Worker -> [Byte -> Shadow]]
        /\ lo \in [Worker -> 0..NumBytes] /\ hi \in [Worker -> 0..NumBytes]
        /\ recent \in [Worker -> [start : -1..NumBytes, end : -1..NumBytes]]
        /\ iter \in [Worker -> 0..(End + 1)] /\ main \in [Byte -> Value]
    BY <1>2, <2>1, <2>2, Zenon DEF Init
  <2>8. /\ oldest \in 0..(Final + 1) /\ misspec \in BOOLEAN /\ written = {} /\ seen = {} /\ excused = {}
    BY <1>2, Zenon DEF Init
  <2>9. QED  BY <1>1, <2>6, <2>7, <2>8, Zenon DEF TypeOK, ChkObject
<1>4. ASSUME NEW w \in Worker PROVE Given(w) = 0
  <2>1. iter[w] = 0
    BY Zenon DEF Init
  <2>2. ~(0 > End) /\ 0 \div Granularity = 0
    BY <1>1
  <2>3. QED  BY <2>1, <2>2, Zenon DEF Given
<1>5. CountInv
  <2>1. ASSUME NEW g \in Group PROVE chk[g].num_workers = Cardinality(Contributed(g))
    <3>1. ~(0 > g)
      BY <1>1
    <3>2. Contributed(g) = {}
      BY <1>4, <3>1, Zenon DEF Contributed
    <3>3. chk[g] = [priv |-> [b \in Byte |-> -1], shadow |-> [b \in Byte |-> LIVE_IN],
                    lo |-> NumBytes, hi |-> 0, num_workers |-> 0]
      BY Zenon DEF Init
    <3>4. chk[g].num_workers = 0
      BY <3>3
    <3>5. QED  BY <3>2, <3>4, FS_EmptySet, Zenon
  <2>2. QED  BY <2>1, Zenon DEF CountInv
<1>6. MergedInv
  <2>1. oldest = 0 /\ ~(0 > 0)
    <3>1. ~(0 > 0)
      OBVIOUS
    <3>2. QED  BY <3>1, Zenon DEF Init
  <2>2. QED  BY <2>1, Zenon DEF MergedInv
<1>7. ~misspec /\ \A b \in Byte : main[b] = -1
  BY Zenon DEF Init
<1>8. QED  BY <1>3, <1>4, <1>5, <1>6, <1>7, Zenon DEF BasicInv

LEMMA InitKeeps ==
  ASSUME Init
  PROVE  IInv
<1>1. BasicInv /\ TypeOK
  BY InitBasic, Zenon DEF BasicInv
<1>2. LIVE_IN # READ_LIVE_IN /\ ~WAS_WRITTEN_EVER(LIVE_IN)
  BY DEF LIVE_IN, READ_LIVE_IN, WAS_WRITTEN_EVER, OLD_ITERATION
<1>3. /\ \A w \in Worker, b \in Byte : shadow[w][b] = LIVE_IN /\ mem[w][b] = -1
      /\ \A b, i : ~Wrote(b, i) /\ ~ReadLiveIn(b, i)
      /\ seen = {} /\ excused = {} /\ ~misspec /\ oldest = 0
  BY Zenon DEF Init, Wrote, ReadLiveIn
<1>4. \A g \in Group, b \in Byte : chk[g].shadow[b] = LIVE_IN
  <2>1. ASSUME NEW g \in Group PROVE chk[g].shadow = [b \in Byte |-> LIVE_IN]
    <3>1. PICK P, Q : P = [b \in Byte |-> -1] /\ Q = [b \in Byte |-> LIVE_IN]
      BY Zenon
    <3>2. chk[g] = [priv |-> P, shadow |-> Q, lo |-> NumBytes, hi |-> 0, num_workers |-> 0]
      BY <3>1, Zenon DEF Init
    <3>3. chk[g].shadow = Q
      BY <3>2
    <3>4. QED  BY <3>1, <3>3, Zenon
  <2>2. QED  BY <2>1, Zenon
<1>5. UnreadInv
  <2>1. \A w \in Worker, b \in Byte : shadow[w][b] # READ_LIVE_IN
    BY <1>2, <1>3, Zenon
  <2>2. \A g \in Group, b \in Byte : chk[g].shadow[b] # READ_LIVE_IN
    BY <1>2, <1>4, Zenon
  <2>3. ~misspec /\ "refused" \notin excused
    BY <1>3, Zenon
  <2>4. QED  BY <2>1, <2>2, <2>3, Zenon DEF UnreadInv
<1>6. ~(oldest > Final)
  <2>1. Final \in Nat
    BY <1>1, Sizes, Zenon
  <2>2. QED  BY <1>3, <2>1
<1>7. SoundInv
  <2>1. \A w \in Worker, b \in Byte : WorkerInv(w, b)
    BY <1>3, Zenon DEF WorkerInv
  <2>2. HistoryInv /\ ReadInv
    BY <1>3, Zenon DEF HistoryInv, ReadInv
  <2>3. \A g \in Group, b \in Byte : ChkInv(g, b)
    BY <1>2, <1>3, <1>4, Zenon DEF ChkInv
  <2>4. QED  BY <1>6, <2>1, <2>2, <2>3, Zenon DEF SoundInv
<1>8. QED  BY <1>1, <1>5, <1>7, Zenon DEF IInv

-------------------------------------------------------------------------------
(* Theorems *)

\* The invariant holds in every reachable state.
LEMMA Invariant == Spec => []IInv
<1>1. Init => IInv
  BY InitKeeps, Zenon
<1>2. IInv /\ [Next]_vars => IInv'
  <2>1. SUFFICES ASSUME IInv, [Next]_vars PROVE IInv'
    BY Zenon
  <2>2. TypeOK
    BY <2>1, Zenon DEF IInv, BasicInv
  <2>3. ASSUME NEW w \in Worker, Body(w) PROVE IInv'
    BY <2>1, <2>2, <2>3, BodyIs, AccessKeeps, Zenon
  <2>4. ASSUME NEW w \in Worker, end_iter(w) \/ worker_finishes(w) PROVE IInv'
    BY <2>1, <2>4, WorkerKeeps, Zenon
  <2>5. CASE combine_private
    BY <2>1, <2>5, CombineKeeps, Zenon
  <2>6. CASE adopt_private
    BY <2>1, <2>6, AdoptKeeps, Zenon
  <2>7. CASE UNCHANGED vars
    BY <2>1, <2>7, StutterKeeps, Zenon
  <2>8. QED  BY <2>1, <2>3, <2>4, <2>5, <2>6, <2>7, Zenon DEF Next
<1>3. QED  BY <1>1, <1>2, PTL DEF Spec

\* Whatever the loop, the number of workers and the size of the heap, every
\* metadata byte is a live-in or read mark or a code of the current group's
\* width, every range lies in the heap, and no checkpoint counts more workers
\* than there are.
THEOREM TypeCorrect == Spec => []TypeOK
<1>1. IInv => TypeOK
  BY Zenon DEF IInv, BasicInv
<1>2. QED  BY <1>1, Invariant, PTL

\* Loads, stores and strided accesses, the merges at checkpoints and their
\* combination together notice every flow from one iteration to a later one
\* that a worker could have missed: a region that is adopted, with no merge
\* refused and no mark elided, missing or stale, leaves in the main process,
\* and has shown to every read, what the sequential loop does.
THEOREM LiveOutSound == Spec => []LiveOutUnlessExcused
<1>1. IInv => LiveOutUnlessExcused
  <2>1. SUFFICES ASSUME IInv, oldest > Final, excused = {} PROVE Sequential
    BY Zenon DEF LiveOutUnlessExcused
  <2>2. ~misspec
    <3>1. oldest \in 0..(Final + 1) /\ Final \in Nat
      BY <2>1, Sizes, Zenon DEF IInv, BasicInv, TypeOK
    <3>2. oldest > Final
      BY <2>1, Zenon
    <3>3. ~(oldest <= Final)
      BY <3>1, <3>2
    <3>4. QED  BY <2>1, <3>3, Zenon DEF IInv, BasicInv
  <2>3. QED  BY <2>1, <2>2, Zenon DEF IInv, SoundInv
<1>2. QED  BY <1>1, Invariant, PTL

\* A loop that has read nothing from the private heap never misspeculates and
\* no merge reports a conflict, whichever iterations write the same bytes.
THEOREM Privatizable == Spec => []PrivatizableNeverFails
<1>1. IInv => PrivatizableNeverFails
  BY Zenon DEF IInv, UnreadInv, PrivatizableNeverFails
<1>2. QED  BY <1>1, Invariant, PTL
=============================================================================
