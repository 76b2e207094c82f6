---------------------------- MODULE SwQueueProofs ----------------------------
(***************************************************************************)
(* sw_queue.c implements a FIFO queue, for every queue size and every set  *)
(* of values.                                                              *)
(***************************************************************************)
EXTENDS SwQueue, SequenceTheorems, TLAPS

\* A producer past its test owns the slot at the head, a consumer past its
\* test the one at the tail.
Owned ==
  /\ ppc \in {"write", "flag"} => ~flag[head]
  /\ ppc = "flag" => value[head] = sending
  /\ cpc \in {"read", "clearValue", "clearFlag"} => flag[tail]
  /\ cpc = "clearFlag" => value[tail] = Null

Inv == TypeOK /\ FlagsContiguous /\ Owned

-------------------------------------------------------------------------------
(* Positions in the ring *)

LEMMA RingFacts ==
  ASSUME TypeOK
  PROVE  /\ Occupied \in 0..Slots
         /\ \A k \in Slot : FromTail(k) \in Slot
         /\ \A j, k \in Slot : FromTail(j) = FromTail(k) => j = k
         /\ FromTail(0) = tail
         /\ Occupied < Slots => FromTail(Occupied) = head
         /\ \A i \in Slot : After(i) \in Slot
BY SlotsAssumption DEF TypeOK, Slot, Occupied, FromTail, After

\* Seen from the next slot, every slot is one step nearer.
LEMMA TailMoves ==
  ASSUME TypeOK, tail' = After(tail)
  PROVE  /\ \A k \in Slot : k # 0 => FromTail(k) = FromTail(k - 1)'
         /\ FromTail(Slots - 1)' = tail
BY SlotsAssumption DEF TypeOK, Slot, FromTail, After

-------------------------------------------------------------------------------
(* The invariant *)

LEMMA InitInv == Init => Inv
BY SlotsAssumption, ValueAssumption
DEF Init, Inv, TypeOK, FlagsContiguous, Owned, Occupied, FromTail, Slot

LEMMA TypeStep == TypeOK /\ [Next]_vars => TypeOK'
<1> SUFFICES ASSUME TypeOK, [Next]_vars PROVE TypeOK'
  BY Zenon
<1> USE RingFacts, ValueAssumption DEF TypeOK, ring
<1>1. CASE Producer
  BY <1>1, Zenon DEF Producer, produce, produce_spin, produce_write, produce_flag
<1>2. CASE consume \/ Consuming
  <2>1. CASE consume \/ consume_spin \/ consume_read
    BY <2>1 DEF consume, consume_spin, consume_read
  <2>2. CASE consume_clear_value
    BY <2>2, Zenon DEF consume_clear_value
  <2>3. CASE consume_clear_flag
    BY <2>3, Zenon DEF consume_clear_flag
  <2>4. QED  BY <1>2, <2>1, <2>2, <2>3, Zenon DEF Consuming
<1>3. CASE clear \/ Clearing
  BY <1>3, Zenon DEF Clearing, clear, clear_one, clear_end
<1>4. CASE reset
  BY <1>4, SlotsAssumption DEF reset, Slot
<1>5. CASE UNCHANGED vars
  BY <1>5, Zenon DEF vars
<1>6. QED  BY <1>1, <1>2, <1>3, <1>4, <1>5, Zenon DEF Next, Consumer

\* One more slot is occupied once the producer has set the flag at the head.
LEMMA ProduceCounts ==
  ASSUME Inv, produce_flag
  PROVE  /\ Occupied < Slots
         /\ Occupied' = Occupied + 1
         /\ \A k \in Slot : FromTail(k)' = FromTail(k)
<1> TypeOK /\ ~flag[head]
  BY Zenon DEF Inv, Owned, produce_flag
<1>1. Occupied < Slots
  BY SlotsAssumption DEF Occupied, TypeOK, Slot
<1>2. flag'[tail]
  <2>1. head # tail => Occupied > 0 /\ 0 \in Slot
    BY SlotsAssumption DEF Occupied, TypeOK, Slot
  <2>2. head # tail => flag[tail]
    BY <2>1, RingFacts, Zenon DEF Inv, FlagsContiguous
  <2>3. QED  BY <2>2, Zenon DEF produce_flag, TypeOK
<1>3. Occupied' = Occupied + 1
  BY <1>2, SlotsAssumption DEF Occupied, TypeOK, Slot, produce_flag, After
<1>4. QED  BY <1>1, <1>3, Zenon DEF produce_flag, FromTail

\* One slot less is occupied once the consumer has cleared the flag at the tail.
LEMMA ConsumeCounts ==
  ASSUME Inv, flag[tail], flag' = [flag EXCEPT ![tail] = FALSE], tail' = After(tail),
         head' = head
  PROVE  Occupied > 0 /\ Occupied' = Occupied - 1
<1> TypeOK
  BY Zenon DEF Inv
<1>1. Occupied > 0
  BY SlotsAssumption DEF Occupied, TypeOK, Slot
<1>2. CASE head = After(tail)
  <2>1. Occupied = 1
    BY <1>2, SlotsAssumption DEF Occupied, TypeOK, Slot, After
  <2>2. ~flag'[tail']
    <3>1. CASE tail' = tail
      BY <3>1, RingFacts, Zenon DEF TypeOK
    <3>2. CASE tail' # tail
      <4>1. Slots > 1 /\ FromTail(1) = tail' /\ 1 \in Slot
        BY <3>2, SlotsAssumption DEF TypeOK, Slot, FromTail, After
      <4>2. ~flag[tail']
        BY <4>1, <2>1 DEF Inv, FlagsContiguous
      <4>3. QED  BY <4>2, <3>2 DEF TypeOK
    <3>3. QED  BY <3>1, <3>2, Zenon
  <2>3. Occupied' = 0
    BY <1>2, <2>2, RingFacts DEF Occupied, TypeOK, Slot
  <2>4. QED  BY <1>1, <2>1, <2>3
<1>3. CASE head # After(tail)
  BY <1>1, <1>3, SlotsAssumption DEF Occupied, TypeOK, Slot, After
<1>4. QED  BY <1>2, <1>3, Zenon

\* What consume copies into the flag is the cleared value.
LEMMA FlagCleared ==
  ASSUME Inv, consume_clear_flag
  PROVE  flag' = [flag EXCEPT ![tail] = FALSE]
<1>1. (value[tail] # Null) = FALSE
  BY Zenon DEF Inv, Owned, consume_clear_flag
<1>2. QED  BY <1>1, Zenon DEF consume_clear_flag

LEMMA NextInv == Inv /\ [Next]_vars => Inv'
<1> SUFFICES ASSUME Inv, [Next]_vars PROVE FlagsContiguous' /\ Owned'
  BY TypeStep, Zenon DEF Inv
<1> TypeOK /\ TypeOK'
  BY TypeStep, Zenon DEF Inv
<1> USE SlotsAssumption
<1>1. CASE UNCHANGED <<flag, head, tail>>
  <2>1. FlagsContiguous'
    BY <1>1, Zenon DEF Inv, FlagsContiguous, Occupied, FromTail
  <2>2. Owned'
    BY <1>1 DEF Inv, Owned, TypeOK, Next, Producer, Consumer, Consuming, Clearing,
       produce, produce_spin, produce_write, produce_flag, consume, consume_spin,
       consume_read, consume_clear_value, consume_clear_flag, clear, clear_one,
       clear_end, reset, vars, ring, Slot
  <2>3. QED  BY <2>1, <2>2, Zenon
<1>2. CASE produce_flag
  <2>1. FlagsContiguous'
    <3>1. \A k \in Slot : flag'[FromTail(k)] <=> flag[FromTail(k)] \/ k = Occupied
      <4>1. Occupied \in Slot /\ FromTail(Occupied) = head
        BY <1>2, RingFacts, ProduceCounts DEF Slot
      <4>2. \A k \in Slot : FromTail(k) = head <=> k = Occupied
        BY <4>1, RingFacts, Zenon
      <4>3. QED  BY <1>2, <4>2, RingFacts, Zenon DEF TypeOK, produce_flag
    <3>2. QED
      BY <1>2, <3>1, ProduceCounts, RingFacts DEF Inv, FlagsContiguous, Slot
  <2>2. Owned'
    BY <1>2, Zenon DEF Inv, TypeOK, Owned, produce_flag
  <2>3. QED  BY <2>1, <2>2, Zenon
<1>3. CASE consume_clear_flag \/ clear_one
  <2>1. FlagsContiguous'
    <3>1. /\ flag[tail] /\ flag' = [flag EXCEPT ![tail] = FALSE]
          /\ tail' = After(tail) /\ head' = head
      <4>1. CASE consume_clear_flag
        BY <4>1, FlagCleared, Zenon DEF Inv, Owned, consume_clear_flag
      <4>2. CASE clear_one
        BY <4>2, Zenon DEF clear_one
      <4>3. QED  BY <1>3, <4>1, <4>2, Zenon
    <3> SUFFICES ASSUME NEW k \in Slot
                 PROVE  flag'[FromTail(k)'] <=> k < Occupied'
      BY Zenon DEF FlagsContiguous
    <3>2. Occupied > 0 /\ Occupied' = Occupied - 1 /\ Occupied \in 0..Slots
      BY <3>1, ConsumeCounts, RingFacts, Zenon
    <3>3. CASE k = Slots - 1
      BY <3>1, <3>2, <3>3, TailMoves DEF TypeOK
    <3>4. CASE k # Slots - 1
      <4>1. k + 1 \in Slot /\ k + 1 # 0 /\ (k + 1) - 1 = k
        BY <3>4 DEF Slot
      <4>2. FromTail(k)' = FromTail(k + 1)
        BY <4>1, <3>1, TailMoves, Zenon
      <4>3. FromTail(k + 1) # tail
        BY <4>1, RingFacts DEF Slot
      <4>4. flag'[FromTail(k + 1)] <=> k + 1 < Occupied
        BY <4>1, <4>3, <3>1, RingFacts, Zenon DEF Inv, TypeOK, FlagsContiguous
      <4>5. QED  BY <4>1, <4>2, <4>4, <3>2 DEF Slot
    <3>5. QED  BY <3>3, <3>4, Zenon
  <2>2. Owned'
    BY <1>3, Zenon DEF Inv, TypeOK, Owned, consume_clear_flag, clear_one, Slot
  <2>3. QED  BY <2>1, <2>2, Zenon
<1>4. CASE reset
  BY <1>4 DEF reset, FlagsContiguous, Owned, Occupied, FromTail, Slot, TypeOK
<1>5. QED
  BY <1>1, <1>2, <1>3, <1>4, Zenon DEF Next, Producer, Consumer, Consuming, Clearing,
     produce, produce_spin, produce_write, consume, consume_spin, consume_read,
     consume_clear_value, clear, clear_end, vars, ring

-------------------------------------------------------------------------------
(* The refinement *)

LEMMA ContentsType ==
  Inv => /\ Occupied - Taken \in 0..Slots
         /\ Contents \in Seq(Value) /\ Len(Contents) = Occupied - Taken
         /\ \A k \in 1..(Occupied - Taken) :
              /\ k - 1 + Taken \in Slot
              /\ Contents[k] = value[FromTail(k - 1 + Taken)]
<1> HAVE Inv
<1>1. Taken \in {0, 1} /\ (Taken = 1 => flag[tail])
  BY DEF Inv, Owned, Taken
<1>2. Occupied \in 0..Slots /\ (flag[tail] => Occupied > 0)
  BY RingFacts, SlotsAssumption DEF Inv, TypeOK, Occupied, Slot
<1>3. Occupied - Taken \in 0..Slots
  BY <1>1, <1>2, SlotsAssumption
<1>4. \A k \in 1..(Occupied - Taken) : k - 1 + Taken \in Slot
  BY <1>1, <1>2, SlotsAssumption DEF Slot
<1>5. \A k \in 1..(Occupied - Taken) : value[FromTail(k - 1 + Taken)] \in Value
  BY <1>4, RingFacts, Zenon DEF Inv, TypeOK
<1>6. QED  BY <1>3, <1>4, <1>5 DEF Contents

\* Two ways to see that the contents are the same before and after a step.
LEMMA ContentsSame ==
  ASSUME Inv, (Occupied - Taken)' = Occupied - Taken,
         \A k \in 1..(Occupied - Taken) :
           (value[FromTail(k - 1 + Taken)])' = value[FromTail(k - 1 + Taken)]
  PROVE  Contents' = Contents
BY Zenon DEF Contents

\* The steps that leave the ring as it is, and Taken.
LEMMA QuietSteps ==
  ASSUME Inv, Inv', UNCHANGED <<ring, head, tail>>, Taken' = Taken
  PROVE  Contents' = Contents
BY Zenon DEF Contents, Occupied, FromTail, ring

LEMMA WriteStep ==
  ASSUME Inv, Inv', produce_write
  PROVE  Contents' = Contents
<1>1. TypeOK /\ ~flag[head] /\ UNCHANGED <<flag, head, tail, cpc>>
  BY Zenon DEF Inv, Owned, produce_write
<1>2. Occupied < Slots
  BY <1>1, SlotsAssumption DEF Occupied, TypeOK, Slot
<1>3. Occupied' = Occupied /\ Taken' = Taken /\ \A k \in Slot : FromTail(k)' = FromTail(k)
  BY <1>1, Zenon DEF Occupied, Taken, FromTail
<1>4. Taken \in {0, 1}
  BY Zenon DEF Taken
<1> SUFFICES ASSUME NEW k \in 1..(Occupied - Taken)
             PROVE  value'[FromTail(k - 1 + Taken)] = value[FromTail(k - 1 + Taken)]
  <2>1. (Occupied - Taken)' = Occupied - Taken
    BY <1>3, Zenon
  <2>2. \A k \in 1..(Occupied - Taken) :
          (value[FromTail(k - 1 + Taken)])' = value'[FromTail(k - 1 + Taken)]
    BY <1>1, <1>3, Zenon DEF FromTail
  <2>3. QED  BY <2>1, <2>2, ContentsSame, Zenon
<1>5. k - 1 + Taken \in Slot /\ k - 1 + Taken # Occupied /\ Occupied \in Slot
  <2>1. Occupied \in 0..Slots
    BY <1>1, RingFacts, Zenon
  <2>2. k - 1 + Taken \in Slot
    BY ContentsType, Zenon
  <2>3. k - 1 + Taken < Occupied
    BY <1>4, <2>1
  <2>4. QED  BY <1>2, <2>1, <2>2, <2>3, SlotsAssumption DEF Slot
<1>6. FromTail(k - 1 + Taken) # head /\ FromTail(k - 1 + Taken) \in Slot
  BY <1>1, <1>2, <1>5, RingFacts, Zenon
<1>7. QED  BY <1>1, <1>6, Zenon DEF TypeOK, produce_write

LEMMA ClearValueStep ==
  ASSUME Inv, Inv', consume_clear_value
  PROVE  Contents' = Contents
<1>1. TypeOK /\ UNCHANGED <<flag, head, tail>>
  BY Zenon DEF Inv, consume_clear_value
<1>2. Occupied' = Occupied /\ \A k \in Slot : FromTail(k)' = FromTail(k)
  BY <1>1, Zenon DEF Occupied, FromTail
<1>3. Taken = 1 /\ Taken' = 1
  BY Zenon DEF Taken, consume_clear_value
<1> SUFFICES ASSUME NEW k \in 1..(Occupied - Taken)
             PROVE  value'[FromTail(k - 1 + Taken)] = value[FromTail(k - 1 + Taken)]
  <2>1. (Occupied - Taken)' = Occupied - Taken
    BY <1>2, <1>3, Zenon
  <2>2. \A k \in 1..(Occupied - Taken) :
          (value[FromTail(k - 1 + Taken)])' = value'[FromTail(k - 1 + Taken)]
    BY <1>1, <1>3, Zenon DEF FromTail
  <2>3. QED  BY <2>1, <2>2, ContentsSame, Zenon
<1>4. k - 1 + Taken \in Slot /\ k - 1 + Taken # 0 /\ 0 \in Slot
  BY <1>3, ContentsType, SlotsAssumption DEF Slot
<1>5. FromTail(k - 1 + Taken) # tail /\ FromTail(k - 1 + Taken) \in Slot
  BY <1>1, <1>4, RingFacts, Zenon
<1>6. QED  BY <1>1, <1>5, Zenon DEF TypeOK, consume_clear_value

\* The slot at the tail is given back, with what was already received of it.
LEMMA ClearFlagStep ==
  ASSUME Inv, Inv', consume_clear_flag
  PROVE  Contents' = Contents
<1>1. /\ TypeOK /\ flag[tail] /\ flag' = [flag EXCEPT ![tail] = FALSE]
      /\ tail' = After(tail) /\ UNCHANGED <<head, value>>
  BY FlagCleared, Zenon DEF Inv, Owned, consume_clear_flag
<1>2. Occupied' = Occupied - 1 /\ Occupied \in 0..Slots
  BY <1>1, ConsumeCounts, RingFacts, Zenon
<1>3. Taken = 1 /\ Taken' = 0
  BY Zenon DEF Taken, consume_clear_flag
<1> SUFFICES ASSUME NEW k \in 1..(Occupied - Taken)
             PROVE  (value[FromTail(k - 1 + Taken)])' = value[FromTail(k - 1 + Taken)]
  <2>1. (Occupied - Taken)' = Occupied - Taken
    BY <1>2, <1>3
  <2>2. QED  BY <2>1, ContentsSame, Zenon
<1>4. k \in Slot /\ k # 0
  BY <1>2, <1>3, SlotsAssumption DEF Slot
<1>5. FromTail(k) = FromTail(k - 1)'
  BY <1>1, <1>4, TailMoves, Zenon
<1>6. k - 1 + Taken = k /\ (k - 1 + Taken)' = k - 1
  BY <1>3
<1>7. (value[FromTail(k - 1 + Taken)])' = value[FromTail(k - 1)']
  BY <1>1, <1>6, Zenon DEF FromTail
<1>8. QED  BY <1>5, <1>6, <1>7, Zenon

LEMMA ProduceStep ==
  ASSUME Inv, Inv', produce_flag
  PROVE  Len(Contents) < Slots /\ Contents' = Append(Contents, sending)
<1>1. /\ TypeOK /\ value[head] = sending /\ UNCHANGED <<value, tail, cpc>>
  BY Zenon DEF Inv, Owned, produce_flag
<1>2. /\ Occupied < Slots /\ Occupied' = Occupied + 1
      /\ Occupied \in 0..Slots /\ FromTail(Occupied) = head
  BY <1>1, ProduceCounts, RingFacts, Zenon
<1>3. Taken \in {0, 1} /\ Taken' = Taken
  BY <1>1, Zenon DEF Taken
<1>4. /\ Contents \in Seq(Value) /\ Len(Contents) = Occupied - Taken
      /\ Contents' \in Seq(Value) /\ Len(Contents') = Len(Contents) + 1
  <2>1. /\ Contents \in Seq(Value) /\ Len(Contents) = Occupied - Taken
    BY ContentsType, Zenon
  <2>2. (Contents \in Seq(Value) /\ Len(Contents) = Occupied - Taken)'
    BY ContentsType, PTL
  <2>3. QED  BY <1>2, <1>3, <2>1, <2>2
<1>5. \A k \in 1..Len(Contents') : Contents'[k] = value[FromTail(k - 1 + Taken)]
  BY <1>1, <1>2, <1>3, <1>4 DEF Contents, FromTail
<1>6. \A k \in 1..Len(Contents) : Contents[k] = value[FromTail(k - 1 + Taken)]
  BY <1>4, Zenon DEF Contents
<1>7. value[FromTail((Len(Contents) + 1) - 1 + Taken)] = sending
  <2>1. (Len(Contents) + 1) - 1 + Taken = Occupied
    BY <1>2, <1>3, <1>4
  <2>2. QED  BY <1>1, <1>2, <2>1, Zenon
<1>8. /\ Append(Contents, sending) \in Seq(Value)
      /\ Len(Append(Contents, sending)) = Len(Contents) + 1
      /\ \A k \in 1..Len(Contents) : Append(Contents, sending)[k] = Contents[k]
      /\ Append(Contents, sending)[Len(Contents) + 1] = sending
  BY <1>1, <1>4, AppendProperties DEF TypeOK
<1>9. \A k \in 1..Len(Contents') : Contents'[k] = Append(Contents, sending)[k]
  BY <1>4, <1>5, <1>6, <1>7, <1>8
<1>10. Contents' = Append(Contents, sending)
  BY <1>4, <1>8, <1>9, SeqEqual, Zenon
<1>11. Len(Contents) < Slots
  BY <1>2, <1>3, <1>4, SlotsAssumption
<1>12. QED  BY <1>10, <1>11, Zenon

\* Removing the first value, when one step makes every slot one nearer.
LEMMA TailOfContents ==
  ASSUME Inv, NEW s \in Seq(Value), Occupied - Taken > 0, Len(s) = Occupied - Taken - 1,
         \A k \in 1..Len(s) : s[k] = value[FromTail(k + Taken)]
  PROVE  /\ Contents # <<>> /\ s = Tail(Contents)
         /\ Head(Contents) = value[FromTail(Taken)]
<1>1. Contents \in Seq(Value) /\ Len(Contents) = Occupied - Taken
  BY ContentsType, Zenon
<1>2. Contents # <<>> /\ 1 \in 1..Len(Contents) /\ Head(Contents) = Contents[1]
  BY <1>1
<1>3. \A k \in 1..Len(Contents) : Contents[k] = value[FromTail(k - 1 + Taken)]
  BY <1>1, ContentsType, Zenon
<1>4. Taken \in {0, 1}
  BY Zenon DEF Taken
<1>5. /\ Tail(Contents) \in Seq(Value) /\ Len(Tail(Contents)) = Len(s)
      /\ \A k \in 1..Len(s) : Tail(Contents)[k] = Contents[k + 1]
  BY <1>1, <1>2, HeadTailProperties
<1>6. \A k \in 1..Len(s) : Contents[k + 1] = value[FromTail(k + Taken)]
  <2> SUFFICES ASSUME NEW k \in 1..Len(s)
               PROVE  Contents[k + 1] = value[FromTail(k + Taken)]
    BY Zenon
  <2>1. k + 1 \in 1..Len(Contents) /\ (k + 1) - 1 + Taken = k + Taken
    BY <1>1, <1>4
  <2>2. QED  BY <1>3, <2>1, Zenon
<1>7. s = Tail(Contents)
  BY <1>5, <1>6, SeqEqual, Zenon
<1>8. 1 - 1 + Taken = Taken
  BY <1>4
<1>9. QED  BY <1>2, <1>3, <1>7, <1>8, Zenon

LEMMA ReadStep ==
  ASSUME Inv, Inv', consume_read
  PROVE  Contents # <<>> /\ received' = Head(Contents) /\ Contents' = Tail(Contents)
<1>1. TypeOK /\ flag[tail] /\ UNCHANGED <<ring, head, tail>>
  BY Zenon DEF Inv, Owned, consume_read
<1>2. Occupied' = Occupied /\ Occupied \in 0..Slots /\ Occupied > 0
  <2>1. Occupied' = Occupied
    BY <1>1, Zenon DEF Occupied, ring
  <2>2. Occupied \in 0..Slots
    BY <1>1, RingFacts, Zenon
  <2>3. Occupied > 0
    BY <1>1, SlotsAssumption DEF Occupied, TypeOK, Slot
  <2>4. QED  BY <2>1, <2>2, <2>3, Zenon
<1>3. Taken = 0 /\ Taken' = 1 /\ FromTail(Taken) = tail
  BY <1>1, RingFacts, Zenon DEF Taken, consume_read
<1>4. Contents' \in Seq(Value) /\ Len(Contents') = Occupied' - Taken'
  <2>1. (Contents \in Seq(Value) /\ Len(Contents) = Occupied - Taken)'
    BY ContentsType, PTL
  <2>2. QED  BY <2>1, Zenon
<1>5. \A k \in 1..Len(Contents') : Contents'[k] = value[FromTail(k + Taken)]
  <2> SUFFICES ASSUME NEW k \in 1..Len(Contents')
               PROVE  Contents'[k] = value[FromTail(k + Taken)]
    BY Zenon
  <2>1. k \in 1..(Occupied' - Taken') /\ k - 1 + Taken' = k /\ k + Taken = k
    BY <1>2, <1>3, <1>4
  <2>2. QED  BY <1>1, <2>1, Zenon DEF Contents, FromTail, ring
<1>6. /\ Contents # <<>> /\ Contents' = Tail(Contents)
      /\ Head(Contents) = value[FromTail(Taken)]
  <2>1. Occupied - Taken > 0 /\ Len(Contents') = Occupied - Taken - 1
    BY <1>2, <1>3, <1>4
  <2>2. QED  BY <1>4, <1>5, <2>1, TailOfContents, Zenon
<1>7. QED  BY <1>3, <1>6, Zenon DEF consume_read

LEMMA DiscardStep ==
  ASSUME Inv, Inv', clear_one
  PROVE  Contents # <<>> /\ Contents' = Tail(Contents)
<1>1. /\ TypeOK /\ flag[tail] /\ flag' = [flag EXCEPT ![tail] = FALSE]
      /\ tail' = After(tail) /\ UNCHANGED <<head, value>>
  BY Zenon DEF Inv, clear_one
<1>2. Occupied' = Occupied - 1 /\ Occupied \in 0..Slots /\ Occupied > 0
  BY <1>1, ConsumeCounts, RingFacts, Zenon
<1>3. Taken = 0 /\ Taken' = 0
  BY Zenon DEF Taken, clear_one
<1>4. Contents' \in Seq(Value) /\ Len(Contents') = Occupied' - Taken'
  <2>1. (Contents \in Seq(Value) /\ Len(Contents) = Occupied - Taken)'
    BY ContentsType, PTL
  <2>2. QED  BY <2>1, Zenon
<1>5. \A k \in 1..Len(Contents') : Contents'[k] = value[FromTail(k + Taken)]
  <2> SUFFICES ASSUME NEW k \in 1..Len(Contents')
               PROVE  Contents'[k] = value[FromTail(k + Taken)]
    BY Zenon
  <2>1. k \in Slot /\ k # 0 /\ k + Taken = k /\ k \in 1..(Occupied' - Taken')
    BY <1>2, <1>3, <1>4, SlotsAssumption DEF Slot
  <2>2. FromTail(k) = FromTail(k - 1)'
    BY <1>1, <2>1, TailMoves, Zenon
  <2>3. Contents'[k] = value[FromTail(k - 1)']
    BY <1>1, <1>3, <2>1 DEF Contents, FromTail
  <2>4. QED  BY <2>1, <2>2, <2>3, Zenon
<1>6. QED
  <2>1. Occupied - Taken > 0 /\ Len(Contents') = Occupied - Taken - 1
    BY <1>2, <1>3, <1>4
  <2>2. QED  BY <1>4, <1>5, <2>1, TailOfContents, Zenon

LEMMA InitFifo == Init => Fifo!Init
<1> HAVE Init
<1>1. Occupied - Taken = 0
  BY SlotsAssumption DEF Init, Occupied, Taken, Slot
<1>2. Contents = <<>>
  BY <1>1 DEF Contents
<1>3. QED  BY <1>2, ValueAssumption, Zenon DEF Init, Fifo!Init

LEMMA NextFifo == Inv /\ Inv' /\ [Next]_vars => [Fifo!Next]_(Fifo!vars)
<1> SUFFICES ASSUME Inv, Inv', [Next]_vars PROVE [Fifo!Next]_(Fifo!vars)
  BY Zenon
<1> USE DEF Fifo!Next, Fifo!vars
<1>1. CASE produce_flag
  BY <1>1, ProduceStep, Zenon DEF Inv, TypeOK, produce_flag, Fifo!Produce
<1>2. CASE consume_read
  BY <1>2, ReadStep, Zenon DEF Fifo!Consume
<1>3. CASE clear_one
  BY <1>3, DiscardStep, Zenon DEF clear_one, Fifo!Discard
<1>4. CASE produce_write
  BY <1>4, WriteStep, Zenon DEF produce_write
<1>5. CASE consume_clear_value
  BY <1>5, ClearValueStep, Zenon DEF consume_clear_value
<1>6. CASE consume_clear_flag
  BY <1>6, ClearFlagStep, Zenon DEF consume_clear_flag
<1>7. CASE reset
  <2>1. Occupied' - Taken' = 0
    BY <1>7, SlotsAssumption DEF reset, Occupied, Taken, Slot
  <2>2. Contents' = <<>>
    BY <2>1 DEF Contents
  <2>3. QED  BY <1>7, <2>2, Zenon DEF reset, Fifo!Reset
<1>8. CASE (\E v \in Value : produce(v)) \/ produce_spin \/ consume \/ consume_spin
           \/ clear \/ clear_end \/ UNCHANGED vars
  <2>1. UNCHANGED <<ring, head, tail>> /\ Taken' = Taken /\ UNCHANGED received
    BY <1>8, Zenon DEF produce, produce_spin, consume, consume_spin, clear, clear_end, vars, Taken
  <2>2. QED  BY <2>1, QuietSteps, Zenon
<1>9. QED
  BY <1>1, <1>2, <1>3, <1>4, <1>5, <1>6, <1>7, <1>8, Zenon
  DEF Next, Producer, Consumer, Consuming, Clearing

-------------------------------------------------------------------------------
(* The theorems *)

\* In every reachable state the flagged slots are contiguous from the tail, so
\* the spinning tests of one flag in produce and consume mean full and empty.
THEOREM RingInvariant == Spec => [](TypeOK /\ FlagsContiguous)
<1>1. Inv => TypeOK /\ FlagsContiguous
  BY Zenon DEF Inv
<1>2. QED  BY <1>1, InitInv, NextInv, PTL DEF Spec

\* The indices of sw_queue.c stay within the ring, and what a slot, the producer
\* or the consumer holds is always a value.
THEOREM TypeCorrect == Spec => []TypeOK
<1>1. TypeOK /\ FlagsContiguous => TypeOK
  BY Zenon
<1>2. QED  BY <1>1, RingInvariant, PTL

\* Every behaviour of produce, consume, clear and reset in sw_queue.c is one of
\* a FIFO queue of Slots values: nothing is lost, duplicated or reordered.
THEOREM Refinement == Spec => ImplementsFifo
BY InitInv, NextInv, InitFifo, NextFifo, PTL DEF Spec, ImplementsFifo, Fifo!Spec
=============================================================================
