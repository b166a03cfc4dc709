----------------------- MODULE DiagnosticRingProofs -----------------------
(* Proofs about DiagnosticRing, for every capacity of ring and batch.      *)
EXTENDS DiagnosticRing, FiniteSetTheorems, TLAPS

\* Positions in the ring wrap at most once.
LEMMA ModOnce ==
    ASSUME NEW n \in Nat \ {0}, NEW x \in Nat, x < 2 * n
    PROVE  x % n = IF x < n THEN x ELSE x - n
  <1>1. CASE x < n
    BY <1>1, SMT
  <1>2. CASE x >= n
    BY <1>2, SMT
  <1> QED BY <1>1, <1>2

\* The slot of the i-th oldest of c records when the next goes to slot h.
LEMMA SlotOfRecord ==
    ASSUME NEW h \in Slot, NEW c \in 0..Capacity, NEW i \in 0..c - 1
    PROVE  (((h + Capacity - c) % Capacity) + i) % Capacity =
               IF h + i >= c THEN h + i - c ELSE h + i - c + Capacity
  <1> DEFINE x == h + Capacity - c
             y == IF h < c THEN x + i ELSE h - c + i
  <1>0. /\ Capacity \in Nat \ {0}
        /\ x \in Nat /\ x < 2 * Capacity
        /\ y \in Nat /\ y < 2 * Capacity
    BY RingAssumption DEF Slot
  <1>1. x % Capacity = IF x < Capacity THEN x ELSE x - Capacity
    <2> HIDE DEF x
    <2> QED BY <1>0, ModOnce
  <1>2. y % Capacity = IF y < Capacity THEN y ELSE y - Capacity
    <2> HIDE DEF y
    <2> QED BY <1>0, ModOnce
  <1>3. (x % Capacity) + i = y
    <2>1. (IF x < Capacity THEN x ELSE x - Capacity) + i = y
      BY <1>0 DEF Slot
    <2> QED BY <2>1, <1>1
  <1>4. (IF y < Capacity THEN y ELSE y - Capacity) =
            IF h + i >= c THEN h + i - c ELSE h + i - c + Capacity
    BY <1>0 DEF Slot
  <1> QED
    <2> HIDE DEF y
    <2> QED BY <1>2, <1>3, <1>4

\* That slot is a slot of the ring.
LEMMA SlotInRange ==
    ASSUME NEW h \in Slot, NEW c \in 0..Capacity, NEW i \in 0..c - 1
    PROVE  (IF h + i >= c THEN h + i - c ELSE h + i - c + Capacity) \in Slot
  <1>1. CASE h + i >= c
    BY <1>1, RingAssumption DEF Slot
  <1>2. CASE h + i < c
    BY <1>2, RingAssumption DEF Slot
  <1> QED BY <1>1, <1>2, RingAssumption DEF Slot

\* A ring or batch that is not empty has a first position.
LEMMA ZeroInRange ==
    ASSUME NEW n \in Nat, n > 0
    PROVE  0 \in 0..n - 1
  OBVIOUS

\* A reader that just began has an empty range behind it.
LEMMA EmptyRange ==
    ASSUME NEW n \in Nat
    PROVE  n + 1..n = {} /\ n <= n
  OBVIOUS

\* What is overwritten is never part of a ring that is not full.
FullWhenOverwriting == overwritten > 0 => count = Capacity

RingInv == TypeOK /\ HoldsLatest /\ FullWhenOverwriting

\* The sequence of the oldest record, or of the next one if there is none.
Oldest == nextSequence - count

\* The records of the ring are consecutive, from Oldest on.
LEMMA RingFacts ==
    ASSUME RingInv
    PROVE  /\ Oldest \in 1..nextSequence
           /\ FirstAvailable = Oldest
           /\ \A i \in 0..count - 1 : At(i) = Oldest + i
           /\ count = 0 => nextSequence = 1
  <1> USE RingAssumption DEF RingInv, TypeOK, HoldsLatest, FullWhenOverwriting, Oldest
  <1>1. Oldest \in 1..nextSequence
    OBVIOUS
  <1>2. \A i \in 0..count - 1 : At(i) = Oldest + i
    OBVIOUS
  <1>3. FirstAvailable = Oldest
    <2>1. CASE count = 0
      BY <2>1 DEF FirstAvailable
    <2>2. CASE count > 0
      BY <2>2, <1>2 DEF FirstAvailable
    <2> QED BY <2>1, <2>2
  <1> QED BY <1>1, <1>2, <1>3

\* A push keeps the ring in order.
LEMMA PushKeepsRing ==
    ASSUME RingInv, Push
    PROVE  RingInv'
  <1> USE RingAssumption DEF Slot
  <1>1. /\ head' = IF head + 1 < Capacity THEN head + 1 ELSE 0
        /\ head' \in Slot
    <2> DEFINE x == head + 1
    <2>1. Capacity \in Nat \ {0} /\ x \in Nat /\ x <= Capacity /\ x < 2 * Capacity
      BY DEF RingInv, TypeOK
    <2>2. x % Capacity = IF x < Capacity THEN x ELSE x - Capacity
      <3> HIDE DEF x
      <3> QED BY <2>1, ModOnce
    <2>3. head' = x % Capacity
      BY DEF Push
    <2>4. (IF x < Capacity THEN x ELSE x - Capacity) =
              IF head + 1 < Capacity THEN head + 1 ELSE 0
      BY <2>1
    <2> QED BY <2>1, <2>2, <2>3, <2>4
  <1>2. TypeOK'
    <2>1. nextSequence \in Sequence /\ records' = [records EXCEPT ![head] = nextSequence]
      BY DEF RingInv, TypeOK, Push, Sequence
    <2>2. records' \in [Slot -> Sequence]
      BY <2>1 DEF RingInv, TypeOK
    <2>3. /\ count' \in 0..Capacity /\ overwritten' \in Nat
          /\ nextSequence' \in 1..MaxSequence
      BY DEF RingInv, TypeOK, Push
    <2>4. UNCHANGED <<reading, cursor, more, from, received, missed>>
      BY DEF Push, reader
    <2> QED BY <1>1, <2>2, <2>3, <2>4 DEF RingInv, TypeOK
  <1>3. (overwritten + count = nextSequence - 1)'
    BY DEF RingInv, TypeOK, HoldsLatest, Push
  <1>4. FullWhenOverwriting'
    BY DEF RingInv, TypeOK, FullWhenOverwriting, Push
  <1>5. /\ Capacity \in Nat \ {0}
        /\ head \in 0..Capacity - 1 /\ count \in 0..Capacity /\ nextSequence \in Nat
        /\ count' = IF count < Capacity THEN count + 1 ELSE count
        /\ nextSequence' = nextSequence + 1
        /\ \A x \in Slot : records'[x] = IF x = head THEN nextSequence ELSE records[x]
    BY DEF RingInv, TypeOK, Push
  <1>6. ASSUME NEW i \in 0..count' - 1
        PROVE  At(i)' = nextSequence' - count' + i
    <2> DEFINE slot == IF head' + i >= count' THEN head' + i - count'
                       ELSE head' + i - count' + Capacity
               old(j) == IF head + j >= count THEN head + j - count
                         ELSE head + j - count + Capacity
    <2>1. At(i)' = records'[slot] /\ slot \in Slot
      <3>1. At(i)' = records'[(((head' + Capacity - count') % Capacity) + i) % Capacity]
        BY DEF At, Start
      <3>2. head' \in Slot /\ count' \in 0..Capacity
        BY <1>2 DEF TypeOK
      <3>3. (((head' + Capacity - count') % Capacity) + i) % Capacity = slot
        BY <3>2, SlotOfRecord
      <3>4. slot \in Slot
        BY <3>2, SlotInRange
      <3> QED BY <3>1, <3>3, <3>4
    <2>2. \A j \in 0..count - 1 : At(j) = records[old(j)]
      BY SlotOfRecord DEF At, Start, RingInv, TypeOK
    <2>3. \A j \in 0..count - 1 : At(j) = nextSequence - count + j
      BY DEF RingInv, HoldsLatest
    <2>4. CASE i = count' - 1
      <3>1. slot = head
        BY <2>4, <1>1, <1>5
      <3>2. At(i)' = nextSequence
        BY <3>1, <2>1, <1>5
      <3> QED BY <3>2, <2>4, <1>5
    <2>5. CASE i < count' - 1 /\ count < Capacity
      <3>1. i \in 0..count - 1 /\ slot # head /\ slot = old(i)
        BY <2>5, <1>1, <1>5
      <3>2. At(i)' = At(i)
        BY <2>1, <2>2, <1>5, <3>1
      <3> QED BY <3>1, <3>2, <2>3, <2>5, <1>5
    <2>6. CASE i < count' - 1 /\ count = Capacity
      <3>1. i + 1 \in 0..count - 1 /\ slot # head /\ slot = old(i + 1)
        BY <2>6, <1>1, <1>5
      <3>2. At(i)' = At(i + 1)
        BY <2>1, <2>2, <1>5, <3>1
      <3> QED BY <3>1, <3>2, <2>3, <2>6, <1>5
    <2> QED BY <2>4, <2>5, <2>6, <1>5
  <1> QED BY <1>2, <1>3, <1>4, <1>6 DEF RingInv, HoldsLatest

-----------------------------------------------------------------------------
\* uint64_t arithmetic on small values is arithmetic.
LEMMA WrapSmall ==
    ASSUME NEW x \in Sequence
    PROVE  Wrap(x) = x
  <1> DEFINE n == MaxSequence + 1
  <1>1. n \in Nat \ {0} /\ x \in Nat /\ x < n /\ x < 2 * n
    BY RingAssumption DEF Sequence
  <1>2. x % n = x
    <2> HIDE DEF n
    <2> QED BY <1>1, ModOnce
  <1> QED BY <1>2 DEF Wrap

\* The first sequence after a that the ring still holds.
FirstAfter(a) == IF a + 1 < Oldest THEN Oldest ELSE a + 1

\* A batch for a client that has everything, or is ahead, is empty.
LEMMA EmptyBatch ==
    ASSUME RingInv, NEW a \in Sequence, a >= nextSequence - 1
    PROVE  /\ Copied(a) = {}
           /\ BatchCursor(a) = a
           /\ LostBefore(a) = 0
           /\ ~HasMore(a)
  <1>1. /\ Oldest \in 1..nextSequence /\ nextSequence \in 1..MaxSequence
        /\ count \in 0..Capacity /\ a \in Nat /\ Capacity \in Nat
        /\ Oldest = nextSequence - count
        /\ MaxSequence \in Nat /\ a <= MaxSequence
    BY RingFacts, RingAssumption DEF RingInv, TypeOK, Oldest, Sequence
  <1>2. \A i \in 0..count - 1 : At(i) = Oldest + i
    BY RingFacts
  <1>3. Newer(a) = {}
    BY <1>1, <1>2 DEF Newer
  <1>4. Copied(a) = {}
    BY <1>3 DEF Copied
  <1>5. LostBefore(a) = 0
    <2>1. CASE a = MaxSequence
      BY <2>1 DEF LostBefore
    <2>2. CASE a < MaxSequence
      <3>1. Wrap(a + 1) = a + 1
        BY <2>2, <1>1, WrapSmall DEF Sequence
      <3>2. ~(Wrap(a + 1) < FirstAvailable)
        BY <3>1, <1>1, RingFacts
      <3> QED BY <3>2 DEF LostBefore
    <2> QED BY <2>1, <2>2, <1>1
  <1> QED BY <1>3, <1>4, <1>5 DEF BatchCursor, HasMore

\* Any other batch is the run of at most BatchCapacity records from the
\* first one after a that is left, and everything before that is counted.
LEMMA FullBatch ==
    ASSUME RingInv, NEW a \in Sequence, a < nextSequence - 1
    PROVE  /\ {At(i) : i \in Copied(a)} = FirstAfter(a)..BatchCursor(a)
           /\ BatchCursor(a) \in FirstAfter(a)..nextSequence - 1
           /\ BatchCursor(a) - FirstAfter(a) < BatchCapacity
           /\ LostBefore(a) = FirstAfter(a) - a - 1
           /\ HasMore(a) <=> BatchCursor(a) < nextSequence - 1
  <1> DEFINE k == IF a + 1 < Oldest THEN 0 ELSE a + 1 - Oldest
             e == IF k + BatchCapacity < count THEN k + BatchCapacity ELSE count
  <1>1. /\ Oldest \in 1..nextSequence /\ nextSequence \in 1..MaxSequence
        /\ count \in 0..Capacity /\ a \in Nat /\ Capacity \in Nat
        /\ Oldest = nextSequence - count
        /\ MaxSequence \in Nat /\ BatchCapacity \in Nat \ {0}
        /\ count > 0
    BY RingFacts, RingAssumption DEF RingInv, TypeOK, Oldest, Sequence
  <1>2. \A i \in 0..count - 1 : At(i) = Oldest + i
    BY RingFacts
  <1>3. /\ k \in 0..count - 1
        /\ e \in k + 1..count
        /\ e - k <= BatchCapacity
        /\ e # count => e - k = BatchCapacity
        /\ Oldest + k = FirstAfter(a)
    BY <1>1 DEF FirstAfter
  <1>4. Newer(a) = k..count - 1
    BY <1>1, <1>2 DEF Newer
  <1> HIDE DEF k, e
  <1>5. Copied(a) = k..e - 1
    <2>1. ASSUME NEW i \in k..count - 1
          PROVE  Cardinality({j \in Newer(a) : j < i}) = i - k
      <3>1. {j \in Newer(a) : j < i} = k..i - 1
        BY <1>1, <1>3, <1>4
      <3>2. Cardinality(k..i - 1) = IF k > i - 1 THEN 0 ELSE i - 1 - k + 1
        BY <1>1, <1>3, FS_Interval
      <3>3. (IF k > i - 1 THEN 0 ELSE i - 1 - k + 1) = i - k
        BY <1>1, <1>3
      <3> QED BY <3>1, <3>2, <3>3
    <2>2. Copied(a) = {i \in k..count - 1 : i - k < BatchCapacity}
      BY <2>1, <1>4 DEF Copied
    <2>3. \A i \in k..count - 1 : i - k < BatchCapacity <=> i \in k..e - 1
      BY <1>1, <1>3
    <2>4. \A i \in k..e - 1 : i \in k..count - 1
      BY <1>1, <1>3
    <2> QED BY <2>2, <2>3, <2>4
  <1>6. BatchCursor(a) = Oldest + e - 1
    <2> DEFINE last == CHOOSE i \in Copied(a) : \A j \in Copied(a) : j <= i
    <2>1. e - 1 \in Copied(a) /\ \A j \in Copied(a) : j <= e - 1
      BY <1>1, <1>3, <1>5
    <2>2. last \in Copied(a) /\ \A j \in Copied(a) : j <= last
      BY <2>1
    <2>3. last = e - 1
      BY <2>1, <2>2, <1>1, <1>3, <1>5
    <2>4. BatchCursor(a) = At(e - 1)
      BY <2>1, <2>3 DEF BatchCursor
    <2> QED BY <2>4, <1>1, <1>2, <1>3
  <1>7. {At(i) : i \in Copied(a)} = FirstAfter(a)..BatchCursor(a)
    <2>1. \A i \in k..e - 1 : At(i) = Oldest + i
      BY <1>1, <1>2, <1>3
    <2>2. {At(i) : i \in Copied(a)} = {Oldest + i : i \in k..e - 1}
      BY <2>1, <1>5
    <2>3. ASSUME NEW x \in Oldest + k..Oldest + e - 1
          PROVE  x - Oldest \in k..e - 1 /\ x = Oldest + (x - Oldest)
      BY <1>1, <1>3
    <2>4. ASSUME NEW i \in k..e - 1
          PROVE  Oldest + i \in Oldest + k..Oldest + e - 1
      BY <1>1, <1>3
    <2>5. {Oldest + i : i \in k..e - 1} = Oldest + k..Oldest + e - 1
      BY <2>3, <2>4
    <2> QED BY <2>2, <2>5, <1>3, <1>6
  <1>8. LostBefore(a) = FirstAfter(a) - a - 1
    <2>1. Wrap(a + 1) = a + 1
      BY <1>1, WrapSmall DEF Sequence
    <2>2. FirstAvailable = Oldest
      BY RingFacts
    <2>3. CASE a + 1 < Oldest
      <3>1. Oldest - a - 1 \in Sequence
        BY <1>1, <2>3 DEF Sequence
      <3>2. Wrap(Oldest - a - 1) = Oldest - a - 1
        BY <3>1, WrapSmall
      <3>3. a # MaxSequence
        BY <1>1
      <3> QED BY <2>1, <2>2, <2>3, <3>2, <3>3, <1>1 DEF LostBefore, FirstAfter
    <2>4. CASE ~(a + 1 < Oldest)
      <3>1. LostBefore(a) = 0
        BY <2>1, <2>2, <2>4 DEF LostBefore
      <3> QED BY <3>1, <2>4, <1>1 DEF FirstAfter
    <2> QED BY <2>3, <2>4
  <1>9. HasMore(a) <=> BatchCursor(a) < nextSequence - 1
    <2>1. CASE e = count
      BY <2>1, <1>1, <1>3, <1>4, <1>5, <1>6 DEF HasMore
    <2>2. CASE e < count
      <3>1. e \in Newer(a) /\ e \notin Copied(a)
        BY <2>2, <1>1, <1>3, <1>4, <1>5
      <3> QED BY <3>1, <2>2, <1>1, <1>3, <1>6 DEF HasMore
    <2> QED BY <2>1, <2>2, <1>1, <1>3
  <1>10. /\ BatchCursor(a) \in FirstAfter(a)..nextSequence - 1
         /\ BatchCursor(a) - FirstAfter(a) < BatchCapacity
    BY <1>1, <1>3, <1>6
  <1> QED BY <1>7, <1>8, <1>9, <1>10

-----------------------------------------------------------------------------
IInv == RingInv /\ NothingSilentlyLost

\* Nothing before the oldest record comes back.
LEMMA PushKeepsReader ==
    ASSUME IInv, Push
    PROVE  NothingSilentlyLost'
  <1>1. RingInv /\ RingInv'
    BY PushKeepsRing DEF IInv
  <1>2. FirstAvailable = nextSequence - count
    BY <1>1, RingFacts DEF Oldest
  <1>3. FirstAvailable' = nextSequence' - count'
    <2>1. count' \in Nat /\ count' > 0 /\ nextSequence' \in Nat
      <3>1. count' > 0
        BY <1>1, RingAssumption DEF RingInv, TypeOK, Push
      <3>2. TypeOK' /\ Capacity \in Nat /\ MaxSequence \in Nat
        BY <1>1, RingAssumption DEF RingInv
      <3> QED BY <3>1, <3>2 DEF TypeOK
    <2>2. At(0)' = nextSequence' - count' + 0
      <3>1. \A i \in 0..count' - 1 : At(i)' = nextSequence' - count' + i
        BY <1>1 DEF RingInv, HoldsLatest
      <3>2. 0 \in 0..count' - 1
        BY <2>1, ZeroInRange
      <3> QED BY <3>1, <3>2, Zenon DEF At, Start
    <2>3. FirstAvailable' = At(0)'
      BY <2>1 DEF FirstAvailable
    <2> QED BY <2>1, <2>2, <2>3
  <1>4. /\ FirstAvailable <= FirstAvailable'
        /\ FirstAvailable \in Int /\ FirstAvailable' \in Int
    <2>1. /\ count' = IF count < Capacity THEN count + 1 ELSE count
          /\ nextSequence' = nextSequence + 1
          /\ count \in Nat /\ nextSequence \in Nat
      BY <1>1, RingAssumption DEF RingInv, TypeOK, Push
    <2> QED BY <2>1, <1>2, <1>3
  <1>5. /\ UNCHANGED <<reading, cursor, from, received, missed>>
        /\ missed \subseteq Nat
    BY <1>1 DEF Push, reader, RingInv, TypeOK
  <1>6. \A m \in Nat : m < FirstAvailable => m < FirstAvailable'
    BY <1>4
  <1> QED BY <1>5, <1>6 DEF IInv, NothingSilentlyLost

\* The ring is as it was.
LEMMA RingUntouched ==
    ASSUME RingInv, UNCHANGED ring, TypeOK'
    PROVE  RingInv' /\ FirstAvailable' = FirstAvailable
  BY DEF RingInv, HoldsLatest, FullWhenOverwriting, ring, At, Start, FirstAvailable

\* A batch gives or reports every record between the old and the new cursor.
LEMMA BatchKeepsReader ==
    ASSUME IInv, ReadBatch
    PROVE  TypeOK' /\ NothingSilentlyLost'
  <1>1. /\ RingInv /\ cursor \in Sequence /\ reading /\ reading'
        /\ UNCHANGED <<ring, from>>
        /\ received \subseteq Sequence /\ missed \subseteq Nat /\ from \in Sequence
        /\ from <= cursor
        /\ received \cup missed = from + 1..cursor
        /\ received \cap missed = {}
        /\ \A m \in missed : m < FirstAvailable
    BY DEF IInv, RingInv, TypeOK, ReadBatch, NothingSilentlyLost
  <1>2. /\ FirstAvailable = Oldest /\ FirstAvailable' = FirstAvailable
        /\ Oldest \in 1..nextSequence /\ nextSequence \in 1..MaxSequence
        /\ MaxSequence \in Nat
    BY <1>1, RingFacts, RingAssumption
       DEF RingInv, TypeOK, ring, At, Start, FirstAvailable
  <1>3. CASE cursor >= nextSequence - 1
    <2>1. UNCHANGED <<cursor, received>> /\ missed' = missed
      <3>1. cursor + 1..cursor + LostBefore(cursor) = {}
        BY <1>1, <1>3, EmptyBatch DEF Sequence
      <3> QED BY <1>1, <1>3, <3>1, EmptyBatch DEF ReadBatch
    <2>2. more' \in BOOLEAN
      BY DEF ReadBatch, HasMore
    <2> QED BY <2>1, <2>2, <1>1, <1>2 DEF NothingSilentlyLost, RingInv, TypeOK, ring
  <1>4. CASE cursor < nextSequence - 1
    <2> DEFINE first == FirstAfter(cursor)
               next == BatchCursor(cursor)
    <2>1. /\ next \in first..nextSequence - 1
          /\ LostBefore(cursor) = first - cursor - 1
          /\ received' = received \cup first..next
          /\ cursor' = next
          /\ missed' = missed \cup cursor + 1..cursor + LostBefore(cursor)
          /\ more' \in BOOLEAN
      BY <1>1, <1>4, FullBatch DEF ReadBatch, HasMore
    <2>2. /\ first \in cursor + 1..nextSequence /\ cursor \in Nat /\ from \in Nat
          /\ first > cursor + 1 => first = Oldest
          /\ next \in Nat /\ next <= MaxSequence
      BY <1>1, <1>2, <1>4, <2>1 DEF FirstAfter, Sequence
    <2> HIDE DEF first, next
    <2>3. missed' = missed \cup cursor + 1..first - 1
      BY <2>1, <2>2
    <2>4. received' \cup missed' = from + 1..cursor'
      <3>1. from + 1..next =
                (from + 1..cursor) \cup (cursor + 1..first - 1) \cup first..next
        BY <2>1, <2>2, <1>1, <1>2
      <3> QED BY <3>1, <2>1, <2>3, <1>1
    <2>5. from' <= cursor'
      BY <2>1, <2>2, <1>1, <1>2
    <2>6. received' \cap missed' = {}
      <3>1. \A x \in received : x <= cursor
        BY <1>1
      <3>2. \A x \in missed : x <= cursor
        BY <1>1
      <3> QED BY <3>1, <3>2, <1>1, <1>2, <2>1, <2>2, <2>3
    <2>7. \A m \in missed' : m < FirstAvailable'
      BY <2>2, <2>3, <1>1, <1>2
    <2>8. TypeOK'
      BY <2>1, <2>2, <2>3, <1>1, <1>2 DEF RingInv, TypeOK, ring, Sequence
    <2> QED BY <2>4, <2>5, <2>6, <2>7, <2>8, <1>1 DEF NothingSilentlyLost
  <1> QED BY <1>1, <1>2, <1>3, <1>4 DEF Sequence

-----------------------------------------------------------------------------
\* The empty ring satisfies the invariant.
LEMMA InitIInv ==
    ASSUME Init
    PROVE  IInv
  <1>1. TypeOK
    <2>1. 0 \in Slot /\ 0 \in 0..Capacity /\ 1 \in 1..MaxSequence /\ 0 \in Sequence
      BY RingAssumption DEF Slot, Sequence
    <2>2. [s \in Slot |-> 0] \in [Slot -> Sequence]
      BY <2>1
    <2> QED BY <2>1, <2>2 DEF Init, TypeOK
  <1>2. HoldsLatest
    <2>1. count = 0 /\ overwritten = 0 /\ nextSequence = 1
      BY DEF Init
    <2> QED BY <2>1 DEF HoldsLatest
  <1>3. FullWhenOverwriting /\ NothingSilentlyLost
    BY DEF Init, FullWhenOverwriting, NothingSilentlyLost
  <1> QED BY <1>1, <1>2, <1>3 DEF IInv, RingInv

\* Pushes and batches preserve the invariant.
LEMMA NextIInv ==
    ASSUME IInv, [Next]_vars
    PROVE  IInv'
  <1>1. CASE Push
    BY <1>1, PushKeepsRing, PushKeepsReader DEF IInv
  <1>2. CASE StartRead
    <2>1. TypeOK'
      BY <1>2 DEF IInv, RingInv, TypeOK, StartRead, ring
    <2>2. RingInv'
      BY <1>2, <2>1, RingUntouched DEF IInv, StartRead
    <2>3. NothingSilentlyLost'
      <3>1. cursor' \in Nat /\ from' = cursor' /\ received' = {} /\ missed' = {}
        BY <1>2, RingAssumption DEF StartRead, Sequence
      <3>2. from' + 1..cursor' = {} /\ from' <= cursor'
        BY <3>1, EmptyRange
      <3> QED BY <3>1, <3>2 DEF NothingSilentlyLost
    <2> QED BY <2>2, <2>3 DEF IInv
  <1>3. CASE ReadBatch
    <2>1. TypeOK' /\ NothingSilentlyLost'
      BY <1>3, BatchKeepsReader
    <2>2. RingInv'
      BY <1>3, <2>1, RingUntouched DEF IInv, ReadBatch
    <2> QED BY <2>1, <2>2 DEF IInv
  <1>4. CASE StopRead
    <2>1. TypeOK'
      BY <1>4 DEF IInv, RingInv, TypeOK, StopRead, ring
    <2>2. RingInv'
      BY <1>4, <2>1, RingUntouched DEF IInv, StopRead
    <2>3. NothingSilentlyLost'
      BY <1>4 DEF NothingSilentlyLost, StopRead
    <2> QED BY <2>2, <2>3 DEF IInv
  <1>5. CASE Reboot
    <2>1. TypeOK'
      <3>1. 0 \in Slot /\ 0 \in 0..Capacity /\ 1 \in 1..MaxSequence /\ 0 \in Sequence
        BY RingAssumption DEF Slot, Sequence
      <3>2. [s \in Slot |-> 0] \in [Slot -> Sequence]
        BY <3>1
      <3> QED BY <1>5, <3>1, <3>2 DEF Reboot, TypeOK
    <2>2. HoldsLatest'
      <3>1. count' = 0 /\ overwritten' = 0 /\ nextSequence' = 1
        BY <1>5 DEF Reboot
      <3> QED BY <3>1 DEF HoldsLatest
    <2>3. FullWhenOverwriting' /\ NothingSilentlyLost'
      BY <1>5 DEF Reboot, FullWhenOverwriting, NothingSilentlyLost
    <2> QED BY <2>1, <2>2, <2>3 DEF IInv, RingInv
  <1>6. CASE UNCHANGED vars
    <2>1. UNCHANGED ring /\ UNCHANGED reader
      BY <1>6 DEF vars
    <2>2. TypeOK'
      BY <2>1 DEF IInv, RingInv, TypeOK, ring, reader
    <2>3. RingInv' /\ FirstAvailable' = FirstAvailable
      BY <2>1, <2>2, RingUntouched DEF IInv
    <2>4. NothingSilentlyLost'
      BY <2>1, <2>3 DEF IInv, NothingSilentlyLost, reader
    <2> QED BY <2>3, <2>4 DEF IInv
  <1> QED BY <1>1, <1>2, <1>3, <1>4, <1>5, <1>6 DEF Next

\* IInv is an invariant of the specification.
THEOREM Invariance == Spec => []IInv
  <1>1. Init => IInv
    BY InitIInv
  <1>2. IInv /\ [Next]_vars => IInv'
    BY NextIInv
  <1> QED BY <1>1, <1>2, PTL DEF Spec

\* head, count and the sequence numbers stay in range.
THEOREM RingTypeCorrect == Spec => []TypeOK
  <1>1. IInv => TypeOK
    BY DEF IInv, RingInv
  <1> QED BY <1>1, Invariance, PTL

\* The ring holds exactly the latest records, in order, whatever its
\* capacity and however often it has wrapped.
THEOREM RingHoldsLatest == Spec => []HoldsLatest
  <1>1. IInv => HoldsLatest
    BY DEF IInv, RingInv
  <1> QED BY <1>1, Invariance, PTL

\* A reader that follows the cursor gets every record or is told it is lost.
THEOREM ReaderLosesNothing == Spec => []NothingSilentlyLost
  <1>1. IInv => NothingSilentlyLost
    BY DEF IInv
  <1> QED BY <1>1, Invariance, PTL

\* Every batch is new to the reader and bounded, and has_more is exact.
THEOREM BatchesAdvance == Spec => BatchAdvances
  <1> DEFINE Step ==
        ReadBatch =>
            /\ cursor' >= cursor
            /\ cursor' # cursor => cursor' \in received' \ received
            /\ Cardinality(received' \ received) <= BatchCapacity
            /\ more' <=> cursor' < nextSequence - 1
  <1>1. ASSUME IInv, ReadBatch
        PROVE  Step
    <2>1. /\ RingInv /\ cursor \in Sequence /\ cursor \in Nat
          /\ received \subseteq from + 1..cursor /\ from \in Nat
          /\ nextSequence \in Nat /\ BatchCapacity \in Nat \ {0}
      BY <1>1, RingAssumption
         DEF IInv, RingInv, TypeOK, NothingSilentlyLost, ReadBatch, Sequence
    <2>2. CASE cursor >= nextSequence - 1
      <3>1. cursor' = cursor /\ received' = received /\ more' = FALSE
        BY <1>1, <2>1, <2>2, EmptyBatch DEF ReadBatch, HasMore
      <3>2. received' \ received = {}
        BY <3>1
      <3> QED BY <2>1, <2>2, <3>1, <3>2, FS_EmptySet
    <2>3. CASE cursor < nextSequence - 1
      <3> DEFINE first == FirstAfter(cursor)
                 next == BatchCursor(cursor)
      <3>1. /\ next \in first..nextSequence - 1
            /\ next - first < BatchCapacity
            /\ received' = received \cup first..next
            /\ cursor' = next
            /\ more' <=> next < nextSequence - 1
        BY <1>1, <2>1, <2>3, FullBatch DEF ReadBatch, HasMore
      <3>2. first \in Nat /\ first > cursor /\ next \in Nat
        BY <2>1, <3>1, RingFacts DEF FirstAfter
      <3> HIDE DEF first, next
      <3>3. received' \ received = first..next
        BY <2>1, <3>1, <3>2
      <3>4. Cardinality(first..next) <= BatchCapacity
        <4>1. Cardinality(first..next) = IF first > next THEN 0 ELSE next - first + 1
          BY <3>2, FS_Interval
        <4>2. (IF first > next THEN 0 ELSE next - first + 1) <= BatchCapacity
          BY <3>1, <3>2, <2>1
        <4> QED BY <4>1, <4>2
      <3>5. cursor' >= cursor /\ cursor' \in first..next
        BY <3>1, <3>2, <2>1
      <3>6. Cardinality(received' \ received) <= BatchCapacity
        BY <3>3, <3>4
      <3>7. more' <=> cursor' < nextSequence - 1
        BY <3>1
      <3>8. cursor' \in received' \ received
        BY <3>3, <3>5
      <3> QED BY <3>5, <3>6, <3>7, <3>8
    <2> QED BY <2>1, <2>2, <2>3
  <1>2. IInv => [Step]_vars
    BY <1>1
  <1> QED BY <1>2, Invariance, PTL DEF BatchAdvances

=============================================================================
