-------------------------- MODULE DiagnosticRing --------------------------
(***************************************************************************)
(* The diagnostic log of the firmware: the RAM ring of                     *)
(* diagnostic_log/diagnostic_ring.c, filled by every task that logs, and a *)
(* reader that follows it by cursor, as GET /api/logs and the SSE worker   *)
(* of provisioning_service.c do.                                           *)
(*                                                                         *)
(* A push and the copy of a batch are critical sections, so each is one    *)
(* action; between two batches of a reader any number of records may be    *)
(* pushed and overwritten.  A record is its sequence number: the message   *)
(* is copied along with it.                                                *)
(***************************************************************************)
EXTENDS Integers, FiniteSets

CONSTANTS
    Capacity,       \* DIAGNOSTIC_LOG_CAPACITY, 64
    BatchCapacity,  \* DIAGNOSTIC_LOG_BATCH_CAPACITY, 8
    MaxSequence     \* UINT64_MAX; bound: records pushed in one boot

ASSUME RingAssumption ==
    /\ Capacity \in Nat \ {0}
    /\ BatchCapacity \in Nat \ {0}
    /\ MaxSequence \in Nat \ {0}

VARIABLES
    records,      \* the slots; 0 is a slot never written
    head,         \* the slot the next record goes to
    count,        \* slots in use
    nextSequence,
    overwritten,
    reading,      \* is a reader at work
    cursor,       \* the cursor of its next batch
    more,         \* has_more of its last batch
    \* History, read by no action:
    from,         \* the cursor the reader began with
    received,     \* the records it was given
    missed        \* the records it was told were lost

ring == <<records, head, count, nextSequence, overwritten>>
reader == <<reading, cursor, more, from, received, missed>>
vars == <<ring, reader>>

Slot == 0..Capacity - 1

Sequence == 0..MaxSequence

TypeOK ==
    /\ records \in [Slot -> Sequence]
    /\ head \in Slot
    /\ count \in 0..Capacity
    /\ nextSequence \in 1..MaxSequence
    /\ overwritten \in Nat
    /\ reading \in BOOLEAN
    /\ cursor \in Sequence
    /\ more \in BOOLEAN
    /\ from \in Sequence
    /\ received \subseteq Sequence
    /\ missed \subseteq Nat

Init ==
    /\ records = [s \in Slot |-> 0]
    /\ head = 0
    /\ count = 0
    /\ nextSequence = 1
    /\ overwritten = 0
    /\ reading = FALSE
    /\ cursor = 0
    /\ more = FALSE
    /\ from = 0
    /\ received = {}
    /\ missed = {}

-----------------------------------------------------------------------------
\* Mutant: the limit of the count is off by one.
PushOneTooMany ==
    /\ nextSequence < MaxSequence
    /\ nextSequence' = nextSequence + 1
    /\ records' = [records EXCEPT ![head] = nextSequence]
    /\ head' = (head + 1) % Capacity
    /\ IF count <= Capacity
       THEN count' = count + 1 /\ UNCHANGED overwritten
       ELSE overwritten' = overwritten + 1 /\ UNCHANGED count
    /\ UNCHANGED reader

\* diagnostic_ring_push, from diagnostic_vprintf.
Push ==
    /\ nextSequence < MaxSequence
    /\ nextSequence' = nextSequence + 1
    /\ records' = [records EXCEPT ![head] = nextSequence]
    /\ head' = (head + 1) % Capacity
    /\ IF count < Capacity
       THEN count' = count + 1 /\ UNCHANGED overwritten
       ELSE overwritten' = overwritten + 1 /\ UNCHANGED count
    /\ UNCHANGED reader

-----------------------------------------------------------------------------
(* diagnostic_ring_batch.                                                  *)

\* uint64_t arithmetic.
Wrap(x) == x % (MaxSequence + 1)

\* Mutant: as if the ring were always full.
OldestAtHead == head
Start == (head + Capacity - count) % Capacity

\* The i-th oldest record.
At(i) == records[(Start + i) % Capacity]

FirstAvailable == IF count > 0 THEN At(0) ELSE nextSequence

\* Mutant: the comparison without the test for UINT64_MAX.
LostBeforeWraps(after) ==
    IF count > 0 /\ Wrap(after + 1) < FirstAvailable
    THEN Wrap(FirstAvailable - after - 1) ELSE 0
LostBefore(after) ==
    IF count > 0 /\ after # MaxSequence /\ Wrap(after + 1) < FirstAvailable
    THEN Wrap(FirstAvailable - after - 1) ELSE 0

\* The records the client has not seen, by age.
Newer(after) == {i \in 0..count - 1 : At(i) > after}

\* The loop copies them in order until the batch is full.
Copied(after) ==
    {i \in Newer(after) : Cardinality({j \in Newer(after) : j < i}) < BatchCapacity}

BatchCursor(after) ==
    IF Copied(after) = {} THEN after
    ELSE At(CHOOSE i \in Copied(after) : \A j \in Copied(after) : j <= i)

\* Mutant: a full batch is taken as a sign of more.
FullMeansMore(after) == Cardinality(Copied(after)) = BatchCapacity
HasMore(after) == Newer(after) # Copied(after)

-----------------------------------------------------------------------------
\* A GET /api/logs?after=, a stream, or the page's loadLogs.  The cursor is
\* whatever the client sends; strtoull saturates.
StartRead ==
    /\ ~reading
    /\ reading' = TRUE
    /\ cursor' \in Sequence
    /\ from' = cursor'
    /\ more' = TRUE
    /\ received' = {}
    /\ missed' = {}
    /\ UNCHANGED ring

\* logs_json and the use of its cursor for the next batch.
ReadBatch ==
    /\ reading
    /\ received' = received \cup {At(i) : i \in Copied(cursor)}
    /\ missed' = missed \cup cursor + 1..cursor + LostBefore(cursor)
    /\ cursor' = BatchCursor(cursor)
    /\ more' = HasMore(cursor)
    /\ UNCHANGED <<ring, reading, from>>

\* The client is done, a send fails, or the batch cannot be allocated.
StopRead ==
    /\ reading
    /\ reading' = FALSE
    /\ UNCHANGED <<ring, cursor, more, from, received, missed>>

\* diagnostic_ring_reset, from diagnostic_log_init after a restart; the
\* readers went with the session.
Reboot ==
    /\ records' = [s \in Slot |-> 0]
    /\ head' = 0
    /\ count' = 0
    /\ nextSequence' = 1
    /\ overwritten' = 0
    /\ reading' = FALSE
    /\ cursor' = 0
    /\ more' = FALSE
    /\ from' = 0
    /\ received' = {}
    /\ missed' = {}

Next == Push \/ StartRead \/ ReadBatch \/ StopRead \/ Reboot

Spec == Init /\ [][Next]_vars

-----------------------------------------------------------------------------
\* The ring holds the latest records, oldest first, and no other; every
\* earlier one is counted as overwritten.
HoldsLatest ==
    /\ \A i \in 0..count - 1 : At(i) = nextSequence - count + i
    /\ overwritten + count = nextSequence - 1

\* Every record between the cursor a reader began with and the one it has
\* reached was either given to it or reported as lost, never both, however
\* pushes and batches interleave; and only what is gone is reported as lost.
NothingSilentlyLost ==
    reading =>
        /\ from <= cursor
        /\ received \cup missed = from + 1..cursor
        /\ received \cap missed = {}
        /\ \A m \in missed : m < FirstAvailable

\* A batch moves the cursor forward over records the reader has not had, at
\* most BatchCapacity of them, and says there is more exactly when the
\* cursor is not yet at the last record pushed.
BatchAdvances ==
    [][ReadBatch =>
        /\ cursor' >= cursor
        /\ cursor' # cursor => cursor' \in received' \ received
        /\ Cardinality(received' \ received) <= BatchCapacity
        /\ more' <=> cursor' < nextSequence - 1]_vars

=============================================================================
