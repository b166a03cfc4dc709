------------------------- MODULE DevicePresenceProofs -------------------------
(***************************************************************************)
(* Proofs about DevicePresence, for every timeout and any number of        *)
(* messages on their way and in the device's outbox.                       *)
(***************************************************************************)
EXTENDS DevicePresence, SequenceTheorems, FiniteSetTheorems, TLAPS

\* TypeOK in the parts that the steps below treat one by one.
FlagsTyped ==
    /\ announce \in BOOLEAN /\ session \in BOOLEAN
    /\ lost \in BOOLEAN /\ willLost \in BOOLEAN

NamesTyped ==
    /\ condition \in Health
    /\ link \in {"down", "up", "dead"}
    /\ collector \in {"down", "connected", "subscribed"}

OutboxTyped == outbox \subseteq Message /\ Cardinality(outbox) <= MaxOutbox

RetainedType == [availability : Availability \cup {"none"}, health : Health \cup {"none"}]

QueueTyped == queue \in Seq(Message) /\ Len(queue) <= MaxQueue

RegistryTyped ==
    /\ registry \in [reported : Availability \cup {"none"}, age : Age,
                     health : Health \cup {"none"}]
    /\ registry.reported = "none" => registry.age = 0 /\ registry.health = "none"

\* Once the messages of q are processed, v is what the registry holds of the
\* given kind, where it holds c now: v is the last message of that kind in q,
\* or there is none and v is held already.
Coming(q, kind, v, c) ==
    \/ v = "none"
    \/ \E i \in DOMAIN q : q[i] = v /\ \A j \in DOMAIN q : j > i => q[j] \notin kind
    \/ c = v /\ \A i \in DOMAIN q : q[i] \notin kind

\* A connection that works is one that the broker has.
LinkHasSession == link = "up" => session

\* What the broker retains is in the registry or on its way there, behind
\* everything that could undo it.
RegistryFollows ==
    collector = "subscribed" /\ ~lost =>
        /\ Coming(queue, Availability, retained.availability, registry.reported)
        /\ Coming(queue, Health, retained.health, registry.health)

IInv ==
    /\ TypeOK
    /\ LinkHasSession
    /\ OnlineIsConnected
    /\ RegistryFollows

-----------------------------------------------------------------------------
(* Queues.                                                                 *)

\* A message of the kind, put last, is what comes.
LEMMA ComingAppended ==
    ASSUME NEW q \in Seq(Message), NEW m \in Message, NEW kind, NEW c
    PROVE  Coming(Append(q, m), kind, m, c)
<1>1. /\ DOMAIN Append(q, m) = 1..(Len(q) + 1) /\ Append(q, m)[Len(q) + 1] = m
      /\ Len(q) \in Nat
  BY AppendProperties, LenProperties
<1> QED
  BY <1>1 DEF Coming

\* A message of another kind changes nothing about what comes.
LEMMA ComingKept ==
    ASSUME NEW q \in Seq(Message), NEW m \in Message, NEW kind, NEW v, NEW c,
           m \notin kind, Coming(q, kind, v, c)
    PROVE  Coming(Append(q, m), kind, v, c)
<1>1. /\ DOMAIN q = 1..Len(q) /\ Len(q) \in Nat
      /\ DOMAIN Append(q, m) = 1..(Len(q) + 1)
      /\ Append(q, m)[Len(q) + 1] = m
      /\ \A i \in 1..Len(q) : Append(q, m)[i] = q[i]
  BY AppendProperties, LenProperties
<1>2. CASE v = "none"
  BY <1>2 DEF Coming
<1>3. CASE \E i \in DOMAIN q : q[i] = v /\ \A j \in DOMAIN q : j > i => q[j] \notin kind
  BY <1>1, <1>3 DEF Coming
<1>4. CASE c = v /\ \A i \in DOMAIN q : q[i] \notin kind
  BY <1>1, <1>4 DEF Coming
<1> QED
  BY <1>2, <1>3, <1>4 DEF Coming

\* Processing the first message changes nothing about what comes, if it stores
\* a message of the kind and else leaves what is stored.
LEMMA ComingProcessed ==
    ASSUME NEW q \in Seq(Message), q # <<>>, NEW kind, NEW v \in kind \cup {"none"}, NEW c, NEW d,
           Head(q) \in kind => d = Head(q),
           Head(q) \notin kind /\ c # "none" => d = c,
           Coming(q, kind, v, c)
    PROVE  Coming(Tail(q), kind, v, d)
<1>1. /\ Len(q) \in Nat /\ Len(q) >= 1 /\ DOMAIN q = 1..Len(q) /\ Head(q) = q[1]
      /\ DOMAIN Tail(q) = 1..(Len(q) - 1)
      /\ \A i \in 1..(Len(q) - 1) : Tail(q)[i] = q[i + 1]
  BY HeadTailProperties, LenProperties, EmptySeq
<1>2. CASE v = "none"
  BY <1>2 DEF Coming
<1>3. ASSUME NEW i \in DOMAIN q, q[i] = v, \A j \in DOMAIN q : j > i => q[j] \notin kind,
             v # "none"
      PROVE  Coming(Tail(q), kind, v, d)
  <2>1. CASE i = 1
    <3>1. \A j \in DOMAIN Tail(q) : Tail(q)[j] \notin kind
      BY <1>1, <1>3, <2>1
    <3> QED
      BY <1>1, <1>3, <2>1, <3>1 DEF Coming
  <2>2. CASE i > 1
    <3>1. i - 1 \in DOMAIN Tail(q) /\ Tail(q)[i - 1] = v
      BY <1>1, <1>3, <2>2
    <3>2. \A j \in DOMAIN Tail(q) : j > i - 1 => Tail(q)[j] \notin kind
      BY <1>1, <1>3, <2>2
    <3> QED
      BY <3>1, <3>2 DEF Coming
  <2> QED
    BY <1>1, <2>1, <2>2
<1>4. CASE c = v /\ v # "none" /\ \A i \in DOMAIN q : q[i] \notin kind
  BY <1>1, <1>4 DEF Coming
<1> QED
  BY <1>2, <1>3, <1>4 DEF Coming

-----------------------------------------------------------------------------
(* The parts of the invariant.                                             *)

\* TypeOK is the conjunction of its parts, in this state and in the next.
LEMMA TypeParts ==
    /\ TypeOK <=> /\ FlagsTyped /\ NamesTyped /\ OutboxTyped
                  /\ retained \in RetainedType /\ QueueTyped /\ RegistryTyped
    /\ TypeOK' <=> /\ FlagsTyped' /\ NamesTyped' /\ OutboxTyped'
                   /\ retained' \in RetainedType /\ QueueTyped' /\ RegistryTyped'
  BY DEF TypeOK, FlagsTyped, NamesTyped, OutboxTyped, RetainedType, QueueTyped,
     RegistryTyped

\* There are finitely many messages, so that an outbox has a size.
LEMMA OutboxFinite == ASSUME NEW o, o \subseteq Message PROVE IsFiniteSet(o)
<1>1. IsFiniteSet({"healthy", "degraded"}) /\ IsFiniteSet({"online", "offline"})
      /\ IsFiniteSet({"telemetry"})
  <2>1. /\ IsFiniteSet({"healthy"}) /\ IsFiniteSet({"online"})
        /\ IsFiniteSet({"telemetry"}) /\ IsFiniteSet({"degraded"})
        /\ IsFiniteSet({"offline"})
    BY FS_Singleton
  <2>2. IsFiniteSet({"healthy"} \cup {"degraded"}) /\ IsFiniteSet({"online"} \cup {"offline"})
    BY <2>1, FS_Union
  <2>3. {"healthy"} \cup {"degraded"} = {"healthy", "degraded"}
    OBVIOUS
  <2>4. {"online"} \cup {"offline"} = {"online", "offline"}
    OBVIOUS
  <2> QED
    BY <2>1, <2>2, <2>3, <2>4
<1>2. IsFiniteSet(Message)
  BY <1>1, FS_Union DEF Message, Health, Availability
<1> QED
  BY <1>2, FS_Subset

\* An outbox does not grow by an acknowledgement.
LEMMA Acknowledged ==
    ASSUME OutboxTyped, NEW m
    PROVE  outbox \ {m} \subseteq Message /\ Cardinality(outbox \ {m}) <= MaxOutbox
<1>1. IsFiniteSet(outbox)
  BY OutboxFinite DEF OutboxTyped
<1>2. IsFiniteSet(outbox \ {m}) /\ Cardinality(outbox \ {m}) <= Cardinality(outbox)
  BY <1>1, FS_Subset
<1>3. Cardinality(outbox) \in Nat /\ Cardinality(outbox \ {m}) \in Nat
  BY <1>1, <1>2, FS_CardinalityType
<1> QED
  BY <1>2, <1>3, PresenceAssumption DEF OutboxTyped

\* The empty outbox of a device that was restarted.
LEMMA EmptyOutbox == {} \subseteq Message /\ Cardinality({}) <= MaxOutbox
  BY FS_EmptySet, PresenceAssumption

\* The initial state satisfies the invariant.
LEMMA InitIInv == Init => IInv
<1> SUFFICES ASSUME Init PROVE IInv
  OBVIOUS
<1> USE DEF Init
<1>1. FlagsTyped /\ NamesTyped
  BY DEF FlagsTyped, NamesTyped
<1>2. OutboxTyped
  BY EmptyOutbox DEF OutboxTyped
<1>3. retained \in RetainedType
  BY DEF RetainedType
<1>4. QueueTyped
  BY EmptySeq, PresenceAssumption DEF QueueTyped
<1>5. RegistryTyped
  BY PresenceAssumption DEF RegistryTyped, Age
<1>6. LinkHasSession /\ OnlineIsConnected /\ RegistryFollows
  BY DEF LinkHasSession, OnlineIsConnected, RegistryFollows
<1> QED
  BY <1>1, <1>2, <1>3, <1>4, <1>5, <1>6, TypeParts DEF IInv

\* Whatever arrives at the broker, it is retained if it is of a kind that is,
\* and a collector that is subscribed is sent it or misses something.
LEMMA ArriveFacts ==
    ASSUME IInv, NEW m \in Message, Arrive(m), UNCHANGED <<collector, registry>>
    PROVE  /\ retained' \in RetainedType /\ QueueTyped' /\ RegistryFollows'
           /\ retained'.availability =
                IF m \in Availability THEN m ELSE retained.availability
           /\ lost' \in BOOLEAN
<1>1. /\ retained' = [availability |-> IF m \in Availability THEN m ELSE retained.availability,
                      health |-> IF m \in Health THEN m ELSE retained.health]
      /\ Forward(m)
  BY DEF Arrive, Retain
<1>2. retained \in RetainedType /\ QueueTyped /\ FlagsTyped
  BY TypeParts DEF IInv
<1>3. /\ retained' \in RetainedType
      /\ retained'.availability = IF m \in Availability THEN m ELSE retained.availability
      /\ retained'.health = IF m \in Health THEN m ELSE retained.health
  BY <1>1, <1>2 DEF RetainedType
<1>4. \/ collector = "subscribed" /\ Len(queue) < MaxQueue /\ queue' = Append(queue, m)
         /\ lost' = lost
      \/ collector = "subscribed" /\ lost' = TRUE /\ queue' = queue
      \/ collector # "subscribed" /\ queue' = queue /\ lost' = lost
  BY <1>1 DEF Forward
<1>5. QueueTyped'
  <2>1. CASE queue' = queue
    BY <1>2, <2>1 DEF QueueTyped
  <2>2. CASE Len(queue) < MaxQueue /\ queue' = Append(queue, m)
    <3>1. queue' \in Seq(Message) /\ Len(queue') = Len(queue) + 1 /\ Len(queue) \in Nat
      BY <1>2, <2>2, AppendProperties, LenProperties DEF QueueTyped
    <3> QED
      BY <2>2, <3>1, PresenceAssumption DEF QueueTyped
  <2> QED
    BY <1>4, <2>1, <2>2
<1>6. lost' \in BOOLEAN
  BY <1>2, <1>4 DEF FlagsTyped
<1>7. RegistryFollows'
  <2> SUFFICES ASSUME collector = "subscribed", ~lost'
               PROVE  /\ Coming(queue', Availability, retained'.availability, registry.reported)
                      /\ Coming(queue', Health, retained'.health, registry.health)
    BY DEF RegistryFollows
  <2>1. queue' = Append(queue, m) /\ ~lost
    BY <1>4
  <2>2. /\ Coming(queue, Availability, retained.availability, registry.reported)
        /\ Coming(queue, Health, retained.health, registry.health)
    BY <2>1 DEF IInv, RegistryFollows
  <2>3. queue \in Seq(Message)
    BY <1>2 DEF QueueTyped
  <2>4. Coming(queue', Availability, retained'.availability, registry.reported)
    <3>1. CASE m \in Availability
      BY <1>3, <2>1, <2>3, <3>1, ComingAppended
    <3>2. CASE m \notin Availability
      BY <1>3, <2>1, <2>2, <2>3, <3>2, ComingKept
    <3> QED
      BY <3>1, <3>2
  <2>5. Coming(queue', Health, retained'.health, registry.health)
    <3>1. CASE m \in Health
      BY <1>3, <2>1, <2>3, <3>1, ComingAppended
    <3>2. CASE m \notin Health
      BY <1>3, <2>1, <2>2, <2>3, <3>2, ComingKept
    <3> QED
      BY <3>1, <3>2
  <2> QED
    BY <2>4, <2>5
<1> QED
  BY <1>3, <1>5, <1>6, <1>7

\* The last will takes "online" back.
LEMMA LastWillFacts ==
    ASSUME IInv, LastWill, UNCHANGED <<collector, registry>>
    PROVE  /\ retained' \in RetainedType /\ QueueTyped' /\ RegistryFollows'
           /\ retained'.availability = "offline" /\ lost' \in BOOLEAN
<1>1. "offline" \in Message /\ "offline" \in Availability
  BY DEF Message, Availability
<1> QED
  BY <1>1, ArriveFacts DEF LastWill

\* A publication reaches the broker only over a connection that the broker has.
LEMMA PublishFacts ==
    ASSUME IInv, NEW m \in Message, Publish(m),
           UNCHANGED <<collector, registry, session, willLost>>
    PROVE  /\ retained' \in RetainedType /\ QueueTyped' /\ RegistryFollows' /\ OutboxTyped'
           /\ lost' \in BOOLEAN /\ OnlineIsConnected'
<1>1. OutboxTyped /\ FlagsTyped /\ retained \in RetainedType /\ QueueTyped
  BY TypeParts DEF IInv
<1>2. CASE link = "up" /\ Arrive(m)
           /\ outbox' \in {outbox} \cup {o \in {outbox \cup {m}} : Cardinality(o) <= MaxOutbox}
  <2>1. OutboxTyped'
    BY <1>1, <1>2 DEF OutboxTyped
  <2>2. OnlineIsConnected'
    BY <1>2 DEF IInv, LinkHasSession, OnlineIsConnected
  <2> QED
    BY <1>2, <2>1, <2>2, ArriveFacts
<1>3. CASE /\ Cardinality(outbox \cup {m}) <= MaxOutbox /\ outbox' = outbox \cup {m}
           /\ UNCHANGED <<retained, queue, lost>>
  <2>1. OutboxTyped'
    BY <1>1, <1>3 DEF OutboxTyped
  <2>2. OnlineIsConnected' /\ RegistryFollows'
    BY <1>3 DEF IInv, OnlineIsConnected, RegistryFollows
  <2>3. QueueTyped' /\ retained' \in RetainedType /\ lost' \in BOOLEAN
    BY <1>1, <1>3 DEF QueueTyped, FlagsTyped
  <2> QED
    BY <2>1, <2>2, <2>3
<1> QED
  BY <1>2, <1>3 DEF Publish

-----------------------------------------------------------------------------
(* One lemma per action.                                                   *)

\* The announcement of "online", accepted or refused.
LEMMA AnnounceIInv == IInv /\ Announce => IInv'
<1> SUFFICES ASSUME IInv, Announce PROVE IInv'
  OBVIOUS
<1> USE TypeParts DEF IInv, Announce, device, broker, server
<1>0. "online" \in Message
  BY DEF Message, Availability
<1>10. /\ retained' \in RetainedType /\ QueueTyped' /\ RegistryFollows' /\ OutboxTyped'
       /\ lost' \in BOOLEAN /\ OnlineIsConnected'
  <2>1. CASE Publish("online")
    BY <1>0, <2>1, PublishFacts
  <2>2. CASE UNCHANGED <<outbox, retained, queue, lost>>
    BY <2>2 DEF QueueTyped, RegistryFollows, OutboxTyped, OnlineIsConnected, FlagsTyped
  <2> QED
    BY <2>1, <2>2
<1>1. FlagsTyped'
  BY <1>10 DEF FlagsTyped
<1>2. NamesTyped'
  BY DEF NamesTyped
<1>3. OutboxTyped'
  BY <1>10
<1>4. retained' \in RetainedType
  BY <1>10
<1>5. QueueTyped'
  BY <1>10
<1>6. RegistryTyped'
  BY DEF RegistryTyped
<1>7. LinkHasSession'
  BY DEF LinkHasSession, NamesTyped
<1>8. OnlineIsConnected'
  BY <1>10
<1>9. RegistryFollows'
  BY <1>10
<1> QED
  BY <1>1, <1>2, <1>3, <1>4, <1>5, <1>6, <1>7, <1>8, <1>9

\* A health message.
LEMMA PublishHealthIInv == IInv /\ PublishHealth => IInv'
<1> SUFFICES ASSUME IInv, PublishHealth PROVE IInv'
  OBVIOUS
<1> USE TypeParts DEF IInv, PublishHealth, device, broker, server
<1>0. "online" \in Message /\ "telemetry" \in Message /\ condition \in Message
  BY DEF Message, Availability, Health, NamesTyped
<1>1. FlagsTyped'
  BY <1>0, PublishFacts DEF FlagsTyped
<1>2. NamesTyped'
  BY DEF NamesTyped
<1>3. OutboxTyped'
  BY <1>0, PublishFacts
<1>4. retained' \in RetainedType
  BY <1>0, PublishFacts
<1>5. QueueTyped'
  BY <1>0, PublishFacts
<1>6. RegistryTyped'
  BY DEF RegistryTyped
<1>7. LinkHasSession'
  BY DEF LinkHasSession, NamesTyped
<1>8. OnlineIsConnected'
  BY <1>0, PublishFacts
<1>9. RegistryFollows'
  BY <1>0, PublishFacts
<1> QED
  BY <1>1, <1>2, <1>3, <1>4, <1>5, <1>6, <1>7, <1>8, <1>9

\* A sample.
LEMMA PublishTelemetryIInv == IInv /\ PublishTelemetry => IInv'
<1> SUFFICES ASSUME IInv, PublishTelemetry PROVE IInv'
  OBVIOUS
<1> USE TypeParts DEF IInv, PublishTelemetry, device, broker, server
<1>0. "online" \in Message /\ "telemetry" \in Message /\ condition \in Message
  BY DEF Message, Availability, Health, NamesTyped
<1>1. FlagsTyped'
  BY <1>0, PublishFacts DEF FlagsTyped
<1>2. NamesTyped'
  BY DEF NamesTyped
<1>3. OutboxTyped'
  BY <1>0, PublishFacts
<1>4. retained' \in RetainedType
  BY <1>0, PublishFacts
<1>5. QueueTyped'
  BY <1>0, PublishFacts
<1>6. RegistryTyped'
  BY DEF RegistryTyped
<1>7. LinkHasSession'
  BY DEF LinkHasSession, NamesTyped
<1>8. OnlineIsConnected'
  BY <1>0, PublishFacts
<1>9. RegistryFollows'
  BY <1>0, PublishFacts
<1> QED
  BY <1>1, <1>2, <1>3, <1>4, <1>5, <1>6, <1>7, <1>8, <1>9

\* A new connection, which the broker has and which ends the one before.
LEMMA ConnectIInv == IInv /\ Connect => IInv'
<1> SUFFICES ASSUME IInv, Connect PROVE IInv'
  OBVIOUS
<1> USE TypeParts DEF IInv, Connect, device, broker, server
<1>10. /\ retained' \in RetainedType /\ QueueTyped' /\ RegistryFollows' /\ lost' \in BOOLEAN
  <2>1. CASE session
    BY <2>1, LastWillFacts
  <2>2. CASE ~session
    BY <2>2 DEF QueueTyped, RegistryFollows, FlagsTyped
  <2> QED
    BY <2>1, <2>2
<1>1. FlagsTyped'
  BY <1>10 DEF FlagsTyped
<1>2. NamesTyped'
  BY DEF NamesTyped
<1>3. OutboxTyped'
  BY DEF OutboxTyped
<1>4. retained' \in RetainedType
  BY <1>10
<1>5. QueueTyped'
  BY <1>10
<1>6. RegistryTyped'
  BY DEF RegistryTyped
<1>7. LinkHasSession'
  BY DEF LinkHasSession, NamesTyped
<1>8. OnlineIsConnected'
  BY DEF OnlineIsConnected
<1>9. RegistryFollows'
  BY <1>10
<1> QED
  BY <1>1, <1>2, <1>3, <1>4, <1>5, <1>6, <1>7, <1>8, <1>9

\* A message of the outbox is sent again.
LEMMA ResendIInv == IInv /\ Resend => IInv'
<1> SUFFICES ASSUME IInv, Resend PROVE IInv'
  OBVIOUS
<1> USE TypeParts DEF IInv, Resend, device, broker, server
<1>0. PICK m \in outbox : Arrive(m) /\ outbox' \in {outbox, outbox \ {m}}
  OBVIOUS
<1>10. m \in Message
  BY <1>0 DEF OutboxTyped
<1>11. /\ retained' \in RetainedType /\ QueueTyped' /\ RegistryFollows' /\ lost' \in BOOLEAN
  BY <1>0, <1>10, ArriveFacts
<1>1. FlagsTyped'
  BY <1>11 DEF FlagsTyped
<1>2. NamesTyped'
  BY DEF NamesTyped
<1>3. OutboxTyped'
  BY <1>0, Acknowledged DEF OutboxTyped
<1>4. retained' \in RetainedType
  BY <1>11
<1>5. QueueTyped'
  BY <1>11
<1>6. RegistryTyped'
  BY DEF RegistryTyped
<1>7. LinkHasSession'
  BY DEF LinkHasSession, NamesTyped
<1>8. OnlineIsConnected'
  BY DEF OnlineIsConnected, LinkHasSession
<1>9. RegistryFollows'
  BY <1>11
<1> QED
  BY <1>1, <1>2, <1>3, <1>4, <1>5, <1>6, <1>7, <1>8, <1>9

\* The device's condition changes.
LEMMA ConditionChangesIInv == IInv /\ ConditionChanges => IInv'
<1> SUFFICES ASSUME IInv, ConditionChanges PROVE IInv'
  OBVIOUS
<1> USE TypeParts DEF IInv, ConditionChanges, device, broker, server
<1>1. FlagsTyped'
  BY DEF FlagsTyped
<1>2. NamesTyped'
  BY DEF NamesTyped
<1>3. OutboxTyped'
  BY DEF OutboxTyped
<1>4. retained' \in RetainedType
  OBVIOUS
<1>5. QueueTyped'
  BY DEF QueueTyped
<1>6. RegistryTyped'
  BY DEF RegistryTyped
<1>7. LinkHasSession'
  BY DEF LinkHasSession, NamesTyped
<1>8. OnlineIsConnected'
  BY DEF OnlineIsConnected
<1>9. RegistryFollows'
  BY DEF RegistryFollows
<1> QED
  BY <1>1, <1>2, <1>3, <1>4, <1>5, <1>6, <1>7, <1>8, <1>9

\* The connection dies, unnoticed by either side.
LEMMA LinkDiesIInv == IInv /\ LinkDies => IInv'
<1> SUFFICES ASSUME IInv, LinkDies PROVE IInv'
  OBVIOUS
<1> USE TypeParts DEF IInv, LinkDies, device, broker, server
<1>1. FlagsTyped'
  BY DEF FlagsTyped
<1>2. NamesTyped'
  BY DEF NamesTyped
<1>3. OutboxTyped'
  BY DEF OutboxTyped
<1>4. retained' \in RetainedType
  OBVIOUS
<1>5. QueueTyped'
  BY DEF QueueTyped
<1>6. RegistryTyped'
  BY DEF RegistryTyped
<1>7. LinkHasSession'
  BY DEF LinkHasSession, NamesTyped
<1>8. OnlineIsConnected'
  BY DEF OnlineIsConnected
<1>9. RegistryFollows'
  BY DEF RegistryFollows
<1> QED
  BY <1>1, <1>2, <1>3, <1>4, <1>5, <1>6, <1>7, <1>8, <1>9

\* The device gives its connection up.
LEMMA DeviceDisconnectsIInv == IInv /\ DeviceDisconnects => IInv'
<1> SUFFICES ASSUME IInv, DeviceDisconnects PROVE IInv'
  OBVIOUS
<1> USE TypeParts DEF IInv, DeviceDisconnects, device, broker, server
<1>1. FlagsTyped'
  BY DEF FlagsTyped
<1>2. NamesTyped'
  BY DEF NamesTyped
<1>3. OutboxTyped'
  BY EmptyOutbox DEF OutboxTyped
<1>4. retained' \in RetainedType
  OBVIOUS
<1>5. QueueTyped'
  BY DEF QueueTyped
<1>6. RegistryTyped'
  BY DEF RegistryTyped
<1>7. LinkHasSession'
  BY DEF LinkHasSession, NamesTyped
<1>8. OnlineIsConnected'
  BY DEF OnlineIsConnected
<1>9. RegistryFollows'
  BY DEF RegistryFollows
<1> QED
  BY <1>1, <1>2, <1>3, <1>4, <1>5, <1>6, <1>7, <1>8, <1>9

\* The broker gives a connection up that does not work.
LEMMA SessionEndsIInv == IInv /\ SessionEnds => IInv'
<1> SUFFICES ASSUME IInv, SessionEnds PROVE IInv'
  OBVIOUS
<1> USE TypeParts DEF IInv, SessionEnds, device, broker, server
<1>1. FlagsTyped'
  BY LastWillFacts DEF FlagsTyped
<1>2. NamesTyped'
  BY DEF NamesTyped
<1>3. OutboxTyped'
  BY DEF OutboxTyped
<1>4. retained' \in RetainedType
  BY LastWillFacts
<1>5. QueueTyped'
  BY LastWillFacts
<1>6. RegistryTyped'
  BY DEF RegistryTyped
<1>7. LinkHasSession'
  BY DEF LinkHasSession, NamesTyped
<1>8. OnlineIsConnected'
  BY LastWillFacts DEF OnlineIsConnected
<1>9. RegistryFollows'
  BY LastWillFacts
<1> QED
  BY <1>1, <1>2, <1>3, <1>4, <1>5, <1>6, <1>7, <1>8, <1>9

\* The broker restarts, with what it retains.
LEMMA BrokerRestartsIInv == IInv /\ BrokerRestarts => IInv'
<1> SUFFICES ASSUME IInv, BrokerRestarts PROVE IInv'
  OBVIOUS
<1> USE TypeParts DEF IInv, BrokerRestarts, device, broker, server
<1>1. FlagsTyped'
  BY DEF FlagsTyped
<1>2. NamesTyped'
  BY DEF NamesTyped
<1>3. OutboxTyped'
  BY DEF OutboxTyped
<1>4. retained' \in RetainedType
  OBVIOUS
<1>5. QueueTyped'
  BY EmptySeq, PresenceAssumption DEF QueueTyped
<1>6. RegistryTyped'
  BY DEF RegistryTyped
<1>7. LinkHasSession'
  BY DEF LinkHasSession, NamesTyped
<1>8. OnlineIsConnected'
  BY DEF OnlineIsConnected
<1>9. RegistryFollows'
  BY DEF RegistryFollows
<1> QED
  BY <1>1, <1>2, <1>3, <1>4, <1>5, <1>6, <1>7, <1>8, <1>9

\* The collector connects.
LEMMA CollectorConnectsIInv == IInv /\ CollectorConnects => IInv'
<1> SUFFICES ASSUME IInv, CollectorConnects PROVE IInv'
  OBVIOUS
<1> USE TypeParts DEF IInv, CollectorConnects, device, broker, server
<1>1. FlagsTyped'
  BY DEF FlagsTyped
<1>2. NamesTyped'
  BY DEF NamesTyped
<1>3. OutboxTyped'
  BY DEF OutboxTyped
<1>4. retained' \in RetainedType
  OBVIOUS
<1>5. QueueTyped'
  BY DEF QueueTyped
<1>6. RegistryTyped'
  BY DEF RegistryTyped
<1>7. LinkHasSession'
  BY DEF LinkHasSession, NamesTyped
<1>8. OnlineIsConnected'
  BY DEF OnlineIsConnected
<1>9. RegistryFollows'
  BY DEF RegistryFollows
<1> QED
  BY <1>1, <1>2, <1>3, <1>4, <1>5, <1>6, <1>7, <1>8, <1>9

\* The collector's connection ends.
LEMMA CollectorDisconnectsIInv == IInv /\ CollectorDisconnects => IInv'
<1> SUFFICES ASSUME IInv, CollectorDisconnects PROVE IInv'
  OBVIOUS
<1> USE TypeParts DEF IInv, CollectorDisconnects, device, broker, server
<1>1. FlagsTyped'
  BY DEF FlagsTyped
<1>2. NamesTyped'
  BY DEF NamesTyped
<1>3. OutboxTyped'
  BY DEF OutboxTyped
<1>4. retained' \in RetainedType
  OBVIOUS
<1>5. QueueTyped'
  BY EmptySeq, PresenceAssumption DEF QueueTyped
<1>6. RegistryTyped'
  BY DEF RegistryTyped
<1>7. LinkHasSession'
  BY DEF LinkHasSession, NamesTyped
<1>8. OnlineIsConnected'
  BY DEF OnlineIsConnected
<1>9. RegistryFollows'
  BY DEF RegistryFollows
<1> QED
  BY <1>1, <1>2, <1>3, <1>4, <1>5, <1>6, <1>7, <1>8, <1>9

\* What Replay sends when both topics are retained: two sequences of one.
LEMMA PairOf ==
  ASSUME NEW x, NEW y
  PROVE  <<x>> \o <<y>> = <<x, y>>
<1>1. <<x>> \in Seq({x, y}) /\ <<y>> \in Seq({x, y}) /\ <<x, y>> \in Seq({x, y})
  OBVIOUS
<1>2. <<x>> \o <<y>> \in Seq({x, y}) /\ Len(<<x>> \o <<y>>) = 2
  BY <1>1
<1>3. (<<x>> \o <<y>>)[1] = x /\ (<<x>> \o <<y>>)[2] = y
  BY <1>1
<1> DEFINE s == <<x>> \o <<y>>
           t == <<x, y>>
<1>4. \A i \in 1..2 : s[i] = t[i]
  BY <1>3
<1>5. s \in Seq({x, y}) /\ t \in Seq({x, y}) /\ Len(s) = 2 /\ Len(t) = 2
  BY <1>1, <1>2
<1> HIDE DEF s, t
<1>6. s = t
  BY <1>4, <1>5, SeqEqual
<1> QED
  BY <1>6 DEF s, t

\* A subscription is answered with all that is retained.
LEMMA SubscribeIInv == IInv /\ Subscribe => IInv'
<1> SUFFICES ASSUME IInv, Subscribe PROVE IInv'
  OBVIOUS
<1> USE TypeParts DEF IInv, Subscribe, device, broker, server
<1>0. /\ retained \in RetainedType
      /\ "none" \notin Message /\ Health \subseteq Message /\ Availability \subseteq Message
      /\ Health \cap Availability = {}
  BY DEF Message, Health, Availability
<1> DEFINE h == retained.health
           a == retained.availability
<1>10. h \in Health \cup {"none"} /\ a \in Availability \cup {"none"}
  BY <1>0 DEF RetainedType
<1>11. queue' = (IF h = "none" THEN <<>> ELSE <<h>>) \o (IF a = "none" THEN <<>> ELSE <<a>>)
  BY DEF Replay
<1> HIDE DEF h, a
<1>12. /\ queue' \in Seq(Message) /\ Len(queue') <= 2
       /\ Coming(queue', Availability, a, registry.reported)
       /\ Coming(queue', Health, h, registry.health)
  <2>1. CASE h = "none" /\ a = "none"
    BY <1>11, <2>1 DEF Coming
  <2>2. CASE h # "none" /\ a = "none"
    <3>1. queue' = <<h>> /\ h \in Message
      BY <1>0, <1>10, <1>11, <2>2
    <3> QED
      BY <2>2, <3>1 DEF Coming
  <2>3. CASE h = "none" /\ a # "none"
    <3>1. queue' = <<a>> /\ a \in Message
      BY <1>0, <1>10, <1>11, <2>3
    <3> QED
      BY <2>3, <3>1 DEF Coming
  <2>4. CASE h # "none" /\ a # "none"
    <3>1. h \in Message /\ a \in Message
      BY <1>0, <1>10, <2>4
    <3>2. a \notin Health
      BY <1>0, <1>10, <2>4
    <3>3. queue' = <<h>> \o <<a>>
      BY <1>11, <2>4
    <3>4. queue' = <<h, a>>
      BY <3>3, PairOf
    <3> QED
      BY <2>4, <3>1, <3>2, <3>4 DEF Coming
  <2> QED
    BY <2>1, <2>2, <2>3, <2>4
<1>1. FlagsTyped'
  BY DEF FlagsTyped
<1>2. NamesTyped'
  BY DEF NamesTyped
<1>3. OutboxTyped'
  BY DEF OutboxTyped
<1>4. retained' \in RetainedType
  OBVIOUS
<1>5. QueueTyped'
  BY <1>12, PresenceAssumption, LenProperties DEF QueueTyped
<1>6. RegistryTyped'
  BY DEF RegistryTyped
<1>7. LinkHasSession'
  BY DEF LinkHasSession, NamesTyped
<1>8. OnlineIsConnected'
  BY DEF OnlineIsConnected
<1>9. RegistryFollows'
  BY <1>12 DEF RegistryFollows, h, a
<1> QED
  BY <1>1, <1>2, <1>3, <1>4, <1>5, <1>6, <1>7, <1>8, <1>9

\* The collector processes a message.
LEMMA ProcessIInv == IInv /\ Process => IInv'
<1> SUFFICES ASSUME IInv, Process PROVE IInv'
  OBVIOUS
<1> USE TypeParts DEF IInv, Process, device, broker, server
<1> DEFINE m == Head(queue)
<1>0. m \in Message /\ queue \in Seq(Message) /\ queue # <<>>
  BY HeadTailProperties DEF QueueTyped
<1>10. \/ m = "telemetry" /\ MarkSeen
       \/ m \in Health /\ UpsertHealth(m)
       \/ m \in Availability /\ SetAvailability(m)
  OBVIOUS
<1> HIDE DEF m
<1>11. 0 \in Age /\ Health \cap Availability = {} /\ "telemetry" \notin Health \cup Availability
       /\ "none" \notin Health \cup Availability
  BY PresenceAssumption DEF Age, Health, Availability
<1>12. /\ RegistryTyped'
       /\ m \in Availability => registry'.reported = m
       /\ m \notin Availability /\ registry.reported # "none"
             => registry'.reported = registry.reported
       /\ m \in Health => registry'.health = m
       /\ m \notin Health => registry'.health = registry.health
  <2>1. CASE m = "telemetry" /\ MarkSeen
    BY <1>11, <2>1 DEF MarkSeen, RegistryTyped, Availability
  <2>2. CASE m \in Health /\ UpsertHealth(m)
    BY <1>11, <2>2 DEF UpsertHealth, RegistryTyped, Availability
  <2>3. CASE m \in Availability /\ SetAvailability(m)
    BY <1>11, <2>3 DEF SetAvailability, RegistryTyped
  <2> QED
    BY <1>10, <2>1, <2>2, <2>3
<1>1. FlagsTyped'
  BY DEF FlagsTyped
<1>2. NamesTyped'
  BY DEF NamesTyped
<1>3. OutboxTyped'
  BY DEF OutboxTyped
<1>4. retained' \in RetainedType
  OBVIOUS
<1>5. QueueTyped'
  <2>1. queue' = Tail(queue) /\ Len(queue') = Len(queue) - 1 /\ queue' \in Seq(Message)
        /\ Len(queue) \in Nat
    BY <1>0, HeadTailProperties, LenProperties
  <2> QED
    BY <2>1, PresenceAssumption DEF QueueTyped
<1>6. RegistryTyped'
  BY <1>12
<1>7. LinkHasSession'
  BY DEF LinkHasSession, NamesTyped
<1>8. OnlineIsConnected'
  BY DEF OnlineIsConnected
<1>9. RegistryFollows'
  <2> SUFFICES ASSUME collector = "subscribed", ~lost
               PROVE  /\ Coming(queue', Availability, retained.availability, registry'.reported)
                      /\ Coming(queue', Health, retained.health, registry'.health)
    BY DEF RegistryFollows
  <2>1. /\ Coming(queue, Availability, retained.availability, registry.reported)
        /\ Coming(queue, Health, retained.health, registry.health)
    BY DEF RegistryFollows
  <2>2. /\ retained.availability \in Availability \cup {"none"}
        /\ retained.health \in Health \cup {"none"}
    BY DEF RetainedType
  <2>3. queue' = Tail(queue)
    OBVIOUS
  <2>4. Coming(Tail(queue), Availability, retained.availability, registry'.reported)
    BY <1>0, <1>12, <2>1, <2>2, ComingProcessed DEF m
  <2>5. Coming(Tail(queue), Health, retained.health, registry'.health)
    BY <1>0, <1>12, <2>1, <2>2, ComingProcessed DEF m
  <2> QED
    BY <2>3, <2>4, <2>5
<1> QED
  BY <1>1, <1>2, <1>3, <1>4, <1>5, <1>6, <1>7, <1>8, <1>9

\* A message that raises is gone.
LEMMA ProcessFailsIInv == IInv /\ ProcessFails => IInv'
<1> SUFFICES ASSUME IInv, ProcessFails PROVE IInv'
  OBVIOUS
<1> USE TypeParts DEF IInv, ProcessFails, device, broker, server
<1>0. queue \in Seq(Message) /\ queue # <<>>
  BY DEF QueueTyped
<1>1. FlagsTyped'
  BY DEF FlagsTyped
<1>2. NamesTyped'
  BY DEF NamesTyped
<1>3. OutboxTyped'
  BY DEF OutboxTyped
<1>4. retained' \in RetainedType
  OBVIOUS
<1>5. QueueTyped'
  <2>1. queue' = Tail(queue) /\ Len(queue') = Len(queue) - 1 /\ queue' \in Seq(Message)
        /\ Len(queue) \in Nat
    BY <1>0, HeadTailProperties, LenProperties
  <2> QED
    BY <2>1, PresenceAssumption DEF QueueTyped
<1>6. RegistryTyped'
  BY DEF RegistryTyped
<1>7. LinkHasSession'
  BY DEF LinkHasSession, NamesTyped
<1>8. OnlineIsConnected'
  BY DEF OnlineIsConnected
<1>9. RegistryFollows'
  BY DEF RegistryFollows
<1> QED
  BY <1>1, <1>2, <1>3, <1>4, <1>5, <1>6, <1>7, <1>8, <1>9

\* Time passes.
LEMMA TimePassesIInv == IInv /\ TimePasses => IInv'
<1> SUFFICES ASSUME IInv, TimePasses PROVE IInv'
  OBVIOUS
<1> USE TypeParts DEF IInv, TimePasses, device, broker, server
<1>1. FlagsTyped'
  BY DEF FlagsTyped
<1>2. NamesTyped'
  BY DEF NamesTyped
<1>3. OutboxTyped'
  BY DEF OutboxTyped
<1>4. retained' \in RetainedType
  OBVIOUS
<1>5. QueueTyped'
  BY DEF QueueTyped
<1>6. RegistryTyped'
  BY PresenceAssumption DEF RegistryTyped, Age
<1>7. LinkHasSession'
  BY DEF LinkHasSession, NamesTyped
<1>8. OnlineIsConnected'
  BY DEF OnlineIsConnected
<1>9. RegistryFollows'
  BY DEF RegistryFollows
<1> QED
  BY <1>1, <1>2, <1>3, <1>4, <1>5, <1>6, <1>7, <1>8, <1>9

\* Every step preserves the invariant.
LEMMA NextIInv == IInv /\ [Next]_vars => IInv'
<1> SUFFICES ASSUME IInv, [Next]_vars PROVE IInv'
  OBVIOUS
<1>1. CASE Next
  BY <1>1, ConnectIInv, AnnounceIInv, PublishHealthIInv, PublishTelemetryIInv,
     ResendIInv, ConditionChangesIInv, LinkDiesIInv, DeviceDisconnectsIInv,
     SessionEndsIInv, BrokerRestartsIInv, CollectorConnectsIInv,
     SubscribeIInv, CollectorDisconnectsIInv, ProcessIInv, ProcessFailsIInv,
     TimePassesIInv DEF Next
<1>2. CASE UNCHANGED vars
  BY <1>2 DEF vars, device, broker, server, IInv, TypeOK, LinkHasSession, OnlineIsConnected,
     RegistryFollows
<1> QED
  BY <1>1, <1>2

-----------------------------------------------------------------------------
\* A queue that is empty has nothing to come.
LEMMA NothingComing ==
    ASSUME NEW kind, NEW v, NEW c, Coming(<<>>, kind, v, c)
    PROVE  v \in {"none", c}
  BY DEF Coming

\* The invariant implies what the collector's users rely on.
LEMMA IInvRegistryAgrees == IInv => RegistryAgrees
  BY NothingComing DEF IInv, RegistryFollows, RegistryAgrees

\* The invariant holds in every reachable state.
THEOREM PresenceInvariant == Spec => []IInv
  BY InitIInv, NextIInv, PTL DEF Spec

\* Every variable keeps its type; neither the queue nor the outbox outgrows its
\* bound, and a device that never reported has no health.
THEOREM PresenceTypeCorrect == Spec => []TypeOK
  BY PresenceInvariant, PTL DEF IInv

\* A retained "online" is taken back whichever way the connection ends, unless
\* the broker goes down.
THEOREM OnlineAlwaysConnected == Spec => []OnlineIsConnected
  BY PresenceInvariant, PTL DEF IInv

\* A collector that has caught up holds what the broker retains.
THEOREM RegistryAlwaysAgrees == Spec => []RegistryAgrees
  BY PresenceInvariant, IInvRegistryAgrees, PTL

=============================================================================
