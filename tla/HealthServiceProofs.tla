------------------------- MODULE HealthServiceProofs -------------------------
(***************************************************************************)
(* The proofs about HealthService: its types, that no change of state is   *)
(* missed, and that refused publications do not feed a retry loop.  They   *)
(* hold for every scenario and every result of machine_status_get.         *)
(*                                                                         *)
(* No change is missed because state_revision only grows: whatever copy of *)
(* it is still current when a publication is decided, the copy in the      *)
(* payload, which is younger, is current as well (PayloadIsYoungest).      *)
(*                                                                         *)
(* Retries are bounded because a second refusal in a row is either the     *)
(* retry, after which none is left, or was caused by a change of the       *)
(* component mqtt that health_task made itself on finding the connection   *)
(* down (SecondRefusal).  In the second case the connection must come back *)
(* before a third publication, and a new connection is a new reason        *)
(* (StayedDown).                                                           *)
(***************************************************************************)
EXTENDS HealthService, TLAPS

-----------------------------------------------------------------------------
(* The inductive invariant.                                                *)

\* Before the snapshot that decides, and after it.
Observing == {"clock", "time", "link", "mqtt", "observe"}
Deciding == {"generation", "decide"}
Publishing == {"serialize", "publish"}
Failing == {"failed", "retry", "failedSnapshot"}
Succeeding == {"succeeded", "recovered"}

\* The payload's copy of state_revision is the youngest there is.
PayloadIsYoungest == health.pc = "publish" /\ holders # {} => "payload" \in holders

\* Unless the last publication was refused, what was attempted was reported.
AttemptedIsReported ==
    /\ report # "refused" /\ "attempted" \in holders => "report" \in holders
    /\ health.pc \in Succeeding /\ "observed" \in holders => "report" \in holders

\* Where health_task says how the last publication went.
Outcome ==
    /\ health.pc \in Failing => report = "refused"
    /\ health.pc \in Succeeding => report # "refused" /\ burst = 0

\* After a refusal health_task sees nothing new, as long as the connection was
\* up when it last looked.
NothingNew ==
    burst > 0 /\ health.was =>
        /\ health.pc \in Observing \cup Deciding => "attempted" \in holders
        /\ health.pc \in Deciding => ~health.changed

\* A publication that would be the second refused in a row is the retry, or
\* there was a change because the connection was down.
SecondRefusal ==
    /\ health.pc = "announce" => burst = 0
    /\ health.pc \in Publishing => burst <= 1 /\ (burst = 1 => health.retrying \/ ~health.was)
    /\ burst = 2 /\ health.pc \in {"failed", "retry"} => health.retrying \/ ~health.was
    /\ burst = 2 /\ health.pc \in Observing \cup Deciding \cup {"failedSnapshot"} =>
          ~health.retry \/ ~health.was

\* While the client library connects, the handler has not stored it yet, and
\* no two publications have been refused since.
Storing ==
    link = "storing" =>
        ~connected /\ burst <= 1 /\ (health.pc \in {"announce"} \cup Publishing => burst = 0)

\* A connection found down after two refusals is down until a new one.
StayedDown ==
    burst = 2 => /\ health.pc = "mqtt" /\ ~health.seen => ~connected
                 /\ health.pc \in {"observe"} \cup Deciding /\ ~health.was => ~connected

IInv ==
    /\ TypeOK
    /\ PayloadIsYoungest /\ AttemptedIsReported /\ Outcome
    /\ NothingNew /\ SecondRefusal /\ Storing /\ StayedDown
    /\ RetriesBounded

-----------------------------------------------------------------------------
(* The parts of the invariant.                                             *)

HealthRecord ==
    [pc : {"clock", "time", "link", "mqtt", "observe", "generation",
           "decide", "announce", "serialize", "publish", "failed",
           "retry", "failedSnapshot", "succeeded", "recovered"},
     seen : BOOLEAN, was : BOOLEAN, changed : BOOLEAN,
     reconnected : BOOLEAN, retry : BOOLEAN, retrying : BOOLEAN]

Retrying == {"announce"} \cup Publishing \cup Failing \cup Succeeding

\* TypeOK in the parts that the steps below treat one by one.
HealthTyped == health \in HealthRecord /\ (health.retrying => health.pc \in Retrying)

StateTyped ==
    /\ component \in [Component -> Condition]
    /\ availability \in {"online", "offline"}
    /\ holders \subseteq Holder

TelemetryTyped ==
    telemetry \in [pc : {"wait", "unsynchronized", "sample", "rejected", "sensor",
                         "time", "machine", "publish", "mqtt"},
                   found : Condition]

ClientTyped ==
    /\ connected \in BOOLEAN
    /\ counted \subseteq {"read", "last"}
    /\ link \in {"down", "storing", "counting", "up"}

RestTyped == due \in BOOLEAN /\ clock \in BOOLEAN /\ faults \subseteq FaultKind

HistoryTyped ==
    /\ burst \in Nat
    /\ report \in {"none", "refused", "online", "offline"}
    /\ announced \in BOOLEAN

Types == StateTyped /\ ClientTyped /\ TelemetryTyped /\ RestTyped /\ HistoryTyped

\* TypeOK is the conjunction of its parts, in this state and in the next.
LEMMA TypeParts ==
    /\ TypeOK <=> HealthTyped /\ Types
    /\ TypeOK' <=> HealthTyped' /\ Types'
<1>1. TypeOK <=> HealthTyped /\ Types
  BY DEF TypeOK, HealthTyped, Types, HealthRecord, StateTyped, ClientTyped,
     TelemetryTyped, RestTyped, HistoryTyped, Retrying, Publishing, Failing, Succeeding
<1>2. TypeOK' <=> HealthTyped' /\ Types'
  BY DEF TypeOK, HealthTyped, Types, HealthRecord, StateTyped, ClientTyped,
     TelemetryTyped, RestTyped, HistoryTyped, Retrying, Publishing, Failing, Succeeding
<1> QED
  BY <1>1, <1>2

\* The fields of health.
LEMMA HealthFields ==
    ASSUME NEW h \in HealthRecord
    PROVE  /\ h.seen \in BOOLEAN /\ h.was \in BOOLEAN /\ h.changed \in BOOLEAN
           /\ h.reconnected \in BOOLEAN /\ h.retry \in BOOLEAN /\ h.retrying \in BOOLEAN
           /\ h.pc \in {"clock", "time", "link", "mqtt", "observe", "generation",
                 "decide", "announce", "serialize", "publish", "failed",
                 "retry", "failedSnapshot", "succeeded", "recovered"}
  BY DEF HealthRecord

\* An update either finds the component so already or is new.
LEMMA UpdateKeeps ==
    ASSUME component \in [Component -> Condition], NEW c \in Component, NEW condition,
           Update(c, condition), NewState
    PROVE  \/ component' = component /\ holders' = holders /\ burst' = burst
           \/ holders' = {} /\ burst' = 0
<1>1. CASE component[c] = condition
  BY <1>1 DEF Update, StillCurrent, NewState
<1>2. CASE component[c] # condition
  <2>1. component' # component
    BY <1>2 DEF Update
  <2> QED
    BY <1>2, <2>1 DEF Update, StillCurrent, NewState
<1> QED
  BY <1>1, <1>2

\* The component mqtt.
LEMMA HealthSetMqttInv == IInv /\ HealthSetMqtt => IInv'
<1> SUFFICES ASSUME IInv, HealthSetMqtt PROVE IInv'
  OBVIOUS
<1>1. HealthTyped /\ Types
  BY TypeParts DEF IInv
<1>2. /\ health.pc = "mqtt" /\ health'.pc = "observe"
      /\ health'.was = health.seen /\ health'.seen = FALSE
      /\ health'.changed = health.changed /\ health'.reconnected = health.reconnected
      /\ health'.retry = health.retry /\ health'.retrying = health.retrying
      /\ health' \in HealthRecord
  BY <1>1 DEF HealthSetMqtt, HealthRecord, HealthTyped
<1>3. HealthTyped'
  BY <1>1, <1>2 DEF HealthTyped, Retrying, Publishing, Failing, Succeeding
<1>4. Types'
  <2>1. StateTyped'
    BY <1>1 DEF HealthSetMqtt, Types, StateTyped, Update, StillCurrent, Condition,
       MachineConditions
  <2>2. ClientTyped' /\ TelemetryTyped' /\ RestTyped'
    BY <1>1 DEF HealthSetMqtt, Types, ClientTyped, TelemetryTyped, RestTyped, client,
       outside
  <2>3. HistoryTyped'
    BY <1>1 DEF HealthSetMqtt, Types, HistoryTyped
  <2> QED
    BY <2>1, <2>2, <2>3 DEF Types
<1>5. PayloadIsYoungest' /\ AttemptedIsReported' /\ Outcome'
  BY <1>1, <1>2 DEF HealthSetMqtt, IInv, PayloadIsYoungest, AttemptedIsReported, Outcome,
     Update, StillCurrent, Failing, Succeeding
<1>6. NothingNew'
  <2> SUFFICES ASSUME burst' > 0, health'.was PROVE "attempted" \in holders'
    BY <1>2 DEF NothingNew, Deciding
  <2>1. health.seen /\ health.was /\ burst' = burst
    BY <1>1, <1>2, HealthFields DEF HealthSetMqtt, HealthTyped
  <2>2. holders' = holders
    BY <2>1 DEF HealthSetMqtt
  <2> QED
    BY <1>2, <2>1, <2>2 DEF IInv, NothingNew, Observing
<1>7. SecondRefusal' /\ RetriesBounded'
  BY <1>1, <1>2 DEF HealthSetMqtt, IInv, SecondRefusal, RetriesBounded, Observing,
     Publishing
<1>8. Storing'
  BY <1>1, <1>2 DEF HealthSetMqtt, IInv, Storing, client, Publishing
<1>9. StayedDown'
  BY <1>1, <1>2 DEF HealthSetMqtt, IInv, StayedDown, client
<1> QED
  BY <1>3, <1>4, <1>5, <1>6, <1>7, <1>8, <1>9, TypeParts DEF IInv

\* The clock is read.
LEMMA HealthReadClockInv == IInv /\ HealthReadClock => IInv'
<1> SUFFICES ASSUME IInv, HealthReadClock PROVE IInv'
  OBVIOUS
<1>1. HealthTyped /\ Types
  BY TypeParts DEF IInv
<1>2. /\ health.pc = "clock" /\ health'.pc = "time" /\ health' \in HealthRecord
      /\ health'.seen = clock /\ health'.was = health.was
      /\ health'.changed = health.changed /\ health'.reconnected = health.reconnected
      /\ health'.retry = health.retry /\ health'.retrying = health.retrying
  BY <1>1 DEF HealthReadClock, HealthRecord, HealthTyped, Types, RestTyped
<1>3. HealthTyped'
  BY <1>1, <1>2 DEF HealthTyped, Retrying, Publishing, Failing, Succeeding
<1>4. Types'
  <2>1. StateTyped'
    BY <1>1 DEF HealthReadClock, Types, StateTyped, state
  <2>2. ClientTyped' /\ TelemetryTyped' /\ RestTyped'
    BY <1>1 DEF HealthReadClock, Types, ClientTyped, TelemetryTyped, RestTyped, client,
       outside
  <2>3. HistoryTyped'
    BY <1>1 DEF HealthReadClock, Types, HistoryTyped, history
  <2> QED
    BY <2>1, <2>2, <2>3 DEF Types
<1>5. PayloadIsYoungest' /\ AttemptedIsReported' /\ Outcome'
  BY <1>1, <1>2 DEF HealthReadClock, IInv, PayloadIsYoungest, AttemptedIsReported,
     Outcome, Failing, Succeeding, state, history
<1>6. NothingNew'
  BY <1>1, <1>2 DEF HealthReadClock, IInv, NothingNew, Observing, Deciding, state, history
<1>7. SecondRefusal' /\ RetriesBounded'
  BY <1>1, <1>2 DEF HealthReadClock, IInv, SecondRefusal, RetriesBounded, Observing,
     Publishing, history
<1>8. Storing'
  BY <1>1, <1>2 DEF HealthReadClock, IInv, Storing, Publishing, client, history
<1>9. StayedDown'
  BY <1>1, <1>2 DEF StayedDown, Deciding
<1> QED
  BY <1>3, <1>4, <1>5, <1>6, <1>7, <1>8, <1>9, TypeParts DEF IInv

\* The component system_time.
LEMMA HealthSetTimeInv == IInv /\ HealthSetTime => IInv'
<1> SUFFICES ASSUME IInv, HealthSetTime PROVE IInv'
  OBVIOUS
<1>1. HealthTyped /\ Types
  BY TypeParts DEF IInv
<1>2. /\ health.pc = "time" /\ health'.pc = "link" /\ health' \in HealthRecord
      /\ health'.seen = FALSE /\ health'.was = health.was
      /\ health'.changed = health.changed /\ health'.reconnected = health.reconnected
      /\ health'.retry = health.retry /\ health'.retrying = health.retrying
  BY <1>1 DEF HealthSetTime, HealthRecord, HealthTyped
<1>3. HealthTyped'
  BY <1>1, <1>2 DEF HealthTyped, Retrying, Publishing, Failing, Succeeding
<1>4. Types'
  <2>1. StateTyped'
    BY <1>1 DEF HealthSetTime, Types, StateTyped, Condition, MachineConditions, Update,
       StillCurrent
  <2>2. ClientTyped' /\ TelemetryTyped' /\ RestTyped'
    BY <1>1 DEF HealthSetTime, Types, ClientTyped, TelemetryTyped, RestTyped, client,
       outside
  <2>3. HistoryTyped'
    BY <1>1 DEF HealthSetTime, Types, HistoryTyped, NewState
  <2> QED
    BY <2>1, <2>2, <2>3 DEF Types
<1>5. PayloadIsYoungest' /\ AttemptedIsReported' /\ Outcome'
  BY <1>1, <1>2 DEF HealthSetTime, IInv, PayloadIsYoungest, AttemptedIsReported, Outcome,
     Failing, Succeeding, Update, StillCurrent
<1>6. NothingNew'
  <2>1. \/ holders' = holders /\ burst' = burst
        \/ burst' = 0
    BY <1>1, UpdateKeeps DEF HealthSetTime, Types, StateTyped, Component
  <2> QED
    BY <1>1, <1>2, <2>1 DEF IInv, NothingNew, Observing, Deciding
<1>7. SecondRefusal' /\ RetriesBounded'
  BY <1>1, <1>2 DEF HealthSetTime, IInv, SecondRefusal, RetriesBounded, Observing,
     Publishing, NewState
<1>8. Storing'
  BY <1>1, <1>2 DEF HealthSetTime, IInv, Storing, Publishing, NewState, client
<1>9. StayedDown'
  BY <1>1, <1>2 DEF StayedDown, Deciding
<1> QED
  BY <1>3, <1>4, <1>5, <1>6, <1>7, <1>8, <1>9, TypeParts DEF IInv

\* The connection is read.
LEMMA HealthReadLinkInv == IInv /\ HealthReadLink => IInv'
<1> SUFFICES ASSUME IInv, HealthReadLink PROVE IInv'
  OBVIOUS
<1>1. HealthTyped /\ Types
  BY TypeParts DEF IInv
<1>2. /\ health.pc = "link" /\ health'.pc = "mqtt" /\ health' \in HealthRecord
      /\ health'.seen = connected /\ health'.was = health.was
      /\ health'.changed = health.changed /\ health'.reconnected = health.reconnected
      /\ health'.retry = health.retry /\ health'.retrying = health.retrying
  BY <1>1 DEF HealthReadLink, HealthRecord, HealthTyped, Types, ClientTyped
<1>3. HealthTyped'
  BY <1>1, <1>2 DEF HealthTyped, Retrying, Publishing, Failing, Succeeding
<1>4. Types'
  <2>1. StateTyped'
    BY <1>1 DEF HealthReadLink, Types, StateTyped, state
  <2>2. ClientTyped' /\ TelemetryTyped' /\ RestTyped'
    BY <1>1 DEF HealthReadLink, Types, ClientTyped, TelemetryTyped, RestTyped, client,
       outside
  <2>3. HistoryTyped'
    BY <1>1 DEF HealthReadLink, Types, HistoryTyped, history
  <2> QED
    BY <2>1, <2>2, <2>3 DEF Types
<1>5. PayloadIsYoungest' /\ AttemptedIsReported' /\ Outcome'
  BY <1>1, <1>2 DEF HealthReadLink, IInv, PayloadIsYoungest, AttemptedIsReported, Outcome,
     Failing, Succeeding, state, history
<1>6. NothingNew'
  BY <1>1, <1>2 DEF HealthReadLink, IInv, NothingNew, Observing, Deciding, state, history
<1>7. SecondRefusal' /\ RetriesBounded'
  BY <1>1, <1>2 DEF HealthReadLink, IInv, SecondRefusal, RetriesBounded, Observing,
     Publishing, history
<1>8. Storing'
  BY <1>1, <1>2 DEF HealthReadLink, IInv, Storing, Publishing, client, history
<1>9. StayedDown'
  BY <1>1, <1>2 DEF HealthReadLink, StayedDown, Deciding, client
<1> QED
  BY <1>3, <1>4, <1>5, <1>6, <1>7, <1>8, <1>9, TypeParts DEF IInv

\* The snapshot of the iteration.
LEMMA HealthObserveInv == IInv /\ HealthObserve => IInv'
<1> SUFFICES ASSUME IInv, HealthObserve PROVE IInv'
  OBVIOUS
<1>1. HealthTyped /\ Types
  BY TypeParts DEF IInv
<1>2. /\ health.pc = "observe" /\ health'.pc = "generation" /\ health' \in HealthRecord
      /\ health'.seen = health.seen /\ health'.was = health.was
      /\ health'.changed = ("attempted" \notin holders) /\ health'.reconnected = health.reconnected
      /\ health'.retry = health.retry /\ health'.retrying = health.retrying
  BY <1>1 DEF HealthObserve, HealthRecord, HealthTyped
<1>3. HealthTyped'
  BY <1>1, <1>2 DEF HealthTyped, Retrying, Publishing, Failing, Succeeding
<1>4. Types'
  <2>1. StateTyped'
    BY <1>1 DEF HealthObserve, Types, StateTyped, Holder
  <2>2. ClientTyped' /\ TelemetryTyped' /\ RestTyped'
    BY <1>1 DEF HealthObserve, Types, ClientTyped, TelemetryTyped, RestTyped, client,
       outside
  <2>3. HistoryTyped'
    BY <1>1 DEF HealthObserve, Types, HistoryTyped, history
  <2> QED
    BY <2>1, <2>2, <2>3 DEF Types
<1>5. PayloadIsYoungest' /\ AttemptedIsReported' /\ Outcome'
  BY <1>1, <1>2 DEF HealthObserve, IInv, PayloadIsYoungest, AttemptedIsReported, Outcome,
     Failing, Succeeding, history
<1>6. NothingNew'
  BY <1>1, <1>2 DEF HealthObserve, IInv, NothingNew, Observing, history
<1>7. SecondRefusal' /\ RetriesBounded'
  BY <1>1, <1>2 DEF HealthObserve, IInv, SecondRefusal, RetriesBounded, Observing,
     Publishing, history
<1>8. Storing'
  BY <1>1, <1>2 DEF HealthObserve, IInv, Storing, Publishing, client, history
<1>9. StayedDown'
  BY <1>1, <1>2 DEF HealthObserve, IInv, StayedDown, client, history
<1> QED
  BY <1>3, <1>4, <1>5, <1>6, <1>7, <1>8, <1>9, TypeParts DEF IInv

\* The generation of the connection.
LEMMA HealthReadGenerationInv == IInv /\ HealthReadGeneration => IInv'
<1> SUFFICES ASSUME IInv, HealthReadGeneration PROVE IInv'
  OBVIOUS
<1>1. HealthTyped /\ Types
  BY TypeParts DEF IInv
<1>2. /\ health.pc = "generation" /\ health'.pc = "decide" /\ health' \in HealthRecord
      /\ health'.seen = health.seen /\ health'.was = health.was
      /\ health'.changed = health.changed /\ health'.reconnected = ("last" \notin counted)
      /\ health'.retry = health.retry /\ health'.retrying = health.retrying
  BY <1>1 DEF HealthReadGeneration, HealthRecord, HealthTyped
<1>3. HealthTyped'
  BY <1>1, <1>2 DEF HealthTyped, Retrying, Publishing, Failing, Succeeding
<1>4. Types'
  <2>1. StateTyped'
    BY <1>1 DEF HealthReadGeneration, Types, StateTyped, state
  <2>2. ClientTyped' /\ TelemetryTyped' /\ RestTyped'
    BY <1>1 DEF HealthReadGeneration, Types, ClientTyped, TelemetryTyped, RestTyped,
       outside
  <2>3. HistoryTyped'
    BY <1>1 DEF HealthReadGeneration, Types, HistoryTyped, history
  <2> QED
    BY <2>1, <2>2, <2>3 DEF Types
<1>5. PayloadIsYoungest' /\ AttemptedIsReported' /\ Outcome'
  BY <1>1, <1>2 DEF HealthReadGeneration, IInv, PayloadIsYoungest, AttemptedIsReported,
     Outcome, Failing, Succeeding, state, history
<1>6. NothingNew'
  BY <1>1, <1>2 DEF HealthReadGeneration, IInv, NothingNew, Deciding, state, history
<1>7. SecondRefusal' /\ RetriesBounded'
  BY <1>1, <1>2 DEF HealthReadGeneration, IInv, SecondRefusal, RetriesBounded, Deciding,
     Publishing, history
<1>8. Storing'
  BY <1>1, <1>2 DEF HealthReadGeneration, IInv, Storing, Publishing, history
<1>9. StayedDown'
  BY <1>1, <1>2 DEF HealthReadGeneration, IInv, StayedDown, Deciding, history
<1> QED
  BY <1>3, <1>4, <1>5, <1>6, <1>7, <1>8, <1>9, TypeParts DEF IInv

\* The announcement.
LEMMA HealthAnnounceInv == IInv /\ HealthAnnounce => IInv'
<1> SUFFICES ASSUME IInv, HealthAnnounce PROVE IInv'
  OBVIOUS
<1>1. HealthTyped /\ Types
  BY TypeParts DEF IInv
<1>2. /\ health.pc = "announce" /\ health'.pc = "serialize" /\ health' \in HealthRecord
      /\ health'.seen = health.seen /\ health'.was = health.was
      /\ health'.changed = health.changed /\ health'.reconnected = health.reconnected
      /\ health'.retry = health.retry /\ health'.retrying = health.retrying
  BY <1>1 DEF HealthAnnounce, HealthRecord, HealthTyped, HealthGoto
<1>3. HealthTyped'
  BY <1>1, <1>2 DEF HealthTyped, Retrying, Publishing
<1>4. Types'
  <2>1. StateTyped'
    BY <1>1 DEF HealthAnnounce, Types, StateTyped, state
  <2>2. ClientTyped' /\ TelemetryTyped' /\ RestTyped'
    BY <1>1 DEF HealthAnnounce, Types, ClientTyped, TelemetryTyped, RestTyped, client,
       outside
  <2>3. HistoryTyped'
    BY <1>1 DEF HealthAnnounce, Types, HistoryTyped
  <2> QED
    BY <2>1, <2>2, <2>3 DEF Types
<1>5. PayloadIsYoungest' /\ AttemptedIsReported' /\ Outcome'
  BY <1>1, <1>2 DEF HealthAnnounce, IInv, PayloadIsYoungest, AttemptedIsReported, Outcome,
     Failing, Succeeding, state
<1>6. NothingNew'
  BY <1>1, <1>2 DEF NothingNew, Observing, Deciding
<1>7. SecondRefusal' /\ RetriesBounded'
  BY <1>1, <1>2 DEF HealthAnnounce, IInv, SecondRefusal, RetriesBounded
<1>8. Storing'
  BY <1>1, <1>2 DEF HealthAnnounce, IInv, Storing, client
<1>9. StayedDown'
  BY <1>1, <1>2 DEF StayedDown, Deciding
<1> QED
  BY <1>3, <1>4, <1>5, <1>6, <1>7, <1>8, <1>9, TypeParts DEF IInv

\* The snapshot to be published.
LEMMA HealthSerializeInv == IInv /\ HealthSerialize => IInv'
<1> SUFFICES ASSUME IInv, HealthSerialize PROVE IInv'
  OBVIOUS
<1>1. HealthTyped /\ Types
  BY TypeParts DEF IInv
<1>2. /\ health.pc = "serialize" /\ health'.pc = "publish" /\ health' \in HealthRecord
      /\ health'.seen = health.seen /\ health'.was = health.was
      /\ health'.changed = health.changed /\ health'.reconnected = health.reconnected
      /\ health'.retry = health.retry /\ health'.retrying = health.retrying
  BY <1>1 DEF HealthSerialize, HealthRecord, HealthTyped, HealthGoto
<1>3. HealthTyped'
  BY <1>1, <1>2 DEF HealthTyped, Retrying, Publishing
<1>4. Types'
  <2>1. StateTyped'
    BY <1>1 DEF HealthSerialize, Types, StateTyped, Holder
  <2>2. ClientTyped' /\ TelemetryTyped' /\ RestTyped'
    BY <1>1 DEF HealthSerialize, Types, ClientTyped, TelemetryTyped, RestTyped, client,
       outside
  <2>3. HistoryTyped'
    BY <1>1 DEF HealthSerialize, Types, HistoryTyped, history
  <2> QED
    BY <2>1, <2>2, <2>3 DEF Types
<1>5. PayloadIsYoungest' /\ AttemptedIsReported' /\ Outcome'
  BY <1>1, <1>2 DEF HealthSerialize, IInv, PayloadIsYoungest, AttemptedIsReported,
     Outcome, Failing, Succeeding, history
<1>6. NothingNew'
  BY <1>1, <1>2 DEF NothingNew, Observing, Deciding
<1>7. SecondRefusal' /\ RetriesBounded'
  BY <1>1, <1>2 DEF HealthSerialize, IInv, SecondRefusal, RetriesBounded, Publishing,
     history
<1>8. Storing'
  BY <1>1, <1>2 DEF HealthSerialize, IInv, Storing, Publishing, client, history
<1>9. StayedDown'
  BY <1>1, <1>2 DEF StayedDown, Deciding
<1> QED
  BY <1>3, <1>4, <1>5, <1>6, <1>7, <1>8, <1>9, TypeParts DEF IInv

\* A failure is recorded.
LEMMA HealthRecordFailureInv == IInv /\ HealthRecordFailure => IInv'
<1> SUFFICES ASSUME IInv, HealthRecordFailure PROVE IInv'
  OBVIOUS
<1>1. HealthTyped /\ Types
  BY TypeParts DEF IInv
<1>2. /\ health.pc = "failed" /\ health'.pc = "retry" /\ health' \in HealthRecord
      /\ health'.seen = health.seen /\ health'.was = health.was
      /\ health'.changed = health.changed /\ health'.reconnected = health.reconnected
      /\ health'.retry = health.retry /\ health'.retrying = health.retrying
  BY <1>1 DEF HealthRecordFailure, HealthRecord, HealthTyped, HealthGoto
<1>3. HealthTyped'
  BY <1>1, <1>2 DEF HealthTyped, Retrying, Failing
<1>4. Types'
  <2>1. StateTyped'
    BY <1>1 DEF HealthRecordFailure, Types, StateTyped, Condition, Update, StillCurrent
  <2>2. ClientTyped' /\ TelemetryTyped' /\ RestTyped'
    BY <1>1 DEF HealthRecordFailure, Types, ClientTyped, TelemetryTyped, RestTyped,
       client, outside
  <2>3. HistoryTyped'
    BY <1>1 DEF HealthRecordFailure, Types, HistoryTyped, history
  <2> QED
    BY <2>1, <2>2, <2>3 DEF Types
<1>5. PayloadIsYoungest' /\ AttemptedIsReported' /\ Outcome'
  BY <1>1, <1>2 DEF HealthRecordFailure, IInv, PayloadIsYoungest, AttemptedIsReported,
     Outcome, Failing, Succeeding, history
<1>6. NothingNew'
  BY <1>1, <1>2 DEF NothingNew, Observing, Deciding
<1>7. SecondRefusal' /\ RetriesBounded'
  BY <1>1, <1>2 DEF HealthRecordFailure, IInv, SecondRefusal, RetriesBounded, Observing,
     Deciding, Publishing, history
<1>8. Storing'
  BY <1>1, <1>2 DEF HealthRecordFailure, IInv, Storing, Publishing, client, history
<1>9. StayedDown'
  BY <1>1, <1>2 DEF StayedDown, Deciding
<1> QED
  BY <1>3, <1>4, <1>5, <1>6, <1>7, <1>8, <1>9, TypeParts DEF IInv

\* The retry.
LEMMA HealthRetryInv == IInv /\ HealthRetry => IInv'
<1> SUFFICES ASSUME IInv, HealthRetry PROVE IInv'
  OBVIOUS
<1>1. HealthTyped /\ Types
  BY TypeParts DEF IInv
<1>2. /\ health.pc = "retry" /\ health'.pc = "failedSnapshot" /\ health' \in HealthRecord
      /\ health'.seen = health.seen /\ health'.was = health.was
      /\ health'.changed = health.changed /\ health'.reconnected = health.reconnected
      /\ health'.retry = (~health.retrying /\ connected) /\ health'.retrying = health.retrying
  BY <1>1 DEF HealthRetry, HealthRecord, HealthTyped
<1>3. HealthTyped'
  BY <1>1, <1>2 DEF HealthTyped, Retrying, Failing
<1>4. Types'
  <2>1. StateTyped'
    BY <1>1 DEF HealthRetry, Types, StateTyped, state
  <2>2. ClientTyped' /\ TelemetryTyped' /\ RestTyped'
    BY <1>1 DEF HealthRetry, Types, ClientTyped, TelemetryTyped, RestTyped, client,
       outside
  <2>3. HistoryTyped'
    BY <1>1 DEF HealthRetry, Types, HistoryTyped, history
  <2> QED
    BY <2>1, <2>2, <2>3 DEF Types
<1>5. PayloadIsYoungest' /\ AttemptedIsReported' /\ Outcome'
  BY <1>1, <1>2 DEF HealthRetry, IInv, PayloadIsYoungest, AttemptedIsReported, Outcome,
     Failing, Succeeding, history
<1>6. NothingNew'
  BY <1>1, <1>2 DEF NothingNew, Observing, Deciding
<1>7. SecondRefusal' /\ RetriesBounded'
  BY <1>1, <1>2 DEF HealthRetry, IInv, SecondRefusal, RetriesBounded, Publishing, history
<1>8. Storing'
  BY <1>1, <1>2 DEF HealthRetry, IInv, Storing, Publishing, client, history
<1>9. StayedDown'
  BY <1>1, <1>2 DEF StayedDown, Deciding
<1> QED
  BY <1>3, <1>4, <1>5, <1>6, <1>7, <1>8, <1>9, TypeParts DEF IInv

\* The end after a failure.
LEMMA HealthFailedSnapshotInv == IInv /\ HealthFailedSnapshot => IInv'
<1> SUFFICES ASSUME IInv, HealthFailedSnapshot PROVE IInv'
  OBVIOUS
<1>1. HealthTyped /\ Types
  BY TypeParts DEF IInv
<1>2. /\ health.pc = "failedSnapshot" /\ health'.pc = "clock" /\ health' \in HealthRecord
      /\ health'.seen = health.seen /\ health'.was = health.was
      /\ health'.changed = FALSE /\ health'.reconnected = FALSE
      /\ health'.retry = health.retry /\ health'.retrying = FALSE
  BY <1>1 DEF HealthFailedSnapshot, HealthRecord, HealthTyped, HealthEnd
<1>3. HealthTyped'
  BY <1>1, <1>2 DEF HealthTyped
<1>4. Types'
  <2>1. StateTyped'
    BY <1>1 DEF HealthFailedSnapshot, Types, StateTyped, Holder
  <2>2. ClientTyped' /\ TelemetryTyped' /\ RestTyped'
    BY <1>1 DEF HealthFailedSnapshot, Types, ClientTyped, TelemetryTyped, RestTyped,
       HealthEnd, Copied, outside
  <2>3. HistoryTyped'
    BY <1>1 DEF HealthFailedSnapshot, Types, HistoryTyped, history
  <2> QED
    BY <2>1, <2>2, <2>3 DEF Types
<1>5. PayloadIsYoungest' /\ AttemptedIsReported' /\ Outcome'
  BY <1>1, <1>2 DEF HealthFailedSnapshot, IInv, PayloadIsYoungest, AttemptedIsReported,
     Outcome, Failing, Succeeding, history
<1>6. NothingNew'
  BY <1>1, <1>2 DEF HealthFailedSnapshot, NothingNew
<1>7. SecondRefusal' /\ RetriesBounded'
  BY <1>1, <1>2 DEF HealthFailedSnapshot, IInv, SecondRefusal, RetriesBounded, Publishing,
     history
<1>8. Storing'
  BY <1>1, <1>2 DEF HealthFailedSnapshot, IInv, Storing, Publishing, history
<1>9. StayedDown'
  BY <1>1, <1>2 DEF StayedDown, Deciding
<1> QED
  BY <1>3, <1>4, <1>5, <1>6, <1>7, <1>8, <1>9, TypeParts DEF IInv

\* The end after a success.
LEMMA HealthRecordSuccessInv == IInv /\ HealthRecordSuccess => IInv'
<1> SUFFICES ASSUME IInv, HealthRecordSuccess PROVE IInv'
  OBVIOUS
<1>1. HealthTyped /\ Types
  BY TypeParts DEF IInv
<1>2. /\ health.pc = "recovered" /\ health'.pc = "clock" /\ health' \in HealthRecord
      /\ health'.seen = health.seen /\ health'.was = health.was
      /\ health'.changed = FALSE /\ health'.reconnected = FALSE
      /\ health'.retry = health.retry /\ health'.retrying = FALSE
  BY <1>1 DEF HealthRecordSuccess, HealthRecord, HealthTyped, HealthEnd, HealthSucceeded
<1>3. HealthTyped'
  BY <1>1, <1>2 DEF HealthTyped
<1>4. Types'
  <2>1. StateTyped'
    BY <1>1 DEF HealthRecordSuccess, Types, StateTyped, Condition, MachineConditions,
       Holder, HealthSucceeded, Copied, StillCurrent
  <2>2. ClientTyped' /\ TelemetryTyped' /\ RestTyped'
    BY <1>1 DEF HealthRecordSuccess, Types, ClientTyped, TelemetryTyped, RestTyped,
       HealthEnd, HealthSucceeded, Copied, outside
  <2>3. HistoryTyped'
    BY <1>1 DEF HealthRecordSuccess, Types, HistoryTyped, history
  <2> QED
    BY <2>1, <2>2, <2>3 DEF Types
<1>5. PayloadIsYoungest' /\ AttemptedIsReported' /\ Outcome'
  BY <1>1, <1>2 DEF HealthRecordSuccess, IInv, PayloadIsYoungest, AttemptedIsReported,
     Outcome, Failing, Succeeding, HealthSucceeded, Copied, StillCurrent
<1>6. NothingNew'
  BY <1>1, <1>2 DEF HealthRecordSuccess, IInv, NothingNew, Succeeding, Outcome, history
<1>7. SecondRefusal' /\ RetriesBounded'
  BY <1>1, <1>2 DEF HealthRecordSuccess, IInv, SecondRefusal, RetriesBounded, Succeeding,
     Outcome, history
<1>8. Storing'
  BY <1>1, <1>2 DEF HealthRecordSuccess, IInv, Storing, Publishing, history
<1>9. StayedDown'
  BY <1>1, <1>2 DEF StayedDown, Deciding
<1> QED
  BY <1>3, <1>4, <1>5, <1>6, <1>7, <1>8, <1>9, TypeParts DEF IInv

\* The connection after a success.
LEMMA HealthCheckSuccessInv == IInv /\ HealthCheckSuccess => IInv'
<1> SUFFICES ASSUME IInv, HealthCheckSuccess PROVE IInv'
  OBVIOUS
<1>1. HealthTyped /\ Types
  BY TypeParts DEF IInv
<1>2. /\ health.pc = "succeeded" /\ health'.pc \in {"recovered", "clock"}
      /\ health' \in HealthRecord
      /\ health'.was = health.was /\ health'.retry = health.retry
      /\ health'.seen = health.seen
      /\ health'.pc = "clock" => health'.retrying = FALSE
  BY <1>1 DEF HealthCheckSuccess, HealthRecord, HealthTyped, HealthEnd, HealthSucceeded
<1>3. HealthTyped'
  BY <1>1, <1>2 DEF HealthTyped, Retrying, Succeeding
<1>4. Types'
  <2>1. StateTyped'
    BY <1>1 DEF HealthCheckSuccess, Types, StateTyped, Holder, HealthSucceeded, Copied
  <2>2. ClientTyped' /\ TelemetryTyped' /\ RestTyped'
    BY <1>1 DEF HealthCheckSuccess, Types, ClientTyped, TelemetryTyped, RestTyped,
       HealthEnd, HealthSucceeded, Copied, outside
  <2>3. HistoryTyped'
    BY <1>1 DEF HealthCheckSuccess, Types, HistoryTyped, history
  <2> QED
    BY <2>1, <2>2, <2>3 DEF Types
<1>5. PayloadIsYoungest' /\ AttemptedIsReported' /\ Outcome'
  BY <1>1, <1>2 DEF HealthCheckSuccess, IInv, PayloadIsYoungest, AttemptedIsReported,
     Outcome, Failing, Succeeding, HealthSucceeded, Copied, history
<1>6. NothingNew'
  BY <1>1, <1>2 DEF HealthCheckSuccess, IInv, NothingNew, Succeeding, Outcome, history
<1>7. SecondRefusal' /\ RetriesBounded'
  BY <1>1, <1>2 DEF HealthCheckSuccess, IInv, SecondRefusal, RetriesBounded, Succeeding,
     Outcome, history
<1>8. Storing'
  BY <1>1, <1>2 DEF HealthCheckSuccess, IInv, Storing, Publishing, history
<1>9. StayedDown'
  BY <1>1, <1>2 DEF StayedDown, Deciding
<1> QED
  BY <1>3, <1>4, <1>5, <1>6, <1>7, <1>8, <1>9, TypeParts DEF IInv

\* What is published, if anything.
LEMMA HealthDecideInv == IInv /\ HealthDecide => IInv'
<1> SUFFICES ASSUME IInv, HealthDecide PROVE IInv'
  OBVIOUS
<1>1. HealthTyped /\ Types
  BY TypeParts DEF IInv
<1>2. /\ health.pc = "decide" /\ health'.pc \in {"announce", "serialize", "clock"}
      /\ health' \in HealthRecord
      /\ health'.was = health.was /\ health'.seen = health.seen
      /\ health'.pc = "clock" => health'.retry = health.retry /\ health'.retrying = FALSE
      /\ health'.pc # "clock" => health'.retry = FALSE /\ health'.retrying = health.retry
  BY <1>1 DEF HealthDecide, HealthRecord, HealthTyped, HealthEnd, Skip
<1>3. \/ /\ connected
         /\ health'.pc = IF health.reconnected THEN "announce" ELSE "serialize"
         /\ burst' = IF health.reconnected \/ due THEN 0 ELSE burst
         /\ health.reconnected \/ due \/ health.changed \/ health.retry
      \/ health'.pc = "clock" /\ burst' = burst /\ health'.retry = health.retry
  <2>1. CASE connected /\ (health.reconnected \/ due \/ health.changed \/ health.retry)
    BY <1>1, <2>1 DEF HealthDecide, HealthTyped, HealthRecord
  <2>2. CASE ~(connected /\ (health.reconnected \/ due \/ health.changed \/ health.retry))
    BY <1>1, <2>2 DEF HealthDecide, HealthTyped, HealthRecord, Skip, HealthEnd
  <2> QED
    BY <2>1, <2>2
<1>4. HealthTyped'
  BY <1>1, <1>2 DEF HealthTyped, Retrying, Publishing
<1>5. Types'
  <2>1. StateTyped'
    BY <1>1 DEF HealthDecide, Types, StateTyped, Skip
  <2>2. ClientTyped' /\ TelemetryTyped' /\ RestTyped'
    BY <1>1 DEF HealthDecide, Types, ClientTyped, TelemetryTyped, RestTyped, HealthEnd,
       Copied, Skip, outside
  <2>3. HistoryTyped'
    BY <1>1 DEF HealthDecide, Types, HistoryTyped, Skip
  <2> QED
    BY <2>1, <2>2, <2>3 DEF Types
<1>6. PayloadIsYoungest' /\ AttemptedIsReported' /\ Outcome'
  BY <1>1, <1>2 DEF HealthDecide, IInv, PayloadIsYoungest, AttemptedIsReported, Outcome,
     Failing, Succeeding, Skip
<1>7. NothingNew'
  BY <1>1, <1>2 DEF HealthDecide, IInv, NothingNew, Deciding, Skip
<1>8. SecondRefusal' /\ RetriesBounded'
  <2>1. /\ health.was \in BOOLEAN /\ health.retry \in BOOLEAN /\ health.changed \in BOOLEAN
        /\ burst \in Nat /\ burst <= 2
    BY <1>1, HealthFields DEF HealthTyped, Types, HistoryTyped, IInv, RetriesBounded
  <2>2. CASE health'.pc = "clock"
    <3>1. burst' = burst /\ health'.retry = health.retry
      BY <1>3, <2>2
    <3> QED
      BY <1>2, <2>1, <2>2, <3>1 DEF IInv, SecondRefusal, RetriesBounded, Publishing,
         Deciding
  <2>3. CASE health'.pc # "clock"
    <3>1. /\ connected
          /\ health'.pc = "announce" => burst' = 0
          /\ burst' # 0 => burst' = burst /\ (health.changed \/ health.retry)
      BY <1>3, <2>3
    <3>2. burst = 2 => health.was /\ ~health.retry /\ ~health.changed
      BY <1>2, <2>1, <3>1 DEF IInv, StayedDown, SecondRefusal, NothingNew, Deciding
    <3>3. burst = 1 => health.retry \/ ~health.changed \/ ~health.was
      BY <1>2 DEF IInv, NothingNew, Deciding
    <3>4. \/ burst' = 0
          \/ burst' = 1 /\ (health.retry \/ ~health.was)
      <4>1. burst = 0 \/ burst = 1 \/ burst = 2
        BY <2>1
      <4>2. CASE burst' = 0
        BY <4>2
      <4>3. CASE burst' # 0 /\ burst = 0
        BY <3>1, <4>3
      <4>4. CASE burst' # 0 /\ burst = 1
        BY <3>1, <3>3, <4>4, Zenon
      <4>5. CASE burst' # 0 /\ burst = 2
        BY <3>1, <3>2, <4>5, Zenon
      <4> QED
        BY <4>1, <4>2, <4>3, <4>4, <4>5
    <3> QED
      BY <1>2, <2>3, <3>1, <3>4 DEF SecondRefusal, RetriesBounded
  <2> QED
    BY <2>2, <2>3
<1>9. Storing'
  <2> SUFFICES ASSUME link = "storing" PROVE Storing'
    BY DEF HealthDecide, Storing
  <2>1. ~connected /\ burst <= 1 /\ ~connected'
    BY DEF HealthDecide, IInv, Storing
  <2>2. health'.pc = "clock" /\ burst' = burst
    BY <1>3, <2>1
  <2> QED
    BY <2>1, <2>2 DEF Storing, Publishing
<1>10. StayedDown'
  BY <1>1, <1>2 DEF StayedDown, Deciding
<1> QED
  BY <1>4, <1>5, <1>6, <1>7, <1>8, <1>9, <1>10, TypeParts DEF IInv

\* The publication.
LEMMA HealthPublishInv == IInv /\ HealthPublish => IInv'
<1> SUFFICES ASSUME IInv, HealthPublish PROVE IInv'
  OBVIOUS
<1>1. HealthTyped /\ Types
  BY TypeParts DEF IInv
<1>2. /\ health.pc = "publish" /\ health'.pc \in {"succeeded", "failed"}
      /\ health' \in HealthRecord
      /\ health'.was = health.was /\ health'.seen = health.seen
      /\ health'.retry = health.retry /\ health'.retrying = health.retrying
  BY <1>1 DEF HealthPublish, HealthRecord, HealthTyped, HealthGoto
<1>3. HealthTyped'
  BY <1>1, <1>2 DEF HealthTyped, Retrying, Failing, Succeeding
<1>4. Types'
  <2>1. StateTyped'
    BY <1>1 DEF HealthPublish, Types, StateTyped, Holder, Copied
  <2>2. ClientTyped' /\ TelemetryTyped' /\ RestTyped'
    BY <1>1 DEF HealthPublish, Types, ClientTyped, TelemetryTyped, RestTyped, client,
       outside
  <2>3. HistoryTyped'
    BY <1>1 DEF HealthPublish, Types, StateTyped, HistoryTyped
  <2> QED
    BY <2>1, <2>2, <2>3 DEF Types
<1>5. PayloadIsYoungest' /\ AttemptedIsReported' /\ Outcome'
  <2>1. CASE health'.pc = "failed"
    <3>1. report' = "refused"
      BY <1>1, <1>2, <2>1, HealthFields DEF HealthPublish, HealthGoto, HealthRecord
    <3> QED
      BY <2>1, <3>1 DEF PayloadIsYoungest, AttemptedIsReported, Outcome, Succeeding
  <2>2. CASE health'.pc = "succeeded"
    <3>1. /\ holders' = Copied(holders, "report", "payload") \ {"payload"}
          /\ report' = availability /\ burst' = 0
      BY <1>1, <1>2, <2>2 DEF HealthPublish, HealthGoto, HealthRecord
    <3>2. holders' # {} => "report" \in holders'
      BY <1>2, <3>1 DEF IInv, PayloadIsYoungest, Copied
    <3>3. report' # "refused"
      BY <1>1, <3>1 DEF Types, StateTyped
    <3> QED
      BY <2>2, <3>1, <3>2, <3>3 DEF PayloadIsYoungest, AttemptedIsReported, Outcome,
         Failing
  <2> QED
    BY <1>2, <2>1, <2>2
<1>6. NothingNew'
  BY <1>1, <1>2 DEF NothingNew, Observing, Deciding
<1>7. SecondRefusal' /\ RetriesBounded'
  BY <1>1, <1>2 DEF HealthPublish, IInv, SecondRefusal, RetriesBounded, Observing,
     Deciding, Publishing, Types, HistoryTyped
<1>8. Storing'
  BY <1>1, <1>2 DEF HealthPublish, IInv, Storing, Publishing, client
<1>9. StayedDown'
  BY <1>1, <1>2 DEF StayedDown, Deciding
<1> QED
  BY <1>3, <1>4, <1>5, <1>6, <1>7, <1>8, <1>9, TypeParts DEF IInv

-----------------------------------------------------------------------------
(* telemetry_task, the connection, and the rest.                           *)

\* What IInv says of more than types is about these variables only.
LEMMA Frame ==
    ASSUME IInv, Types', UNCHANGED <<health, holders, burst, report, connected, link>>
    PROVE  IInv'
<1>1. HealthTyped'
  BY TypeParts DEF IInv, HealthTyped
<1> QED
  BY <1>1, TypeParts DEF IInv, PayloadIsYoungest, AttemptedIsReported, Outcome,
     NothingNew, SecondRefusal, Storing, StayedDown, RetriesBounded

\* An update by telemetry_task.
LEMMA TelemetryUpdateInv ==
    ASSUME IInv, NEW from, NEW to, NEW c \in Component, NEW condition \in Condition,
           to \in {"wait", "time", "machine", "publish"},
           TelemetryUpdate(from, to, c, condition)
    PROVE  IInv'
<1>1. HealthTyped /\ Types
  BY TypeParts DEF IInv
<1>2. \/ holders' = holders /\ burst' = burst
      \/ holders' = {} /\ burst' = 0
  BY <1>1, UpdateKeeps DEF TelemetryUpdate, Types, StateTyped
<1>3. health' = health /\ report' = report /\ connected' = connected /\ link' = link
  BY DEF TelemetryUpdate, client
<1>4. Types'
  <2>1. StateTyped'
    BY <1>1, <1>2 DEF TelemetryUpdate, Update, Types, StateTyped
  <2>2. ClientTyped' /\ RestTyped'
    BY <1>1 DEF TelemetryUpdate, Types, ClientTyped, RestTyped, client, outside
  <2>3. TelemetryTyped'
    BY DEF TelemetryUpdate, TelemetryTyped, Condition
  <2>4. HistoryTyped'
    BY <1>1, <1>2 DEF TelemetryUpdate, Types, HistoryTyped
  <2> QED
    BY <2>1, <2>2, <2>3, <2>4 DEF Types
<1>5. CASE holders' = holders /\ burst' = burst
  BY <1>3, <1>4, <1>5, Frame
<1>6. CASE holders' = {} /\ burst' = 0
  <2>1. HealthTyped'
    BY <1>1, <1>3 DEF HealthTyped
  <2>2. PayloadIsYoungest' /\ AttemptedIsReported' /\ Outcome' /\ NothingNew'
    BY <1>3, <1>6 DEF IInv, PayloadIsYoungest, AttemptedIsReported, Outcome, NothingNew
  <2>3. SecondRefusal' /\ Storing' /\ StayedDown' /\ RetriesBounded'
    BY <1>3, <1>6 DEF IInv, SecondRefusal, Storing, StayedDown, RetriesBounded
  <2> QED
    BY <1>4, <2>1, <2>2, <2>3, TypeParts DEF IInv
<1> QED
  BY <1>2, <1>5, <1>6

LEMMA TelemetryInv == IInv /\ TelemetryTask => IInv'
<1> SUFFICES ASSUME IInv, TelemetryTask PROVE IInv'
  OBVIOUS
<1>1. Types
  BY TypeParts DEF IInv
<1>2. CASE TelemetryStart \/ TelemetrySample \/ TelemetryPublish
  <2>1. TelemetryTyped'
    BY <1>1, <1>2 DEF TelemetryStart, TelemetrySample, TelemetryPublish, Types,
       TelemetryTyped, Condition, MachineConditions
  <2>2. UNCHANGED <<state, client, outside, history, health, due>>
    BY <1>2 DEF TelemetryStart, TelemetrySample, TelemetryPublish
  <2>3. Types'
    BY <1>1, <2>1, <2>2 DEF Types, StateTyped, ClientTyped, RestTyped, HistoryTyped,
       state, client, outside, history
  <2> QED
    BY <2>2, <2>3, Frame DEF state, client, history
<1>3. CASE TelemetryUnsynchronized \/ TelemetryRejected \/ TelemetrySensor \/ TelemetryTime
  BY <1>3, TelemetryUpdateInv DEF TelemetryUnsynchronized, TelemetryRejected,
     TelemetrySensor, TelemetryTime, Component, Condition, MachineConditions
<1>4. CASE TelemetryMachine
  <2>1. MachineResult \in Condition
    BY HealthAssumption DEF Condition
  <2> QED
    BY <1>4, <2>1, TelemetryUpdateInv DEF TelemetryMachine, Component
<1>5. CASE TelemetryMqtt
  <2>1. telemetry.found \in Condition
    BY <1>1 DEF Types, TelemetryTyped
  <2> QED
    BY <1>5, <2>1, TelemetryUpdateInv DEF TelemetryMqtt, Component
<1> QED
  BY <1>2, <1>3, <1>4, <1>5 DEF TelemetryTask

\* Steps of the connection change none of the types.
LEMMA LinkTypes ==
    ASSUME Types, Connect \/ ConnectedEvent \/ LinkBreaks \/ DisconnectedEvent
    PROVE  Types' /\ health' = health /\ holders' = holders /\ report' = report
<1>1. UNCHANGED <<others, faults>>
  BY DEF Connect, ConnectedEvent, LinkBreaks, DisconnectedEvent
<1>2. StateTyped' /\ TelemetryTyped' /\ RestTyped'
  BY <1>1 DEF Types, StateTyped, TelemetryTyped, RestTyped, others, state
<1>3. ClientTyped'
  BY DEF Types, ClientTyped, Connect, ConnectedEvent, LinkBreaks, DisconnectedEvent
<1>4. HistoryTyped'
  <2>1. report' = report /\ announced' \in BOOLEAN /\ (burst' = burst \/ burst' = 0)
    BY <1>1 DEF Types, HistoryTyped, Connect, ConnectedEvent, LinkBreaks,
       DisconnectedEvent, others
  <2> QED
    BY <2>1 DEF Types, HistoryTyped
<1> QED
  BY <1>1, <1>2, <1>3, <1>4 DEF Types, others, state

\* A new connection is a new reason to publish.
LEMMA ConnectInv == IInv /\ Connect => IInv'
<1> SUFFICES ASSUME IInv, Connect PROVE IInv'
  OBVIOUS
<1>1. HealthTyped /\ Types
  BY TypeParts DEF IInv
<1>2. Types' /\ health' = health /\ holders' = holders /\ report' = report
  BY <1>1, LinkTypes
<1>3. burst' = 0 /\ connected' = connected /\ ~connected
  BY DEF Connect
<1>4. HealthTyped'
  BY <1>1, <1>2 DEF HealthTyped
<1>5. PayloadIsYoungest' /\ AttemptedIsReported' /\ Outcome' /\ NothingNew'
  BY <1>2, <1>3 DEF IInv, PayloadIsYoungest, AttemptedIsReported, Outcome, NothingNew
<1>6. SecondRefusal' /\ Storing' /\ StayedDown' /\ RetriesBounded'
  BY <1>2, <1>3 DEF SecondRefusal, Storing, StayedDown, RetriesBounded
<1> QED
  BY <1>2, <1>4, <1>5, <1>6, TypeParts DEF IInv

\* The handler stores a connection only when fewer than two publications have
\* been refused on it.
LEMMA ConnectedEventInv == IInv /\ ConnectedEvent => IInv'
<1> SUFFICES ASSUME IInv, ConnectedEvent PROVE IInv'
  OBVIOUS
<1>1. HealthTyped /\ Types
  BY TypeParts DEF IInv
<1>2. Types' /\ health' = health /\ holders' = holders /\ report' = report
  BY <1>1, LinkTypes
<1>3. burst' = burst /\ link' # "storing" /\ (connected' = connected \/ link = "storing")
  BY DEF ConnectedEvent
<1>4. HealthTyped'
  BY <1>1, <1>2 DEF HealthTyped
<1>5. PayloadIsYoungest' /\ AttemptedIsReported' /\ Outcome' /\ NothingNew'
  BY <1>2, <1>3 DEF IInv, PayloadIsYoungest, AttemptedIsReported, Outcome, NothingNew
<1>6. SecondRefusal' /\ Storing' /\ RetriesBounded'
  BY <1>2, <1>3 DEF IInv, SecondRefusal, Storing, RetriesBounded
<1>7. StayedDown'
  <2>1. CASE connected' = connected
    BY <1>2, <1>3, <2>1 DEF IInv, StayedDown
  <2>2. CASE link = "storing"
    <3>1. burst # 2
      BY <2>2 DEF IInv, Storing
    <3> QED
      BY <1>3, <3>1 DEF StayedDown
  <2> QED
    BY <1>3, <2>1, <2>2
<1> QED
  BY <1>2, <1>4, <1>5, <1>6, <1>7, TypeParts DEF IInv

\* The connection breaks, and the handler learns of it.
LEMMA LinkDownInv == IInv /\ (LinkBreaks \/ DisconnectedEvent) => IInv'
<1> SUFFICES ASSUME IInv, LinkBreaks \/ DisconnectedEvent PROVE IInv'
  OBVIOUS
<1>1. HealthTyped /\ Types
  BY TypeParts DEF IInv
<1>2. Types' /\ health' = health /\ holders' = holders /\ report' = report
  BY <1>1, LinkTypes
<1>3. burst' = burst /\ link' = "down" /\ (connected' = connected \/ connected' = FALSE)
  BY DEF LinkBreaks, DisconnectedEvent
<1>4. HealthTyped'
  BY <1>1, <1>2 DEF HealthTyped
<1>5. PayloadIsYoungest' /\ AttemptedIsReported' /\ Outcome' /\ NothingNew'
  BY <1>2, <1>3 DEF IInv, PayloadIsYoungest, AttemptedIsReported, Outcome, NothingNew
<1>6. SecondRefusal' /\ Storing' /\ RetriesBounded'
  BY <1>2, <1>3 DEF IInv, SecondRefusal, Storing, RetriesBounded
<1>7. StayedDown'
  BY <1>2, <1>3 DEF IInv, StayedDown
<1> QED
  BY <1>2, <1>4, <1>5, <1>6, <1>7, TypeParts DEF IInv

\* Time passes, and faults stop.
LEMMA RestInv == IInv /\ (HeartbeatDue \/ ClockSynchronized \/ FaultsStop) => IInv'
<1> SUFFICES ASSUME IInv, HeartbeatDue \/ ClockSynchronized \/ FaultsStop PROVE IInv'
  OBVIOUS
<1>1. Types
  BY TypeParts DEF IInv
<1>2. UNCHANGED <<state, client, history, health, telemetry>>
  BY DEF HeartbeatDue, ClockSynchronized, FaultsStop, others, history
<1>3. RestTyped'
  BY <1>1 DEF HeartbeatDue, ClockSynchronized, FaultsStop, Types, RestTyped, outside,
     others
<1>4. Types'
  BY <1>1, <1>2, <1>3 DEF Types, StateTyped, ClientTyped, TelemetryTyped, HistoryTyped,
     state, client, history
<1> QED
  BY <1>2, <1>4, Frame DEF state, client, history

-----------------------------------------------------------------------------
(* The theorems.                                                           *)

LEMMA InitIInv == Init => IInv
<1> SUFFICES ASSUME Init PROVE IInv
  OBVIOUS
<1>1. clock \in BOOLEAN /\ faults \subseteq FaultKind
  BY HealthAssumption DEF Init
<1>2. HealthTyped
  BY DEF Init, HealthTyped, HealthRecord
<1>3. Types
  BY <1>1 DEF Init, Types, StateTyped, ClientTyped, TelemetryTyped, RestTyped,
     HistoryTyped, Condition
<1>4. /\ PayloadIsYoungest /\ AttemptedIsReported /\ Outcome /\ NothingNew
      /\ SecondRefusal /\ Storing /\ StayedDown /\ RetriesBounded
  BY DEF Init, PayloadIsYoungest, AttemptedIsReported, Outcome, NothingNew, SecondRefusal,
     Storing, StayedDown, RetriesBounded, Failing
<1> QED
  BY <1>2, <1>3, <1>4, TypeParts DEF IInv

LEMMA NextIInv == IInv /\ [Next]_vars => IInv'
<1> SUFFICES ASSUME IInv, [Next]_vars PROVE IInv'
  OBVIOUS
<1>1. CASE HealthTask
  BY <1>1, HealthReadClockInv, HealthSetTimeInv, HealthReadLinkInv, HealthSetMqttInv,
     HealthObserveInv, HealthReadGenerationInv, HealthDecideInv, HealthAnnounceInv,
     HealthSerializeInv, HealthPublishInv, HealthRecordFailureInv, HealthRetryInv,
     HealthFailedSnapshotInv, HealthCheckSuccessInv, HealthRecordSuccessInv DEF HealthTask
<1>2. CASE TelemetryTask
  BY <1>2, TelemetryInv
<1>3. CASE Connect \/ ConnectedEvent \/ LinkBreaks \/ DisconnectedEvent
  BY <1>3, ConnectInv, ConnectedEventInv, LinkDownInv
<1>4. CASE HeartbeatDue \/ ClockSynchronized \/ FaultsStop
  BY <1>4, RestInv
<1>5. CASE UNCHANGED vars
  <2>1. Types'
    BY <1>5, TypeParts DEF IInv, Types, StateTyped, ClientTyped, TelemetryTyped,
       RestTyped, HistoryTyped, vars, state, client, outside, history
  <2> QED
    BY <1>5, <2>1, Frame DEF vars, state, client, history
<1> QED
  BY <1>1, <1>2, <1>3, <1>4, <1>5 DEF Next

\* What the proofs rest on holds in every state: the youngest copy of
\* state_revision is the one published, and a second refusal has a cause.
THEOREM HealthInvariant == Spec => []IInv
<1> QED
  BY InitIInv, NextIInv, PTL DEF Spec

\* Every variable has its type, and `retrying' holds within an iteration only:
\* retry_attempt of health_task is local to it.
THEOREM HealthTypeCorrect == Spec => []TypeOK
<1>1. IInv => TypeOK
  BY DEF IInv
<1> QED
  BY <1>1, HealthInvariant, PTL

\* When health_task has nothing to publish and was not refused, what it
\* published last is the current state: no change that telemetry_task records
\* while health_task publishes is taken for one already reported.
THEOREM NoChangeEverMissed == Spec => []NoChangeMissed
<1>1. IInv => NoChangeMissed
  BY DEF IInv, AttemptedIsReported, NoChangeMissed
<1> QED
  BY <1>1, HealthInvariant, PTL

\* After a refused publication there is at most one more without a new reason,
\* although health_task records the failure as a change of state.
THEOREM RetriesAlwaysBounded == Spec => []RetriesBounded
<1>1. IInv => RetriesBounded
  BY DEF IInv
<1> QED
  BY <1>1, HealthInvariant, PTL

=============================================================================
