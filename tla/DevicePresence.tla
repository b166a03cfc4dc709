--------------------------- MODULE DevicePresence ---------------------------
(***************************************************************************)
(* What the server knows of a device, end to end: the messages of one      *)
(* device (mqtt_client_app.c, and health_task and telemetry_task seen from *)
(* there), the broker with its retained messages and the device's last     *)
(* will, the collector (subscriber.py), the registry                       *)
(* (device_repository.py) and the availability and the health that the API *)
(* answers with (device_service.py).                                       *)
(*                                                                         *)
(* Abstractions.  A health message is its overall status; the messages     *)
(* parse, validate and name the device of their topic.  Of last_seen only  *)
(* its age is kept, counted up to the first value that is too old, so time *)
(* needs no bound.  The legacy topic has a device of its own and is left   *)
(* out, and so are the alerts (AlertEngine).                               *)
(* The broker (external) keeps the order of the messages of a connection,  *)
(* publishes the will of a connection that it finds dead or that a new one *)
(* of the same client replaces, keeps retained messages over a restart     *)
(* (but then publishes no will), and has nothing for a collector that is   *)
(* away (a clean session).                                                 *)
(***************************************************************************)
EXTENDS Naturals, Sequences, FiniteSets

CONSTANTS
    Timeout,      \* DEVICE_OFFLINE_TIMEOUT_SECONDS
    MaxQueue,     \* bound: messages on their way to the collector
    MaxOutbox     \* bound: messages of the device that are not acknowledged

\* A collector that subscribes is sent two retained messages.
ASSUME PresenceAssumption ==
    Timeout \in Nat \ {0} /\ MaxQueue \in Nat /\ MaxQueue >= 2 /\ MaxOutbox \in Nat

Health == {"healthy", "degraded"}
Availability == {"online", "offline"}
Message == Health \cup Availability \cup {"telemetry"}
Age == 0..(Timeout + 1)

VARIABLES
    condition,    \* the device's health
    link,         \* its connection: "down", "up", or "dead": up for the device only
    announce,     \* has health_task yet to act on the connection's generation
    outbox,       \* published with QoS 1 and not acknowledged
    session,      \* has the broker a connection of the device
    retained,     \* the retained messages of the topics availability and health
    collector,    \* "down", "connected" or "subscribed"
    queue,        \* from the broker to the collector
    registry,     \* the rows of the device: devices and device_health_current
    \* History, read by no action:
    lost,         \* has a message been lost on its way since the subscription
    willLost      \* has the broker restarted since the device's last connection

device == <<condition, link, announce, outbox>>
broker == <<session, retained>>
server == <<collector, queue, registry>>
vars == <<device, broker, server, lost, willLost>>

TypeOK ==
    /\ condition \in Health
    /\ link \in {"down", "up", "dead"}
    /\ announce \in BOOLEAN
    /\ outbox \subseteq Message /\ Cardinality(outbox) <= MaxOutbox
    /\ session \in BOOLEAN
    /\ retained \in [availability : Availability \cup {"none"}, health : Health \cup {"none"}]
    /\ collector \in {"down", "connected", "subscribed"}
    /\ queue \in Seq(Message) /\ Len(queue) <= MaxQueue
    /\ registry \in [reported : Availability \cup {"none"}, age : Age,
                     health : Health \cup {"none"}]
    /\ registry.reported = "none" => registry.age = 0 /\ registry.health = "none"
    /\ lost \in BOOLEAN
    /\ willLost \in BOOLEAN

\* A new device, server and broker.
Init ==
    /\ condition \in Health
    /\ link = "down"
    /\ announce = FALSE
    /\ outbox = {}
    /\ session = FALSE
    /\ retained = [availability |-> "none", health |-> "none"]
    /\ collector = "down"
    /\ queue = <<>>
    /\ registry = [reported |-> "none", age |-> 0, health |-> "none"]
    /\ lost = FALSE
    /\ willLost = FALSE

-----------------------------------------------------------------------------
(* The broker: what it does with a message that reaches it.                *)

Retain(m) ==
    retained' = [availability |-> IF m \in Availability THEN m ELSE retained.availability,
                 health |-> IF m \in Health THEN m ELSE retained.health]

\* To a subscribed collector with QoS 0, so that it may be lost.
Forward(m) ==
    IF collector = "subscribed"
    THEN \/ /\ Len(queue) < MaxQueue
            /\ queue' = Append(queue, m)
            /\ UNCHANGED lost
         \/ lost' = TRUE /\ UNCHANGED queue
    ELSE UNCHANGED <<queue, lost>>

Arrive(m) == Retain(m) /\ Forward(m)

\* Mutant: session.last_will.retain is not set.
LastWillNotRetained == Forward("offline") /\ UNCHANGED retained
\* mqtt_init: offline_payload on the topic of the availability, retained.
LastWill == Arrive("offline")

-----------------------------------------------------------------------------
(* The device.                                                             *)

\* mqtt_publish for a client that is connected as far as it knows: the message
\* reaches the broker now, or stays in the outbox, or both when only its
\* acknowledgement is lost.
Publish(m) ==
    \/ /\ link = "up"
       /\ Arrive(m)
       /\ outbox' \in {outbox} \cup
            {o \in {outbox \cup {m}} : Cardinality(o) <= MaxOutbox}
    \/ /\ Cardinality(outbox \cup {m}) <= MaxOutbox
       /\ outbox' = outbox \cup {m}
       /\ UNCHANGED <<retained, queue, lost>>

\* The client connects, again and again, and MQTT_EVENT_CONNECTED makes a new
\* generation.
Connect ==
    /\ link = "down"
    /\ link' = "up"
    /\ announce' = TRUE
    /\ IF session THEN LastWill ELSE UNCHANGED <<retained, queue, lost>>
    /\ session' = TRUE
    /\ willLost' = FALSE
    /\ UNCHANGED <<condition, outbox, collector, registry>>

\* health_task finds the new generation: publish_online_availability, which may
\* be refused and is not repeated.
Announce ==
    /\ link # "down" /\ announce
    /\ announce' = FALSE
    /\ \/ Publish("online")
       \/ UNCHANGED <<outbox, retained, queue, lost>>
    /\ UNCHANGED <<condition, link, session, collector, registry, willLost>>

\* publish_health_snapshot: after an announcement, a change or a heartbeat.
PublishHealth ==
    /\ link # "down" /\ ~announce
    /\ Publish(condition)
    /\ UNCHANGED <<condition, link, announce, session, collector, registry, willLost>>

PublishTelemetry ==
    /\ link # "down"
    /\ Publish("telemetry")
    /\ UNCHANGED <<condition, link, announce, session, collector, registry, willLost>>

\* The client sends again what is not acknowledged, also on a new connection
\* and after newer messages.
Resend ==
    /\ link = "up"
    /\ \E m \in outbox : Arrive(m) /\ outbox' \in {outbox, outbox \ {m}}
    /\ UNCHANGED <<condition, link, announce, session, collector, registry, willLost>>

ConditionChanges ==
    /\ condition' \in Health \ {condition}
    /\ UNCHANGED <<link, announce, outbox, broker, server, lost, willLost>>

LinkDies ==
    /\ link = "up"
    /\ link' = "dead"
    /\ UNCHANGED <<condition, announce, outbox, broker, server, lost, willLost>>

\* MQTT_EVENT_DISCONNECTED, or a restart, which loses the outbox.
DeviceDisconnects ==
    /\ link # "down"
    /\ link' = "down"
    /\ announce' = FALSE
    /\ outbox' \in {outbox, {}}
    /\ UNCHANGED <<condition, broker, server, lost, willLost>>

-----------------------------------------------------------------------------
(* The broker on its own.                                                  *)

\* Keepalive, or a connection that is reset.
SessionEnds ==
    /\ session /\ link # "up"
    /\ session' = FALSE
    /\ LastWill
    /\ UNCHANGED <<device, collector, registry, willLost>>

BrokerRestarts ==
    /\ session' = FALSE
    /\ link' = IF link = "up" THEN "dead" ELSE link
    /\ collector' = "down"
    /\ queue' = <<>>
    /\ willLost' = TRUE
    /\ UNCHANGED <<condition, announce, outbox, retained, registry, lost>>

-----------------------------------------------------------------------------
(* The collector.                                                          *)

\* on_connect; a connection that is refused is one that was not made.
CollectorConnects ==
    /\ collector = "down"
    /\ collector' = "connected"
    /\ UNCHANGED <<device, broker, queue, registry, lost, willLost>>

\* What subscribe makes the broker send: the topics are subscribed to in the
\* order telemetry, health, availability.
Replay ==
    (IF retained.health = "none" THEN <<>> ELSE <<retained.health>>)
        \o (IF retained.availability = "none" THEN <<>> ELSE <<retained.availability>>)

\* on_subscribe.  A subscription that is rejected is logged and not repeated.
Subscribe ==
    /\ collector = "connected"
    /\ collector' = "subscribed"
    /\ queue' = Replay
    /\ lost' = FALSE
    /\ UNCHANGED <<device, broker, registry, willLost>>

\* The connection is lost, or the collector is killed or stopped.
CollectorDisconnects ==
    /\ collector # "down"
    /\ collector' = "down"
    /\ queue' = <<>>
    /\ UNCHANGED <<device, broker, registry, lost, willLost>>

\* mark_seen: a device that is not known is offline until it says otherwise.
MarkSeen ==
    registry' = [registry EXCEPT !.reported = IF @ = "none" THEN "offline" ELSE @, !.age = 0]

\* Mutant: the row of the device is only updated, not inserted.
UpsertHealthUpdateOnly(h) ==
    registry' = [registry EXCEPT !.age = 0, !.health = h]
\* Mutant: health makes the device online.
UpsertHealthOnline(h) ==
    registry' = [reported |-> "online", age |-> 0, health |-> h]
\* Mutant: ON CONFLICT(device_id) DO NOTHING.
UpsertHealthFirst(h) ==
    registry' = [reported |-> IF registry.reported = "none" THEN "online"
                              ELSE registry.reported,
                 age |-> 0, health |-> IF registry.health = "none" THEN h ELSE registry.health]
\* upsert_health: one that is not known is online.
UpsertHealth(h) ==
    registry' = [reported |-> IF registry.reported = "none" THEN "online"
                              ELSE registry.reported,
                 age |-> 0, health |-> h]

\* Mutant: only a device that is not known is given a state.
SetAvailabilityOnce(a) ==
    registry' = [registry EXCEPT !.reported = IF @ = "none" THEN a ELSE @, !.age = 0]
\* set_availability: an "offline" does not advance last_seen.
SetAvailability(a) ==
    registry' = [registry EXCEPT
                   !.reported = a,
                   !.age = IF registry.reported = "none" \/ a = "online" THEN 0 ELSE @]

\* process_message.
Process ==
    /\ queue # <<>>
    /\ LET m == Head(queue) IN
        \/ m = "telemetry" /\ MarkSeen
        \/ m \in Health /\ UpsertHealth(m)
        \/ m \in Availability /\ SetAvailability(m)
    /\ queue' = Tail(queue)
    /\ UNCHANGED <<device, broker, collector, lost, willLost>>

\* on_message catches what process_message raises (a database that stays
\* locked), and the message is gone.
ProcessFails ==
    /\ queue # <<>>
    /\ queue' = Tail(queue)
    /\ lost' = TRUE
    /\ UNCHANGED <<device, broker, collector, registry, willLost>>

-----------------------------------------------------------------------------
(* The API.                                                                *)

\* Mutant: last_seen is not looked at.
EffectiveAvailabilityReported == IF registry.reported = "online" THEN "online" ELSE "offline"
EffectiveAvailability ==
    IF registry.reported = "online" /\ registry.age <= Timeout THEN "online" ELSE "offline"

TimePasses ==
    /\ registry.reported # "none" /\ registry.age <= Timeout
    /\ registry' = [registry EXCEPT !.age = @ + 1]
    /\ UNCHANGED <<device, broker, collector, queue, lost, willLost>>

Next ==
    \/ Connect \/ Announce \/ PublishHealth \/ PublishTelemetry \/ Resend
    \/ ConditionChanges \/ LinkDies \/ DeviceDisconnects
    \/ SessionEnds \/ BrokerRestarts
    \/ CollectorConnects \/ Subscribe \/ CollectorDisconnects \/ Process \/ ProcessFails
    \/ TimePasses

Spec == Init /\ [][Next]_vars

\* The tasks of the device and the collector run, and a message that is not
\* acknowledged gets through some time: the acknowledgement of a message that
\* is sent again and again is not lost for ever.
FairSpec ==
    /\ Spec
    /\ WF_vars(Announce) /\ WF_vars(PublishHealth /\ link = "up")
    /\ SF_vars(Resend /\ outbox' = {})
    /\ WF_vars(Process) /\ WF_vars(TimePasses)

-----------------------------------------------------------------------------
\* A retained "online" stands for a connection of the device: it is taken back
\* whichever way the connection ends, also when the device is back before the
\* broker has noticed, unless the broker itself goes down.
OnlineIsConnected == retained.availability = "online" => session \/ willLost

\* A collector that has caught up holds what the broker retains, in whatever
\* order retained, repeated and new messages reach it: "offline" is not
\* undone by health or telemetry, nor "online" by an older message.
RegistryAgrees ==
    collector = "subscribed" /\ queue = <<>> /\ ~lost =>
        /\ retained.availability \in {"none", registry.reported}
        /\ retained.health \in {"none", registry.health}

CollectorStable ==
    \E s \in {"down", "connected", "subscribed"} : <>[](collector = s)

\* A device that is gone for good is shown as offline for good, whether its
\* will is lost, the broker restarts or the collector is down, as long as the
\* collector does not go on subscribing: each time the retained health makes
\* the device one that has just been seen.
GoneIsOffline ==
    <>[](link # "up") /\ CollectorStable => <>[](EffectiveAvailability = "offline")

Reachable == link = "up" /\ collector = "subscribed" /\ ~lost

\* A device whose announcement is retained and whose messages get through is
\* shown as online time and again.
PresentIsOnline ==
    <>[](Reachable /\ retained.availability = "online")
        => []<>(EffectiveAvailability = "online")

\* The API comes to show the device's present health and no other, although an
\* older message may be sent again after a newer one.
HealthShown ==
    \A h \in Health :
        <>[](Reachable /\ condition = h) => <>[](registry.health = h)

\* What the API shows follows the device: GoneIsOffline, PresentIsOnline and
\* HealthShown, with lost, repeated and replayed messages and restarts of
\* device, broker and collector on the way.
ShownFollowsDevice == GoneIsOffline /\ PresentIsOnline /\ HealthShown

=============================================================================
