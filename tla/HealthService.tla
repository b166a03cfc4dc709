--------------------------- MODULE HealthService ---------------------------
(***************************************************************************)
(* How the device reports on itself: the component states of               *)
(* device_health.c, written by health_task (device_health_service.c) and   *)
(* by telemetry_task (telemetry.c), and published by health_task over the  *)
(* connection that mqtt_client_app.c keeps.                                *)
(*                                                                         *)
(* The two tasks and the MQTT event handler run concurrently.  A call of   *)
(* device_health_* holds its mutex, and the atomics of the MQTT client are *)
(* read one by one: each is one action, so that whatever a task has read   *)
(* may be out of date when it acts on it.                                  *)
(*                                                                         *)
(* Abstractions.  A component is in a condition, which stands for its      *)
(* status and error code; the overall status follows from the components   *)
(* and changes with them only; the faults a measurement can show are one.  *)
(* state_revision and connection_generation are counters that are only     *)
(* compared for equality: what is kept is which copies of them are still   *)
(* current. Local variables are reset when they go out of use. Counters,   *)
(* metrics and timestamps are data nothing depends on. Ticks are the flag  *)
(* `due': the heartbeat period has passed since last_heartbeat. The client *)
(* library takes a message or refuses it (external); what becomes of an    *)
(* accepted message is not modelled.                                       *)
(***************************************************************************)
EXTENDS Naturals

CONSTANTS
    MachineResult,  \* what machine_status_get finds
    Scenario        \* whether the clock is synchronized before the tasks start,
                    \* and what can fail

Component == {"sensor", "machine_status", "system_time", "mqtt"}

MachineConditions == {"healthy", "unsupported", "unavailable"}

Condition ==
    MachineConditions
        \cup {"not_initialized", "sensor_fault", "not_synchronized", "disconnected",
              "publish_failed"}

\* Who has a copy of state_revision: the snapshot at the start of the
\* iteration, last_attempted_revision, the snapshot to be published, and the
\* last one that was.
Holder == {"observed", "attempted", "payload", "report"}

FaultKind == {"sensor", "timestamp", "json", "publish", "link"}

ASSUME HealthAssumption ==
    /\ MachineResult \in MachineConditions
    /\ Scenario \subseteq [clock : BOOLEAN, faults : SUBSET FaultKind]

VARIABLES
    component,     \* device_health.c: the condition of each component,
    availability,  \* availability, and
    holders,       \* the copies of state_revision that are current
    connected,     \* mqtt_client_app.c: mqtt_connected, and the copies of
    counted,       \* connection_generation that are current: the one "read",
                   \* and the "last" one
    link,          \* the connection; "storing" and "counting" while the
                   \* handler of MQTT_EVENT_CONNECTED is at work
    health,        \* health_task and its local variables
    telemetry,     \* telemetry_task and the condition it is about to report
    due,           \* is a heartbeat due
    clock,         \* system_time_is_valid
    faults,        \* what may still fail
    \* History, read by no action:
    burst,         \* refused publications in a row that nothing new called for
    report,        \* the availability the last publication told, or "refused"
    announced      \* has "online" been published, or been refused, on this
                   \* connection

state == <<component, availability, holders>>
client == <<connected, counted, link>>
outside == <<clock, faults>>
history == <<burst, report, announced>>
vars == <<state, client, outside, history, health, telemetry, due>>

TypeOK ==
    /\ component \in [Component -> Condition]
    /\ availability \in {"online", "offline"}
    /\ holders \subseteq Holder
    /\ connected \in BOOLEAN
    /\ counted \subseteq {"read", "last"}
    /\ link \in {"down", "storing", "counting", "up"}
    /\ health \in [pc : {"clock", "time", "link", "mqtt", "observe", "generation",
                         "decide", "announce", "serialize", "publish", "failed",
                         "retry", "failedSnapshot", "succeeded", "recovered"},
                   seen : BOOLEAN, was : BOOLEAN, changed : BOOLEAN,
                   reconnected : BOOLEAN, retry : BOOLEAN, retrying : BOOLEAN]
    /\ health.retrying => health.pc \in {"announce", "serialize", "publish", "failed",
                                          "retry", "failedSnapshot", "succeeded",
                                          "recovered"}
    /\ telemetry \in [pc : {"wait", "unsynchronized", "sample", "rejected", "sensor",
                            "time", "machine", "publish", "mqtt"},
                      found : Condition]
    /\ due \in BOOLEAN
    /\ clock \in BOOLEAN
    /\ faults \subseteq FaultKind
    /\ burst \in Nat
    /\ report \in {"none", "refused", "online", "offline"}
    /\ announced \in BOOLEAN

\* device_health_init, and the start of both tasks: state_revision is 1 and
\* last_attempted_revision 0; both generations are 0.
Init ==
    /\ component = [c \in Component |-> "not_initialized"]
    /\ availability = "offline"
    /\ holders = {}
    /\ connected = FALSE
    /\ counted = {"last"}
    /\ link = "down"
    /\ health = [pc |-> "clock", seen |-> FALSE, was |-> FALSE, changed |-> FALSE,
                 reconnected |-> FALSE, retry |-> FALSE, retrying |-> FALSE]
    /\ telemetry = [pc |-> "wait", found |-> "not_initialized"]
    /\ due = TRUE
    /\ \E s \in Scenario : clock = s.clock /\ faults = s.faults
    /\ burst = 0
    /\ report = "none"
    /\ announced = FALSE

-----------------------------------------------------------------------------
\* The copies that are current once `to' is a copy of `from'.
Copied(copies, to, from) == IF from \in copies THEN copies \cup {to} ELSE copies \ {to}

\* device_health_update_component.
StillCurrent(c, condition) == IF component[c] = condition THEN holders ELSE {}
Update(c, condition) ==
    /\ component' = [component EXCEPT ![c] = condition]
    /\ holders' = StillCurrent(c, condition)

\* A change of state calls for a publication.
NewState == burst' = IF component' # component THEN 0 ELSE burst

Fails(kind) == kind \in faults

\* mqtt_publish: the connection is looked at, then the library takes the
\* message or not.
Refused == ~connected \/ Fails("publish")

-----------------------------------------------------------------------------
(* health_task.                                                            *)

HealthGoto(from, to) == health.pc = from /\ health' = [health EXCEPT !.pc = to]

\* update_runtime_components: the clock ...
HealthReadClock ==
    /\ health.pc = "clock"
    /\ health' = [health EXCEPT !.pc = "time", !.seen = clock]
    /\ UNCHANGED <<state, client, outside, history, telemetry, due>>

HealthSetTime ==
    /\ health.pc = "time"
    /\ health' = [health EXCEPT !.pc = "link", !.seen = FALSE]
    /\ Update("system_time", IF health.seen THEN "healthy" ELSE "not_synchronized")
    /\ NewState
    /\ UNCHANGED <<availability, client, outside, report, announced, telemetry, due>>

\* ... and the connection.
HealthReadLink ==
    /\ health.pc = "link"
    /\ health' = [health EXCEPT !.pc = "mqtt", !.seen = connected]
    /\ UNCHANGED <<state, client, outside, history, telemetry, due>>

\* Mutant: the component is healthy as long as the connection is up.
HealthSetMqttAlways ==
    /\ health.pc = "mqtt"
    /\ health' = [health EXCEPT !.pc = "observe", !.was = health.seen, !.seen = FALSE]
    /\ availability' = IF health.seen THEN "online" ELSE "offline"
    /\ Update("mqtt", IF health.seen THEN "healthy" ELSE "disconnected")
    /\ burst' = IF health.seen # health.was THEN 0 ELSE burst
    /\ UNCHANGED <<client, outside, report, announced, telemetry, due>>
\* Only a connection that was not up the last time makes the component
\* healthy: a publication that failed is not forgotten.
HealthSetMqtt ==
    /\ health.pc = "mqtt"
    /\ health' = [health EXCEPT !.pc = "observe", !.was = health.seen, !.seen = FALSE]
    /\ availability' = IF health.seen THEN "online" ELSE "offline"
    /\ IF health.seen /\ health.was THEN UNCHANGED <<component, holders>>
       ELSE Update("mqtt", IF health.seen THEN "healthy" ELSE "disconnected")
    /\ burst' = IF health.seen # health.was THEN 0 ELSE burst
    /\ UNCHANGED <<client, outside, report, announced, telemetry, due>>

\* device_health_get_snapshot, and state_changed.
HealthObserve ==
    /\ health.pc = "observe"
    /\ health' = [health EXCEPT !.pc = "generation", !.changed = "attempted" \notin holders]
    /\ holders' = holders \cup {"observed"}
    /\ UNCHANGED <<component, availability, client, outside, history, telemetry, due>>

\* mqtt_connection_generation, and reconnected.
HealthReadGeneration ==
    /\ health.pc = "generation"
    /\ health' = [health EXCEPT !.pc = "decide", !.reconnected = "last" \notin counted]
    /\ counted' = counted \cup {"read"}
    /\ UNCHANGED <<state, connected, link, outside, history, telemetry, due>>

\* Mutant: retry_attempt outlives the iteration.
HealthEndKeepsAttempt(retry) ==
    /\ health' = [health EXCEPT !.pc = "clock", !.changed = FALSE, !.reconnected = FALSE,
                                !.retry = retry]
    /\ counted' = Copied(counted, "last", "read") \ {"read"}
\* The end of an iteration: last_connection_generation.
HealthEnd(retry) ==
    /\ health' = [health EXCEPT !.pc = "clock", !.changed = FALSE, !.reconnected = FALSE,
                                !.retry = retry, !.retrying = FALSE]
    /\ counted' = Copied(counted, "last", "read") \ {"read"}

Skip ==
    /\ HealthEnd(health.retry)
    /\ holders' = holders \ {"observed"}
    /\ UNCHANGED burst

\* Mutant: only what is new is published.
HealthDecideNoHeartbeat ==
    /\ health.pc = "decide"
    /\ IF connected /\ (health.reconnected \/ health.changed \/ health.retry)
       THEN /\ health' = [health EXCEPT
                            !.pc = IF health.reconnected THEN "announce" ELSE "serialize",
                            !.retry = FALSE, !.retrying = health.retry]
            /\ burst' = IF health.reconnected THEN 0 ELSE burst
            /\ UNCHANGED <<holders, counted>>
       ELSE Skip
    /\ UNCHANGED <<component, availability, connected, link, outside, report, announced,
                   telemetry, due>>
HealthDecide ==
    /\ health.pc = "decide"
    /\ IF connected /\ (health.reconnected \/ due \/ health.changed \/ health.retry)
       THEN /\ health' = [health EXCEPT
                            !.pc = IF health.reconnected THEN "announce" ELSE "serialize",
                            !.retry = FALSE, !.retrying = health.retry]
            /\ burst' = IF health.reconnected \/ due THEN 0 ELSE burst
            /\ UNCHANGED <<holders, counted>>
       ELSE Skip
    /\ UNCHANGED <<component, availability, connected, link, outside, report, announced,
                   telemetry, due>>

\* publish_online_availability, accepted or refused: a failure is logged and
\* nothing else.
HealthAnnounce ==
    /\ HealthGoto("announce", "serialize")
    /\ announced' = TRUE
    /\ UNCHANGED <<state, client, outside, burst, report, telemetry, due>>

\* publish_health_snapshot takes a snapshot of its own ...
HealthSerialize ==
    /\ HealthGoto("serialize", "publish")
    /\ holders' = holders \cup {"payload"}
    /\ UNCHANGED <<component, availability, client, outside, history, telemetry, due>>

\* ... and publishes it.
HealthPublish ==
    /\ \/ /\ connected
          /\ HealthGoto("publish", "succeeded")
          /\ holders' = Copied(holders, "report", "payload") \ {"payload"}
          /\ report' = availability
          /\ burst' = 0
       \/ /\ Refused
          /\ HealthGoto("publish", "failed")
          /\ holders' = holders \ {"payload", "observed"}
          /\ report' = "refused"
          /\ burst' = burst + 1
    /\ UNCHANGED <<component, availability, client, outside, announced, telemetry, due>>

\* record_health_publish_failure.
HealthRecordFailure ==
    /\ HealthGoto("failed", "retry")
    /\ Update("mqtt", "publish_failed")
    /\ UNCHANGED <<availability, client, outside, history, telemetry, due>>

\* One retry, unless this was it.
HealthRetry ==
    /\ health.pc = "retry"
    /\ health' = [health EXCEPT !.pc = "failedSnapshot",
                                !.retry = ~health.retrying /\ connected]
    /\ UNCHANGED <<state, client, outside, history, telemetry, due>>

\* Mutant: the revision that was published is the one attempted, as after a
\* success.
HealthFailedSnapshotEarlier ==
    /\ health.pc = "failedSnapshot"
    /\ HealthEnd(health.retry)
    /\ holders' = holders \ {"attempted"}
    /\ due' = FALSE
    /\ UNCHANGED <<component, availability, connected, link, outside, history, telemetry>>
\* The revision that the failure itself made counts as attempted.
HealthFailedSnapshot ==
    /\ health.pc = "failedSnapshot"
    /\ HealthEnd(health.retry)
    /\ holders' = holders \cup {"attempted"}
    /\ due' = FALSE
    /\ UNCHANGED <<component, availability, connected, link, outside, history, telemetry>>

\* The revision seen before the publication is the one attempted.
HealthSucceeded(current) ==
    /\ HealthEnd(health.retry)
    /\ holders' = Copied(current, "attempted", "observed") \ {"observed"}
    /\ due' = FALSE

\* record_health_publish_success, which looks at the connection first ...
HealthCheckSuccess ==
    /\ health.pc = "succeeded"
    /\ IF connected
       THEN health' = [health EXCEPT !.pc = "recovered"] /\ UNCHANGED <<holders, counted, due>>
       ELSE HealthSucceeded(holders)
    /\ UNCHANGED <<component, availability, connected, link, outside, history, telemetry>>

\* Mutant: what was recorded meanwhile counts as published.
HealthRecordSuccessLatest ==
    /\ health.pc = "recovered"
    /\ component' = [component EXCEPT !["mqtt"] = "healthy"]
    /\ HealthEnd(health.retry)
    /\ holders' = (StillCurrent("mqtt", "healthy") \cup {"attempted"}) \ {"observed"}
    /\ due' = FALSE
    /\ UNCHANGED <<availability, connected, link, outside, history, telemetry>>
\* ... and makes the component healthy.
HealthRecordSuccess ==
    /\ health.pc = "recovered"
    /\ component' = [component EXCEPT !["mqtt"] = "healthy"]
    /\ HealthSucceeded(StillCurrent("mqtt", "healthy"))
    /\ UNCHANGED <<availability, connected, link, outside, history, telemetry>>

HealthTask ==
    \/ HealthReadClock \/ HealthSetTime \/ HealthReadLink \/ HealthSetMqtt
    \/ HealthObserve \/ HealthReadGeneration \/ HealthDecide
    \/ HealthAnnounce \/ HealthSerialize \/ HealthPublish
    \/ HealthRecordFailure \/ HealthRetry \/ HealthFailedSnapshot
    \/ HealthCheckSuccess \/ HealthRecordSuccess

-----------------------------------------------------------------------------
(* telemetry_task.                                                         *)

\* A cycle begins with a look at the clock.
TelemetryStart ==
    /\ telemetry.pc = "wait"
    /\ telemetry' = [telemetry EXCEPT !.pc = IF clock THEN "sample" ELSE "unsynchronized"]
    /\ UNCHANGED <<state, client, outside, history, health, due>>

\* telemetry_model_create: the sensor is read and its values checked, then a
\* timestamp is made.
TelemetrySample ==
    /\ telemetry.pc = "sample"
    /\ \/ telemetry' = [telemetry EXCEPT !.pc = "sensor"]
       \/ Fails("sensor") /\ telemetry' = [telemetry EXCEPT !.pc = "rejected"]
       \/ Fails("timestamp") /\ telemetry' = [telemetry EXCEPT !.pc = "unsynchronized"]
    /\ UNCHANGED <<state, client, outside, history, health, due>>

TelemetryUpdate(from, to, c, condition) ==
    /\ telemetry.pc = from
    /\ telemetry' = [pc |-> to, found |-> "not_initialized"]
    /\ Update(c, condition)
    /\ NewState
    /\ UNCHANGED <<availability, client, outside, report, announced, health, due>>

TelemetryUnsynchronized ==
    TelemetryUpdate("unsynchronized", "wait", "system_time", "not_synchronized")
TelemetryRejected == TelemetryUpdate("rejected", "wait", "sensor", "sensor_fault")
TelemetrySensor == TelemetryUpdate("sensor", "time", "sensor", "healthy")
TelemetryTime == TelemetryUpdate("time", "machine", "system_time", "healthy")
TelemetryMachine == TelemetryUpdate("machine", "publish", "machine_status", MachineResult)

\* telemetry_to_json, which may fail, and mqtt_publish_telemetry.
TelemetryPublish ==
    /\ telemetry.pc = "publish"
    /\ \/ Fails("json") /\ telemetry' = [telemetry EXCEPT !.pc = "wait"]
       \/ telemetry' = [pc |-> "mqtt",
                        found |-> IF connected THEN "healthy" ELSE "disconnected"]
       \/ /\ connected /\ Fails("publish")
          /\ telemetry' = [pc |-> "mqtt", found |-> "publish_failed"]
    /\ UNCHANGED <<state, client, outside, history, health, due>>

TelemetryMqtt == TelemetryUpdate("mqtt", "wait", "mqtt", telemetry.found)

TelemetryTask ==
    \/ TelemetryStart \/ TelemetrySample \/ TelemetryUnsynchronized \/ TelemetryRejected
    \/ TelemetrySensor \/ TelemetryTime \/ TelemetryMachine
    \/ TelemetryPublish \/ TelemetryMqtt

-----------------------------------------------------------------------------
(* The connection and mqtt_event_handler.                                  *)

others == <<state, health, telemetry, due, clock, report>>

\* The client library connects by itself.
Connect ==
    /\ link = "down" /\ ~connected
    /\ link' = "storing"
    /\ announced' = FALSE
    /\ burst' = 0
    /\ UNCHANGED <<connected, counted, faults, others>>

\* Mutant: the generation is counted before the connection is there to use.
ConnectedEventCountedFirst ==
    /\ \/ link = "storing" /\ link' = "counting"
          /\ counted' = {} /\ UNCHANGED connected
       \/ link = "counting" /\ link' = "up"
          /\ connected' = TRUE /\ UNCHANGED counted
    /\ UNCHANGED <<faults, burst, announced, others>>
\* MQTT_EVENT_CONNECTED.
ConnectedEvent ==
    /\ \/ link = "storing" /\ link' = "counting"
          /\ connected' = TRUE /\ UNCHANGED counted
       \/ link = "counting" /\ link' = "up"
          /\ counted' = {} /\ UNCHANGED connected
    /\ UNCHANGED <<faults, burst, announced, others>>

LinkBreaks ==
    /\ link = "up" /\ Fails("link")
    /\ link' = "down"
    /\ UNCHANGED <<connected, counted, faults, burst, announced, others>>

\* MQTT_EVENT_DISCONNECTED.
DisconnectedEvent ==
    /\ link = "down" /\ connected
    /\ connected' = FALSE
    /\ UNCHANGED <<counted, link, faults, burst, announced, others>>

-----------------------------------------------------------------------------
HeartbeatDue ==
    /\ ~due
    /\ due' = TRUE
    /\ UNCHANGED <<state, client, outside, history, health, telemetry>>

ClockSynchronized ==
    /\ ~clock
    /\ clock' = TRUE
    /\ UNCHANGED <<state, client, faults, history, health, telemetry, due>>

FaultsStop ==
    /\ faults # {}
    /\ faults' = {}
    /\ UNCHANGED <<client, burst, announced, others>>

Next ==
    \/ HealthTask \/ TelemetryTask
    \/ Connect \/ ConnectedEvent \/ LinkBreaks \/ DisconnectedEvent
    \/ HeartbeatDue \/ ClockSynchronized \/ FaultsStop

Spec == Init /\ [][Next]_vars

\* The scheduler runs every task, the client library reconnects by itself,
\* ticks go by, and faults do not go on for ever.
FairSpec ==
    /\ Spec
    /\ WF_vars(HealthTask) /\ WF_vars(TelemetryTask)
    /\ WF_vars(Connect) /\ WF_vars(ConnectedEvent) /\ WF_vars(DisconnectedEvent)
    /\ WF_vars(HeartbeatDue) /\ WF_vars(FaultsStop)

-----------------------------------------------------------------------------
\* When health_task has nothing to publish, the snapshot it published last is
\* the current state, unless that publication was refused: however the tasks
\* interleave, no change that telemetry_task records while health_task
\* publishes is taken for one already reported.
NoChangeMissed ==
    (health.pc = "clock" /\ "attempted" \in holders /\ report # "refused")
        => "report" \in holders

\* After a refused publication there is at most one more without a new reason
\* (a change of state, a new connection or a heartbeat): the failure that
\* health_task records, itself a change of state, never feeds a retry loop.
RetriesBounded == burst <= 2

\* Once faults stop, the last health published is that of the device, for
\* good, and says that the connection works: no stale observation of either
\* task lasts.
HealthConverges ==
    <>[](/\ "report" \in holders
         /\ report = "online"
         /\ component["mqtt"] = "healthy")

\* Once a connection lasts, health_task announces on it that the device is
\* online, whatever connections came and went between its polls.
OnlineAnnounced == <>[]announced

=============================================================================
