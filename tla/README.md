# Industrial Edge Monitor: TLA+ verification

TLA+ modules, TLC configurations and TLAPS proofs for the Industrial Edge
Monitor: an ESP32 firmware that measures and publishes, a Python backend that
stores samples and raises alerts, and a React dashboard. Paths below are
relative to the repository (`src/` in `PROJECT.json`).

Contents: [inventory](#1-inventory), [modules](#2-modules-and-the-code),
[runs](#3-runs), [proofs](#4-proofs), [findings](#5-findings),
[plan](#6-plan), [what is not modelled](#7-what-is-not-modelled).

## 1. Inventory

### Firmware (`firmware/`, C on ESP-IDF and FreeRTOS)

| Part | State | Operations | Correct when |
|---|---|---|---|
| `device_config` | four NVS keys (active, candidate, metadata, setup secret), the revision under validation | stage, cancel, load for boot, activate, roll back, factory reset, recover | only verified configurations become active; a candidate is tried a bounded number of times; no power loss mixes old and new |
| `app_main` | boot phase, runtime configuration, using_candidate | boot, verify by station, SNTP and MQTT, activate or restart | every pending candidate is decided; no reboot loop |
| `provisioning_service` | server handle, session, failed logins and lockout, stream lifecycle, stop flag | login, logout, configuration handlers, log stream, stop | the server outlives its asynchronous requests; the stream slot is not leaked; a stop ends; the lockout holds at its limit |
| `provisioning_state` | maintenance window: opened, last authenticated request | open, note a request, tick | closes on inactivity and on the absolute deadline, and not before |
| `serial_recovery` | one task | erase, restart | the device restarts unprovisioned |
| `diagnostic_log` | RAM ring of 64 records | push, batch | a reader is given or told of every record |
| `device_health`, `device_health_service` | component states, their revision, heartbeat and retry | update, snapshot, publish, announce | no change is missed, no retry loop starts, every connection is announced |
| `wifi`, `mqtt_client_app`, `system_time` | event bits, retry counters | event handlers, bounded waits | a wait ends; a retry is bounded |
| `sensor`, `bme280`, `telemetry_model` | initialized (sensor), device handle, ready flag and coefficients (driver), the chip's registers | initialise step by step, measure, clean up, invalidate | the layers agree after any failure; no sample from a chip that is not calibrated and configured; samples resume without a reboot |
| `machine_status`, `telemetry` | the cycle in hand | sample, publish | an unavailable sensor never becomes a value |

### Backend (`backend/`, Python on SQLite)

| Part | State | Operations | Correct when |
|---|---|---|---|
| alert engine and rules | `alert_rules`, `alert_rule_states`, `alert_events` | evaluate; create, change and archive a rule | tables agree; the incremental state is what the samples say; history is final |
| collector | connection and subscriptions, the message in hand | connect, subscribe; save and evaluate; health; availability | a failure leaves the tables consistent; retained, late and repeated messages do no harm |
| device registry | `devices`, `device_health_current` | upsert, availability, the availability the API shows | what is shown follows the device |
| HTTP API | none | thin wrappers over the services | |
| migration | schema | `init_db` | |

### Other

The dashboard (`frontend/`) polls the API; `scripts/manage_mqtt_device.py`
updates the broker's credential files in a transaction of renames; the
simulator publishes test samples.

### How the parts interact

`app_main`, the HTTP server task, the stream workers, `maintenance_task`, the
serial recovery task and the event handlers run concurrently and share the NVS
(under `configuration_mutex`), the session (`service_state_lock`), the stream
lifecycle (`stream_mutex`) and the ring (a critical section). Device and
backend meet in MQTT messages (published with QoS 1 by default and subscribed
with QoS 0; health and availability are retained). The collector is a process
of its own and meets the API's threads only in SQLite, where `sqlite3` opens a
transaction at the first write and not at the SELECT before it.

### What is hard

Flash commits that fail or are cut off by a power loss between two keys;
requests that arrive while a candidate is being verified; two tasks that stop
one server while a third hands a request to a fourth; rows read outside the
transaction that uses them; samples late, repeated or with equal timestamps;
records overwritten under a reader; a chip that loses its power between two bus
transactions; a will, a retained message and a repeated one that meet on one
topic; a clock read before the lock under which its value is used. `PROJECT.json` lists each hazard at its
line, with the properties that cover it or the reason none does yet.

## 2. Modules and the code

| Module | Models | Kind |
|---|---|---|
| `DeviceConfig` | `device_config.c`, the boot of `app_main.c`, the configuration handlers of `provisioning_service.c`, `serial_recovery.c` | state machine, composes the tasks that share the NVS |
| `ConfigStore` | the promise of `docs/device-provisioning.md` | abstract specification, implemented by `DeviceConfig` |
| `ProvisioningService` | sessions, log stream and stop of `provisioning_service.c`, stream lifecycle of `provisioning_security.c`, the callers of stop in `app_main.c` | state machine |
| `DiagnosticRing` | `diagnostic_ring.c`, `diagnostic_log.c` and a reader of `/api/logs` or the stream | state machine |
| `HealthService` | `device_health.c`, `device_health_service.c`, `telemetry.c`, the event handler and publication of `mqtt_client_app.c` | state machine, composes the two tasks and the connection |
| `Sensor` | `sensor.c`, `bme280.c`, the callers in `app_main.c` and `telemetry_model.c`, and the chip | state machine |
| `ProvisioningAccess` | login, lockout, session expiry and authentication of `provisioning_service.c`, `provisioning_state.c`, `maintenance_task` | state machine with a clock |
| `DevicePresence` | a device's messages (`mqtt_client_app.c`, `device_health_service.c`, `telemetry.c`), the broker, `subscriber.py`, `device_repository.py`, `device_service.py` | state machine, composes device, broker, collector and API |
| `AlertEngine` | `alert_engine.py`, `alert_service.py`, `alert_repository.py`, `domain/alerts.py`, the telemetry path of `subscriber.py` | state machine, composes collector and API |
| `DeviceConfigProofs`, `DiagnosticRingProofs`, `ProvisioningServiceProofs`, `ProvisioningAccessProofs`, `SensorProofs`, `HealthServiceProofs`, `DevicePresenceProofs`, `AlertEngineProofs` | | theorems about the module named |
| `MC*` | | instances for TLC |

A comment at the head of each module says what one action stands for and what
is abstracted. In short:

* **DeviceConfig.** One action per `device_config_*` call, since each holds
  the mutex throughout, and one per check of `app_main`. The commits of a call
  are not atomic for the flash: every operation is a set of flash contents
  (`StageStates`, `ClearStates`, `ActivateStates`, `PartlyErased`), one for
  each commit at which it may fail, so that a failed call and a call cut off
  by the power (the same failure followed by `PowerLoss`) are both covered. A
  configuration is its revision and an opaque payload. `passed`, `verified`,
  `trials`, `rejected` and `reset` are history variables no action reads.
* **ConfigStore.** Active, pending and verified configurations with atomic
  Stage, Verify, Promote, Discard and Erase. The refinement maps the active
  key to `active` and the candidate key to `pending` as long as metadata that
  is PENDING names its revision.
* **ProvisioningService.** One action per critical section, system call or
  send. The HTTP server runs one handler at a time; the handler's locals, the
  workers and the two callers of `provisioning_service_stop` each have a
  program counter. A session is a generation that is open or not. Whether a
  request is authentic is outside the model: it begins with the requests that
  the handlers accept. `stale` counts the batches sent since a session ended.
* **DiagnosticRing.** Records are their sequence numbers, indices and
  `uint64_t` arithmetic are the code's, with `MaxSequence` for `UINT64_MAX`.
  `from`, `received` and `missed` record what a reader was given and told.
* **HealthService.** One action per call of `device_health_*` and per read of
  an atomic of the MQTT client. `state_revision` and `connection_generation`
  are compared for equality only, so the model keeps which copies of them are
  current (`holders`, `counted`): that makes the state space finite with any
  number of changes, reconnects and faults. `Scenario` says which kinds of
  faults may happen. `burst`, `report` and `announced` are history variables.
* **Sensor.** One action per I2C transaction, which works or fails (a failed
  write may have been carried out). The chip is what the driver takes it for:
  registers that a power-up or a reset clears, a copy of the coefficients that
  takes time, `ctrl_hum` in effect with `ctrl_meas` only. Coefficients and
  measurements are sound or not; `cut` and `failed` record whether the chip lost
  its power, and whether a transaction failed, since the last reset.
* **ProvisioningAccess.** One action per critical section and one for each
  reading of `now_ms` that happens before its lock is taken. Time is counted in
  units of the deadlines and passes between any two steps. Where
  `ProvisioningService` has sessions as generations, this module has their
  expiry, and the same maintenance task stops the server. `wrong` is the times
  of the latest failed logins.
* **DevicePresence.** One action per message a task publishes, delivers or
  processes. A publication reaches the broker, stays in the outbox, or both; the
  outbox is sent again on later connections. The broker (external) retains,
  forwards with QoS 0, and publishes the last will. `last_seen` is kept as an
  age that stops at the first value that is too old, so that time needs no
  bound. `lost` and `willLost` say what the guarantees except.
* **AlertEngine.** Everything from the first write of a transaction to its end
  is one action; each SELECT before is one of its own. `accepted` is the
  samples evaluated since a rule was last reset, `raced` the rules whose last
  write came from a row that another process had changed after it was read.

The definitions named *Mutant* are variations of the code kept next to the
definition they vary, one for each property, and used in no specification:
with any of them put in its place TLC finds the property violated.

## 3. Runs

| Run | Instance | Distinct states | What it shows |
|---|---|---|---|
| `device_config` | 2 payloads, one with maintenance on boot; 2 attempts; revisions to 2 | 932,768 | seven invariants, and the refinement of `ConfigStore` |
| `device_config_live` | the same with revision 1 | 66,962 | `PendingDecided`: no reboot loop |
| `serial_reset` | as `device_config` | violation | `SerialResetUnprovisions`, finding 1 |
| `rollback_active` | as `device_config` | violation | `RollbackLeavesActiveUntouched`, finding 2 |
| `alert_engine` | 2 rules, 2 clients, values 0..2, 3 samples, 2 edits | 1,361,553 | tables agree, engine matches the samples, events are justified, history is final |
| `alert_active_without_event` | 1 rule out of 3 definitions, values 0..3 | violation | `ActiveHasEvent`, finding 3 |
| `diagnostic_ring` | ring of 4, batches of 2, 11 sequence numbers | 2,260 | the reader's account is exact from any cursor |
| `provisioning_service` | 2 streams, 2 logins, 2 iterations | 474,594 | server, slot and session invariants, `ServiceStops` |
| `health_service` | synchronized clock with refused publications and broken links; clock not yet synchronized with every other fault | 1,260,090 | `NoChangeMissed`, `RetriesBounded`, and `HealthConverges`, `OnlineAnnounced` |
| `sensor` | 10 polls, as in the code; any number of failures and power cuts | 4,820 | `LayersAgree`, `SamplesSound`, `SamplesResume` |
| `provisioning_access` | inactivity 2, absolute 4, session 2, lockout 2 after 2 failures, clock to 6 | 361,285 | `GuessesBounded`, `WindowKeptOpen`, `WindowCloses` |
| `device_presence` | timeout 1, 2 messages queued, 1 unacknowledged; any number of restarts | 272,286 | `OnlineIsConnected`, `RegistryAgrees`, `ShownFollowsDevice` |

### Properties

* **DeviceConfig.** `ActiveVerified`: the active key only holds what passed
  all three checks in one boot. `RunsVerified`: so does the device when it
  works. `CandidateProtected`: the candidate under verification is not
  exchanged. `TrialsBounded` and `RejectedNotRetried`: at most `MaxAttempts`
  boots of a blob, none after its rollback is recorded.
  `HttpResetUnprovisions`: after an HTTP factory reset nothing is stored until
  the next boot, whatever `app_main` was about to write. `StoreSpec`: the
  refinement. `PendingDecided`: liveness.
* **ProvisioningService.** `ServerOutlivesStreams`: `httpd_stop` never frees
  the server under a handler or an open asynchronous request. `SlotOwned`:
  whoever must give the slot back is still there. `StreamEndsWithSession`: at
  most one batch after the session has ended, the price of two checks under
  two locks. `ServiceStops`: liveness.
* **DiagnosticRing.** `HoldsLatest`: the ring is the latest records in order.
  `NothingSilentlyLost`: every record between a reader's first and present
  cursor was given or reported lost, never both. `BatchAdvances`: batches
  advance and `has_more` is exact.
* **HealthService.** `NoChangeMissed`: when `health_task` has nothing to
  publish, the last snapshot it published is the current one, or was refused.
  `RetriesBounded`: at most one retry without a change, a new connection or a
  heartbeat, although recording a failure is a change of state itself
  (`docs/sprint-history.md:347`). `HealthConverges` and `OnlineAnnounced`:
  liveness. They say what the code does and no more: `set_availability` makes
  no new revision, so that a health message that says "offline" can stand
  until the next heartbeat while the device is connected, and an announcement
  of "online" that is refused is not repeated on the same connection.
* **Sensor.** `LayersAgree`: `sensor.c`, `bme280.c` and the bus driver agree on
  what is registered and usable, however often registrations, removals and
  initialisations fail half-way. `SamplesSound`: a delivered sample comes from
  a chip that was reset, calibrated and configured since its last power-up,
  unless a power cut fell between two cycles without any transaction failing:
  the driver does not read back the configuration, so such a cut goes
  unnoticed, and the values of a chip in sleep mode may pass the range checks.
  `SamplesResume`: liveness, with the same exception.
* **ProvisioningAccess.** `GuessesBounded`: at most `MaxFailures` wrong logins
  in any time shorter than the lockout, although the count is reset when the
  lockout begins. `WindowKeptOpen`: the window never closes on an inactivity
  that has not happened, although the clock is read before the lock and a
  request may be noted in between. `WindowCloses`: liveness, against requests
  that never stop.
* **DevicePresence.** `OnlineIsConnected`: a retained "online" is taken back
  whichever way the connection ends, unless the broker itself goes down.
  `RegistryAgrees`: a collector that has caught up holds what the broker
  retains, whatever was repeated or replayed. `ShownFollowsDevice`: a device
  that is gone is shown as offline in the end, one that is there as online, and
  its present health is what is shown. It holds for the exceptions stated and no more: a
  collector that subscribes again and again makes a device that is gone look
  fresh each time, because the replayed health advances `last_seen`; and a
  health message that is the first the server hears of a device inserts it as
  "online".
* **AlertEngine.** `TablesAgree`, `MatchesSamples` (the state machine computes
  `Raised`, a definition over all samples without any state), both for every
  rule no race has touched; `EventsJustified` and `ResolvedIsFinal` (the latter
  except for raced rules).

### Bounds and why they are enough

* Two attempts are the least with an attempt that is neither first nor last
  together with the ceiling; two revisions distinguish an active configuration
  from its successor and reach the revision limit (a PUT at the limit is
  refused, as at `UINT32_MAX`).
* Two rules, of which an edit may turn one from `greater_than` to `less_than`,
  are evaluated in one transaction that can fail at either; races are per row,
  so one client beside the collector meets them all and the second client
  meets the first. Values 0..2 with the chosen thresholds give a violating
  value, the dead band and a recovery; three samples are pending, active,
  resolved; timestamps may repeat or go back. Two edits allow a disable and an
  enable, or a change and an archive, around one evaluation.
* A ring of four with batches of two and eleven numbers wraps the slots twice,
  fills a batch exactly, and lets a cursor stand at the largest number.
* A second stream is what can meet the remains of the first; a second login
  replaces a session; a second iteration is what a session that ended must
  prevent.
* `HealthService` has no bound: its run covers any number of events. Its two
  scenarios divide the kinds of faults to keep the liveness check small: a link
  that breaks and a sensor that fails do not occur in one behaviour. They are
  seen by different tasks, which meet in the component states only.
* `Sensor` has the code's limit of polls and no other bound.
* In `ProvisioningAccess` the absolute deadline is twice the inactivity one, so
  that requests can renew the window and still meet the end of it; the clock
  goes on long enough after it for the server to stop. Session and lockout
  both end within the window.
* `DevicePresence` bounds the messages on their way only: two are what a
  subscription replays, and one unacknowledged message is what can be sent
  again after a newer one. Any age beyond the timeout is the same.

Every safety property is proved for all values of these constants (section 4),
so the bounds matter only for liveness and for the refutations.

`CHECK_DEADLOCK FALSE` appears where the system may stop: the alert engine
when the samples and edits of the bound are used up, the provisioning service
once it is stopped, and `ProvisioningAccess` when its clock is at its bound and
the server is down.

### Fairness

* `DeviceConfig!FairSpec`: weak fairness of `AppMain` and of `Restart`, since
  FreeRTOS runs a ready task and `esp_restart` follows a fixed delay; strong
  fairness of reading the setup secret and of `load_for_boot`, which a power
  loss can disable again and again: the power is assumed to stay long enough
  for these two early steps infinitely often, and for nothing longer. Nothing
  is assumed of HTTP requests, of the serial console or of commits.
* `ProvisioningService!FairSpec`: weak fairness of handlers and workers (sends
  and receives time out), of `maintenance_task` (its window has an absolute
  deadline) and of a stop that `app_main` has begun. Nothing is assumed of
  clients. `ServiceStops` allows for an `httpd_stop` that fails, because
  `maintenance_task` repeats only a stop that timed out.
* `HealthService!FairSpec`: weak fairness of both tasks (FreeRTOS runs a ready
  task, their delays end), of the client library's reconnection and of its
  event handler, of the heartbeat period, and of the end of faults: what is
  shown holds once publications and links stop failing.
* `Sensor!FairSpec`: weak fairness of the acquisition (`telemetry_task` runs in
  every cycle), of the copy inside the chip, of the return of its power and of
  the end of faults.
* `ProvisioningAccess!FairSpec`: weak fairness of the clock, of a handler that
  has begun (receives and sends time out) and of `maintenance_task`; strong
  fairness of `httpd_stop`, which waits for a handler in progress and is then
  served by the same task that would take the next request.
* `DevicePresence!FairSpec`: weak fairness of the announcement, of publishing
  health on a live link (heartbeats repeat it), of the collector and of time;
  strong fairness of a repetition that empties the outbox: an acknowledgement
  is not lost for ever. Nothing is assumed of connections: the properties say
  which of them have to last.

## 4. Proofs

TLAPS proves, for every value of the constants:

| Theorem | Module | Property |
|---|---|---|
| `TypeCorrect`, `ActiveAlwaysVerified`, `AlwaysRunsVerified`, `CandidateAlwaysProtected`, `TrialsAlwaysBounded`, `RejectedNeverRetried`, `HttpResetAlwaysUnprovisions` | `DeviceConfigProofs` | the seven invariants of `device_config` |
| `StoreRefinement` | `DeviceConfigProofs` | `Spec => StoreSpec` |
| `RingTypeCorrect`, `RingHoldsLatest`, `ReaderLosesNothing`, `BatchesAdvance` | `DiagnosticRingProofs` | all properties of `diagnostic_ring` |
| `ServiceTypeCorrect`, `ServerAlwaysOutlivesStreams`, `SlotAlwaysOwned`, `StreamAlwaysEndsWithSession` | `ProvisioningServiceProofs` | the four invariants of `provisioning_service` |
| `SensorTypeCorrect`, `LayersAlwaysAgree`, `SamplesAlwaysSound` | `SensorProofs` | the three invariants of `sensor` |
| `AlertTypeCorrect`, `TablesAlwaysAgree`, `SamplesAlwaysMatch`, `EventsAlwaysJustified`, `ResolvedAlwaysFinal` | `AlertEngineProofs` | the four invariants of `alert_engine` and the action property `ResolvedIsFinal` |
| `AccessTypeCorrect`, `GuessesAlwaysBounded`, `WindowAlwaysKeptOpen` | `ProvisioningAccessProofs` | the two invariants of `provisioning_access` and the action property `WindowKeptOpen` |
| `PresenceTypeCorrect`, `OnlineAlwaysConnected`, `RegistryAlwaysAgrees` | `DevicePresenceProofs` | the three invariants of `device_presence` |
| `HealthTypeCorrect`, `NoChangeEverMissed`, `RetriesAlwaysBounded` | `HealthServiceProofs` | the three invariants of `health_service` |

Each module also states that its inductive invariant `IInv` always holds. Each
`IInv` was checked by TLC on the instance of its run before it was proved.

Assumptions: `ConstantsAssumption` and `NoneAssumption` (at least one attempt
and one revision, `None` is no configuration), `RingAssumption` (capacities and
width are positive), `ServiceAssumption` (the bounds are natural numbers, a
worker has at least one iteration), `AttemptsAssumption` (the status is polled
at least once), `AccessAssumption` (the deadlines and limits are positive, the
inactivity deadline is not after the absolute one, the clock's bound is),
`PresenceAssumption` (the timeout is positive, a queue has room for the two
retained messages), `HealthAssumption` (scenarios are clocks and faults,
`machine_status_get` finds one of its results), `AlertConstantsAssumption`
(values are integers, `None` is neither a value nor an id) and
`DefinitionAssumption` (definitions and PATCH bodies are what the schemas of
`alert_schemas.py` admit, field by field; a row is not `None`). TLC evaluates
them in the runs.

The arguments:

* **DeviceConfig.** None of the invariants is inductive alone. `IInv` adds
  `ControlShape` (which checks lie behind each position of `app_main`, and
  what is loaded there), `TrialsCounted` (the attempts in the metadata never
  undercount the boots of the blob), `PendingNotRejected` (a candidate that
  can still be booted was not rolled back) and `HttpResetProtected` (from the
  reset to the next load nobody can write, because the only HTTP task is busy
  restarting). Lemmas about the flash operators (`StageFacts`, `ClearFacts`,
  `ActivateFacts`, ...) carry the intermediate commits; then there is one
  lemma per action. The refinement uses the same invariant: a promotion is the
  step that writes the active key, and there `running` is the candidate and is
  verified.
* **DiagnosticRing.** `SlotOfRecord` is the modular arithmetic; from
  `HoldsLatest` follows that the ring is the interval of sequence numbers
  starting at `Oldest`, so that newer, copied and lost records are intervals
  too and the reader's account is one about adjacent intervals. The invariant
  adds that a ring that has overwritten is full.
* **ProvisioningService.** `SlotInv` says who holds the slot; `AsyncInv` that
  the request is open exactly while its holder has yet to complete it;
  `FreshInv` that generations not given out are unused; `StopInv` that stops
  exclude each other and that, from its wait on, a stop faces no stream but
  the one it waits for, since nothing is admitted while the service is
  stopping; `StaleInv` that a session that ended does not come back. The
  server is then freed only with the slot free, hence with no open request.
* **Sensor.** `HandlePlaced` says at which steps a device is registered;
  `FailuresNoticed` that a failed transaction has ended the initialisation it
  belongs to; `Achieved` which registers and coefficients each step finds done,
  provided the power was not cut since the reset. A sample without a cut is
  then sound by `Achieved`; one after a cut that some failure revealed cannot
  be taken, because that failure made the sensor unusable. One lemma per action.
* **AlertEngine.** `TypeOK` gives each table the types and constraints of
  `schema.sql` for any rules. `TablesAgree` and `MatchesSamples` together are
  nearly inductive: `Agreement` states them rule by rule and adds what the state
  of a rule stands for, the timestamp of the last sample (`LastAccepted`) and
  where the present violation began (`ViolationBegan`), so that the one step of
  `_evaluate_rule` can be compared with `Raised` over one more sample
  (`RaisedContinues`, `RaisedFromNormal`, `RaisedFromPending`) and the extreme
  with the worst value over one more sample (`WorstContinues`). `StepAgrees` is
  that comparison for a rule whose row is the one read. `ReadersKnow` and
  `FetchedEvent` say what the rows read before a transaction are still good for:
  an event that was fetched exists, and is still active if its rule is. A rule in
  `raced` is not in `Agreement`; `EventsJustified` needs none of it, since an
  event carries the definition it was evaluated under.
* **ProvisioningAccess.** `GuessesBounded` relates failures that are
  `MaxFailures` apart, and the code keeps a count and one deadline.
  `LockoutsPlaced` says where in the history the lockouts lie: before the
  failures counted now, and `MaxFailures` earlier. `LoginWaited` says that the
  check made before the body was received still holds at the verdict.
  `WindowKeptOpen` follows from `PastTimes`: a reading of the clock is never
  ahead of it.
* **DevicePresence.** `OnlineIsConnected` needs that a working link has a session
  (`LinkHasSession`). `RegistryAgrees` speaks of an empty queue; `RegistryFollows`
  is what it becomes with messages on their way: for either kind of message,
  what the broker retains is the last of that kind in the queue, or there is none
  and the registry has it (`Coming`). Lemmas say how that survives an append, a
  delivery and the replay of a subscription.
* **HealthService.** No change is missed because the copy of `state_revision` in
  the payload is the youngest (`PayloadIsYoungest`): if the copy that decided
  is still current after a success, so is the one reported. A second refusal in
  a row is the retry, or follows a change that `health_task` itself made on
  finding the connection down (`SecondRefusal`, `NothingNew`); then the
  connection stays down until a new one, which is a new reason (`StayedDown`,
  `Storing`).

Only model-checked: the liveness properties (`PendingDecided`, `ServiceStops`,
`HealthConverges`, `OnlineAnnounced`, `SamplesResume`, `WindowCloses`,
`ShownFollowsDevice`), since liveness under fairness is out of the prover's
reach, as is ENABLED. Facts by induction over data and RECURSIVE operators are
out of reach as well and do not occur in the modules: what a history says
(`Raised`, `IsWorst`, `Coming`) is defined with quantifiers.

## 5. Findings

1. **Serial recovery and a concurrent PUT** (`serial_reset`).
   `serial_recovery.c:37` erases the NVS and restarts 100 ms later while the
   HTTP server goes on; a candidate saved in that time is found by the next
   boot, where `docs/device-provisioning.md:30` has it `UNPROVISIONED`.
2. **A rolled-back candidate can stay active** (`rollback_active`).
   `device_config.c:562` writes the active key before the metadata. If the
   power goes in between, the candidate is tried again; if that trial fails it
   is rolled back but already is the active configuration, and the previous
   one is lost (`docs/device-provisioning.md:86`: "untouched active
   configuration"). The active configuration is nevertheless always one that
   was verified (`ActiveVerified`).
3. **A rule active without an event** (`alert_active_without_event`). A PATCH
   committed between the SELECT and the first write of an evaluation leads to
   the state in which `alert_engine.py:143` raises; from then on each sample
   of the device fails as long as the rule is enabled.
   The same window with an archive leaves an archived rule with an active
   event, which `docs/backend.md:41` excludes.

Noted on the way, without a run of its own:

* `require_auth` (`provisioning_service.c:372`) returns the result of sending
  the 401, which is ESP_OK when the response was sent, and its callers take
  ESP_OK for an authorized request; `receive_json` has the same shape. The
  modules follow the code: a refused request goes on (`Refuse` and
  `ReceiveBody` in `ProvisioningAccess`, `Authenticate` in
  `ProvisioningService`), where `docs/device-provisioning.md:95` has it end.
* A power cut of the chip between two cycles is not noticed (see
  `SamplesSound`).
* A subscription that the broker rejects is logged and not repeated
  (`subscriber.py:133`): the collector stays connected and is sent nothing.
* An announcement of "online" that is refused is not repeated on its connection
  (see `OnlineAnnounced`).

## 6. Plan

Done: 1 to 9. The order is by importance for the system.

1. `DeviceConfig` with `ConfigStore`: model, runs, proofs.
2. `AlertEngine`: model, runs, proofs.
3. `DiagnosticRing`: model, run, proofs.
4. `ProvisioningService`: model, runs, proofs.
5. `HealthService`: model, run, proofs.
6. `DevicePresence`: device, broker, collector, registry and API: model, run,
   proofs.
7. `ProvisioningAccess`: window, session expiry and lockout with a clock: model,
   run, proofs.
8. `Sensor`: acquisition with bus failures and power cuts: model, run, proofs.
9. Proofs of every safety property of `ProvisioningAccess`, `DevicePresence`,
   `AlertEngine` and `HealthService`.
10. `LogPage`: the page's cursor and EventSource reconnects over a restart,
    composed with `DiagnosticRing`.

## 7. What is not modelled

* `wifi`, `system_time`: event handlers with one counter or one bit. How their
  bounded waits end is a choice of `DeviceConfig`, so every outcome is covered;
  what is left is one comparison each.
* `machine_status`: one GPIO read, a constant of `HealthService`.
* Configuration validation, the encoding of the blobs and their checksums, the
  endpoint policy: pure functions whose cases the unit tests enumerate.
  `DeviceConfig` takes a stored blob as written whole or not at all, which is
  what the NVS promises of a key.
* The compensation arithmetic of the BME280: integer code best checked against
  the data sheet's vectors. `Sensor` keeps whether its inputs are sound.
* The migration in `init_db`, the API routes (they keep no state), the
  dashboard (it polls and draws), the simulator.
* `scripts/manage_mqtt_device.py`: run by an operator on host files; its hazards
  are listed in `PROJECT.json`.
* The ESP-IDF, the broker and SQLite themselves. The modules assume what the
  code relies on: `httpd_stop` waits for the handler in progress, a commit of
  one NVS key is atomic, a SQLite transaction is serialisable from its first
  write, the broker keeps the order of a connection's messages and publishes
  wills.
* Rendering, wording, logging and HTTP formatting.
