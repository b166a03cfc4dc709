---------------------------- MODULE DeviceConfig ----------------------------
(***************************************************************************)
(* The device configuration of the ESP32 firmware and everything that      *)
(* changes it: components/device_config/device_config.c (the owner of the  *)
(* NVS namespace), the boot and candidate-validation sequence of           *)
(* main/app_main.c, the configuration handlers of provisioning_service.c   *)
(* and the serial recovery task.                                           *)
(*                                                                         *)
(* Three tasks run concurrently: app_main, the HTTP server (one task, so   *)
(* one handler at a time) and the serial recovery task.  Every device_     *)
(* config_* function holds configuration_mutex for its whole body, so each *)
(* call is one action.  It is not atomic for the flash, though: a call     *)
(* makes up to three separate NVS commits, any of which may fail, and the  *)
(* power may go at any moment.  The failure outcome of a call is therefore *)
(* the set of every intermediate flash contents: a call that returned an   *)
(* error, and one that was interrupted by a power loss (the failure        *)
(* followed by PowerLoss), leave exactly those.                            *)
(*                                                                         *)
(* Abstractions.  A device_config_t is its revision and an opaque payload; *)
(* a request whose body does not parse or validate changes nothing and is  *)
(* left out.  A key that cannot be read (corrupt, unknown format, no       *)
(* memory) is a failed read, which any read may be.  Metadata that is      *)
(* absent reads as all zeros, so the two are not told apart; boot_count    *)
(* and the rollback reason are statistics nothing reads back.              *)
(* current_configuration, which the HTTP server edits from, is the same    *)
(* pointer as runtime_configuration, so `running' stands for both; it is   *)
(* None when load_for_boot failed, where the code passes NULL.             *)
(***************************************************************************)
EXTENDS Naturals

CONSTANTS
    Payload,       \* the contents a configuration can have beside its revision
    Maintenance,   \* the payloads with maintenance_on_boot set
    None,          \* an absent key, an unset configuration
    MaxAttempts,   \* CONFIG_PROVISIONING_CANDIDATE_MAX_ATTEMPTS
    MaxRevision    \* the largest revision, UINT32_MAX in the code

ASSUME ConstantsAssumption ==
    /\ Maintenance \subseteq Payload
    /\ MaxAttempts \in Nat \ {0}
    /\ MaxRevision \in Nat \ {0}

Config == [rev : 1..MaxRevision, data : Payload]

ASSUME NoneAssumption == None \notin Config

MaybeConfig == Config \cup {None}

VARIABLES
    nvs,             \* the flash: the four keys of namespace iem_config
    validating,      \* candidate_validation_revision, 0 when none in progress
    app,             \* where app_main is
    running,         \* runtime_configuration
    usingCandidate,  \* app_main's using_candidate
    httpd,           \* what the HTTP server task is doing
    serial,          \* what the serial recovery task is doing
    \* History, read by no action:
    passed,          \* checks the running configuration passed since boot
    verified,        \* configurations that passed all checks in one boot
    trials,          \* boots of the candidate blob since it was written
    rejected,        \* the candidate last rolled back, until a new one is written
    reset            \* the kinds of reset completed since the last load

hardware == <<app, running, usingCandidate, httpd, serial>>
history  == <<passed, verified, trials, rejected, reset>>
vars == <<nvs, validating, hardware, history>>

-----------------------------------------------------------------------------
(* The flash.                                                              *)

Metadata == [state    : {"NONE", "PENDING", "ACTIVE", "ROLLBACK"},
             rev      : 0..MaxRevision,
             attempts : 0..MaxAttempts]

Nvs == [active : MaybeConfig, candidate : MaybeConfig,
        meta : Metadata, setup : BOOLEAN]

Settled(s) == [state |-> s, rev |-> 0, attempts |-> 0]

Blank == [active |-> None, candidate |-> None,
          meta |-> Settled("NONE"), setup |-> FALSE]

\* device_config_stage_candidate: the candidate blob, then the metadata.
\* Mutant: the blob goes to the wrong key.
CandidateWrittenToActive(n, c) == [n EXCEPT !.active = c]
CandidateWritten(n, c) == [n EXCEPT !.candidate = c]
Staged(n, c) ==
    [CandidateWritten(n, c) EXCEPT
        !.meta = [state |-> "PENDING", rev |-> c.rev, attempts |-> 0]]
\* Mutant: the metadata is committed before the blob it describes.
MetadataFirst(n, c) == {n, [n EXCEPT !.meta = Staged(n, c).meta], Staged(n, c)}
StageStates(n, c) == {n, CandidateWritten(n, c), Staged(n, c)}

\* rollback_candidate_locked and device_config_cancel_candidate: the
\* metadata with its new state, then the candidate is erased.
Decided(n, s) == [n EXCEPT !.meta = Settled(s)]
Cleared(n, s) == [Decided(n, s) EXCEPT !.candidate = None]
ClearStates(n, s) == {n, Decided(n, s), Cleared(n, s)}

\* device_config_activate_candidate: active, metadata, erase the candidate.
ActiveWritten(n) == [n EXCEPT !.active = n.candidate]
Activated(n) == Cleared(ActiveWritten(n), "ACTIVE")
ActivateStates(n) == {n} \cup ClearStates(ActiveWritten(n), "ACTIVE")

\* nvs_erase_all and nvs_flash_erase remove the keys one after the other.
PartlyErased(n) ==
    [active : {n.active, None}, candidate : {n.candidate, None},
     meta : {n.meta, Settled("NONE")}, setup : {n.setup, FALSE}]

-----------------------------------------------------------------------------
Checks == {"station", "sntp", "mqtt"}

Validating == Checks \cup {"activate"}

AppStates == Validating \cup
    {"init", "secret", "load", "recoveryOnly", "unprovisioned", "rejected",
     "aborting", "closing", "operational", "degraded"}

TypeOK ==
    /\ nvs \in Nvs
    /\ validating \in 0..MaxRevision
    /\ app \in AppStates
    /\ running \in MaybeConfig
    /\ usingCandidate \in BOOLEAN
    /\ httpd \in {"stopped", "idle", "applying", "restarting"}
    /\ serial \in {"stopped", "idle", "restarting"}
    /\ passed \subseteq Checks
    /\ verified \subseteq Config
    /\ trials \in Nat
    /\ rejected \in MaybeConfig
    /\ reset \subseteq {"http", "serial"}

Init ==
    /\ nvs = Blank
    /\ validating = 0
    /\ app = "init"
    /\ running = None
    /\ usingCandidate = FALSE
    /\ httpd = "stopped"
    /\ serial = "stopped"
    /\ passed = {}
    /\ verified = {}
    /\ trials = 0
    /\ rejected = None
    /\ reset = {}

-----------------------------------------------------------------------------
(* Boot.                                                                   *)

\* device_config_storage_init; the serial task starts whatever the outcome,
\* but a device without NVS does nothing else.
StorageInit ==
    /\ app = "init"
    /\ app' \in {"secret", "recoveryOnly"}
    /\ serial' = "idle"
    /\ UNCHANGED <<nvs, validating, running, usingCandidate, httpd, history>>

\* device_config_get_or_create_setup_secret.
GetOrCreateSetupSecret ==
    /\ app = "secret"
    /\ \/ app' = "load" /\ nvs' = [nvs EXCEPT !.setup = TRUE]
       \/ app' = "recoveryOnly" /\ nvs' \in {nvs, [nvs EXCEPT !.setup = TRUE]}
    /\ UNCHANGED <<validating, running, usingCandidate, httpd, serial, history>>

\* What app_main does with the active configuration load_for_boot read: a
\* station and, if the payload asks for it, the maintenance server.
RunActive(n) ==
    /\ n.active # None
    /\ running' = n.active
    /\ app' = "station"
    /\ httpd' = IF n.active.data \in Maintenance THEN "idle" ELSE "stopped"

\* load_for_boot returned an error: provisioning only.
RunUnprovisioned ==
    /\ running' = None
    /\ app' = "unprovisioned"
    /\ httpd' = "idle"

CandidateUsable(n) ==
    n.candidate # None /\ n.candidate.rev = n.meta.rev

\* Mutant: the attempt is not recorded.
TriedUnrecorded(n) == n
Tried(n) == [n EXCEPT !.meta.attempts = @ + 1]

\* Every flash contents load_for_boot can leave behind when one of its
\* reads or commits fails.
LoadFailureStates(n) ==
    IF n.meta.state # "PENDING" THEN {n}
    ELSE ClearStates(n, "ROLLBACK") \cup
         {m \in {Tried(n)} : n.meta.attempts < MaxAttempts /\ CandidateUsable(n)}

\* The rollback decision is in the flash once the metadata says so.
RecordRollback(n) ==
    rejected' = IF n.meta.state = "ROLLBACK" /\ nvs.candidate # None
                THEN nvs.candidate ELSE rejected

\* Mutant: BootCandidate with the attempt limit off by one.
BootCandidateOnceMore ==
    /\ app = "load"
    /\ nvs.meta.state = "PENDING"
    /\ nvs.meta.attempts <= MaxAttempts
    /\ CandidateUsable(nvs)
    /\ nvs' = Tried(nvs)
    /\ validating' = nvs.candidate.rev
    /\ running' = nvs.candidate
    /\ usingCandidate' = TRUE
    /\ app' = "station"
    /\ httpd' = "idle"
    /\ trials' = trials + 1
    /\ passed' = {}
    /\ reset' = {}
    /\ UNCHANGED <<serial, verified, rejected>>

\* device_config_load_for_boot, pending candidate with an attempt left.
BootCandidate ==
    /\ app = "load"
    /\ nvs.meta.state = "PENDING"
    /\ nvs.meta.attempts < MaxAttempts
    /\ CandidateUsable(nvs)
    /\ nvs' = Tried(nvs)
    /\ validating' = nvs.candidate.rev
    /\ running' = nvs.candidate
    /\ usingCandidate' = TRUE
    /\ app' = "station"
    /\ httpd' = "idle"
    /\ trials' = trials + 1
    /\ passed' = {}
    /\ reset' = {}
    /\ UNCHANGED <<serial, verified, rejected>>

\* device_config_load_for_boot, pending candidate that is out of attempts,
\* does not match the metadata or cannot be read: roll back, then go on
\* with the active configuration.
BootAfterRollback ==
    /\ app = "load"
    /\ nvs.meta.state = "PENDING"
    /\ nvs' = Cleared(nvs, "ROLLBACK")
    /\ RecordRollback(nvs')
    /\ validating' = 0
    /\ usingCandidate' = FALSE
    /\ RunActive(nvs) \/ RunUnprovisioned
    /\ passed' = {}
    /\ reset' = {}
    /\ UNCHANGED <<serial, verified, trials>>

\* device_config_load_for_boot with nothing pending.
BootActive ==
    /\ app = "load"
    /\ nvs.meta.state # "PENDING"
    /\ validating' = 0
    /\ usingCandidate' = FALSE
    /\ RunActive(nvs) \/ (nvs.active = None /\ RunUnprovisioned)
    /\ passed' = {}
    /\ reset' = {}
    /\ UNCHANGED <<nvs, serial, verified, trials, rejected>>

\* device_config_load_for_boot fails: the device offers provisioning only,
\* whatever the flash holds.
BootFails ==
    /\ app = "load"
    /\ nvs' \in LoadFailureStates(nvs)
    /\ RecordRollback(nvs')
    /\ validating' = 0
    /\ usingCandidate' = FALSE
    /\ RunUnprovisioned
    /\ passed' = {}
    /\ reset' = {}
    /\ UNCHANGED <<serial, verified, trials>>

-----------------------------------------------------------------------------
(* The rest of app_main: verification of what was loaded.                  *)

\* restart_after_candidate_failure: roll back, wait 250 ms, restart.  The
\* restart follows whether or not the rollback could be written.
RejectCandidate ==
    /\ app' = "rejected"
    /\ \/ nvs' = Cleared(nvs, "ROLLBACK") /\ validating' = 0
       \/ nvs' \in ClearStates(nvs, "ROLLBACK") /\ UNCHANGED validating
    /\ RecordRollback(nvs')

CheckPassed(check, next) ==
    /\ app' = next
    /\ passed' = passed \cup {check}
    /\ verified' = IF passed' = Checks THEN verified \cup {running} ELSE verified
    /\ UNCHANGED <<nvs, validating, rejected>>

\* Mutant: a failed check is not fatal for a candidate.
CheckFailedIgnored(next) ==
    app' = next /\ UNCHANGED <<nvs, validating, rejected, passed, verified>>

\* A failed check is fatal for a candidate; the active configuration goes
\* on with its background retries.
CheckFailed(next) ==
    /\ IF usingCandidate THEN RejectCandidate
       ELSE app' = next /\ UNCHANGED <<nvs, validating, rejected>>
    /\ UNCHANGED <<passed, verified>>

\* wifi_wait_for_station.
StationCheck ==
    /\ app = "station"
    /\ CheckPassed("station", "sntp") \/ CheckFailed("sntp")
    /\ UNCHANGED <<running, usingCandidate, httpd, serial, trials, reset>>

\* system_time_init and system_time_is_valid.
SntpCheck ==
    /\ app = "sntp"
    /\ CheckPassed("sntp", "mqtt") \/ CheckFailed("mqtt")
    /\ UNCHANGED <<running, usingCandidate, httpd, serial, trials, reset>>

\* mqtt_init and, for a candidate, mqtt_wait_connected.
MqttCheck ==
    /\ app = "mqtt"
    /\ \/ CheckPassed("mqtt", IF usingCandidate THEN "activate" ELSE "operational")
       \/ CheckFailed("degraded")
    /\ UNCHANGED <<running, usingCandidate, httpd, serial, trials, reset>>

\* Mutant: whatever candidate is stored is activated.
ActivationUnchecked == nvs.candidate # None

\* The conditions device_config_activate_candidate checks under the lock.
ActivationAllowed ==
    /\ validating = running.rev
    /\ nvs.candidate = running
    /\ nvs.meta.state = "PENDING"
    /\ nvs.meta.rev = running.rev

\* device_config_activate_candidate; ESP_ERROR_CHECK aborts on an error.
ActivateCandidate ==
    /\ app = "activate"
    /\ \/ /\ ActivationAllowed
          /\ nvs' = Activated(nvs)
          /\ validating' = 0
          /\ app' = IF running.data \in Maintenance THEN "operational" ELSE "closing"
       \/ /\ nvs' \in IF ActivationAllowed THEN ActivateStates(nvs) ELSE {nvs}
          /\ app' = "aborting"
          /\ UNCHANGED validating
    /\ UNCHANGED <<running, usingCandidate, httpd, serial, history>>

\* provisioning_service_stop after activation without maintenance_on_boot.
\* httpd_stop lets the handler in progress finish; a stop that timed out
\* leaves the server up.
CloseProvisioning ==
    /\ app = "closing"
    /\ app' = "operational"
    /\ \/ httpd \in {"idle", "stopped"} /\ httpd' = "stopped"
       \/ UNCHANGED httpd
    /\ UNCHANGED <<nvs, validating, running, usingCandidate, serial, history>>

\* maintenance_task: the window of a configured device closes.
MaintenanceWindowCloses ==
    /\ running # None
    /\ httpd = "idle"
    /\ httpd' = "stopped"
    /\ UNCHANGED <<nvs, validating, app, running, usingCandidate, serial, history>>

-----------------------------------------------------------------------------
(* HTTP handlers.                                                          *)

\* The configuration parse_configuration builds from the request.
NextConfig(data) ==
    [rev |-> IF running = None THEN 1 ELSE running.rev + 1, data |-> data]

\* Mutant: CandidatePut that does not ask whether a validation is in progress.
CandidatePutUnguarded(data) ==
    LET c == NextConfig(data) IN
    /\ httpd = "idle"
    /\ c.rev <= MaxRevision
    /\ nvs' \in StageStates(nvs, c)
    /\ IF nvs' # nvs /\ nvs'.candidate = c THEN trials' = 0 /\ rejected' = None
       ELSE UNCHANGED <<trials, rejected>>
    /\ UNCHANGED <<validating, hardware, passed, verified, reset>>

\* candidate_put_handler.  A revision past UINT32_MAX wraps to zero, which
\* device_config_validate rejects.
CandidatePut(data) ==
    LET c == NextConfig(data) IN
    /\ httpd = "idle"
    /\ c.rev <= MaxRevision
    /\ validating = 0
    /\ nvs' \in StageStates(nvs, c)
    /\ IF nvs' # nvs /\ nvs'.candidate = c THEN trials' = 0 /\ rejected' = None
       ELSE UNCHANGED <<trials, rejected>>
    /\ UNCHANGED <<validating, hardware, passed, verified, reset>>

\* candidate_delete_handler.
CandidateDelete ==
    /\ httpd = "idle"
    /\ validating = 0
    /\ nvs' \in ClearStates(nvs, "ACTIVE")
    /\ UNCHANGED <<validating, hardware, history>>

\* apply_handler: two separate locked reads, then the delayed restart.
ApplyBegin ==
    /\ httpd = "idle"
    /\ validating = 0
    /\ httpd' = "applying"
    /\ UNCHANGED <<nvs, validating, app, running, usingCandidate, serial, history>>

ApplyDecide ==
    /\ httpd = "applying"
    /\ \/ nvs.meta.state = "PENDING" /\ httpd' = "restarting"
       \/ httpd' = "idle"
    /\ UNCHANGED <<nvs, validating, app, running, usingCandidate, serial, history>>

\* reboot_handler.
RebootRequest ==
    /\ httpd = "idle"
    /\ httpd' = "restarting"
    /\ UNCHANGED <<nvs, validating, app, running, usingCandidate, serial, history>>

\* Mutant: the restart after the reset is left to a timer and the handler
\* returns at once.
FactoryResetDeferred ==
    /\ httpd = "idle"
    /\ nvs' = Blank
    /\ validating' = 0
    /\ reset' = reset \cup {"http"}
    /\ UNCHANGED <<app, running, usingCandidate, httpd, serial>>
    /\ UNCHANGED <<passed, verified, trials, rejected>>

\* factory_reset_handler and device_config_factory_reset: not held back by a
\* validation in progress.
FactoryReset ==
    /\ httpd = "idle"
    /\ \/ /\ nvs' = Blank
          /\ validating' = 0
          /\ httpd' = "restarting"
          /\ reset' = reset \cup {"http"}
       \/ /\ nvs' \in PartlyErased(nvs)
          /\ UNCHANGED <<validating, httpd, reset>>
    /\ UNCHANGED <<app, running, usingCandidate, serial>>
    /\ UNCHANGED <<passed, verified, trials, rejected>>

-----------------------------------------------------------------------------
(* Serial recovery, restarts and power loss.                               *)

\* recovery_task and device_config_storage_recover: erase, then restart
\* after 100 ms, during which the other tasks go on.
SerialRecover ==
    /\ serial = "idle"
    /\ \/ /\ nvs' = Blank
          /\ validating' = 0
          /\ serial' = "restarting"
          /\ reset' = reset \cup {"serial"}
       \/ /\ nvs' \in PartlyErased(nvs)
          /\ UNCHANGED <<validating, serial, reset>>
    /\ UNCHANGED <<app, running, usingCandidate, httpd>>
    /\ UNCHANGED <<passed, verified, trials, rejected>>

\* All RAM is lost; app_main starts again.
PowerCycle ==
    /\ validating' = 0
    /\ app' = "init"
    /\ running' = None
    /\ usingCandidate' = FALSE
    /\ httpd' = "stopped"
    /\ serial' = "stopped"
    /\ passed' = {}
    /\ UNCHANGED <<nvs, verified, trials, rejected, reset>>

\* Mutant: a candidate whose rollback could not be written is not restarted.
RestartAfterRollback ==
    /\ \/ app = "rejected" /\ nvs.meta.state # "PENDING"
       \/ app = "aborting" \/ httpd = "restarting" \/ serial = "restarting"
    /\ PowerCycle

\* esp_restart or abort, by whichever task got there.
Restart ==
    /\ app \in {"rejected", "aborting"} \/ httpd = "restarting" \/ serial = "restarting"
    /\ PowerCycle

PowerLoss == app # "init" /\ PowerCycle

AppMain ==
    \/ StorageInit \/ GetOrCreateSetupSecret
    \/ BootCandidate \/ BootAfterRollback \/ BootActive \/ BootFails
    \/ StationCheck \/ SntpCheck \/ MqttCheck
    \/ ActivateCandidate \/ CloseProvisioning

Http ==
    \/ \E data \in Payload : CandidatePut(data)
    \/ CandidateDelete \/ ApplyBegin \/ ApplyDecide
    \/ RebootRequest \/ FactoryReset

Next ==
    AppMain \/ Http \/ MaintenanceWindowCloses \/ SerialRecover \/ Restart \/ PowerLoss

Spec == Init /\ [][Next]_vars

-----------------------------------------------------------------------------
(* Properties.                                                             *)

\* The active key only ever holds a configuration that passed the station,
\* SNTP and MQTT checks during one boot: whatever commits fail, wherever the
\* power goes, and whatever the HTTP and serial tasks do meanwhile
\* (docs/device-provisioning.md:77).
ActiveVerified == nvs.active # None => nvs.active \in verified

\* The device works (telemetry, health) only with a verified configuration:
\* a candidate gets that far only through activation.
RunsVerified ==
    running # None /\ (~usingCandidate \/ app \in {"closing", "operational"})
        => running \in verified

\* While app_main verifies a candidate, the flash holds that very candidate
\* under metadata that refers to it, or it was erased; nobody can exchange
\* it (the protected validation interval of docs/device-provisioning.md:86).
CandidateProtected ==
    validating # 0 /\ app \in Validating =>
        /\ usingCandidate
        /\ validating = running.rev
        /\ nvs.candidate \in {running, None}
        /\ nvs.meta.state = "PENDING" => nvs.meta.rev = running.rev

\* A candidate blob is booted at most MaxAttempts times, crashes and failed
\* commits included (load_for_boot's attempt ceiling).
TrialsBounded == trials <= MaxAttempts

\* A candidate whose rollback is recorded is never tried again, even when
\* its blob could not be erased or a later stage was cut short.
RejectedNotRetried ==
    usingCandidate /\ app \in Validating => running # rejected

\* After the HTTP factory reset the device has neither an active nor a
\* candidate configuration until it has booted, whatever app_main was doing.
HttpResetUnprovisions ==
    "http" \in reset => nvs.active = None /\ nvs.candidate = None

\* docs/device-provisioning.md:86 on a failed candidate: "deletes the
\* candidate and reboots with the untouched active configuration".
RollbackLeavesActiveUntouched ==
    nvs.meta.state = "ROLLBACK" /\ rejected # None => nvs.active # rejected

\* The candidate as the storage promises it: only metadata that refers to
\* the blob makes it pending.
PendingOf(n) ==
    IF n.meta.state = "PENDING" /\ CandidateUsable(n) THEN n.candidate ELSE None

Pending == PendingOf(nvs)

\* docs/device-provisioning.md:30 on serial recovery: it "erases and
\* reinitializes the complete NVS partition, then reboots into
\* `UNPROVISIONED`", so the boot after it finds nothing to load.
SerialResetUnprovisions ==
    "serial" \in reset /\ app = "load" /\ serial = "idle"
        => nvs.active = None /\ Pending = None

Store == INSTANCE ConfigStore WITH active <- nvs.active, pending <- Pending

\* Three flash keys written one commit at a time behave as a store that
\* stages, promotes and discards atomically.
StoreSpec == Store!Spec

\* The boot that finds a pending candidate, and the ones after it, decide
\* its fate or end in a mode that waits for a person: no reboot loop.
PendingDecided ==
    (app = "load" /\ nvs.meta.state = "PENDING")
        ~> (nvs.meta.state # "PENDING" \/ app \in {"unprovisioned", "recoveryOnly"})

\* app_main and due restarts are never held up for ever; and though the power
\* may go again and again, it stays long enough for the setup secret to be
\* read and for load_for_boot to end, again and again.
LoadForBoot == BootCandidate \/ BootAfterRollback \/ BootActive \/ BootFails

FairSpec ==
    Spec /\ WF_vars(AppMain) /\ WF_vars(Restart)
         /\ SF_vars(GetOrCreateSetupSecret) /\ SF_vars(LoadForBoot)
=============================================================================
