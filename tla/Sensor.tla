------------------------------- MODULE Sensor -------------------------------
(***************************************************************************)
(* The acquisition of a sample: sensor.c over the driver bme280.c over the *)
(* I2C bus, called by app_main once and then by telemetry_task in every    *)
(* cycle (telemetry_model.c).  Both callers are one after the other, so    *)
(* the code is sequential; what interleaves with it is the chip, which can *)
(* lose and regain its power, and the bus, on which any transaction can    *)
(* fail.  One transaction is one action.                                   *)
(*                                                                         *)
(* Abstractions.  A register holds what the driver writes to it or its     *)
(* reset value; the coefficients and the raw values are sound or not; the  *)
(* compensation formulas turn sound ones into a sound measurement.         *)
(* The chip (external) is modelled from what the driver expects of it: a   *)
(* reset or a power-up clears its registers and starts the copy of the     *)
(* coefficients, and ctrl_hum takes effect when ctrl_meas is written.      *)
(* The driver's tests for a missing device or bus are left out: see        *)
(* LayersAgree.                                                            *)
(***************************************************************************)
EXTENDS Naturals

CONSTANT MaxAttempts    \* BME280_STARTUP_MAX_ATTEMPTS

ASSUME AttemptsAssumption == MaxAttempts \in Nat \ {0}

VARIABLES
    pc,           \* the next transaction
    caller,       \* who called sensor_init: "app_main", or "telemetry" in sensor_read
    initialized,  \* sensor.c
    device,       \* bme280.c: is bme280_device set, and
    ready,        \* bme280_ready
    attempt,      \* polls of the status register
    block,        \* the first block of coefficients, and
    calibration,  \* all of them: "unset", "sound" or "garbage"
    outcome,      \* of the last cycle: "none", "rejected", or the sample delivered
    registered,   \* devices registered with the I2C bus driver
    power,        \* has the chip power
    chip,         \* its registers
    faults,       \* may things still fail
    \* History, read by no action:
    cut,          \* has the chip lost its power since it was last reset
    failed        \* has a transaction failed since

driver == <<initialized, device, ready, attempt, block, calibration, registered>>
world == <<power, chip, faults>>
vars == <<pc, caller, driver, outcome, world, cut, failed>>

\* The registers after a power-up or a reset: nothing configured, and the
\* coefficients are being copied (BME280_STATUS_IM_UPDATE_MASK).
PowerUp == [updating |-> TRUE, hum |-> FALSE, config |-> FALSE, meas |-> FALSE,
            humidity |-> FALSE]

TypeOK ==
    /\ pc \in {"idle", "remove", "add", "chip_id", "reset", "status", "calib_t1",
               "calib_h2", "ctrl_hum", "config", "ctrl_meas", "measure",
               "cleanup", "invalidate"}
    /\ caller \in {"app_main", "telemetry"}
    /\ initialized \in BOOLEAN
    /\ device \in BOOLEAN
    /\ ready \in BOOLEAN
    /\ attempt \in 0..(MaxAttempts - 1)
    /\ block \in {"unset", "sound", "garbage"}
    /\ calibration \in {"unset", "sound", "garbage"}
    /\ outcome \in {"none", "rejected", "sound", "unsound"}
    /\ registered \in Nat
    /\ power \in BOOLEAN
    /\ chip \in [updating : BOOLEAN, hum : BOOLEAN, config : BOOLEAN, meas : BOOLEAN,
                 humidity : BOOLEAN]
    /\ faults \in BOOLEAN
    /\ cut \in BOOLEAN
    /\ failed \in BOOLEAN

\* start_operational_hardware: the bus is up, or app_main has aborted, and
\* sensor_init is next.
Init ==
    /\ pc = "add"
    /\ caller = "app_main"
    /\ initialized = FALSE
    /\ device = FALSE
    /\ ready = FALSE
    /\ attempt = 0
    /\ block = "unset"
    /\ calibration = "unset"
    /\ outcome = "none"
    /\ registered = 0
    /\ power = TRUE
    /\ chip = PowerUp
    /\ faults = TRUE
    /\ cut = FALSE
    /\ failed = FALSE

-----------------------------------------------------------------------------
(* The bus.                                                                *)

\* bme280_read_registers and bme280_write_register: a transaction works ...
Works(from) == pc = from /\ power

\* ... or not: a line is interrupted, or the chip does not answer.
Breaks(from) == pc = from /\ (faults \/ ~power)

\* What follows a transaction that failed: bme280_init cleans up.
Abandon ==
    /\ pc' = "cleanup"
    /\ failed' = TRUE
    /\ UNCHANGED <<caller, driver, outcome, power, faults, cut>>

\* A register is written; a write that is reported as failed may have been
\* carried out.
Write(from, to, written) ==
    \/ /\ Works(from)
       /\ chip' = written
       /\ pc' = to
       /\ UNCHANGED <<caller, driver, outcome, power, faults, cut, failed>>
    \/ /\ Breaks(from)
       /\ chip' \in {chip, IF power THEN written ELSE chip}
       /\ Abandon

ReadBreaks(from) == Breaks(from) /\ Abandon /\ UNCHANGED chip

\* Mutant: the handle is forgotten when it cannot be removed.
ForgetDevice ==
    /\ device' = FALSE
    /\ registered' \in IF device THEN {registered - 1} \cup (IF faults THEN {registered} ELSE {})
                       ELSE {registered}
\* bme280_remove_device: the handle is kept when i2c_master_bus_rm_device fails.
RemoveDevice ==
    \/ /\ device
       /\ device' = FALSE
       /\ registered' = registered - 1
    \/ /\ ~device \/ faults
       /\ UNCHANGED <<device, registered>>

-----------------------------------------------------------------------------
(* sensor_read, sensor_init and bme280_init.                               *)

\* Mutant: sensor_read does not initialize the sensor again.
BeginInitialized ==
    /\ pc = "idle"
    /\ caller' = "telemetry"
    /\ pc' = IF initialized THEN "measure" ELSE "invalidate"
    /\ outcome' = "none"
    /\ UNCHANGED <<driver, world, cut, failed>>
\* telemetry_model_create calls sensor_read.  A device left over from an
\* earlier failure is removed first.
Begin ==
    /\ pc = "idle"
    /\ caller' = "telemetry"
    /\ pc' = IF initialized THEN "measure" ELSE IF device THEN "remove" ELSE "add"
    /\ outcome' = "none"
    /\ UNCHANGED <<driver, world, cut, failed>>

RemoveLeftOver ==
    /\ pc = "remove"
    /\ RemoveDevice
    /\ pc' = IF device' THEN "invalidate" ELSE "add"
    /\ UNCHANGED <<caller, initialized, ready, attempt, block, calibration, outcome,
                   world, cut, failed>>

\* i2c_master_bus_add_device.
AddDevice ==
    /\ pc = "add"
    /\ \/ pc' = "chip_id" /\ device' = TRUE /\ registered' = registered + 1
       \/ faults /\ pc' = "invalidate" /\ UNCHANGED <<device, registered>>
    /\ UNCHANGED <<caller, initialized, ready, attempt, block, calibration, outcome,
                   world, cut, failed>>

\* The chip answers with another id when the bus is disturbed.
ReadChipId ==
    \/ /\ Works("chip_id")
       /\ pc' = "reset"
       /\ UNCHANGED <<caller, driver, outcome, world, cut, failed>>
    \/ ReadBreaks("chip_id")

\* BME280_REG_RESET.
Reset ==
    \/ /\ Works("reset")
       /\ chip' = PowerUp
       /\ pc' = "status"
       /\ attempt' = 0
       /\ cut' = FALSE
       /\ failed' = FALSE
       /\ UNCHANGED <<caller, initialized, device, ready, block, calibration, registered,
                      outcome, power, faults>>
    \/ /\ Breaks("reset")
       /\ chip' \in {chip, IF power THEN PowerUp ELSE chip}
       /\ Abandon

\* Mutant: one poll too many.
PollStatusOnceMore ==
    \/ /\ Works("status")
       /\ \/ ~chip.updating /\ pc' = "calib_t1" /\ attempt' = 0
          \/ chip.updating /\ attempt < MaxAttempts /\ pc' = "status"
                /\ attempt' = attempt + 1
       /\ UNCHANGED <<caller, initialized, device, ready, block, calibration, registered,
                      outcome, world, cut, failed>>
    \/ ReadBreaks("status")
\* Mutant: after the last poll the coefficients are read anyway.
PollStatusGivesUp ==
    \/ /\ Works("status")
       /\ IF ~chip.updating \/ attempt + 1 = MaxAttempts
          THEN pc' = "calib_t1" /\ attempt' = 0
          ELSE pc' = "status" /\ attempt' = attempt + 1
       /\ UNCHANGED <<caller, initialized, device, ready, block, calibration, registered,
                      outcome, world, cut, failed>>
    \/ ReadBreaks("status")
\* bme280_wait_for_calibration_copy.  The copy is faster than the polls unless
\* something is wrong with the chip.
PollStatus ==
    \/ /\ Works("status")
       /\ \/ ~chip.updating /\ pc' = "calib_t1" /\ attempt' = 0
          \/ chip.updating /\ attempt + 1 < MaxAttempts /\ pc' = "status"
                /\ attempt' = attempt + 1
       /\ UNCHANGED <<caller, initialized, device, ready, block, calibration, registered,
                      outcome, world, cut, failed>>
    \/ /\ Works("status")
       /\ chip.updating /\ attempt + 1 = MaxAttempts /\ faults
       /\ Abandon
       /\ UNCHANGED chip
    \/ ReadBreaks("status")

Coefficients == IF chip.updating THEN "garbage" ELSE "sound"

\* bme280_read_calibration, the first block ...
ReadBlock1 ==
    \/ /\ Works("calib_t1")
       /\ block' = Coefficients
       /\ pc' = "calib_h2"
       /\ UNCHANGED <<caller, initialized, device, ready, attempt, calibration, registered,
                      outcome, world, cut, failed>>
    \/ ReadBreaks("calib_t1")

\* ... and the second; a dig_p1 of 0 shows some garbage, once it is stored.
ReadBlock2 ==
    \/ /\ Works("calib_h2")
       /\ calibration' = IF block = "sound" THEN Coefficients ELSE "garbage"
       /\ block' = "unset"
       /\ \/ pc' = "ctrl_hum" /\ UNCHANGED failed
          \/ block = "garbage" /\ pc' = "cleanup" /\ failed' = TRUE
       /\ UNCHANGED <<caller, initialized, device, ready, attempt, registered, outcome,
                      world, cut>>
    \/ ReadBreaks("calib_h2")

\* bme280_configure.
WriteCtrlHum == Write("ctrl_hum", "config", [chip EXCEPT !.hum = TRUE])

WriteConfig == Write("config", "ctrl_meas", [chip EXCEPT !.config = TRUE])

\* The end of bme280_init and of sensor_init.
WriteCtrlMeas ==
    \/ /\ Works("ctrl_meas")
       /\ chip' = [chip EXCEPT !.meas = TRUE, !.humidity = chip.hum]
       /\ ready' = TRUE
       /\ initialized' = TRUE
       /\ pc' = IF caller = "app_main" THEN "idle" ELSE "measure"
       /\ UNCHANGED <<caller, device, attempt, block, calibration, registered, outcome,
                      power, faults, cut, failed>>
    \/ /\ Breaks("ctrl_meas")
       /\ chip' \in {chip, IF power THEN [chip EXCEPT !.meas = TRUE, !.humidity = chip.hum]
                           ELSE chip}
       /\ Abandon

\* bme280_init removes the device, if it can.
Cleanup ==
    /\ pc = "cleanup"
    /\ RemoveDevice
    /\ block' = "unset"
    /\ attempt' = 0
    /\ pc' = "invalidate"
    /\ UNCHANGED <<caller, initialized, ready, calibration, outcome, world, cut, failed>>

-----------------------------------------------------------------------------
(* bme280_read, and what becomes of the measurement.                       *)

Measured ==
    IF /\ calibration = "sound" /\ ~chip.updating
       /\ chip.config /\ chip.meas /\ chip.humidity
    THEN "sound" ELSE "unsound"

\* bme280_read_raw and the compensation, then validate_measurement: an unsound
\* measurement may well be finite and in range.
Measure ==
    \/ /\ Works("measure")
       /\ \/ pc' = "idle" /\ outcome' = Measured
          \/ /\ faults \/ Measured = "unsound"
             /\ pc' = "invalidate" /\ UNCHANGED outcome
       /\ UNCHANGED <<caller, driver, world, cut, failed>>
    \/ /\ Breaks("measure")
       /\ pc' = "invalidate"
       /\ failed' = TRUE
       /\ UNCHANGED <<caller, driver, outcome, world, cut>>

\* Mutant: bme280_deinit is not called.
InvalidateSensorOnly ==
    /\ pc = "invalidate"
    /\ initialized' = FALSE
    /\ pc' = "idle"
    /\ outcome' = IF caller = "app_main" THEN "none" ELSE "rejected"
    /\ UNCHANGED <<caller, device, ready, attempt, block, calibration, registered, world,
                   cut, failed>>
\* sensor_invalidate and bme280_deinit; the cycle ends without a sample.
Invalidate ==
    /\ pc = "invalidate"
    /\ initialized' = FALSE
    /\ ready' = FALSE
    /\ RemoveDevice
    /\ pc' = "idle"
    /\ outcome' = IF caller = "app_main" THEN "none" ELSE "rejected"
    /\ UNCHANGED <<caller, attempt, block, calibration, world, cut, failed>>

Acquire ==
    \/ Begin \/ RemoveLeftOver \/ AddDevice \/ ReadChipId \/ Reset \/ PollStatus
    \/ ReadBlock1 \/ ReadBlock2 \/ WriteCtrlHum \/ WriteConfig \/ WriteCtrlMeas
    \/ Cleanup \/ Measure \/ Invalidate

-----------------------------------------------------------------------------
(* The chip.                                                               *)

software == <<pc, caller, driver, outcome, failed>>

CopyEnds ==
    /\ power /\ chip.updating
    /\ chip' = [chip EXCEPT !.updating = FALSE]
    /\ UNCHANGED <<software, power, faults, cut>>

PowerFails ==
    /\ power /\ faults
    /\ power' = FALSE
    /\ UNCHANGED <<software, chip, faults, cut>>

PowerReturns ==
    /\ ~power
    /\ power' = TRUE
    /\ chip' = PowerUp
    /\ cut' = TRUE
    /\ UNCHANGED <<software, faults>>

FaultsStop ==
    /\ faults
    /\ faults' = FALSE
    /\ UNCHANGED <<software, power, chip, cut>>

Next == Acquire \/ CopyEnds \/ PowerFails \/ PowerReturns \/ FaultsStop

Spec == Init /\ [][Next]_vars

\* telemetry_task runs, the chip does its work, and faults do not go on for
\* ever.
FairSpec ==
    /\ Spec
    /\ WF_vars(Acquire) /\ WF_vars(CopyEnds) /\ WF_vars(PowerReturns)
    /\ WF_vars(FaultsStop)

-----------------------------------------------------------------------------
\* The driver's handle stands for the one device the bus knows: none is lost,
\* none is registered twice (docs/sensor-failure-runbook.md:41).
OneHandle == registered = IF device THEN 1 ELSE 0

\* The flags of the two layers agree and a usable sensor has a device.
FlagsAgree ==
    /\ ready = initialized
    /\ ready => device
    /\ pc = "measure" => ready

\* However often registrations, removals and initialisations fail half-way,
\* sensor.c, bme280.c and the bus agree on what is registered and usable:
\* bme280_init never finds a device that is ready, and bme280_read never finds
\* one that is not.
LayersAgree == OneHandle /\ FlagsAgree

\* A sample that is delivered was measured by a chip that has been reset,
\* calibrated and configured in the right order since it last lost its power,
\* unless no transaction has failed since: only a cut that falls between two
\* cycles goes unnoticed.
SamplesSound == outcome = "unsound" => cut /\ ~failed

\* Once faults stop, sound samples are delivered again, for good and without a
\* reboot, whatever step failed and however many removals did, unless a cut
\* has gone unnoticed.
SamplesResume == <>[](cut /\ ~failed) \/ []<>(pc = "idle" /\ outcome = "sound")

=============================================================================
