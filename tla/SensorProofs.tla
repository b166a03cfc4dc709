---------------------------- MODULE SensorProofs ----------------------------
(***************************************************************************)
(* Proofs about Sensor, for every number of polls and any sequence of      *)
(* failures.                                                               *)
(***************************************************************************)
EXTENDS Sensor, TLAPS

\* TypeOK in the parts that the steps below treat one by one.
ChipType == [updating : BOOLEAN, hum : BOOLEAN, config : BOOLEAN, meas : BOOLEAN,
             humidity : BOOLEAN]

NumbersTyped == attempt \in 0..(MaxAttempts - 1) /\ registered \in Nat

FlagsTyped ==
    /\ initialized \in BOOLEAN /\ device \in BOOLEAN /\ ready \in BOOLEAN
    /\ power \in BOOLEAN /\ faults \in BOOLEAN
    /\ cut \in BOOLEAN /\ failed \in BOOLEAN

NamesTyped ==
    /\ pc \in {"idle", "remove", "add", "chip_id", "reset", "status", "calib_t1",
               "calib_h2", "ctrl_hum", "config", "ctrl_meas", "measure",
               "cleanup", "invalidate"}
    /\ caller \in {"app_main", "telemetry"}
    /\ block \in {"unset", "sound", "garbage"}
    /\ calibration \in {"unset", "sound", "garbage"}
    /\ outcome \in {"none", "rejected", "sound", "unsound"}

\* The steps of bme280_init that work with a registered device.
Starting == {"chip_id", "reset", "status", "calib_t1", "calib_h2", "ctrl_hum", "config",
             "ctrl_meas", "cleanup"}

Calibrating == {"calib_t1", "calib_h2"}
Configuring == {"ctrl_hum", "config", "ctrl_meas"}

\* sensor_init has succeeded and nothing has failed since.
Usable == ready /\ pc \in {"idle", "measure"}

\* Where a device is registered, and where one is not.
HandlePlaced ==
    /\ pc = "add" => ~device /\ ~ready
    /\ pc \in Starting \cup {"remove"} => device /\ ~ready

\* A failure since the reset has ended the initialisation.
FailuresNoticed ==
    pc \in {"status"} \cup Calibrating \cup Configuring \/ Usable => ~failed

\* What the initialisation has achieved so far, unless a power cut undid it.
Achieved ==
    /\ pc \in Calibrating \cup Configuring \/ Usable => ~chip.updating
    /\ pc = "calib_h2" => block = "sound"
    /\ pc \in Configuring \/ Usable => calibration = "sound"
    /\ pc \in {"config", "ctrl_meas"} => chip.hum
    /\ pc = "ctrl_meas" \/ Usable => chip.config
    /\ Usable => chip.meas /\ chip.humidity

\* A sample is there between two cycles only.
SampleAtRest == outcome \in {"sound", "unsound"} => pc = "idle"

IInv ==
    /\ TypeOK
    /\ LayersAgree
    /\ HandlePlaced
    /\ FailuresNoticed
    /\ ~cut => Achieved
    /\ SampleAtRest
    /\ SamplesSound

-----------------------------------------------------------------------------
\* TypeOK is the conjunction of its parts, in this state and in the next.
LEMMA TypeParts ==
    /\ TypeOK <=> /\ chip \in ChipType
                  /\ NumbersTyped /\ FlagsTyped /\ NamesTyped
    /\ TypeOK' <=> /\ chip' \in ChipType
                   /\ NumbersTyped' /\ FlagsTyped' /\ NamesTyped'
  BY DEF TypeOK, ChipType, NumbersTyped, FlagsTyped, NamesTyped

\* The registers after a power-up are registers.
LEMMA PowerUpType == PowerUp \in ChipType
  BY DEF PowerUp, ChipType

\* bme280_remove_device, whether it succeeds or not, leaves the handle and the
\* bus in agreement.
LEMMA RemoveDeviceFacts ==
    ASSUME device \in BOOLEAN, OneHandle, RemoveDevice
    PROVE  OneHandle' /\ registered' \in Nat /\ device' \in BOOLEAN
<1>1. CASE device /\ device' = FALSE /\ registered' = registered - 1
  <2>1. registered' = 0
    BY <1>1 DEF OneHandle
  <2>2. ~device' /\ device' \in BOOLEAN
    BY <1>1
  <2>3. OneHandle'
    BY <2>1, <2>2, Zenon DEF OneHandle
  <2>4. registered' \in Nat
    BY <2>1
  <2> QED
    BY <2>2, <2>3, <2>4
<1>2. CASE UNCHANGED <<device, registered>>
  <2>1. OneHandle'
    BY <1>2 DEF OneHandle
  <2>2. registered \in Nat
    BY DEF OneHandle
  <2> QED
    BY <1>2, <2>1, <2>2
<1> QED
  BY <1>1, <1>2 DEF RemoveDevice

\* The initial state of start_operational_hardware satisfies the invariant.
LEMMA InitIInv == Init => IInv
<1> SUFFICES ASSUME Init PROVE IInv
  OBVIOUS
<1>1. chip \in ChipType
  BY PowerUpType DEF Init
<1>2. NumbersTyped
  BY AttemptsAssumption DEF Init, NumbersTyped
<1>3. FlagsTyped /\ NamesTyped
  BY DEF Init, FlagsTyped, NamesTyped
<1>4. LayersAgree
  BY DEF Init, LayersAgree, OneHandle, FlagsAgree
<1>5. HandlePlaced
  BY DEF Init, HandlePlaced, Starting
<1>6. FailuresNoticed
  BY DEF Init, FailuresNoticed
<1>7. Achieved
  BY DEF Init, Achieved, Usable, Calibrating, Configuring
<1>8. SampleAtRest /\ SamplesSound
  BY DEF Init, SampleAtRest, SamplesSound
<1> QED
  BY <1>1, <1>2, <1>3, <1>4, <1>5, <1>6, <1>7, <1>8, TypeParts DEF IInv

-----------------------------------------------------------------------------
(* One lemma per action: each preserves the types, the agreement of the    *)
(* layers, and what the initialisation has achieved.                       *)

\* telemetry_model_create begins a cycle.
LEMMA BeginIInv == IInv /\ Begin => IInv'
<1> SUFFICES ASSUME IInv, Begin PROVE IInv'
  OBVIOUS
<1> USE TypeParts DEF IInv, Begin, driver, world
<1>1. chip' \in ChipType
  BY DEF ChipType
<1>2. NumbersTyped'
  BY AttemptsAssumption DEF NumbersTyped
<1>3. FlagsTyped'
  BY DEF FlagsTyped
<1>4. NamesTyped'
  BY DEF NamesTyped
<1>5. OneHandle'
  BY DEF NumbersTyped, FlagsTyped, LayersAgree, OneHandle, HandlePlaced,
     Starting
<1>6. FlagsAgree' /\ HandlePlaced'
  BY DEF FlagsTyped, LayersAgree, FlagsAgree, HandlePlaced, Starting
<1>7. FailuresNoticed'
  BY DEF FlagsTyped, LayersAgree, FlagsAgree, HandlePlaced, Starting,
     FailuresNoticed, Usable, Calibrating, Configuring
<1>8. ~cut' => Achieved'
  BY DEF FlagsTyped, ChipType, LayersAgree, FlagsAgree, HandlePlaced,
     Starting, Achieved, Usable, Calibrating, Configuring
<1>9. SampleAtRest' /\ SamplesSound'
  BY DEF FlagsTyped, ChipType, LayersAgree, FlagsAgree, FailuresNoticed,
     Achieved, Usable, SampleAtRest, SamplesSound
<1> QED
  BY <1>5, <1>1, <1>2, <1>3, <1>4, <1>6, <1>7, <1>8, <1>9 DEF LayersAgree

\* A device left over is removed, or the cycle ends.
LEMMA RemoveLeftOverIInv == IInv /\ RemoveLeftOver => IInv'
<1> SUFFICES ASSUME IInv, RemoveLeftOver PROVE IInv'
  OBVIOUS
<1> USE TypeParts DEF IInv, RemoveLeftOver, driver, world
<1>0. OneHandle' /\ registered' \in Nat /\ device' \in BOOLEAN
  BY RemoveDeviceFacts DEF LayersAgree, FlagsTyped
<1>1. chip' \in ChipType
  BY DEF ChipType
<1>2. NumbersTyped'
  BY AttemptsAssumption, <1>0 DEF NumbersTyped
<1>3. FlagsTyped'
  BY <1>0 DEF FlagsTyped
<1>4. NamesTyped'
  BY DEF NamesTyped
<1>6. FlagsAgree' /\ HandlePlaced'
  BY DEF FlagsTyped, LayersAgree, FlagsAgree, HandlePlaced, Starting,
     RemoveDevice
<1>7. FailuresNoticed'
  BY DEF FlagsTyped, LayersAgree, FlagsAgree, HandlePlaced, Starting,
     FailuresNoticed, Usable, Calibrating, Configuring
<1>8. ~cut' => Achieved'
  BY DEF FlagsTyped, ChipType, LayersAgree, FlagsAgree, HandlePlaced,
     Starting, Achieved, Usable, Calibrating, Configuring
<1>9. SampleAtRest' /\ SamplesSound'
  BY DEF FlagsTyped, ChipType, LayersAgree, FlagsAgree, FailuresNoticed,
     Achieved, Usable, SampleAtRest, SamplesSound
<1> QED
  BY <1>0, <1>1, <1>2, <1>3, <1>4, <1>6, <1>7, <1>8, <1>9 DEF LayersAgree

\* The device is registered where none was.
LEMMA AddDeviceIInv == IInv /\ AddDevice => IInv'
<1> SUFFICES ASSUME IInv, AddDevice PROVE IInv'
  OBVIOUS
<1> USE TypeParts DEF IInv, AddDevice, driver, world
<1>1. chip' \in ChipType
  BY DEF ChipType
<1>2. NumbersTyped'
  BY AttemptsAssumption DEF NumbersTyped
<1>3. FlagsTyped'
  BY DEF FlagsTyped
<1>4. NamesTyped'
  BY DEF NamesTyped
<1>5. OneHandle'
  BY DEF NumbersTyped, FlagsTyped, LayersAgree, OneHandle, HandlePlaced,
     Starting
<1>6. FlagsAgree' /\ HandlePlaced'
  BY DEF FlagsTyped, LayersAgree, FlagsAgree, HandlePlaced, Starting
<1>7. FailuresNoticed'
  BY DEF FlagsTyped, LayersAgree, FlagsAgree, HandlePlaced, Starting,
     FailuresNoticed, Usable, Calibrating, Configuring
<1>8. ~cut' => Achieved'
  BY DEF FlagsTyped, ChipType, LayersAgree, FlagsAgree, HandlePlaced,
     Starting, Achieved, Usable, Calibrating, Configuring
<1>9. SampleAtRest' /\ SamplesSound'
  BY DEF FlagsTyped, ChipType, LayersAgree, FlagsAgree, FailuresNoticed,
     Achieved, Usable, SampleAtRest, SamplesSound
<1> QED
  BY <1>5, <1>1, <1>2, <1>3, <1>4, <1>6, <1>7, <1>8, <1>9 DEF LayersAgree

\* The chip id is read or not.
LEMMA ReadChipIdIInv == IInv /\ ReadChipId => IInv'
<1> SUFFICES ASSUME IInv, ReadChipId PROVE IInv'
  OBVIOUS
<1> USE TypeParts DEF IInv, ReadChipId, Works, Breaks, ReadBreaks, Abandon,
        driver, world
<1>1. chip' \in ChipType
  BY DEF ChipType
<1>2. NumbersTyped'
  BY AttemptsAssumption DEF NumbersTyped
<1>3. FlagsTyped'
  BY DEF FlagsTyped
<1>4. NamesTyped'
  BY DEF NamesTyped
<1>5. OneHandle'
  BY DEF NumbersTyped, FlagsTyped, LayersAgree, OneHandle, HandlePlaced,
     Starting
<1>6. FlagsAgree' /\ HandlePlaced'
  BY DEF FlagsTyped, LayersAgree, FlagsAgree, HandlePlaced, Starting
<1>7. FailuresNoticed'
  BY DEF FlagsTyped, LayersAgree, FlagsAgree, HandlePlaced, Starting,
     FailuresNoticed, Usable, Calibrating, Configuring
<1>8. ~cut' => Achieved'
  BY DEF FlagsTyped, ChipType, LayersAgree, FlagsAgree, HandlePlaced,
     Starting, Achieved, Usable, Calibrating, Configuring
<1>9. SampleAtRest' /\ SamplesSound'
  BY DEF FlagsTyped, ChipType, LayersAgree, FlagsAgree, FailuresNoticed,
     Achieved, Usable, SampleAtRest, SamplesSound
<1> QED
  BY <1>5, <1>1, <1>2, <1>3, <1>4, <1>6, <1>7, <1>8, <1>9 DEF LayersAgree

\* A reset begins the account of cuts and failures anew.
LEMMA ResetIInv == IInv /\ Reset => IInv'
<1> SUFFICES ASSUME IInv, Reset PROVE IInv'
  OBVIOUS
<1> USE TypeParts DEF IInv, Reset, PowerUp, Works, Breaks, Abandon, driver,
        world
<1>1. chip' \in ChipType
  BY PowerUpType DEF ChipType
<1>2. NumbersTyped'
  BY AttemptsAssumption DEF NumbersTyped
<1>3. FlagsTyped'
  BY DEF FlagsTyped
<1>4. NamesTyped'
  BY DEF NamesTyped
<1>5. OneHandle'
  BY DEF NumbersTyped, FlagsTyped, LayersAgree, OneHandle, HandlePlaced,
     Starting
<1>6. FlagsAgree' /\ HandlePlaced'
  BY DEF FlagsTyped, LayersAgree, FlagsAgree, HandlePlaced, Starting
<1>7. FailuresNoticed'
  BY DEF FlagsTyped, LayersAgree, FlagsAgree, HandlePlaced, Starting,
     FailuresNoticed, Usable, Calibrating, Configuring
<1>8. ~cut' => Achieved'
  BY DEF FlagsTyped, ChipType, LayersAgree, FlagsAgree, HandlePlaced,
     Starting, Achieved, Usable, Calibrating, Configuring
<1>9. SampleAtRest' /\ SamplesSound'
  BY DEF FlagsTyped, ChipType, LayersAgree, FlagsAgree, FailuresNoticed,
     Achieved, Usable, SampleAtRest, SamplesSound
<1> QED
  BY <1>5, <1>1, <1>2, <1>3, <1>4, <1>6, <1>7, <1>8, <1>9 DEF LayersAgree

\* The polls end with the copy of the coefficients, or in a failure.
LEMMA PollStatusIInv == IInv /\ PollStatus => IInv'
<1> SUFFICES ASSUME IInv, PollStatus PROVE IInv'
  OBVIOUS
<1> USE TypeParts DEF IInv, PollStatus, Works, Breaks, ReadBreaks, Abandon,
        driver, world
<1>1. chip' \in ChipType
  BY DEF ChipType
<1>2. NumbersTyped'
  BY AttemptsAssumption DEF NumbersTyped
<1>3. FlagsTyped'
  BY DEF FlagsTyped
<1>4. NamesTyped'
  BY DEF NamesTyped
<1>5. OneHandle'
  BY DEF NumbersTyped, FlagsTyped, LayersAgree, OneHandle, HandlePlaced,
     Starting
<1>6. FlagsAgree' /\ HandlePlaced'
  BY DEF FlagsTyped, LayersAgree, FlagsAgree, HandlePlaced, Starting
<1>7. FailuresNoticed'
  BY DEF FlagsTyped, LayersAgree, FlagsAgree, HandlePlaced, Starting,
     FailuresNoticed, Usable, Calibrating, Configuring
<1>8. ~cut' => Achieved'
  BY DEF FlagsTyped, ChipType, LayersAgree, FlagsAgree, HandlePlaced,
     Starting, Achieved, Usable, Calibrating, Configuring
<1>9. SampleAtRest' /\ SamplesSound'
  BY DEF FlagsTyped, ChipType, LayersAgree, FlagsAgree, FailuresNoticed,
     Achieved, Usable, SampleAtRest, SamplesSound
<1> QED
  BY <1>5, <1>1, <1>2, <1>3, <1>4, <1>6, <1>7, <1>8, <1>9 DEF LayersAgree

\* Coefficients are read after the copy has ended.
LEMMA ReadBlock1IInv == IInv /\ ReadBlock1 => IInv'
<1> SUFFICES ASSUME IInv, ReadBlock1 PROVE IInv'
  OBVIOUS
<1> USE TypeParts DEF IInv, ReadBlock1, Coefficients, Works, Breaks,
        ReadBreaks, Abandon, driver, world
<1>1. chip' \in ChipType
  BY DEF ChipType
<1>2. NumbersTyped'
  BY AttemptsAssumption DEF NumbersTyped
<1>3. FlagsTyped'
  BY DEF FlagsTyped
<1>4. NamesTyped'
  BY DEF NamesTyped
<1>5. OneHandle'
  BY DEF NumbersTyped, FlagsTyped, LayersAgree, OneHandle, HandlePlaced,
     Starting
<1>6. FlagsAgree' /\ HandlePlaced'
  BY DEF FlagsTyped, LayersAgree, FlagsAgree, HandlePlaced, Starting
<1>7. FailuresNoticed'
  BY DEF FlagsTyped, LayersAgree, FlagsAgree, HandlePlaced, Starting,
     FailuresNoticed, Usable, Calibrating, Configuring
<1>8. ~cut' => Achieved'
  BY DEF FlagsTyped, ChipType, LayersAgree, FlagsAgree, HandlePlaced,
     Starting, Achieved, Usable, Calibrating, Configuring
<1>9. SampleAtRest' /\ SamplesSound'
  BY DEF FlagsTyped, ChipType, LayersAgree, FlagsAgree, FailuresNoticed,
     Achieved, Usable, SampleAtRest, SamplesSound
<1> QED
  BY <1>5, <1>1, <1>2, <1>3, <1>4, <1>6, <1>7, <1>8, <1>9 DEF LayersAgree

\* Both blocks are sound if the chip kept its power.
LEMMA ReadBlock2IInv == IInv /\ ReadBlock2 => IInv'
<1> SUFFICES ASSUME IInv, ReadBlock2 PROVE IInv'
  OBVIOUS
<1> USE TypeParts DEF IInv, ReadBlock2, Coefficients, Works, Breaks,
        ReadBreaks, Abandon, driver, world
<1>1. chip' \in ChipType
  BY DEF ChipType
<1>2. NumbersTyped'
  BY AttemptsAssumption DEF NumbersTyped
<1>3. FlagsTyped'
  BY DEF FlagsTyped
<1>4. NamesTyped'
  BY DEF NamesTyped
<1>5. OneHandle'
  BY DEF NumbersTyped, FlagsTyped, LayersAgree, OneHandle, HandlePlaced,
     Starting
<1>6. FlagsAgree' /\ HandlePlaced'
  BY DEF FlagsTyped, LayersAgree, FlagsAgree, HandlePlaced, Starting
<1>7. FailuresNoticed'
  BY DEF FlagsTyped, LayersAgree, FlagsAgree, HandlePlaced, Starting,
     FailuresNoticed, Usable, Calibrating, Configuring
<1>8. ~cut' => Achieved'
  BY DEF FlagsTyped, ChipType, LayersAgree, FlagsAgree, HandlePlaced,
     Starting, Achieved, Usable, Calibrating, Configuring
<1>9. SampleAtRest' /\ SamplesSound'
  BY DEF FlagsTyped, ChipType, LayersAgree, FlagsAgree, FailuresNoticed,
     Achieved, Usable, SampleAtRest, SamplesSound
<1> QED
  BY <1>5, <1>1, <1>2, <1>3, <1>4, <1>6, <1>7, <1>8, <1>9 DEF LayersAgree

\* ctrl_hum is written or not.
LEMMA WriteCtrlHumIInv == IInv /\ WriteCtrlHum => IInv'
<1> SUFFICES ASSUME IInv, WriteCtrlHum PROVE IInv'
  OBVIOUS
<1> USE TypeParts DEF IInv, WriteCtrlHum, Write, Works, Breaks, Abandon,
        driver, world
<1>1. chip' \in ChipType
  BY DEF ChipType
<1>2. NumbersTyped'
  BY AttemptsAssumption DEF NumbersTyped
<1>3. FlagsTyped'
  BY DEF FlagsTyped
<1>4. NamesTyped'
  BY DEF NamesTyped
<1>5. OneHandle'
  BY DEF NumbersTyped, FlagsTyped, LayersAgree, OneHandle, HandlePlaced,
     Starting
<1>6. FlagsAgree' /\ HandlePlaced'
  BY DEF FlagsTyped, LayersAgree, FlagsAgree, HandlePlaced, Starting
<1>7. FailuresNoticed'
  BY DEF FlagsTyped, LayersAgree, FlagsAgree, HandlePlaced, Starting,
     FailuresNoticed, Usable, Calibrating, Configuring
<1>8. ~cut' => Achieved'
  BY DEF FlagsTyped, ChipType, LayersAgree, FlagsAgree, HandlePlaced,
     Starting, Achieved, Usable, Calibrating, Configuring
<1>9. SampleAtRest' /\ SamplesSound'
  BY DEF FlagsTyped, ChipType, LayersAgree, FlagsAgree, FailuresNoticed,
     Achieved, Usable, SampleAtRest, SamplesSound
<1> QED
  BY <1>5, <1>1, <1>2, <1>3, <1>4, <1>6, <1>7, <1>8, <1>9 DEF LayersAgree

\* config is written or not.
LEMMA WriteConfigIInv == IInv /\ WriteConfig => IInv'
<1> SUFFICES ASSUME IInv, WriteConfig PROVE IInv'
  OBVIOUS
<1> USE TypeParts DEF IInv, WriteConfig, Write, Works, Breaks, Abandon,
        driver, world
<1>1. chip' \in ChipType
  BY DEF ChipType
<1>2. NumbersTyped'
  BY AttemptsAssumption DEF NumbersTyped
<1>3. FlagsTyped'
  BY DEF FlagsTyped
<1>4. NamesTyped'
  BY DEF NamesTyped
<1>5. OneHandle'
  BY DEF NumbersTyped, FlagsTyped, LayersAgree, OneHandle, HandlePlaced,
     Starting
<1>6. FlagsAgree' /\ HandlePlaced'
  BY DEF FlagsTyped, LayersAgree, FlagsAgree, HandlePlaced, Starting
<1>7. FailuresNoticed'
  BY DEF FlagsTyped, LayersAgree, FlagsAgree, HandlePlaced, Starting,
     FailuresNoticed, Usable, Calibrating, Configuring
<1>8. ~cut' => Achieved'
  BY DEF FlagsTyped, ChipType, LayersAgree, FlagsAgree, HandlePlaced,
     Starting, Achieved, Usable, Calibrating, Configuring
<1>9. SampleAtRest' /\ SamplesSound'
  BY DEF FlagsTyped, ChipType, LayersAgree, FlagsAgree, FailuresNoticed,
     Achieved, Usable, SampleAtRest, SamplesSound
<1> QED
  BY <1>5, <1>1, <1>2, <1>3, <1>4, <1>6, <1>7, <1>8, <1>9 DEF LayersAgree

\* With ctrl_meas everything is configured and the sensor is usable.
LEMMA WriteCtrlMeasIInv == IInv /\ WriteCtrlMeas => IInv'
<1> SUFFICES ASSUME IInv, WriteCtrlMeas PROVE IInv'
  OBVIOUS
<1> USE TypeParts DEF IInv, WriteCtrlMeas, Works, Breaks, Abandon, driver,
        world
<1>1. chip' \in ChipType
  BY DEF ChipType
<1>2. NumbersTyped'
  BY AttemptsAssumption DEF NumbersTyped
<1>3. FlagsTyped'
  BY DEF FlagsTyped
<1>4. NamesTyped'
  BY DEF NamesTyped
<1>5. OneHandle'
  BY DEF NumbersTyped, FlagsTyped, LayersAgree, OneHandle, HandlePlaced,
     Starting
<1>6. FlagsAgree' /\ HandlePlaced'
  BY DEF FlagsTyped, LayersAgree, FlagsAgree, HandlePlaced, Starting
<1>7. FailuresNoticed'
  BY DEF FlagsTyped, LayersAgree, FlagsAgree, HandlePlaced, Starting,
     FailuresNoticed, Usable, Calibrating, Configuring
<1>8. ~cut' => Achieved'
  BY DEF FlagsTyped, ChipType, LayersAgree, FlagsAgree, HandlePlaced,
     Starting, Achieved, Usable, Calibrating, Configuring
<1>9. SampleAtRest' /\ SamplesSound'
  BY DEF FlagsTyped, ChipType, LayersAgree, FlagsAgree, FailuresNoticed,
     Achieved, Usable, SampleAtRest, SamplesSound
<1> QED
  BY <1>5, <1>1, <1>2, <1>3, <1>4, <1>6, <1>7, <1>8, <1>9 DEF LayersAgree

\* A failed initialisation ends, with or without its device.
LEMMA CleanupIInv == IInv /\ Cleanup => IInv'
<1> SUFFICES ASSUME IInv, Cleanup PROVE IInv'
  OBVIOUS
<1> USE TypeParts DEF IInv, Cleanup, driver, world
<1>0. OneHandle' /\ registered' \in Nat /\ device' \in BOOLEAN
  BY RemoveDeviceFacts DEF LayersAgree, FlagsTyped
<1>1. chip' \in ChipType
  BY DEF ChipType
<1>2. NumbersTyped'
  BY AttemptsAssumption, <1>0 DEF NumbersTyped
<1>3. FlagsTyped'
  BY <1>0 DEF FlagsTyped
<1>4. NamesTyped'
  BY DEF NamesTyped
<1>6. FlagsAgree' /\ HandlePlaced'
  BY DEF FlagsTyped, LayersAgree, FlagsAgree, HandlePlaced, Starting,
     RemoveDevice
<1>7. FailuresNoticed'
  BY DEF FlagsTyped, LayersAgree, FlagsAgree, HandlePlaced, Starting,
     FailuresNoticed, Usable, Calibrating, Configuring
<1>8. ~cut' => Achieved'
  BY DEF FlagsTyped, ChipType, LayersAgree, FlagsAgree, HandlePlaced,
     Starting, Achieved, Usable, Calibrating, Configuring
<1>9. SampleAtRest' /\ SamplesSound'
  BY DEF FlagsTyped, ChipType, LayersAgree, FlagsAgree, FailuresNoticed,
     Achieved, Usable, SampleAtRest, SamplesSound
<1> QED
  BY <1>0, <1>1, <1>2, <1>3, <1>4, <1>6, <1>7, <1>8, <1>9 DEF LayersAgree

\* A usable sensor delivers a sound sample unless a cut went unnoticed.
LEMMA MeasureIInv == IInv /\ Measure => IInv'
<1> SUFFICES ASSUME IInv, Measure PROVE IInv'
  OBVIOUS
<1> USE TypeParts DEF IInv, Measure, Measured, Works, Breaks, driver, world
<1>1. chip' \in ChipType
  BY DEF ChipType
<1>2. NumbersTyped'
  BY AttemptsAssumption DEF NumbersTyped
<1>3. FlagsTyped'
  BY DEF FlagsTyped
<1>4. NamesTyped'
  BY DEF NamesTyped
<1>5. OneHandle'
  BY DEF NumbersTyped, FlagsTyped, LayersAgree, OneHandle, HandlePlaced,
     Starting
<1>6. FlagsAgree' /\ HandlePlaced'
  BY DEF FlagsTyped, LayersAgree, FlagsAgree, HandlePlaced, Starting
<1>7. FailuresNoticed'
  BY DEF FlagsTyped, LayersAgree, FlagsAgree, HandlePlaced, Starting,
     FailuresNoticed, Usable, Calibrating, Configuring
<1>8. ~cut' => Achieved'
  BY DEF FlagsTyped, ChipType, LayersAgree, FlagsAgree, HandlePlaced,
     Starting, Achieved, Usable, Calibrating, Configuring
<1>9. SampleAtRest' /\ SamplesSound'
  BY DEF FlagsTyped, ChipType, LayersAgree, FlagsAgree, FailuresNoticed,
     Achieved, Usable, SampleAtRest, SamplesSound
<1> QED
  BY <1>5, <1>1, <1>2, <1>3, <1>4, <1>6, <1>7, <1>8, <1>9 DEF LayersAgree

\* Both layers forget the sensor.
LEMMA InvalidateIInv == IInv /\ Invalidate => IInv'
<1> SUFFICES ASSUME IInv, Invalidate PROVE IInv'
  OBVIOUS
<1> USE TypeParts DEF IInv, Invalidate, driver, world
<1>0. OneHandle' /\ registered' \in Nat /\ device' \in BOOLEAN
  BY RemoveDeviceFacts DEF LayersAgree, FlagsTyped
<1>1. chip' \in ChipType
  BY DEF ChipType
<1>2. NumbersTyped'
  BY AttemptsAssumption, <1>0 DEF NumbersTyped
<1>3. FlagsTyped'
  BY <1>0 DEF FlagsTyped
<1>4. NamesTyped'
  BY DEF NamesTyped
<1>6. FlagsAgree' /\ HandlePlaced'
  BY DEF FlagsTyped, LayersAgree, FlagsAgree, HandlePlaced, Starting,
     RemoveDevice
<1>7. FailuresNoticed'
  BY DEF FlagsTyped, LayersAgree, FlagsAgree, HandlePlaced, Starting,
     FailuresNoticed, Usable, Calibrating, Configuring
<1>8. ~cut' => Achieved'
  BY DEF FlagsTyped, ChipType, LayersAgree, FlagsAgree, HandlePlaced,
     Starting, Achieved, Usable, Calibrating, Configuring
<1>9. SampleAtRest' /\ SamplesSound'
  BY DEF FlagsTyped, ChipType, LayersAgree, FlagsAgree, FailuresNoticed,
     Achieved, Usable, SampleAtRest, SamplesSound
<1> QED
  BY <1>0, <1>1, <1>2, <1>3, <1>4, <1>6, <1>7, <1>8, <1>9 DEF LayersAgree

\* The copy of the coefficients ends.
LEMMA CopyEndsIInv == IInv /\ CopyEnds => IInv'
<1> SUFFICES ASSUME IInv, CopyEnds PROVE IInv'
  OBVIOUS
<1> USE TypeParts DEF IInv, CopyEnds, software, driver, world
<1>1. chip' \in ChipType
  BY DEF ChipType
<1>2. NumbersTyped'
  BY AttemptsAssumption DEF NumbersTyped
<1>3. FlagsTyped'
  BY DEF FlagsTyped
<1>4. NamesTyped'
  BY DEF NamesTyped
<1>5. OneHandle'
  BY DEF NumbersTyped, FlagsTyped, LayersAgree, OneHandle, HandlePlaced,
     Starting
<1>6. FlagsAgree' /\ HandlePlaced'
  BY DEF FlagsTyped, LayersAgree, FlagsAgree, HandlePlaced, Starting
<1>7. FailuresNoticed'
  BY DEF FlagsTyped, LayersAgree, FlagsAgree, HandlePlaced, Starting,
     FailuresNoticed, Usable, Calibrating, Configuring
<1>8. ~cut' => Achieved'
  BY DEF FlagsTyped, ChipType, LayersAgree, FlagsAgree, HandlePlaced,
     Starting, Achieved, Usable, Calibrating, Configuring
<1>9. SampleAtRest' /\ SamplesSound'
  BY DEF FlagsTyped, ChipType, LayersAgree, FlagsAgree, FailuresNoticed,
     Achieved, Usable, SampleAtRest, SamplesSound
<1> QED
  BY <1>5, <1>1, <1>2, <1>3, <1>4, <1>6, <1>7, <1>8, <1>9 DEF LayersAgree

\* The power goes.
LEMMA PowerFailsIInv == IInv /\ PowerFails => IInv'
<1> SUFFICES ASSUME IInv, PowerFails PROVE IInv'
  OBVIOUS
<1> USE TypeParts DEF IInv, PowerFails, software, driver, world
<1>1. chip' \in ChipType
  BY DEF ChipType
<1>2. NumbersTyped'
  BY AttemptsAssumption DEF NumbersTyped
<1>3. FlagsTyped'
  BY DEF FlagsTyped
<1>4. NamesTyped'
  BY DEF NamesTyped
<1>5. OneHandle'
  BY DEF NumbersTyped, FlagsTyped, LayersAgree, OneHandle, HandlePlaced,
     Starting
<1>6. FlagsAgree' /\ HandlePlaced'
  BY DEF FlagsTyped, LayersAgree, FlagsAgree, HandlePlaced, Starting
<1>7. FailuresNoticed'
  BY DEF FlagsTyped, LayersAgree, FlagsAgree, HandlePlaced, Starting,
     FailuresNoticed, Usable, Calibrating, Configuring
<1>8. ~cut' => Achieved'
  BY DEF FlagsTyped, ChipType, LayersAgree, FlagsAgree, HandlePlaced,
     Starting, Achieved, Usable, Calibrating, Configuring
<1>9. SampleAtRest' /\ SamplesSound'
  BY DEF FlagsTyped, ChipType, LayersAgree, FlagsAgree, FailuresNoticed,
     Achieved, Usable, SampleAtRest, SamplesSound
<1> QED
  BY <1>5, <1>1, <1>2, <1>3, <1>4, <1>6, <1>7, <1>8, <1>9 DEF LayersAgree

\* The power returns to a chip that is not configured.
LEMMA PowerReturnsIInv == IInv /\ PowerReturns => IInv'
<1> SUFFICES ASSUME IInv, PowerReturns PROVE IInv'
  OBVIOUS
<1> USE TypeParts DEF IInv, PowerReturns, PowerUp, software, driver, world
<1>1. chip' \in ChipType
  BY PowerUpType DEF ChipType
<1>2. NumbersTyped'
  BY AttemptsAssumption DEF NumbersTyped
<1>3. FlagsTyped'
  BY DEF FlagsTyped
<1>4. NamesTyped'
  BY DEF NamesTyped
<1>5. OneHandle'
  BY DEF NumbersTyped, FlagsTyped, LayersAgree, OneHandle, HandlePlaced,
     Starting
<1>6. FlagsAgree' /\ HandlePlaced'
  BY DEF FlagsTyped, LayersAgree, FlagsAgree, HandlePlaced, Starting
<1>7. FailuresNoticed'
  BY DEF FlagsTyped, LayersAgree, FlagsAgree, HandlePlaced, Starting,
     FailuresNoticed, Usable, Calibrating, Configuring
<1>8. ~cut' => Achieved'
  BY DEF FlagsTyped, ChipType, LayersAgree, FlagsAgree, HandlePlaced,
     Starting, Achieved, Usable, Calibrating, Configuring
<1>9. SampleAtRest' /\ SamplesSound'
  BY DEF FlagsTyped, ChipType, LayersAgree, FlagsAgree, FailuresNoticed,
     Achieved, Usable, SampleAtRest, SamplesSound
<1> QED
  BY <1>5, <1>1, <1>2, <1>3, <1>4, <1>6, <1>7, <1>8, <1>9 DEF LayersAgree

\* Nothing fails any more.
LEMMA FaultsStopIInv == IInv /\ FaultsStop => IInv'
<1> SUFFICES ASSUME IInv, FaultsStop PROVE IInv'
  OBVIOUS
<1> USE TypeParts DEF IInv, FaultsStop, software, driver, world
<1>1. chip' \in ChipType
  BY DEF ChipType
<1>2. NumbersTyped'
  BY AttemptsAssumption DEF NumbersTyped
<1>3. FlagsTyped'
  BY DEF FlagsTyped
<1>4. NamesTyped'
  BY DEF NamesTyped
<1>5. OneHandle'
  BY DEF NumbersTyped, FlagsTyped, LayersAgree, OneHandle, HandlePlaced,
     Starting
<1>6. FlagsAgree' /\ HandlePlaced'
  BY DEF FlagsTyped, LayersAgree, FlagsAgree, HandlePlaced, Starting
<1>7. FailuresNoticed'
  BY DEF FlagsTyped, LayersAgree, FlagsAgree, HandlePlaced, Starting,
     FailuresNoticed, Usable, Calibrating, Configuring
<1>8. ~cut' => Achieved'
  BY DEF FlagsTyped, ChipType, LayersAgree, FlagsAgree, HandlePlaced,
     Starting, Achieved, Usable, Calibrating, Configuring
<1>9. SampleAtRest' /\ SamplesSound'
  BY DEF FlagsTyped, ChipType, LayersAgree, FlagsAgree, FailuresNoticed,
     Achieved, Usable, SampleAtRest, SamplesSound
<1> QED
  BY <1>5, <1>1, <1>2, <1>3, <1>4, <1>6, <1>7, <1>8, <1>9 DEF LayersAgree

\* Every bus transaction, working or failing, and everything the chip does
\* preserves the invariant.
LEMMA NextIInv == IInv /\ [Next]_vars => IInv'
<1> SUFFICES ASSUME IInv, [Next]_vars PROVE IInv'
  OBVIOUS
<1>1. CASE Next
  BY <1>1, BeginIInv, RemoveLeftOverIInv, AddDeviceIInv, ReadChipIdIInv,
     ResetIInv, PollStatusIInv, ReadBlock1IInv, ReadBlock2IInv,
     WriteCtrlHumIInv, WriteConfigIInv, WriteCtrlMeasIInv, CleanupIInv,
     MeasureIInv, InvalidateIInv, CopyEndsIInv, PowerFailsIInv,
     PowerReturnsIInv, FaultsStopIInv DEF Next, Acquire
<1>2. CASE UNCHANGED vars
  BY <1>2
  DEF vars, driver, world, IInv, TypeOK, LayersAgree, OneHandle, FlagsAgree,
      HandlePlaced, FailuresNoticed, Achieved, SampleAtRest, SamplesSound, Usable
<1> QED
  BY <1>1, <1>2

-----------------------------------------------------------------------------
\* The invariant holds in every reachable state.
THEOREM SensorInvariant == Spec => []IInv
  BY InitIInv, NextIInv, PTL DEF Spec

\* Every variable keeps its type; the polls of bme280_wait_for_calibration_copy
\* stay below their limit.
THEOREM SensorTypeCorrect == Spec => []TypeOK
  BY SensorInvariant, PTL DEF IInv

\* sensor.c, bme280.c and the bus agree on what is registered and usable.
THEOREM LayersAlwaysAgree == Spec => []LayersAgree
  BY SensorInvariant, PTL DEF IInv

\* A sample comes from a chip that is calibrated and configured, unless a power
\* cut between two cycles has gone unnoticed.
THEOREM SamplesAlwaysSound == Spec => []SamplesSound
  BY SensorInvariant, PTL DEF IInv

=============================================================================
