------------------------- MODULE DeviceConfigProofs -------------------------
(***************************************************************************)
(* Theorems about DeviceConfig for every set of payloads, every attempt    *)
(* limit and every revision width.                                         *)
(***************************************************************************)
EXTENDS DeviceConfig, TLAPS

\* The states of app_main before load_for_boot has returned.
Early == {"init", "secret", "load", "recoveryOnly"}

\* How app_main's position constrains its RAM: what is loaded when, and
\* which checks lie behind it.
ControlShape ==
    /\ app \in Early => httpd = "stopped" /\ validating = 0
    /\ running = None <=> app \in Early \cup {"unprovisioned"}
    /\ usingCandidate => app \notin {"degraded"} \cup Early
    /\ running = None => ~usingCandidate
    /\ app \in {"activate", "rejected", "aborting", "closing"} => usingCandidate
    /\ app = "sntp" /\ usingCandidate => "station" \in passed
    /\ app = "mqtt" /\ usingCandidate => {"station", "sntp"} \subseteq passed
    /\ app = "activate" => running \in verified

\* The attempts in the metadata never undercount the boots of the blob.
TrialsCounted ==
    /\ trials <= MaxAttempts
    /\ nvs.meta.state = "PENDING" => trials <= nvs.meta.attempts

\* A candidate that can still be booted has not been rolled back.
PendingNotRejected ==
    nvs.meta.state = "PENDING" /\ CandidateUsable(nvs) => nvs.candidate # rejected

\* Between a completed HTTP reset and the next load nothing can write a
\* configuration: the HTTP task is busy restarting or not yet started.
HttpResetProtected ==
    "http" \in reset =>
        /\ nvs.active = None
        /\ nvs.candidate = None
        /\ httpd = "restarting" \/ app \in Early

\* The inductive invariant.
IInv ==
    /\ TypeOK
    /\ ControlShape
    /\ ActiveVerified
    /\ RunsVerified
    /\ CandidateProtected
    /\ TrialsCounted
    /\ PendingNotRejected
    /\ RejectedNotRetried
    /\ HttpResetProtected

-----------------------------------------------------------------------------
(* What the flash operators do to a well-typed flash.                      *)

\* Cancelling, rolling back and the tail of an activation keep the active
\* configuration and leave no candidate that metadata refers to.
LEMMA ClearFacts ==
    ASSUME NEW n \in Nvs, NEW s \in {"ACTIVE", "ROLLBACK"},
           NEW m \in ClearStates(n, s)
    PROVE  /\ m \in Nvs
           /\ m.active = n.active
           /\ m.candidate \in {n.candidate, None}
           /\ m = n \/ (m.meta.state = s /\ m.meta.rev = 0)
<1>1. Settled(s) \in Metadata /\ Settled(s).state = s /\ Settled(s).rev = 0
  BY ConstantsAssumption DEF Settled, Metadata
<1>2. CASE m = n
  BY <1>2 DEF Nvs
<1>3. CASE m = Decided(n, s)
  BY <1>1, <1>3 DEF Decided, Nvs
<1>4. CASE m = Cleared(n, s)
  BY <1>1, <1>4 DEF Cleared, Decided, Nvs, MaybeConfig
<1>5. QED
  BY <1>2, <1>3, <1>4 DEF ClearStates

\* Staging keeps the active configuration; a candidate that changed is the
\* staged one.
LEMMA StageFacts ==
    ASSUME NEW n \in Nvs, NEW c \in Config, NEW m \in StageStates(n, c)
    PROVE  /\ m \in Nvs
           /\ m.active = n.active
           /\ \/ m = n
              \/ /\ m.candidate = c
                 /\ \/ m.meta = n.meta
                    \/ /\ m.meta.state = "PENDING"
                       /\ m.meta.rev = c.rev
                       /\ m.meta.attempts = 0
<1> DEFINE meta == [state |-> "PENDING", rev |-> c.rev, attempts |-> 0]
<1>1. meta \in Metadata /\ c \in MaybeConfig
  BY ConstantsAssumption DEF Metadata, Config, MaybeConfig
<1>2. CASE m = n
  BY <1>2
<1>3. CASE m = CandidateWritten(n, c)
  BY <1>1, <1>3 DEF CandidateWritten, Nvs
<1>4. CASE m = Staged(n, c)
  <2>1. m = [[n EXCEPT !.candidate = c] EXCEPT !.meta = meta]
    BY <1>4 DEF Staged, CandidateWritten
  <2>2. m \in Nvs /\ m.active = n.active /\ m.candidate = c /\ m.meta = meta
    BY <1>1, <2>1 DEF Nvs
  <2>3. QED
    BY <2>2
<1>5. QED
  BY <1>2, <1>3, <1>4 DEF StageStates

\* Activation writes the candidate into the active key and changes nothing
\* that makes a candidate bootable.
LEMMA ActivateFacts ==
    ASSUME NEW n \in Nvs, NEW m \in ActivateStates(n)
    PROVE  /\ m \in Nvs
           /\ m.active \in {n.active, n.candidate}
           /\ m.candidate \in {n.candidate, None}
           /\ m.meta = n.meta \/ (m.meta.state = "ACTIVE" /\ m.meta.rev = 0)
<1>1. ActiveWritten(n) \in Nvs /\ ActiveWritten(n).active = n.candidate
      /\ ActiveWritten(n).candidate = n.candidate /\ ActiveWritten(n).meta = n.meta
  BY DEF ActiveWritten, Nvs
<1>2. CASE m = n
  BY <1>2 DEF Nvs
<1>3. CASE m \in ClearStates(ActiveWritten(n), "ACTIVE")
  BY <1>1, <1>3, ClearFacts
<1>4. QED
  BY <1>2, <1>3 DEF ActivateStates

\* An interrupted erase keeps each key or removes it.
LEMMA EraseFacts ==
    ASSUME NEW n \in Nvs, NEW m \in PartlyErased(n)
    PROVE  /\ m \in Nvs
           /\ m.active \in {n.active, None}
           /\ m.candidate \in {n.candidate, None}
           /\ m.meta = n.meta \/ (m.meta.state = "NONE" /\ m.meta.rev = 0)
<1>1. Settled("NONE") \in Metadata
      /\ Settled("NONE").state = "NONE" /\ Settled("NONE").rev = 0
  BY ConstantsAssumption DEF Settled, Metadata
<1>2. m \in [active : {n.active, None}, candidate : {n.candidate, None},
             meta : {n.meta, Settled("NONE")}, setup : {n.setup, FALSE}]
  BY DEF PartlyErased
<1>3. QED
  BY <1>1, <1>2 DEF Nvs, MaybeConfig

\* An erased flash is well typed and holds no configuration.
LEMMA BlankFacts ==
    /\ Blank \in Nvs
    /\ Blank.active = None /\ Blank.candidate = None
    /\ Blank.meta.state = "NONE" /\ Blank.meta.rev = 0
BY ConstantsAssumption DEF Blank, Settled, Nvs, Metadata, MaybeConfig

\* Recording an attempt changes only the counter.
LEMMA TriedFacts ==
    ASSUME NEW n \in Nvs, n.meta.attempts < MaxAttempts
    PROVE  /\ Tried(n) \in Nvs
           /\ Tried(n).active = n.active /\ Tried(n).candidate = n.candidate
           /\ Tried(n).meta.state = n.meta.state /\ Tried(n).meta.rev = n.meta.rev
           /\ Tried(n).meta.attempts = n.meta.attempts + 1
<1>1. n.meta \in Metadata /\ n.meta.attempts + 1 \in 0..MaxAttempts
  BY ConstantsAssumption DEF Nvs, Metadata
<1> DEFINE meta == [n.meta EXCEPT !.attempts = @ + 1]
<1>2. /\ meta \in Metadata
      /\ meta.state = n.meta.state /\ meta.rev = n.meta.rev
      /\ meta.attempts = n.meta.attempts + 1
  BY <1>1 DEF Metadata
<1>3. Tried(n) = [n EXCEPT !.meta = meta]
  BY DEF Tried
<1> HIDE DEF meta
<1>4. QED
  BY <1>2, <1>3 DEF Nvs

\* The types the steps below need, out of the invariant.
LEMMA TypeFacts ==
    /\ None \in MaybeConfig /\ Config \subseteq MaybeConfig
    /\ \A c \in Config : c # None /\ c.rev \in 0..MaxRevision /\ c.rev # 0
    /\ 0 \in 0..MaxRevision
    /\ \A n \in Nvs : /\ n.active \in MaybeConfig /\ n.candidate \in MaybeConfig
                     /\ n.meta.attempts \in 0..MaxAttempts
BY ConstantsAssumption, NoneAssumption DEF MaybeConfig, Config, Nvs, Metadata

\* The invariant holds when the device is switched on for the first time.
LEMMA InitIInv == Init => IInv
<1> SUFFICES ASSUME Init PROVE IInv
  OBVIOUS
<1> USE DEF Init
<1>1. TypeOK
  <2>1. nvs \in Nvs /\ validating \in 0..MaxRevision /\ trials \in Nat
    BY BlankFacts, ConstantsAssumption
  <2>2. app \in AppStates
    BY DEF AppStates
  <2>3. running \in MaybeConfig /\ rejected \in MaybeConfig
    BY DEF MaybeConfig
  <2>4. QED
    BY <2>1, <2>2, <2>3 DEF TypeOK
<1>2. ControlShape
  BY DEF ControlShape, Early
<1>3. ActiveVerified /\ RunsVerified /\ CandidateProtected
  BY BlankFacts DEF ActiveVerified, RunsVerified, CandidateProtected
<1>4. TrialsCounted /\ PendingNotRejected
  BY BlankFacts, ConstantsAssumption DEF TrialsCounted, PendingNotRejected
<1>5. RejectedNotRetried /\ HttpResetProtected
  BY DEF RejectedNotRetried, HttpResetProtected
<1>6. QED
  BY <1>1, <1>2, <1>3, <1>4, <1>5 DEF IInv

-----------------------------------------------------------------------------
(* Every action preserves the invariant.                                   *)

\* Starting the storage and the serial task touches neither flash nor history.
LEMMA StorageInitIInv ==
    ASSUME IInv, StorageInit PROVE IInv'
<1> USE DEF IInv, StorageInit, history
<1>1. TypeOK'
  BY TypeFacts DEF TypeOK, AppStates, Validating, Checks
<1>2. ControlShape'
  BY DEF ControlShape, Early
<1>3. ActiveVerified'
  BY DEF ActiveVerified
<1>4. RunsVerified'
  BY DEF RunsVerified
<1>5. CandidateProtected'
  BY TypeFacts DEF CandidateProtected, Validating, Checks
<1>6. TrialsCounted'
  BY DEF TrialsCounted
<1>7. PendingNotRejected'
  BY DEF PendingNotRejected
<1>8. RejectedNotRetried'
  BY TypeFacts DEF RejectedNotRetried, Validating, Checks
<1>9. HttpResetProtected'
  BY TypeFacts DEF HttpResetProtected, ControlShape, Early
<1>10. QED
  BY <1>1, <1>2, <1>3, <1>4, <1>5, <1>6, <1>7, <1>8, <1>9

\* The first read of apply_handler.
LEMMA ApplyBeginIInv ==
    ASSUME IInv, ApplyBegin PROVE IInv'
<1> USE DEF IInv, ApplyBegin, history
<1>1. TypeOK'
  BY TypeFacts DEF TypeOK, AppStates, Validating, Checks
<1>2. ControlShape'
  BY DEF ControlShape, Early
<1>3. ActiveVerified'
  BY DEF ActiveVerified
<1>4. RunsVerified'
  BY DEF RunsVerified
<1>5. CandidateProtected'
  BY DEF CandidateProtected
<1>6. TrialsCounted'
  BY DEF TrialsCounted
<1>7. PendingNotRejected'
  BY DEF PendingNotRejected
<1>8. RejectedNotRetried'
  BY DEF RejectedNotRetried
<1>9. HttpResetProtected'
  BY DEF HttpResetProtected
<1>10. QED
  BY <1>1, <1>2, <1>3, <1>4, <1>5, <1>6, <1>7, <1>8, <1>9

\* The second read of apply_handler: the task restarts or is idle again.
LEMMA ApplyDecideIInv ==
    ASSUME IInv, ApplyDecide PROVE IInv'
<1> USE DEF IInv, ApplyDecide, history
<1>1. TypeOK'
  BY TypeFacts DEF TypeOK, AppStates, Validating, Checks
<1>2. ControlShape'
  BY DEF ControlShape, Early
<1>3. ActiveVerified'
  BY DEF ActiveVerified
<1>4. RunsVerified'
  BY DEF RunsVerified
<1>5. CandidateProtected'
  BY DEF CandidateProtected
<1>6. TrialsCounted'
  BY DEF TrialsCounted
<1>7. PendingNotRejected'
  BY DEF PendingNotRejected
<1>8. RejectedNotRetried'
  BY DEF RejectedNotRetried
<1>9. HttpResetProtected'
  BY DEF HttpResetProtected
<1>10. QED
  BY <1>1, <1>2, <1>3, <1>4, <1>5, <1>6, <1>7, <1>8, <1>9

\* A requested reboot only makes the HTTP task busy.
LEMMA RebootRequestIInv ==
    ASSUME IInv, RebootRequest PROVE IInv'
<1> USE DEF IInv, RebootRequest, history
<1>1. TypeOK'
  BY TypeFacts DEF TypeOK, AppStates, Validating, Checks
<1>2. ControlShape'
  BY DEF ControlShape, Early
<1>3. ActiveVerified'
  BY DEF ActiveVerified
<1>4. RunsVerified'
  BY DEF RunsVerified
<1>5. CandidateProtected'
  BY DEF CandidateProtected
<1>6. TrialsCounted'
  BY DEF TrialsCounted
<1>7. PendingNotRejected'
  BY DEF PendingNotRejected
<1>8. RejectedNotRetried'
  BY DEF RejectedNotRetried
<1>9. HttpResetProtected'
  BY DEF HttpResetProtected
<1>10. QED
  BY <1>1, <1>2, <1>3, <1>4, <1>5, <1>6, <1>7, <1>8, <1>9

\* Stopping the server removes a writer; after a reset it is busy, not idle.
LEMMA MaintenanceWindowClosesIInv ==
    ASSUME IInv, MaintenanceWindowCloses PROVE IInv'
<1> USE DEF IInv, MaintenanceWindowCloses, history
<1>1. TypeOK'
  BY TypeFacts DEF TypeOK, AppStates, Validating, Checks
<1>2. ControlShape'
  BY DEF ControlShape, Early
<1>3. ActiveVerified'
  BY DEF ActiveVerified
<1>4. RunsVerified'
  BY DEF RunsVerified
<1>5. CandidateProtected'
  BY DEF CandidateProtected
<1>6. TrialsCounted'
  BY DEF TrialsCounted
<1>7. PendingNotRejected'
  BY DEF PendingNotRejected
<1>8. RejectedNotRetried'
  BY DEF RejectedNotRetried
<1>9. HttpResetProtected'
  BY DEF HttpResetProtected
<1>10. QED
  BY <1>1, <1>2, <1>3, <1>4, <1>5, <1>6, <1>7, <1>8, <1>9

\* app_main leaves the candidate path with a configuration already verified.
LEMMA CloseProvisioningIInv ==
    ASSUME IInv, CloseProvisioning PROVE IInv'
<1> USE DEF IInv, CloseProvisioning, history
<1>1. TypeOK'
  BY TypeFacts DEF TypeOK, AppStates, Validating, Checks
<1>2. ControlShape'
  BY DEF ControlShape, Early
<1>3. ActiveVerified'
  BY DEF ActiveVerified
<1>4. RunsVerified'
  BY DEF RunsVerified
<1>5. CandidateProtected'
  BY TypeFacts DEF CandidateProtected, Validating, Checks
<1>6. TrialsCounted'
  BY DEF TrialsCounted
<1>7. PendingNotRejected'
  BY DEF PendingNotRejected
<1>8. RejectedNotRetried'
  BY TypeFacts DEF RejectedNotRetried, Validating, Checks
<1>9. HttpResetProtected'
  BY TypeFacts DEF HttpResetProtected, ControlShape, Early
<1>10. QED
  BY <1>1, <1>2, <1>3, <1>4, <1>5, <1>6, <1>7, <1>8, <1>9

\* RAM is lost, flash and history stay: nothing about the flash may depend on RAM.
LEMMA PowerCycleIInv ==
    ASSUME IInv, PowerCycle PROVE IInv'
<1> USE DEF IInv, PowerCycle
<1>1. TypeOK'
  BY TypeFacts DEF TypeOK, AppStates, Validating, Checks
<1>2. ControlShape'
  BY DEF ControlShape, Early
<1>3. ActiveVerified'
  BY DEF ActiveVerified
<1>4. RunsVerified'
  BY DEF RunsVerified
<1>5. CandidateProtected'
  BY DEF CandidateProtected
<1>6. TrialsCounted'
  BY DEF TrialsCounted
<1>7. PendingNotRejected'
  BY DEF PendingNotRejected
<1>8. RejectedNotRetried'
  BY DEF RejectedNotRetried
<1>9. HttpResetProtected'
  BY TypeFacts DEF HttpResetProtected, ControlShape, Early
<1>10. QED
  BY <1>1, <1>2, <1>3, <1>4, <1>5, <1>6, <1>7, <1>8, <1>9

\* The active configuration is run because ActiveVerified held in the flash.
LEMMA BootActiveIInv ==
    ASSUME IInv, BootActive PROVE IInv'
<1> USE DEF IInv, BootActive, RunActive, RunUnprovisioned
<1>1. TypeOK'
  BY TypeFacts DEF TypeOK, AppStates, Validating, Checks
<1>2. ControlShape'
  BY DEF ControlShape, Early
<1>3. ActiveVerified'
  BY DEF ActiveVerified
<1>4. RunsVerified'
  BY TypeFacts DEF RunsVerified, ActiveVerified, ControlShape, TypeOK
<1>5. CandidateProtected'
  BY DEF CandidateProtected
<1>6. TrialsCounted'
  BY DEF TrialsCounted
<1>7. PendingNotRejected'
  BY DEF PendingNotRejected
<1>8. RejectedNotRetried'
  BY DEF RejectedNotRetried
<1>9. HttpResetProtected'
  BY DEF HttpResetProtected
<1>10. QED
  BY <1>1, <1>2, <1>3, <1>4, <1>5, <1>6, <1>7, <1>8, <1>9

\* The setup secret is a key of its own.
LEMMA GetOrCreateSetupSecretIInv ==
    ASSUME IInv, GetOrCreateSetupSecret PROVE IInv'
<1> USE DEF IInv, GetOrCreateSetupSecret, history
<1>0. nvs' \in Nvs /\ nvs'.active = nvs.active /\ nvs'.candidate = nvs.candidate /\ nvs'.meta = nvs.meta
  BY DEF TypeOK, Nvs
<1>1. TypeOK'
  BY TypeFacts, <1>0 DEF TypeOK, AppStates, Validating, Checks
<1>2. ControlShape'
  BY <1>0 DEF ControlShape, Early
<1>3. ActiveVerified'
  BY <1>0 DEF ActiveVerified
<1>4. RunsVerified'
  BY <1>0 DEF RunsVerified
<1>5. CandidateProtected'
  BY TypeFacts, <1>0 DEF CandidateProtected, Validating, Checks
<1>6. TrialsCounted'
  BY <1>0 DEF TrialsCounted
<1>7. PendingNotRejected'
  BY TypeFacts, <1>0 DEF PendingNotRejected, CandidateUsable, TypeOK
<1>8. RejectedNotRetried'
  BY TypeFacts, <1>0 DEF RejectedNotRetried, Validating, Checks
<1>9. HttpResetProtected'
  BY TypeFacts, <1>0 DEF HttpResetProtected, ControlShape, Early
<1>10. QED
  BY <1>1, <1>2, <1>3, <1>4, <1>5, <1>6, <1>7, <1>8, <1>9

\* The trial is counted in the flash before the candidate is run.
LEMMA BootCandidateIInv ==
    ASSUME IInv, BootCandidate PROVE IInv'
<1> USE DEF IInv, BootCandidate, CandidateUsable
<1>0. nvs.candidate \in Config
  BY TypeFacts DEF TypeOK, MaybeConfig, CandidateUsable
<1>1. TypeOK'
  BY TypeFacts, <1>0, TriedFacts, ConstantsAssumption
     DEF TypeOK, AppStates, Validating, Checks
<1>2. ControlShape'
  BY <1>0 DEF ControlShape, Early
<1>3. ActiveVerified'
  BY TypeFacts, <1>0, TriedFacts, ConstantsAssumption DEF ActiveVerified, TypeOK
<1>4. RunsVerified'
  BY <1>0 DEF RunsVerified
<1>5. CandidateProtected'
  BY TypeFacts, <1>0, TriedFacts, ConstantsAssumption
     DEF CandidateProtected, ControlShape, Early, Validating, Checks, TypeOK
<1>6. TrialsCounted'
  BY TypeFacts, <1>0, TriedFacts, ConstantsAssumption DEF TrialsCounted, TypeOK
<1>7. PendingNotRejected'
  BY TypeFacts, <1>0, TriedFacts, ConstantsAssumption
     DEF PendingNotRejected, CandidateUsable, TypeOK
<1>8. RejectedNotRetried'
  BY TypeFacts, <1>0, TriedFacts, ConstantsAssumption
     DEF RejectedNotRetried, ControlShape, PendingNotRejected, CandidateUsable,
         Validating, Checks, TypeOK, Early
<1>9. HttpResetProtected'
  BY <1>0 DEF HttpResetProtected
<1>10. QED
  BY <1>1, <1>2, <1>3, <1>4, <1>5, <1>6, <1>7, <1>8, <1>9

\* A rollback at boot keeps the active key and settles the metadata.
LEMMA BootAfterRollbackIInv ==
    ASSUME IInv, BootAfterRollback PROVE IInv'
<1> USE DEF IInv, BootAfterRollback, RunActive, RunUnprovisioned, RecordRollback
<1>0. /\ nvs' \in Nvs /\ nvs'.active = nvs.active
      /\ nvs'.candidate \in {nvs.candidate, None}
      /\ nvs'.meta.state = "ROLLBACK"
  BY ClearFacts DEF TypeOK, ClearStates, Cleared, Decided, Settled, Nvs
<1>1. TypeOK'
  BY TypeFacts, <1>0 DEF TypeOK, AppStates, Validating, Checks
<1>2. ControlShape'
  BY <1>0 DEF ControlShape, Early
<1>3. ActiveVerified'
  BY <1>0 DEF ActiveVerified
<1>4. RunsVerified'
  BY TypeFacts, <1>0 DEF RunsVerified, ActiveVerified, ControlShape, TypeOK
<1>5. CandidateProtected'
  BY <1>0 DEF CandidateProtected
<1>6. TrialsCounted'
  BY <1>0 DEF TrialsCounted
<1>7. PendingNotRejected'
  BY <1>0 DEF PendingNotRejected
<1>8. RejectedNotRetried'
  BY <1>0 DEF RejectedNotRetried
<1>9. HttpResetProtected'
  BY <1>0 DEF HttpResetProtected
<1>10. QED
  BY <1>1, <1>2, <1>3, <1>4, <1>5, <1>6, <1>7, <1>8, <1>9

\* Every partial load_for_boot leaves an untouched, tried or rolled back flash.
LEMMA BootFailsIInv ==
    ASSUME IInv, BootFails PROVE IInv'
<1> USE DEF IInv, BootFails, RunUnprovisioned, RecordRollback
<1>0. /\ nvs' \in Nvs /\ nvs'.active = nvs.active
      /\ nvs'.candidate \in {nvs.candidate, None}
      /\ \/ nvs' = nvs
         \/ nvs'.meta.state = "ROLLBACK"
         \/ nvs' = Tried(nvs) /\ nvs.meta.attempts < MaxAttempts
  BY ClearFacts, TriedFacts DEF TypeOK, LoadFailureStates
<1>1. TypeOK'
  BY TypeFacts, <1>0 DEF TypeOK, AppStates, Validating, Checks
<1>2. ControlShape'
  BY <1>0 DEF ControlShape, Early
<1>3. ActiveVerified'
  BY <1>0 DEF ActiveVerified
<1>4. RunsVerified'
  BY <1>0 DEF RunsVerified
<1>5. CandidateProtected'
  BY <1>0 DEF CandidateProtected
<1>6. TrialsCounted'
  BY TypeFacts, <1>0, TriedFacts, ConstantsAssumption DEF TrialsCounted, TypeOK
<1>7. PendingNotRejected'
  BY TypeFacts, <1>0, TriedFacts, ConstantsAssumption
     DEF PendingNotRejected, CandidateUsable, TypeOK
<1>8. RejectedNotRetried'
  BY <1>0 DEF RejectedNotRetried
<1>9. HttpResetProtected'
  BY <1>0 DEF HttpResetProtected
<1>10. QED
  BY <1>1, <1>2, <1>3, <1>4, <1>5, <1>6, <1>7, <1>8, <1>9

\* wifi_wait_for_station: pass, reject, or carry on with the active configuration.
LEMMA StationCheckIInv ==
    ASSUME IInv, StationCheck PROVE IInv'
<1> USE DEF IInv, StationCheck, CheckPassed, CheckFailed, RejectCandidate, RecordRollback
<1>0. /\ nvs' \in Nvs /\ nvs'.active = nvs.active
      /\ nvs'.candidate \in {nvs.candidate, None}
      /\ nvs' = nvs \/ nvs'.meta.state = "ROLLBACK"
  BY ClearFacts DEF TypeOK, CheckPassed, CheckFailed, RejectCandidate, ClearStates
<1>a. running \in Config
  BY TypeFacts DEF TypeOK, MaybeConfig, ControlShape, Early
<1>1. TypeOK'
  BY TypeFacts, <1>0, <1>a DEF TypeOK, AppStates, Validating, Checks
<1>2. ControlShape'
  BY <1>0, <1>a DEF ControlShape, Early
<1>3. ActiveVerified'
  BY <1>0, <1>a DEF ActiveVerified
<1>4. RunsVerified'
  BY <1>0, <1>a DEF RunsVerified
<1>5. CandidateProtected'
  BY TypeFacts, <1>0, <1>a DEF CandidateProtected, Validating, Checks
<1>6. TrialsCounted'
  BY <1>0, <1>a DEF TrialsCounted
<1>7. PendingNotRejected'
  BY <1>0, <1>a DEF PendingNotRejected
<1>8. RejectedNotRetried'
  BY TypeFacts, <1>0, <1>a DEF RejectedNotRetried, Validating, Checks
<1>9. HttpResetProtected'
  BY TypeFacts, <1>0, <1>a DEF HttpResetProtected, ControlShape, Early
<1>10. QED
  BY <1>1, <1>2, <1>3, <1>4, <1>5, <1>6, <1>7, <1>8, <1>9

\* The SNTP check, as StationCheck.
LEMMA SntpCheckIInv ==
    ASSUME IInv, SntpCheck PROVE IInv'
<1> USE DEF IInv, SntpCheck, CheckPassed, CheckFailed, RejectCandidate, RecordRollback
<1>0. /\ nvs' \in Nvs /\ nvs'.active = nvs.active
      /\ nvs'.candidate \in {nvs.candidate, None}
      /\ nvs' = nvs \/ nvs'.meta.state = "ROLLBACK"
  BY ClearFacts DEF TypeOK, CheckPassed, CheckFailed, RejectCandidate, ClearStates
<1>a. running \in Config
  BY TypeFacts DEF TypeOK, MaybeConfig, ControlShape, Early
<1>1. TypeOK'
  BY TypeFacts, <1>0, <1>a DEF TypeOK, AppStates, Validating, Checks
<1>2. ControlShape'
  BY <1>0, <1>a DEF ControlShape, Early
<1>3. ActiveVerified'
  BY <1>0, <1>a DEF ActiveVerified
<1>4. RunsVerified'
  BY <1>0, <1>a DEF RunsVerified
<1>5. CandidateProtected'
  BY TypeFacts, <1>0, <1>a DEF CandidateProtected, Validating, Checks
<1>6. TrialsCounted'
  BY <1>0, <1>a DEF TrialsCounted
<1>7. PendingNotRejected'
  BY <1>0, <1>a DEF PendingNotRejected
<1>8. RejectedNotRetried'
  BY TypeFacts, <1>0, <1>a DEF RejectedNotRetried, Validating, Checks
<1>9. HttpResetProtected'
  BY TypeFacts, <1>0, <1>a DEF HttpResetProtected, ControlShape, Early
<1>10. QED
  BY <1>1, <1>2, <1>3, <1>4, <1>5, <1>6, <1>7, <1>8, <1>9

\* The last check: a candidate that passes it has passed them all.
LEMMA MqttCheckIInv ==
    ASSUME IInv, MqttCheck PROVE IInv'
<1> USE DEF IInv, MqttCheck, CheckPassed, CheckFailed, RejectCandidate, RecordRollback
<1>0. /\ nvs' \in Nvs /\ nvs'.active = nvs.active
      /\ nvs'.candidate \in {nvs.candidate, None}
      /\ nvs' = nvs \/ nvs'.meta.state = "ROLLBACK"
  BY ClearFacts DEF TypeOK, CheckPassed, CheckFailed, RejectCandidate, ClearStates
<1>a. running \in Config
  BY TypeFacts DEF TypeOK, MaybeConfig, ControlShape, Early
<1>1. TypeOK'
  BY TypeFacts, <1>0, <1>a DEF TypeOK, AppStates, Validating, Checks
<1>2. ControlShape'
  <2>1. CASE CheckFailed("degraded")
    BY TypeFacts, <1>0, <1>a, <2>1 DEF ControlShape, Early, TypeOK
  <2>2. CASE CheckPassed("mqtt", IF usingCandidate THEN "activate" ELSE "operational")
    <3>1. usingCandidate => running \in verified'
      BY <2>2 DEF ControlShape, Checks, TypeOK
    <3>2. app' = IF usingCandidate THEN "activate" ELSE "operational"
      BY <2>2
    <3>3. QED
      BY <1>a, TypeFacts, <2>2, <3>1, <3>2 DEF ControlShape, Early
  <2>3. QED
    BY <2>1, <2>2
<1>3. ActiveVerified'
  BY <1>0, <1>a DEF ActiveVerified
<1>4. RunsVerified'
  BY <1>0, <1>a DEF RunsVerified
<1>5. CandidateProtected'
  BY TypeFacts, <1>0, <1>a DEF CandidateProtected, Validating, Checks
<1>6. TrialsCounted'
  BY <1>0, <1>a DEF TrialsCounted
<1>7. PendingNotRejected'
  BY <1>0, <1>a DEF PendingNotRejected
<1>8. RejectedNotRetried'
  BY TypeFacts, <1>0, <1>a DEF RejectedNotRetried, Validating, Checks
<1>9. HttpResetProtected'
  BY TypeFacts, <1>0, <1>a DEF HttpResetProtected, ControlShape, Early
<1>10. QED
  BY <1>1, <1>2, <1>3, <1>4, <1>5, <1>6, <1>7, <1>8, <1>9

\* The active key receives the running configuration, which was verified, or nothing.
LEMMA ActivateCandidateIInv ==
    ASSUME IInv, ActivateCandidate PROVE IInv'
<1> USE DEF IInv, ActivateCandidate, history
<1>0. /\ nvs' \in Nvs
      /\ nvs'.active = nvs.active \/ (nvs'.active = running /\ running \in verified /\ nvs.candidate = running)
      /\ nvs'.candidate \in {nvs.candidate, None}
      /\ nvs'.meta = nvs.meta \/ nvs'.meta.state = "ACTIVE"
  BY ActivateFacts
     DEF TypeOK, ActivateStates, ActivationAllowed, Activated, ClearStates,
         ControlShape
<1>a. running \in Config
  BY TypeFacts DEF TypeOK, MaybeConfig, ControlShape, Early
<1>1. TypeOK'
  BY TypeFacts, <1>0, <1>a DEF TypeOK, AppStates, Validating, Checks
<1>2. ControlShape'
  BY <1>0, <1>a DEF ControlShape, Early
<1>3. ActiveVerified'
  BY <1>0, <1>a DEF ActiveVerified
<1>4. RunsVerified'
  BY TypeFacts, <1>0, <1>a DEF RunsVerified, ControlShape
<1>5. CandidateProtected'
  BY TypeFacts, <1>0, <1>a DEF CandidateProtected, Validating, Checks
<1>6. TrialsCounted'
  BY <1>0, <1>a DEF TrialsCounted
<1>7. PendingNotRejected'
  BY TypeFacts, <1>0, <1>a DEF PendingNotRejected, CandidateUsable, TypeOK
<1>8. RejectedNotRetried'
  BY TypeFacts, <1>0, <1>a DEF RejectedNotRetried, Validating, Checks
<1>9. HttpResetProtected'
  BY TypeFacts, <1>0, <1>a DEF HttpResetProtected, ControlShape, Early
<1>10. QED
  BY <1>1, <1>2, <1>3, <1>4, <1>5, <1>6, <1>7, <1>8, <1>9

\* Staging is excluded while a candidate is validated and after an HTTP reset.
LEMMA CandidatePutIInv ==
    ASSUME NEW data \in Payload, IInv, CandidatePut(data) PROVE IInv'
<1> USE DEF IInv, CandidatePut, hardware
<1> DEFINE c == NextConfig(data)
<1>c. c \in Config
  BY ConstantsAssumption DEF NextConfig, Config, TypeOK, MaybeConfig
<1>0. /\ nvs' \in Nvs /\ nvs'.active = nvs.active
      /\ \/ nvs' = nvs
         \/ /\ nvs'.candidate = c /\ trials' = 0 /\ rejected' = None
            /\ nvs'.meta = nvs.meta \/ nvs'.meta.attempts = 0
  BY <1>c, StageFacts DEF TypeOK
<1>1. TypeOK'
  BY TypeFacts, <1>c, <1>0 DEF TypeOK, AppStates, Validating, Checks
<1>2. ControlShape'
  BY <1>c, <1>0 DEF ControlShape, Early
<1>3. ActiveVerified'
  BY <1>c, <1>0 DEF ActiveVerified
<1>4. RunsVerified'
  BY <1>c, <1>0 DEF RunsVerified
<1>5. CandidateProtected'
  BY <1>c, <1>0 DEF CandidateProtected
<1>6. TrialsCounted'
  BY TypeFacts, <1>c, <1>0, ConstantsAssumption DEF TrialsCounted, TypeOK
<1>7. PendingNotRejected'
  BY TypeFacts, <1>c, <1>0, ConstantsAssumption DEF PendingNotRejected
<1>8. RejectedNotRetried'
  BY TypeFacts, <1>c, <1>0, ConstantsAssumption
     DEF RejectedNotRetried, ControlShape, PendingNotRejected, CandidateUsable,
         Validating, Checks, TypeOK, Early
<1>9. HttpResetProtected'
  BY TypeFacts, <1>c, <1>0, ConstantsAssumption
     DEF HttpResetProtected, ControlShape, Early
<1>10. QED
  BY <1>1, <1>2, <1>3, <1>4, <1>5, <1>6, <1>7, <1>8, <1>9

\* Cancelling settles the metadata before the candidate goes.
LEMMA CandidateDeleteIInv ==
    ASSUME IInv, CandidateDelete PROVE IInv'
<1> USE DEF IInv, CandidateDelete, hardware, history
<1>0. /\ nvs' \in Nvs /\ nvs'.active = nvs.active
      /\ nvs'.candidate \in {nvs.candidate, None}
      /\ nvs' = nvs \/ nvs'.meta.state = "ACTIVE"
  BY ClearFacts DEF TypeOK
<1>1. TypeOK'
  BY TypeFacts, <1>0 DEF TypeOK, AppStates, Validating, Checks
<1>2. ControlShape'
  BY <1>0 DEF ControlShape, Early
<1>3. ActiveVerified'
  BY <1>0 DEF ActiveVerified
<1>4. RunsVerified'
  BY <1>0 DEF RunsVerified
<1>5. CandidateProtected'
  BY <1>0 DEF CandidateProtected
<1>6. TrialsCounted'
  BY <1>0 DEF TrialsCounted
<1>7. PendingNotRejected'
  BY <1>0 DEF PendingNotRejected
<1>8. RejectedNotRetried'
  BY <1>0 DEF RejectedNotRetried
<1>9. HttpResetProtected'
  BY <1>0 DEF HttpResetProtected
<1>10. QED
  BY <1>1, <1>2, <1>3, <1>4, <1>5, <1>6, <1>7, <1>8, <1>9

\* An HTTP reset, complete or interrupted, creates no configuration.
LEMMA FactoryResetIInv ==
    ASSUME IInv, FactoryReset PROVE IInv'
<1> USE DEF IInv, FactoryReset
<1>0. /\ nvs' \in Nvs
      /\ nvs'.active \in {nvs.active, None}
      /\ nvs'.candidate \in {nvs.candidate, None}
      /\ nvs'.meta = nvs.meta \/ nvs'.meta.state = "NONE"
  BY EraseFacts, BlankFacts DEF TypeOK
<1>1. TypeOK'
  BY TypeFacts, <1>0 DEF TypeOK, AppStates, Validating, Checks
<1>2. ControlShape'
  BY <1>0 DEF ControlShape, Early
<1>3. ActiveVerified'
  BY <1>0 DEF ActiveVerified
<1>4. RunsVerified'
  BY <1>0 DEF RunsVerified
<1>5. CandidateProtected'
  BY <1>0 DEF CandidateProtected
<1>6. TrialsCounted'
  BY <1>0 DEF TrialsCounted
<1>7. PendingNotRejected'
  BY TypeFacts, <1>0, BlankFacts DEF PendingNotRejected, CandidateUsable, TypeOK
<1>8. RejectedNotRetried'
  BY <1>0 DEF RejectedNotRetried
<1>9. HttpResetProtected'
  BY TypeFacts, <1>0, BlankFacts DEF HttpResetProtected, ControlShape, Early
<1>10. QED
  BY <1>1, <1>2, <1>3, <1>4, <1>5, <1>6, <1>7, <1>8, <1>9

\* Nor does a serial recovery.
LEMMA SerialRecoverIInv ==
    ASSUME IInv, SerialRecover PROVE IInv'
<1> USE DEF IInv, SerialRecover
<1>0. /\ nvs' \in Nvs
      /\ nvs'.active \in {nvs.active, None}
      /\ nvs'.candidate \in {nvs.candidate, None}
      /\ nvs'.meta = nvs.meta \/ nvs'.meta.state = "NONE"
  BY EraseFacts, BlankFacts DEF TypeOK
<1>1. TypeOK'
  BY TypeFacts, <1>0 DEF TypeOK, AppStates, Validating, Checks
<1>2. ControlShape'
  BY <1>0 DEF ControlShape, Early
<1>3. ActiveVerified'
  BY <1>0 DEF ActiveVerified
<1>4. RunsVerified'
  BY <1>0 DEF RunsVerified
<1>5. CandidateProtected'
  BY <1>0 DEF CandidateProtected
<1>6. TrialsCounted'
  BY <1>0 DEF TrialsCounted
<1>7. PendingNotRejected'
  BY TypeFacts, <1>0, BlankFacts DEF PendingNotRejected, CandidateUsable, TypeOK
<1>8. RejectedNotRetried'
  BY <1>0 DEF RejectedNotRetried
<1>9. HttpResetProtected'
  BY <1>0 DEF HttpResetProtected
<1>10. QED
  BY <1>1, <1>2, <1>3, <1>4, <1>5, <1>6, <1>7, <1>8, <1>9

\* Every step of every task, and every loss of power, preserves the invariant.
LEMMA StepIInv == IInv /\ [Next]_vars => IInv'
<1> SUFFICES ASSUME IInv, [Next]_vars PROVE IInv'
  OBVIOUS
<1>1. CASE AppMain
  BY <1>1, StorageInitIInv, GetOrCreateSetupSecretIInv, BootCandidateIInv,
     BootAfterRollbackIInv, BootActiveIInv, BootFailsIInv, StationCheckIInv,
     SntpCheckIInv, MqttCheckIInv, ActivateCandidateIInv, CloseProvisioningIInv
     DEF AppMain
<1>2. CASE Http
  BY <1>2, CandidatePutIInv, CandidateDeleteIInv, ApplyBeginIInv,
     ApplyDecideIInv, RebootRequestIInv, FactoryResetIInv
     DEF Http
<1>3. CASE MaintenanceWindowCloses
  BY <1>3, MaintenanceWindowClosesIInv
<1>4. CASE SerialRecover
  BY <1>4, SerialRecoverIInv
<1>5. CASE Restart \/ PowerLoss
  BY <1>5, PowerCycleIInv DEF Restart, PowerLoss
<1>6. CASE UNCHANGED vars
  BY <1>6 DEF vars, hardware, history, IInv, TypeOK, ControlShape,
     ActiveVerified, RunsVerified, CandidateProtected, TrialsCounted,
     PendingNotRejected, CandidateUsable, RejectedNotRetried, HttpResetProtected
<1>7. QED
  BY <1>1, <1>2, <1>3, <1>4, <1>5, <1>6 DEF Next

\* The invariant holds throughout.
LEMMA Invariance == Spec => []IInv
<1>1. QED
  BY InitIInv, StepIInv, PTL DEF Spec

-----------------------------------------------------------------------------
(* The theorems.                                                           *)

\* The state of flash, tasks and history is always well typed; in particular
\* the attempt counter load_for_boot writes never passes its limit.
THEOREM TypeCorrect == Spec => []TypeOK
<1>1. IInv => TypeOK
  BY DEF IInv
<1>2. QED
  BY <1>1, Invariance, PTL

\* The active key only ever holds a configuration that passed every check in
\* one boot (device_config_activate_candidate under faults and power loss).
THEOREM ActiveAlwaysVerified == Spec => []ActiveVerified
<1>1. IInv => ActiveVerified
  BY DEF IInv
<1>2. QED
  BY <1>1, Invariance, PTL

\* app_main reaches normal operation only with a verified configuration.
THEOREM AlwaysRunsVerified == Spec => []RunsVerified
<1>1. IInv => RunsVerified
  BY DEF IInv
<1>2. QED
  BY <1>1, Invariance, PTL

\* Nothing exchanges the candidate that app_main is verifying.
THEOREM CandidateAlwaysProtected == Spec => []CandidateProtected
<1>1. IInv => CandidateProtected
  BY DEF IInv
<1>2. QED
  BY <1>1, Invariance, PTL

\* A candidate blob is booted at most MaxAttempts times, for any limit.
THEOREM TrialsAlwaysBounded == Spec => []TrialsBounded
<1>1. IInv => TrialsBounded
  BY DEF IInv, TrialsCounted, TrialsBounded
<1>2. QED
  BY <1>1, Invariance, PTL

\* A candidate whose rollback was recorded is never tried again.
THEOREM RejectedNeverRetried == Spec => []RejectedNotRetried
<1>1. IInv => RejectedNotRetried
  BY DEF IInv
<1>2. QED
  BY <1>1, Invariance, PTL

\* No configuration appears between an HTTP factory reset and the next load.
THEOREM HttpResetAlwaysUnprovisions == Spec => []HttpResetUnprovisions
<1>1. IInv => HttpResetUnprovisions
  BY DEF IInv, HttpResetProtected, HttpResetUnprovisions
<1>2. QED
  BY <1>1, Invariance, PTL

-----------------------------------------------------------------------------
(* Refinement: every flash commit is a step of the abstract store.         *)

\* A step that leaves the active key alone stages, discards or stutters.
LEMMA PendingStep ==
    ASSUME nvs'.active = nvs.active,
           UNCHANGED verified,
           PendingOf(nvs') \in {PendingOf(nvs), None} \cup Config
    PROVE  [Store!Next]_(Store!vars)
<1>1. CASE PendingOf(nvs') = PendingOf(nvs)
  BY <1>1 DEF Store!vars, Pending
<1>2. CASE PendingOf(nvs') = None
  BY <1>2 DEF Store!Next, Store!Discard, Pending
<1>3. CASE PendingOf(nvs') \in Config
  BY <1>3 DEF Store!Next, Store!Stage, Pending
<1>4. QED
  BY <1>1, <1>2, <1>3

\* The commits of a rollback, a cancellation or a boot never change the
\* active key, and keep the pending candidate or discard it.
LEMMA LoadStep ==
    ASSUME IInv, BootCandidate \/ BootAfterRollback \/ BootFails
    PROVE  [Store!Next]_(Store!vars)
<1>1. nvs \in Nvs
  BY DEF IInv, TypeOK
<1>2. nvs' \in ClearStates(nvs, "ROLLBACK") \/ nvs' = nvs
      \/ (nvs' = Tried(nvs) /\ nvs.meta.attempts < MaxAttempts)
  BY DEF BootCandidate, BootAfterRollback, BootFails, ClearStates, LoadFailureStates
<1>3. nvs'.active = nvs.active /\ PendingOf(nvs') \in {PendingOf(nvs), None}
  BY <1>1, <1>2, ClearFacts, TriedFacts DEF PendingOf, CandidateUsable
<1>4. UNCHANGED verified
  BY DEF BootCandidate, BootAfterRollback, BootFails
<1>5. QED
  BY <1>3, <1>4, PendingStep

\* A check verifies the running configuration, or rolls it back, or neither.
LEMMA CheckStep ==
    ASSUME IInv, StationCheck \/ SntpCheck \/ MqttCheck
    PROVE  [Store!Next]_(Store!vars)
<1>1. nvs \in Nvs /\ running \in Config
  BY TypeFacts
     DEF IInv, TypeOK, ControlShape, Early, MaybeConfig, StationCheck, SntpCheck, MqttCheck
<1>2. CASE UNCHANGED nvs /\ verified' \in {verified, verified \cup {running}}
  BY <1>1, <1>2 DEF Store!vars, Store!Next, Store!Verify, Pending
<1>3. CASE nvs' \in ClearStates(nvs, "ROLLBACK") /\ UNCHANGED verified
  <2>1. nvs'.active = nvs.active /\ PendingOf(nvs') \in {PendingOf(nvs), None}
    BY <1>1, <1>3, ClearFacts DEF PendingOf, CandidateUsable
  <2>2. QED
    BY <1>3, <2>1, PendingStep
<1>4. QED
  BY <1>2, <1>3
     DEF StationCheck, SntpCheck, MqttCheck, CheckPassed, CheckFailed,
         RejectCandidate, ClearStates

\* Activation promotes the pending candidate, which was verified.
LEMMA ActivateStep ==
    ASSUME IInv, ActivateCandidate
    PROVE  [Store!Next]_(Store!vars)
<1>1. nvs \in Nvs /\ running \in Config /\ running \in verified /\ UNCHANGED verified
  BY TypeFacts
     DEF IInv, TypeOK, ControlShape, Early, MaybeConfig, ActivateCandidate, history
<1>2. CASE nvs' = nvs
  BY <1>1, <1>2 DEF Store!vars, Pending
<1>3. CASE nvs' # nvs
  <2>1. /\ PendingOf(nvs) = running /\ nvs.candidate = running
        /\ nvs' \in ClearStates(ActiveWritten(nvs), "ACTIVE")
    BY <1>1, <1>3, TypeFacts
       DEF ActivateCandidate, ActivationAllowed, ActivateStates, Activated,
           ClearStates, PendingOf, CandidateUsable
  <2>2. /\ ActiveWritten(nvs) \in Nvs /\ ActiveWritten(nvs).active = running
        /\ ActiveWritten(nvs).candidate = running
        /\ PendingOf(ActiveWritten(nvs)) = running
    BY <1>1, <2>1 DEF ActiveWritten, Nvs, PendingOf, CandidateUsable
  <2>3. nvs'.active = running /\ PendingOf(nvs') \in {running, None}
    BY <2>1, <2>2, ClearFacts DEF PendingOf, CandidateUsable
  <2>4. QED
    BY <1>1, <2>1, <2>3, TypeFacts DEF Store!Next, Store!Promote, Pending
<1>4. QED
  BY <1>2, <1>3

\* Staging: also a stage cut short after the blob was written.
LEMMA StageStep ==
    ASSUME IInv, NEW data \in Payload, CandidatePut(data)
    PROVE  [Store!Next]_(Store!vars)
<1> DEFINE c == NextConfig(data)
<1>1. c \in Config /\ nvs \in Nvs
  BY ConstantsAssumption DEF CandidatePut, NextConfig, Config, IInv, TypeOK, MaybeConfig
<1>2. nvs' \in StageStates(nvs, c) /\ UNCHANGED verified
  BY DEF CandidatePut
<1> HIDE DEF c
<1>3. nvs'.active = nvs.active /\ PendingOf(nvs') \in {PendingOf(nvs), None} \cup Config
  BY <1>1, <1>2, StageFacts DEF PendingOf, CandidateUsable
<1>4. QED
  BY <1>2, <1>3, PendingStep

\* Cancelling discards; both resets erase, completely or in part.
LEMMA ClearStep ==
    ASSUME IInv, CandidateDelete \/ FactoryReset \/ SerialRecover
    PROVE  [Store!Next]_(Store!vars)
<1>1. nvs \in Nvs
  BY DEF IInv, TypeOK
<1>2. CASE CandidateDelete
  <2>1. nvs'.active = nvs.active /\ PendingOf(nvs') \in {PendingOf(nvs), None}
    BY <1>1, <1>2, ClearFacts DEF CandidateDelete, PendingOf, CandidateUsable
  <2>2. QED
    BY <1>2, <2>1, PendingStep DEF CandidateDelete, history
<1>3. CASE FactoryReset \/ SerialRecover
  <2>1. nvs'.active \in {nvs.active, None} /\ PendingOf(nvs') \in {PendingOf(nvs), None}
    BY <1>1, <1>3, EraseFacts, BlankFacts
       DEF FactoryReset, SerialRecover, PendingOf, CandidateUsable
  <2>2. QED
    BY <1>3, <2>1 DEF FactoryReset, SerialRecover, Store!Next, Store!Erase, Pending
<1>4. QED
  BY <1>2, <1>3

\* DeviceConfig implements ConfigStore: the separate commits of active,
\* metadata and candidate, with their failures and power losses, look from
\* outside like a store that stages, promotes and discards in single steps.
THEOREM StoreRefinement == Spec => StoreSpec
<1>1. Init => Store!Init
  BY BlankFacts DEF Init, Store!Init, Pending, PendingOf
<1>2. IInv /\ [Next]_vars => [Store!Next]_(Store!vars)
  <2> SUFFICES ASSUME IInv, [Next]_vars PROVE [Store!Next]_(Store!vars)
    OBVIOUS
  <2>1. CASE UNCHANGED <<nvs, verified>>
    BY <2>1 DEF Store!vars, Pending
  <2>2. CASE GetOrCreateSetupSecret
    <3>1. /\ nvs'.active = nvs.active /\ PendingOf(nvs') = PendingOf(nvs)
          /\ UNCHANGED verified
      BY <2>2 DEF GetOrCreateSetupSecret, history, IInv, TypeOK, Nvs, PendingOf, CandidateUsable
    <3>2. QED
      BY <3>1 DEF Store!vars, Pending
  <2>3. CASE AppMain
    BY <2>1, <2>2, <2>3, LoadStep, CheckStep, ActivateStep
       DEF AppMain, StorageInit, BootActive, CloseProvisioning, history
  <2>4. CASE Http
    BY <2>1, <2>4, StageStep, ClearStep
       DEF Http, ApplyBegin, ApplyDecide, RebootRequest, history
  <2>5. CASE MaintenanceWindowCloses \/ Restart \/ PowerLoss \/ UNCHANGED vars
    BY <2>1, <2>5
       DEF MaintenanceWindowCloses, Restart, PowerLoss, PowerCycle, vars, history
  <2>6. QED
    BY <2>3, <2>4, <2>5, ClearStep DEF Next
<1>3. QED
  BY <1>1, <1>2, Invariance, PTL DEF Spec, StoreSpec, Store!Spec
=============================================================================
