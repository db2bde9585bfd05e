---- MODULE OutputAutoDetectSafety_proofs ----
(***************************************************************************)
(* The safety properties of AUTO output, proved for every value of the     *)
(* constants.  Each one is made inductive by naming what its actions rely  *)
(* on; the parts below need type correctness and the parts before them.    *)
(***************************************************************************)
EXTENDS OutputAutoDetect_proofs

(***************************************************************************)
(* Registers are handed over once                                          *)
(***************************************************************************)
LEMMA HandedResolved ==
  ASSUME TypeOK, HandOffReadOnce, phase = "running", NEW mode \in RuntimeMode,
         NEW state \in AutoState, state # Idle
  PROVE  /\ Resolved(mode, state).magic /\ Resolved(mode, state).state = state
         /\ Resolved(mode, state).mode = mode
         /\ Resolved(mode, state).stage = "GENERIC"
BY SanitizedModes DEF HandOffReadOnce, Resolved, EmptyScratch

(* Registers that hand over a decision without a probe stage, or nothing.  *)
Consistent(registers) ==
  registers.magic => registers.state # Idle /\ registers.stage = "GENERIC"

LEMMA HandedPreserved ==
  ASSUME TypeOK, HandOffReadOnce, phase = "running", NEW mode \in RuntimeMode,
         NEW win \in Preference, NEW mister \in Preference
  PROVE  Consistent(Preserved(mode, win, mister))
<1>1. CASE CanPreserveResolved(mode, win, mister)
  <2>1. autoDetectState # Idle /\ autoDetectState \in AutoState
    BY <1>1 DEF CanPreserveResolved, HasResolved, TypeOK
  <2>. QED BY <1>1, <2>1, HandedResolved DEF Preserved, Consistent
<1>2. CASE ~CanPreserveResolved(mode, win, mister)
  <2>1. MisterOutput(mister) \in RuntimeMode /\ Fallback \in AutoState /\ Fallback # Idle
    BY SanitizedModes DEF AutoState, Fallback, Idle
  <2>. QED BY <1>2, <2>1, HandedResolved DEF Preserved, Consistent
<1>. QED BY <1>1, <1>2

LEMMA HandOffStep ==
  ASSUME DelayAssumption, BoundAssumption, TypeOK, HandOffReadOnce, [Next]_vars
  PROVE  HandOffReadOnce'
<1>. USE DEF HandOffReadOnce
<1>1. phase = "running" => Consistent(scratch)
  BY DEF EmptyScratch, Consistent
<1>2. Consistent(EmptyScratch)
  BY DEF EmptyScratch, Consistent
<1>3. CASE Tick \/ Host \/ UNCHANGED vars
  BY <1>3 DEF Tick, Host, HostConnects, HostConfigures, BusReset, HostAsks, vars
<1>4. CASE PowerCycle \/ \E psx \in BOOLEAN : Boot(psx)
  BY <1>2, <1>4 DEF PowerCycle, Reboot, Boot, Consistent
<1>5. CASE AutoDetectProcess
  <2>1. phase = "running"
    BY <1>5 DEF AutoDetectProcess
  <2>2. ASSUME NEW mode \in RuntimeMode, NEW state \in AutoState \ {Idle}, Reenumerate(mode, state)
        PROVE  HandOffReadOnce'
    BY <2>1, <2>2, HandedResolved DEF Reenumerate, Reboot
  <2>3. CASE KeepProbing
    BY <2>3 DEF KeepProbing
  <2>4. CASE StartPs3Assist
    BY <2>1, <2>4 DEF StartPs3Assist, Reboot, EmptyScratch
  <2>5. CASE SettleFallback
    BY <2>2, <2>5, SanitizedModes DEF SettleFallback, TypeOK, AutoState, Fallback, Idle
  <2>6. CASE UsbHostDetectionTask.result \in HostName /\ SettleHost(UsbHostDetectionTask.result)
    BY <2>2, <2>6, SettledHost DEF SettleInPlace
  <2>. QED BY <1>5, <2>3, <2>4, <2>5, <2>6, ProcessOutcome
<1>6. CASE HotSwapCheck
  <2>1. \A mode \in RuntimeMode : Consistent(Preserved(mode, winOutput, misterOutput))
    BY <1>6, HandedPreserved DEF HotSwapCheck, TypeOK
  <2>2. ASSUME NEW mode \in RuntimeMode, TryReenumerate(mode)
        PROVE  HandOffReadOnce'
    BY <1>1, <1>6, <2>1, <2>2 DEF HotSwapCheck, TryReenumerate, Reboot, Consistent
  <2>3. outputMode \in RuntimeMode /\ Mister \in RuntimeMode /\ MisterPsx \in RuntimeMode
    BY SanitizedModes DEF TypeOK
  <2>. QED BY <1>6, <2>2, <2>3
           DEF HotSwapCheck, PsxPeripheralPlugged, PsxPeripheralUnplugged, PlayerCountChanged
<1>7. CASE User
  <2>1. phase = "running"
    BY <1>7 DEF User, ResetTap, ResetHoldRelease, CycleInputMode, SelectOutput, MenuSave,
                PreferWindows, PreferMister, ChangePreference, UserActs
  <2>2. \A win, mister \in Preference : Consistent(Preserved(outputMode, win, mister))
    BY <2>1, HandedPreserved DEF TypeOK
  <2>3. CASE ResetTap \/ CycleInputMode
    BY <1>1, <1>2, <2>2, <2>3 DEF ResetTap, CycleInputMode, Reboot, Consistent, TypeOK
  <2>4. CASE ResetHoldRelease
    <3>1. CanPreserveResolved(outputMode, winOutput, misterOutput)
            => Consistent(Resolved(outputMode, autoDetectState))
      BY <2>1, HandedResolved DEF CanPreserveResolved, HasResolved, Consistent, TypeOK
    <3>. QED BY <1>1, <2>4, <3>1 DEF ResetHoldRelease, Reboot, Consistent
  <2>5. ASSUME NEW m \in ConfigurableMode, NEW reboots \in BOOLEAN, SelectOutput(m, reboots)
        PROVE  HandOffReadOnce'
    BY <1>2, <2>5 DEF SelectOutput, Consistent
  <2>6. ASSUME NEW m \in ConfigurableMode, NEW win \in ConfigurablePreference,
               NEW mister \in ConfigurablePreference, NEW needsReboot \in BOOLEAN,
               MenuSave(m, win, mister, needsReboot)
        PROVE  HandOffReadOnce'
    <3>1. Consistent(Preserved(outputMode, win, mister))
      BY <2>2 DEF BoundAssumption
    <3>. QED BY <1>2, <2>6, <3>1 DEF MenuSave, Reboot, Consistent
  <2>7. ASSUME NEW pref \in ConfigurablePreference, PreferWindows(pref) \/ PreferMister(pref)
        PROVE  HandOffReadOnce'
    BY <1>2, <2>7 DEF PreferWindows, PreferMister, ChangePreference, Consistent
  <2>. QED BY <1>7, <2>3, <2>4, <2>5, <2>6, <2>7 DEF User
<1>. QED BY <1>3, <1>4, <1>5, <1>6, <1>7 DEF Next, Device

(* While the firmware runs, the registers that survive a reset are clear,  *)
(* so whatever resets it next, a watchdog included, finds no stale         *)
(* decision; and a decision never travels with a probe stage.              *)
THEOREM HandOffIsReadOnce == Spec => []HandOffReadOnce
<1>1. Init => HandOffReadOnce
  BY DEF Init, HandOffReadOnce, EmptyScratch
<1>2. TypeOK /\ HandOffReadOnce /\ [Next]_vars => HandOffReadOnce'
  BY HandOffStep, DelayAssumption, BoundAssumption
<1>. QED BY <1>1, <1>2, TypeCorrect, PTL DEF Spec

(***************************************************************************)
(* The detector's one answer                                               *)
(***************************************************************************)
(* While AUTO still probes, a probe personality runs: so no result names   *)
(* the running personality, every answer ends in a reboot, and the boot    *)
(* arms the detector again.                                                *)
ProbePersonality ==
  phase = "running" /\ CanRunDetection => outputMode \in {Mister, MisterPsx, "PS3"}

LEMMA UserIsRunning ==
  ASSUME User
  PROVE  phase = "running" /\ UserActs
BY DEF User, ResetTap, ResetHoldRelease, CycleInputMode, SelectOutput, MenuSave, PreferWindows,
       PreferMister, ChangePreference, UserActs

LEMMA ProbePersonalityStep ==
  ASSUME DelayAssumption, BoundAssumption, TypeOK, HandOffReadOnce, ProbePersonality, [Next]_vars
  PROVE  ProbePersonality'
<1>. USE DEF ProbePersonality, CanRunDetection, IsAutoSelected
<1>1. CASE Tick \/ Host \/ UNCHANGED vars
  BY <1>1 DEF Tick, Host, HostConnects, HostConfigures, BusReset, HostAsks, vars, settings,
              personality
<1>2. CASE PowerCycle
  BY <1>2 DEF PowerCycle, Reboot
<1>3. ASSUME NEW psx \in BOOLEAN, Boot(psx)
      PROVE  ProbePersonality'
  <2>1. IsAutoSelected /\ scratch.magic => autoDetectState' # Idle
    <3>1. scratch.mode \in RuntimeMode /\ AutoOutput \notin RuntimeMode
      BY DEF TypeOK, RuntimeMode
    <3>. QED BY <1>3, <3>1, SanitizedModes DEF Boot, RestoredMode, HandOffReadOnce
  <2>2. RestoredMode # AutoOutput => scratch.magic
    BY DEF RestoredMode
  <2>3. ~scratch.magic => outputMode' \in {Mister, MisterPsx, "PS3"} \/ ~IsAutoSelected
    BY <1>3, <2>2 DEF Boot, AfterInputSetup, ProbeOutput
  <2>4. configuredOutputMode' = configuredOutputMode
    BY <1>3 DEF Boot, settings
  <2>. QED BY <1>3, <2>1, <2>2, <2>3, <2>4 DEF Boot
<1>4. CASE AutoDetectProcess
  <2>1. CASE KeepProbing
    BY <1>4, <2>1 DEF KeepProbing, personality, AutoDetectProcess, settings
  <2>2. CASE StartPs3Assist \/ SettleFallback
    BY <2>2 DEF StartPs3Assist, SettleFallback, Reenumerate, Reboot
  <2>3. CASE UsbHostDetectionTask.result \in HostName /\ SettleHost(UsbHostDetectionTask.result)
    <3>1. StateOf(UsbHostDetectionTask.result) # Idle
      BY <2>3, SettledHost
    <3>2. autoDetectState' = StateOf(UsbHostDetectionTask.result)
      BY <2>3, SettledHost DEF Reenumerate, SettleInPlace
    <3>. QED BY <3>1, <3>2
  <2>. QED BY <1>4, <2>1, <2>2, <2>3, ProcessOutcome
<1>5. CASE HotSwapCheck
  BY <1>5 DEF HotSwapCheck, PsxPeripheralPlugged, PsxPeripheralUnplugged, PlayerCountChanged,
              settings
<1>6. CASE User
  <2>1. CASE ResetTap \/ ResetHoldRelease \/ CycleInputMode
    BY <2>1 DEF ResetTap, ResetHoldRelease, CycleInputMode, Reboot
  <2>2. ASSUME NEW m \in ConfigurableMode, NEW reboots \in BOOLEAN, SelectOutput(m, reboots)
        PROVE  ProbePersonality'
    BY <2>2 DEF SelectOutput, ApplySelection, SanitizeRuntime
  <2>3. ASSUME NEW m \in ConfigurableMode, NEW win \in ConfigurablePreference,
               NEW mister \in ConfigurablePreference, NEW needsReboot \in BOOLEAN,
               MenuSave(m, win, mister, needsReboot)
        PROVE  ProbePersonality'
    BY <2>3 DEF MenuSave, Reboot
  <2>4. ASSUME NEW pref \in ConfigurablePreference, PreferWindows(pref) \/ PreferMister(pref)
        PROVE  ProbePersonality'
    BY <2>4, UserIsRunning, <1>6 DEF PreferWindows, PreferMister, ChangePreference, personality
  <2>. QED BY <1>6, <2>1, <2>2, <2>3, <2>4 DEF User
<1>. QED BY <1>1, <1>2, <1>3, <1>4, <1>5, <1>6 DEF Next, Device

LEMMA DetectorNotSpentStep ==
  ASSUME DelayAssumption, BoundAssumption, TypeOK, ProbePersonality, DetectorNotSpent, [Next]_vars
  PROVE  DetectorNotSpent'
<1>. USE DEF DetectorNotSpent
<1>1. CASE Tick \/ Host \/ UNCHANGED vars
  BY <1>1 DEF Tick, Host, HostConnects, HostConfigures, BusReset, HostAsks, vars, detector
<1>2. CASE PowerCycle \/ \E psx \in BOOLEAN : Boot(psx)
  BY <1>2 DEF PowerCycle, Reboot, Boot
<1>3. CASE AutoDetectProcess
  <2>1. phase = "running" /\ ~fullyInitialized /\ outputMode \in {Mister, MisterPsx, "PS3"}
    BY <1>3 DEF AutoDetectProcess, ProbePersonality
  <2>2. fullyInitialized' <=> UsbHostDetectionTask.result # "NONE"
    BY <1>3, <2>1, TaskType DEF AutoDetectProcess
  <2>3. CASE UsbHostDetectionTask.result = "NONE" /\ KeepProbing
    BY <2>2, <2>3
  <2>4. CASE StartPs3Assist \/ SettleFallback
    BY <2>4 DEF StartPs3Assist, SettleFallback, Reenumerate, Reboot
  <2>5. CASE UsbHostDetectionTask.result \in HostName /\ SettleHost(UsbHostDetectionTask.result)
    <3>1. PICK mode \in RuntimeMode :
            \/ Reenumerate(mode, StateOf(UsbHostDetectionTask.result))
            \/ outputMode = mode /\ mode \in {"PS4", "XID", "SWITCHPRO"}
      BY <2>5, SettledHost
    <3>. QED BY <2>1, <3>1 DEF Reenumerate, Reboot, Mister, MisterPsx
  <2>. QED BY <1>3, <2>3, <2>4, <2>5, ProcessOutcome
<1>4. CASE HotSwapCheck
  BY <1>4 DEF HotSwapCheck
<1>5. CASE User
  BY <1>5, UserIsRunning DEF UserActs, detector
<1>. QED BY <1>1, <1>2, <1>3, <1>4, <1>5 DEF Next, Device

(* usb_host_detection_task gives its answer once per boot, and no order of *)
(* requests, button presses and in-place selections spends it without the  *)
(* decision being taken: while the firmware runs, it can still answer.     *)
THEOREM DetectorIsNotSpent == Spec => []DetectorNotSpent
<1>1. Init => ProbePersonality /\ DetectorNotSpent
  BY DEF Init, ProbePersonality, DetectorNotSpent
<1>2. TypeOK /\ HandOffReadOnce /\ ProbePersonality /\ [Next]_vars => ProbePersonality'
  BY ProbePersonalityStep, DelayAssumption, BoundAssumption
<1>3. TypeOK /\ ProbePersonality /\ DetectorNotSpent /\ [Next]_vars => DetectorNotSpent'
  BY DetectorNotSpentStep, DelayAssumption, BoundAssumption
<1>. QED BY <1>1, <1>2, <1>3, TypeCorrect, HandOffIsReadOnce, PTL DEF Spec

(***************************************************************************)
(* Reboots without a host, and their number                                *)
(***************************************************************************)
(* Whatever lets a pass of the loop act speaks of a host that was there    *)
(* since power came on.                                                    *)
HostPresence ==
  /\ phase = "running" =>
       /\ mounted => connected
       /\ connected \/ hostDetection.any # {} \/ autoDetectProbeStage = "PS3" => hostEver
  /\ scratch.stage = "PS3" => hostEver

(* What is left of the ladder generic probe, assist probe, personality.    *)
ProbesDone(stage) == IF stage = "PS3" THEN 1 ELSE 0

Ladder ==
  /\ autoReboots <= 2
  /\ phase = "running" /\ CanRunDetection => autoReboots <= ProbesDone(autoDetectProbeStage)
  /\ phase = "resetting" /\ IsAutoSelected /\ ~scratch.magic =>
       autoReboots <= ProbesDone(scratch.stage)

(* A result without a flag comes from a host that mounted the device.      *)
LEMMA AnswerNeedsHost ==
  ASSUME DelayAssumption, TypeOK, HostPresence, phase = "running",
         UsbHostDetectionTask.result # "NONE" \/ UsbHostDetectionTask.host.any # hostDetection.any
  PROVE  hostEver
<1>1. CASE fullyInitialized \/ (~mounted /\ hostDetection.any \cap PremountFlag = {})
  BY <1>1 DEF UsbHostDetectionTask, NotYet
<1>2. CASE hostDetection.any \cap PremountFlag # {}
  BY <1>2 DEF HostPresence
<1>3. CASE mounted
  BY <1>3 DEF HostPresence
<1>. QED BY <1>1, <1>2, <1>3

LEMMA HostPresenceStep ==
  ASSUME DelayAssumption, BoundAssumption, TypeOK, HandOffReadOnce, HostPresence,
         StandaloneKeepsRunning, [Next]_vars
  PROVE  HostPresence' /\ StandaloneKeepsRunning'
<1>. USE DEF HostPresence, StandaloneKeepsRunning
<1>1. CASE Tick \/ HostConfigures \/ BusReset \/ UNCHANGED vars
  BY <1>1 DEF Tick, HostConfigures, BusReset, vars, bus, history, personality, detector
<1>2. CASE HostConnects
  BY <1>2 DEF HostConnects
<1>3. ASSUME NEW req \in HostRequest, HostAsks(req)
      PROVE  HostPresence' /\ StandaloneKeepsRunning'
  BY <1>3 DEF HostAsks, bus, personality
<1>4. CASE PowerCycle
  BY <1>4 DEF PowerCycle, Reboot, EmptyScratch
<1>5. ASSUME NEW psx \in BOOLEAN, Boot(psx)
      PROVE  HostPresence' /\ StandaloneKeepsRunning'
  <2>1. autoDetectProbeStage' = "PS3" => scratch.stage = "PS3"
    BY <1>5 DEF Boot
  <2>. QED BY <1>5, <2>1 DEF Boot, NoObservation, EmptyScratch
<1>6. CASE AutoDetectProcess
  <2>1. /\ phase = "running" /\ hostDetection' = UsbHostDetectionTask.host
        /\ UNCHANGED <<bus, hostEver>>
    BY <1>6 DEF AutoDetectProcess
  <2>2. ~hostEver => /\ UsbHostDetectionTask.result = "NONE"
                     /\ hostDetection'.any = hostDetection.any
    BY <2>1, AnswerNeedsHost
  <2>3. CASE hostEver
    BY <2>1, <2>3 DEF bus
  <2>4. CASE ~hostEver
    <3>1. "NONE" \notin HostName
      BY DEF HostName, DetectFlag
    <3>2. KeepProbing
      BY <1>6, <2>1, <2>2, <2>4, <3>1, ProcessOutcome
    <3>. QED BY <2>1, <2>2, <2>4, <3>2 DEF KeepProbing, personality, bus
  <2>. QED BY <2>3, <2>4
<1>7. CASE HotSwapCheck
  <2>1. /\ phase = "running"
        /\ UNCHANGED <<hostDetection, bus, hostEver>>
        /\ autoReboots' \in {0, autoReboots}
    BY <1>7 DEF HotSwapCheck
  <2>2. ASSUME NEW mode, TryReenumerate(mode)
        PROVE  /\ autoDetectProbeStage' \in {"GENERIC", autoDetectProbeStage}
               /\ scratch' = scratch \/ scratch' = Preserved(mode, winOutput, misterOutput)
    BY <2>2 DEF TryReenumerate, Reboot
  <2>3. /\ autoDetectProbeStage' \in {"GENERIC", autoDetectProbeStage}
        /\ \/ scratch' = scratch
           \/ \E mode : scratch' = Preserved(mode, winOutput, misterOutput)
    BY <1>7, <2>2
       DEF HotSwapCheck, PsxPeripheralPlugged, PsxPeripheralUnplugged, PlayerCountChanged
  <2>4. \A mode : Preserved(mode, winOutput, misterOutput).stage = "GENERIC"
    BY <2>1 DEF Preserved, Resolved, HandOffReadOnce, EmptyScratch
  <2>. QED BY <2>1, <2>3, <2>4 DEF bus
<1>8. CASE User
  <2>1. /\ phase = "running" /\ autoReboots' = 0
        /\ UNCHANGED <<detector, bus, hostEver>>
    BY <1>8, UserIsRunning DEF UserActs
  <2>2. scratch.stage = "GENERIC" /\ EmptyScratch.stage = "GENERIC"
    BY <2>1 DEF HandOffReadOnce, EmptyScratch
  <2>3. /\ \A mode, win, mister : Preserved(mode, win, mister).stage = "GENERIC"
        /\ Resolved(outputMode, autoDetectState).stage = "GENERIC"
    BY <2>1 DEF Preserved, Resolved, HandOffReadOnce, EmptyScratch
  <2>4. scratch'.stage = "GENERIC" /\ autoDetectProbeStage' \in {"GENERIC", autoDetectProbeStage}
    <3>1. CASE ResetTap \/ ResetHoldRelease \/ CycleInputMode
      BY <2>2, <2>3, <3>1 DEF ResetTap, ResetHoldRelease, CycleInputMode, Reboot, personality
    <3>2. ASSUME NEW m \in ConfigurableMode, NEW reboots \in BOOLEAN, SelectOutput(m, reboots)
          PROVE  /\ scratch'.stage = "GENERIC"
                 /\ autoDetectProbeStage' \in {"GENERIC", autoDetectProbeStage}
      BY <2>2, <3>2 DEF SelectOutput
    <3>3. ASSUME NEW m \in ConfigurableMode, NEW win \in ConfigurablePreference,
                 NEW mister \in ConfigurablePreference, NEW needsReboot \in BOOLEAN,
                 MenuSave(m, win, mister, needsReboot)
          PROVE  /\ scratch'.stage = "GENERIC"
                 /\ autoDetectProbeStage' \in {"GENERIC", autoDetectProbeStage}
      BY <2>2, <2>3, <3>3 DEF MenuSave, Reboot
    <3>4. ASSUME NEW pref \in ConfigurablePreference, PreferWindows(pref) \/ PreferMister(pref)
          PROVE  /\ scratch'.stage = "GENERIC"
                 /\ autoDetectProbeStage' \in {"GENERIC", autoDetectProbeStage}
      BY <2>2, <3>4 DEF PreferWindows, PreferMister, ChangePreference, personality
    <3>. QED BY <1>8, <3>1, <3>2, <3>3, <3>4 DEF User
  <2>. QED BY <2>1, <2>4 DEF bus, detector
<1>. QED BY <1>1, <1>2, <1>3, <1>4, <1>5, <1>6, <1>7, <1>8 DEF Next, Device, Host

(* A device that has met no data host since power came on never reboots by *)
(* itself, whatever its controllers and its user do: a box on a charger    *)
(* keeps running its input side.                                           *)
THEOREM StandaloneRuns == Spec => []StandaloneKeepsRunning
<1>1. Init => HostPresence /\ StandaloneKeepsRunning
  BY DEF Init, HostPresence, StandaloneKeepsRunning, EmptyScratch
<1>2. /\ TypeOK /\ HandOffReadOnce /\ HostPresence /\ StandaloneKeepsRunning
      /\ [Next]_vars
      => HostPresence' /\ StandaloneKeepsRunning'
  BY HostPresenceStep, DelayAssumption, BoundAssumption
<1>. QED BY <1>1, <1>2, TypeCorrect, HandOffIsReadOnce, PTL DEF Spec

LEMMA LadderStep ==
  ASSUME DelayAssumption, BoundAssumption, TypeOK, HandOffReadOnce, Ladder, [Next]_vars
  PROVE  Ladder'
<1>. USE DEF Ladder, ProbesDone, CanRunDetection, IsAutoSelected
<1>1. autoReboots \in 0..3
  BY DEF TypeOK, RebootCap
<1>2. CASE Tick \/ Host \/ UNCHANGED vars
  BY <1>2 DEF Tick, Host, HostConnects, HostConfigures, BusReset, HostAsks, vars, settings,
              personality, history
<1>3. ASSUME autoReboots' = 0
      PROVE  Ladder'
  BY <1>3
<1>4. CASE PowerCycle \/ User
  BY <1>3, <1>4, UserIsRunning DEF PowerCycle, UserActs
<1>5. CASE HotSwapCheck
  <2>1. CASE UNCHANGED <<phase, scratch, outputMode, autoDetectProbeStage, verdict, autoReboots,
                         disturbances>>
    BY <1>5, <2>1 DEF HotSwapCheck, settings
  <2>. QED BY <1>3, <1>5, <2>1 DEF HotSwapCheck
<1>6. ASSUME NEW psx \in BOOLEAN, Boot(psx)
      PROVE  Ladder'
  <2>1. autoReboots' = autoReboots /\ phase' = "running" /\ configuredOutputMode' = configuredOutputMode
    BY <1>6 DEF Boot, settings
  <2>2. scratch.mode \in RuntimeMode /\ AutoOutput \notin RuntimeMode
    BY DEF TypeOK, RuntimeMode
  <2>3. IsAutoSelected /\ scratch.magic => autoDetectState' # Idle
    BY <1>6, <2>2, SanitizedModes DEF Boot, RestoredMode, HandOffReadOnce
  <2>4. IsAutoSelected /\ ~scratch.magic => autoDetectProbeStage' = scratch.stage
    BY <1>6 DEF Boot, RestoredMode
  <2>. QED BY <1>6, <2>1, <2>3, <2>4 DEF Boot
<1>7. CASE AutoDetectProcess
  <2>1. /\ phase = "running" /\ CanRunDetection /\ configuredOutputMode' = configuredOutputMode
        /\ autoReboots <= ProbesDone(autoDetectProbeStage)
    BY <1>7 DEF AutoDetectProcess, settings
  <2>2. CountReboot => autoReboots' = autoReboots + 1
    BY <1>1, <2>1 DEF CountReboot, Min2, RebootCap
  <2>3. ASSUME NEW mode \in RuntimeMode, NEW state \in AutoState, state # Idle,
               Reenumerate(mode, state)
        PROVE  Ladder'
    <3>1. scratch'.magic
      BY <2>1, <2>3, HandedResolved DEF Reenumerate, Reboot
    <3>. QED BY <1>1, <2>1, <2>2, <2>3, <3>1 DEF Reenumerate, Reboot
  <2>4. CASE KeepProbing
    BY <2>1, <2>4 DEF KeepProbing, personality
  <2>5. CASE StartPs3Assist /\ autoDetectProbeStage = "GENERIC"
    BY <1>1, <2>1, <2>2, <2>5 DEF StartPs3Assist, Reboot, HandOffReadOnce, EmptyScratch
  <2>6. CASE SettleFallback
    <3>1. MisterOutput(misterOutput) \in RuntimeMode /\ Fallback \in AutoState /\ Fallback # Idle
      BY SanitizedModes DEF TypeOK, AutoState, Fallback, Idle
    <3>. QED BY <2>3, <2>6, <3>1 DEF SettleFallback
  <2>7. CASE UsbHostDetectionTask.result \in HostName /\ SettleHost(UsbHostDetectionTask.result)
    <3>1. /\ StateOf(UsbHostDetectionTask.result) \in AutoState
          /\ StateOf(UsbHostDetectionTask.result) # Idle
      BY <2>7, SettledHost
    <3>2. CASE SettleInPlace(StateOf(UsbHostDetectionTask.result))
      BY <2>1, <3>1, <3>2 DEF SettleInPlace
    <3>3. CASE \E mode \in RuntimeMode : Reenumerate(mode, StateOf(UsbHostDetectionTask.result))
      BY <2>3, <3>1, <3>3
    <3>. QED BY <2>7, <3>2, <3>3, SettledHost
  <2>. QED BY <1>7, <2>4, <2>5, <2>6, <2>7, ProcessOutcome
<1>. QED BY <1>2, <1>4, <1>5, <1>6, <1>7 DEF Next, Device

(* Between two acts of a person, a controller or the power, the device     *)
(* reboots at most twice: it cannot loop between its probes, whatever the  *)
(* host asks and however often it resets the bus.                          *)
THEOREM LadderEnds == Spec => []ProbeLadderEnds
<1>1. Init => Ladder
  BY DEF Init, Ladder, ProbesDone, EmptyScratch
<1>2. TypeOK /\ HandOffReadOnce /\ Ladder /\ [Next]_vars => Ladder'
  BY LadderStep, DelayAssumption, BoundAssumption
<1>3. Ladder => ProbeLadderEnds
  BY DEF Ladder, ProbeLadderEnds, ProbesDone
<1>. QED BY <1>1, <1>2, <1>3, TypeCorrect, HandOffIsReadOnce, PTL DEF Spec

(***************************************************************************)
(* The personality that runs                                               *)
(***************************************************************************)
LEMMA ManualStep ==
  ASSUME DelayAssumption, BoundAssumption, TypeOK, ManualSelectionWins, [Next]_vars
  PROVE  ManualSelectionWins'
<1>. USE DEF ManualSelectionWins, IsAutoSelected
<1>1. CASE Tick \/ Host \/ UNCHANGED vars
  BY <1>1 DEF Tick, Host, HostConnects, HostConfigures, BusReset, HostAsks, vars, settings,
              personality
<1>2. CASE PowerCycle
  BY <1>2 DEF PowerCycle, Reboot
<1>3. ASSUME NEW psx \in BOOLEAN, Boot(psx)
      PROVE  ManualSelectionWins'
  <2>1. configuredOutputMode' = configuredOutputMode
    BY <1>3 DEF Boot, settings
  <2>2. CASE ~IsAutoSelected
    BY <1>3, <2>1, <2>2 DEF Boot, AfterInputSetup
  <2>. QED BY <2>1, <2>2
<1>4. CASE AutoDetectProcess
  BY <1>4 DEF AutoDetectProcess, CanRunDetection, settings
<1>5. CASE HotSwapCheck
  <2>1. /\ phase = "running"
        /\ UNCHANGED <<autoDetectState, configuredOutputMode>>
    BY <1>5 DEF HotSwapCheck, settings
  <2>2. ~IsAutoSelected =>
          outputMode' = outputMode \/ (GenericHidMode(outputMode) /\ outputMode' = MisterPsx)
    BY <1>5 DEF HotSwapCheck, PsxPeripheralPlugged, PsxPeripheralUnplugged, PlayerCountChanged
  <2>3. ~GenericHidMode(MisterPsx)
    BY DEF GenericHidMode, Mister, MisterPsx
  <2>. QED BY <2>1, <2>2, <2>3
<1>6. CASE User
  <2>1. phase = "running"
    BY <1>6, UserIsRunning
  <2>2. CASE ResetTap \/ ResetHoldRelease \/ CycleInputMode
    BY <2>2 DEF ResetTap, ResetHoldRelease, CycleInputMode, Reboot
  <2>3. ASSUME NEW m \in ConfigurableMode, NEW reboots \in BOOLEAN, SelectOutput(m, reboots)
        PROVE  ManualSelectionWins'
    BY <2>3 DEF SelectOutput, ApplySelection
  <2>4. ASSUME NEW m \in ConfigurableMode, NEW win \in ConfigurablePreference,
               NEW mister \in ConfigurablePreference, NEW needsReboot \in BOOLEAN,
               MenuSave(m, win, mister, needsReboot)
        PROVE  ManualSelectionWins'
    BY <2>4 DEF MenuSave, Reboot
  <2>5. ASSUME NEW pref \in ConfigurablePreference, PreferWindows(pref) \/ PreferMister(pref)
        PROVE  ManualSelectionWins'
    BY <2>1, <2>5 DEF PreferWindows, PreferMister, ChangePreference, personality
  <2>. QED BY <1>6, <2>2, <2>3, <2>4, <2>5 DEF User
<1>. QED BY <1>1, <1>2, <1>3, <1>4, <1>5, <1>6 DEF Next, Device

(* An output that the user selected runs as selected and clears what AUTO  *)
(* knew; nothing AUTO left in scratch or in memory overrides it later.     *)
THEOREM ManualWins == Spec => []ManualSelectionWins
<1>1. Init => ManualSelectionWins
  BY DEF Init, ManualSelectionWins
<1>2. TypeOK /\ ManualSelectionWins /\ [Next]_vars => ManualSelectionWins'
  BY ManualStep, DelayAssumption, BoundAssumption
<1>. QED BY <1>1, <1>2, TypeCorrect, PTL DEF Spec

(* A reboot that keeps the personality keeps one that belongs to the host. *)
LEMMA PreservedFits ==
  ASSUME TypeOK, HandOffReadOnce, phase = "running", NEW win \in Preference,
         NEW mister \in Preference, NEW mode \in RuntimeMode, CanPreserveKnown(mode, win, mister),
         \/ autoDetectState \in {"WINDOWS", Fallback}
         \/ PersonalityOf(autoDetectState, mode, win, mister)
  PROVE  PersonalityOf(Preserved(mode, win, mister).state, Preserved(mode, win, mister).mode, win, mister)
<1>1. CASE CanPreserveResolved(mode, win, mister)
  <2>1. autoDetectState # Idle /\ autoDetectState \in AutoState
    BY <1>1 DEF CanPreserveResolved, HasResolved, TypeOK
  <2>2. /\ Preserved(mode, win, mister).state = autoDetectState
        /\ Preserved(mode, win, mister).mode = mode
    BY <1>1, <2>1, HandedResolved DEF Preserved
  <2>3. PersonalityOf(autoDetectState, mode, win, mister)
    BY <1>1 DEF CanPreserveResolved, PersonalityOf, Fallback
  <2>. QED BY <2>2, <2>3
<1>2. CASE ~CanPreserveResolved(mode, win, mister)
  <2>1. MisterOutput(mister) \in RuntimeMode /\ Fallback \in AutoState /\ Fallback # Idle
    BY SanitizedModes DEF AutoState, Fallback, Idle
  <2>2. /\ Preserved(mode, win, mister).state = Fallback
        /\ Preserved(mode, win, mister).mode = MisterOutput(mister)
    BY <1>2, <2>1, HandedResolved DEF Preserved
  <2>. QED BY <2>2 DEF MisterPreferenceAccepts, Fallback, PersonalityOf
<1>. QED BY <1>1, <1>2

(* The personality that runs under AUTO, with its one exception.           *)
RunsAs(state, mode) ==
  \/ PersonalityOf(state, mode, winOutput, misterOutput)
  \/ state = "WINDOWS" /\ winOutput = 0 /\ mode \in {Mister, MisterPsx}

(* What a plugged or unplugged PSX peripheral makes of it.                 *)
LEMMA PsxPeripheralFits ==
  ASSUME TypeOK, RunsAs(autoDetectState, outputMode)
  PROVE  /\ GenericHidMode(outputMode) => RunsAs(autoDetectState, MisterPsx)
         /\ outputMode = MisterPsx => RunsAs(autoDetectState, Mister)
         /\ GenericHidMode(outputMode) \/ outputMode = MisterPsx =>
              autoDetectState \in {Idle, "WINDOWS", Fallback}
<1>. USE DEF TypeOK, AutoState, Idle, Fallback, Mister, MisterPsx, GenericHidMode, RunsAs,
             PersonalityOf, MisterPreferenceAccepts, MisterOutput, WindowsOutput, Preference
<1>1. GenericHidMode(outputMode) => RunsAs(autoDetectState, MisterPsx)
  OBVIOUS
<1>2. outputMode = MisterPsx => RunsAs(autoDetectState, Mister)
  OBVIOUS
<1>3. GenericHidMode(outputMode) \/ outputMode = MisterPsx =>
        autoDetectState \in {Idle, "WINDOWS", Fallback}
  OBVIOUS
<1>. QED BY <1>1, <1>2, <1>3

(* Idle asks nothing of the personality.                                   *)
LEMMA IdleFits ==
  ASSUME NEW mode, NEW win, NEW mister
  PROVE  PersonalityOf(Idle, mode, win, mister)
BY DEF PersonalityOf, Idle, Fallback

LEMMA FitsBoot ==
  ASSUME TypeOK, HandOffReadOnce, PersonalityFitsVerdict, NEW psx \in BOOLEAN, Boot(psx)
  PROVE  PersonalityFitsVerdict'
<1>1. UNCHANGED <<configuredOutputMode, winOutput, misterOutput>>
  BY DEF Boot, settings
<1>2. ~scratch'.magic
  BY DEF Boot, EmptyScratch
<1>3. CASE IsAutoSelected /\ scratch.magic
  <2>1. scratch.mode \in RuntimeMode /\ AutoOutput \notin RuntimeMode
    BY DEF TypeOK, RuntimeMode
  <2>2. RestoredMode = scratch.mode /\ RestoredMode # AutoOutput
    BY <1>3, <2>1, SanitizedModes DEF RestoredMode
  <2>3. autoDetectState' = scratch.state /\ outputMode' = AfterInputSetup(scratch.mode, psx)
    BY <1>3, <2>2 DEF Boot
  <2>4. PersonalityOf(scratch.state, scratch.mode, winOutput, misterOutput)
    BY <1>3 DEF PersonalityFitsVerdict
  <2>5. outputMode' = scratch.mode \/ (scratch.mode = Mister /\ outputMode' = MisterPsx)
    BY <1>3, <2>3 DEF AfterInputSetup
  <2>6. scratch.state \in AutoState /\ scratch.state # Idle
    BY <1>3 DEF TypeOK, HandOffReadOnce
  <2>7. scratch.mode = Mister =>
          PersonalityOf(scratch.state, MisterPsx, winOutput, misterOutput)
    BY <2>4, <2>6 DEF PersonalityOf, AutoState, Idle, Fallback, Mister, MisterPsx,
              MisterPreferenceAccepts, WindowsOutput
  <2>8. PersonalityOf(autoDetectState', outputMode', winOutput, misterOutput)
    BY <2>3, <2>4, <2>5, <2>7
  <2>. QED BY <1>1, <1>2, <2>8 DEF PersonalityFitsVerdict
<1>4. CASE IsAutoSelected /\ ~scratch.magic
  <2>1. autoDetectState' = Idle
    BY <1>4 DEF Boot, RestoredMode
  <2>. QED BY <1>2, <2>1, IdleFits DEF PersonalityFitsVerdict
<1>5. CASE ~IsAutoSelected
  BY <1>1, <1>2, <1>5 DEF PersonalityFitsVerdict, IsAutoSelected
<1>. QED BY <1>3, <1>4, <1>5

LEMMA FitsProcess ==
  ASSUME DelayAssumption, TypeOK, HandOffReadOnce, PersonalityFitsVerdict, AutoDetectProcess
  PROVE  PersonalityFitsVerdict'
<1>1. /\ phase = "running" /\ UNCHANGED <<configuredOutputMode, winOutput, misterOutput>>
      /\ ~scratch.magic
  BY DEF AutoDetectProcess, settings, HandOffReadOnce, EmptyScratch
<1>2. ASSUME NEW mode \in RuntimeMode, NEW state \in AutoState, state # Idle,
             Reenumerate(mode, state), PersonalityOf(state, mode, winOutput, misterOutput)
      PROVE  PersonalityFitsVerdict'
  <2>1. scratch'.mode = mode /\ scratch'.state = state /\ phase' = "resetting"
    BY <1>1, <1>2, HandedResolved DEF Reenumerate, Reboot
  <2>. QED BY <1>1, <1>2, <2>1 DEF PersonalityFitsVerdict
<1>3. CASE KeepProbing
  BY <1>1, <1>3 DEF KeepProbing, personality, PersonalityFitsVerdict, IsAutoSelected
<1>4. CASE StartPs3Assist
  BY <1>1, <1>4 DEF StartPs3Assist, Reboot, PersonalityFitsVerdict, TypeOK
<1>5. CASE SettleFallback
  <2>1. MisterOutput(misterOutput) \in RuntimeMode /\ Fallback \in AutoState /\ Fallback # Idle
    BY SanitizedModes DEF TypeOK, AutoState, Fallback, Idle
  <2>2. PersonalityOf(Fallback, MisterOutput(misterOutput), winOutput, misterOutput)
    BY DEF PersonalityOf, Fallback, MisterPreferenceAccepts
  <2>. QED BY <1>2, <1>5, <2>1, <2>2 DEF SettleFallback
<1>6. CASE UsbHostDetectionTask.result \in HostName /\ SettleHost(UsbHostDetectionTask.result)
  <2>. DEFINE state == StateOf(UsbHostDetectionTask.result)
  <2>1. state \in AutoState /\ state # Idle
    BY <1>6, SettledHost
  <2>2. PICK mode \in RuntimeMode :
          /\ PersonalityOf(state, mode, winOutput, misterOutput)
          /\ Reenumerate(mode, state) \/ (SettleInPlace(state) /\ outputMode = mode)
    BY <1>6, SettledHost
  <2>. HIDE DEF state
  <2>3. CASE SettleInPlace(state) /\ outputMode = mode
    BY <1>1, <2>2, <2>3 DEF SettleInPlace, PersonalityFitsVerdict
  <2>. QED BY <1>2, <2>1, <2>2, <2>3
<1>. QED BY <1>3, <1>4, <1>5, <1>6, ProcessOutcome

LEMMA FitsHotSwap ==
  ASSUME TypeOK, HandOffReadOnce, PersonalityFitsVerdict, HotSwapCheck
  PROVE  PersonalityFitsVerdict'
<1>1. /\ phase = "running" /\ ~scratch.magic
      /\ UNCHANGED <<configuredOutputMode, winOutput, misterOutput, autoDetectState>>
  BY DEF HotSwapCheck, settings, HandOffReadOnce, EmptyScratch
<1>2. CASE ~IsAutoSelected
  BY <1>1, <1>2 DEF PersonalityFitsVerdict, IsAutoSelected
<1>3. ASSUME IsAutoSelected, NEW mode \in RuntimeMode, TryReenumerate(mode),
             outputMode' = mode, RunsAs(autoDetectState, mode)
      PROVE  PersonalityFitsVerdict'
  <2>1. winOutput \in Preference /\ misterOutput \in Preference
    BY DEF TypeOK
  <2>2. CanPreserveKnown(mode, winOutput, misterOutput) =>
          PersonalityOf(Preserved(mode, winOutput, misterOutput).state,
                        Preserved(mode, winOutput, misterOutput).mode, winOutput, misterOutput)
    BY <1>1, <1>3, <2>1, PreservedFits DEF RunsAs
  <2>3. scratch'.magic => PersonalityOf(scratch'.state, scratch'.mode, winOutput, misterOutput)
    BY <1>1, <1>3, <2>2 DEF TryReenumerate, Reboot
  <2>. QED BY <1>1, <1>3, <2>3 DEF PersonalityFitsVerdict, RunsAs
<1>4. CASE IsAutoSelected
  <2>1. RunsAs(autoDetectState, outputMode)
    BY <1>1, <1>4 DEF PersonalityFitsVerdict, RunsAs
  <2>2. outputMode \in RuntimeMode /\ Mister \in RuntimeMode /\ MisterPsx \in RuntimeMode
    BY SanitizedModes DEF TypeOK
  <2>3. CASE UNCHANGED <<scratch, outputMode>>
    BY <1>1, <2>1, <2>3 DEF PersonalityFitsVerdict, RunsAs
  <2>4. CASE PsxPeripheralPlugged
    BY <1>3, <1>4, <2>1, <2>2, <2>4, PsxPeripheralFits DEF PsxPeripheralPlugged
  <2>5. CASE PsxPeripheralUnplugged
    BY <1>3, <1>4, <2>1, <2>2, <2>5, PsxPeripheralFits DEF PsxPeripheralUnplugged
  <2>6. CASE PlayerCountChanged
    BY <1>3, <1>4, <2>1, <2>2, <2>6 DEF PlayerCountChanged
  <2>. QED BY <2>3, <2>4, <2>5, <2>6 DEF HotSwapCheck
<1>. QED BY <1>2, <1>4

LEMMA FitsUser ==
  ASSUME BoundAssumption, TypeOK, HandOffReadOnce, PersonalityFitsVerdict, User
  PROVE  PersonalityFitsVerdict'
<1>1. phase = "running" /\ ~scratch.magic /\ ~EmptyScratch.magic
  BY UserIsRunning DEF HandOffReadOnce, EmptyScratch
<1>2. outputMode \in RuntimeMode /\ winOutput \in Preference /\ misterOutput \in Preference
  BY DEF TypeOK
<1>3. ASSUME NEW win \in Preference, NEW mister \in Preference,
             CanPreserveKnown(outputMode, win, mister)
      PROVE  PersonalityOf(Preserved(outputMode, win, mister).state,
                           Preserved(outputMode, win, mister).mode, win, mister)
  <2>1. IsAutoSelected
    BY <1>3 DEF CanPreserveKnown, CanPreserveResolved, HasResolved, CanPreserveProbe,
                CanRunDetection
  <2>2. RunsAs(autoDetectState, outputMode)
    BY <1>1, <2>1 DEF PersonalityFitsVerdict, RunsAs
  <2>3. \/ autoDetectState \in {"WINDOWS", Fallback}
        \/ PersonalityOf(autoDetectState, outputMode, win, mister)
    BY <2>2 DEF RunsAs, PersonalityOf, Fallback
  <2>. QED BY <1>1, <1>2, <1>3, <2>3, PreservedFits
<1>4. CASE ResetTap
  BY <1>1, <1>4 DEF ResetTap, Reboot, PersonalityFitsVerdict
<1>5. CASE ResetHoldRelease
  <2>1. CanPreserveResolved(outputMode, winOutput, misterOutput) =>
          Resolved(outputMode, autoDetectState) = Preserved(outputMode, winOutput, misterOutput)
    BY DEF Preserved
  <2>2. UNCHANGED <<configuredOutputMode, winOutput, misterOutput>> /\ phase' = "resetting"
    BY <1>5 DEF ResetHoldRelease, settings, Reboot
  <2>3. scratch'.magic => PersonalityOf(scratch'.state, scratch'.mode, winOutput, misterOutput)
    BY <1>1, <1>2, <1>3, <1>5, <2>1 DEF ResetHoldRelease, Reboot, CanPreserveKnown
  <2>. QED BY <2>2, <2>3 DEF PersonalityFitsVerdict
<1>6. CASE CycleInputMode
  <2>1. UNCHANGED <<configuredOutputMode, winOutput, misterOutput>> /\ phase' = "resetting"
    BY <1>6 DEF CycleInputMode, settings, Reboot
  <2>2. scratch'.magic => PersonalityOf(scratch'.state, scratch'.mode, winOutput, misterOutput)
    BY <1>1, <1>2, <1>3, <1>6 DEF CycleInputMode, Reboot
  <2>. QED BY <2>1, <2>2 DEF PersonalityFitsVerdict
<1>7. ASSUME NEW m \in ConfigurableMode, NEW reboots \in BOOLEAN, SelectOutput(m, reboots)
      PROVE  PersonalityFitsVerdict'
  <2>1. ~scratch'.magic /\ autoDetectState' = Idle
    BY <1>1, <1>7 DEF SelectOutput, ApplySelection
  <2>. QED BY <2>1, IdleFits DEF PersonalityFitsVerdict
<1>8. ASSUME NEW m \in ConfigurableMode, NEW win \in ConfigurablePreference,
             NEW mister \in ConfigurablePreference, NEW needsReboot \in BOOLEAN,
             MenuSave(m, win, mister, needsReboot)
      PROVE  PersonalityFitsVerdict'
  <2>1. phase' = "resetting" /\ winOutput' = win /\ misterOutput' = mister
    BY <1>8 DEF MenuSave, Reboot
  <2>2. \/ scratch' = EmptyScratch
        \/ /\ CanPreserveKnown(outputMode, win, mister)
           /\ scratch' = Preserved(outputMode, win, mister)
    BY <1>8 DEF MenuSave, Reboot
  <2>3. win \in Preference /\ mister \in Preference
    BY DEF BoundAssumption
  <2>4. scratch'.magic => PersonalityOf(scratch'.state, scratch'.mode, win, mister)
    BY <1>1, <1>3, <2>2, <2>3
  <2>. QED BY <2>1, <2>4 DEF PersonalityFitsVerdict
<1>9. ASSUME NEW pref \in ConfigurablePreference, PreferWindows(pref) \/ PreferMister(pref)
      PROVE  PersonalityFitsVerdict'
  <2>1. ~scratch'.magic /\ UNCHANGED <<configuredOutputMode, outputMode, autoDetectState>>
    BY <1>1, <1>9 DEF PreferWindows, PreferMister, ChangePreference, personality
  <2>2. IsAutoSelected => RunsAs(autoDetectState, outputMode)
    BY <1>1 DEF PersonalityFitsVerdict, RunsAs
  <2>3. CASE PreferWindows(pref)
    <3>1. misterOutput' = misterOutput
      BY <2>3 DEF PreferWindows
    <3>2. IsAutoSelected /\ autoDetectState = "WINDOWS" => phase' = "resetting"
      BY <2>3 DEF PreferWindows, ChangePreference, HasResolved, Idle
    <3>3. IsAutoSelected /\ autoDetectState # "WINDOWS" =>
            PersonalityOf(autoDetectState, outputMode, winOutput', misterOutput)
      BY <2>2 DEF RunsAs, PersonalityOf
    <3>. QED BY <2>1, <3>1, <3>2, <3>3 DEF PersonalityFitsVerdict, IsAutoSelected
  <2>4. CASE PreferMister(pref)
    <3>1. winOutput' = winOutput
      BY <2>4 DEF PreferMister
    <3>2. IsAutoSelected /\ autoDetectState = Fallback => phase' = "resetting"
      BY <2>4 DEF PreferMister, ChangePreference, HasResolved, Idle, Fallback
    <3>3. IsAutoSelected /\ autoDetectState # Fallback =>
            \/ PersonalityOf(autoDetectState, outputMode, winOutput, misterOutput')
            \/ autoDetectState = "WINDOWS" /\ winOutput = 0 /\ outputMode \in {Mister, MisterPsx}
      BY <2>2 DEF RunsAs, PersonalityOf
    <3>. QED BY <2>1, <3>1, <3>2, <3>3 DEF PersonalityFitsVerdict, IsAutoSelected
  <2>. QED BY <1>9, <2>3, <2>4
<1>. QED BY <1>4, <1>5, <1>6, <1>7, <1>8, <1>9 DEF User

LEMMA FitsStep ==
  ASSUME DelayAssumption, BoundAssumption, TypeOK, HandOffReadOnce, PersonalityFitsVerdict,
         [Next]_vars
  PROVE  PersonalityFitsVerdict'
<1>1. CASE Tick \/ Host \/ UNCHANGED vars
  BY <1>1 DEF Tick, Host, HostConnects, HostConfigures, BusReset, HostAsks, vars, settings,
              personality, PersonalityFitsVerdict, IsAutoSelected
<1>2. CASE PowerCycle
  BY <1>2 DEF PowerCycle, Reboot, EmptyScratch, PersonalityFitsVerdict
<1>. QED BY <1>1, <1>2, FitsBoot, FitsProcess, FitsHotSwap, FitsUser DEF Next, Device

(* Under AUTO the personality that runs, and the one that the registers    *)
(* hand to the next boot, belong to the verdict and to the preferences in  *)
(* force now, across every way to change any of them.                      *)
THEOREM PersonalityFits == Spec => []PersonalityFitsVerdict
<1>1. Init => PersonalityFitsVerdict
  BY DEF Init, PersonalityFitsVerdict, EmptyScratch
<1>2. TypeOK /\ HandOffReadOnce /\ PersonalityFitsVerdict /\ [Next]_vars => PersonalityFitsVerdict'
  BY FitsStep, DelayAssumption, BoundAssumption
<1>. QED BY <1>1, <1>2, TypeCorrect, HandOffIsReadOnce, PTL DEF Spec

(***************************************************************************)
(* The end of a probe                                                      *)
(***************************************************************************)
(* A PS3 flag is never without the observation that rules a plain host     *)
(* out: taking the flag back does not make a Switch of a Linux host.       *)
FlagLeavesTrace == "PS3" \in hostDetection.any => "ps3_feature" \in hostDetection.seen

TraceKept(h, host) ==
  ("PS3" \in h.any => "ps3_feature" \in h.seen)
    => ("PS3" \in host.any => "ps3_feature" \in host.seen)

LEMMA NoteLeavesTrace ==
  ASSUME NEW h \in Record, NEW bits \in SUBSET FeatureBit, NEW stage
  PROVE  "ps3_feature" \in NotePs3Feature(h, bits, stage).seen
BY DEF NotePs3Feature, Mark, Record

LEMMA RequestLeavesTrace ==
  ASSUME NEW h \in Record, NEW req \in Request, NEW stage
  PROVE  TraceKept(h, AfterRequest(h, req, stage))
<1>1. CASE req \in {"get_F2", "get_F5", "set_F5", "get_other", "set_EF"}
  <2>1. /\ {} \in SUBSET FeatureBit /\ {"F2"} \in SUBSET FeatureBit /\ {"F5"} \in SUBSET FeatureBit
        /\ {"F5", "SET_F5"} \in SUBSET FeatureBit
    BY DEF FeatureBit
  <2>2. \E bits \in SUBSET FeatureBit : AfterRequest(h, req, stage) = NotePs3Feature(h, bits, stage)
    BY <1>1, <2>1 DEF AfterRequest
  <2>. QED BY <2>2, NoteLeavesTrace DEF TraceKept
<1>2. CASE req \notin {"get_F2", "get_F5", "set_F5", "get_other", "set_EF"}
  BY <1>2 DEF AfterRequest, TraceKept, Observe, Mark, Record, Request, EnumerationRequest,
              InterfaceRequest
<1>. QED BY <1>1, <1>2

(* What a call of the task does to the record: it may take a PS3 flag back *)
(* and it may mark a Switch.                                               *)
LEMMA TaskRecord ==
  ASSUME DelayAssumption, TypeOK
  PROVE  /\ UsbHostDetectionTask.host.seen = hostDetection.seen
         /\ UsbHostDetectionTask.host.any \in
              {hostDetection.any, hostDetection.any \ {"PS3"}, hostDetection.any \cup {"SWITCH1"},
               (hostDetection.any \ {"PS3"}) \cup {"SWITCH1"}}
<1>1. hostDetection \in Record
  BY DEF TypeOK
<1> DEFINE kept == RejectLinuxPs3(hostDetection, autoDetectProbeStage)
<1>2. /\ kept \in Record /\ kept.seen = hostDetection.seen
      /\ kept.any \in {hostDetection.any, hostDetection.any \ {"PS3"}}
  BY <1>1 DEF RejectLinuxPs3, Record
<1>3. MountedTask.host \in {kept, Mark(kept, "SWITCH1")}
  BY DEF MountedTask
<1>4. UsbHostDetectionTask.host \in {hostDetection, MountedTask.host}
  BY DEF UsbHostDetectionTask, NotYet
<1> HIDE DEF kept
<1>5. /\ Mark(kept, "SWITCH1").seen = hostDetection.seen
      /\ Mark(kept, "SWITCH1").any = kept.any \cup {"SWITCH1"}
  BY <1>2 DEF Mark, Record
<1>. QED BY <1>2, <1>3, <1>4, <1>5

LEMMA FlagLeavesTraceStep ==
  ASSUME DelayAssumption, BoundAssumption, TypeOK, FlagLeavesTrace, [Next]_vars
  PROVE  FlagLeavesTrace'
<1>. USE DEF FlagLeavesTrace
<1>1. hostDetection \in Record
  BY DEF TypeOK
<1>2. CASE hostDetection' = hostDetection
  BY <1>2
<1>3. CASE hostDetection' = NoObservation
  BY <1>3 DEF NoObservation
<1>4. ASSUME NEW req \in HostRequest, HostAsks(req)
      PROVE  FlagLeavesTrace'
  <2>1. req \in Request
    BY DEF BoundAssumption
  <2>2. hostDetection' \in {AfterRequest(hostDetection, req, autoDetectProbeStage),
                            Observe(hostDetection, req), hostDetection}
    BY <1>4 DEF HostAsks
  <2>3. TraceKept(hostDetection, Observe(hostDetection, req))
    BY <1>1 DEF TraceKept, Observe, Record
  <2>. QED BY <1>1, <2>1, <2>2, <2>3, RequestLeavesTrace DEF TraceKept
<1>5. CASE AutoDetectProcess
  BY <1>5, TaskRecord DEF AutoDetectProcess
<1>6. CASE User
  BY <1>2, <1>6, UserIsRunning DEF UserActs, detector
<1>7. CASE Tick \/ HostConnects \/ HostConfigures \/ BusReset \/ PowerCycle \/ HotSwapCheck
             \/ UNCHANGED vars
  BY <1>2, <1>7 DEF Tick, HostConnects, HostConfigures, BusReset, PowerCycle, HotSwapCheck, vars,
                    detector
<1>8. CASE \E psx \in BOOLEAN : Boot(psx)
  BY <1>3, <1>8 DEF Boot
<1>. QED BY <1>4, <1>5, <1>6, <1>7, <1>8 DEF Next, Device, Host

(* The parts of WaitLeft are natural numbers.                              *)
LEMMA WaitParts ==
  ASSUME DelayAssumption, TypeOK
  PROVE  /\ Missing(elapsed, NoMountRetry) \in 0..(NoMountRetry + 1)
         /\ Missing(mountedFor, Ps4Grace + 1) \in 0..(Ps4Grace + 2)
         /\ PostDelay - lastSignal \in 0..PostDelay
BY DEF DelayAssumption, TypeOK, Missing, Age, Unset

SwitchWait(h) == IF SwitchCandidate(h) THEN PostDelay + 1 ELSE 0

(* A call of the task that has no answer: an unmounted probe leaves all as *)
(* it is; a mounted one has its clock started, and either leaves the       *)
(* signal and the trace of a Switch as they are, or turns the trace into a *)
(* signal.  It does one of the two once the grace is over.                 *)
LEMMA SilentTask ==
  ASSUME DelayAssumption, TypeOK, FlagLeavesTrace, ~fullyInitialized, mounted,
         UsbHostDetectionTask.result = "NONE"
  PROVE  /\ UsbHostDetectionTask.mountedFor = Started(mountedFor)
         /\ \/ /\ UsbHostDetectionTask.quietFor = lastSignal
               /\ SwitchCandidate(UsbHostDetectionTask.host) => SwitchCandidate(hostDetection)
               /\ ~SwitchDue
            \/ /\ UsbHostDetectionTask.quietFor = 0
               /\ SwitchCandidate(hostDetection)
               /\ ~SwitchCandidate(UsbHostDetectionTask.host)
         /\ ~Decidable
<1> DEFINE since       == Started(mountedFor)
           graceOver   == since > Ps4Grace
           switchReady == SwitchCandidate(hostDetection)
                            /\ (GenericHidActivity(hostDetection) => graceOver)
           kept        == RejectLinuxPs3(hostDetection, autoDetectProbeStage)
           host        == IF switchReady THEN Mark(kept, "SWITCH1") ELSE kept
           quietFor    == IF switchReady THEN 0 ELSE lastSignal
           awaitsPs4   == GenericHidActivity(hostDetection) /\ Unmarked(hostDetection)
           believed    == host.any # {} /\ quietFor >= PostDelay
           silent      == host.any = {} /\ (awaitsPs4 => graceOver) /\ since > NonWiiu
           silentHost  == IF "hid_report" \in host.seen /\ "manufacturer" \notin host.seen
                            THEN "SWITCH2" ELSE "TIMEOUT"
<1>1. hostDetection \in Record
  BY DEF TypeOK
<1>2. UsbHostDetectionTask = MountedTask
  <2>1. CASE hostDetection.any \cap PremountFlag # {} /\ lastSignal >= PostDelay
    <3>1. hostDetection.any \in SUBSET DetectFlag /\ hostDetection.any # {}
      BY <1>1, <2>1 DEF Record
    <3>2. ResolveFlags(hostDetection.any) # "NONE"
      BY <3>1, ResolveFlagsIsBest DEF DetectFlag
    <3>. QED BY <2>1, <3>2 DEF UsbHostDetectionTask
  <2>. QED BY <2>1 DEF UsbHostDetectionTask
<1>3. MountedTask = [result |-> IF believed THEN ResolveFlags(host.any)
                                ELSE IF silent THEN silentHost ELSE "NONE",
                     host |-> host, quietFor |-> quietFor, mountedFor |-> since,
                     done |-> believed \/ silent]
  BY DEF MountedTask
<1>4. ~believed /\ ~silent
  <2>1. MountedTask.done <=> MountedTask.result # "NONE"
    BY MountedTaskType
  <2> HIDE DEF believed, silent
  <2>. QED BY <1>2, <1>3, <2>1
<1>5. /\ kept.seen = hostDetection.seen /\ kept \in Record
      /\ kept.any \in {hostDetection.any, hostDetection.any \ {"PS3"}}
  BY <1>1 DEF RejectLinuxPs3, Record
<1>6. SwitchCandidate(kept) => SwitchCandidate(hostDetection)
  BY <1>5 DEF SwitchCandidate, Unmarked, FlagLeavesTrace
<1>7. ~SwitchCandidate(Mark(kept, "SWITCH1"))
  BY <1>5 DEF SwitchCandidate, Unmarked, Mark, Record
<1>8. mountedFor = Ps4Grace + 1 => graceOver /\ since > NonWiiu
  BY DEF Started, Unset, DelayAssumption
<1>9. SwitchDue => switchReady
  BY <1>8 DEF SwitchDue
<1>10. ~Decidable
  <2>1. SUFFICES ASSUME Decidable PROVE FALSE
    OBVIOUS
  <2>2. ~switchReady /\ lastSignal = PostDelay /\ graceOver /\ since > NonWiiu
    BY <1>8, <2>1 DEF Decidable
  <2>3. lastSignal >= PostDelay
    BY <2>2 DEF DelayAssumption
  <2>. QED BY <1>4, <2>2, <2>3
<1>11. switchReady => SwitchCandidate(hostDetection)
  OBVIOUS
<1>12. since = Started(mountedFor)
  OBVIOUS
<1> HIDE DEF kept, believed, silent, since, switchReady, silentHost
<1>13. /\ MountedTask.host = (IF switchReady THEN Mark(kept, "SWITCH1") ELSE kept)
       /\ MountedTask.quietFor = (IF switchReady THEN 0 ELSE lastSignal)
       /\ MountedTask.mountedFor = since
  BY <1>3
<1>14. CASE switchReady
  BY <1>2, <1>7, <1>10, <1>11, <1>12, <1>13, <1>14
<1>15. CASE ~switchReady
  BY <1>2, <1>6, <1>9, <1>10, <1>12, <1>13, <1>15
<1>. QED BY <1>14, <1>15

(***************************************************************************)
(* Every step of a probe that goes on takes from what is left to wait for, *)
(* or leaves it.                                                           *)
(***************************************************************************)
TakesTime ==
  /\ WaitLeft' <= WaitLeft
  /\ Tick => WaitLeft' < WaitLeft \/ ~ClocksRun \/ SwitchDue \/ Decidable
  /\ AutoDetectProcess => ~Decidable /\ (WaitLeft' < WaitLeft \/ (ClocksRun /\ ~SwitchDue))

(* A pass that has no answer and meets no deadline, or does not probe on.  *)
LEMMA PassOutcome ==
  ASSUME DelayAssumption, TypeOK, AutoDetectProcess, Probing'
  PROVE  /\ UsbHostDetectionTask.result = "NONE"
         /\ ~AssistOver(elapsed')
         /\ \E vbus \in BOOLEAN : ~HostFailedToMount(elapsed', attachRetry', vbus)
<1>1. PICK vbus \in BOOLEAN : Conclude(UsbHostDetectionTask.result, vbus)
  BY DEF AutoDetectProcess
<1>2. phase' = "running" /\ autoDetectState' = Idle
  BY DEF Probing, CanRunDetection
<1>3. ~StartPs3Assist /\ ~SettleFallback
  BY <1>2 DEF StartPs3Assist, SettleFallback, Reenumerate, Reboot
<1>4. ASSUME UsbHostDetectionTask.result \notin {"NONE", "TIMEOUT"},
             SettleHost(UsbHostDetectionTask.result)
      PROVE  FALSE
  <2>1. UsbHostDetectionTask.result \in HostName
    BY <1>4, TaskType
  <2>2. StateOf(UsbHostDetectionTask.result) # Idle
    BY <1>4, <2>1, SettledHost
  <2>3. autoDetectState' = StateOf(UsbHostDetectionTask.result)
    BY <1>4, <2>1, SettledHost DEF Reenumerate, SettleInPlace
  <2>. QED BY <1>2, <2>2, <2>3
<1>. QED BY <1>1, <1>3, <1>4 DEF Conclude

(* The deadline of a probe passes at the latest with its clock's end.      *)
LEMMA DeadlinePasses ==
  ASSUME DelayAssumption, autoDetectProbeStage \in ProbeStage, connected, ~mounted,
         NEW retry, NEW vbus
  PROVE  AssistOver(NoMountRetry) \/ HostFailedToMount(NoMountRetry, retry, vbus)
BY DEF DelayAssumption, ProbeStage, AssistOver, HostFailedToMount, NoMountWindow

LEMMA PassTakesTime ==
  ASSUME DelayAssumption, TypeOK, DetectorNotSpent, FlagLeavesTrace, AutoDetectProcess,
         Probing', connected
  PROVE  /\ WaitLeft' <= WaitLeft
         /\ ~Decidable
         /\ WaitLeft' < WaitLeft \/ (ClocksRun /\ ~SwitchDue)
<1> DEFINE task == UsbHostDetectionTask
<1>1. /\ phase = "running" /\ ~fullyInitialized
      /\ elapsed' = Started(elapsed)
      /\ hostDetection' = task.host /\ lastSignal' = task.quietFor
      /\ mountedFor' = task.mountedFor
  BY DEF AutoDetectProcess, DetectorNotSpent
<1>2. /\ task.result = "NONE"
      /\ ~AssistOver(elapsed')
      /\ \E vbus \in BOOLEAN : ~HostFailedToMount(elapsed', attachRetry', vbus)
  BY PassOutcome
<1>3. /\ Missing(elapsed, NoMountRetry) \in Nat /\ Missing(elapsed', NoMountRetry) \in Nat
      /\ Missing(elapsed', NoMountRetry) <= Missing(elapsed, NoMountRetry)
      /\ elapsed = Unset => Missing(elapsed', NoMountRetry) < Missing(elapsed, NoMountRetry)
  BY <1>1 DEF Missing, Started, TypeOK, Age, Unset, DelayAssumption
<1>4. /\ Missing(mountedFor, Ps4Grace + 1) \in Nat
      /\ PostDelay - lastSignal \in Nat /\ PostDelay \in Nat /\ lastSignal \in Nat
  BY WaitParts DEF DelayAssumption, TypeOK
<1>5. /\ WaitLeft = Missing(elapsed, NoMountRetry) + Missing(mountedFor, Ps4Grace + 1)
                      + (PostDelay - lastSignal) + SwitchWait(hostDetection)
      /\ WaitLeft' = Missing(elapsed', NoMountRetry) + Missing(mountedFor', Ps4Grace + 1)
                      + (PostDelay - lastSignal') + SwitchWait(hostDetection')
  BY DEF WaitLeft, SwitchWait
<1>6. SwitchWait(hostDetection) \in Nat /\ SwitchWait(hostDetection') \in Nat
  BY <1>4 DEF SwitchWait
<1> HIDE DEF task
<1>7. CASE ~mounted
  <2>1. task = NotYet \/ task.result # "NONE"
    <3>1. hostDetection.any \in SUBSET DetectFlag
      BY DEF TypeOK, Record
    <3>2. hostDetection.any # {} => ResolveFlags(hostDetection.any) # "NONE"
      BY <3>1, ResolveFlagsIsBest DEF DetectFlag
    <3>. QED BY <1>7, <3>2 DEF task, UsbHostDetectionTask
  <2>2. hostDetection' = hostDetection /\ lastSignal' = lastSignal /\ mountedFor' = mountedFor
    BY <1>1, <1>2, <2>1 DEF NotYet
  <2>3. ~Decidable
    <3>1. elapsed = NoMountRetry => elapsed' = NoMountRetry
      BY <1>1 DEF Started, Unset, DelayAssumption
    <3>2. elapsed' # NoMountRetry
      BY <1>2, <1>7, DeadlinePasses DEF TypeOK
    <3>. QED BY <3>1, <3>2 DEF Decidable
  <2>. QED BY <1>3, <1>4, <1>5, <1>6, <1>7, <2>2, <2>3 DEF ClocksRun, SwitchDue
<1>8. CASE mounted
  <2>1. /\ mountedFor' = Started(mountedFor)
        /\ ~Decidable
        /\ \/ /\ lastSignal' = lastSignal
              /\ SwitchCandidate(hostDetection') => SwitchCandidate(hostDetection)
              /\ ~SwitchDue
           \/ /\ lastSignal' = 0
              /\ SwitchCandidate(hostDetection)
              /\ ~SwitchCandidate(hostDetection')
    BY <1>1, <1>2, <1>8, SilentTask DEF task
  <2>2. /\ Missing(mountedFor', Ps4Grace + 1) \in Nat
        /\ Missing(mountedFor', Ps4Grace + 1) <= Missing(mountedFor, Ps4Grace + 1)
        /\ mountedFor = Unset =>
             Missing(mountedFor', Ps4Grace + 1) < Missing(mountedFor, Ps4Grace + 1)
    BY <2>1 DEF Missing, Started, TypeOK, Age, Unset, DelayAssumption
  <2>3. \/ /\ lastSignal' = lastSignal
           /\ SwitchWait(hostDetection') <= SwitchWait(hostDetection)
           /\ ~SwitchDue
        \/ /\ lastSignal' = 0
           /\ SwitchWait(hostDetection) = PostDelay + 1 /\ SwitchWait(hostDetection') = 0
    BY <1>4, <2>1 DEF SwitchWait
  <2>. QED BY <1>3, <1>4, <1>5, <1>6, <2>1, <2>2, <2>3 DEF ClocksRun
<1>. QED BY <1>7, <1>8

LEMMA WaitInRange ==
  ASSUME DelayAssumption, TypeOK
  PROVE  /\ WaitLeft = Missing(elapsed, NoMountRetry) + Missing(mountedFor, Ps4Grace + 1)
                        + (PostDelay - lastSignal) + SwitchWait(hostDetection)
         /\ SwitchWait(hostDetection) \in 0..(PostDelay + 1)
BY DEF WaitLeft, SwitchWait, DelayAssumption

(* A tick takes from every clock that runs and is not over.                *)
LEMMA TickTakesTime ==
  ASSUME DelayAssumption, TypeOK, Tick
  PROVE  /\ WaitLeft' <= WaitLeft
         /\ WaitLeft' < WaitLeft \/ ~ClocksRun \/ SwitchDue \/ Decidable
<1>1. /\ elapsed' = Older(elapsed, NoMountRetry)
      /\ mountedFor' = Older(mountedFor, Ps4Grace + 1)
      /\ lastSignal' = Older(lastSignal, PostDelay)
      /\ hostDetection' = hostDetection
  BY DEF Tick
<1>2. /\ Missing(elapsed', NoMountRetry) \in Nat /\ Missing(elapsed, NoMountRetry) \in Nat
      /\ Missing(elapsed', NoMountRetry) <= Missing(elapsed, NoMountRetry)
      /\ \/ elapsed \in {Unset, NoMountRetry}
         \/ Missing(elapsed', NoMountRetry) < Missing(elapsed, NoMountRetry)
  BY <1>1 DEF Missing, Older, TypeOK, Age, Unset, DelayAssumption
<1>3. /\ Missing(mountedFor', Ps4Grace + 1) \in Nat /\ Missing(mountedFor, Ps4Grace + 1) \in Nat
      /\ Missing(mountedFor', Ps4Grace + 1) <= Missing(mountedFor, Ps4Grace + 1)
      /\ \/ mountedFor \in {Unset, Ps4Grace + 1}
         \/ Missing(mountedFor', Ps4Grace + 1) < Missing(mountedFor, Ps4Grace + 1)
  BY <1>1 DEF Missing, Older, TypeOK, Age, Unset, DelayAssumption
<1>4. /\ PostDelay - lastSignal' \in Nat /\ PostDelay - lastSignal \in Nat
      /\ PostDelay - lastSignal' <= PostDelay - lastSignal
      /\ lastSignal = PostDelay \/ PostDelay - lastSignal' < PostDelay - lastSignal
  BY <1>1 DEF Older, TypeOK, Unset, DelayAssumption
<1>5. /\ WaitLeft' = Missing(elapsed', NoMountRetry) + Missing(mountedFor', Ps4Grace + 1)
                      + (PostDelay - lastSignal') + SwitchWait(hostDetection)
      /\ WaitLeft = Missing(elapsed, NoMountRetry) + Missing(mountedFor, Ps4Grace + 1)
                      + (PostDelay - lastSignal) + SwitchWait(hostDetection)
      /\ SwitchWait(hostDetection) \in Nat
  BY <1>1 DEF WaitLeft, SwitchWait, DelayAssumption
<1>6. WaitLeft' <= WaitLeft
  BY <1>2, <1>3, <1>4, <1>5
<1>7. CASE /\ elapsed \in {Unset, NoMountRetry} /\ mountedFor \in {Unset, Ps4Grace + 1}
           /\ lastSignal = PostDelay
  BY <1>6, <1>7 DEF ClocksRun, SwitchDue, Decidable
<1>8. CASE ~ /\ elapsed \in {Unset, NoMountRetry} /\ mountedFor \in {Unset, Ps4Grace + 1}
             /\ lastSignal = PostDelay
  BY <1>2, <1>3, <1>4, <1>5, <1>6, <1>8
<1>. QED BY <1>7, <1>8

LEMMA QuietStepTakesTime ==
  ASSUME DelayAssumption, BoundAssumption, TypeOK, DetectorNotSpent, FlagLeavesTrace,
         [Next]_vars, Probing, Probing', connected,
         ~\E req \in HostRequest : Speaks(req) /\ HostAsks(req)
  PROVE  TakesTime
<1>1. CASE Tick
  BY <1>1, TickTakesTime, PassTakesTime DEF TakesTime
<1>2. CASE AutoDetectProcess
  BY <1>2, TickTakesTime, PassTakesTime DEF TakesTime
<1>3. SUFFICES WaitLeft' <= WaitLeft
  BY <1>1, <1>2, TickTakesTime, PassTakesTime DEF TakesTime
<1>4. WaitLeft \in Nat
  BY WaitParts, WaitInRange DEF DelayAssumption
<1>5. ASSUME UNCHANGED <<hostDetection, lastSignal, mountedFor, elapsed>>
      PROVE  WaitLeft' <= WaitLeft
  BY <1>4, <1>5 DEF WaitLeft, Missing
<1>6. CASE HostConnects \/ HostConfigures \/ BusReset \/ HotSwapCheck \/ UNCHANGED vars
  BY <1>5, <1>6 DEF HostConnects, HostConfigures, BusReset, HotSwapCheck, vars, detector
<1>7. ASSUME NEW req \in HostRequest, HostAsks(req)
      PROVE  WaitLeft' <= WaitLeft
  <2>1. req \in {"manufacturer", "hid_report", "ms_os_string"}
    BY <1>7 DEF Speaks, IsSignal
  <2>2. /\ hostDetection' = Observe(hostDetection, req)
        /\ UNCHANGED <<lastSignal, mountedFor, elapsed>>
    BY <1>7, <2>1 DEF HostAsks, Probing, AfterRequest, IsSignal
  <2>3. /\ hostDetection'.any = hostDetection.any
        /\ hostDetection'.seen = hostDetection.seen \cup {req}
    BY <2>2 DEF Observe, TypeOK, Record
  <2>4. SwitchCandidate(hostDetection') => SwitchCandidate(hostDetection)
    BY <2>1, <2>3 DEF SwitchCandidate, Unmarked
  <2>5. /\ SwitchWait(hostDetection') <= SwitchWait(hostDetection)
        /\ SwitchWait(hostDetection) \in Nat /\ SwitchWait(hostDetection') \in Nat
    BY <2>4 DEF SwitchWait, DelayAssumption
  <2>6. /\ WaitLeft = Missing(elapsed, NoMountRetry) + Missing(mountedFor, Ps4Grace + 1)
                        + (PostDelay - lastSignal) + SwitchWait(hostDetection)
        /\ WaitLeft' = Missing(elapsed, NoMountRetry) + Missing(mountedFor, Ps4Grace + 1)
                        + (PostDelay - lastSignal) + SwitchWait(hostDetection')
    BY <2>2 DEF WaitLeft, SwitchWait, Missing
  <2>7. /\ Missing(elapsed, NoMountRetry) \in Nat /\ Missing(mountedFor, Ps4Grace + 1) \in Nat
        /\ PostDelay - lastSignal \in Nat
    BY WaitParts
  <2>. QED BY <2>5, <2>6, <2>7
<1>8. CASE User
  BY <1>5, <1>8, UserIsRunning DEF UserActs, detector
<1>9. ~PowerCycle /\ ~\E psx \in BOOLEAN : Boot(psx)
  BY DEF Probing, PowerCycle, Reboot, Boot
<1>. QED BY <1>1, <1>2, <1>6, <1>7, <1>8, <1>9 DEF Next, Device, Host, TakesTime

LEMMA DecidableIsDecided ==
  ASSUME DelayAssumption, TypeOK, DetectorNotSpent, FlagLeavesTrace, Probing, connected, Decidable
  PROVE  PassDecides
<1>1. ~fullyInitialized
  BY DEF Probing, DetectorNotSpent
<1>2. CASE mounted
  BY <1>1, <1>2, SilentTask DEF PassDecides
<1>3. CASE ~mounted
  <2>1. \A vbus \in BOOLEAN :
          AssistOver(elapsed) \/ HostFailedToMount(elapsed, attachRetry, vbus)
    BY <1>3, DeadlinePasses DEF Decidable, TypeOK
  <2>. QED BY <2>1 DEF PassDecides
<1>. QED BY <1>2, <1>3

(* The longest that a probe can ask a silent host to wait, in ticks and    *)
(* passes of the loop.                                                     *)
LongestWait == (NoMountRetry + 1) + (Ps4Grace + 2) + PostDelay + (PostDelay + 1)

(* auto_detect_process cannot probe a silent host for ever: in every order *)
(* of requests, bus resets and passes of the loop, what is left to wait    *)
(* for is a number that nothing but a new signal raises, that each tick or *)
(* pass lowers, and at whose end the next pass concludes.                  *)
THEOREM ProbesRunOut == Spec => ProbeRunsOut /\ [](WaitLeft \in 0..LongestWait)
<1>1. Init => FlagLeavesTrace
  BY DEF Init, FlagLeavesTrace, NoObservation
<1>2. TypeOK /\ FlagLeavesTrace /\ [Next]_vars => FlagLeavesTrace'
  BY FlagLeavesTraceStep, DelayAssumption, BoundAssumption
<1>3. TypeOK /\ DetectorNotSpent /\ FlagLeavesTrace
        => (Probing /\ connected /\ Decidable => PassDecides)
  BY DecidableIsDecided, DelayAssumption
<1>4. TypeOK /\ DetectorNotSpent /\ FlagLeavesTrace /\ [Next]_vars
        => [/\ Probing /\ Probing' /\ connected
            /\ ~\E req \in HostRequest : Speaks(req) /\ HostAsks(req)
            => /\ WaitLeft' <= WaitLeft
               /\ Tick => WaitLeft' < WaitLeft \/ ~ClocksRun \/ SwitchDue \/ Decidable
               /\ AutoDetectProcess =>
                    ~Decidable /\ (WaitLeft' < WaitLeft \/ (ClocksRun /\ ~SwitchDue))]_vars
  BY QuietStepTakesTime, DelayAssumption, BoundAssumption DEF TakesTime
<1>5. TypeOK => WaitLeft \in 0..LongestWait
  BY WaitParts, WaitInRange, DelayAssumption DEF LongestWait, DelayAssumption
<1>. QED BY <1>1, <1>2, <1>3, <1>4, <1>5, TypeCorrect, DetectorIsNotSpent, PTL
         DEF Spec, ProbeRunsOut
====
