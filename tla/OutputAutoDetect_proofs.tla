---- MODULE OutputAutoDetect_proofs ----
(***************************************************************************)
(* Proofs about AUTO output, for every length of the delays, every set of  *)
(* requests and selections, and any number of disturbances.                *)
(***************************************************************************)
EXTENDS OutputAutoDetectProps, HostDetection_proofs

(***************************************************************************)
(* Values                                                                  *)
(***************************************************************************)
LEMMA AgeGrows ==
  ASSUME NEW max \in Nat, NEW age \in Age(max)
  PROVE  Older(age, max) \in Age(max) /\ Started(age) \in 0..max
BY DEF Age, Older, Started, Unset

LEMMA SignalAgeGrows ==
  ASSUME NEW max \in Nat, NEW age \in 0..max
  PROVE  Older(age, max) \in 0..max
BY DEF Older, Unset

LEMMA SanitizedModes ==
  /\ \A m \in OutputMode : SanitizeConfigured(m) \in OutputMode \ {"PS5"}
  /\ \A m \in OutputMode : SanitizeRuntime(m) \in RuntimeMode
  /\ \A m \in RuntimeMode : SanitizeRuntime(m) = m
  /\ \A pref \in Preference : WindowsOutput(pref) \in {"HID", "KEYBOARD", "XINPUTW"}
  /\ \A pref \in Preference : MisterOutput(pref) \in {"KEYBOARD", "XINPUT2P", Mister}
  /\ {"HID", "KEYBOARD", "XINPUTW", "XINPUT2P", "PS3", "PS4", "XINPUT", "XID", "SWITCHPRO",
      Mister, MisterPsx} \subseteq RuntimeMode
<1>1. \A m \in OutputMode : SanitizeConfigured(m) \in OutputMode \ {"PS5"}
  BY DEF SanitizeConfigured, OutputMode, Mister, MisterPsx, AutoOutput
<1>2. \A m \in OutputMode : SanitizeRuntime(m) \in RuntimeMode
  BY DEF SanitizeRuntime, RuntimeMode, SanitizeConfigured, OutputMode, Mister, MisterPsx, AutoOutput
<1>3. \A m \in RuntimeMode : SanitizeRuntime(m) = m
  BY DEF SanitizeRuntime, RuntimeMode, SanitizeConfigured, OutputMode, Mister, MisterPsx, AutoOutput
<1>4. \A pref \in Preference : WindowsOutput(pref) \in {"HID", "KEYBOARD", "XINPUTW"}
  BY DEF WindowsOutput, Preference
<1>5. \A pref \in Preference : MisterOutput(pref) \in {"KEYBOARD", "XINPUT2P", Mister}
  BY DEF MisterOutput, Preference
<1>6. {"HID", "KEYBOARD", "XINPUTW", "XINPUT2P", "PS3", "PS4", "XINPUT", "XID", "SWITCHPRO",
       Mister, MisterPsx} \subseteq RuntimeMode
  BY DEF RuntimeMode, OutputMode, Mister, MisterPsx, AutoOutput
<1>. QED BY <1>1, <1>2, <1>3, <1>4, <1>5, <1>6

Registers == [magic : BOOLEAN, mode : RuntimeMode, state : AutoState, stage : ProbeStage]

LEMMA EmptyRegisters == EmptyScratch \in Registers
BY DEF EmptyScratch, Registers, RuntimeMode, OutputMode, AutoState, ProbeStage, Idle, Mister,
       MisterPsx, AutoOutput

LEMMA ResolvedRegisters ==
  ASSUME scratch \in Registers, NEW mode \in RuntimeMode, NEW state \in AutoState
  PROVE  Resolved(mode, state) \in Registers
BY SanitizedModes DEF Resolved, Registers

LEMMA PreservedRegisters ==
  ASSUME scratch \in Registers, autoDetectState \in AutoState,
         NEW mode \in RuntimeMode, NEW win \in Preference, NEW mister \in Preference
  PROVE  Preserved(mode, win, mister) \in Registers
<1>1. MisterOutput(mister) \in RuntimeMode /\ Fallback \in AutoState
  BY SanitizedModes DEF AutoState, Fallback
<1>. QED BY <1>1, ResolvedRegisters DEF Preserved

(***************************************************************************)
(* The host detector: whatever it answers, the record stays well formed,   *)
(* and it answers with a name that auto_detect_process knows.              *)
(***************************************************************************)
HostName == DetectFlag \cup {"SWITCH2"}

LEMMA MountedTaskType ==
  ASSUME DelayAssumption, TypeOK
  PROVE  /\ MountedTask.result \in HostName \cup {"NONE", "TIMEOUT"}
         /\ MountedTask.host \in Record
         /\ MountedTask.quietFor \in 0..PostDelay
         /\ MountedTask.mountedFor \in Age(Ps4Grace + 1)
         /\ MountedTask.done \in BOOLEAN
         /\ MountedTask.done <=> MountedTask.result # "NONE"
<1> DEFINE since       == Started(mountedFor)
           graceOver   == since > Ps4Grace
           switchReady == SwitchCandidate(hostDetection)
                            /\ (GenericHidActivity(hostDetection) => graceOver)
           kept        == RejectLinuxPs3(hostDetection, autoDetectProbeStage)
           host        == IF switchReady THEN Mark(kept, "SWITCH1") ELSE kept
           quietFor    == IF switchReady THEN 0 ELSE lastSignal
           awaitsPs4   == GenericHidActivity(hostDetection) /\ Unmarked(hostDetection)
           believed    == host.any # {} /\ quietFor >= PostDelay
           silent      == host.any = {} /\ (awaitsPs4 => graceOver) /\ since > NonWiiu
           silentHost  == IF "hid_report" \in host.seen /\ "manufacturer" \notin host.seen
                            THEN "SWITCH2" ELSE "TIMEOUT"
<1>1. since \in Age(Ps4Grace + 1)
  BY AgeGrows DEF TypeOK, DelayAssumption, Age
<1>2. kept \in Record
  BY DEF TypeOK, RejectLinuxPs3, Record
<1>3. host \in Record
  BY <1>2 DEF Mark, Record, DetectFlag
<1>4. quietFor \in 0..PostDelay
  BY DEF TypeOK, DelayAssumption
<1>5. believed => ResolveFlags(host.any) \in DetectFlag
  BY <1>3, ResolveFlagsIsBest DEF Record
<1>6. MountedTask = [result |-> IF believed THEN ResolveFlags(host.any)
                                ELSE IF silent THEN silentHost ELSE "NONE",
                     host |-> host, quietFor |-> quietFor, mountedFor |-> since,
                     done |-> believed \/ silent]
  BY DEF MountedTask
<1>7. "NONE" \notin DetectFlag
  BY DEF DetectFlag
<1> HIDE DEF since, kept, host, quietFor, believed, silent
<1>8. silentHost \in HostName \cup {"TIMEOUT"} /\ silentHost # "NONE"
  BY DEF HostName
<1>. QED BY <1>1, <1>3, <1>4, <1>5, <1>6, <1>7, <1>8 DEF HostName

LEMMA TaskType ==
  ASSUME DelayAssumption, TypeOK
  PROVE  /\ UsbHostDetectionTask.result \in HostName \cup {"NONE", "TIMEOUT"}
         /\ UsbHostDetectionTask.host \in Record
         /\ UsbHostDetectionTask.quietFor \in 0..PostDelay
         /\ UsbHostDetectionTask.mountedFor \in Age(Ps4Grace + 1)
         /\ UsbHostDetectionTask.done \in BOOLEAN
         /\ ~fullyInitialized =>
              (UsbHostDetectionTask.done <=> UsbHostDetectionTask.result # "NONE")
<1>1. CASE fullyInitialized
  BY <1>1 DEF UsbHostDetectionTask, NotYet, TypeOK
<1>2. CASE ~fullyInitialized /\ hostDetection.any \cap PremountFlag # {} /\ lastSignal >= PostDelay
  <2>1. hostDetection.any \in SUBSET DetectFlag /\ hostDetection.any # {}
    BY <1>2 DEF TypeOK, Record
  <2>2. ResolveFlags(hostDetection.any) \in HostName /\ ResolveFlags(hostDetection.any) # "NONE"
    BY <2>1, ResolveFlagsIsBest DEF HostName, DetectFlag
  <2>. QED BY <1>2, <2>2 DEF UsbHostDetectionTask, NotYet, TypeOK
<1>3. CASE /\ ~fullyInitialized /\ ~mounted
           /\ ~(hostDetection.any \cap PremountFlag # {} /\ lastSignal >= PostDelay)
  BY <1>3 DEF UsbHostDetectionTask, NotYet, TypeOK
<1>4. CASE /\ ~fullyInitialized /\ mounted
           /\ ~(hostDetection.any \cap PremountFlag # {} /\ lastSignal >= PostDelay)
  BY <1>4, MountedTaskType DEF UsbHostDetectionTask
<1>. QED BY <1>1, <1>2, <1>3, <1>4

(***************************************************************************)
(* The outcomes of a pass of auto_detect_process.                          *)
(***************************************************************************)
(* The state that a host's name leads to.                                  *)
StateOf(result) ==
  CASE result = "XBOX360" -> "XBOX_360"
    [] result = "OGXBOX"  -> "OG_XBOX"
    [] result \in {"SWITCH1", "SWITCH2"} -> "SWITCH"
    [] OTHER -> result

(* A named host is settled in a personality that belongs to its state, by  *)
(* a reboot unless that personality is running already.                    *)
LEMMA SettledHost ==
  ASSUME TypeOK, NEW result \in HostName, SettleHost(result)
  PROVE  /\ StateOf(result) \in AutoState \ {Idle, Fallback}
         /\ \E mode \in RuntimeMode :
              /\ PersonalityOf(StateOf(result), mode, winOutput, misterOutput)
              /\ \/ Reenumerate(mode, StateOf(result))
                 \/ /\ SettleInPlace(StateOf(result))
                    /\ outputMode = mode /\ mode \in {"PS4", "XID", "SWITCHPRO"}
<1> USE SanitizedModes DEF PersonalityOf, TypeOK, StateOf
<1>1. CASE result = "PS3"
  BY <1>1 DEF SettleHost, AutoState, Idle, Fallback
<1>2. CASE result = "WINDOWS"
  BY <1>2 DEF SettleHost, AutoState, Idle, Fallback
<1>3. CASE result = "XBOX360"
  BY <1>3 DEF SettleHost, AutoState, Idle, Fallback
<1>4. CASE result = "PS4"
  BY <1>4 DEF SettleHost, Settle, AutoState, Idle, Fallback
<1>5. CASE result = "OGXBOX"
  BY <1>5 DEF SettleHost, Settle, AutoState, Idle, Fallback
<1>6. CASE result \in {"SWITCH1", "SWITCH2"}
  BY <1>6 DEF SettleHost, Settle, AutoState, Idle, Fallback
<1>. QED BY <1>1, <1>2, <1>3, <1>4, <1>5, <1>6 DEF HostName, DetectFlag

(* The four ways a pass of auto_detect_process can end.                    *)
LEMMA ProcessOutcome ==
  ASSUME DelayAssumption, TypeOK, AutoDetectProcess
  PROVE  \/ UsbHostDetectionTask.result = "NONE" /\ KeepProbing
         \/ /\ StartPs3Assist
            /\ autoDetectProbeStage = "GENERIC"
            /\ UsbHostDetectionTask.result = "TIMEOUT" \/ connected
         \/ /\ SettleFallback
            /\ UsbHostDetectionTask.result = "TIMEOUT" \/ autoDetectProbeStage = "PS3"
         \/ /\ UsbHostDetectionTask.result \in HostName
            /\ SettleHost(UsbHostDetectionTask.result)
<1> DEFINE result == UsbHostDetectionTask.result
<1>1. PICK vbus \in BOOLEAN : Conclude(result, vbus)
  BY DEF AutoDetectProcess
<1>2. result \in HostName \cup {"NONE", "TIMEOUT"}
  BY TaskType
<1> HIDE DEF result
<1>3. \/ result = "NONE" /\ KeepProbing
      \/ /\ StartPs3Assist
         /\ autoDetectProbeStage = "GENERIC"
         /\ result = "TIMEOUT" \/ connected
      \/ SettleFallback /\ (result = "TIMEOUT" \/ autoDetectProbeStage = "PS3")
      \/ result \in HostName /\ SettleHost(result)
  BY <1>1, <1>2 DEF Conclude, AssistOver, HostFailedToMount
<1>. QED BY <1>3 DEF result

(***************************************************************************)
(* Type correctness                                                        *)
(***************************************************************************)

(* The personality variables and the registers, which most actions touch.  *)
PersonalityTyped ==
  /\ scratch \in Registers
  /\ phase \in {"running", "resetting"}
  /\ outputMode \in RuntimeMode
  /\ autoDetectState \in AutoState
  /\ autoDetectProbeStage \in ProbeStage
  /\ verdict \in [by : {"nobody", "detector", "input"}, on : SUBSET Request]

SettingsTyped ==
  /\ configuredOutputMode \in OutputMode \ {"PS5"}
  /\ winOutput \in Preference /\ misterOutput \in Preference

DetectorTyped ==
  /\ hostDetection \in Record
  /\ lastSignal \in 0..PostDelay
  /\ mountedFor \in Age(Ps4Grace + 1)
  /\ elapsed \in Age(NoMountRetry)
  /\ attachRetry \in 0..2
  /\ detachedFor \in Age(Reattach)

CountersTyped ==
  /\ noDataFor \in Age(NoDataHost)
  /\ requests \in 0..MaxRequest /\ disturbances \in 0..MaxDisturbance
  /\ evidence \subseteq Request
  /\ autoReboots \in 0..RebootCap

(* Apart from the numbers, because one prover knows the one and one the    *)
(* other.                                                                  *)
BooleansTyped ==
  /\ fullyInitialized \in BOOLEAN
  /\ connected \in BOOLEAN /\ mounted \in BOOLEAN
  /\ hostEver \in BOOLEAN

Typed == PersonalityTyped /\ SettingsTyped /\ DetectorTyped /\ CountersTyped /\ BooleansTyped

LEMMA TypeParts == (TypeOK <=> Typed) /\ (TypeOK' <=> Typed')
<1>. USE DEF TypeOK, Typed, PersonalityTyped, SettingsTyped, DetectorTyped, CountersTyped,
             BooleansTyped, Registers
<1>1. TypeOK <=> Typed
  OBVIOUS
<1>2. TypeOK' <=> Typed'
  OBVIOUS
<1>. QED BY <1>1, <1>2

(* What a boot starts from.                                                *)
LEMMA FreshValues ==
  ASSUME DelayAssumption
  PROVE  /\ NoObservation \in Record
         /\ NoVerdict \in [by : {"nobody", "detector", "input"}, on : SUBSET Request]
         /\ 0 \in 0..PostDelay
         /\ Unset \in Age(Ps4Grace + 1) /\ Unset \in Age(NoMountRetry)
         /\ Unset \in Age(Reattach) /\ Unset \in Age(NoDataHost)
<1>1. NoObservation \in Record
  BY DEF NoObservation, Record
<1>2. NoVerdict \in [by : {"nobody", "detector", "input"}, on : SUBSET Request]
  BY DEF NoVerdict
<1>. QED BY <1>1, <1>2 DEF Age, DelayAssumption

LEMMA InitTyped ==
  ASSUME DelayAssumption, BoundAssumption, Init
  PROVE  TypeOK
<1>1. PersonalityTyped
  BY EmptyRegisters, SanitizedModes, FreshValues DEF Init, PersonalityTyped, AutoState, ProbeStage
<1>2. SettingsTyped
  BY SanitizedModes DEF Init, SettingsTyped, BoundAssumption
<1>3. DetectorTyped
  BY FreshValues DEF Init, DetectorTyped
<1>4. CountersTyped
  BY FreshValues DEF Init, CountersTyped, BoundAssumption, RebootCap
<1>5. BooleansTyped
  BY DEF Init, BooleansTyped
<1>. QED BY <1>1, <1>2, <1>3, <1>4, <1>5, TypeParts DEF Typed

LEMMA AfterInputSetupMode ==
  ASSUME NEW mode \in RuntimeMode, NEW psx \in BOOLEAN
  PROVE  AfterInputSetup(mode, psx) \in RuntimeMode
BY SanitizedModes DEF AfterInputSetup

LEMMA TypedBoot ==
  ASSUME DelayAssumption, BoundAssumption, TypeOK, NEW psx \in BOOLEAN, Boot(psx)
  PROVE  TypeOK'
<1>. USE TypeParts DEF Typed
<1>1. PersonalityTyped'
  <2>1. SanitizeRuntime(configuredOutputMode) \in RuntimeMode
    BY SanitizedModes DEF SettingsTyped
  <2>2. RestoredMode # AutoOutput => RestoredMode \in RuntimeMode
    BY SanitizedModes DEF RestoredMode, PersonalityTyped, Registers
  <2>3. ProbeOutput(scratch.stage) \in RuntimeMode
    BY SanitizedModes DEF ProbeOutput
  <2>4. outputMode' \in RuntimeMode
    BY <2>1, <2>2, <2>3, AfterInputSetupMode DEF Boot
  <2>5. autoDetectState' \in AutoState /\ autoDetectProbeStage' \in ProbeStage
    BY DEF Boot, PersonalityTyped, Registers, AutoState, ProbeStage
  <2>6. verdict' \in [by : {"nobody", "detector", "input"}, on : SUBSET Request]
    BY FreshValues DEF Boot, PersonalityTyped
  <2>7. scratch' \in Registers /\ phase' \in {"running", "resetting"}
    BY EmptyRegisters DEF Boot
  <2>. QED BY <2>4, <2>5, <2>6, <2>7 DEF PersonalityTyped
<1>2. SettingsTyped'
  BY DEF Boot, SettingsTyped, settings
<1>3. DetectorTyped'
  BY FreshValues DEF Boot, DetectorTyped
<1>4. CountersTyped'
  <2>1. noDataFor' = Unset /\ requests' = 0 /\ evidence' = {}
    BY DEF Boot
  <2>2. UNCHANGED <<disturbances, autoReboots>>
    BY DEF Boot
  <2>. QED BY <2>1, <2>2, FreshValues DEF CountersTyped, BoundAssumption
<1>5. BooleansTyped'
  BY DEF Boot, BooleansTyped
<1>. QED BY <1>1, <1>2, <1>3, <1>4, <1>5

LEMMA DisturbTyped ==
  ASSUME BoundAssumption, disturbances \in 0..MaxDisturbance, Disturb
  PROVE  disturbances' \in 0..MaxDisturbance
BY DEF Disturb, BoundAssumption

LEMMA TypedEnvironment ==
  ASSUME DelayAssumption, BoundAssumption, TypeOK, Tick \/ Host \/ PowerCycle
  PROVE  TypeOK'
<1>. USE TypeParts DEF Typed
<1>1. CASE Tick
  <2>1. PersonalityTyped' /\ SettingsTyped' /\ BooleansTyped'
    BY <1>1 DEF Tick, PersonalityTyped, SettingsTyped, BooleansTyped, settings, personality, bus, history
  <2>2. UNCHANGED <<hostDetection, attachRetry, requests, disturbances, evidence, autoReboots>>
    BY <1>1 DEF Tick, history
  <2>3. lastSignal' \in 0..PostDelay
    BY <1>1, SignalAgeGrows DEF Tick, DetectorTyped, DelayAssumption
  <2>4. mountedFor' \in Age(Ps4Grace + 1)
    BY <1>1, AgeGrows DEF Tick, DetectorTyped, DelayAssumption
  <2>5. elapsed' \in Age(NoMountRetry)
    BY <1>1, AgeGrows DEF Tick, DetectorTyped, DelayAssumption
  <2>6. detachedFor' \in Age(Reattach)
    BY <1>1, AgeGrows DEF Tick, DetectorTyped, DelayAssumption
  <2>7. noDataFor' \in Age(NoDataHost)
    BY <1>1, AgeGrows DEF Tick, CountersTyped, DelayAssumption
  <2>. QED BY <2>1, <2>2, <2>3, <2>4, <2>5, <2>6, <2>7 DEF DetectorTyped, CountersTyped
<1>2. CASE HostConnects
  <2>1. UNCHANGED <<settings, scratch, phase, personality, detector, requests, disturbances,
                    evidence, verdict, autoReboots>>
    BY <1>2 DEF HostConnects
  <2>2. PersonalityTyped' /\ SettingsTyped' /\ DetectorTyped' /\ CountersTyped'
    BY <2>1 DEF PersonalityTyped, SettingsTyped, DetectorTyped, CountersTyped, settings,
                personality, detector
  <2>3. BooleansTyped'
    BY <1>2 DEF HostConnects, BooleansTyped, detector
  <2>. QED BY <2>2, <2>3
<1>3. CASE HostConfigures
  <2>1. UNCHANGED <<settings, scratch, phase, personality, detector, connected, requests,
                    disturbances, history>>
    BY <1>3 DEF HostConfigures
  <2>2. PersonalityTyped' /\ SettingsTyped' /\ DetectorTyped' /\ CountersTyped'
    BY <2>1 DEF PersonalityTyped, SettingsTyped, DetectorTyped, CountersTyped, settings,
                personality, detector, history
  <2>3. BooleansTyped'
    BY <1>3 DEF HostConfigures, BooleansTyped, detector, history
  <2>. QED BY <2>2, <2>3
<1>4. CASE BusReset
  <2>1. UNCHANGED <<settings, scratch, phase, personality, detector, requests, history>>
    BY <1>4 DEF BusReset
  <2>2. disturbances' \in 0..MaxDisturbance
    BY <1>4, DisturbTyped DEF BusReset, CountersTyped
  <2>3. PersonalityTyped' /\ SettingsTyped' /\ DetectorTyped' /\ CountersTyped'
    BY <2>1, <2>2 DEF PersonalityTyped, SettingsTyped, DetectorTyped, CountersTyped, settings,
                personality, detector, history
  <2>4. BooleansTyped'
    BY <1>4 DEF BusReset, BooleansTyped, detector, history
  <2>. QED BY <2>3, <2>4
<1>5. ASSUME NEW req \in HostRequest, HostAsks(req)
      PROVE  TypeOK'
  <2>1. UNCHANGED <<settings, scratch, phase, personality, fullyInitialized, mountedFor, elapsed,
                    attachRetry, detachedFor, noDataFor, bus, disturbances, verdict, autoReboots,
                    hostEver>>
    BY <1>5 DEF HostAsks
  <2>2. PersonalityTyped' /\ SettingsTyped' /\ BooleansTyped'
    BY <2>1 DEF PersonalityTyped, SettingsTyped, BooleansTyped, settings, personality, bus
  <2>3. req \in Request
    BY DEF BoundAssumption
  <2>4. hostDetection' \in Record
    <3>1. CASE CanRunDetection
      BY <1>5, <2>3, <3>1, AfterRequestType DEF HostAsks, DetectorTyped
    <3>2. CASE ~CanRunDetection
      BY <1>5, <3>2 DEF HostAsks, DetectorTyped, Observe, Record, Observation
    <3>. QED BY <3>1, <3>2
  <2>5. lastSignal' \in 0..PostDelay
    BY <1>5 DEF HostAsks, DetectorTyped, DelayAssumption
  <2>6. requests' \in 0..MaxRequest
    BY <1>5 DEF HostAsks, CountersTyped, BoundAssumption
  <2>7. evidence' \subseteq Request
    BY <1>5, <2>3 DEF HostAsks, CountersTyped
  <2>8. DetectorTyped' /\ CountersTyped'
    BY <2>1, <2>4, <2>5, <2>6, <2>7 DEF DetectorTyped, CountersTyped
  <2>. QED BY <2>2, <2>8
<1>6. CASE PowerCycle
  <2>1. UNCHANGED <<settings, personality, detector, bus, requests, evidence>>
    BY <1>6 DEF PowerCycle
  <2>2. /\ phase' = "resetting" /\ scratch' = EmptyScratch /\ autoReboots' = 0 
        /\ hostEver' = FALSE /\ verdict' = NoVerdict
    BY <1>6 DEF PowerCycle, Reboot
  <2>3. disturbances' \in 0..MaxDisturbance
    BY <1>6, DisturbTyped DEF PowerCycle, CountersTyped
  <2>4. PersonalityTyped'
    BY <2>1, <2>2, EmptyRegisters, FreshValues DEF PersonalityTyped, personality
  <2>5. SettingsTyped' /\ DetectorTyped' 
    BY <2>1 DEF SettingsTyped, DetectorTyped, settings, detector
  <2>6. CountersTyped'
    BY <2>1, <2>2, <2>3 DEF CountersTyped, detector, RebootCap
  <2>7. BooleansTyped'
    BY <2>1, <2>2 DEF BooleansTyped, detector, bus
  <2>. QED BY <2>4, <2>5, <2>6, <2>7
<1>. QED BY <1>1, <1>2, <1>3, <1>4, <1>5, <1>6 DEF Host

LEMMA TypedProcess ==
  ASSUME DelayAssumption, BoundAssumption, TypeOK, AutoDetectProcess
  PROVE  TypeOK'
<1>. USE TypeParts DEF Typed
<1>1. SettingsTyped'
  BY DEF AutoDetectProcess, SettingsTyped, settings
<1>2. /\ hostDetection' = UsbHostDetectionTask.host
      /\ lastSignal' = UsbHostDetectionTask.quietFor
      /\ mountedFor' = UsbHostDetectionTask.mountedFor
      /\ fullyInitialized' = UsbHostDetectionTask.done
      /\ UNCHANGED <<settings, noDataFor, bus, requests, disturbances, evidence, hostEver>>
  BY DEF AutoDetectProcess
<1>3. elapsed' \in Age(NoMountRetry)
  BY AgeGrows DEF AutoDetectProcess, DetectorTyped, DelayAssumption, Age
<1>4. attachRetry' \in 0..2 /\ detachedFor' \in Age(Reattach)
  BY AgeGrows DEF AutoDetectProcess, StepAttachRetry, DetectorTyped, DelayAssumption, Age
<1>5. DetectorTyped'
  BY <1>2, <1>3, <1>4, TaskType DEF DetectorTyped
<1>6. BooleansTyped'
  BY <1>2, TaskType DEF BooleansTyped, bus
<1>7. evidence \subseteq Request
  BY DEF CountersTyped
<1>8. PersonalityTyped' /\ autoReboots' \in 0..RebootCap
  <2>1. CountReboot => autoReboots' \in 0..RebootCap
    BY DEF CountReboot, CountersTyped, Min2, RebootCap
  <2>2. [by |-> "detector", on |-> evidence] \in [by : {"nobody", "detector", "input"}, on : SUBSET Request]
    BY <1>7
  <2>3. ASSUME NEW mode \in RuntimeMode, NEW state \in AutoState, Reenumerate(mode, state)
        PROVE  PersonalityTyped' /\ autoReboots' \in 0..RebootCap
    <3>1. Resolved(mode, state) \in Registers
      BY ResolvedRegisters DEF PersonalityTyped
    <3>. QED BY <2>1, <2>2, <2>3, <3>1 DEF Reenumerate, Reboot, PersonalityTyped, ProbeStage
  <2>4. CASE KeepProbing
    BY <2>4 DEF KeepProbing, PersonalityTyped, CountersTyped, personality
  <2>5. CASE StartPs3Assist
    <3>1. [scratch EXCEPT !.stage = "PS3", !.mode = "HID", !.state = Idle] \in Registers
      BY SanitizedModes DEF PersonalityTyped, Registers, AutoState, ProbeStage, Idle
    <3>. QED BY <2>1, <2>5, <3>1 DEF StartPs3Assist, Reboot, PersonalityTyped, ProbeStage
  <2>6. CASE SettleFallback
    <3>1. MisterOutput(misterOutput) \in RuntimeMode /\ Fallback \in AutoState
      BY SanitizedModes DEF SettingsTyped, AutoState, Fallback
    <3>. QED BY <2>3, <2>6, <3>1 DEF SettleFallback
  <2>7. CASE UsbHostDetectionTask.result \in HostName /\ SettleHost(UsbHostDetectionTask.result)
    <3>1. StateOf(UsbHostDetectionTask.result) \in AutoState
      BY <2>7, SettledHost
    <3>2. CASE SettleInPlace(StateOf(UsbHostDetectionTask.result))
      BY <2>2, <3>1, <3>2 DEF SettleInPlace, PersonalityTyped, CountersTyped, ProbeStage
    <3>3. CASE \E mode \in RuntimeMode : Reenumerate(mode, StateOf(UsbHostDetectionTask.result))
      BY <2>3, <3>1, <3>3
    <3>. QED BY <2>7, <3>2, <3>3, SettledHost
  <2>. QED BY <2>4, <2>5, <2>6, <2>7, ProcessOutcome
<1>9. CountersTyped'
  BY <1>2, <1>8 DEF CountersTyped
<1>. QED BY <1>1, <1>5, <1>6, <1>8, <1>9

(* What a reboot that keeps the host's personality, or forgets it, writes. *)
LEMMA KeptRegisters ==
  ASSUME BoundAssumption, TypeOK, NEW mode \in RuntimeMode, NEW win \in Preference, NEW mister \in Preference
  PROVE  /\ Preserved(mode, win, mister) \in Registers
         /\ PreservedVerdict(mode, win, mister)
              \in [by : {"nobody", "detector", "input"}, on : SUBSET Request]
<1>. USE TypeParts DEF Typed
<1>1. Preserved(mode, win, mister) \in Registers
  BY PreservedRegisters DEF PersonalityTyped
<1>2. PreservedVerdict(mode, win, mister) \in [by : {"nobody", "detector", "input"}, on : SUBSET Request]
  BY DEF PreservedVerdict, PersonalityTyped, CountersTyped
<1>. QED BY <1>1, <1>2

LEMMA TypedReenumerate ==
  ASSUME BoundAssumption, TypeOK, NEW mode \in RuntimeMode, TryReenumerate(mode)
  PROVE  /\ scratch' \in Registers
         /\ phase' \in {"running", "resetting"}
         /\ autoDetectProbeStage' \in ProbeStage
         /\ verdict' \in [by : {"nobody", "detector", "input"}, on : SUBSET Request]
<1>. USE TypeParts DEF Typed
<1>1. /\ Preserved(mode, winOutput, misterOutput) \in Registers
      /\ PreservedVerdict(mode, winOutput, misterOutput)
           \in [by : {"nobody", "detector", "input"}, on : SUBSET Request]
  BY KeptRegisters DEF SettingsTyped
<1>. QED BY <1>1 DEF TryReenumerate, Reboot, PersonalityTyped, ProbeStage

LEMMA TypedHotSwap ==
  ASSUME DelayAssumption, BoundAssumption, TypeOK, HotSwapCheck
  PROVE  TypeOK'
<1>. USE TypeParts DEF Typed
<1>1. UNCHANGED <<settings, autoDetectState, hostDetection, lastSignal, fullyInitialized,
                  mountedFor, elapsed, attachRetry, detachedFor, bus, requests, evidence, hostEver>>
  BY DEF HotSwapCheck
<1>2. SettingsTyped' /\ DetectorTyped' /\ BooleansTyped'
  BY <1>1 DEF SettingsTyped, DetectorTyped, BooleansTyped, settings, bus
<1>3. noDataFor' \in Age(NoDataHost)
  <2>1. noDataFor' = NoDataHostAge
    BY DEF HotSwapCheck
  <2>2. Unset \in Age(NoDataHost) /\ Started(noDataFor) \in Age(NoDataHost)
    BY AgeGrows DEF Age, CountersTyped, DelayAssumption
  <2>. QED BY <2>1, <2>2 DEF NoDataHostAge
<1>4. CASE UNCHANGED <<phase, scratch, outputMode, autoDetectProbeStage, verdict, autoReboots,
                       disturbances>>
  BY <1>1, <1>2, <1>3, <1>4 DEF PersonalityTyped, CountersTyped
<1>5. CASE Disturb /\ autoReboots' = 0
           /\ (PsxPeripheralPlugged \/ PsxPeripheralUnplugged \/ PlayerCountChanged)
  <2>1. CountersTyped'
    BY <1>1, <1>3, <1>5, DisturbTyped DEF CountersTyped, RebootCap
  <2>2. \E mode \in RuntimeMode : outputMode' \in RuntimeMode /\ TryReenumerate(mode)
    BY <1>5, SanitizedModes
       DEF PsxPeripheralPlugged, PsxPeripheralUnplugged, PlayerCountChanged, PersonalityTyped
  <2>3. PersonalityTyped'
    BY <1>1, <2>2, TypedReenumerate DEF PersonalityTyped
  <2>. QED BY <1>2, <2>1, <2>3
<1>. QED BY <1>4, <1>5 DEF HotSwapCheck

LEMMA TypedUser ==
  ASSUME DelayAssumption, BoundAssumption, TypeOK, User
  PROVE  TypeOK'
<1>. USE TypeParts DEF Typed
<1>1. ASSUME UserActs PROVE DetectorTyped' /\ CountersTyped' /\ BooleansTyped'
  <2>1. UNCHANGED <<detector, bus, requests, evidence, hostEver>> /\ autoReboots' = 0
    BY <1>1 DEF UserActs
  <2>2. disturbances' \in 0..MaxDisturbance
    BY <1>1, DisturbTyped DEF UserActs, CountersTyped
  <2>3. DetectorTyped' /\ CountersTyped'
    BY <2>1, <2>2 DEF DetectorTyped, CountersTyped, detector, RebootCap
  <2>4. BooleansTyped'
    BY <2>1 DEF BooleansTyped, detector, bus
  <2>. QED BY <2>3, <2>4
<1>2. /\ EmptyScratch \in Registers
      /\ NoVerdict \in [by : {"nobody", "detector", "input"}, on : SUBSET Request]
      /\ "GENERIC" \in ProbeStage /\ Idle \in AutoState
  BY EmptyRegisters, FreshValues DEF ProbeStage, AutoState
<1>3. CASE ResetTap
  BY <1>1, <1>2, <1>3 DEF ResetTap, Reboot, SettingsTyped, settings, PersonalityTyped, personality
<1>4. CASE ResetHoldRelease
  <2>1. Resolved(outputMode, autoDetectState) \in Registers
    BY ResolvedRegisters DEF PersonalityTyped
  <2>. QED BY <1>1, <1>2, <1>4, <2>1
           DEF ResetHoldRelease, Reboot, SettingsTyped, settings, PersonalityTyped
<1>5. CASE CycleInputMode
  <2>1. /\ Preserved(outputMode, winOutput, misterOutput) \in Registers
        /\ PreservedVerdict(outputMode, winOutput, misterOutput)
             \in [by : {"nobody", "detector", "input"}, on : SUBSET Request]
    BY KeptRegisters DEF SettingsTyped, PersonalityTyped
  <2>. QED BY <1>1, <1>2, <1>5, <2>1
           DEF CycleInputMode, Reboot, SettingsTyped, settings, PersonalityTyped
<1>6. ASSUME NEW m \in ConfigurableMode, ApplySelection(m)
      PROVE  /\ configuredOutputMode' \in OutputMode \ {"PS5"}
             /\ outputMode' \in RuntimeMode /\ autoDetectState' \in AutoState
  <2>1. SanitizeConfigured(m) \in OutputMode \ {"PS5"}
    BY SanitizedModes DEF BoundAssumption
  <2>2. SanitizeRuntime(SanitizeConfigured(m)) \in RuntimeMode
    BY <2>1, SanitizedModes
  <2>. QED BY <1>2, <1>6, <2>1, <2>2 DEF ApplySelection
<1>7. ASSUME NEW m \in ConfigurableMode, NEW reboots \in BOOLEAN, SelectOutput(m, reboots)
      PROVE  TypeOK'
  <2>1. SettingsTyped'
    BY <1>6, <1>7 DEF SelectOutput, SettingsTyped
  <2>2. PersonalityTyped'
    BY <1>2, <1>6, <1>7 DEF SelectOutput, PersonalityTyped
  <2>. QED BY <1>1, <1>7, <2>1, <2>2 DEF SelectOutput
<1>8. ASSUME NEW m \in ConfigurableMode, NEW win \in ConfigurablePreference,
             NEW mister \in ConfigurablePreference, NEW needsReboot \in BOOLEAN,
             MenuSave(m, win, mister, needsReboot)
      PROVE  TypeOK'
  <2>1. win \in Preference /\ mister \in Preference
    BY DEF BoundAssumption
  <2>2. /\ Preserved(outputMode, win, mister) \in Registers
        /\ PreservedVerdict(outputMode, win, mister)
             \in [by : {"nobody", "detector", "input"}, on : SUBSET Request]
    BY <2>1, KeptRegisters DEF PersonalityTyped
  <2>3. \/ UNCHANGED <<configuredOutputMode, outputMode, autoDetectState>>
        \/ ApplySelection(m)
    BY <1>8 DEF MenuSave
  <2>4. /\ configuredOutputMode' \in OutputMode \ {"PS5"}
        /\ outputMode' \in RuntimeMode /\ autoDetectState' \in AutoState
    BY <1>6, <2>3 DEF SettingsTyped, PersonalityTyped
  <2>5. SettingsTyped'
    BY <1>8, <2>1, <2>4 DEF MenuSave, SettingsTyped
  <2>6. PersonalityTyped'
    BY <1>2, <1>8, <2>2, <2>4 DEF MenuSave, Reboot, PersonalityTyped
  <2>. QED BY <1>1, <1>8, <2>5, <2>6 DEF MenuSave
<1>9. ASSUME NEW pref \in ConfigurablePreference, PreferWindows(pref) \/ PreferMister(pref)
      PROVE  TypeOK'
  <2>1. UserActs
    BY <1>9 DEF PreferWindows, PreferMister, ChangePreference
  <2>2. SettingsTyped'
    BY <1>9 DEF PreferWindows, PreferMister, ChangePreference, SettingsTyped, BoundAssumption
  <2>3. PersonalityTyped'
    BY <1>2, <1>9 DEF PreferWindows, PreferMister, ChangePreference, PersonalityTyped, personality
  <2>. QED BY <1>1, <2>1, <2>2, <2>3
<1>. QED BY <1>3, <1>4, <1>5, <1>7, <1>8, <1>9 DEF User

LEMMA TypedStep ==
  ASSUME DelayAssumption, BoundAssumption, TypeOK, [Next]_vars
  PROVE  TypeOK'
<1>1. CASE Next
  BY <1>1, TypedEnvironment, TypedProcess, TypedHotSwap, TypedUser, TypedBoot DEF Next, Device
<1>2. CASE UNCHANGED vars
  BY <1>2 DEF vars, TypeOK, settings, personality, detector, bus, history
<1>. QED BY <1>1, <1>2

(* Every variable keeps its type, whatever the host, the user and the      *)
(* controllers do: in particular no age outgrows the delay it is compared  *)
(* with, and scratch always holds registers that a boot can read.          *)
THEOREM TypeCorrect == Spec => []TypeOK
BY DelayAssumption, BoundAssumption, InitTyped, TypedStep, PTL DEF Spec
====
