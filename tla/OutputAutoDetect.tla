---- MODULE OutputAutoDetect ----
(***************************************************************************)
(* AUTO output: the device presents a probe personality, watches what the  *)
(* USB host asks of it, decides which host it is, leaves the decision in   *)
(* watchdog scratch registers and reboots into the personality that the    *)
(* host expects.                                                           *)
(*                                                                         *)
(* Everything runs on one loop: requests of the host are served inside the *)
(* USB task, the input side may ask for a reboot, and auto_detect_process  *)
(* runs last.  One action is one handler call; time passes between any two *)
(* of them because a pass of the loop may block on the input bus.          *)
(***************************************************************************)
EXTENDS Integers, OutputModes, HostDetection

CONSTANTS
  \* Delays of the code, in ticks of any length.
  PostDelay,      \* quiet time after a signal before it is believed (20 ms)
  NonWiiu,        \* mounted host that gives no signal (250 ms)
  AttachRetry,    \* pull-up is dropped when nothing connects (750 ms)
  Reattach,       \* the pull-up stays dropped (50 ms)
  Ps4Grace,       \* mounted generic HID host may still ask report 3 (900 ms)
  Ps3Assist,      \* length of the Sony-shaped probe (900 ms)
  NoMount,        \* generic probe without SET_CONFIGURATION (1000 ms)
  NoMountRetry,   \* the same after an attach retry with VBUS (2000 ms)
  NoDataHost,     \* unconnected this long: input detection may run (1500 ms)
  \* Bounds of a finite instance.
  HostRequest,    \* the requests that the host may make
  ConfigurableMode,       \* the output selections that the user may store
  ConfigurablePreference, \* and the host preferences
  MaxRequest,     \* requests per boot
  MaxDisturbance  \* bus resets, user actions, input reboots and power cycles

ASSUME DelayAssumption ==
  /\ PostDelay \in Nat /\ 0 < PostDelay
  /\ NonWiiu \in Nat /\ PostDelay < NonWiiu
  /\ AttachRetry \in Nat /\ NonWiiu < AttachRetry
  /\ Reattach \in Nat /\ 0 < Reattach
  /\ Ps4Grace \in Nat /\ AttachRetry < Ps4Grace
  /\ Ps3Assist \in Nat /\ AttachRetry < Ps3Assist
  /\ NoMount \in Nat /\ Ps3Assist < NoMount /\ Ps4Grace < NoMount
  /\ NoMountRetry \in Nat /\ NoMount < NoMountRetry
  /\ NoDataHost \in Nat /\ 0 < NoDataHost

ASSUME BoundAssumption ==
  /\ HostRequest \subseteq Request
  /\ ConfigurableMode \subseteq OutputMode
  /\ ConfigurablePreference \subseteq Preference
  /\ MaxRequest \in Nat
  /\ MaxDisturbance \in Nat

VARIABLES
  \* Settings store.
  configuredOutputMode, winOutput, misterOutput,
  \* Watchdog scratch: survives a reset, not a loss of power.
  scratch,
  \* Runtime state, rebuilt by every boot.
  phase,                \* "running", or "resetting" once reboot() was called
  outputMode, autoDetectState, autoDetectProbeStage,
  hostDetection, lastSignal,       \* lastSignal: age of the last signal
  fullyInitialized, mountedFor,    \* statics of usb_host_detection_task
  elapsed,                         \* age of auto_detect_started_at_ms
  attachRetry, detachedFor,        \* attach retry of the RP2040 USB pull-up
  noDataFor,                       \* age of autoDetectNoDataHostSinceMs
  connected, mounted,              \* what tud_connected and tud_mounted return
  \* Bounds, and history that no action reads.
  requests, disturbances,
  evidence,             \* the requests this boot's detection was told of
  verdict,              \* [by |-> who decided, on |-> the evidence used]
  autoReboots,          \* detection reboots since a person or a plug acted
  hostEver              \* a data host connected since power came on

settings == <<configuredOutputMode, winOutput, misterOutput>>
detector == <<hostDetection, lastSignal, fullyInitialized, mountedFor, elapsed,
              attachRetry, detachedFor, noDataFor>>
bus      == <<connected, mounted>>
history  == <<evidence, verdict, autoReboots, hostEver>>
personality == <<outputMode, autoDetectState, autoDetectProbeStage>>
vars == <<settings, scratch, phase, personality, detector, bus, requests, disturbances, history>>

Unset == -1

(* An age grows up to the largest delay it is compared with.               *)
Age(max) == {Unset} \cup 0..max
Older(age, max) == IF age = Unset \/ age >= max THEN age ELSE age + 1
Started(age) == IF age = Unset THEN 0 ELSE age

(* Zeroed registers; the mode field then reads as the first output mode.   *)
EmptyScratch == [magic |-> FALSE, mode |-> "HID", state |-> Idle, stage |-> "GENERIC"]
NoVerdict    == [by |-> "nobody", on |-> {}]

IsAutoSelected  == configuredOutputMode = AutoOutput
CanRunDetection == IsAutoSelected /\ autoDetectState = Idle
HasResolved     == IsAutoSelected /\ autoDetectState # Idle

RebootCap == 3          \* autoReboots counts no further
Min2(a, b) == IF a < b THEN a ELSE b

(***************************************************************************)
(* Power and boot                                                          *)
(***************************************************************************)

Init ==
  /\ configuredOutputMode \in {SanitizeConfigured(m) : m \in ConfigurableMode}
  /\ winOutput \in ConfigurablePreference /\ misterOutput \in ConfigurablePreference
  /\ scratch = EmptyScratch
  /\ phase = "resetting"
  /\ outputMode = Mister /\ autoDetectState = Idle /\ autoDetectProbeStage = "GENERIC"
  /\ hostDetection = NoObservation /\ lastSignal = 0
  /\ fullyInitialized = FALSE /\ mountedFor = Unset
  /\ elapsed = Unset /\ noDataFor = Unset
  /\ attachRetry = 0 /\ detachedFor = Unset
  /\ connected = FALSE /\ mounted = FALSE
  /\ requests = 0 /\ disturbances = 0
  /\ evidence = {} /\ verdict = NoVerdict /\ autoReboots = 0
  /\ hostEver = FALSE

(* Input setup promotes a generic DInput personality when a specialized    *)
(* PSX peripheral answers.  Under AUTO the boot takes the promotion back   *)
(* unless the personality was MiSTer's.                                    *)
GenericHidMode(mode) == mode \in {"HID", Mister}

AfterInputSetup(mode, psxPeripheral) ==
  IF psxPeripheral /\ GenericHidMode(mode) /\ (IsAutoSelected => mode = Mister)
    THEN MisterPsx ELSE mode

(* Mutant: a generic personality in scratch is taken for no decision.      *)
MutRestoredMode ==
  IF scratch.magic /\ scratch.mode # Mister THEN SanitizeRuntime(scratch.mode) ELSE AutoOutput

(* A resolved personality in scratch wins over a probe stage.              *)
RestoredMode == IF scratch.magic THEN SanitizeRuntime(scratch.mode) ELSE AutoOutput

Boot(psxPeripheral) ==
  /\ phase = "resetting"
  /\ phase' = "running"
  /\ IF ~IsAutoSelected
       THEN /\ outputMode' = AfterInputSetup(SanitizeRuntime(configuredOutputMode), psxPeripheral)
            /\ autoDetectState' = Idle
            /\ autoDetectProbeStage' = "GENERIC"
       ELSE IF RestoredMode # AutoOutput
       THEN /\ outputMode' = AfterInputSetup(RestoredMode, psxPeripheral)
            /\ autoDetectState' = scratch.state
            /\ autoDetectProbeStage' = "GENERIC"
       ELSE /\ autoDetectProbeStage' = scratch.stage
            /\ outputMode' = AfterInputSetup(ProbeOutput(scratch.stage), psxPeripheral)
            /\ autoDetectState' = Idle
  /\ scratch' = EmptyScratch
  /\ hostDetection' = NoObservation /\ lastSignal' = 0
  /\ fullyInitialized' = FALSE /\ mountedFor' = Unset
  /\ elapsed' = Unset /\ noDataFor' = Unset
  /\ attachRetry' = 0 /\ detachedFor' = Unset
  /\ connected' = FALSE /\ mounted' = FALSE
  /\ requests' = 0
  /\ evidence' = {}
  /\ verdict' = IF autoDetectState' = Idle THEN NoVerdict ELSE verdict
  /\ UNCHANGED <<settings, disturbances, autoReboots, hostEver>>

(* reboot(): the loop stops here; what survives is settings and scratch.   *)
Reboot(registers) ==
  /\ phase' = "resetting"
  /\ scratch' = registers

Resolved(mode, state) ==
  [scratch EXCEPT !.magic = TRUE, !.mode = SanitizeRuntime(mode), !.state = state]

(***************************************************************************)
(* What counts as a disturbance is bounded by MaxDisturbance.              *)
(***************************************************************************)
Disturb ==
  /\ disturbances < MaxDisturbance
  /\ disturbances' = disturbances + 1

PowerCycle ==
  /\ Disturb
  /\ Reboot(EmptyScratch)
  /\ autoReboots' = 0 /\ hostEver' = FALSE /\ verdict' = NoVerdict
  /\ UNCHANGED <<settings, personality, detector, bus, requests, evidence>>

(***************************************************************************)
(* Time and the bus                                                        *)
(***************************************************************************)
Tick ==
  /\ phase = "running"
  /\ lastSignal' = Older(lastSignal, PostDelay)
  /\ mountedFor' = Older(mountedFor, Ps4Grace + 1)
  /\ elapsed' = Older(elapsed, NoMountRetry)
  /\ detachedFor' = Older(detachedFor, Reattach)
  /\ noDataFor' = Older(noDataFor, NoDataHost)
  /\ UNCHANGED <<settings, scratch, phase, personality, hostDetection, fullyInitialized,
                 attachRetry, bus, requests, disturbances, history>>

(* The first SETUP packet; impossible while the pull-up is dropped.        *)
HostConnects ==
  /\ phase = "running" /\ ~connected /\ attachRetry # 1
  /\ connected' = TRUE
  /\ hostEver' = TRUE
  /\ UNCHANGED <<settings, scratch, phase, personality, detector, mounted, requests,
                 disturbances, evidence, verdict, autoReboots>>

(* SET_CONFIGURATION.                                                      *)
HostConfigures ==
  /\ phase = "running" /\ connected /\ ~mounted
  /\ mounted' = TRUE
  /\ UNCHANGED <<settings, scratch, phase, personality, detector, connected, requests,
                 disturbances, history>>

(* A bus reset or an unplugged cable: the stack forgets the host, the      *)
(* detector does not.                                                      *)
BusReset ==
  /\ phase = "running" /\ connected
  /\ Disturb
  /\ connected' = FALSE /\ mounted' = FALSE
  /\ UNCHANGED <<settings, scratch, phase, personality, detector, requests, history>>

(* A request that a handler of the detector sees.  Only the Microsoft OS   *)
(* string is remembered outside detection as well.                         *)
HostAsks(req) ==
  /\ phase = "running" /\ connected
  /\ req \in InterfaceRequest => mounted
  /\ requests < MaxRequest
  /\ requests' = requests + 1
  /\ IF CanRunDetection
       THEN /\ hostDetection' = AfterRequest(hostDetection, req, autoDetectProbeStage)
            /\ lastSignal' = IF IsSignal(req) THEN 0 ELSE lastSignal
            /\ evidence' = evidence \cup {req}
       ELSE /\ hostDetection' = IF req = "ms_os_string" THEN Observe(hostDetection, req)
                                                        ELSE hostDetection
            /\ UNCHANGED <<lastSignal, evidence>>
  /\ UNCHANGED <<settings, scratch, phase, personality, fullyInitialized, mountedFor, elapsed,
                 attachRetry, detachedFor, noDataFor, bus, disturbances, verdict, autoReboots,
                 hostEver>>

(***************************************************************************)
(* usb_host_detection_task: the result of one call, with what it leaves in *)
(* the detector's state.  It returns a result at most once per boot.       *)
(***************************************************************************)
NotYet == [result |-> "NONE", host |-> hostDetection, quietFor |-> lastSignal,
           mountedFor |-> mountedFor, done |-> fullyInitialized]

MountedTask ==
  LET since       == Started(mountedFor)
      graceOver   == since > Ps4Grace
      switchReady == SwitchCandidate(hostDetection)
                       /\ (GenericHidActivity(hostDetection) => graceOver)
      kept        == RejectLinuxPs3(hostDetection, autoDetectProbeStage)
      host        == IF switchReady THEN Mark(kept, "SWITCH1") ELSE kept
      quietFor    == IF switchReady THEN 0 ELSE lastSignal
      awaitsPs4   == GenericHidActivity(hostDetection) /\ Unmarked(hostDetection)
      believed    == host.any # {} /\ quietFor >= PostDelay
      silent      == host.any = {} /\ (awaitsPs4 => graceOver) /\ since > NonWiiu
      silentHost  == IF "hid_report" \in host.seen /\ "manufacturer" \notin host.seen
                       THEN "SWITCH2" ELSE "TIMEOUT"
  IN  [result     |-> IF believed THEN ResolveFlags(host.any)
                      ELSE IF silent THEN silentHost ELSE "NONE",
       host       |-> host,
       quietFor   |-> quietFor,
       mountedFor |-> since,
       done       |-> believed \/ silent]

(* Mutant: the task marks itself done before it has an answer.             *)
MutUsbHostDetectionTask ==
  IF fullyInitialized \/ ~mounted THEN NotYet ELSE [MountedTask EXCEPT !.done = TRUE]

UsbHostDetectionTask ==
  IF fullyInitialized THEN NotYet
  ELSE IF hostDetection.any \cap PremountFlag # {} /\ lastSignal >= PostDelay
    THEN [NotYet EXCEPT !.result = ResolveFlags(hostDetection.any), !.done = TRUE]
  ELSE IF ~mounted THEN NotYet
  ELSE MountedTask

(***************************************************************************)
(* auto_detect_process                                                     *)
(***************************************************************************)

(* update_output_autodetect_rp2040_usb_debug: drop the pull-up once, then  *)
(* force the attach.                                                       *)
StepAttachRetry ==
  LET drop   == ~connected /\ attachRetry = 0 /\ elapsed' >= AttachRetry
      attach == ~connected /\ attachRetry = 1 /\ detachedFor >= Reattach
  IN  /\ attachRetry' = IF drop THEN 1 ELSE IF attach THEN 2 ELSE attachRetry
      /\ detachedFor' = IF drop THEN 0 ELSE detachedFor

NoMountWindow(retry, vbus) == IF retry = 2 /\ vbus THEN NoMountRetry ELSE NoMount

KeepProbing ==
  /\ UNCHANGED <<phase, scratch, personality, verdict, autoReboots>>

CountReboot == autoReboots' = Min2(autoReboots + 1, RebootCap)

(* Mutant: the stage is set in memory but not handed over.                 *)
MutStartPs3Assist ==
  /\ autoDetectProbeStage' = "PS3"
  /\ Reboot([scratch EXCEPT !.mode = "HID", !.state = Idle])
  /\ CountReboot
  /\ UNCHANGED <<outputMode, autoDetectState, verdict>>

(* auto_detect_trigger_probe_stage: the register keeps no result.          *)
StartPs3Assist ==
  /\ autoDetectProbeStage' = "PS3"
  /\ Reboot([scratch EXCEPT !.stage = "PS3", !.mode = "HID", !.state = Idle])
  /\ CountReboot
  /\ UNCHANGED <<outputMode, autoDetectState, verdict>>

(* Leave a decision in scratch and reboot into its personality.            *)
Reenumerate(mode, state) ==
  /\ autoDetectProbeStage' = "GENERIC"
  /\ autoDetectState' = state
  /\ Reboot(Resolved(mode, state))
  /\ verdict' = [by |-> "detector", on |-> evidence]
  /\ CountReboot
  /\ UNCHANGED outputMode

(* A result that names the personality already running needs no reboot.    *)
SettleInPlace(state) ==
  /\ autoDetectProbeStage' = "GENERIC"
  /\ autoDetectState' = state
  /\ verdict' = [by |-> "detector", on |-> evidence]
  /\ UNCHANGED <<phase, scratch, outputMode, autoReboots>>

Settle(mode, state) ==
  IF outputMode = mode THEN SettleInPlace(state) ELSE Reenumerate(mode, state)

SettleFallback == Reenumerate(MisterOutput(misterOutput), Fallback)

SettleHost(result) ==
  CASE result = "PS3"     -> Reenumerate("PS3", "PS3")
    [] result = "WINDOWS" -> Reenumerate(WindowsOutput(winOutput), "WINDOWS")
    [] result = "XBOX360" -> Reenumerate("XINPUT", "XBOX_360")
    [] result = "PS4"     -> Settle("PS4", "PS4")
    [] result = "OGXBOX"  -> Settle("XID", "OG_XBOX")
    [] result \in {"SWITCH1", "SWITCH2"} -> Settle("SWITCHPRO", "SWITCH")

(* Mutant: the assist waits for a host that mounts it.                     *)
MutAssistOver(age) == autoDetectProbeStage = "PS3" /\ mounted /\ age >= Ps3Assist

(* Mutant: the deadline does not ask whether a host is there at all.       *)
MutHostFailedToMount(age, retry, vbus) ==
  /\ autoDetectProbeStage = "GENERIC"
  /\ ~mounted
  /\ age >= NoMountWindow(retry, vbus)

(* The two deadlines of a probe that got no answer, by the age of the      *)
(* probe and the step of the attach retry that this pass has reached.      *)
AssistOver(age) == autoDetectProbeStage = "PS3" /\ age >= Ps3Assist

HostFailedToMount(age, retry, vbus) ==
  /\ autoDetectProbeStage = "GENERIC"
  /\ ~mounted /\ connected
  /\ age >= NoMountWindow(retry, vbus)

(* The outcome of a pass, given what usb_host_detection_task returned.     *)
Conclude(result, vbus) ==
  LET generic    == autoDetectProbeStage = "GENERIC"
      assistOver == result = "NONE" /\ AssistOver(elapsed')
      noMount    == result = "NONE" /\ HostFailedToMount(elapsed', attachRetry', vbus)
  IN  \/ result = "NONE" /\ ~assistOver /\ ~noMount /\ KeepProbing
      \/ (noMount \/ (result = "TIMEOUT" /\ generic)) /\ StartPs3Assist
      \/ (assistOver \/ (result = "TIMEOUT" /\ ~generic)) /\ SettleFallback
      \/ result \notin {"NONE", "TIMEOUT"} /\ SettleHost(result)

AutoDetectProcess ==
  /\ phase = "running" /\ CanRunDetection
  /\ elapsed' = Started(elapsed)
  /\ StepAttachRetry
  /\ LET task == UsbHostDetectionTask
     IN  /\ hostDetection' = task.host
         /\ lastSignal' = task.quietFor
         /\ mountedFor' = task.mountedFor
         /\ fullyInitialized' = task.done
         /\ \E vbus \in BOOLEAN : Conclude(task.result, vbus)
  /\ UNCHANGED <<settings, noDataFor, bus, requests, disturbances, evidence, hostEver>>

(***************************************************************************)
(* Reboots asked for by the input side keep what AUTO already knows.       *)
(***************************************************************************)
(* Mutant: a resolved state is kept whatever the preferences say now.      *)
MutCanPreserveResolved(mode, win, mister) == HasResolved

CanPreserveResolved(mode, win, mister) ==
  /\ HasResolved
  /\ autoDetectState = "WINDOWS" => mode = WindowsOutput(win)
  /\ autoDetectState = Fallback  => MisterPreferenceAccepts(mister, mode)

(* A probe that still runs as MiSTer counts as known, too.                 *)
CanPreserveProbe(mode) == CanRunDetection /\ mode = Mister

CanPreserveKnown(mode, win, mister) ==
  CanPreserveResolved(mode, win, mister) \/ CanPreserveProbe(mode)

(* Mutant: a probe is handed over with the state it has.                   *)
MutPreserved(mode, win, mister) == Resolved(mode, autoDetectState)

Preserved(mode, win, mister) ==
  IF CanPreserveResolved(mode, win, mister)
    THEN Resolved(mode, autoDetectState)
    ELSE Resolved(MisterOutput(mister), Fallback)

PreservedVerdict(mode, win, mister) ==
  IF CanPreserveResolved(mode, win, mister)
    THEN verdict ELSE [by |-> "input", on |-> evidence]

(* Input detection may use the bus once AUTO has resolved, or when no data *)
(* host has been seen for a while.                                         *)
NoDataHostAge ==
  IF CanRunDetection /\ ~connected /\ ~mounted THEN Started(noDataFor) ELSE Unset

HotSwapAllowed == ~CanRunDetection \/ NoDataHostAge >= NoDataHost

(* Mutant: the reboot happens whether or not the output was preserved.     *)
MutTryReenumerate(mode) ==
  /\ IF CanPreserveKnown(mode, winOutput, misterOutput)
       THEN Reboot(Preserved(mode, winOutput, misterOutput))
       ELSE Reboot(scratch)
  /\ UNCHANGED <<autoDetectProbeStage, verdict>>

(* reenumerateUsbForHotSwapPlayerCountChange and its twin for the home     *)
(* screen, with the personality that the input change has just left.       *)
TryReenumerate(mode) ==
  IF ~IsAutoSelected
    THEN Reboot(scratch) /\ UNCHANGED <<autoDetectProbeStage, verdict>>
  ELSE IF CanPreserveKnown(mode, winOutput, misterOutput)
    THEN /\ Reboot(Preserved(mode, winOutput, misterOutput))
         /\ autoDetectProbeStage' = "GENERIC"
         /\ verdict' = PreservedVerdict(mode, winOutput, misterOutput)
    ELSE UNCHANGED <<phase, scratch, autoDetectProbeStage, verdict>>

(* A controller was plugged: its setup may promote the personality, and    *)
(* the descriptors may no longer fit.                                      *)
PsxPeripheralPlugged ==
  /\ GenericHidMode(outputMode)
  /\ outputMode' = MisterPsx
  /\ TryReenumerate(MisterPsx)

PsxPeripheralUnplugged ==
  /\ IsAutoSelected /\ outputMode = MisterPsx
  /\ outputMode' = Mister
  /\ TryReenumerate(Mister)

PlayerCountChanged ==
  /\ TryReenumerate(outputMode)
  /\ UNCHANGED outputMode

HotSwapCheck ==
  /\ phase = "running"
  /\ noDataFor' = NoDataHostAge
  /\ UNCHANGED <<settings, autoDetectState, hostDetection, lastSignal, fullyInitialized,
                 mountedFor, elapsed, attachRetry, detachedFor, bus, requests, evidence, hostEver>>
  /\ \/ /\ UNCHANGED <<phase, scratch, outputMode, autoDetectProbeStage, verdict, autoReboots,
                       disturbances>>
     \/ /\ HotSwapAllowed
        /\ Disturb
        /\ autoReboots' = 0
        /\ PsxPeripheralPlugged \/ PsxPeripheralUnplugged \/ PlayerCountChanged

(***************************************************************************)
(* What a person can do: buttons, menus, WebHID and serial commands        *)
(***************************************************************************)
UserActs ==
  /\ phase = "running"
  /\ Disturb
  /\ autoReboots' = 0
  /\ UNCHANGED <<detector, bus, requests, evidence, hostEver>>

(* The reset button, or a reboot command: nothing is handed over.          *)
ResetTap ==
  /\ UserActs
  /\ Reboot(scratch)
  /\ verdict' = NoVerdict
  /\ UNCHANGED <<settings, personality>>

(* Reset held, then released: back to automatic input detection.           *)
ResetHoldRelease ==
  /\ UserActs
  /\ IF CanPreserveResolved(outputMode, winOutput, misterOutput)
       THEN /\ Reboot(Resolved(outputMode, autoDetectState))
            /\ autoDetectProbeStage' = "GENERIC"
            /\ UNCHANGED verdict
       ELSE /\ Reboot(scratch)
            /\ verdict' = NoVerdict
            /\ UNCHANGED autoDetectProbeStage
  /\ UNCHANGED <<settings, outputMode, autoDetectState>>

(* cycleInputMode.                                                         *)
CycleInputMode ==
  /\ UserActs
  /\ IF CanPreserveKnown(outputMode, winOutput, misterOutput)
       THEN /\ Reboot(Preserved(outputMode, winOutput, misterOutput))
            /\ verdict' = PreservedVerdict(outputMode, winOutput, misterOutput)
            /\ autoDetectProbeStage' = "GENERIC"
       ELSE /\ Reboot(EmptyScratch)
            /\ verdict' = NoVerdict
            /\ UNCHANGED autoDetectProbeStage
  /\ UNCHANGED <<settings, outputMode, autoDetectState>>

(* Mutant: the detected state outlives the selection it belongs to.        *)
MutApplySelection(selected) ==
  /\ configuredOutputMode' = SanitizeConfigured(selected)
  /\ outputMode' = SanitizeRuntime(SanitizeConfigured(selected))
  /\ UNCHANGED autoDetectState

(* A selection takes effect at once, and AUTO starts from nothing.         *)
ApplySelection(selected) ==
  /\ configuredOutputMode' = SanitizeConfigured(selected)
  /\ outputMode' = SanitizeRuntime(SanitizeConfigured(selected))
  /\ autoDetectState' = Idle

(* The settings menu saves everything and reboots.  AUTO's knowledge is    *)
(* kept for a reboot that the input or the descriptors need, as long as    *)
(* the output stays selected.                                              *)
MenuSave(selected, win, mister, needsReboot) ==
  LET stays    == SanitizeConfigured(selected) = configuredOutputMode
      preserve == needsReboot /\ stays /\ CanPreserveKnown(outputMode, win, mister)
      inPlace  == ~needsReboot /\ stays
  IN  /\ UserActs
      /\ winOutput' = win /\ misterOutput' = mister
      /\ IF inPlace
           THEN UNCHANGED <<configuredOutputMode, outputMode, autoDetectState>>
           ELSE ApplySelection(selected)
      /\ IF preserve
           THEN /\ Reboot(Preserved(outputMode, win, mister))
                /\ autoDetectProbeStage' = "GENERIC"
                /\ verdict' = PreservedVerdict(outputMode, win, mister)
           ELSE /\ Reboot(EmptyScratch)
                /\ verdict' = NoVerdict
                /\ UNCHANGED autoDetectProbeStage

(* A new output selection over WebHID or serial: in place (setting 0 of    *)
(* WebHID, lines 184 to 192), or with a reboot (setting 0xFF).             *)
SelectOutput(selected, reboots) ==
  /\ UserActs
  /\ ApplySelection(selected)
  /\ scratch' = EmptyScratch
  /\ phase' = IF reboots THEN "resetting" ELSE phase
  /\ verdict' = NoVerdict
  /\ UNCHANGED <<winOutput, misterOutput, autoDetectProbeStage>>

(* A new host preference over WebHID or serial reboots a device that runs  *)
(* under the old one.                                                      *)
ChangePreference(affected) ==
  /\ UserActs
  /\ scratch' = EmptyScratch
  /\ IF HasResolved /\ autoDetectState = affected
       THEN phase' = "resetting" /\ verdict' = NoVerdict
       ELSE UNCHANGED <<phase, verdict>>
  /\ UNCHANGED <<configuredOutputMode, personality>>

PreferWindows(pref) ==
  /\ pref # winOutput
  /\ winOutput' = pref
  /\ ChangePreference("WINDOWS")
  /\ UNCHANGED misterOutput

PreferMister(pref) ==
  /\ pref # misterOutput
  /\ misterOutput' = pref
  /\ ChangePreference(Fallback)
  /\ UNCHANGED winOutput

(***************************************************************************)
(* The specification                                                       *)
(***************************************************************************)
Host == HostConnects \/ HostConfigures \/ BusReset \/ \E req \in HostRequest : HostAsks(req)

User ==
  \/ ResetTap
  \/ ResetHoldRelease
  \/ CycleInputMode
  \/ \E m \in ConfigurableMode : \E reboots \in BOOLEAN : SelectOutput(m, reboots)
  \/ \E m \in ConfigurableMode, win, mister \in ConfigurablePreference, needsReboot \in BOOLEAN :
       MenuSave(m, win, mister, needsReboot)
  \/ \E pref \in ConfigurablePreference : PreferWindows(pref) \/ PreferMister(pref)

Device == AutoDetectProcess \/ HotSwapCheck \/ \E psx \in BOOLEAN : Boot(psx)

Next == Tick \/ Host \/ User \/ PowerCycle \/ Device

(* The loop keeps running, so a pass and a boot that can happen do happen, *)
(* and time goes on.  Nothing is assumed of the host or the user.          *)
Fairness ==
  /\ WF_vars(Tick)
  /\ WF_vars(AutoDetectProcess)
  /\ WF_vars(\E psx \in BOOLEAN : Boot(psx))

Spec == Init /\ [][Next]_vars

FairSpec == Spec /\ Fairness
====
