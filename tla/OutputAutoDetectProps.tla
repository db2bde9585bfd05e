---- MODULE OutputAutoDetectProps ----
(***************************************************************************)
(* What AUTO output promises.                                              *)
(***************************************************************************)
EXTENDS OutputAutoDetect

(***************************************************************************)
(* What the device believes its host to be: in scratch between two boots,  *)
(* in the runtime state otherwise.                                         *)
(***************************************************************************)
Known ==
  IF ~IsAutoSelected THEN Idle
  ELSE IF phase = "running" THEN autoDetectState
  ELSE IF scratch.magic THEN scratch.state
  ELSE Idle

(* Every variable has its type.                                            *)
TypeOK ==
  /\ configuredOutputMode \in OutputMode \ {"PS5"}
  /\ winOutput \in Preference /\ misterOutput \in Preference
  /\ scratch \in [magic : BOOLEAN, mode : RuntimeMode, state : AutoState, stage : ProbeStage]
  /\ phase \in {"running", "resetting"}
  /\ outputMode \in RuntimeMode
  /\ autoDetectState \in AutoState
  /\ autoDetectProbeStage \in ProbeStage
  /\ hostDetection \in Record
  /\ lastSignal \in 0..PostDelay
  /\ fullyInitialized \in BOOLEAN
  /\ mountedFor \in Age(Ps4Grace + 1)
  /\ elapsed \in Age(NoMountRetry)
  /\ attachRetry \in 0..2
  /\ detachedFor \in Age(Reattach)
  /\ noDataFor \in Age(NoDataHost)
  /\ connected \in BOOLEAN /\ mounted \in BOOLEAN
  /\ requests \in 0..MaxRequest /\ disturbances \in 0..MaxDisturbance
  /\ evidence \subseteq Request
  /\ verdict \in [by : {"nobody", "detector", "input"}, on : SUBSET Request]
  /\ autoReboots \in 0..RebootCap
  /\ hostEver \in BOOLEAN

(* A hand-off is read by exactly one boot: while the firmware runs, the    *)
(* scratch registers are clear, so a crash never revives an old decision,  *)
(* and a decision never travels together with a probe stage.               *)
HandOffReadOnce ==
  /\ phase = "running" => scratch = EmptyScratch
  /\ scratch.magic => scratch.state # Idle /\ scratch.stage = "GENERIC"

(* What a host must have asked before the detector may take it for a       *)
(* console or for Windows.                                                 *)
Justifies(on, state) ==
  CASE state = "PS3"      -> "set_F5" \in on \/ {"get_F2", "get_F5"} \subseteq on
    [] state = "PS4"      -> "get_03" \in on
    [] state = "OG_XBOX"  -> "xid" \in on
    [] state = "XBOX_360" -> on \cap {"xsm3", "vendor"} # {}
    [] state = "SWITCH"   -> \/ {"clear_in", "clear_out"} \subseteq on
                             \/ "hid_report" \in on /\ "manufacturer" \notin on
    [] state = "WINDOWS"  -> "compat_id" \in on /\ on \cap {"xsm3", "vendor", "xid", "get_03"} = {}
    [] OTHER              -> TRUE

(* The device runs as a console or Windows controller only for a host that *)
(* asked for it in the boot that decided, however many reboots ago, and a  *)
(* Windows verdict excludes every console signal of that boot.  An input   *)
(* reboot may conclude nothing but the generic fallback.                   *)
VerdictHasEvidence ==
  /\ verdict.by = "nobody" <=> Known = Idle
  /\ verdict.by = "input" => Known = Fallback
  /\ Justifies(verdict.on, Known)

(* The personality belongs to the verdict under the preferences in force   *)
(* now, across every way to change them.  Live PSX promotion of a DInput   *)
(* Windows personality is the one exception.                               *)
PersonalityOf(state, mode, win, mister) ==
  CASE state = "PS3"      -> mode = "PS3"
    [] state = "PS4"      -> mode = "PS4"
    [] state = "OG_XBOX"  -> mode = "XID"
    [] state = "XBOX_360" -> mode = "XINPUT"
    [] state = "SWITCH"   -> mode = "SWITCHPRO"
    [] state = "WINDOWS"  -> mode = WindowsOutput(win)
    [] state = Fallback   -> MisterPreferenceAccepts(mister, mode)
    [] OTHER              -> TRUE

PersonalityFitsVerdict ==
  /\ phase = "running" /\ IsAutoSelected =>
       \/ PersonalityOf(autoDetectState, outputMode, winOutput, misterOutput)
       \/ autoDetectState = "WINDOWS" /\ winOutput = 0 /\ outputMode \in {Mister, MisterPsx}
  /\ scratch.magic /\ IsAutoSelected =>
       PersonalityOf(scratch.state, scratch.mode, winOutput, misterOutput)

(* A selection made by hand is never overridden by what AUTO once found.   *)
ManualSelectionWins ==
  phase = "running" /\ ~IsAutoSelected =>
    /\ autoDetectState = Idle
    /\ \/ outputMode = SanitizeRuntime(configuredOutputMode)
       \/ outputMode = MisterPsx /\ GenericHidMode(SanitizeRuntime(configuredOutputMode))

(* Left to itself the device reboots at most twice: generic probe, PS3     *)
(* assist, personality.  It cannot loop between its probe stages.          *)
ProbeLadderEnds ==
  /\ autoReboots <= 2
  /\ phase = "running" /\ CanRunDetection =>
       autoReboots <= (IF autoDetectProbeStage = "PS3" THEN 1 ELSE 0)

(* A device that never met a data host never reboots by itself.            *)
StandaloneKeepsRunning == autoReboots > 0 => hostEver

(* The one answer of the host detector is never spent without a decision:  *)
(* while detection still runs, the detector can still answer.              *)
DetectorNotSpent == phase = "running" => ~fullyInitialized

(* Only a person or a loss of power makes the device forget its host.      *)
OnlyPeopleForget == [][Known # Idle /\ Known' # Known => User \/ PowerCycle]_vars

(* The extra probe that the device runs, or will run after the reset.      *)
Assisted ==
  /\ IsAutoSelected /\ Known = Idle
  /\ IF phase = "running" THEN autoDetectProbeStage = "PS3" ELSE scratch.stage = "PS3"

(* Registers, resets and passes of the loop implement the abstract promise *)
(* of HostVerdict: one opinion, formed after at most one extra probe, that *)
(* no step of the detector itself revises or loses.                        *)
Verdict == INSTANCE HostVerdict WITH
  Nothing <- Idle, Plain <- Fallback, Opinion <- AutoState,
  known <- Known, assisted <- Assisted, interventions <- disturbances

KeepsOneVerdict == Verdict!Spec

(***************************************************************************)
(* The end of a probe.                                                     *)
(***************************************************************************)
Probing == phase = "running" /\ CanRunDetection

(* A request that gives the probe something new to wait for: a signal, or  *)
(* a part of the trace that only a Switch leaves.                          *)
Speaks(req) == IsSignal(req) \/ req \in {"clear_in", "clear_out"}

Missing(age, max) == IF age = Unset THEN max + 1 ELSE max - age

(* What the running probe may still wait for: the deadline of the probe,   *)
(* the grace of a mounted host, the quiet period after the last signal,    *)
(* and a quiet period of its own once the trace of a Switch is a signal.   *)
WaitLeft ==
  Missing(elapsed, NoMountRetry) + Missing(mountedFor, Ps4Grace + 1) + (PostDelay - lastSignal)
    + (IF SwitchCandidate(hostDetection) THEN PostDelay + 1 ELSE 0)

(* The clocks that a pass of the loop starts.                              *)
ClocksRun == elapsed # Unset /\ (mounted => mountedFor # Unset)

SwitchDue == mounted /\ mountedFor = Ps4Grace + 1 /\ SwitchCandidate(hostDetection)

(* Nothing is left to wait for.                                            *)
Decidable ==
  /\ elapsed = NoMountRetry
  /\ mounted => /\ mountedFor = Ps4Grace + 1 /\ lastSignal = PostDelay
                /\ ~SwitchCandidate(hostDetection)

(* A pass of the loop would end the probe now.                             *)
PassDecides ==
  \/ UsbHostDetectionTask.result # "NONE"
  \/ AssistOver(elapsed)
  \/ \A vbus \in BOOLEAN : HostFailedToMount(elapsed, attachRetry, vbus)

(* A probe runs out under a host that stays and has nothing more to say,   *)
(* whatever it asked before and in whatever order: nothing gives the probe *)
(* more time, time takes from it wherever a pass of the loop has nothing   *)
(* to start, a pass takes from it where it has, and the first pass that    *)
(* has nothing left to wait for ends the probe.                            *)
ProbeRunsOut ==
  /\ [](Probing /\ connected /\ Decidable => PassDecides)
  /\ [][/\ Probing /\ Probing' /\ connected
        /\ ~\E req \in HostRequest : Speaks(req) /\ HostAsks(req)
        => /\ WaitLeft' <= WaitLeft
           /\ Tick => WaitLeft' < WaitLeft \/ ~ClocksRun \/ SwitchDue \/ Decidable
           /\ AutoDetectProcess =>
                ~Decidable /\ (WaitLeft' < WaitLeft \/ (ClocksRun /\ ~SwitchDue))]_vars

(* A host that keeps coming back is resolved for good, unless the user has *)
(* selected an output by hand: no order of requests, bus resets and passes *)
(* of the loop leaves the device probing for ever.                         *)
HostGetsResolved == []<>connected => <>[]~CanRunDetection

(***************************************************************************)
(* What a comment of the code says and the code does not do.               *)
(***************************************************************************)

(* "any real USB host immediately restores exclusive output detection"     *)
(* (input_autodetect_runtime.cpp): while no host was there, a change of    *)
(* the input stores the generic fallback, and detection never runs again.  *)
FallbackNeedsHost == Known = Fallback => hostEver

====
