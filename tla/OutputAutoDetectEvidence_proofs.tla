---- MODULE OutputAutoDetectEvidence_proofs ----
(***************************************************************************)
(* Proofs that a verdict has its evidence, that it survives what it should *)
(* survive, and that AUTO output implements HostVerdict.                   *)
(***************************************************************************)
EXTENDS OutputAutoDetectSafety_proofs

(***************************************************************************)
(* What the detector's record says was asked                               *)
(***************************************************************************)
(* The requests that set a flag.                                           *)
Backs(on, flag) ==
  CASE flag = "PS3"     -> Justifies(on, "PS3")
    [] flag = "PS4"     -> "get_03" \in on
    [] flag = "OGXBOX"  -> "xid" \in on
    [] flag = "XBOX360" -> on \cap {"xsm3", "vendor"} # {}
    [] flag = "SWITCH1" -> {"clear_in", "clear_out"} \subseteq on
    [] flag = "WINDOWS" -> "compat_id" \in on
    [] OTHER            -> FALSE

(* The flags that the lowest-ranked answer must exclude: these are never   *)
(* taken back once a request has set them.                                 *)
Remembers(any, on) ==
  /\ "get_03" \in on => "PS4" \in any
  /\ "xid" \in on => "OGXBOX" \in any
  /\ on \cap {"xsm3", "vendor"} # {} => "XBOX360" \in any

TrainHeard(features, on) ==
  /\ "F2" \in features => "get_F2" \in on
  /\ "F5" \in features => on \cap {"get_F5", "set_F5"} # {}
  /\ "SET_F5" \in features => "set_F5" \in on

SeenHeard(seen, on) ==
  /\ "cleared_input" \in seen => "clear_in" \in on
  /\ "cleared_output" \in seen => "clear_out" \in on
  /\ "hid_report" \in seen => "hid_report" \in on
  /\ "manufacturer" \in on => "manufacturer" \in seen

HeardBy(h, on) ==
  /\ \A flag \in h.any : Backs(on, flag)
  /\ Remembers(h.any, on)
  /\ TrainHeard(h.features, on)
  /\ SeenHeard(h.seen, on)

Heard == phase = "running" => HeardBy(hostDetection, evidence)

(* More requests never take evidence away.                                 *)
LEMMA MoreBacks ==
  ASSUME NEW on, NEW req, NEW flag, Backs(on, flag)
  PROVE  Backs(on \cup {req}, flag)
BY DEF Backs, Justifies

LEMMA TrainBacksPs3 ==
  ASSUME NEW h \in Record, NEW on, TrainHeard(h.features, on), TrainComplete(h)
  PROVE  Backs(on, "PS3")
BY DEF TrainHeard, TrainComplete, Backs, Justifies

LEMMA HeardPs3Feature ==
  ASSUME NEW h \in Record, NEW on, HeardBy(h, on), NEW stage,
         NEW req, NEW bits \in SUBSET FeatureBit, TrainHeard(bits, on \cup {req}),
         req \in {"get_F2", "get_F5", "set_F5", "get_other", "set_EF"}
  PROVE  HeardBy(NotePs3Feature(h, bits, stage), on \cup {req})
<1>. DEFINE noted == [h EXCEPT !.seen = @ \cup {"ps3_feature"}, !.features = @ \cup bits]
<1>1. /\ noted \in Record /\ noted.any = h.any
      /\ noted.features = h.features \cup bits /\ noted.seen = h.seen \cup {"ps3_feature"}
  BY DEF Record, Observation
<1>2. TrainHeard(noted.features, on \cup {req})
  BY <1>1 DEF HeardBy, TrainHeard
<1>3. SeenHeard(noted.seen, on \cup {req})
  BY <1>1 DEF HeardBy, SeenHeard
<1>4. \A flag \in h.any : Backs(on \cup {req}, flag)
  BY MoreBacks DEF HeardBy
<1>5. Remembers(h.any, on \cup {req}) /\ Remembers(h.any \cup {"PS3"}, on \cup {req})
  BY DEF HeardBy, Remembers
<1>6. HeardBy(noted, on \cup {req})
  BY <1>1, <1>2, <1>3, <1>4, <1>5 DEF HeardBy
<1>7. TrainComplete(noted) => HeardBy(Mark(noted, "PS3"), on \cup {req})
  <2>1. /\ Mark(noted, "PS3").any = h.any \cup {"PS3"}
        /\ Mark(noted, "PS3").features = noted.features /\ Mark(noted, "PS3").seen = noted.seen
    BY <1>1 DEF Mark, Record
  <2>2. TrainComplete(noted) => Backs(on \cup {req}, "PS3")
    BY <1>1, <1>2, TrainBacksPs3
  <2>. QED BY <1>2, <1>3, <1>4, <1>5, <2>1, <2>2 DEF HeardBy
<1>. HIDE DEF noted
<1>8. NotePs3Feature(h, bits, stage) \in {noted, Mark(noted, "PS3")}
      /\ (~TrainComplete(noted) => NotePs3Feature(h, bits, stage) = noted)
  BY DEF NotePs3Feature, noted
<1>. QED BY <1>6, <1>7, <1>8

LEMMA HeardAfterRequest ==
  ASSUME NEW h \in Record, NEW on, HeardBy(h, on), NEW req \in Request, NEW stage
  PROVE  HeardBy(AfterRequest(h, req, stage), on \cup {req})
<1>1. \A flag \in h.any : Backs(on \cup {req}, flag)
  BY MoreBacks DEF HeardBy
<1>2. CASE req \in {"manufacturer", "hid_report", "ms_os_string", "clear_in", "clear_out"}
  BY <1>1, <1>2 DEF HeardBy, Remembers, TrainHeard, SeenHeard, Record, Observe, AfterRequest
<1>3. CASE req \in {"get_03", "xsm3", "compat_id", "xid", "vendor"}
  BY <1>1, <1>3 DEF Backs, HeardBy, Remembers, TrainHeard, SeenHeard, Record, Mark, Observe,
                    AfterRequest
<1>4. CASE req \in {"get_F2", "get_F5", "set_F5", "get_other", "set_EF"}
  <2>1. PICK bits \in SUBSET FeatureBit :
          /\ AfterRequest(h, req, stage) = NotePs3Feature(h, bits, stage)
          /\ \/ bits = {}
             \/ req = "get_F2" /\ bits = {"F2"}
             \/ req = "get_F5" /\ bits = {"F5"}
             \/ req = "set_F5" /\ bits = {"F5", "SET_F5"}
    BY <1>4 DEF AfterRequest, FeatureBit
  <2>2. TrainHeard(bits, on \cup {req})
    BY <2>1 DEF TrainHeard
  <2>3. HeardBy(NotePs3Feature(h, bits, stage), on \cup {req})
    BY <1>4, <2>2, HeardPs3Feature
  <2>. QED BY <2>1, <2>3
<1>. QED BY <1>2, <1>3, <1>4 DEF Request, EnumerationRequest, InterfaceRequest

(***************************************************************************)
(* What the detector answers                                               *)
(***************************************************************************)
(* A flag that is the best of a well-founded record justifies its state.   *)
LEMMA BestFlagJustified ==
  ASSUME NEW any \in SUBSET DetectFlag, any # {}, NEW on,
         \A flag \in any : Backs(on, flag), Remembers(any, on)
  PROVE  Justifies(on, StateOf(ResolveFlags(any)))
<1>. DEFINE best == ResolveFlags(any)
<1>1. best \in any /\ \A g \in any : Rank(best) <= Rank(g)
  BY ResolveFlagsIsBest
<1>2. Backs(on, best) /\ best \in DetectFlag
  BY <1>1
<1>. SUFFICES Justifies(on, StateOf(best))
  OBVIOUS
<1>. HIDE DEF best
<1>3. CASE best = "WINDOWS"
  <2>1. "PS4" \notin any /\ "OGXBOX" \notin any /\ "XBOX360" \notin any
    BY <1>1, <1>3 DEF Rank
  <2>2. "get_03" \notin on /\ "xid" \notin on /\ "xsm3" \notin on /\ "vendor" \notin on
    BY <2>1 DEF Remembers
  <2>3. "compat_id" \in on /\ on \cap {"xsm3", "vendor", "xid", "get_03"} = {}
    BY <1>2, <1>3, <2>2 DEF Backs
  <2>4. StateOf(best) = "WINDOWS"
    BY <1>3 DEF StateOf
  <2>. QED BY <2>3, <2>4 DEF Justifies
<1>4. CASE best # "WINDOWS"
  <2>1. CASE best = "PS3"
    BY <1>2, <2>1 DEF Backs, StateOf
  <2>2. CASE best = "PS4"
    BY <1>2, <2>2 DEF Backs, StateOf, Justifies
  <2>3. CASE best = "OGXBOX"
    BY <1>2, <2>3 DEF Backs, StateOf, Justifies
  <2>4. CASE best = "XBOX360"
    BY <1>2, <2>4 DEF Backs, StateOf, Justifies
  <2>5. CASE best = "SWITCH1"
    BY <1>2, <2>5 DEF Backs, StateOf, Justifies
  <2>. QED BY <1>2, <1>4, <2>1, <2>2, <2>3, <2>4, <2>5 DEF DetectFlag
<1>. QED BY <1>3, <1>4

(* The record that the task leaves behind, and what its answer rests on.   *)
LEMMA TaskHeard ==
  ASSUME DelayAssumption, TypeOK, HeardBy(hostDetection, evidence)
  PROVE  LET task == UsbHostDetectionTask
         IN  /\ HeardBy(task.host, evidence)
             /\ task.result \in HostName => Justifies(evidence, StateOf(task.result))
<1>. DEFINE h == hostDetection
            since       == Started(mountedFor)
            graceOver   == since > Ps4Grace
            switchReady == SwitchCandidate(h) /\ (GenericHidActivity(h) => graceOver)
            kept        == RejectLinuxPs3(h, autoDetectProbeStage)
            host        == IF switchReady THEN Mark(kept, "SWITCH1") ELSE kept
            quietFor    == IF switchReady THEN 0 ELSE lastSignal
            awaitsPs4   == GenericHidActivity(h) /\ Unmarked(h)
            believed    == host.any # {} /\ quietFor >= PostDelay
            silent      == host.any = {} /\ (awaitsPs4 => graceOver) /\ since > NonWiiu
            silentHost  == IF "hid_report" \in host.seen /\ "manufacturer" \notin host.seen
                             THEN "SWITCH2" ELSE "TIMEOUT"
<1>1. h \in Record
  BY DEF TypeOK
<1>2. kept \in Record /\ HeardBy(kept, evidence)
  <2>1. kept = h \/ kept = [h EXCEPT !.any = @ \ {"PS3"}]
    BY DEF RejectLinuxPs3
  <2>. QED BY <1>1, <2>1 DEF HeardBy, Remembers, Record
<1>3. host \in Record /\ HeardBy(host, evidence)
  <2>1. CASE switchReady
    <3>1. {"clear_in", "clear_out"} \subseteq evidence
      BY <2>1 DEF SwitchCandidate, HeardBy, SeenHeard
    <3>. QED BY <1>2, <2>1, <3>1 DEF Mark, Record, DetectFlag, HeardBy, Remembers, Backs
  <2>2. CASE ~switchReady
    BY <1>2, <2>2
  <2>. QED BY <2>1, <2>2
<1>. HIDE DEF host
<1>4. host.any # {} => Justifies(evidence, StateOf(ResolveFlags(host.any)))
  BY <1>3, BestFlagJustified DEF HeardBy, Record
<1>5. h.any # {} => Justifies(evidence, StateOf(ResolveFlags(h.any)))
  BY <1>1, BestFlagJustified DEF HeardBy, Record
<1>6. silentHost = "SWITCH2" => Justifies(evidence, StateOf(silentHost))
  <2>1. silentHost = "SWITCH2" => "hid_report" \in evidence /\ "manufacturer" \notin evidence
    BY <1>3 DEF HeardBy, SeenHeard
  <2>. QED BY <2>1 DEF Justifies, StateOf
<1>7. "NONE" \notin HostName /\ "TIMEOUT" \notin HostName
  BY DEF HostName, DetectFlag
<1>8. /\ MountedTask.host = host
      /\ MountedTask.result = IF believed THEN ResolveFlags(host.any)
                              ELSE IF silent THEN silentHost ELSE "NONE"
  BY DEF MountedTask, host
<1>9. MountedTask.result \in HostName => Justifies(evidence, StateOf(MountedTask.result))
  <2>1. CASE believed
    BY <1>4, <1>8, <2>1
  <2>2. CASE ~believed
    BY <1>6, <1>7, <1>8, <2>2
  <2>. QED BY <2>1, <2>2
<1>10. CASE fullyInitialized
  BY <1>7, <1>10 DEF UsbHostDetectionTask, NotYet
<1>11. CASE ~fullyInitialized /\ h.any \cap PremountFlag # {} /\ lastSignal >= PostDelay
  <2>1. /\ UsbHostDetectionTask.host = h
        /\ UsbHostDetectionTask.result = ResolveFlags(h.any)
    BY <1>11 DEF UsbHostDetectionTask, NotYet
  <2>. QED BY <1>5, <1>11, <2>1
<1>12. CASE ~fullyInitialized /\ ~(h.any \cap PremountFlag # {} /\ lastSignal >= PostDelay)
  <2>1. CASE mounted
    <3>1. UsbHostDetectionTask = MountedTask
      BY <1>12, <2>1 DEF UsbHostDetectionTask
    <3>. QED BY <1>3, <1>8, <1>9, <3>1
  <2>2. CASE ~mounted
    BY <1>7, <1>12, <2>2 DEF UsbHostDetectionTask, NotYet
  <2>. QED BY <2>1, <2>2
<1>. QED BY <1>10, <1>11, <1>12

LEMMA HeardStep ==
  ASSUME DelayAssumption, BoundAssumption, TypeOK, Heard, [Next]_vars
  PROVE  Heard'
<1>. USE DEF Heard
<1>1. CASE Tick \/ HostConnects \/ HostConfigures \/ BusReset \/ UNCHANGED vars
  BY <1>1 DEF Tick, HostConnects, HostConfigures, BusReset, vars, detector, history
<1>2. ASSUME NEW req \in HostRequest, HostAsks(req)
      PROVE  Heard'
  <2>1. phase = "running" /\ hostDetection \in Record /\ req \in Request
    BY <1>2 DEF HostAsks, TypeOK, BoundAssumption
  <2>2. CASE CanRunDetection
    <3>1. /\ hostDetection' = AfterRequest(hostDetection, req, autoDetectProbeStage)
          /\ evidence' = evidence \cup {req}
      BY <1>2, <2>2 DEF HostAsks
    <3>2. HeardBy(AfterRequest(hostDetection, req, autoDetectProbeStage), evidence \cup {req})
      BY <2>1, HeardAfterRequest
    <3>. QED BY <3>1, <3>2
  <2>3. CASE ~CanRunDetection
    <3>1. /\ hostDetection' \in {hostDetection, Observe(hostDetection, "ms_os_string")}
          /\ evidence' = evidence
      BY <1>2, <2>3 DEF HostAsks
    <3>2. HeardBy(Observe(hostDetection, "ms_os_string"), evidence)
      BY <2>1 DEF Observe, Record, HeardBy, SeenHeard
    <3>. QED BY <2>1, <3>1, <3>2
  <2>. QED BY <2>2, <2>3
<1>3. CASE PowerCycle
  BY <1>3 DEF PowerCycle, Reboot
<1>4. ASSUME NEW psx \in BOOLEAN, Boot(psx)
      PROVE  Heard'
  <2>1. hostDetection' = NoObservation /\ evidence' = {}
    BY <1>4 DEF Boot
  <2>2. HeardBy(NoObservation, {})
    BY DEF HeardBy, NoObservation, Remembers, TrainHeard, SeenHeard
  <2>. QED BY <2>1, <2>2
<1>5. CASE AutoDetectProcess
  <2>1. /\ phase = "running" /\ hostDetection' = UsbHostDetectionTask.host
        /\ evidence' = evidence
    BY <1>5 DEF AutoDetectProcess
  <2>. QED BY <2>1, TaskHeard
<1>6. CASE HotSwapCheck
  BY <1>6 DEF HotSwapCheck
<1>7. CASE User
  BY <1>7, UserIsRunning DEF UserActs, detector
<1>. QED BY <1>1, <1>2, <1>3, <1>4, <1>5, <1>6, <1>7 DEF Next, Device, Host

(***************************************************************************)
(* What each kind of step does to the verdict                              *)
(***************************************************************************)
Stays == Known' = Known /\ verdict' = verdict

Forgets == Known' = Idle /\ verdict' = NoVerdict

TakenForPlain == Known = Idle /\ Known' = Fallback /\ verdict'.by = "input"

LEMMA KnownQuiet ==
  ASSUME Tick \/ Host \/ UNCHANGED vars
  PROVE  Stays /\ (Assisted' <=> Assisted)
BY DEF Tick, Host, HostConnects, HostConfigures, BusReset, HostAsks, vars, settings, personality,
       history, Stays, Known, Assisted, IsAutoSelected

LEMMA KnownPowerCycle ==
  ASSUME PowerCycle
  PROVE  Forgets
BY DEF PowerCycle, Reboot, EmptyScratch, Forgets, Known

(* A boot takes over what was handed to it, and nothing else.              *)
LEMMA KnownBoot ==
  ASSUME TypeOK, HandOffReadOnce, NEW psx \in BOOLEAN, Boot(psx)
  PROVE  /\ Known' = Known /\ (Assisted' <=> Assisted)
         /\ verdict' = IF Known = Idle THEN NoVerdict ELSE verdict
<1>1. /\ configuredOutputMode' = configuredOutputMode
      /\ phase = "resetting" /\ phase' = "running"
      /\ verdict' = IF autoDetectState' = Idle THEN NoVerdict ELSE verdict
  BY DEF Boot, settings
<1>2. CASE ~IsAutoSelected
  BY <1>1, <1>2 DEF Boot, Known, Assisted, IsAutoSelected
<1>3. CASE IsAutoSelected /\ ~scratch.magic
  BY <1>1, <1>3 DEF Boot, RestoredMode, Known, Assisted, IsAutoSelected
<1>4. CASE IsAutoSelected /\ scratch.magic
  <2>1. scratch.mode \in RuntimeMode /\ AutoOutput \notin RuntimeMode
    BY DEF TypeOK, RuntimeMode
  <2>2. RestoredMode # AutoOutput
    BY <1>4, <2>1, SanitizedModes DEF RestoredMode
  <2>3. autoDetectState' = scratch.state /\ scratch.state # Idle
    BY <1>4, <2>2 DEF Boot, HandOffReadOnce
  <2>. QED BY <1>1, <1>4, <2>3 DEF Known, Assisted, IsAutoSelected
<1>. QED BY <1>2, <1>3, <1>4

(* The detector decides once, from what it was asked.                      *)
LEMMA KnownProcess ==
  ASSUME DelayAssumption, TypeOK, HandOffReadOnce, Heard, AutoDetectProcess
  PROVE  /\ Known = Idle
         /\ \/ Stays /\ (Assisted' <=> Assisted)
            \/ Stays /\ ~Assisted /\ Assisted'
            \/ /\ Known' # Idle /\ Known' \in AutoState /\ ~Assisted'
               /\ verdict' = [by |-> "detector", on |-> evidence]
               /\ Justifies(evidence, Known')
<1>1. /\ phase = "running" /\ IsAutoSelected /\ autoDetectState = Idle
      /\ configuredOutputMode' = configuredOutputMode
  BY DEF AutoDetectProcess, CanRunDetection, settings
<1>2. Known = Idle
  BY <1>1 DEF Known
<1>3. ASSUME NEW mode \in RuntimeMode, NEW state \in AutoState, state # Idle,
             Justifies(evidence, state), Reenumerate(mode, state)
      PROVE  /\ Known' # Idle /\ Known' \in AutoState /\ ~Assisted'
             /\ verdict' = [by |-> "detector", on |-> evidence]
             /\ Justifies(evidence, Known')
  <2>1. phase' = "resetting" /\ scratch'.magic /\ scratch'.state = state
    BY <1>1, <1>3, HandedResolved DEF Reenumerate, Reboot
  <2>2. Known' = state
    BY <1>1, <2>1 DEF Known, IsAutoSelected
  <2>. QED BY <1>3, <2>2 DEF Reenumerate, Assisted
<1>4. CASE KeepProbing
  BY <1>1, <1>4 DEF KeepProbing, personality, Stays, Known, Assisted, IsAutoSelected
<1>5. CASE StartPs3Assist /\ autoDetectProbeStage = "GENERIC"
  <2>1. phase' = "resetting" /\ ~scratch'.magic /\ scratch'.stage = "PS3" /\ verdict' = verdict
    BY <1>1, <1>5 DEF StartPs3Assist, Reboot, HandOffReadOnce, EmptyScratch
  <2>. QED BY <1>1, <1>2, <1>5, <2>1 DEF Stays, Known, Assisted, IsAutoSelected
<1>6. CASE SettleFallback
  <2>1. MisterOutput(misterOutput) \in RuntimeMode /\ Fallback \in AutoState /\ Fallback # Idle
    BY SanitizedModes DEF TypeOK, AutoState, Fallback, Idle
  <2>2. Justifies(evidence, Fallback)
    BY DEF Justifies, Fallback
  <2>. QED BY <1>2, <1>3, <1>6, <2>1, <2>2 DEF SettleFallback
<1>7. CASE UsbHostDetectionTask.result \in HostName /\ SettleHost(UsbHostDetectionTask.result)
  <2>. DEFINE state == StateOf(UsbHostDetectionTask.result)
  <2>1. state \in AutoState /\ state # Idle
    BY <1>7, SettledHost
  <2>2. Justifies(evidence, state)
    BY <1>1, <1>7, TaskHeard DEF Heard
  <2>3. SettleInPlace(state) \/ \E mode \in RuntimeMode : Reenumerate(mode, state)
    BY <1>7, SettledHost
  <2>. HIDE DEF state
  <2>4. CASE SettleInPlace(state)
    <3>1. Known' = state
      BY <1>1, <2>4 DEF SettleInPlace, Known, IsAutoSelected
    <3>. QED BY <1>2, <2>1, <2>2, <2>4, <3>1 DEF SettleInPlace, Assisted
  <2>. QED BY <1>2, <1>3, <2>1, <2>2, <2>3, <2>4
<1>. QED BY <1>2, <1>4, <1>5, <1>6, <1>7, ProcessOutcome

(* A reboot that preserves keeps the verdict, or takes a host that is not  *)
(* known yet for a plain one.                                              *)
LEMMA KnownPreserved ==
  ASSUME TypeOK, HandOffReadOnce, phase = "running", NEW win \in Preference,
         NEW mister \in Preference, NEW mode \in RuntimeMode,
         CanPreserveKnown(mode, win, mister),
         configuredOutputMode' = configuredOutputMode,
         Reboot(Preserved(mode, win, mister)), verdict' = PreservedVerdict(mode, win, mister)
  PROVE  Stays \/ TakenForPlain
<1>1. IsAutoSelected
  BY DEF CanPreserveKnown, CanPreserveResolved, HasResolved, CanPreserveProbe, CanRunDetection
<1>2. Known = autoDetectState
  BY <1>1 DEF Known
<1>3. CASE CanPreserveResolved(mode, win, mister)
  <2>1. autoDetectState # Idle /\ autoDetectState \in AutoState
    BY <1>3 DEF CanPreserveResolved, HasResolved, TypeOK
  <2>2. phase' = "resetting" /\ scratch'.magic /\ scratch'.state = autoDetectState
    BY <1>3, <2>1, HandedResolved DEF Preserved, Reboot
  <2>. QED BY <1>1, <1>2, <1>3, <2>2 DEF PreservedVerdict, Stays, Known, IsAutoSelected
<1>4. CASE ~CanPreserveResolved(mode, win, mister)
  <2>1. MisterOutput(mister) \in RuntimeMode /\ Fallback \in AutoState /\ Fallback # Idle
    BY SanitizedModes DEF AutoState, Fallback, Idle
  <2>2. phase' = "resetting" /\ scratch'.magic /\ scratch'.state = Fallback
    BY <1>4, <2>1, HandedResolved DEF Preserved, Reboot
  <2>3. autoDetectState = Idle
    BY <1>4 DEF CanPreserveKnown, CanPreserveProbe, CanRunDetection
  <2>. QED BY <1>1, <1>2, <1>4, <2>2, <2>3 DEF PreservedVerdict, TakenForPlain, Known, IsAutoSelected
<1>. QED BY <1>3, <1>4

LEMMA KnownHotSwap ==
  ASSUME TypeOK, HandOffReadOnce, HotSwapCheck
  PROVE  \/ Stays /\ (Assisted' <=> Assisted) /\ disturbances' = disturbances
         \/ (Stays \/ TakenForPlain) /\ Disturb
<1>1. /\ phase = "running"
      /\ UNCHANGED <<configuredOutputMode, winOutput, misterOutput, autoDetectState>>
      /\ scratch = EmptyScratch
  BY DEF HotSwapCheck, settings, HandOffReadOnce
<1>2. CASE UNCHANGED <<phase, scratch, outputMode, autoDetectProbeStage, verdict, autoReboots,
                       disturbances>>
  BY <1>1, <1>2 DEF Stays, Known, Assisted, IsAutoSelected
<1>3. ASSUME NEW mode \in RuntimeMode, TryReenumerate(mode)
      PROVE  Stays \/ TakenForPlain
  <2>1. CASE ~IsAutoSelected
    BY <1>1, <1>3, <2>1 DEF TryReenumerate, Reboot, Stays, Known, IsAutoSelected
  <2>2. CASE IsAutoSelected /\ CanPreserveKnown(mode, winOutput, misterOutput)
    BY <1>1, <1>3, <2>2, KnownPreserved DEF TryReenumerate, TypeOK
  <2>3. CASE IsAutoSelected /\ ~CanPreserveKnown(mode, winOutput, misterOutput)
    BY <1>1, <1>3, <2>3 DEF TryReenumerate, Stays, Known, IsAutoSelected
  <2>. QED BY <2>1, <2>2, <2>3
<1>4. outputMode \in RuntimeMode /\ Mister \in RuntimeMode /\ MisterPsx \in RuntimeMode
  BY SanitizedModes DEF TypeOK
<1>5. CASE Disturb /\ (PsxPeripheralPlugged \/ PsxPeripheralUnplugged \/ PlayerCountChanged)
  BY <1>3, <1>4, <1>5 DEF PsxPeripheralPlugged, PsxPeripheralUnplugged, PlayerCountChanged
<1>. QED BY <1>2, <1>5 DEF HotSwapCheck

LEMMA KnownUser ==
  ASSUME BoundAssumption, TypeOK, HandOffReadOnce, User
  PROVE  (Stays \/ Forgets \/ TakenForPlain) /\ Disturb
<1>1. phase = "running" /\ scratch = EmptyScratch /\ Disturb
  BY UserIsRunning DEF HandOffReadOnce, UserActs
<1>2. outputMode \in RuntimeMode /\ winOutput \in Preference /\ misterOutput \in Preference
  BY DEF TypeOK
<1>3. CASE ResetTap
  BY <1>1, <1>3 DEF ResetTap, Reboot, Forgets, Known, EmptyScratch
<1>4. CASE ResetHoldRelease
  <2>1. configuredOutputMode' = configuredOutputMode
    BY <1>4 DEF ResetHoldRelease, settings
  <2>2. CASE CanPreserveResolved(outputMode, winOutput, misterOutput)
    <3>1. /\ CanPreserveKnown(outputMode, winOutput, misterOutput)
          /\ Preserved(outputMode, winOutput, misterOutput) = Resolved(outputMode, autoDetectState)
          /\ PreservedVerdict(outputMode, winOutput, misterOutput) = verdict
      BY <2>2 DEF CanPreserveKnown, Preserved, PreservedVerdict
    <3>2. /\ Reboot(Preserved(outputMode, winOutput, misterOutput))
          /\ verdict' = PreservedVerdict(outputMode, winOutput, misterOutput)
      BY <1>4, <2>2, <3>1 DEF ResetHoldRelease
    <3>. QED BY <1>1, <1>2, <2>1, <3>1, <3>2, KnownPreserved
  <2>3. CASE ~CanPreserveResolved(outputMode, winOutput, misterOutput)
    BY <1>1, <1>4, <2>3 DEF ResetHoldRelease, Reboot, Forgets, Known, EmptyScratch
  <2>. QED BY <1>1, <2>2, <2>3
<1>5. CASE CycleInputMode
  <2>1. configuredOutputMode' = configuredOutputMode
    BY <1>5 DEF CycleInputMode, settings
  <2>2. CASE CanPreserveKnown(outputMode, winOutput, misterOutput)
    BY <1>1, <1>2, <1>5, <2>1, <2>2, KnownPreserved DEF CycleInputMode
  <2>3. CASE ~CanPreserveKnown(outputMode, winOutput, misterOutput)
    BY <1>1, <1>5, <2>3 DEF CycleInputMode, Reboot, Forgets, Known, EmptyScratch
  <2>. QED BY <1>1, <2>2, <2>3
<1>6. ASSUME NEW m \in ConfigurableMode, NEW reboots \in BOOLEAN, SelectOutput(m, reboots)
      PROVE  Forgets
  BY <1>6 DEF SelectOutput, ApplySelection, Forgets, Known, EmptyScratch
<1>7. ASSUME NEW m \in ConfigurableMode, NEW win \in ConfigurablePreference,
             NEW mister \in ConfigurablePreference, NEW needsReboot \in BOOLEAN,
             MenuSave(m, win, mister, needsReboot)
      PROVE  Stays \/ Forgets \/ TakenForPlain
  <2>. DEFINE stays    == SanitizeConfigured(m) = configuredOutputMode
              preserve == needsReboot /\ stays /\ CanPreserveKnown(outputMode, win, mister)
  <2>1. win \in Preference /\ mister \in Preference
    BY DEF BoundAssumption
  <2>2. CASE preserve
    <3>1. configuredOutputMode' = configuredOutputMode
      BY <1>7, <2>2 DEF MenuSave, ApplySelection
    <3>2. /\ Reboot(Preserved(outputMode, win, mister))
          /\ verdict' = PreservedVerdict(outputMode, win, mister)
      BY <1>7, <2>2 DEF MenuSave
    <3>. QED BY <1>1, <1>2, <2>1, <2>2, <3>1, <3>2, KnownPreserved
  <2>3. CASE ~preserve
    BY <1>7, <2>3 DEF MenuSave, Reboot, Forgets, Known, EmptyScratch
  <2>. QED BY <2>2, <2>3
<1>8. ASSUME NEW pref \in ConfigurablePreference, PreferWindows(pref) \/ PreferMister(pref)
      PROVE  Stays \/ Forgets
  <2>1. /\ UNCHANGED <<configuredOutputMode, autoDetectState>> /\ scratch' = EmptyScratch
        /\ (phase' = "resetting" /\ verdict' = NoVerdict) \/ UNCHANGED <<phase, verdict>>
    BY <1>8 DEF PreferWindows, PreferMister, ChangePreference, personality
  <2>. QED BY <1>1, <2>1 DEF Stays, Forgets, Known, IsAutoSelected, EmptyScratch
<1>. QED BY <1>1, <1>3, <1>4, <1>5, <1>6, <1>7, <1>8 DEF User

(***************************************************************************)
(* The theorems                                                            *)
(***************************************************************************)
LEMMA EvidenceStep ==
  ASSUME DelayAssumption, BoundAssumption, TypeOK, HandOffReadOnce, Heard, VerdictHasEvidence,
         [Next]_vars
  PROVE  VerdictHasEvidence'
<1>. USE DEF VerdictHasEvidence
<1>1. ASSUME Stays PROVE VerdictHasEvidence'
  BY <1>1 DEF Stays
<1>2. Justifies(NoVerdict.on, Idle) /\ NoVerdict.by = "nobody"
  BY DEF NoVerdict, Justifies, Idle
<1>3. ASSUME Forgets PROVE VerdictHasEvidence'
  BY <1>2, <1>3 DEF Forgets, Fallback, Idle
<1>4. ASSUME TakenForPlain PROVE VerdictHasEvidence'
  BY <1>4 DEF TakenForPlain, Justifies, Fallback, Idle
<1>5. CASE Tick \/ Host \/ PowerCycle \/ UNCHANGED vars
  BY <1>1, <1>3, <1>5, KnownQuiet, KnownPowerCycle
<1>6. ASSUME NEW psx \in BOOLEAN, Boot(psx)
      PROVE  VerdictHasEvidence'
  BY <1>1, <1>3, <1>6, KnownBoot DEF Stays, Forgets
<1>7. CASE AutoDetectProcess
  BY <1>1, <1>7, KnownProcess
<1>8. CASE HotSwapCheck
  BY <1>1, <1>4, <1>8, KnownHotSwap
<1>9. CASE User
  BY <1>1, <1>3, <1>4, <1>9, KnownUser
<1>. QED BY <1>5, <1>6, <1>7, <1>8, <1>9 DEF Next, Device

LEMMA HeardAlways == Spec => []Heard
<1>1. Init => Heard
  BY DEF Init, Heard
<1>2. TypeOK /\ Heard /\ [Next]_vars => Heard'
  BY HeardStep, DelayAssumption, BoundAssumption
<1>. QED BY <1>1, <1>2, TypeCorrect, PTL DEF Spec

(* The device takes its host for a console or for Windows only if the host *)
(* asked for it in the boot that decided; the evidence is never mixed up   *)
(* with that of another boot, and a Windows verdict excludes every console *)
(* signal, whatever the order of the requests and the passes of the loop.  *)
THEOREM VerdictIsJustified == Spec => []VerdictHasEvidence
<1>1. Init => VerdictHasEvidence
  BY DEF Init, VerdictHasEvidence, NoVerdict, Known, EmptyScratch, Justifies, Idle, Fallback
<1>2. /\ TypeOK /\ HandOffReadOnce /\ Heard /\ VerdictHasEvidence /\ [Next]_vars
      => VerdictHasEvidence'
  BY EvidenceStep, DelayAssumption, BoundAssumption
<1>. QED BY <1>1, <1>2, TypeCorrect, HandOffIsReadOnce, HeardAlways, PTL DEF Spec

(* Once the device knows its host, only a person or a loss of power makes  *)
(* it forget: no pass, bus reset, controller change or reboot does.        *)
THEOREM OnlyPeopleForgetHosts == Spec => OnlyPeopleForget
<1>1. ASSUME TypeOK, HandOffReadOnce, Heard, [Next]_vars
      PROVE  [Known # Idle /\ Known' # Known => User \/ PowerCycle]_vars
  <2>1. CASE Tick \/ Host \/ UNCHANGED vars
    BY <2>1, KnownQuiet DEF Stays
  <2>2. CASE HotSwapCheck
    BY <1>1, <2>2, KnownHotSwap DEF Stays, TakenForPlain
  <2>3. CASE AutoDetectProcess
    BY <1>1, <2>3, DelayAssumption, KnownProcess
  <2>4. CASE \E psx \in BOOLEAN : Boot(psx)
    BY <1>1, <2>4, KnownBoot
  <2>. QED BY <1>1, <2>1, <2>2, <2>3, <2>4 DEF Next, Device
<1>. QED BY <1>1, TypeCorrect, HandOffIsReadOnce, HeardAlways, PTL
         DEF Spec, OnlyPeopleForget

LEMMA AssistedIsBoolean == Assisted \in BOOLEAN /\ Assisted' \in BOOLEAN
BY DEF Assisted

LEMMA VerdictStep ==
  ASSUME DelayAssumption, BoundAssumption, TypeOK, HandOffReadOnce, Heard, [Next]_vars
  PROVE  [Verdict!Next]_(Verdict!vars)
<1>1. ASSUME Known' = Known, Assisted' <=> Assisted, disturbances' = disturbances
      PROVE  UNCHANGED Verdict!vars
  BY <1>1 DEF Verdict!vars, Assisted
<1>2. ASSUME Stays \/ Forgets \/ TakenForPlain, Disturb
      PROVE  Verdict!Intervene
  <2>1. disturbances' = disturbances + 1
    BY <1>2 DEF Disturb
  <2>2. Known' \in {Known, Idle} \/ (Known = Idle /\ Known' = Fallback)
    BY <1>2 DEF Stays, Forgets, TakenForPlain
  <2>. QED BY <2>1, <2>2, AssistedIsBoolean DEF Verdict!Intervene
<1>3. CASE Tick \/ HostConnects \/ HostConfigures \/ (\E req \in HostRequest : HostAsks(req))
           \/ UNCHANGED vars
  <2>1. disturbances' = disturbances
    BY <1>3 DEF Tick, HostConnects, HostConfigures, HostAsks, vars
  <2>2. Known' = Known /\ (Assisted' <=> Assisted)
    BY <1>3, KnownQuiet DEF Host, Stays
  <2>. QED BY <1>1, <2>1, <2>2
<1>4. CASE BusReset \/ PowerCycle \/ User
  <2>1. Disturb /\ (Stays \/ Forgets \/ TakenForPlain)
    BY <1>4, KnownQuiet, KnownPowerCycle, KnownUser DEF Host, BusReset, PowerCycle
  <2>. QED BY <1>2, <2>1 DEF Verdict!Next
<1>5. ASSUME NEW psx \in BOOLEAN, Boot(psx)
      PROVE  UNCHANGED Verdict!vars
  <2>1. disturbances' = disturbances
    BY <1>5 DEF Boot
  <2>. QED BY <1>1, <1>5, <2>1, KnownBoot
<1>6. CASE HotSwapCheck
  BY <1>1, <1>2, <1>6, KnownHotSwap DEF Stays, Verdict!Next
<1>7. CASE AutoDetectProcess
  <2>1. disturbances' = disturbances
    BY <1>7 DEF AutoDetectProcess
  <2>2. CASE Stays /\ (Assisted' <=> Assisted)
    BY <1>1, <2>1, <2>2 DEF Stays
  <2>3. CASE Known = Idle /\ Stays /\ ~Assisted /\ Assisted'
    BY <2>1, <2>3, AssistedIsBoolean DEF Stays, Verdict!Assist, Verdict!Next
  <2>4. CASE Known = Idle /\ Known' # Idle /\ Known' \in AutoState /\ ~Assisted'
    BY <2>1, <2>4, AssistedIsBoolean DEF Verdict!Decide, Verdict!Next
  <2>. QED BY <1>7, <2>2, <2>3, <2>4, KnownProcess
<1>. QED BY <1>3, <1>4, <1>5, <1>6, <1>7 DEF Next, Device, Host

(* Registers, resets and passes of the loop implement the promise of       *)
(* HostVerdict: at most one extra probe, then one opinion, which no step   *)
(* of the detector itself revises or loses.                                *)
THEOREM ImplementsHostVerdict == Spec => KeepsOneVerdict
<1>1. Init => Verdict!Init
  BY DEF Init, Verdict!Init, Known, Assisted, EmptyScratch
<1>2. TypeOK /\ HandOffReadOnce /\ Heard /\ [Next]_vars => [Verdict!Next]_(Verdict!vars)
  BY VerdictStep, DelayAssumption, BoundAssumption
<1>. QED BY <1>1, <1>2, TypeCorrect, HandOffIsReadOnce, HeardAlways, PTL
         DEF Spec, KeepsOneVerdict, Verdict!Spec
====
