--------------------------- MODULE InputHotSwap ---------------------------
(***************************************************************************)
(* The input side of AUTO: which controller family the firmware drives,   *)
(* how it notices that the controller was unplugged, how it finds the     *)
(* next one, and how the choice survives the reboots that USB             *)
(* re-enumeration needs.  (input/autodetect, input/runtime, and the       *)
(* actions of people and of the output side that change its state.)       *)
(*                                                                         *)
(* A mode stands for all the modes that one driver serves, so that a      *)
(* driver is named by its mode.  A step of the hot swap is one pass of    *)
(* checkAutoDetectHotSwap with every call that it makes.                  *)
(***************************************************************************)
EXTENDS Integers, FiniteSets

CONSTANTS
  Family,           \* the controller families, each with its driver
  HomeFamily,       \* the family whose driver runs while AUTO waits (SNES)
  QuickFamily,      \* found by the quick scan (SNES, PSX, Wii, Dreamcast)
  ConfirmFamily,    \* must be seen by their driver after setup (Saturn, MD)
  JoybusFamily,     \* may be resolved before USB comes up (N64, GC, GBA)
  AssistedFamily,   \* found by a held button, report themselves for ever
  LatchFamily,      \* assisted, also when an active scan meets them (Neo Geo)
  SlotFamily,       \* may need other USB descriptors (taps, NSO, PSX)
  NsoFamily,        \* re-enumerate on a player change when chosen by hand (N64)
  FastRetry,        \* inputAutoDetectFastNoInputRetryIntervalMs
  DisconnectDelay,  \* inputAutoDetectDisconnectDelayMs and the no-data debounce
  GracePeriod,      \* autoInputResolvedGraceMs
  NoInputRetry,     \* inputAutoDetectNoInputRetryIntervalMs
  FullScanEvery,    \* inputAutoDetectNoInputFullScanEveryQuickMisses
  Remote,           \* which remote commands are used: "stage", "redetect"
  MaxPlugs,         \* bound: changes of what is plugged
  MaxActs           \* bound: acts of people and of the output side

AutoMode == "AUTO"      \* RZORD_AUTODETECT, and its driver at home
NoMode == "NONE"    \* RZORD_NONE: no mode handed on, nothing plugged
Mode == Family \cup {AutoMode}

ASSUME FamilyAssumption ==
  /\ AutoMode \notin Family /\ NoMode \notin Family /\ HomeFamily \in Family
  /\ QuickFamily \cup ConfirmFamily \cup JoybusFamily \cup NsoFamily
       \subseteq Family \ AssistedFamily
  /\ LatchFamily \subseteq AssistedFamily /\ AssistedFamily \subseteq Family
  /\ SlotFamily \subseteq Family /\ HomeFamily \notin AssistedFamily

ASSUME DelayAssumption ==
  /\ FastRetry \in Nat /\ DisconnectDelay \in Nat /\ GracePeriod \in Nat
  /\ NoInputRetry \in Nat /\ FullScanEvery \in Nat
  /\ 0 < FastRetry /\ FastRetry < DisconnectDelay /\ DisconnectDelay < GracePeriod
  /\ GracePeriod <= NoInputRetry /\ 0 < FullScanEvery

ASSUME BoundAssumption == MaxPlugs \in Nat /\ MaxActs \in Nat /\ Remote \subseteq {"stage", "redetect"}

VARIABLES
  ram,        \* what a reset loses, see Memory
  persisted,  \* the mode in flash (GlobalSettingsRecord.persisted_input_mode)
  scratch,    \* the mode in the watchdog registers 4 and 5, or NoMode
  phase,      \* "running", or what resets the chip
  gate,       \* what output detection lets the hot swap do
  plugged,    \* the controller in the connector, or NoMode
  plugs,      \* counts changes of the connector, up to MaxPlugs
  acts        \* counts acts of people and of the output side, up to MaxActs

vars == <<ram, persisted, scratch, phase, gate, plugged, plugs, acts>>

(* Resets: a re-enumeration hands its mode on; the probe of the output     *)
(* side, people and the loss of power do not.                              *)
Phase == {"running", "reenumerate", "probe", "person", "power"}

(* "probing": output detection owns the loop.  "nodata": it waits for a    *)
(* host that is not there, and lends the loop to the input.  "known": done.*)
Gate == {"probing", "nodata", "known"}

Memory ==
  [ deviceMode: Mode, savedDeviceMode: Mode, isAutoDetectMode: BOOLEAN,
    adapter: Mode,                   \* the driver that was set up last
    connected: BOOLEAN,              \* a frame or the driver reports presence
    grace: 0..GracePeriod,           \* time left of autoInputResolvedGraceUntil
    nextDetect: 0..NoInputRetry,     \* time left until the next scan is due
    downFor: 0..DisconnectDelay,     \* age of input_hotswap_disconnected_since
    wasConnected: BOOLEAN, initialized: BOOLEAN, reverted: BOOLEAN,
    quickMisses: 0..FullScanEvery,
    missingMode: Mode \cup {NoMode}, \* noDataHostResolvedMode
    missing: BOOLEAN,                \* noDataHostInputMissingSinceMs is set,
    missingFor: 0..DisconnectDelay,  \* and its age
    rebootArmed: BOOLEAN ]           \* pendingAutoDetectReboot

Running == phase = "running"
Waiting(s) == s.deviceMode = AutoMode    \* waitingForInitialResolve

(* What the driver of a mode senses.  An assisted driver marks its frames  *)
(* as connected when it is set up and never takes that back.               *)
Sees(m) ==
  \/ m \in AssistedFamily
  \/ plugged = m
  \/ m = AutoMode /\ plugged = HomeFamily

-----------------------------------------------------------------------------
(* Mutant: AUTO is entered without the hot swap.                           *)
MutPoweredUp(h, isAuto, deviceMode, savedDeviceMode) ==
  [ deviceMode |-> deviceMode, savedDeviceMode |-> savedDeviceMode,
    isAutoDetectMode |-> isAuto,
    adapter |-> deviceMode, connected |-> Sees(deviceMode),
    grace |-> IF h \in Family THEN GracePeriod ELSE 0,
    nextDetect |-> 0, downFor |-> 0,
    wasConnected |-> FALSE, initialized |-> deviceMode = AutoMode,
    reverted |-> h = AutoMode, quickMisses |-> 0,
    missingMode |-> NoMode, missing |-> FALSE, missingFor |-> 0,
    rebootArmed |-> FALSE ]

(* Memory after setup() of a boot that finds h in the registers.           *)
PoweredUp(h, isAuto, deviceMode, savedDeviceMode) ==
  [ deviceMode |-> deviceMode, savedDeviceMode |-> savedDeviceMode,
    isAutoDetectMode |-> isAuto \/ deviceMode = AutoMode,
    adapter |-> deviceMode, connected |-> Sees(deviceMode),
    grace |-> IF h \in Family THEN GracePeriod ELSE 0,
    nextDetect |-> 0, downFor |-> 0,
    wasConnected |-> FALSE, initialized |-> deviceMode = AutoMode,
    reverted |-> h = AutoMode, quickMisses |-> 0,
    missingMode |-> NoMode, missing |-> FALSE, missingFor |-> 0,
    rebootArmed |-> FALSE ]

(* Mutant: whatever is handed on is taken for a find of AUTO.              *)
MutBootedMemory ==
  CASE scratch = AutoMode -> PoweredUp(scratch, TRUE, AutoMode, AutoMode)
    [] scratch \in Family -> PoweredUp(scratch, TRUE, scratch, persisted)
    [] OTHER -> PoweredUp(scratch, FALSE, persisted, persisted)

BootedMemory ==
  CASE scratch = AutoMode -> PoweredUp(scratch, TRUE, AutoMode, AutoMode)
    [] scratch \in Family -> PoweredUp(scratch, persisted = AutoMode, scratch, persisted)
    [] OTHER -> PoweredUp(scratch, FALSE, persisted, persisted)

(* A Joybus controller is looked up before USB comes up, if the output is  *)
(* one whose identity depends on it.                                       *)
JoybusMemory ==
  [PoweredUp(plugged, TRUE, plugged, AutoMode) EXCEPT !.wasConnected = TRUE, !.initialized = TRUE]

(* Mutant: the registers are read and not cleared.                         *)
MutBoot ==
  /\ ~Running
  /\ phase' = "running"
  /\ ram' = BootedMemory
  /\ gate' \in {"probing", "known"}
  /\ UNCHANGED <<persisted, scratch, plugged, plugs, acts>>

Boot ==
  /\ ~Running
  /\ phase' = "running"
  /\ scratch' = NoMode
  /\ \/ ram' = BootedMemory
     \/ /\ persisted = AutoMode /\ scratch \in {NoMode, AutoMode} /\ plugged \in JoybusFamily
        /\ ram' = JoybusMemory
  /\ gate' \in {"probing", "known"}
  /\ UNCHANGED <<persisted, plugged, plugs, acts>>

Init ==
  /\ persisted \in Mode
  /\ plugged \in Family \cup {NoMode}
  /\ phase = "power" /\ scratch = NoMode /\ gate = "probing"
  /\ ram = PoweredUp(NoMode, FALSE, persisted, persisted)
  /\ plugs = 0 /\ acts = 0

-----------------------------------------------------------------------------
(* How a handler ends: it returns with memory s, or it resets the chip.    *)
Settle(s) == ram' = s /\ UNCHANGED <<scratch, phase>>
Reset(s, cause, handOff) == ram' = s /\ phase' = cause /\ scratch' = handOff

(* A re-enumeration keeps the output, or gives up if AUTO has none to keep.*)
MayReenumerate(s, handOff) == Settle(s) \/ Reset(s, "reenumerate", handOff)

(* rejectUnconfirmedDetectedInputMode: the driver stays, the mode does not.*)
Rejected(s) ==
  [s EXCEPT !.deviceMode = AutoMode, !.savedDeviceMode = AutoMode, !.isAutoDetectMode = TRUE,
            !.grace = 0, !.connected = FALSE, !.wasConnected = FALSE, !.downFor = 0,
            !.reverted = FALSE, !.quickMisses = 0, !.nextDetect = NoInputRetry]

(* Mutant: the mode is taken, its driver is not set up.                    *)
MutAdoptedDriver(s, m, assisted) ==
  [s EXCEPT !.deviceMode = m, !.savedDeviceMode = IF assisted THEN m ELSE AutoMode,
            !.isAutoDetectMode = ~assisted, !.quickMisses = 0,
            !.grace = GracePeriod, !.nextDetect = 0, !.connected = Sees(m)]

(* Mutant: what a scan found is taken for a selection.                     *)
MutAdoptedSaved(s, m, assisted) ==
  [s EXCEPT !.deviceMode = m, !.savedDeviceMode = m,
            !.isAutoDetectMode = ~assisted, !.quickMisses = 0,
            !.grace = GracePeriod, !.nextDetect = 0,
            !.adapter = m, !.connected = Sees(m)]

(* The first half of applyDetectedInputModeLive, up to setupDetectedMode.  *)
Adopted(s, m, assisted) ==
  [s EXCEPT !.deviceMode = m, !.savedDeviceMode = IF assisted THEN m ELSE AutoMode,
            !.isAutoDetectMode = ~assisted, !.quickMisses = 0,
            !.grace = GracePeriod, !.nextDetect = 0,
            !.adapter = m, !.connected = Sees(m)]

(* applyDetectedInputModeLive *)
Adopt(s, m, assisted) ==
  LET t == Adopted(s, m, assisted)
  IN  \/ m \in ConfirmFamily /\ ~Sees(m) /\ Settle(Rejected(t))
      \/ /\ m \in ConfirmFamily => Sees(m)
         /\ IF m \in SlotFamily THEN MayReenumerate(t, m) ELSE Settle(t)

(* restoreAutoDetectModeForDisconnect *)
Restorable(s) == ~s.reverted /\ ~Waiting(s)
Restored(s) == [s EXCEPT !.deviceMode = AutoMode, !.reverted = TRUE]

(* restoreAutoDetectHomeAfterDisconnect, for memory s before Restored.     *)
GoHome(s) ==
  LET t == [Restored(s) EXCEPT !.isAutoDetectMode = TRUE, !.grace = 0,
                               !.initialized = TRUE, !.downFor = 0, !.nextDetect = 0,
                               !.adapter = AutoMode, !.connected = FALSE, !.quickMisses = 0]
  IN  IF s.deviceMode \in SlotFamily THEN MayReenumerate(t, AutoMode) ELSE Settle(t)

(* shouldHotSwapToDetectedMode *)
Usable(s, m) == m # NoMode /\ m # s.deviceMode

-----------------------------------------------------------------------------
(* Scans.  An active protocol finds the controller that is plugged.  An    *)
(* assisted one is found while its button is held.  On an empty connector  *)
(* noise may look like a Saturn or Mega Drive pad.                         *)
Active == Family \ AssistedFamily
QuickScan == IF plugged \in QuickFamily THEN plugged ELSE NoMode
FullScan ==
  IF plugged \in Active THEN {plugged}
  ELSE {NoMode} \cup ConfirmFamily \cup ({plugged} \cap AssistedFamily)

(* A passive candidate on the bus that JPC shares with Saturn is arbitrated*)
(* by an active scan, which finds the Saturn pad.                          *)
PassiveScan == {NoMode} \cup ({plugged} \cap (AssistedFamily \cup ConfirmFamily))

AdoptPassive(s, m) == Adopt(s, m, m \in AssistedFamily)
AdoptActive(s, m) == Adopt(s, m, m \in LatchFamily)

(* The full scan of handleDisconnectedAutoDetectHotSwap and what follows.  *)
SearchFully(s, waiting) ==
  \E m \in FullScan :
    \/ Usable(s, m) /\ AdoptActive(s, m)
    \/ /\ ~Usable(s, m)
       /\ \E p \in PassiveScan :
            \/ Usable(s, p) /\ AdoptPassive(s, p)
            \/ /\ ~Usable(s, p)
               /\ Settle([s EXCEPT !.nextDetect = IF waiting THEN FastRetry ELSE NoInputRetry])

(* Mutant: the misses are not counted, the full scan is never due.         *)
MutSearchQuickly(s) ==
  \/ Usable(s, QuickScan) /\ AdoptActive(s, QuickScan)
  \/ ~Usable(s, QuickScan) /\ Settle([s EXCEPT !.nextDetect = FastRetry])

(* tryFastDisconnectedNoInputCommonHotSwap: so many misses, then all of it.*)
SearchQuickly(s) ==
  \/ Usable(s, QuickScan) /\ AdoptActive(s, QuickScan)
  \/ /\ ~Usable(s, QuickScan)
     /\ IF s.quickMisses + 1 < FullScanEvery
        THEN Settle([s EXCEPT !.quickMisses = @ + 1, !.nextDetect = FastRetry])
        ELSE SearchFully([s EXCEPT !.quickMisses = 0], TRUE)

SearchActively(s, waiting) ==
  \/ ~waiting /\ Settle(s)                   \* the idle screen is on
  \/ s.nextDetect > 0 /\ Settle(s)
  \/ s.nextDetect = 0 /\ waiting /\ SearchQuickly(s)
  \/ s.nextDetect = 0 /\ ~waiting /\ SearchFully(s, FALSE)

Search(s, waiting) ==
  \E p \in PassiveScan :
    \/ Usable(s, p) /\ AdoptPassive(s, p)
    \/ ~Usable(s, p) /\ SearchActively(s, waiting)

-----------------------------------------------------------------------------
(* handleConnectedAutoDetectHotSwap.  At home a presence means that the    *)
(* home driver sees a controller whose family is still to be found.        *)
HandleConnected(s) ==
  LET t == [s EXCEPT !.quickMisses = 0, !.wasConnected = TRUE, !.downFor = 0,
                     !.initialized = TRUE, !.reverted = FALSE, !.grace = 0]
  IN  \/ /\ ~Waiting(s)
         /\ Settle([t EXCEPT !.nextDetect = 0])
         /\ UNCHANGED plugs
      \/ /\ ~Waiting(s) /\ s.deviceMode \in SlotFamily
         /\ plugs < MaxPlugs /\ plugs' = plugs + 1    \* a further player joined
         /\ MayReenumerate(t, s.deviceMode)
      \/ /\ Waiting(s) /\ s.wasConnected /\ s.nextDetect > 0
         /\ Settle(t)
         /\ UNCHANGED plugs
      \/ /\ Waiting(s) /\ (~s.wasConnected \/ s.nextDetect = 0)
         /\ \E m \in FullScan :
              LET u == [t EXCEPT !.nextDetect = FastRetry]
              IN  IF Usable(u, m) THEN AdoptActive(u, m) ELSE Settle(u)
         /\ UNCHANGED plugs

(* handleDisconnectedAutoDetectHotSwap: the edge, then a wait that a first *)
(* look at home skips, then home, then the search.                         *)
DisconnectEdge(s) ==
  LET t == [s EXCEPT !.wasConnected = FALSE, !.downFor = 0, !.nextDetect = 0,
                     !.reverted = FALSE, !.grace = 0]
  IN  /\ s.wasConnected
      /\ IF t.savedDeviceMode = AutoMode /\ Restorable(t) THEN GoHome(t) ELSE Settle(t)

StayDisconnected(s) ==
  LET first == Waiting(s) /\ s.reverted
  IN  /\ ~s.wasConnected
      /\ \/ first /\ s.nextDetect > 0 /\ Settle(s)
         \/ first /\ s.nextDetect = 0 /\ Search([s EXCEPT !.reverted = FALSE], TRUE)
         \/ ~first /\ s.downFor < DisconnectDelay /\ Settle(s)
         \/ /\ ~first /\ s.downFor = DisconnectDelay
            /\ \/ Restorable(s) /\ s.savedDeviceMode = AutoMode /\ GoHome(s)
               \/ /\ Restorable(s) /\ s.savedDeviceMode # AutoMode
                  /\ Search(Restored(s), FALSE)
               \/ ~Restorable(s) /\ Search(s, Waiting(s))

(* Mutant: each pass takes itself for the first.                           *)
MutHandleDisconnected(s) ==
  LET t == [s EXCEPT !.downFor = 0, !.nextDetect = 0]
  IN  (DisconnectEdge(t) \/ StayDisconnected(t)) /\ UNCHANGED plugs

HandleDisconnected(s) ==
  LET t == IF s.initialized THEN s
           ELSE [s EXCEPT !.initialized = TRUE, !.downFor = 0, !.nextDetect = 0]
  IN  (DisconnectEdge(t) \/ StayDisconnected(t)) /\ UNCHANGED plugs

-----------------------------------------------------------------------------
(* deferNoDataHostResolvedDisconnect: without a host a resolved controller *)
(* is given up only after it was missing for some time.                    *)
Tracked(s) ==
  IF gate # "nodata" \/ Waiting(s)
  THEN [s EXCEPT !.missingMode = NoMode, !.missing = FALSE, !.missingFor = 0]
  ELSE LET known == s.missing /\ s.missingMode = s.deviceMode /\ ~s.connected
       IN  [s EXCEPT !.missingMode = s.deviceMode, !.missing = ~s.connected,
                     !.missingFor = IF known THEN @ ELSE 0]

Deferred(s) ==
  gate = "nodata" /\ ~Waiting(s) /\ ~s.connected /\ Tracked(s).missingFor < DisconnectDelay

(* The gate is closed while output detection works, and during the grace   *)
(* period of a controller that was just found.                             *)
CheckAutoDetectHotSwap ==
  /\ Running /\ ram.isAutoDetectMode /\ gate # "probing"
  /\ Waiting(ram) \/ ram.grace = 0
  /\ \/ Deferred(ram) /\ Settle(Tracked(ram)) /\ UNCHANGED plugs
     \/ ram.connected /\ HandleConnected(Tracked(ram))
     \/ ~Deferred(ram) /\ ~ram.connected /\ HandleDisconnected(Tracked(ram))
  /\ UNCHANGED <<persisted, gate, plugged, acts>>

-----------------------------------------------------------------------------
(* A poll of the driver: it reports what it senses, sooner or later.       *)
PollInput ==
  /\ Running /\ ram.connected # Sees(ram.adapter)
  /\ ram' = [ram EXCEPT !.connected = Sees(ram.adapter)]
  /\ UNCHANGED <<persisted, scratch, phase, gate, plugged, plugs, acts>>

(* Mutant: the age has no bound.                                           *)
MutOlder(age, limit) == age + 1

Older(age, limit) == IF age < limit THEN age + 1 ELSE age
Less(left) == IF left > 0 THEN left - 1 ELSE left
Aged(s) ==
  [s EXCEPT !.grace = Less(@), !.nextDetect = Less(@),
            !.downFor = IF s.wasConnected THEN @ ELSE Older(@, DisconnectDelay),
            !.missingFor = IF s.missing THEN Older(@, DisconnectDelay) ELSE @]

Tick ==
  /\ Running /\ Aged(ram) # ram
  /\ ram' = Aged(ram)
  /\ UNCHANGED <<persisted, scratch, phase, gate, plugged, plugs, acts>>

Plug ==
  /\ plugs < MaxPlugs /\ plugs' = plugs + 1
  /\ plugged' \in (Family \cup {NoMode}) \ {plugged}
  /\ UNCHANGED <<ram, persisted, scratch, phase, gate, acts>>

(* The loop of the firmware.                                               *)
Firmware == Boot \/ CheckAutoDetectHotSwap \/ PollInput \/ Tick

-----------------------------------------------------------------------------
(* The output side.                                                        *)
Act == acts < MaxActs /\ acts' = acts + 1 /\ UNCHANGED <<plugged, plugs>>

(* auto_detect_no_data_host_fallback_active: the host goes, or comes back. *)
HostChanges ==
  /\ Running /\ Act
  /\ \/ gate = "probing" /\ gate' = "nodata"
     \/ gate = "nodata" /\ gate' = "probing"
  /\ UNCHANGED <<ram, persisted, scratch, phase>>

(* Mutant: the input mode is not handed on.                                *)
MutOutputVerdict ==
  /\ Running /\ gate = "probing" /\ Act
  /\ Reset(ram, "reenumerate", NoMode)
  /\ UNCHANGED <<persisted, gate>>

(* auto_detect_trigger_reenum: a mode that AUTO found is handed on.        *)
OutputVerdict ==
  /\ Running /\ gate = "probing" /\ Act
  /\ Reset(ram, "reenumerate",
           IF ram.savedDeviceMode = AutoMode /\ ~Waiting(ram) THEN ram.deviceMode ELSE NoMode)
  /\ UNCHANGED <<persisted, gate>>

(* auto_detect_trigger_probe_stage: nothing is handed on.                  *)
OutputProbe ==
  /\ Running /\ gate = "probing" /\ Act
  /\ Reset(ram, "probe", NoMode)
  /\ UNCHANGED <<persisted, gate>>

(* handleN64NsoPlayerCountProfileChange: outside AUTO.                     *)
PlayerCountChanged ==
  /\ Running /\ ~ram.isAutoDetectMode /\ ram.deviceMode \in NsoFamily
  /\ Act /\ Reset(ram, "reenumerate", ram.deviceMode)
  /\ UNCHANGED <<persisted, gate>>

-----------------------------------------------------------------------------
(* People.                                                                 *)
PowerCycle ==
  /\ Act /\ Reset(ram, "power", NoMode)
  /\ UNCHANGED <<persisted, gate>>

ResetTap ==
  /\ Running /\ Act /\ Reset(ram, "person", NoMode)
  /\ UNCHANGED <<persisted, gate>>

(* armAutoDetectReboot; the reboot waits for the release of the button.    *)
ResetHold ==
  /\ Running /\ Act
  /\ Settle([ram EXCEPT !.deviceMode = AutoMode, !.savedDeviceMode = AutoMode,
                        !.isAutoDetectMode = TRUE, !.rebootArmed = TRUE])
  /\ persisted' = AutoMode
  /\ UNCHANGED gate

ResetReleased ==
  /\ Running /\ ram.rebootArmed
  /\ Reset(ram, "person", NoMode)
  /\ UNCHANGED <<persisted, gate, plugged, plugs, acts>>

(* getPersistedInputModeForSave *)
PersistedFor(m) ==
  IF m = ram.deviceMode /\ (ram.savedDeviceMode = AutoMode \/ ram.isAutoDetectMode)
  THEN ram.savedDeviceMode ELSE m

(* applyManualInputModeLive *)
TakenOver(m) ==
  [ram EXCEPT !.deviceMode = m, !.savedDeviceMode = m, !.isAutoDetectMode = FALSE,
              !.grace = 0, !.nextDetect = 0, !.adapter = m, !.connected = Sees(m)]

(* saveModeSettings of the quick menu: a mode chosen by hand is taken over *)
(* live, unless the USB descriptors forbid it; the same mode just applies. *)
SaveQuickMenu(m) ==
  /\ Running /\ Act
  /\ persisted' = PersistedFor(m)
  /\ \/ m # ram.deviceMode /\ m # AutoMode /\ Settle(TakenOver(m))
     \/ /\ m = ram.deviceMode
        /\ Settle([ram EXCEPT !.savedDeviceMode = PersistedFor(m),
                              !.isAutoDetectMode = PersistedFor(m) = AutoMode])
     \/ Reset(ram, "person", NoMode)
  /\ UNCHANGED gate

(* saveSystemMenuAndReboot *)
SaveSystemMenu(m) ==
  /\ Running /\ Act
  /\ persisted' = PersistedFor(m)
  /\ Reset(ram, "person", NoMode)
  /\ UNCHANGED gate

(* WebHID setting 0xFF stores the saved mode, or one of its own, and resets*)
SelectOutput(m) ==
  /\ Running /\ Act
  /\ persisted' \in {m, ram.savedDeviceMode}
  /\ Reset(ram, "person", NoMode)
  /\ UNCHANGED gate

(* WebHID setting 13 changes the saved mode and nothing else.              *)
StageInput(m) ==
  /\ "stage" \in Remote /\ Running /\ Act
  /\ Settle([ram EXCEPT !.savedDeviceMode = m])
  /\ UNCHANGED <<persisted, gate>>

(* The serial command ADBENCH AUTO sends a running device home, whatever   *)
(* is stored, without a change of driver.                                  *)
SerialRedetect ==
  /\ "redetect" \in Remote /\ Running /\ Act
  /\ Settle([ram EXCEPT !.deviceMode = AutoMode, !.savedDeviceMode = AutoMode,
                        !.isAutoDetectMode = TRUE, !.grace = 0, !.reverted = TRUE,
                        !.nextDetect = 0])
  /\ UNCHANGED <<persisted, gate>>

Person ==
  \/ PowerCycle \/ ResetTap \/ ResetHold \/ ResetReleased \/ SerialRedetect
  \/ \E m \in Mode : SaveQuickMenu(m) \/ SaveSystemMenu(m) \/ SelectOutput(m) \/ StageInput(m)

Next ==
  \/ Firmware
  \/ Plug
  \/ HostChanges \/ OutputVerdict \/ OutputProbe \/ PlayerCountChanged
  \/ Person

(* The loop never stops: it polls, checks, boots, and time passes.         *)
Fairness ==
  /\ WF_vars(Boot) /\ WF_vars(CheckAutoDetectHotSwap)
  /\ WF_vars(PollInput) /\ WF_vars(Tick)

Spec == Init /\ [][Next]_vars
FairSpec == Spec /\ Fairness
=============================================================================
