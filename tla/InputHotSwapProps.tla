------------------------- MODULE InputHotSwapProps -------------------------
(***************************************************************************)
(* What the input side promises, and what its documentation claims.        *)
(***************************************************************************)
EXTENDS InputHotSwap

(* The type invariant.                                                     *)
TypeOK ==
  /\ ram \in Memory
  /\ persisted \in Mode /\ scratch \in Mode \cup {NoMode}
  /\ phase \in Phase /\ gate \in Gate
  /\ plugged \in Family \cup {NoMode}
  /\ plugs \in 0..MaxPlugs /\ acts \in 0..MaxActs

(* A mode is handed over a reset only by a re-enumeration, and by one      *)
(* reset: a running device, a person's restart, a probe and a power cycle  *)
(* leave nothing in the registers that a later boot could take up.         *)
HandOffOnlyForReenumeration == phase # "reenumerate" => scratch = NoMode

(* A controller selected by hand and stored stops the hot swap, whatever   *)
(* was detected, latched, staged or handed over before: unplugging it for  *)
(* any time does not let another family take its place.                    *)
StoredSelectionStopsHotSwap ==
  Running /\ persisted # AutoMode => ~ram.isAutoDetectMode

(* The mode in use and the driver that polls agree, in spite of six places *)
(* that set one or both of them.                                           *)
DriverFitsMode ==
  Running /\ ~Waiting(ram) => ram.adapter = ram.deviceMode

(* A device that waits at home always listens: there is no state in which  *)
(* AUTO is shown and no controller will ever be looked for.                *)
HomeListens == Running /\ Waiting(ram) => ram.isAutoDetectMode

(* The session that somebody sees: it outlasts a re-enumeration, in which  *)
(* its family is in the registers, or else is what is stored.              *)
Lasting == phase \in {"running", "reenumerate"}
InUse ==
  IF ~Lasting THEN AutoMode
  ELSE IF Running THEN ram.deviceMode
  ELSE IF scratch # NoMode THEN scratch ELSE persisted
Fixed == Lasting /\ (IF Running THEN ~ram.isAutoDetectMode ELSE persisted # AutoMode)

Session == INSTANCE InputSession WITH
  Home <- AutoMode, on <- Lasting, family <- InUse, fixed <- Fixed, stored <- persisted,
  asked <- Lasting /\ ram.rebootArmed

(* The hot swap implements InputSession: in whatever order scans, polls,   *)
(* unplugging, misses, latches and re-enumerations come, an AUTO session   *)
(* changes its family only by way of home, where the drivers' lines are    *)
(* released; it comes out of every reset that the firmware makes with the  *)
(* family it went in with, open or fixed as before; and a family that is   *)
(* selected or latched stays until a person or the output side acts.       *)
KeepsSession == Session!Spec

(* A controller in use and present is never dropped by the firmware: not   *)
(* by a scan, not by a re-enumeration for its own player count, not by the *)
(* reboot in which AUTO settles the output.                                *)
PresentIsKept ==
  [][ /\ {phase, phase'} \subseteq {"running", "reenumerate"}
      /\ ram.isAutoDetectMode /\ plugged # NoMode /\ ram.deviceMode = plugged
      /\ ram.connected /\ plugged' = plugged /\ persisted' = persisted
      /\ ~ram'.rebootArmed
      => ram'.deviceMode = ram.deviceMode ]_vars

(* Nobody acts, and the device keeps out of the hands of output detection. *)
LeftAlone ==
  /\ Lasting' /\ gate' # "probing"
  /\ acts' = acts /\ plugged' = plugged

(* An AUTO session whose controller is gone, or is of another family.      *)
Lost ==
  /\ Lasting /\ ram.isAutoDetectMode /\ gate # "probing"
  /\ ~Waiting(ram) /\ ~Sees(ram.deviceMode)

(* What a lost session has still to wait for: without a host, until the    *)
(* controller counts as missing; then, until it counts as disconnected.    *)
Undeferred ==
  IF gate # "nodata" THEN 0
  ELSE IF ram.missing /\ ram.missingMode = ram.deviceMode
       THEN DisconnectDelay - ram.missingFor
       ELSE DisconnectDelay + 1

Undecided ==
  IF ~ram.initialized THEN DisconnectDelay + 2
  ELSE IF ram.wasConnected THEN 1
  ELSE DisconnectDelay + 1 - ram.downFor

TillHome ==
  LET most == GracePeriod + 2 * DisconnectDelay + 3
  IN  IF ~Running THEN most + 1
      ELSE IF ram.connected THEN most + 2
      ELSE ram.grace + Undeferred + Undecided

(* The step of the loop that it waits for.                                 *)
DueToLeave ==
  IF ~Running THEN Boot
  ELSE IF ram.connected THEN PollInput
  ELSE IF \/ ram.grace > 0
          \/ Undeferred \in 1..DisconnectDelay
          \/ Undeferred = 0 /\ Undecided \in 2..(DisconnectDelay + 1)
       THEN Tick
  ELSE CheckAutoDetectHotSwap

(* A lost session goes nowhere but home, and gets ever closer to it while  *)
(* nobody acts: no order of polls, passes, re-enumerations and time starts *)
(* a delay again, and the step that it waits for brings it closer or home. *)
LostComesHome ==
  [][ Lost /\ LeftAlone
      => \/ ram'.deviceMode = AutoMode
         \/ /\ Lost' /\ TillHome' <= TillHome
            /\ DueToLeave => TillHome' < TillHome ]_vars

(* An AUTO session at home, and a controller of an active protocol.        *)
Sought ==
  /\ Lasting /\ ram.isAutoDetectMode /\ gate # "probing"
  /\ Waiting(ram) /\ plugged \in Active

(* How far it is from being found: first what has to be noticed, then the  *)
(* quick misses until the full scan is due, then the time until a scan is. *)
Stale == ram.connected # Sees(ram.adapter)
ScanTime ==
  IF ram.connected THEN (IF ram.wasConnected THEN ram.nextDetect ELSE 0)
  ELSE IF ram.reverted THEN ram.nextDetect
  ELSE ram.nextDetect + (DisconnectDelay - ram.downFor)

TillFound ==
  IF ~Running THEN <<4, 0, 0>>
  ELSE IF Stale THEN <<3, 0, 0>>
  ELSE IF ram.connected THEN <<0, 0, ScanTime>>
  ELSE IF ~ram.initialized THEN <<2, 0, 0>>
  ELSE IF ram.wasConnected THEN <<1, 0, 0>>
  ELSE <<0, FullScanEvery - ram.quickMisses, ScanTime>>

(* Lexicographic order.                                                    *)
Closer(p, q) ==
  \/ p[1] < q[1]
  \/ p[1] = q[1] /\ p[2] < q[2]
  \/ p[1] = q[1] /\ p[2] = q[2] /\ p[3] < q[3]

DueToFind ==
  IF ~Running THEN Boot
  ELSE IF Stale THEN PollInput
  ELSE IF TillFound[1] = 0 /\ ScanTime > 0 THEN Tick
  ELSE CheckAutoDetectHotSwap

(* A device at home finds the controller that is plugged and no other, and *)
(* gets ever closer to it while nobody acts: no order of polls, passes and *)
(* misses puts the full scan off for ever.                                 *)
SoughtIsFound ==
  [][ Sought /\ LeftAlone
      => \/ ram'.deviceMode = plugged
         \/ /\ Sought'
            /\ TillFound' = TillFound \/ Closer(TillFound', TillFound)
            /\ DueToFind => Closer(TillFound', TillFound) ]_vars

(* A controller that stays plugged is found and kept, whatever happened    *)
(* before, unless an assisted mode is in use, which is not given up.       *)
AutoFindsController ==
  \A c \in Active :
    <>[](plugged = c /\ ram.isAutoDetectMode /\ gate # "probing"
           /\ ram.deviceMode \notin AssistedFamily)
      => <>[](ram.deviceMode = c)

(* A connector that stays empty brings a resolved AUTO session home, so    *)
(* that the next controller can be of any family.                          *)
UnpluggedGoesHome ==
  <>[](plugged = NoMode /\ ram.isAutoDetectMode /\ gate # "probing"
         /\ ram.deviceMode \notin AssistedFamily)
    => <>[](ram.deviceMode = AutoMode)

-----------------------------------------------------------------------------
(* A claim of the documentation that the code does not keep.              *)

(* "Assisted-detect modes are latched after detection. If an               *)
(* assisted-detect controller is unplugged, restart Classic2USB to return  *)
(* to Auto input detection" (docs/classic2usb/Classic2USB.md:249): what    *)
(* detection latched is not stored as if it had been selected.             *)
RestartReturnsToAuto ==
  [][ Running /\ persisted = AutoMode /\ ram.deviceMode \in AssistedFamily
      => persisted' # ram.deviceMode ]_vars
=============================================================================
