---- MODULE OutputModes ----
(***************************************************************************)
(* The output personalities of a Classic2USB build and the preferences     *)
(* that AUTO resolves a host to: firmware/output/output_runtime_state.cpp. *)
(*                                                                         *)
(* The shipped build is modelled: the two XInput2P family outputs are      *)
(* compiled in, native PS5 and Xbox One outputs are not.  The three        *)
(* specialized PSX descriptors (JogCon, neGcon, GunCon) are treated alike  *)
(* everywhere in the code modelled here, so one name stands for them.      *)
(***************************************************************************)
EXTENDS Naturals

Mister     == "MISTER"
MisterPsx  == "MISTER_PSX"
AutoOutput == "AUTO"

OutputMode == {"HID", Mister, MisterPsx, "XINPUT", "XINPUTW", "XINPUT2P", "XID", "KEYBOARD",
               "PS3", "PS4", "PS5", "SWITCHPRO", "XBOXONE", AutoOutput}

(* A mode the device can run.  AUTO is a selection, never a personality.   *)
RuntimeMode == OutputMode \ {AutoOutput, "PS5", "XBOXONE"}

(* Build policy for a stored selection; AUTO stays AUTO.                   *)
SanitizeConfigured(mode) == IF mode = "PS5" THEN "PS4" ELSE mode

(* Build policy for the personality to run.                                *)
SanitizeRuntime(mode) ==
  IF mode \in {AutoOutput, "XBOXONE"} THEN Mister ELSE SanitizeConfigured(mode)

(* Saved preferences: 0 is DInput, 1 XInput, 2 keyboard.                   *)
Preference == 0..2

WindowsOutput(pref) == CASE pref = 0 -> "HID"
                         [] pref = 2 -> "KEYBOARD"
                         [] OTHER    -> "XINPUTW"

MisterOutput(pref) == CASE pref = 2 -> "KEYBOARD"
                        [] pref = 1 -> "XINPUT2P"
                        [] OTHER    -> Mister

(* A specialized PSX descriptor refines the MiSTer DInput preference.      *)
MisterPreferenceAccepts(pref, mode) ==
  \/ mode = MisterOutput(pref)
  \/ MisterOutput(pref) = Mister /\ mode = MisterPsx

(***************************************************************************)
(* What AUTO can have concluded.  The PS5 and PLAYSTATION states of the    *)
(* enumeration need a build with native PS5 output and are left out.       *)
(***************************************************************************)
Idle       == "IDLE"
Fallback   == "FALLBACK_HID"
AutoState  == {Idle, "PS3", "WINDOWS", "PS4", "OG_XBOX", "XBOX_360", "SWITCH", Fallback}

ProbeStage == {"GENERIC", "PS3"}

(* Mutant: the generic probe runs under the selection itself.              *)
MutProbeOutput(stage) == IF stage = "PS3" THEN "PS3" ELSE AutoOutput

(* The personality that a probe stage presents to the host.                *)
ProbeOutput(stage) == IF stage = "PS3" THEN "PS3" ELSE Mister
====
