-------------------------- MODULE MCControllerFrames --------------------------
(***************************************************************************)
(* The instances of ControllerFrames that TLC checks.                      *)
(***************************************************************************)
EXTENDS ControllerFramesProps

CONSTANTS a, b

NoRemap == [x \in {a, b, Home, Capture} |-> x]
Swap == [NoRemap EXCEPT ![a] = b, ![b] = a]

Plain == [pads |-> {a, b}, everyPoll |-> FALSE, switchPro |-> FALSE, remap |-> NoRemap,
          turboHeld |-> {}, turboLatched |-> {}, homeCombo |-> {}, captureCombo |-> {}]

(* An adapter that asks on every poll, with everything set up. *)
Held == [Plain EXCEPT !.everyPoll = TRUE, !.remap = Swap, !.turboHeld = {b},
                      !.homeCombo = {a, b}, !.captureCombo = {a}]
Latched == [Plain EXCEPT !.pads = {a}, !.everyPoll = TRUE, !.remap = Swap,
                         !.turboLatched = {b}]

(* One that asks when something has changed, with nothing set up. *)
Changes == Plain

(* The Switch Pro output, whose host asks from the interrupt. *)
SwitchPro == [Plain EXCEPT !.everyPoll = TRUE, !.switchPro = TRUE, !.remap = Swap,
                           !.homeCombo = {a, b}]

Sound == {Held, Latched, Changes, SwitchPro}
Swapped == {[Plain EXCEPT !.remap = Swap]}
=============================================================================
