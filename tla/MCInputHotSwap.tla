-------------------------- MODULE MCInputHotSwap --------------------------
(***************************************************************************)
(* Instances of InputHotSwap for TLC.  Each family stands for those that   *)
(* take the same branches:                                                 *)
(*   snes     quick scan, its driver runs at home (SNES, NES, Virtual Boy) *)
(*   n64      full scan, Joybus, needs USB slots (N64, GameCube)           *)
(*   saturn   full scan, confirmation by its driver, multitap              *)
(*   jpc      assisted, on the bus of saturn (JPC, SMS, Jaguar, driving)   *)
(*   neogeo   assisted, latched by every scan                              *)
(***************************************************************************)
EXTENDS InputHotSwapProps

AllFamilies == {"snes", "n64", "saturn", "jpc", "neogeo"}
Classic == {"snes", "n64", "jpc"}
Held == {"snes", "neogeo"}

Home == "snes"
Snes == {"snes"}
N64 == {"n64"}
Saturn == {"saturn"}
Slots == {"n64", "saturn"}
Jpc == {"jpc"}
Neogeo == {"neogeo"}
Assisted == {"jpc", "neogeo"}
None == {}
Both == {"stage", "redetect"}
=============================================================================
