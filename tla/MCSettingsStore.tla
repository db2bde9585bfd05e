--------------------------- MODULE MCSettingsStore ---------------------------
(***************************************************************************)
(* The instances of SettingsStore that TLC checks.                         *)
(***************************************************************************)
EXTENDS SettingsStoreProps

CONSTANTS f1, f2

(* The menu changes the first setting and has the second one as it was     *)
(* when the menu was opened.                                               *)
Menus == {[f \in {f1, f2} |-> IF f = f1 THEN v ELSE 0] : v \in {0, 1}}
=============================================================================
