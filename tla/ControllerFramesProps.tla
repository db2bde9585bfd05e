------------------------- MODULE ControllerFramesProps -------------------------
(***************************************************************************)
(* What the way of the buttons to the host keeps.                          *)
(***************************************************************************)
EXTENDS ControllerFrames

(* Transforms start from the pad: what is remapped, tested for hotkeys and *)
(* fed to turbo is what the adapter last read.  The code says "Keep        *)
(* held-button transforms idempotent between polls so remap/turbo never    *)
(* feeds back into itself" (controller_runtime_output_finalize.cpp:282).   *)
StartsFromPhysical ==
    \A p \in Port : read[p].there => pre[p] = read[p].held

(* What a port is to be told: the pad's buttons as preparing its frame now *)
(* would give them, and nothing while a menu is open or the pad is gone.   *)
Hidden(p) == menu \/ ~read[p].there
Due(p) == IF Hidden(p) THEN {} ELSE Drawn(pre[p], hot[p], turbo[p])

(* No change is lost: a port that asks for no delivery has sent what it is *)
(* to be told, through every order of polls, busy endpoints, pulled pads   *)
(* and open menus.  Turbo at work and the menus that opened or closed      *)
(* since the last report are the exceptions, and so is the Switch Pro      *)
(* output, whose host asks from the interrupt, after the loop has found    *)
(* nothing to prepare.                                                     *)
HostIsCurrent ==
    ~setup.switchPro =>
        \A p \in Port \ (needs \cup moved) :
            Hidden(p) \/ turbo[p].raw = {} => sent[p] = Due(p)

(* While a menu is open the host is told nothing of the buttons that work  *)
(* the menu: a report is a neutral one, whatever the output but the Switch *)
(* Pro, whose host asks from the interrupt.                                *)
MenuIsSilent ==
    [][menu /\ pc = "send" /\ ~setup.switchPro
         => \A p \in Port : read[p].there => sent'[p] \in {sent[p], {}}]_vars

(* When a pad has been let go for good, its host sees nothing pressed in   *)
(* the end, whatever turbo, hotkeys, remap and menus did with the buttons  *)
(* meanwhile; only turbo that a press has latched goes on.                 *)
ReleaseArrives ==
    \A p \in Port :
        <>[](pad[p].held = {} /\ turbo[p].latched = {}) => <>[](sent[p] = {})
=============================================================================
