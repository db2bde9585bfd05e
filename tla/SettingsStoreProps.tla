--------------------------- MODULE SettingsStoreProps ---------------------------
(***************************************************************************)
(* What the settings store keeps when the USB interrupt saves between the  *)
(* steps of the loop's own saves and when the power fails.                 *)
(***************************************************************************)
EXTENDS SettingsStore

(* In the flash there is, for every record, and whole: what the last save   *)
(* of it has stored; or, from the moment the loop begins to save it, what  *)
(* it held then, what it is about to hold, or what the interrupt stored in *)
(* it meanwhile.  The interrupt may come between any two steps of the      *)
(* loop's save, and more than once, and take the slot and the generation   *)
(* that the loop has chosen; then one of the saves, or each of them, is    *)
(* lost, but a record never falls back behind what it held when the loop's *)
(* save began, nor becomes a mixture of two slots.  So a power failure     *)
(* outside the programming of the flash never brings back an older record, *)
(* however the saves and earlier power failures followed each other and    *)
(* however often the generations have wrapped.  (The image may be          *)
(* committed by the save of another record even before the header is put,  *)
(* and hold the new record when the slot still has the header of an        *)
(* earlier save of the same value.)  Nothing is claimed of the records     *)
(* that a reset wipes when the interrupt saves during the wiping.          *)
SavesStick ==
    \A r \in Records :
        \/ Value(flash, r) \in recent[r]
        \/ pc \in {"head", "commit"} /\ Current.rec = r /\ Value(flash, r) = draft

(* No save returns with anything left in RAM only: when the loop is not in *)
(* the store, the flash holds the image, although every commit of the      *)
(* interrupt has also committed a save of the loop that was half done.     *)
NothingLeftInRam == pc = "idle" => flash = ram

(* A record that can be read stays readable in the image: whichever steps  *)
(* of the loop's save the interrupt comes between, one of the two slots    *)
(* stays whole.  Only a reset makes a record unreadable, or the end of a   *)
(* save that began when there was nothing to read.                         *)
StaysReadable ==
    [][\A r \in Records : Readable(ram, r) =>
         \/ Readable(ram', r)
         \/ pc = "wipe" /\ r \in Region
         \/ pc \in {"body", "head"} /\ ~found
         \/ pc' = "off"]_vars

(* Whatever a power failure has left in the sector, boot ends with a store *)
(* in which every record it needs can be read and is in the flash.         *)
BootRepairs ==
    [][~up /\ up' => \A r \in Records : Readable(flash', r) /\ flash' = ram']_vars
=============================================================================
