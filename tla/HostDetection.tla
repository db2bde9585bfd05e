---- MODULE HostDetection ----
(***************************************************************************)
(* What the device remembers of the requests a USB host makes while it is  *)
(* being probed, and how those requests rank:                              *)
(* firmware/output/autodetect/usb_detect_runtime.cpp.                      *)
(*                                                                         *)
(* The packed record host_detection becomes three sets: the result flags,  *)
(* the part of the PS3 feature train that was seen, and the remaining      *)
(* one-bit observations.                                                   *)
(***************************************************************************)
EXTENDS Naturals

DetectFlag == {"PS3", "WINDOWS", "PS4", "OGXBOX", "XBOX360", "SWITCH1"}

FeatureBit == {"F2", "F5", "SET_F5"}

Observation == {"cleared_input", "cleared_output", "manufacturer", "hid_report",
                "ms_os_string", "vendor_setup", "ps3_feature"}

Record == [any : SUBSET DetectFlag, features : SUBSET FeatureBit, seen : SUBSET Observation]

NoObservation == [any |-> {}, features |-> {}, seen |-> {}]

(***************************************************************************)
(* The requests that reach a handler.  A request outside this list is      *)
(* served by the USB stack and leaves no trace here.                       *)
(***************************************************************************)
EnumerationRequest == {"manufacturer", "ms_os_string", "xsm3", "compat_id", "xid", "vendor"}

InterfaceRequest == {"hid_report", "clear_in", "clear_out", "get_03", "get_F2", "get_F5",
                     "get_other", "set_F5", "set_EF"}

Request == EnumerationRequest \cup InterfaceRequest

Observe(h, obs) == [h EXCEPT !.seen = @ \cup {obs}]

Mark(h, flag) == [h EXCEPT !.any = @ \cup {flag}]

(* Mutant: half a train is enough.                                         *)
MutTrainComplete(h) == h.features # {}

(* A complete DS3 train is two GETs, or the one SET.                       *)
TrainComplete(h) == {"F2", "F5"} \subseteq h.features \/ "SET_F5" \in h.features

(* Linux binds hid-sony to the Sony-shaped probe and asks the same reports *)
(* after it has read the manufacturer string.                              *)
FeatureAllowed(h, stage) == stage # "PS3" \/ "manufacturer" \notin h.seen

NotePs3Feature(h, bits, stage) ==
  LET noted == [h EXCEPT !.seen = @ \cup {"ps3_feature"}, !.features = @ \cup bits]
  IN  IF FeatureAllowed(noted, stage) /\ TrainComplete(noted)
        THEN Mark(noted, "PS3") ELSE noted

(* The record after one request, while detection runs.                     *)
AfterRequest(h, req, stage) ==
  CASE req \in {"manufacturer", "hid_report", "ms_os_string"} -> Observe(h, req)
    [] req = "clear_in"  -> Observe(h, "cleared_input")
    [] req = "clear_out" -> Observe(h, "cleared_output")
    [] req = "get_03"    -> Mark(h, "PS4")
    [] req = "get_F2"    -> NotePs3Feature(h, {"F2"}, stage)
    [] req = "get_F5"    -> NotePs3Feature(h, {"F5"}, stage)
    [] req = "set_F5"    -> NotePs3Feature(h, {"F5", "SET_F5"}, stage)
    [] req \in {"get_other", "set_EF"} -> NotePs3Feature(h, {}, stage)
    [] req = "xsm3"      -> Mark(h, "XBOX360")
    [] req = "compat_id" -> Mark(Observe(h, "vendor_setup"), "WINDOWS")
    [] req = "xid"       -> Mark(Observe(h, "vendor_setup"), "OGXBOX")
    [] OTHER             -> Mark(Observe(h, "vendor_setup"), "XBOX360")

(* The requests that restart the post-signal quiet period.                 *)
IsSignal(req) == req \notin {"manufacturer", "hid_report", "ms_os_string", "clear_in", "clear_out"}

(***************************************************************************)
(* Ranking.  Signals of different hosts overlap, so the resolver takes the *)
(* flag with the lowest rank.                                              *)
(***************************************************************************)
Rank(flag) == CASE flag = "XBOX360" -> 1 [] flag = "OGXBOX"  -> 2 [] flag = "PS3"     -> 3
                [] flag = "PS4"     -> 4 [] flag = "SWITCH1" -> 5 [] OTHER            -> 6

ResolveFlags(flags) ==
  IF flags = {} THEN "NONE" ELSE CHOOSE f \in flags : \A g \in flags : Rank(f) <= Rank(g)

(* Flags that settle the matter before the host has configured the device. *)
PremountFlag == {"PS3", "OGXBOX", "XBOX360"}

(* A generic HID host: strings and report descriptor were read.            *)
GenericHidActivity(h) == {"manufacturer", "hid_report"} \subseteq h.seen

(* No flag yet and none of the observations that rule a plain host out.    *)
Unmarked(h) ==
  h.any = {} /\ h.seen \cap {"ms_os_string", "vendor_setup", "ps3_feature"} = {}

SwitchCandidate(h) == Unmarked(h) /\ {"cleared_input", "cleared_output"} \subseteq h.seen

(* A train that completed before the manufacturer read is taken back.      *)
RejectLinuxPs3(h, stage) ==
  IF stage = "PS3" /\ "manufacturer" \in h.seen
    THEN [h EXCEPT !.any = @ \ {"PS3"}] ELSE h
====
