---- MODULE MCOutputAutoDetect ----
(***************************************************************************)
(* Instances of OutputAutoDetect.  The delays keep the order of the code's *)
(* and are as short as that order allows.                                  *)
(***************************************************************************)
EXTENDS OutputAutoDetectProps

(* One request for each kind of trace.  Left out: vendor and xid, which     *)
(* settle the matter as xsm3 does; ms_os_string, which rules a plain host   *)
(* out as compat_id does; set_F5, short for get_F2 and get_F5; get_other    *)
(* and set_EF, which leave less than get_F2.                                *)
HostRequests == {"manufacturer", "hid_report", "get_03", "get_F2", "get_F5",
                 "xsm3", "compat_id", "clear_in", "clear_out"}
MixedRequests       == {"get_03", "compat_id"}
AutoOnly    == {"AUTO"}
Selections  == {"AUTO", "SWITCHPRO", "HID"}
DefaultPreference == {0}
TwoPreferences    == {0, 1}

(***************************************************************************)
(* A device on a charger: hosts and controllers may come, and nobody       *)
(* presses a button, opens a menu, sends a command or takes the power.     *)
(***************************************************************************)
LeftAloneSpec == Init /\ [][Tick \/ Host \/ Device]_vars
====
