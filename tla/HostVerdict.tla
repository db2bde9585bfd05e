---- MODULE HostVerdict ----
(***************************************************************************)
(* What AUTO output promises to the outside: it forms one opinion of its   *)
(* host, after at most one extra probe, and keeps it through every reboot  *)
(* until something outside the detector intervenes.                        *)
(***************************************************************************)
EXTENDS Naturals

CONSTANTS
  Nothing,    \* no opinion
  Plain,      \* the opinion that the host is a generic one
  Opinion     \* all opinions, Nothing among them

VARIABLES
  known,          \* the opinion of the host
  assisted,       \* the extra probe is under way
  interventions   \* what people, controllers and power have done so far

vars == <<known, assisted, interventions>>

Init == known = Nothing /\ ~assisted /\ interventions = 0

(* The first probe was not enough: a second one, once.                     *)
Assist ==
  /\ known = Nothing /\ ~assisted
  /\ assisted' = TRUE
  /\ UNCHANGED <<known, interventions>>

Decide ==
  /\ known = Nothing
  /\ known' \in Opinion \ {Nothing}
  /\ assisted' = FALSE
  /\ UNCHANGED interventions

(* An intervention may clear the opinion, or make a device that has none   *)
(* take its host for a plain one.  It never turns one opinion into another.*)
Intervene ==
  /\ interventions' = interventions + 1
  /\ known' \in {known, Nothing} \/ (known = Nothing /\ known' = Plain)
  /\ assisted' \in BOOLEAN

Next == Assist \/ Decide \/ Intervene

Spec == Init /\ [][Next]_vars
====
