---------------------------- MODULE InputSession ----------------------------
(***************************************************************************)
(* What the input side promises to somebody who watches which controller   *)
(* family is in use, across the resets that USB re-enumeration needs.  A   *)
(* session begins with what is stored.  If that is AUTO, the session finds *)
(* a family from home only and leaves it for home only; a family that is   *)
(* fixed, by a selection or a latch, is not left.  The firmware ends no    *)
(* session of its own accord.                                              *)
(***************************************************************************)
EXTENDS Naturals

CONSTANTS
  Home,    \* no family is in use: AUTO waits
  Family   \* the controller families

VARIABLES
  on,      \* a session is under way, also while the device re-enumerates
  family,  \* the family in use, or Home
  fixed,   \* the family does not change with what is plugged
  stored,  \* what the next session begins with
  asked,   \* a person has asked for a restart that is still to come
  acts     \* what people and the output side have done so far

vars == <<on, family, fixed, stored, asked, acts>>

Choice == Family \cup {Home}

Init ==
  /\ ~on /\ family = Home /\ ~fixed /\ stored \in Choice
  /\ ~asked /\ acts = 0

(* The firmware stores nothing and does not ask for a restart.             *)
Unaided == UNCHANGED <<stored, acts>> /\ (asked' => asked)

(* A session begins with what is stored, or at once with a controller that *)
(* was looked up before USB came up.                                       *)
Start ==
  /\ ~on /\ on'
  /\ family' = stored \/ (stored = Home /\ family' \in Family)
  /\ fixed' <=> stored # Home
  /\ Unaided

Find ==
  /\ on /\ on' /\ ~fixed /\ family = Home
  /\ family' \in Family
  /\ Unaided

Leave ==
  /\ on /\ on' /\ ~fixed /\ family # Home
  /\ family' = Home /\ ~fixed'
  /\ Unaided

(* Scans without a result, refused pads, and re-enumerations.              *)
Stay == (on' <=> on) /\ (fixed' <=> fixed) /\ family' = family /\ Unaided

Restart ==
  /\ on /\ asked
  /\ ~on' /\ family' = Home /\ ~fixed'
  /\ Unaided

(* People and the output side may do what they like, but nobody can store  *)
(* a family and leave the session open to others, and an open session goes *)
(* from one family to another only if that one is stored, too.             *)
Intervene ==
  /\ acts' = acts + 1
  /\ family' \in Choice /\ stored' \in Choice
  /\ on' /\ stored' # Home => fixed'
  /\ on /\ on' /\ ~fixed /\ stored' = stored => family' \in {family, Home}

Next == Start \/ Find \/ Leave \/ Stay \/ Restart \/ Intervene

Spec == Init /\ [][Next]_vars
=============================================================================
