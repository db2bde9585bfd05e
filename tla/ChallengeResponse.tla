--------------------------- MODULE ChallengeResponse ---------------------------
(***************************************************************************)
(* What a console is promised by a device that answers challenges: each    *)
(* challenge is answered from the first page on, in order, and every page  *)
(* is a page of the answer to that challenge and to no other.              *)
(***************************************************************************)
EXTENDS Naturals, Sequences

CONSTANT Answer(_, _) \* page i of the answer to challenge c

VARIABLES
    challenge, \* the challenge the console poses
    told       \* the pages of the answer it has been told

Init == challenge = 0 /\ told = <<>>

(* The console poses the next challenge. *)
Ask == challenge' = challenge + 1 /\ told' = <<>>

(* It is told the next page of the answer. *)
Tell == told' = Append(told, Answer(challenge, Len(told))) /\ UNCHANGED challenge

Next == Ask \/ Tell

Spec == Init /\ [][Next]_<<challenge, told>>
=============================================================================
