----------------------------- MODULE Ps4AuthProps -----------------------------
(***************************************************************************)
(* What the challenge-response of Ps4Auth promises a console, and what it  *)
(* keeps when the console is hasty.                                        *)
(***************************************************************************)
EXTENDS Ps4Auth

(* Page i of the answer to challenge c. *)
AnswerPage(c, i) == IF i \in SignaturePage THEN Signature(Whole(c)) ELSE Certificate

Abstract == INSTANCE ChallengeResponse WITH
    Answer <- AnswerPage,
    challenge <- posed,
    told <- IF calm THEN answer ELSE <<>>

(* A challenge whose first page arrives while nothing is being signed is   *)
(* answered from page 0 on, in order, by pages of the signature of exactly *)
(* this challenge, however often its pages are repeated, whatever the      *)
(* console did before (a reset during a signing, a challenge dropped half  *)
(* way) and wherever the callbacks interrupt process().                    *)
AnswersChallenge == Abstract!Spec

(* A complete nonce is never forgotten: while the state says that it is    *)
(* being signed, the loop is asked to sign it or is signing, so no sequence *)
(* of resets, restarts and repeated pages leaves the console polling a     *)
(* signature that nobody makes.                                            *)
SigningIsUnderWay == state = "SIGNING" => pending \/ loop # "idle"

(* While an answer is offered and none is being made, all its pages come   *)
(* from one signature: a second signing that a hasty console started may   *)
(* have spoilt the pages it read meanwhile but leaves no mixture behind.   *)
OfferIsWhole ==
    state = "READY" /\ loop = "idle" =>
        \E n \in Nonces : \A p \in SignaturePage : buffer[p] = Signature(n)

(* A page that is offered is a page of the answer buffer: getAuthPage does *)
(* not test its counter before it copies from the buffer, so the counter   *)
(* must be in range in every state in which a callback can find READY.     *)
PageInBuffer == state = "READY" => page < AuthPages

(* The steps that process() still has to make: for the signature under     *)
(* way, and for the one that is asked for.                                 *)
Owed ==
    (CASE loop = "idle" -> 0 [] loop = "hashing" -> NoncePages - at + 3
       [] loop = "padding" -> 3 [] loop = "signing" -> 2 [] loop = "complete" -> 1)
    + (IF pending THEN NoncePages + 4 ELSE 0)

(* With a key that signs, a console that waits is told that an answer is   *)
(* ready, or the loop has steps to make: its pages have not been dropped   *)
(* on the way, whatever it did before and whichever signature ended while  *)
(* they arrived.                                                           *)
WaitHasWork == keySigns /\ asking = "waiting" => SaysReady \/ Owed > 0

(* Nothing prolongs a wait: while the console waits, every step is one of  *)
(* those the loop owes.  With WaitHasWork this bounds the wait by the      *)
(* steps of two signatures.                                                *)
WaitShrinks == [][asking = "waiting" /\ asking' = "waiting" => Owed' < Owed]_vars

(* With a key that signs, a console that has written its challenge and     *)
(* keeps polling is told at some time that an answer is ready.             *)
WaitEnds == keySigns /\ asking = "waiting" ~> asking # "waiting"
=============================================================================
