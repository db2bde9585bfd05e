------------------------------- MODULE Ps4Auth -------------------------------
(***************************************************************************)
(* The PS4 challenge-response with a stored key (class PS4Auth): the       *)
(* console writes a nonce page by page (SET_REPORT F0), the main loop      *)
(* signs it for some 150 ms, the console polls (GET_REPORT F2) and reads   *)
(* the answer page by page (GET_REPORT F1); GET_REPORT F3 resets.          *)
(*                                                                         *)
(* Two actors share the object.  The loop runs process(), in the steps of  *)
(* Process.  The USB callbacks run in a soft interrupt that the vendored   *)
(* TinyUSB port pends from the USB controller's interrupt, so each one may *)
(* come between any two steps of the loop and itself runs whole.           *)
(* The console is free: it may give up, repeat, reset or start again at    *)
(* any moment, and a response may be lost on its way to it.                *)
(***************************************************************************)
EXTENDS Naturals, Sequences

CONSTANTS
    NoncePages,     \* pages of a challenge (PS4_NONCE_PAGES, 5 in the code)
    SignaturePages, \* pages of the answer that hold bytes of the signature (5)
    AuthPages,      \* pages of the answer (PS4_AUTH_PAGES, 19)
    NonceIds,       \* identifiers the console gives its challenges
    MaxChallenges   \* bound: challenges the console poses

ASSUME PagesAssumption ==
    /\ NoncePages \in Nat \ {0}
    /\ SignaturePages \in Nat
    /\ AuthPages \in Nat \ {0}
    /\ SignaturePages <= AuthPages
    /\ MaxChallenges \in Nat

NoncePage == 0 .. NoncePages - 1
SignaturePage == 0 .. SignaturePages - 1

(* What a page of the nonce holds: the number of the challenge it came     *)
(* from, or 0 after the memset.  Only a whole challenge c hashes to the    *)
(* value whose signature the console accepts for c.                        *)
Nonces == [NoncePage -> 0 .. MaxChallenges]
Whole(c) == [p \in NoncePage |-> c]

(* What a page of the answer holds: bytes of the signature of a nonce, the *)
(* padding the engine works on in place, the key's own certificate (the    *)
(* same in every answer), or zeros when there is no answer.                *)
Bytes(what, n) == [what |-> what, nonce |-> n]
Signature(n) == Bytes("signature", n)
Padding == Bytes("padding", Whole(0))
Certificate == Bytes("certificate", Whole(0))
Blank == Bytes("blank", Whole(0))
Pages == [what : {"signature", "padding", "certificate", "blank"}, nonce : Nonces]

VARIABLES
    keySigns, \* whether the signing engine takes the stored key
    state,    \* _state
    pending,  \* _sign_pending
    nonceId,  \* _nonce_id
    received, \* _nonce_pages_received, as the set of its bits
    nonce,    \* _nonce
    page,     \* _cur_auth_page
    buffer,   \* the pages of _auth_buffer that hold the signature
    loop,     \* where process() stands
    hashed,   \* the nonce as the hash has read it
    at,       \* pages hashed so far
    posed,    \* challenges posed so far; the last one is the current one
    id,       \* its identifier
    asking,   \* what the console is doing
    sent,     \* pages of the challenge written so far
    answer,   \* pages of the answer taken so far
    calm      \* no signing was under way when its first page was written

device == <<keySigns, state, pending, nonceId, received, nonce, page>>
signing == <<buffer, loop, hashed, at>>
console == <<posed, id, asking, sent, answer, calm>>
vars == <<device, signing, console>>

States == {"IDLE", "RECEIVING_NONCE", "SIGNING", "READY"}
LoopSteps == {"idle", "hashing", "padding", "signing", "complete"}
Asking == {"nothing", "writing", "waiting", "reading"}

(* Every variable has its type. *)
TypeOK ==
    /\ keySigns \in BOOLEAN
    /\ state \in States
    /\ pending \in BOOLEAN
    /\ nonceId \in NonceIds
    /\ received \in SUBSET NoncePage
    /\ nonce \in Nonces
    /\ page \in 0 .. AuthPages
    /\ buffer \in [SignaturePage -> Pages]
    /\ loop \in LoopSteps
    /\ hashed \in Nonces
    /\ at \in 0 .. NoncePages
    /\ posed \in 0 .. MaxChallenges
    /\ id \in NonceIds
    /\ asking \in Asking
    /\ sent \in 0 .. NoncePages
    /\ answer \in Seq(Pages)
    /\ calm \in BOOLEAN

(* After begin(): the key is loaded and nothing has been asked. *)
Init ==
    /\ keySigns \in BOOLEAN
    /\ state = "IDLE" /\ pending = FALSE /\ received = {} /\ page = 0
    /\ nonce = Whole(0) /\ buffer = [p \in SignaturePage |-> Blank]
    /\ loop = "idle" /\ hashed = Whole(0) /\ at = 0
    /\ nonceId \in NonceIds /\ id \in NonceIds
    /\ posed = 0 /\ asking = "nothing" /\ sent = 0 /\ answer = <<>>
    /\ calm = FALSE

-----------------------------------------------------------------------------
(* The USB callbacks on the device's side. *)

(* Mutant: the last page does not ask for the signature. *)
MutStoreNoncePage(p, c, before, had, wanted) ==
    /\ nonce' = [before EXCEPT ![p] = c]
    /\ received' = had \union {p}
    /\ state' = IF had \union {p} = NoncePage THEN "SIGNING" ELSE "RECEIVING_NONCE"
    /\ pending' = wanted

(* The end of receiveNoncePage: page p of challenge c goes into `before`,  *)
(* of which the pages `had` are in; the last one asks for the signature.   *)
StoreNoncePage(p, c, before, had, wanted) ==
    LET full == had \union {p} = NoncePage
    IN  /\ nonce' = [before EXCEPT ![p] = c]
        /\ received' = had \union {p}
        /\ state' = IF full THEN "SIGNING" ELSE "RECEIVING_NONCE"
        /\ pending' = (full \/ wanted)

(* Mutant: the first page does not forget the pages that came before it. *)
MutReceiveNoncePage(n, p, c) ==
    /\ UNCHANGED <<keySigns, page>>
    /\ \/ /\ p = 0
          /\ nonceId' = n
          /\ StoreNoncePage(0, c, nonce, received, FALSE)
       \/ /\ p # 0 /\ state = "RECEIVING_NONCE" /\ n = nonceId
          /\ StoreNoncePage(p, c, nonce, received, pending)
          /\ UNCHANGED nonceId
       \/ /\ p # 0 /\ (state # "RECEIVING_NONCE" \/ n # nonceId)
          /\ UNCHANGED <<state, pending, nonceId, received, nonce>>

(* receiveNoncePage: the first page starts over, whatever was under way; a *)
(* later one counts only while a nonce with its identifier is arriving.    *)
ReceiveNoncePage(n, p, c) ==
    /\ UNCHANGED <<keySigns, page>>
    /\ \/ /\ p = 0
          /\ nonceId' = n
          /\ StoreNoncePage(0, c, Whole(0), {}, FALSE)
       \/ /\ p # 0 /\ state = "RECEIVING_NONCE" /\ n = nonceId
          /\ StoreNoncePage(p, c, nonce, received, pending)
          /\ UNCHANGED nonceId
       \/ /\ p # 0 /\ (state # "RECEIVING_NONCE" \/ n # nonceId)
          /\ UNCHANGED <<state, pending, nonceId, received, nonce>>

(* The page getAuthPage returns: its number and what it holds. *)
ServedPage ==
    IF state = "READY"
    THEN [number |-> page,
          holds |-> IF page \in SignaturePage THEN buffer[page] ELSE Certificate]
    ELSE [number |-> 0, holds |-> Blank]

(* Mutants: the exchange ends one page late, or never. *)
MutGetAuthPage ==
    /\ UNCHANGED <<keySigns, pending, nonceId, received, nonce>>
    /\ IF state = "READY"
       THEN /\ page' = page + 1
            /\ state' = IF page + 1 > AuthPages THEN "IDLE" ELSE "READY"
       ELSE UNCHANGED <<page, state>>
MutGetAuthPageForever ==
    /\ UNCHANGED <<keySigns, pending, nonceId, received, nonce, state>>
    /\ page' = IF state = "READY" THEN page + 1 ELSE page

(* What getAuthPage changes: the last page ends the exchange. *)
GetAuthPage ==
    /\ UNCHANGED <<keySigns, pending, nonceId, received, nonce>>
    /\ IF state = "READY"
       THEN /\ page' = page + 1
            /\ state' = IF page + 1 >= AuthPages THEN "IDLE" ELSE "READY"
       ELSE UNCHANGED <<page, state>>

(* getSigningState: 0x00 for ready, 0x10 for anything else. *)
SaysReady == state = "READY"

(* Mutant: the state stays. *)
MutGetResetConfig ==
    /\ pending' = FALSE /\ received' = {} /\ page' = 0
    /\ UNCHANGED <<keySigns, nonceId, nonce, state>>

(* getResetConfig. *)
GetResetConfig ==
    /\ pending' = FALSE /\ received' = {} /\ state' = "IDLE" /\ page' = 0
    /\ UNCHANGED <<keySigns, nonceId, nonce>>

-----------------------------------------------------------------------------
(* The console. *)

(* It poses a new challenge, dropping whatever it was doing. *)
Pose ==
    /\ posed < MaxChallenges
    /\ posed' = posed + 1
    /\ id' \in NonceIds
    /\ asking' = "writing" /\ sent' = 0 /\ answer' = <<>>
    /\ UNCHANGED <<calm, device, signing>>

(* F0: it writes the next page.  When it does not see that the page has    *)
(* arrived it writes it again.                                             *)
WriteNoncePage ==
    /\ asking = "writing"
    /\ ReceiveNoncePage(id, sent, posed)
    /\ calm' = IF sent = 0 THEN loop = "idle" ELSE calm
    /\ \/ /\ sent' = sent + 1
          /\ asking' = IF sent + 1 = NoncePages THEN "waiting" ELSE "writing"
       \/ UNCHANGED <<sent, asking>>
    /\ UNCHANGED <<posed, id, answer, signing>>

(* F2: it reads the answer once the device says that it is ready. *)
PollSigningState ==
    /\ asking = "waiting" /\ SaysReady
    /\ asking' = "reading"
    /\ UNCHANGED <<posed, id, sent, answer, calm, device, signing>>

(* F1: it takes a page of an answer with the number it expects and gives   *)
(* up at another one, and at zeros, which carry the number 0 but are no    *)
(* answer.  A response may also be lost after the device has moved on; the *)
(* console then asks again.                                                *)
ReadAuthPage ==
    /\ asking = "reading"
    /\ GetAuthPage
    /\ \/ UNCHANGED <<answer, asking>>
       \/ /\ SaysReady /\ ServedPage.number = Len(answer)
          /\ answer' = Append(answer, ServedPage.holds)
          /\ asking' = IF Len(answer) + 1 >= AuthPages THEN "nothing" ELSE "reading"
       \/ /\ ~SaysReady \/ ServedPage.number # Len(answer)
          /\ asking' = "nothing"
          /\ UNCHANGED answer
    /\ UNCHANGED <<posed, id, sent, calm, signing>>

(* F3: it resets the exchange. *)
Reset ==
    /\ GetResetConfig
    /\ asking' = "nothing"
    /\ UNCHANGED <<posed, id, sent, answer, calm, signing>>

-----------------------------------------------------------------------------
(* The main loop: process(). *)

(* Mutant: the request stays. *)
MutStartSigning ==
    /\ loop = "idle" /\ pending
    /\ loop' = "hashing" /\ at' = 0
    /\ UNCHANGED <<keySigns, state, pending, nonceId, received, nonce, page, buffer, hashed>>
    /\ UNCHANGED console

(* It takes the request.  The test and the clearing of the flag are one    *)
(* step: a whole challenge, several transfers, does not fit between them.  *)
StartSigning ==
    /\ loop = "idle" /\ pending
    /\ pending' = FALSE
    /\ loop' = "hashing" /\ at' = 0
    /\ UNCHANGED <<keySigns, state, nonceId, received, nonce, page, buffer, hashed, console>>

(* The hash reads the next page of the nonce. *)
HashPage ==
    /\ loop = "hashing" /\ at < NoncePages
    /\ hashed' = [hashed EXCEPT ![at] = nonce[at]]
    /\ at' = at + 1
    /\ loop' = IF at + 1 = NoncePages THEN "padding" ELSE "hashing"
    /\ UNCHANGED <<buffer, device, console>>

(* The engine pads the hash where the signature is to be. *)
PadHash ==
    /\ loop = "padding"
    /\ buffer' = [p \in SignaturePage |-> Padding]
    /\ loop' = "signing"
    /\ UNCHANGED <<hashed, at, device, console>>

(* The signature is there. *)
SignHash ==
    /\ loop = "signing" /\ keySigns
    /\ buffer' = [p \in SignaturePage |-> Signature(hashed)]
    /\ loop' = "complete"
    /\ UNCHANGED <<hashed, at, device, console>>

(* Mutant: the failure is not noticed. *)
MutSignFails ==
    /\ loop = "signing" /\ ~keySigns
    /\ state' = "READY"
    /\ loop' = "idle"
    /\ UNCHANGED <<keySigns, pending, nonceId, received, nonce, page, buffer, hashed, at>>
    /\ UNCHANGED console

(* The engine does not take the key. *)
SignFails ==
    /\ loop = "signing" /\ ~keySigns
    /\ state' = "IDLE"
    /\ loop' = "idle"
    /\ UNCHANGED <<keySigns, pending, nonceId, received, nonce, page, buffer, hashed, at>>
    /\ UNCHANGED console

(* Mutant: the certificate and the page counter, but not the state. *)
MutCompleteSignature ==
    /\ loop = "complete"
    /\ page' = 0
    /\ loop' = "idle"
    /\ UNCHANGED <<keySigns, state, pending, nonceId, received, nonce, buffer, hashed, at, console>>

(* completeSignature: the certificate, the page counter, the state.  The   *)
(* two stores are one step: between them one callback fits, not a whole    *)
(* answer, and it has the effect it has just before or just after both.    *)
CompleteSignature ==
    /\ loop = "complete"
    /\ page' = 0
    /\ state' = "READY"
    /\ loop' = "idle"
    /\ UNCHANGED <<keySigns, pending, nonceId, received, nonce, buffer, hashed, at, console>>

-----------------------------------------------------------------------------
Process ==
    \/ StartSigning \/ HashPage \/ PadHash \/ SignHash \/ SignFails
    \/ CompleteSignature

Console == Pose \/ WriteNoncePage \/ PollSigningState \/ ReadAuthPage \/ Reset

Next == Process \/ Console

Spec == Init /\ [][Next]_vars

(* The loop calls process() on every pass, and a console that waits for an *)
(* answer goes on polling; nothing makes it pose, read or reset.           *)
Fairness == WF_vars(Process) /\ WF_vars(PollSigningState)

FairSpec == Spec /\ Fairness
=============================================================================
