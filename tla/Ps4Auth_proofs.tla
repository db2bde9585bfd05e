---------------------------- MODULE Ps4Auth_proofs ----------------------------
(***************************************************************************)
(* Proofs of the safety properties of Ps4Auth, for any number of pages and *)
(* of challenges.                                                          *)
(***************************************************************************)
EXTENDS Ps4AuthProps, TLAPS

-----------------------------------------------------------------------------
(* Types. *)

(* The answer is a sequence of pages, so what is served has to be one.     *)
LEMMA ServedTyped == ASSUME TypeOK PROVE ServedPage.holds \in Pages
  <1>1. Certificate \in Pages /\ Blank \in Pages /\ Padding \in Pages
    BY PagesAssumption DEF Certificate, Blank, Padding, Bytes, Pages, Nonces, Whole
  <1>. QED
    BY <1>1 DEF TypeOK, ServedPage

LEMMA Bodies ==
    ASSUME NEW n \in Nonces
    PROVE  Signature(n) \in Pages /\ Padding \in Pages
  BY PagesAssumption DEF Signature, Padding, Bytes, Pages, Nonces, Whole

LEMMA InitTyped == Init => TypeOK
  <1>1. Whole(0) \in Nonces /\ Blank \in Pages
    BY PagesAssumption DEF Whole, Nonces, Blank, Bytes, Pages
  <1>2. Init => buffer \in [SignaturePage -> Pages]
    BY <1>1 DEF Init
  <1>3. Init => /\ pending \in BOOLEAN /\ calm \in BOOLEAN /\ keySigns \in BOOLEAN
    BY DEF Init
  <1>4. Init => /\ nonce \in Nonces /\ hashed \in Nonces /\ answer \in Seq(Pages)
                /\ received \in SUBSET NoncePage
    BY <1>1 DEF Init
  <1>5. Init => /\ page \in 0 .. AuthPages /\ at \in 0 .. NoncePages
                /\ posed \in 0 .. MaxChallenges /\ sent \in 0 .. NoncePages
    BY PagesAssumption DEF Init
  <1>6. Init => /\ state \in States /\ loop \in LoopSteps /\ asking \in Asking
                /\ nonceId \in NonceIds /\ id \in NonceIds
    BY DEF Init, States, LoopSteps, Asking
  <1>. QED
    BY <1>2, <1>3, <1>4, <1>5, <1>6, Zenon DEF TypeOK

(* A page that arrives leaves the device's variables typed. *)
LEMMA ReceiveTyped ==
    ASSUME TypeOK, NEW n \in NonceIds, NEW p \in NoncePage, NEW c \in 0 .. MaxChallenges,
           ReceiveNoncePage(n, p, c)
    PROVE  /\ keySigns' \in BOOLEAN /\ state' \in States /\ pending' \in BOOLEAN
           /\ nonceId' \in NonceIds /\ received' \in SUBSET NoncePage
           /\ nonce' \in Nonces /\ page' \in 0 .. AuthPages
  <1>0. Whole(0) \in Nonces
    BY PagesAssumption DEF Whole, Nonces
  <1>1. ASSUME NEW before \in Nonces, NEW had \in SUBSET NoncePage, NEW wanted \in BOOLEAN,
               NEW q \in NoncePage, StoreNoncePage(q, c, before, had, wanted)
        PROVE  /\ nonce' \in Nonces /\ received' \in SUBSET NoncePage
               /\ state' \in States /\ pending' \in BOOLEAN
    <2>1. nonce' \in Nonces
      BY <1>1 DEF StoreNoncePage, Nonces
    <2>2. received' \in SUBSET NoncePage
      BY <1>1 DEF StoreNoncePage
    <2>3. state' \in States
      BY <1>1 DEF StoreNoncePage, States
    <2>4. pending' \in BOOLEAN
      BY <1>1, Zenon DEF StoreNoncePage
    <2>. QED
      BY <2>1, <2>2, <2>3, <2>4
  <1>2. keySigns' \in BOOLEAN /\ page' \in 0 .. AuthPages
    BY DEF ReceiveNoncePage, TypeOK
  <1>3. 0 \in NoncePage
    BY PagesAssumption DEF NoncePage
  <1>4. CASE p = 0 /\ nonceId' = n /\ StoreNoncePage(0, c, Whole(0), {}, FALSE)
    BY <1>0, <1>1, <1>2, <1>3, <1>4
  <1>5. CASE StoreNoncePage(p, c, nonce, received, pending) /\ UNCHANGED nonceId
    BY <1>1, <1>2, <1>5 DEF TypeOK
  <1>6. CASE UNCHANGED <<state, pending, nonceId, received, nonce>>
    BY <1>2, <1>6 DEF TypeOK
  <1>. QED
    BY <1>4, <1>5, <1>6 DEF ReceiveNoncePage

(* A page of the challenge that is still being written. *)
LEMMA NextPage ==
    ASSUME TypeOK, asking = "writing" => sent < NoncePages, asking = "writing"
    PROVE  sent \in NoncePage
  BY PagesAssumption DEF TypeOK, NoncePage

(* While it writes, it has pages left; while it writes or waits, it has    *)
(* taken no page of an answer.                                             *)
ConsoleOrder ==
    /\ asking = "writing" => sent < NoncePages
    /\ asking \in {"writing", "waiting"} => answer = <<>>

Typed == TypeOK /\ ConsoleOrder /\ PageInBuffer

LEMMA InitConsole == Init => ConsoleOrder
  BY DEF Init, ConsoleOrder

LEMMA StepConsole == Typed /\ [Next]_vars => ConsoleOrder'
  <1>. SUFFICES ASSUME Typed, [Next]_vars PROVE ConsoleOrder'
    OBVIOUS
  <1>. USE DEF Typed
  <1>1. CASE Process
    BY <1>1 DEF Process, StartSigning, HashPage, PadHash, SignHash, SignFails,
                CompleteSignature, ConsoleOrder, console
  <1>2. CASE Pose
    BY <1>2, PagesAssumption DEF Pose, ConsoleOrder
  <1>3. CASE WriteNoncePage
    <2>1. sent \in Nat /\ sent < NoncePages /\ answer = <<>>
      BY <1>3 DEF WriteNoncePage, ConsoleOrder, TypeOK
    <2>. QED
      BY <1>3, <2>1, PagesAssumption DEF WriteNoncePage, ConsoleOrder
  <1>4. CASE PollSigningState
    BY <1>4 DEF PollSigningState, ConsoleOrder
  <1>5. CASE ReadAuthPage
    BY <1>5 DEF ReadAuthPage, ConsoleOrder
  <1>6. CASE Reset
    BY <1>6 DEF Reset, ConsoleOrder
  <1>7. CASE UNCHANGED vars
    BY <1>7 DEF vars, console, ConsoleOrder
  <1>. QED
    BY <1>1, <1>2, <1>3, <1>4, <1>5, <1>6, <1>7 DEF Next, Console

LEMMA StepPage == Typed /\ [Next]_vars => PageInBuffer'
  <1>. SUFFICES ASSUME Typed, [Next]_vars, state' = "READY" PROVE page' < AuthPages
    BY DEF PageInBuffer
  <1>. USE DEF Typed
  <1>1. CASE StartSigning \/ HashPage \/ PadHash \/ SignHash \/ SignFails
    BY <1>1 DEF StartSigning, HashPage, PadHash, SignHash, SignFails, PageInBuffer, device
  <1>2. CASE CompleteSignature
    BY <1>2, PagesAssumption DEF CompleteSignature
  <1>3. CASE WriteNoncePage
    BY <1>3 DEF WriteNoncePage, ReceiveNoncePage, StoreNoncePage, PageInBuffer
  <1>4. CASE ReadAuthPage
    <2>1. CASE state = "READY"
      <3>1. page' = page + 1 /\ state' = IF page + 1 >= AuthPages THEN "IDLE" ELSE "READY"
        BY <1>4, <2>1 DEF ReadAuthPage, GetAuthPage
      <3>. QED
        BY <3>1, PagesAssumption DEF TypeOK
    <2>2. CASE state # "READY"
      BY <1>4, <2>2 DEF ReadAuthPage, GetAuthPage
    <2>. QED
      BY <2>1, <2>2
  <1>5. CASE Reset
    BY <1>5 DEF Reset, GetResetConfig
  <1>6. CASE Pose \/ PollSigningState \/ UNCHANGED vars
    BY <1>6 DEF Pose, PollSigningState, vars, device, PageInBuffer
  <1>. QED
    BY <1>1, <1>2, <1>3, <1>4, <1>5, <1>6 DEF Next, Process, Console

LEMMA StepTyped == Typed /\ [Next]_vars => TypeOK'
  <1>. SUFFICES ASSUME Typed, [Next]_vars PROVE TypeOK'
    OBVIOUS
  <1>. USE DEF Typed
  <1>0. posed \in 0 .. MaxChallenges /\ id \in NonceIds
    BY DEF TypeOK
  <1>1. CASE StartSigning
    <2>0. pending' \in BOOLEAN
      BY <1>1, Zenon DEF StartSigning
    <2>1. loop' \in LoopSteps /\ at' \in 0 .. NoncePages
      BY <1>1, PagesAssumption DEF StartSigning, LoopSteps
    <2>2. UNCHANGED <<keySigns, calm>>
      BY <1>1 DEF StartSigning, console
    <2>3. UNCHANGED <<state, nonceId, received, nonce, page, buffer, hashed>>
      BY <1>1 DEF StartSigning
    <2>4. UNCHANGED <<posed, id, asking, sent, answer>>
      BY <1>1 DEF StartSigning, console
    <2>. QED
      BY <2>0, <2>1, <2>2, <2>3, <2>4 DEF TypeOK
  <1>2. CASE HashPage
    <2>1. at \in NoncePage /\ at + 1 \in 0 .. NoncePages
      BY <1>2, PagesAssumption DEF HashPage, TypeOK, NoncePage
    <2>2. hashed' \in Nonces
      BY <1>2, <2>1 DEF HashPage, TypeOK, Nonces
    <2>3. loop' \in LoopSteps /\ at' \in 0 .. NoncePages
      BY <1>2, <2>1 DEF HashPage, LoopSteps
    <2>. QED
      BY <1>2, <2>2, <2>3 DEF HashPage, TypeOK, device, console
  <1>3. CASE PadHash
    <2>1. Padding \in Pages
      BY Bodies DEF TypeOK
    <2>. QED
      BY <1>3, <2>1 DEF PadHash, TypeOK, LoopSteps, device, console
  <1>4. CASE SignHash
    <2>1. Signature(hashed) \in Pages
      BY Bodies DEF TypeOK
    <2>. QED
      BY <1>4, <2>1 DEF SignHash, TypeOK, LoopSteps, device, console
  <1>5. CASE SignFails
    BY <1>5 DEF SignFails, TypeOK, LoopSteps, States, console
  <1>6. CASE CompleteSignature
    BY <1>6, PagesAssumption DEF CompleteSignature, TypeOK, LoopSteps, States, console
  <1>7. CASE Pose
    <2>1. posed' \in 0 .. MaxChallenges /\ sent' \in 0 .. NoncePages
      BY <1>0, <1>7, PagesAssumption DEF Pose
    <2>2. answer' \in Seq(Pages) /\ asking' \in Asking
      BY <1>7 DEF Pose, Asking
    <2>. QED
      BY <1>7, <2>1, <2>2 DEF Pose, TypeOK, device, signing
  <1>8. CASE WriteNoncePage
    <2>1. sent \in NoncePage
      BY <1>8, NextPage DEF WriteNoncePage, ConsoleOrder
    <2>2. ReceiveNoncePage(id, sent, posed)
      BY <1>8 DEF WriteNoncePage
    <2>3. /\ keySigns' \in BOOLEAN /\ state' \in States /\ pending' \in BOOLEAN
          /\ nonceId' \in NonceIds /\ received' \in SUBSET NoncePage
          /\ nonce' \in Nonces /\ page' \in 0 .. AuthPages
      BY <1>0, <2>1, <2>2, ReceiveTyped
    <2>4. sent' \in 0 .. NoncePages /\ asking' \in Asking
      BY <1>8, <2>1, PagesAssumption DEF WriteNoncePage, TypeOK, NoncePage, Asking
    <2>5. calm' \in BOOLEAN
      <3>1. calm \in BOOLEAN
        BY DEF TypeOK
      <3>2. calm' = IF sent = 0 THEN loop = "idle" ELSE calm
        BY <1>8 DEF WriteNoncePage
      <3>. QED
        BY <3>1, <3>2, Zenon
    <2>. QED
      BY <1>8, <2>3, <2>4, <2>5 DEF WriteNoncePage, TypeOK, signing
  <1>9. CASE PollSigningState
    BY <1>9 DEF PollSigningState, TypeOK, Asking, device, signing
  <1>10. CASE ReadAuthPage
    <2>0. page \in 0 .. AuthPages /\ state \in States /\ answer \in Seq(Pages)
      BY DEF TypeOK
    <2>1. page' \in 0 .. AuthPages /\ state' \in States
      <3>1. CASE state = "READY"
        <4>1. page' = page + 1 /\ state' = IF page + 1 >= AuthPages THEN "IDLE" ELSE "READY"
          BY <1>10, <3>1 DEF ReadAuthPage, GetAuthPage
        <4>. QED
          BY <2>0, <3>1, <4>1, PagesAssumption DEF Typed, PageInBuffer, States
      <3>2. CASE state # "READY"
        BY <1>10, <2>0, <3>2 DEF ReadAuthPage, GetAuthPage
      <3>. QED
        BY <3>1, <3>2
    <2>2. answer' \in Seq(Pages) /\ asking' \in Asking
      <3>1. ServedPage.holds \in Pages
        BY ServedTyped
      <3>2. answer' = answer \/ answer' = Append(answer, ServedPage.holds)
        BY <1>10 DEF ReadAuthPage
      <3>3. asking' \in {asking, "nothing", "reading"}
        BY <1>10 DEF ReadAuthPage
      <3>4. asking' \in Asking
        BY <3>3 DEF TypeOK, Asking
      <3>5. answer' \in Seq(Pages)
        BY <2>0, <3>1, <3>2
      <3>. QED
        BY <3>4, <3>5
    <2>. QED
      BY <1>10, <2>1, <2>2 DEF ReadAuthPage, GetAuthPage, TypeOK, signing
  <1>11. CASE Reset
    <2>0. pending' \in BOOLEAN
      BY <1>11, Zenon DEF Reset, GetResetConfig
    <2>1. /\ received' \in SUBSET NoncePage
          /\ state' \in States /\ page' \in 0 .. AuthPages /\ asking' \in Asking
      BY <1>11, PagesAssumption DEF Reset, GetResetConfig, States, Asking
    <2>2. UNCHANGED <<keySigns, calm>>
      BY <1>11 DEF Reset, GetResetConfig
    <2>3. UNCHANGED <<nonceId, nonce, posed, id, sent, answer, buffer, loop, hashed, at>>
      BY <1>11 DEF Reset, GetResetConfig, signing
    <2>. QED
      BY <2>0, <2>1, <2>2, <2>3 DEF TypeOK
  <1>12. CASE UNCHANGED vars
    BY <1>12 DEF vars, device, signing, console, TypeOK
  <1>. QED
    BY <1>1, <1>2, <1>3, <1>4, <1>5, <1>6, <1>7, <1>8, <1>9, <1>10, <1>11, <1>12
       DEF Next, Process, Console

-----------------------------------------------------------------------------
(* The signature. *)

(* A complete signature is the one of the nonce that was hashed.           *)
SignatureIsWhole ==
    loop = "complete" => \A p \in SignaturePage : buffer[p] = Signature(hashed)

Offers == SigningIsUnderWay /\ OfferIsWhole /\ SignatureIsWhole

LEMMA InitOffers == Init => Offers
  BY DEF Init, Offers, SigningIsUnderWay, OfferIsWhole, SignatureIsWhole

(* A page that arrives never makes the state READY, and asks for the       *)
(* signature when it is the last one.                                      *)
LEMMA ReceiveOffers ==
    ASSUME TypeOK, NEW n, NEW p, NEW c, ReceiveNoncePage(n, p, c)
    PROVE  /\ state' = "READY" => state = "READY"
           /\ SigningIsUnderWay => (state' = "SIGNING" => pending' \/ loop # "idle")
  <1>1. ASSUME NEW before, NEW had, NEW wanted, NEW q, StoreNoncePage(q, c, before, had, wanted)
        PROVE  state' # "READY" /\ (state' = "SIGNING" => pending')
    <2>1. state' # "READY"
      BY <1>1 DEF StoreNoncePage
    <2>2. state' = "SIGNING" => had \union {q} = NoncePage
      BY <1>1 DEF StoreNoncePage
    <2>3. had \union {q} = NoncePage => pending'
      BY <1>1, Zenon DEF StoreNoncePage
    <2>. QED
      BY <2>1, <2>2, <2>3
  <1>2. CASE StoreNoncePage(0, c, Whole(0), {}, FALSE)
    BY <1>1, <1>2
  <1>3. CASE StoreNoncePage(p, c, nonce, received, pending)
    BY <1>1, <1>3
  <1>4. CASE UNCHANGED <<state, pending, nonceId, received, nonce>>
    BY <1>4, Zenon DEF SigningIsUnderWay
  <1>. QED
    BY <1>2, <1>3, <1>4, Zenon DEF ReceiveNoncePage

LEMMA StepUnderWay == TypeOK /\ SigningIsUnderWay /\ [Next]_vars => SigningIsUnderWay'
  <1>. SUFFICES ASSUME TypeOK, SigningIsUnderWay, [Next]_vars PROVE SigningIsUnderWay'
    OBVIOUS
  <1>1. CASE StartSigning \/ HashPage
    BY <1>1 DEF StartSigning, HashPage, SigningIsUnderWay
  <1>2. CASE PadHash \/ SignHash
    BY <1>2 DEF PadHash, SignHash, SigningIsUnderWay
  <1>3. CASE SignFails \/ CompleteSignature
    BY <1>3 DEF SignFails, CompleteSignature, SigningIsUnderWay
  <1>4. CASE WriteNoncePage
    BY <1>4, ReceiveOffers, Zenon DEF WriteNoncePage, SigningIsUnderWay, signing
  <1>5. CASE ReadAuthPage
    <2>1. UNCHANGED <<pending, loop>> /\ (state' = "SIGNING" => state = "SIGNING")
      BY <1>5 DEF ReadAuthPage, GetAuthPage, signing
    <2>. QED
      BY <2>1, Zenon DEF SigningIsUnderWay
  <1>6. CASE Reset
    BY <1>6 DEF Reset, GetResetConfig, SigningIsUnderWay
  <1>7. CASE Pose \/ PollSigningState \/ UNCHANGED vars
    <2>1. UNCHANGED <<pending, loop, state>>
      BY <1>7 DEF Pose, PollSigningState, vars, device, signing
    <2>. QED
      BY <2>1, Zenon DEF SigningIsUnderWay
  <1>. QED
    BY <1>1, <1>2, <1>3, <1>4, <1>5, <1>6, <1>7 DEF Next, Process, Console

LEMMA StepOffers == TypeOK /\ Offers /\ [Next]_vars => Offers'
  <1>. SUFFICES ASSUME TypeOK, Offers, [Next]_vars
                PROVE  OfferIsWhole' /\ SignatureIsWhole'
    BY StepUnderWay DEF Offers
  <1>. USE DEF Offers
  <1>1. CASE StartSigning \/ HashPage \/ PadHash
    BY <1>1 DEF StartSigning, HashPage, PadHash, OfferIsWhole, SignatureIsWhole
  <1>2. CASE SignHash
    <2>1. \A p \in SignaturePage : buffer'[p] = Signature(hashed')
      BY <1>2 DEF SignHash
    <2>. QED
      BY <1>2, <2>1 DEF SignHash, OfferIsWhole, SignatureIsWhole
  <1>3. CASE SignFails
    BY <1>3 DEF SignFails, OfferIsWhole, SignatureIsWhole
  <1>4. CASE CompleteSignature
    <2>1. UNCHANGED <<buffer, hashed>> /\ loop' = "idle" /\ loop = "complete"
      BY <1>4 DEF CompleteSignature
    <2>2. \A p \in SignaturePage : buffer'[p] = Signature(hashed)
      BY <2>1 DEF SignatureIsWhole
    <2>. QED
      BY <2>1, <2>2 DEF OfferIsWhole, SignatureIsWhole, TypeOK
  <1>5. CASE UNCHANGED signing /\ (state' = "READY" => state = "READY")
    <2>1. UNCHANGED <<buffer, hashed, loop>>
      BY <1>5 DEF signing
    <2>. QED
      BY <1>5, <2>1 DEF OfferIsWhole, SignatureIsWhole
  <1>6. Console \/ UNCHANGED vars => UNCHANGED signing /\ (state' = "READY" => state = "READY")
    <2>1. WriteNoncePage => UNCHANGED signing /\ (state' = "READY" => state = "READY")
      BY ReceiveOffers, Zenon DEF WriteNoncePage
    <2>2. ReadAuthPage => UNCHANGED signing /\ (state' = "READY" => state = "READY")
      BY DEF ReadAuthPage, GetAuthPage
    <2>3. Reset => UNCHANGED signing /\ (state' = "READY" => state = "READY")
      BY DEF Reset, GetResetConfig
    <2>4. Pose \/ PollSigningState \/ UNCHANGED vars
          => UNCHANGED signing /\ (state' = "READY" => state = "READY")
      BY DEF Pose, PollSigningState, vars, device
    <2>. QED
      BY <2>1, <2>2, <2>3, <2>4 DEF Console
  <1>. QED
    BY <1>1, <1>2, <1>3, <1>4, <1>5, <1>6 DEF Next, Process

-----------------------------------------------------------------------------
(* The refinement: what a challenge that began while nothing was being     *)
(* signed keeps true until the console turns to something else.            *)

Begun ==
    /\ calm
    /\ \/ asking = "writing" /\ sent > 0
       \/ asking \in {"waiting", "reading"}

(* Its pages are arriving: those written so far are in.                    *)
Arriving ==
    /\ state = "RECEIVING_NONCE" /\ asking = "writing" /\ nonceId = id
    /\ ~pending /\ loop = "idle"
    /\ received # NoncePage
    /\ \A p \in NoncePage : p < sent => p \in received
    /\ \A p \in received : nonce[p] = posed

(* It is in, is signed, has been signed or has been given up, and the loop *)
(* signs nothing else.                                                     *)
Arrived ==
    /\ state # "RECEIVING_NONCE"
    /\ \A p \in NoncePage : nonce[p] = posed
    /\ pending => state = "SIGNING" /\ loop = "idle"
    /\ loop # "idle" => state = "SIGNING" /\ ~pending
    /\ loop = "hashing" => \A p \in NoncePage : p < at => hashed[p] = posed
    /\ loop \in {"padding", "signing", "complete"} => \A p \in NoncePage : hashed[p] = posed
    /\ state = "READY" => \A p \in SignaturePage : buffer[p] = Signature(Whole(posed))

Served == Begun => Arriving \/ Arrived

LEMMA InitServed == Init => Served
  BY Zenon DEF Init, Served, Begun

(* The next page of a challenge that is arriving. *)
LEMMA StorePage ==
    ASSUME TypeOK, NEW before \in Nonces, NEW had \in SUBSET NoncePage,
           sent \in NoncePage,
           \A p \in had : before[p] = posed,
           \A p \in NoncePage : p < sent => p \in had,
           loop = "idle", asking = "writing", nonceId' = id,
           UNCHANGED <<posed, id, loop>>,
           StoreNoncePage(sent, posed, before, had, FALSE),
           \/ sent' = sent + 1 /\ asking' = IF sent + 1 = NoncePages THEN "waiting" ELSE "writing"
           \/ UNCHANGED <<sent, asking>>
    PROVE  Arriving' \/ Arrived'
  <1>1. received' = had \union {sent} /\ nonce' = [before EXCEPT ![sent] = posed]
    BY DEF StoreNoncePage
  <1>2. \A p \in received' : nonce'[p] = posed'
    BY <1>1 DEF Nonces
  <1>3. \A p \in NoncePage : p < sent' => p \in received'
    BY <1>1 DEF NoncePage
  <1>4. CASE received' = NoncePage
    <2>1. state' = "SIGNING"
      BY <1>1, <1>4 DEF StoreNoncePage
    <2>2. \A p \in NoncePage : nonce'[p] = posed'
      BY <1>2, <1>4
    <2>. QED
      BY <2>1, <2>2 DEF Arrived
  <1>5. CASE received' # NoncePage
    <2>1. state' = "RECEIVING_NONCE"
      BY <1>1, <1>5 DEF StoreNoncePage
    <2>2. ~pending'
      BY <1>1, <1>5, Zenon DEF StoreNoncePage
    <2>3. asking' = "writing"
      BY <1>1, <1>3, <1>5, PagesAssumption DEF NoncePage
    <2>. QED
      BY <1>2, <1>3, <1>5, <2>1, <2>2, <2>3 DEF Arriving
  <1>. QED
    BY <1>4, <1>5

LEMMA WriteServed ==
    ASSUME Typed, Served, WriteNoncePage, Begun'
    PROVE  Arriving' \/ Arrived'
  <1>. USE DEF Typed
  <1>0. /\ asking = "writing" /\ sent \in NoncePage /\ ReceiveNoncePage(id, sent, posed)
        /\ UNCHANGED <<posed, id>>
        /\ UNCHANGED signing
        /\ \/ sent' = sent + 1 /\ asking' = IF sent + 1 = NoncePages THEN "waiting" ELSE "writing"
           \/ UNCHANGED <<sent, asking>>
    BY NextPage DEF WriteNoncePage, ConsoleOrder
  <1>1. UNCHANGED loop
    BY <1>0 DEF signing
  <1>2. CASE sent = 0
    <2>1. loop = "idle"
      BY <1>2, Zenon DEF WriteNoncePage, Begun
    <2>2. nonceId' = id /\ StoreNoncePage(0, posed, Whole(0), {}, FALSE)
      BY <1>0, <1>2 DEF ReceiveNoncePage
    <2>3. Whole(0) \in Nonces
      BY PagesAssumption DEF Whole, Nonces
    <2>4. StoreNoncePage(sent, posed, Whole(0), {}, FALSE)
      BY <1>2, <2>2
    <2>5. \A p \in NoncePage : p < sent => p \in {}
      BY <1>2 DEF NoncePage
    <2>6. {} \in SUBSET NoncePage /\ \A p \in {} : Whole(0)[p] = posed
      OBVIOUS
    <2>7. UNCHANGED <<posed, id, loop>>
      BY <1>0, <1>1
    <2>. QED
      BY <1>0, <2>1, <2>2, <2>3, <2>4, <2>5, <2>6, <2>7, StorePage, Zenon
  <1>3. CASE sent # 0
    <2>1. Begun
      <3>1. calm
        BY <1>3, Zenon DEF WriteNoncePage, Begun
      <3>2. sent > 0
        BY <1>0, <1>3 DEF NoncePage
      <3>. QED
        BY <1>0, <3>1, <3>2, Zenon DEF Begun
    <2>2. CASE Arriving
      <3>1. StoreNoncePage(sent, posed, nonce, received, pending) /\ UNCHANGED nonceId
        BY <1>0, <1>3, <2>2 DEF ReceiveNoncePage, Arriving
      <3>2. pending = FALSE
        BY <2>2, Zenon DEF Arriving, TypeOK
      <3>3. StoreNoncePage(sent, posed, nonce, received, FALSE)
        BY <3>1, <3>2
      <3>4. nonceId' = id /\ nonce \in Nonces /\ received \in SUBSET NoncePage
        BY <2>2, <3>1 DEF Arriving, TypeOK
      <3>. QED
        BY <1>0, <1>1, <2>2, <3>3, <3>4, StorePage DEF Arriving
    <2>3. CASE Arrived
      <3>1. UNCHANGED <<state, pending, nonceId, received, nonce>>
        BY <1>0, <1>3, <2>3 DEF ReceiveNoncePage, Arrived
      <3>2. UNCHANGED <<buffer, loop, hashed, at, posed>>
        BY <1>0 DEF signing
      <3>3. Arrived'
        BY <2>3, <3>1, <3>2 DEF Arrived
      <3>. QED
        BY <3>3
    <2>. QED
      BY <2>1, <2>2, <2>3 DEF Served
  <1>. QED
    BY <1>2, <1>3

LEMMA StepServed ==
    ASSUME Typed, Offers, Served, [Next]_vars
    PROVE  Served'
  <1>. SUFFICES ASSUME Begun' PROVE Arriving' \/ Arrived'
    BY DEF Served
  <1>. USE DEF Typed
  <1>1. CASE Process
    <2>0. UNCHANGED <<posed, id, asking, sent, calm, nonceId, received, nonce>>
      BY <1>1 DEF Process, StartSigning, HashPage, PadHash, SignHash, SignFails,
                  CompleteSignature, console, device
    <2>1. UNCHANGED <<asking, sent>> /\ UNCHANGED calm
      BY <2>0
    <2>2. Begun
      BY <2>1, Zenon DEF Begun
    <2>3. Arrived
      BY <1>1, <2>2, Zenon DEF Served, Arriving, Process, StartSigning, HashPage, PadHash,
                               SignHash, SignFails, CompleteSignature
    <2>4. \A p \in NoncePage : nonce'[p] = posed'
      BY <2>0, <2>3 DEF Arrived
    <2>5. CASE StartSigning
      <3>1. state = "SIGNING" /\ at' = 0 /\ loop' = "hashing" /\ UNCHANGED state
        BY <2>3, <2>5 DEF StartSigning, Arrived
      <3>2. ~pending'
        BY <2>5, Zenon DEF StartSigning
      <3>3. \A p \in NoncePage : ~(p < at')
        BY <3>1 DEF NoncePage
      <3>. QED
        BY <2>4, <3>1, <3>2, <3>3 DEF Arrived
    <2>6. CASE HashPage
      <3>1. /\ loop = "hashing" /\ at \in NoncePage /\ at' = at + 1
            /\ hashed' = [hashed EXCEPT ![at] = nonce[at]]
            /\ loop' = IF at + 1 = NoncePages THEN "padding" ELSE "hashing"
            /\ UNCHANGED device
        BY <2>6, PagesAssumption DEF HashPage, TypeOK, NoncePage
      <3>2. UNCHANGED <<state, pending>>
        BY <3>1 DEF device
      <3>3. \A p \in NoncePage : p < at' => hashed'[p] = posed'
        <4>. SUFFICES ASSUME NEW p \in NoncePage, p < at' PROVE hashed'[p] = posed
          BY <2>0
        <4>1. p = at \/ p < at
          BY <3>1 DEF NoncePage
        <4>2. hashed \in [NoncePage -> 0 .. MaxChallenges]
          BY DEF TypeOK, Nonces
        <4>. QED
          BY <2>3, <3>1, <4>1, <4>2 DEF Arrived
      <3>4. loop' = "padding" => \A p \in NoncePage : hashed'[p] = posed'
        BY <3>1, <3>3 DEF NoncePage
      <3>. QED
        BY <2>3, <2>4, <3>1, <3>2, <3>3, <3>4 DEF Arrived
    <2>7. CASE PadHash
      <3>1. /\ loop = "padding" /\ loop' = "signing" /\ state = "SIGNING" /\ ~pending
            /\ UNCHANGED <<state, pending, hashed>>
        BY <2>3, <2>7, Zenon DEF PadHash, device, Arrived
      <3>. QED
        BY <2>0, <2>3, <2>4, <3>1 DEF Arrived
    <2>8. CASE SignHash
      <3>1. /\ loop = "signing" /\ loop' = "complete" /\ state = "SIGNING" /\ ~pending
            /\ UNCHANGED <<state, pending, hashed>>
        BY <2>3, <2>8, Zenon DEF SignHash, device, Arrived
      <3>. QED
        BY <2>0, <2>3, <2>4, <3>1 DEF Arrived
    <2>9. CASE SignFails
      <3>1. loop' = "idle" /\ state' = "IDLE" /\ UNCHANGED pending /\ ~pending
        BY <2>3, <2>9, Zenon DEF SignFails, Arrived
      <3>. QED
        BY <2>4, <3>1 DEF Arrived
    <2>10. CASE CompleteSignature
      <3>1. loop' = "idle" /\ loop = "complete" /\ state' = "READY" /\ UNCHANGED pending /\ ~pending
        BY <2>3, <2>10, Zenon DEF CompleteSignature, Arrived
      <3>2. hashed = Whole(posed)
        <4>1. \A p \in NoncePage : hashed[p] = posed
          BY <2>3, <3>1 DEF Arrived
        <4>. QED
          BY <4>1 DEF TypeOK, Nonces, Whole
      <3>3. \A p \in SignaturePage : buffer'[p] = Signature(Whole(posed'))
        BY <2>0, <2>10, <3>1, <3>2 DEF CompleteSignature, Offers, SignatureIsWhole
      <3>. QED
        BY <2>4, <3>1, <3>3 DEF Arrived
    <2>. QED
      BY <1>1, <2>5, <2>6, <2>7, <2>8, <2>9, <2>10 DEF Process
  <1>2. CASE Pose
    BY <1>2 DEF Pose, Begun
  <1>3. CASE WriteNoncePage
    BY <1>3, WriteServed
  <1>4. CASE PollSigningState
    <2>1. asking = "waiting" /\ UNCHANGED calm
      BY <1>4 DEF PollSigningState
    <2>2. Arrived
      BY <2>1, Zenon DEF Begun, Served, Arriving
    <2>3. UNCHANGED <<state, pending, nonce, buffer, loop, hashed, at, posed>>
      BY <1>4 DEF PollSigningState, device, signing
    <2>4. Arrived'
      BY <2>2, <2>3 DEF Arrived
    <2>. QED
      BY <2>4
  <1>5. CASE ReadAuthPage
    <2>1. asking = "reading" /\ UNCHANGED calm
      BY <1>5 DEF ReadAuthPage
    <2>2. Arrived
      BY <2>1, Zenon DEF Begun, Served, Arriving
    <2>3. UNCHANGED <<pending, nonce, buffer, loop, hashed, at, posed>>
      BY <1>5 DEF ReadAuthPage, GetAuthPage, signing
    <2>4. state' = state \/ (state = "READY" /\ state' = "IDLE")
      BY <1>5 DEF ReadAuthPage, GetAuthPage
    <2>5. Arrived'
      BY <2>2, <2>3, <2>4 DEF Arrived
    <2>. QED
      BY <2>5
  <1>6. CASE Reset
    BY <1>6 DEF Reset, Begun
  <1>7. CASE UNCHANGED vars
    <2>1. UNCHANGED <<asking, sent>> /\ UNCHANGED calm
      BY <1>7 DEF vars, console
    <2>2. Begun
      BY <2>1, Zenon DEF Begun
    <2>3. UNCHANGED <<state, pending, nonce, buffer, loop, hashed, at, posed, nonceId, id,
                      received, asking, sent>>
      BY <1>7 DEF vars, device, signing, console
    <2>4. Arriving => Arriving'
      BY <2>3 DEF Arriving
    <2>5. Arrived => Arrived'
      BY <2>3 DEF Arrived
    <2>. QED
      BY <2>2, <2>4, <2>5 DEF Served
  <1>. QED
    BY <1>1, <1>2, <1>3, <1>4, <1>5, <1>6, <1>7 DEF Next, Console

(* Each step asks the next challenge, tells the next page or stutters.     *)
LEMMA StepAnswers ==
    ASSUME Typed, Served, [Next]_vars
    PROVE  [Abstract!Next]_<<posed, IF calm THEN answer ELSE <<>>>>
  <1>. DEFINE told == IF calm THEN answer ELSE <<>>
  <1>. SUFFICES \/ posed' = posed /\ told' = told
                \/ posed' = posed + 1 /\ told' = <<>>
                \/ posed' = posed /\ told' = Append(told, AnswerPage(posed, Len(told)))
    BY Zenon DEF Abstract!Next, Abstract!Ask, Abstract!Tell
  <1>. USE DEF Typed
  <1>1. CASE Pose
    BY <1>1 DEF Pose
  <1>2. CASE WriteNoncePage
    <2>1. answer = <<>> /\ UNCHANGED <<answer, posed>>
      BY <1>2 DEF WriteNoncePage, ConsoleOrder
    <2>. QED
      BY <2>1, Zenon
  <1>3. CASE Process \/ PollSigningState \/ Reset \/ UNCHANGED vars
    <2>1. UNCHANGED <<answer, posed>> /\ UNCHANGED calm
      BY <1>3 DEF Process, StartSigning, HashPage, PadHash, SignHash, SignFails,
                  CompleteSignature, PollSigningState, Reset, vars, console
    <2>. QED
      BY <2>1, Zenon
  <1>4. CASE ReadAuthPage
    <2>0. UNCHANGED posed /\ UNCHANGED calm /\ asking = "reading"
      BY <1>4 DEF ReadAuthPage
    <2>1. CASE UNCHANGED answer
      BY <2>0, <2>1, Zenon
    <2>2. CASE ~calm
      BY <2>0, <2>2, Zenon
    <2>3. CASE ~UNCHANGED answer /\ calm
      <3>1. state = "READY" /\ ServedPage.number = Len(answer)
            /\ answer' = Append(answer, ServedPage.holds)
        BY <1>4, <2>3 DEF ReadAuthPage, SaysReady
      <3>2. Arrived
        BY <2>0, <2>3, Zenon DEF Begun, Served, Arriving
      <3>3. page = Len(answer)
        BY <3>1 DEF ServedPage
      <3>4. ServedPage.holds = AnswerPage(posed, page)
        BY <3>1, <3>2 DEF ServedPage, AnswerPage, Arrived
      <3>5. answer' = Append(answer, AnswerPage(posed, Len(answer)))
        BY <3>1, <3>3, <3>4
      <3>. QED
        BY <2>0, <2>3, <3>5, Zenon
    <2>. QED
      BY <2>1, <2>2, <2>3
  <1>. QED
    BY <1>1, <1>2, <1>3, <1>4 DEF Next, Console

-----------------------------------------------------------------------------
(* The wait. *)

(* With a key that signs, the pages of the challenge that the console is   *)
(* writing are in, or a signature that it did not wait for has come        *)
(* between and is offered instead.                                         *)
Heard ==
    /\ asking = "writing" /\ sent > 0 =>
         \/ state \in {"SIGNING", "READY"}
         \/ /\ state = "RECEIVING_NONCE" /\ nonceId = id
            /\ \A p \in NoncePage : p < sent => p \in received
    /\ asking = "waiting" => state \in {"SIGNING", "READY"}

LEMMA WriteHeard ==
    ASSUME Typed, keySigns => Heard, WriteNoncePage, keySigns
    PROVE  Heard'
  <1>. USE DEF Typed
  <1>1. /\ asking = "writing" /\ sent \in NoncePage /\ ReceiveNoncePage(id, sent, posed)
        /\ UNCHANGED id
        /\ \/ sent' = sent + 1 /\ asking' = IF sent + 1 = NoncePages THEN "waiting" ELSE "writing"
           \/ UNCHANGED <<sent, asking>>
    BY NextPage DEF WriteNoncePage, ConsoleOrder
  <1>2. ASSUME NEW before, NEW had, NEW wanted,
               StoreNoncePage(sent, posed, before, had, wanted), nonceId' = id,
               \A p \in NoncePage : p < sent => p \in had
        PROVE  Heard'
    <2>1. received' = had \union {sent}
          /\ state' = IF received' = NoncePage THEN "SIGNING" ELSE "RECEIVING_NONCE"
      BY <1>2 DEF StoreNoncePage
    <2>2. \A p \in NoncePage : p < sent' => p \in received'
      BY <1>1, <1>2, <2>1 DEF NoncePage
    <2>3. CASE asking' = "waiting"
      <3>1. sent' = NoncePages
        BY <1>1, <2>3
      <3>2. NoncePage \subseteq received'
        BY <2>2, <3>1, PagesAssumption DEF NoncePage
      <3>3. received' \in SUBSET NoncePage
        BY <1>1, PagesAssumption, ReceiveTyped DEF WriteNoncePage, TypeOK
      <3>4. state' = "SIGNING"
        BY <2>1, <3>2, <3>3
      <3>. QED
        BY <2>3, <3>4 DEF Heard
    <2>4. CASE asking' # "waiting"
      BY <1>1, <1>2, <2>1, <2>2, <2>4 DEF Heard
    <2>. QED
      BY <2>3, <2>4
  <1>3. CASE sent = 0
    <2>1. nonceId' = id /\ StoreNoncePage(sent, posed, Whole(0), {}, FALSE)
      BY <1>1, <1>3 DEF ReceiveNoncePage
    <2>2. \A p \in NoncePage : p < sent => p \in {}
      BY <1>3 DEF NoncePage
    <2>. QED
      BY <1>2, <2>1, <2>2
  <1>4. CASE sent # 0 /\ state = "RECEIVING_NONCE"
    <2>1. sent > 0
      BY <1>1, <1>4 DEF NoncePage
    <2>2. nonceId = id /\ \A p \in NoncePage : p < sent => p \in received
      BY <1>1, <1>4, <2>1 DEF Heard
    <2>3. StoreNoncePage(sent, posed, nonce, received, pending) /\ UNCHANGED nonceId
      BY <1>1, <1>4, <2>2 DEF ReceiveNoncePage
    <2>. QED
      BY <1>2, <2>2, <2>3
  <1>5. CASE sent # 0 /\ state # "RECEIVING_NONCE"
    <2>1. sent > 0
      BY <1>1, <1>5 DEF NoncePage
    <2>2. state \in {"SIGNING", "READY"}
      BY <1>1, <1>5, <2>1 DEF Heard
    <2>3. UNCHANGED state
      BY <1>1, <1>5 DEF ReceiveNoncePage
    <2>. QED
      BY <1>1, <2>2, <2>3 DEF Heard
  <1>. QED
    BY <1>3, <1>4, <1>5

LEMMA StepHeard ==
    ASSUME Typed, keySigns => Heard, [Next]_vars
    PROVE  (keySigns => Heard)'
  <1>. SUFFICES ASSUME keySigns' PROVE Heard'
    OBVIOUS
  <1>. USE DEF Typed
  <1>0. UNCHANGED keySigns
    <2>1. WriteNoncePage => UNCHANGED keySigns
      BY DEF WriteNoncePage, ReceiveNoncePage
    <2>. QED
      BY <2>1 DEF Next, Process, Console, StartSigning, HashPage, PadHash, SignHash, SignFails,
                  CompleteSignature, Pose, PollSigningState, ReadAuthPage, GetAuthPage, Reset,
                  GetResetConfig, vars, device
  <1>1. keySigns /\ Heard
    BY <1>0
  <1>2. CASE Process
    <2>1. UNCHANGED <<id, asking, sent, nonceId, received>>
      BY <1>2 DEF Process, StartSigning, HashPage, PadHash, SignHash, SignFails,
                  CompleteSignature, console, device
    <2>2. UNCHANGED state \/ state' = "READY"
      BY <1>1, <1>2 DEF Process, StartSigning, HashPage, PadHash, SignHash, SignFails,
                        CompleteSignature, device
    <2>. QED
      BY <1>1, <2>1, <2>2 DEF Heard
  <1>3. CASE WriteNoncePage
    BY <1>1, <1>3, WriteHeard
  <1>4. CASE Pose
    BY <1>4 DEF Pose, Heard
  <1>5. CASE PollSigningState \/ Reset
    BY <1>5 DEF PollSigningState, Reset, Heard
  <1>6. CASE ReadAuthPage
    BY <1>6 DEF ReadAuthPage, Heard
  <1>7. CASE UNCHANGED vars
    <2>1. UNCHANGED <<id, asking, sent, nonceId, received, state>>
      BY <1>7 DEF vars, console, device
    <2>. QED
      BY <1>1, <2>1 DEF Heard
  <1>. QED
    BY <1>2, <1>3, <1>4, <1>5, <1>6, <1>7 DEF Next, Console

LEMMA OwedTyped == ASSUME TypeOK PROVE Owed \in Nat
  <1>1. loop \in LoopSteps /\ at \in Nat /\ at <= NoncePages /\ NoncePages \in Nat
    BY PagesAssumption DEF TypeOK
  <1>2. CASE loop = "hashing"
    BY <1>1, <1>2 DEF Owed
  <1>3. CASE loop # "hashing"
    BY <1>1, <1>3 DEF Owed, LoopSteps
  <1>. QED
    BY <1>2, <1>3

LEMMA StepShrinks ==
    ASSUME TypeOK, Next, asking = "waiting", asking' = "waiting"
    PROVE  Owed' < Owed
  <1>. USE PagesAssumption
  <1>1. Process
    BY DEF Next, Console, Pose, WriteNoncePage, PollSigningState, ReadAuthPage, Reset
  <1>2. CASE StartSigning
    <2>1. loop = "idle" /\ loop' = "hashing" /\ at' = 0
      BY <1>2 DEF StartSigning
    <2>2. pending /\ ~pending'
      BY <1>2, Zenon DEF StartSigning
    <2>. QED
      BY <2>1, <2>2 DEF Owed
  <1>3. CASE HashPage
    <2>1. /\ loop = "hashing" /\ at \in Nat /\ at < NoncePages /\ at' = at + 1
          /\ loop' = IF at + 1 = NoncePages THEN "padding" ELSE "hashing"
      BY <1>3 DEF HashPage, TypeOK
    <2>2. pending' = pending
      BY <1>3 DEF HashPage, device
    <2>. QED
      BY <2>1, <2>2 DEF Owed
  <1>4. CASE PadHash
    <2>1. loop = "padding" /\ loop' = "signing" /\ pending' = pending
      BY <1>4 DEF PadHash, device
    <2>. QED
      BY <2>1 DEF Owed
  <1>5. CASE SignHash
    <2>1. loop = "signing" /\ loop' = "complete" /\ pending' = pending
      BY <1>5 DEF SignHash, device
    <2>. QED
      BY <2>1 DEF Owed
  <1>6. CASE SignFails
    <2>1. loop = "signing" /\ loop' = "idle" /\ pending' = pending
      BY <1>6 DEF SignFails
    <2>. QED
      BY <2>1 DEF Owed
  <1>7. CASE CompleteSignature
    <2>1. loop = "complete" /\ loop' = "idle" /\ pending' = pending
      BY <1>7 DEF CompleteSignature
    <2>. QED
      BY <2>1 DEF Owed
  <1>. QED
    BY <1>1, <1>2, <1>3, <1>4, <1>5, <1>6, <1>7 DEF Process

-----------------------------------------------------------------------------
(* The theorems. *)

LEMMA StepAll == Typed /\ Offers /\ Served /\ [Next]_vars => (Typed /\ Offers /\ Served)'
  <1>1. Typed /\ [Next]_vars => Typed'
    BY StepTyped, StepConsole, StepPage DEF Typed
  <1>2. Typed /\ Offers /\ [Next]_vars => Offers'
    BY StepOffers DEF Typed
  <1>. QED
    BY <1>1, <1>2, StepServed

LEMMA Safe == Spec => [](Typed /\ Offers /\ Served)
  <1>1. Init => PageInBuffer
    BY DEF Init, PageInBuffer
  <1>2. Init => Typed /\ Offers /\ Served
    BY <1>1, InitTyped, InitConsole, InitOffers, InitServed DEF Typed
  <1>. QED
    BY <1>2, StepAll, PTL DEF Spec

(* Every variable of the exchange keeps its type. *)
THEOREM TypeCorrect == Spec => []TypeOK
  <1>1. Typed => TypeOK
    BY DEF Typed
  <1>. QED
    BY <1>1, Safe, PTL

(* No callback that finds an answer reads past the answer's last page, for *)
(* any number of pages and any order of requests and signings.             *)
THEOREM PagesInRange == Spec => []PageInBuffer
  <1>1. Typed => PageInBuffer
    BY DEF Typed
  <1>. QED
    BY <1>1, Safe, PTL

(* A complete nonce is never forgotten. *)
THEOREM NeverForgotten == Spec => []SigningIsUnderWay
  <1>1. Offers => SigningIsUnderWay
    BY DEF Offers
  <1>. QED
    BY <1>1, Safe, PTL

(* What is offered while nothing is being signed is one signature. *)
THEOREM OneSignature == Spec => []OfferIsWhole
  <1>1. Offers => OfferIsWhole
    BY DEF Offers
  <1>. QED
    BY <1>1, Safe, PTL

(* The exchange implements the challenge and response of                   *)
(* ChallengeResponse, for any number of pages and of challenges.           *)
THEOREM Answers == Spec => AnswersChallenge
  <1>1. Init => Abstract!Init
    BY Zenon DEF Init, Abstract!Init
  <1>2. Typed /\ Served /\ [Next]_vars
        => [Abstract!Next]_<<posed, IF calm THEN answer ELSE <<>>>>
    BY StepAnswers
  <1>. QED
    BY <1>1, <1>2, Safe, PTL DEF Spec, AnswersChallenge, Abstract!Spec

(* A console that waits on a key that signs can be told an answer, or the  *)
(* loop has steps to make for one.                                         *)
THEOREM WaitIsServed == Spec => []WaitHasWork
  <1>. DEFINE Inv == Typed /\ Offers /\ (keySigns => Heard)
  <1>1. Init => (keySigns => Heard)
    BY DEF Init, Heard
  <1>2. Typed /\ (keySigns => Heard) /\ [Next]_vars => (keySigns => Heard)'
    BY StepHeard
  <1>3. Inv => WaitHasWork
    <2>. SUFFICES ASSUME Inv, keySigns, asking = "waiting", state # "READY" PROVE Owed > 0
      BY DEF WaitHasWork, SaysReady
    <2>1. pending \/ loop # "idle"
      BY DEF Heard, Offers, SigningIsUnderWay
    <2>2. TypeOK
      BY DEF Typed
    <2>3. CASE pending
      BY <2>2, <2>3, PagesAssumption DEF TypeOK, Owed, LoopSteps
    <2>4. CASE ~pending
      BY <2>1, <2>2, <2>4, PagesAssumption DEF TypeOK, Owed, LoopSteps
    <2>. QED
      BY <2>3, <2>4
  <1>. QED
    BY <1>1, <1>2, <1>3, Safe, PTL DEF Spec

(* No wait is prolonged: the steps that the loop still owes grow fewer at  *)
(* every step of a wait, and they are a natural number.                    *)
THEOREM WaitIsBounded == Spec => WaitShrinks /\ [](Owed \in Nat)
  <1>1. Typed => TypeOK
    BY DEF Typed
  <1>2. TypeOK /\ [Next]_vars => [asking = "waiting" /\ asking' = "waiting" => Owed' < Owed]_vars
    BY StepShrinks
  <1>3. TypeOK => Owed \in Nat
    BY OwedTyped
  <1>. QED
    BY <1>1, <1>2, <1>3, Safe, PTL DEF Spec, WaitShrinks
=============================================================================
