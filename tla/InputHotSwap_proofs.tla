------------------------ MODULE InputHotSwap_proofs ------------------------
(***************************************************************************)
(* Theorems about the hot swap of controllers, for every set of families,  *)
(* every assignment of families to kinds, and every length of the delays.  *)
(***************************************************************************)
EXTENDS InputHotSwapProps, TLAPS

-----------------------------------------------------------------------------
(* What the memory of a running device satisfies between two steps.  A     *)
(* mode staged by WebHID voids the relation of the saved mode to the rest. *)
Fits(s) == s.deviceMode # AutoMode => s.adapter = s.deviceMode

Listens(s) ==
  /\ s.isAutoDetectMode <=> s.savedDeviceMode = AutoMode
  /\ s.deviceMode = AutoMode => s.isAutoDetectMode
  /\ s.isAutoDetectMode /\ s.deviceMode # AutoMode => ~s.reverted

Good(s) ==
  /\ s \in Memory
  /\ Fits(s)
  /\ "stage" \notin Remote => Listens(s)

(* Nobody asked for a restart since the pass of the hot swap began.        *)
Unasked(s) == s.rebootArmed = ram.rebootArmed

(* A memory in which a scan may adopt what it finds.                       *)
Ready(s) ==
  /\ Good(s)
  /\ s.isAutoDetectMode
  /\ "stage" \notin Remote => ~s.reverted
  /\ Unasked(s)

(* What a pass of the hot swap does to memory, registers and phase.        *)
Step ==
  /\ Good(ram') /\ Unasked(ram')
  /\ \/ UNCHANGED <<scratch, phase>>
     \/ phase' = "reenumerate" /\ scratch' = ram'.deviceMode

LEMMA DelayBounds ==
  /\ 0 \in 0..GracePeriod /\ GracePeriod \in 0..GracePeriod
  /\ 0 \in 0..NoInputRetry /\ NoInputRetry \in 0..NoInputRetry
  /\ FastRetry \in 0..NoInputRetry
  /\ 0 \in 0..DisconnectDelay /\ 0 \in 0..FullScanEvery
BY DelayAssumption

LEMMA ModeTypes ==
  /\ AutoMode \in Mode /\ Family \subseteq Mode /\ AutoMode \notin Family /\ NoMode \notin Mode
  /\ QuickFamily \subseteq Family /\ ConfirmFamily \subseteq Family
  /\ JoybusFamily \subseteq Family /\ NsoFamily \subseteq Family
  /\ AssistedFamily \subseteq Family /\ SlotFamily \subseteq Family
BY FamilyAssumption DEF Mode, AutoMode, NoMode

LEMMA SeesType ==
  ASSUME NEW m
  PROVE  Sees(m) \in BOOLEAN
BY Zenon DEF Sees

-----------------------------------------------------------------------------
(* What the helpers make of a good memory.                                 *)
LEMMA PoweredUpType ==
  ASSUME NEW h, NEW a \in BOOLEAN, NEW m \in Mode, NEW v \in Mode
  PROVE  PoweredUp(h, a, m, v) \in Memory
<1>1. (IF h \in Family THEN GracePeriod ELSE 0) \in 0..GracePeriod
  BY DelayBounds
<1>2. Sees(m) \in BOOLEAN
  BY SeesType
<1>3. (a \/ m = AutoMode) \in BOOLEAN /\ (m = AutoMode) \in BOOLEAN /\ (h = AutoMode) \in BOOLEAN
  OBVIOUS
<1> QED
  BY DelayBounds, <1>1, <1>2, <1>3, Zenon DEF PoweredUp, Memory

LEMMA AdoptedFields ==
  ASSUME NEW s \in Memory, NEW m \in Family, NEW b \in BOOLEAN
  PROVE  /\ Adopted(s, m, b).deviceMode = m
         /\ Adopted(s, m, b).adapter = m
         /\ Adopted(s, m, b).savedDeviceMode = IF b THEN m ELSE AutoMode
         /\ Adopted(s, m, b).isAutoDetectMode = ~b
         /\ Adopted(s, m, b).reverted = s.reverted
         /\ Adopted(s, m, b).rebootArmed = s.rebootArmed
BY DEF Adopted, Memory

LEMMA AdoptedGood ==
  ASSUME NEW s, Ready(s), NEW m \in Family, NEW b \in BOOLEAN
  PROVE  Good(Adopted(s, m, b))
<1>1. s \in Memory /\ m \in Mode /\ m # AutoMode
  BY ModeTypes DEF Ready, Good
<1>2. Adopted(s, m, b) \in Memory
  <2>1. Sees(m) \in BOOLEAN /\ (~b) \in BOOLEAN
    BY SeesType
  <2>2. (IF b THEN m ELSE AutoMode) \in Mode
    BY <1>1, ModeTypes
  <2> QED
    BY DelayBounds, <1>1, <2>1, <2>2 DEF Adopted, Memory
<1>3. Fits(Adopted(s, m, b))
  BY <1>1, AdoptedFields DEF Fits
<1>4. "stage" \notin Remote => Listens(Adopted(s, m, b))
  <2> SUFFICES ASSUME "stage" \notin Remote
               PROVE  Listens(Adopted(s, m, b))
    OBVIOUS
  <2>1. ~Adopted(s, m, b).reverted /\ Adopted(s, m, b).deviceMode = m
    BY <1>1, AdoptedFields DEF Ready
  <2>2. Adopted(s, m, b).isAutoDetectMode <=> Adopted(s, m, b).savedDeviceMode = AutoMode
    <3>1. CASE b
      BY <1>1, <3>1, AdoptedFields, Zenon
    <3>2. CASE ~b
      BY <1>1, <3>2, AdoptedFields, Zenon
    <3> QED
      BY <3>1, <3>2
  <2> QED
    BY <1>1, <2>1, <2>2 DEF Listens
<1> QED
  BY <1>2, <1>3, <1>4 DEF Good

LEMMA RejectedGood ==
  ASSUME NEW s \in Memory
  PROVE  Good(Rejected(s)) /\ Rejected(s).rebootArmed = s.rebootArmed
<1>1. Rejected(s) \in Memory
  BY DelayBounds, ModeTypes DEF Rejected, Memory
<1>2. /\ Rejected(s).deviceMode = AutoMode /\ Rejected(s).savedDeviceMode = AutoMode
      /\ Rejected(s).isAutoDetectMode /\ Rejected(s).rebootArmed = s.rebootArmed
  BY Zenon DEF Rejected, Memory
<1> QED
  BY <1>1, <1>2, Zenon DEF Good, Fits, Listens

LEMMA AgedGood ==
  ASSUME NEW s, Good(s)
  PROVE  Good(Aged(s))
<1>1. s \in Memory
  BY DEF Good
<1>2. Aged(s) \in Memory
  <2>1. /\ Less(s.grace) \in 0..GracePeriod /\ Less(s.nextDetect) \in 0..NoInputRetry
        /\ Older(s.downFor, DisconnectDelay) \in 0..DisconnectDelay
        /\ Older(s.missingFor, DisconnectDelay) \in 0..DisconnectDelay
    BY <1>1, DelayAssumption DEF Memory, Less, Older
  <2> QED
    BY <1>1, <2>1, Zenon DEF Aged, Memory
<1>3. /\ Aged(s).deviceMode = s.deviceMode /\ Aged(s).adapter = s.adapter
      /\ Aged(s).savedDeviceMode = s.savedDeviceMode
      /\ Aged(s).isAutoDetectMode = s.isAutoDetectMode
      /\ Aged(s).reverted = s.reverted
  BY <1>1 DEF Aged, Memory
<1> QED
  BY <1>2, <1>3, Zenon DEF Good, Fits, Listens

(* The record that output detection borrows is the only thing that         *)
(* deferNoDataHostResolvedDisconnect touches.                              *)
LEMMA TrackedGood ==
  ASSUME NEW s, Good(s)
  PROVE  /\ Good(Tracked(s))
         /\ Tracked(s).isAutoDetectMode = s.isAutoDetectMode
         /\ Tracked(s).deviceMode = s.deviceMode
         /\ Tracked(s).savedDeviceMode = s.savedDeviceMode
         /\ Tracked(s).adapter = s.adapter
         /\ Tracked(s).reverted = s.reverted
         /\ Tracked(s).rebootArmed = s.rebootArmed
<1>1. s \in Memory
  BY DEF Good
<1>2. Tracked(s) \in Memory
  BY <1>1, DelayBounds DEF Tracked, Memory
<1>3. /\ Tracked(s).isAutoDetectMode = s.isAutoDetectMode
      /\ Tracked(s).deviceMode = s.deviceMode
      /\ Tracked(s).savedDeviceMode = s.savedDeviceMode
      /\ Tracked(s).adapter = s.adapter
      /\ Tracked(s).reverted = s.reverted
      /\ Tracked(s).rebootArmed = s.rebootArmed
  BY <1>1 DEF Tracked, Memory
<1> QED
  BY <1>2, <1>3, Zenon DEF Good, Fits, Listens

-----------------------------------------------------------------------------
(* How handlers end.                                                       *)
LEMMA SettleStep ==
  ASSUME NEW s, Good(s), Unasked(s), Settle(s)
  PROVE  Step
BY DEF Step, Settle, Unasked

LEMMA MayReenumerateStep ==
  ASSUME NEW s, Good(s), Unasked(s), MayReenumerate(s, s.deviceMode)
  PROVE  Step
BY DEF Step, MayReenumerate, Settle, Reset, Unasked

LEMMA AdoptStep ==
  ASSUME NEW s, Ready(s), NEW m \in Family, NEW b \in BOOLEAN, Adopt(s, m, b)
  PROVE  Step
<1> DEFINE t == Adopted(s, m, b)
<1>1. Good(t) /\ t \in Memory
  BY AdoptedGood DEF Good
<1>4. t.deviceMode = m /\ Unasked(t)
  BY AdoptedFields DEF Ready, Good, Unasked
<1>2. Good(Rejected(t)) /\ Unasked(Rejected(t))
  BY <1>1, <1>4, RejectedGood DEF Unasked
<1>3. Settle(Rejected(t)) \/ MayReenumerate(t, m) \/ Settle(t)
  BY DEF Adopt
<1> HIDE DEF t
<1> QED
  BY <1>1, <1>2, <1>3, <1>4, SettleStep, MayReenumerateStep

(* Home is reached with the hot swap on, also where a staged mode hides    *)
(* that AUTO is stored.                                                    *)
LEMMA GoHomeStep ==
  ASSUME NEW s, Good(s), s.isAutoDetectMode, Unasked(s), GoHome(s)
  PROVE  Step
<1> DEFINE t == [Restored(s) EXCEPT
                   !.isAutoDetectMode = TRUE, !.grace = 0,
                   !.initialized = TRUE, !.downFor = 0, !.nextDetect = 0,
                   !.adapter = AutoMode, !.connected = FALSE, !.quickMisses = 0]
<1>1. s \in Memory
  BY DEF Good
<1>2. t \in Memory
  BY <1>1, DelayBounds, ModeTypes DEF Restored, Memory
<1>3. /\ t.deviceMode = AutoMode /\ t.savedDeviceMode = s.savedDeviceMode
      /\ t.isAutoDetectMode /\ t.rebootArmed = s.rebootArmed
  BY <1>1 DEF Restored, Memory
<1>4. Good(t) /\ Unasked(t)
  BY <1>2, <1>3, Zenon DEF Good, Fits, Listens, Unasked
<1>5. MayReenumerate(t, AutoMode) \/ Settle(t)
  BY DEF GoHome
<1> HIDE DEF t
<1> QED
  BY <1>3, <1>4, <1>5, SettleStep, MayReenumerateStep

-----------------------------------------------------------------------------
(* What a scan returns, and where it leads.                                *)
LEMMA FoundIsFamily ==
  ASSUME plugged \in Family \cup {NoMode}, NEW s, NEW m, Usable(s, m),
         m \in FullScan \/ m \in PassiveScan \/ m = QuickScan
  PROVE  m \in Family
BY ModeTypes DEF Usable, FullScan, PassiveScan, QuickScan, Active

LEMMA Rescheduled ==
  ASSUME NEW s, Ready(s),
         NEW d \in 0..NoInputRetry, NEW q \in 0..FullScanEvery
  PROVE  /\ Ready([s EXCEPT !.nextDetect = d])
         /\ Ready([s EXCEPT !.quickMisses = q])
         /\ Ready([s EXCEPT !.quickMisses = q, !.nextDetect = d])
<1>1. s \in Memory
  BY DEF Ready, Good
<1>2. ASSUME NEW t \in Memory,
             t.deviceMode = s.deviceMode, t.adapter = s.adapter,
             t.savedDeviceMode = s.savedDeviceMode,
             t.isAutoDetectMode = s.isAutoDetectMode, t.reverted = s.reverted,
             t.rebootArmed = s.rebootArmed
      PROVE  Ready(t)
  BY <1>2, Zenon DEF Ready, Good, Fits, Listens, Unasked
<1>3. Ready([s EXCEPT !.nextDetect = d])
  BY <1>1, <1>2 DEF Memory
<1>4. Ready([s EXCEPT !.quickMisses = q])
  BY <1>1, <1>2 DEF Memory
<1>5. Ready([s EXCEPT !.quickMisses = q, !.nextDetect = d])
  BY <1>1, <1>2 DEF Memory
<1> QED
  BY <1>3, <1>4, <1>5

LEMMA SearchFullyStep ==
  ASSUME plugged \in Family \cup {NoMode}, NEW s, Ready(s), NEW waiting \in BOOLEAN,
         SearchFully(s, waiting)
  PROVE  Step
<1>1. PICK m \in FullScan :
        \/ Usable(s, m) /\ AdoptActive(s, m)
        \/ /\ ~Usable(s, m)
           /\ \E p \in PassiveScan :
                \/ Usable(s, p) /\ AdoptPassive(s, p)
                \/ /\ ~Usable(s, p)
                   /\ Settle([s EXCEPT !.nextDetect =
                                 IF waiting THEN FastRetry ELSE NoInputRetry])
  BY DEF SearchFully
<1>2. CASE Usable(s, m) /\ AdoptActive(s, m)
  <2>1. m \in Family /\ (m \in LatchFamily) \in BOOLEAN
    BY <1>2, FoundIsFamily
  <2> QED
    BY <1>2, <2>1, AdoptStep DEF AdoptActive
<1>3. ASSUME NEW p \in PassiveScan, Usable(s, p), AdoptPassive(s, p)
      PROVE  Step
  <2>1. p \in Family /\ (p \in AssistedFamily) \in BOOLEAN
    BY <1>3, FoundIsFamily
  <2> QED
    BY <1>3, <2>1, AdoptStep DEF AdoptPassive
<1>4. CASE Settle([s EXCEPT !.nextDetect = IF waiting THEN FastRetry ELSE NoInputRetry])
  <2>1. (IF waiting THEN FastRetry ELSE NoInputRetry) \in 0..NoInputRetry
    BY DelayBounds
  <2>2. 0 \in 0..FullScanEvery
    BY DelayBounds
  <2>3. Ready([s EXCEPT !.nextDetect = IF waiting THEN FastRetry ELSE NoInputRetry])
    BY <2>1, <2>2, Rescheduled
  <2> QED
    BY <1>4, <2>3, SettleStep DEF Ready
<1> QED
  BY <1>1, <1>2, <1>3, <1>4

LEMMA SearchQuicklyStep ==
  ASSUME plugged \in Family \cup {NoMode}, NEW s, Ready(s), SearchQuickly(s)
  PROVE  Step
<1>1. s \in Memory /\ s.quickMisses \in 0..FullScanEvery
  BY DEF Ready, Good, Memory
<1>2. CASE Usable(s, QuickScan) /\ AdoptActive(s, QuickScan)
  <2>1. QuickScan \in Family /\ (QuickScan \in LatchFamily) \in BOOLEAN
    BY <1>2, FoundIsFamily
  <2> QED
    BY <1>2, <2>1, AdoptStep DEF AdoptActive
<1>3. CASE /\ s.quickMisses + 1 < FullScanEvery
           /\ Settle([s EXCEPT !.quickMisses = s.quickMisses + 1, !.nextDetect = FastRetry])
  <2>1. s.quickMisses + 1 \in 0..FullScanEvery
    BY <1>1, <1>3, DelayAssumption
  <2>2. Ready([s EXCEPT !.quickMisses = s.quickMisses + 1, !.nextDetect = FastRetry])
    BY <2>1, DelayBounds, Rescheduled
  <2> QED
    BY <1>3, <2>2, SettleStep DEF Ready
<1>4. CASE SearchFully([s EXCEPT !.quickMisses = 0], TRUE)
  <2>1. Ready([s EXCEPT !.quickMisses = 0])
    BY DelayBounds, Rescheduled
  <2> QED
    BY <1>4, <2>1, SearchFullyStep
<1> QED
  BY <1>2, <1>3, <1>4 DEF SearchQuickly

LEMMA SearchStep ==
  ASSUME plugged \in Family \cup {NoMode}, NEW s, Ready(s), NEW waiting \in BOOLEAN,
         Search(s, waiting)
  PROVE  Step
<1>1. ASSUME NEW p \in PassiveScan, Usable(s, p), AdoptPassive(s, p)
      PROVE  Step
  <2>1. p \in Family /\ (p \in AssistedFamily) \in BOOLEAN
    BY <1>1, FoundIsFamily
  <2> QED
    BY <1>1, <2>1, AdoptStep DEF AdoptPassive
<1>2. CASE Settle(s)
  BY <1>2, SettleStep DEF Ready
<1>3. CASE SearchQuickly(s)
  BY <1>3, SearchQuicklyStep
<1>4. CASE SearchFully(s, FALSE)
  BY <1>4, SearchFullyStep
<1> QED
  BY <1>1, <1>2, <1>3, <1>4 DEF Search, SearchActively

-----------------------------------------------------------------------------
(* The handlers of checkAutoDetectHotSwap.                                 *)
LEMMA ConnectedStep ==
  ASSUME plugged \in Family \cup {NoMode}, NEW s, Good(s), s.isAutoDetectMode, Unasked(s),
         HandleConnected(s)
  PROVE  Step
<1> DEFINE t == [s EXCEPT !.quickMisses = 0, !.wasConnected = TRUE, !.downFor = 0,
                          !.initialized = TRUE, !.reverted = FALSE, !.grace = 0]
           now == [t EXCEPT !.nextDetect = 0]
           u == [t EXCEPT !.nextDetect = FastRetry]
<1>1. s \in Memory
  BY DEF Good
<1>2. t \in Memory
  BY <1>1, DelayBounds DEF Memory
<1>3. /\ t.deviceMode = s.deviceMode /\ t.adapter = s.adapter
      /\ t.savedDeviceMode = s.savedDeviceMode
      /\ t.isAutoDetectMode = s.isAutoDetectMode /\ t.reverted = FALSE
      /\ t.rebootArmed = s.rebootArmed
  BY <1>1 DEF Memory
<1>4. Ready(t)
  BY <1>2, <1>3, Zenon DEF Ready, Good, Fits, Listens, Unasked
<1>5. Ready(now) /\ Ready(u)
  <2> HIDE DEF t
  <2> QED
    BY <1>4, DelayBounds, Rescheduled
<1>6. Settle(now) \/ MayReenumerate(t, s.deviceMode) \/ Settle(t)
        \/ \E m \in FullScan : IF Usable(u, m) THEN AdoptActive(u, m) ELSE Settle(u)
  BY DEF HandleConnected
<1>7. ASSUME NEW m \in FullScan, Usable(u, m), AdoptActive(u, m)
      PROVE  Step
  <2>1. m \in Family /\ (m \in LatchFamily) \in BOOLEAN
    BY <1>7, FoundIsFamily
  <2> QED
    BY <1>5, <1>7, <2>1, AdoptStep DEF AdoptActive
<1> QED
  <2> HIDE DEF t, u, now
  <2> QED
    BY <1>3, <1>4, <1>5, <1>6, <1>7, SettleStep, MayReenumerateStep DEF Ready

LEMMA EdgeStep ==
  ASSUME NEW s, Good(s), s.isAutoDetectMode, Unasked(s), DisconnectEdge(s)
  PROVE  Step
<1> DEFINE t == [s EXCEPT !.wasConnected = FALSE, !.downFor = 0, !.nextDetect = 0,
                          !.reverted = FALSE, !.grace = 0]
<1>1. s \in Memory
  BY DEF Good
<1>2. t \in Memory
  BY <1>1, DelayBounds DEF Memory
<1>3. /\ t.deviceMode = s.deviceMode /\ t.adapter = s.adapter
      /\ t.savedDeviceMode = s.savedDeviceMode
      /\ t.isAutoDetectMode = s.isAutoDetectMode /\ t.reverted = FALSE
      /\ t.rebootArmed = s.rebootArmed
  BY <1>1 DEF Memory
<1>4. Good(t) /\ t.isAutoDetectMode /\ Unasked(t)
  BY <1>2, <1>3, Zenon DEF Good, Fits, Listens, Unasked
<1>5. GoHome(t) \/ Settle(t)
  BY DEF DisconnectEdge
<1> QED
  BY <1>4, <1>5, GoHomeStep, SettleStep

LEMMA StayStep ==
  ASSUME plugged \in Family \cup {NoMode}, NEW s, Good(s), s.isAutoDetectMode, Unasked(s),
         StayDisconnected(s)
  PROVE  Step
<1> DEFINE t == [s EXCEPT !.reverted = FALSE]
           first == Waiting(s) /\ s.reverted
<1>1. s \in Memory
  BY DEF Good
<1>2. CASE Settle(s)
  BY <1>2, SettleStep
<1>3. CASE Search(t, TRUE)
  <2>1. t \in Memory
    BY <1>1 DEF Memory
  <2>2. /\ t.deviceMode = s.deviceMode /\ t.adapter = s.adapter
        /\ t.savedDeviceMode = s.savedDeviceMode
        /\ t.isAutoDetectMode = s.isAutoDetectMode /\ t.reverted = FALSE
        /\ t.rebootArmed = s.rebootArmed
    BY <1>1 DEF Memory
  <2>3. Ready(t)
    BY <2>1, <2>2, Zenon DEF Ready, Good, Fits, Listens, Unasked
  <2> QED
    BY <1>3, <2>3, SearchStep
<1>4. CASE GoHome(s)
  BY <1>4, GoHomeStep
<1>5. CASE s.savedDeviceMode # AutoMode /\ Search(Restored(s), FALSE)
  <2>1. "stage" \in Remote
    BY <1>5 DEF Good, Listens
  <2>2. Restored(s) \in Memory
    BY <1>1, ModeTypes DEF Restored, Memory
  <2>3. /\ Restored(s).deviceMode = AutoMode
        /\ Restored(s).isAutoDetectMode = s.isAutoDetectMode
        /\ Restored(s).rebootArmed = s.rebootArmed
    BY <1>1 DEF Restored, Memory
  <2>4. Ready(Restored(s))
    BY <2>1, <2>2, <2>3, Zenon DEF Ready, Good, Fits, Unasked
  <2> QED
    BY <1>5, <2>4, SearchStep
<1>6. CASE ~first /\ ~Restorable(s) /\ Search(s, Waiting(s))
  <2>1. "stage" \notin Remote => ~s.reverted
    BY <1>6 DEF Restorable, Waiting, Good, Listens
  <2>2. Ready(s) /\ Waiting(s) \in BOOLEAN
    BY <2>1 DEF Ready, Waiting
  <2> QED
    BY <1>6, <2>2, SearchStep
<1> QED
  BY <1>2, <1>3, <1>4, <1>5, <1>6, Zenon DEF StayDisconnected

LEMMA InitializedGood ==
  ASSUME NEW s, Good(s)
  PROVE  Good([s EXCEPT !.initialized = TRUE, !.downFor = 0, !.nextDetect = 0])
<1> DEFINE t == [s EXCEPT !.initialized = TRUE, !.downFor = 0, !.nextDetect = 0]
<1>1. s \in Memory
  BY DEF Good
<1>2. t \in Memory
  BY <1>1, DelayBounds DEF Memory
<1>3. /\ t.deviceMode = s.deviceMode /\ t.adapter = s.adapter
      /\ t.savedDeviceMode = s.savedDeviceMode
      /\ t.isAutoDetectMode = s.isAutoDetectMode /\ t.reverted = s.reverted
  BY <1>1 DEF Memory
<1> QED
  BY <1>2, <1>3, Zenon DEF Good, Fits, Listens

LEMMA DisconnectedStep ==
  ASSUME plugged \in Family \cup {NoMode}, NEW s, Good(s), s.isAutoDetectMode, Unasked(s),
         HandleDisconnected(s)
  PROVE  Step
<1> DEFINE t == IF s.initialized THEN s
                ELSE [s EXCEPT !.initialized = TRUE, !.downFor = 0, !.nextDetect = 0]
<1>1. Good(t)
  BY InitializedGood
<1>2. t.isAutoDetectMode /\ Unasked(t)
  BY DEF Good, Memory, Unasked
<1>3. DisconnectEdge(t) \/ StayDisconnected(t)
  BY DEF HandleDisconnected
<1> QED
  BY <1>1, <1>2, <1>3, EdgeStep, StayStep

LEMMA CheckStep ==
  ASSUME plugged \in Family \cup {NoMode}, Good(ram), CheckAutoDetectHotSwap
  PROVE  Step
<1>1. Good(Tracked(ram)) /\ Tracked(ram).isAutoDetectMode /\ Unasked(Tracked(ram))
  BY TrackedGood DEF CheckAutoDetectHotSwap, Unasked
<1>2. \/ Settle(Tracked(ram))
      \/ HandleConnected(Tracked(ram))
      \/ HandleDisconnected(Tracked(ram))
  BY DEF CheckAutoDetectHotSwap
<1> QED
  BY <1>1, <1>2, SettleStep, ConnectedStep, DisconnectedStep

-----------------------------------------------------------------------------
(* The inductive invariant.  What is stored is tied to what runs, across   *)
(* the reset that hands AUTO on.                                           *)
Stored ==
  "redetect" \notin Remote =>
    /\ Running /\ ram.isAutoDetectMode => persisted = AutoMode
    /\ phase = "reenumerate" /\ scratch = AutoMode => persisted = AutoMode

Inv ==
  /\ TypeOK
  /\ HandOffOnlyForReenumeration
  /\ Good(ram)
  /\ Stored

LEMMA PoweredUpGood ==
  ASSUME NEW h, NEW a \in BOOLEAN, NEW m \in Mode, NEW v \in Mode,
         a \/ m = AutoMode <=> v = AutoMode,
         h = AutoMode => m = AutoMode
  PROVE  Good(PoweredUp(h, a, m, v))
<1>1. PoweredUp(h, a, m, v) \in Memory
  BY PoweredUpType
<1>2. /\ PoweredUp(h, a, m, v).deviceMode = m /\ PoweredUp(h, a, m, v).adapter = m
      /\ PoweredUp(h, a, m, v).savedDeviceMode = v
  BY DEF PoweredUp
<1>3. /\ PoweredUp(h, a, m, v).isAutoDetectMode <=> a \/ m = AutoMode
      /\ PoweredUp(h, a, m, v).reverted <=> h = AutoMode
  BY Zenon DEF PoweredUp
<1> QED
  BY <1>1, <1>2, <1>3, Zenon DEF Good, Fits, Listens

LEMMA InitInv == Init => Inv
<1> SUFFICES ASSUME Init
             PROVE  Inv
  OBVIOUS
<1>1. Good(ram)
  <2>1. NoMode # AutoMode /\ FALSE \in BOOLEAN
    BY DEF NoMode, AutoMode
  <2> QED
    BY <2>1, PoweredUpGood DEF Init
<1>2. TypeOK
  <2>1. plugs \in 0..MaxPlugs /\ acts \in 0..MaxActs
    BY BoundAssumption DEF Init
  <2> QED
    BY <1>1, <2>1 DEF Init, TypeOK, Good, Phase, Gate
<1> QED
  BY <1>1, <1>2 DEF Inv, Init, HandOffOnlyForReenumeration, Stored, Running

LEMMA BootInv ==
  ASSUME Inv, Boot
  PROVE  Inv'
<1> USE DEF Inv
<1>1. phase' = "running" /\ scratch' = NoMode /\ persisted' = persisted
  BY DEF Boot
<1>2. ASSUME ram' = BootedMemory
      PROVE  Good(ram') /\ Stored'
  <2>1. CASE scratch = AutoMode
    <3>1. ram' = PoweredUp(scratch, TRUE, AutoMode, AutoMode)
      BY <1>2, <2>1, ModeTypes DEF BootedMemory
    <3>2. phase = "reenumerate"
      BY <2>1, ModeTypes DEF HandOffOnlyForReenumeration
    <3>3. Good(ram')
      BY <3>1, ModeTypes, PoweredUpGood
    <3> QED
      BY <1>1, <2>1, <3>2, <3>3 DEF Stored, Running
  <2>2. CASE scratch \in Family
    <3>1. scratch # AutoMode /\ scratch \in Mode /\ persisted \in Mode
      BY <2>2, ModeTypes DEF TypeOK
    <3>2. ram' = PoweredUp(scratch, persisted = AutoMode, scratch, persisted)
      BY <1>2, <2>2, <3>1 DEF BootedMemory
    <3>3. Good(ram')
      BY <3>1, <3>2, PoweredUpGood
    <3>4. ram'.isAutoDetectMode <=> persisted = AutoMode
      BY <3>1, <3>2, Zenon DEF PoweredUp
    <3> QED
      BY <1>1, <3>3, <3>4 DEF Stored, Running
  <2>3. CASE scratch \notin Family \cup {AutoMode}
    <3>1. persisted \in Mode /\ FALSE \in BOOLEAN
      BY DEF TypeOK
    <3>2. ram' = PoweredUp(scratch, FALSE, persisted, persisted)
      BY <1>2, <2>3 DEF BootedMemory
    <3>3. Good(ram')
      BY <2>3, <3>1, <3>2, PoweredUpGood
    <3>4. ram'.isAutoDetectMode <=> persisted = AutoMode
      BY <3>2, Zenon DEF PoweredUp
    <3> QED
      BY <1>1, <3>3, <3>4 DEF Stored, Running
  <2> QED
    BY <2>1, <2>2, <2>3
<1>3. ASSUME persisted = AutoMode, plugged \in JoybusFamily, ram' = JoybusMemory
      PROVE  Good(ram') /\ Stored'
  <2> DEFINE p == PoweredUp(plugged, TRUE, plugged, AutoMode)
  <2>1. plugged \in Mode /\ plugged # AutoMode
    BY <1>3, ModeTypes
  <2>2. Good(p) /\ p \in Memory
    BY <2>1, ModeTypes, PoweredUpGood DEF Good
  <2>3. ram' = [p EXCEPT !.wasConnected = TRUE, !.initialized = TRUE]
    BY <1>3 DEF JoybusMemory
  <2> HIDE DEF p
  <2>4. ram' \in Memory
    BY <2>2, <2>3 DEF Memory
  <2>5. /\ ram'.deviceMode = p.deviceMode /\ ram'.adapter = p.adapter
        /\ ram'.savedDeviceMode = p.savedDeviceMode
        /\ ram'.isAutoDetectMode = p.isAutoDetectMode /\ ram'.reverted = p.reverted
    BY <2>2, <2>3 DEF Memory
  <2>6. Good(ram')
    BY <2>2, <2>4, <2>5, Zenon DEF Good, Fits, Listens
  <2> QED
    BY <1>1, <1>3, <2>6 DEF Stored, Running
<1>4. Good(ram') /\ Stored'
  BY <1>1, <1>2, <1>3 DEF Boot
<1>5. TypeOK'
  BY <1>1, <1>4 DEF Boot, TypeOK, Good, Phase, Gate
<1> QED
  BY <1>1, <1>4, <1>5 DEF HandOffOnlyForReenumeration

LEMMA CheckInv ==
  ASSUME Inv, CheckAutoDetectHotSwap
  PROVE  Inv'
<1>1. Step
  BY CheckStep DEF Inv, TypeOK
<1>2. /\ phase = "running" /\ ram.isAutoDetectMode /\ scratch = NoMode
      /\ UNCHANGED <<persisted, gate, plugged, acts>>
  BY DEF CheckAutoDetectHotSwap, Running, Inv, HandOffOnlyForReenumeration
<1>3. plugs' \in 0..MaxPlugs
  BY BoundAssumption
     DEF CheckAutoDetectHotSwap, HandleConnected, HandleDisconnected, Inv, TypeOK
<1>4. ram' \in Memory /\ scratch' \in Mode \cup {NoMode} /\ phase' \in Phase
  BY <1>1, <1>2 DEF Step, Good, Memory, Phase
<1>5. TypeOK'
  BY <1>2, <1>3, <1>4 DEF Inv, TypeOK
<1>6. HandOffOnlyForReenumeration'
  BY <1>1, <1>2 DEF Step, HandOffOnlyForReenumeration
<1>7. Stored'
  BY <1>2 DEF Inv, Stored, Running
<1> QED
  BY <1>1, <1>5, <1>6, <1>7 DEF Inv, Step

(* Resets by a person, a probe or the power.                               *)
LEMMA ResetInv ==
  ASSUME Inv, NEW s, Good(s), NEW cause \in {"probe", "person", "power"},
         Reset(s, cause, NoMode),
         persisted' \in Mode, gate' = gate, UNCHANGED <<plugged, plugs>>,
         acts' \in 0..MaxActs
  PROVE  Inv'
<1>1. /\ phase' \in Phase /\ phase' # "running" /\ phase' # "reenumerate"
      /\ scratch' = NoMode /\ ram' = s
  BY DEF Reset, Phase
<1>2. TypeOK'
  BY <1>1 DEF Inv, TypeOK, Good
<1> QED
  BY <1>1, <1>2 DEF Inv, HandOffOnlyForReenumeration, Stored, Running, Good

(* Steps that leave the memory as it is, the re-enumerations among them.   *)
LEMMA SameMemoryInv ==
  ASSUME Inv, UNCHANGED <<ram, persisted>>, gate' \in Gate,
         \/ UNCHANGED <<phase, scratch>>
         \/ phase' = "reenumerate" /\ scratch' \in Family \cup {NoMode},
         plugged' \in Family \cup {NoMode},
         plugs' \in 0..MaxPlugs, acts' \in 0..MaxActs
  PROVE  Inv'
<1>1. NoMode # AutoMode /\ Family \subseteq Mode /\ AutoMode \notin Family
  BY ModeTypes DEF NoMode, AutoMode
<1>2. TypeOK'
  BY <1>1 DEF Inv, TypeOK, Phase
<1>3. HandOffOnlyForReenumeration' /\ Stored'
  BY <1>1 DEF Inv, HandOffOnlyForReenumeration, Stored, Running
<1> QED
  BY <1>2, <1>3 DEF Inv, Good

(* Steps of a running device that set the memory in place.                 *)
LEMMA NewMemoryInv ==
  ASSUME Inv, Running, UNCHANGED <<phase, scratch, gate, plugged, plugs>>,
         Good(ram'), persisted' \in Mode, acts' \in 0..MaxActs,
         "redetect" \notin Remote => (ram'.isAutoDetectMode => persisted' = AutoMode)
  PROVE  Inv'
BY DEF Inv, TypeOK, Good, HandOffOnlyForReenumeration, Stored, Running

LEMMA ActCounts ==
  ASSUME TypeOK, Act
  PROVE  acts' \in 0..MaxActs /\ UNCHANGED <<plugged, plugs>>
BY BoundAssumption DEF TypeOK, Act

(* What actions of the loop and of people make of a good memory.           *)
LEMMA PolledGood ==
  ASSUME Good(ram)
  PROVE  LET t == [ram EXCEPT !.connected = Sees(ram.adapter)]
         IN  Good(t) /\ t.isAutoDetectMode = ram.isAutoDetectMode
<1> DEFINE t == [ram EXCEPT !.connected = Sees(ram.adapter)]
<1>1. ram \in Memory /\ Sees(ram.adapter) \in BOOLEAN
  BY SeesType DEF Good
<1>2. t \in Memory
  BY <1>1 DEF Memory
<1>3. /\ t.deviceMode = ram.deviceMode /\ t.adapter = ram.adapter
      /\ t.savedDeviceMode = ram.savedDeviceMode
      /\ t.isAutoDetectMode = ram.isAutoDetectMode /\ t.reverted = ram.reverted
  BY <1>1 DEF Memory
<1> QED
  BY <1>2, <1>3, Zenon DEF Good, Fits, Listens

LEMMA SentHomeGood ==
  ASSUME Good(ram)
  PROVE  /\ Good([ram EXCEPT !.deviceMode = AutoMode, !.savedDeviceMode = AutoMode,
                             !.isAutoDetectMode = TRUE, !.rebootArmed = TRUE])
         /\ Good([ram EXCEPT !.deviceMode = AutoMode, !.savedDeviceMode = AutoMode,
                             !.isAutoDetectMode = TRUE, !.grace = 0,
                             !.reverted = TRUE, !.nextDetect = 0])
<1> DEFINE held == [ram EXCEPT !.deviceMode = AutoMode, !.savedDeviceMode = AutoMode,
                               !.isAutoDetectMode = TRUE, !.rebootArmed = TRUE]
           told == [ram EXCEPT !.deviceMode = AutoMode, !.savedDeviceMode = AutoMode,
                               !.isAutoDetectMode = TRUE, !.grace = 0,
                               !.reverted = TRUE, !.nextDetect = 0]
<1>1. ram \in Memory
  BY DEF Good
<1>2. held \in Memory /\ told \in Memory
  BY <1>1, DelayBounds, ModeTypes DEF Memory
<1>3. /\ held.deviceMode = AutoMode /\ held.savedDeviceMode = AutoMode
      /\ held.isAutoDetectMode
      /\ told.deviceMode = AutoMode /\ told.savedDeviceMode = AutoMode
      /\ told.isAutoDetectMode
  BY <1>1 DEF Memory
<1> QED
  BY <1>2, <1>3, Zenon DEF Good, Fits, Listens

LEMMA StagedGood ==
  ASSUME Good(ram), NEW m \in Mode, "stage" \in Remote
  PROVE  LET t == [ram EXCEPT !.savedDeviceMode = m]
         IN  Good(t) /\ t.isAutoDetectMode = ram.isAutoDetectMode
<1>1. ram \in Memory
  BY DEF Good
<1> QED
  BY <1>1 DEF Good, Fits, Memory

LEMMA TakenOverGood ==
  ASSUME Good(ram), NEW m \in Family
  PROVE  Good(TakenOver(m)) /\ ~TakenOver(m).isAutoDetectMode
<1>1. ram \in Memory /\ Sees(m) \in BOOLEAN /\ m \in Mode /\ m # AutoMode
  BY SeesType, ModeTypes DEF Good
<1>2. TakenOver(m) \in Memory
  BY <1>1, DelayBounds DEF TakenOver, Memory
<1>3. /\ TakenOver(m).deviceMode = m /\ TakenOver(m).adapter = m
      /\ TakenOver(m).savedDeviceMode = m
      /\ ~TakenOver(m).isAutoDetectMode
  BY <1>1 DEF TakenOver, Memory
<1> QED
  BY <1>1, <1>2, <1>3, Zenon DEF Good, Fits, Listens

LEMMA PersistedForMode ==
  ASSUME TypeOK, NEW m \in Mode
  PROVE  PersistedFor(m) \in Mode
BY DEF TypeOK, Memory, PersistedFor

(* Saving the mode in use: whoever sits at home stays with AUTO.           *)
LEMMA AppliedGood ==
  ASSUME TypeOK, Good(ram)
  PROVE  LET v == PersistedFor(ram.deviceMode)
             t == [ram EXCEPT !.savedDeviceMode = v, !.isAutoDetectMode = v = AutoMode]
         IN  Good(t) /\ (t.isAutoDetectMode <=> v = AutoMode)
<1> DEFINE v == PersistedFor(ram.deviceMode)
           t == [ram EXCEPT !.savedDeviceMode = v, !.isAutoDetectMode = v = AutoMode]
<1>1. ram \in Memory /\ ram.deviceMode \in Mode /\ (v = AutoMode) \in BOOLEAN
  BY DEF Good, Memory
<1>2. v \in Mode
  BY <1>1, PersistedForMode
<1> SUFFICES Good(t) /\ (t.isAutoDetectMode <=> v = AutoMode)
  OBVIOUS
<1>3. v = IF ram.savedDeviceMode = AutoMode \/ ram.isAutoDetectMode
          THEN ram.savedDeviceMode ELSE ram.deviceMode
  BY DEF PersistedFor
<1> HIDE DEF v
<1>4. t \in Memory
  BY <1>1, <1>2 DEF Memory
<1>5. /\ t.deviceMode = ram.deviceMode /\ t.adapter = ram.adapter
      /\ t.savedDeviceMode = v /\ t.reverted = ram.reverted
  BY <1>1 DEF Memory
<1>6. t.isAutoDetectMode <=> v = AutoMode
  BY <1>1, Zenon DEF Memory
<1>7. "stage" \notin Remote => Listens(t)
  <2> SUFFICES ASSUME "stage" \notin Remote
               PROVE  Listens(t)
    OBVIOUS
  <2>1. Listens(ram)
    BY DEF Good
  <2>2. t.isAutoDetectMode <=> t.savedDeviceMode = AutoMode
    BY <1>5, <1>6
  <2>3. t.deviceMode = AutoMode => v = AutoMode
    BY <1>3, <1>5, <2>1 DEF Listens
  <2>4. v = AutoMode /\ ram.deviceMode # AutoMode => ram.isAutoDetectMode
    BY <1>3, <2>1 DEF Listens
  <2>5. t.isAutoDetectMode /\ t.deviceMode # AutoMode => ~t.reverted
    BY <1>5, <1>6, <2>1, <2>4, Zenon DEF Listens
  <2> HIDE DEF t
  <2> QED
    BY <1>6, <2>2, <2>3, <2>5 DEF Listens
<1> HIDE DEF t
<1> QED
  BY <1>4, <1>5, <1>6, <1>7 DEF Good, Fits

LEMMA PersonInv ==
  ASSUME Inv, Person
  PROVE  Inv'
<1>1. TypeOK /\ Good(ram) /\ Stored
  BY DEF Inv
<1>2. AutoMode \in Mode /\ persisted \in Mode /\ ram.savedDeviceMode \in Mode
  BY <1>1, ModeTypes DEF TypeOK, Memory
<1>3. CASE PowerCycle \/ ResetTap
  BY <1>1, <1>2, <1>3, ActCounts, ResetInv DEF PowerCycle, ResetTap
<1>4. CASE ResetHold
  BY <1>1, <1>2, <1>4, ActCounts, SentHomeGood, NewMemoryInv DEF ResetHold, Settle
<1>5. CASE ResetReleased
  <2>1. acts' \in 0..MaxActs
    BY <1>1, <1>5 DEF ResetReleased, TypeOK
  <2> QED
    BY <1>1, <1>2, <1>5, <2>1, ResetInv DEF ResetReleased
<1>6. CASE SerialRedetect
  <2>1. "redetect" \in Remote
    BY <1>6 DEF SerialRedetect
  <2> QED
    BY <1>1, <1>2, <1>6, <2>1, ActCounts, SentHomeGood, NewMemoryInv
       DEF SerialRedetect, Settle
<1>7. ASSUME NEW m \in Mode, SaveQuickMenu(m)
      PROVE  Inv'
  <2>1. PersistedFor(m) \in Mode /\ persisted' = PersistedFor(m) /\ Running /\ gate' = gate
    BY <1>1, <1>7, PersistedForMode DEF SaveQuickMenu
  <2>2. acts' \in 0..MaxActs /\ UNCHANGED <<plugged, plugs>>
    BY <1>1, <1>7, ActCounts DEF SaveQuickMenu
  <2>3. CASE m # AutoMode /\ Settle(TakenOver(m))
    <3>1. m \in Family
      BY <2>3 DEF Mode
    <3> QED
      BY <1>1, <2>1, <2>2, <2>3, <3>1, TakenOverGood, NewMemoryInv DEF Settle
  <2>4. CASE /\ m = ram.deviceMode
             /\ Settle([ram EXCEPT !.savedDeviceMode = PersistedFor(m),
                                   !.isAutoDetectMode = PersistedFor(m) = AutoMode])
    <3>1. Good(ram') /\ (ram'.isAutoDetectMode <=> PersistedFor(m) = AutoMode)
      BY <1>1, <2>4, AppliedGood DEF Settle
    <3> QED
      BY <2>1, <2>2, <2>4, <3>1, NewMemoryInv DEF Settle
  <2>5. CASE Reset(ram, "person", NoMode)
    BY <1>1, <2>1, <2>2, <2>5, ResetInv
  <2> QED
    BY <1>7, <2>3, <2>4, <2>5 DEF SaveQuickMenu
<1>8. ASSUME NEW m \in Mode, SaveSystemMenu(m)
      PROVE  Inv'
  BY <1>1, <1>8, PersistedForMode, ActCounts, ResetInv DEF SaveSystemMenu
<1>9. ASSUME NEW m \in Mode, SelectOutput(m)
      PROVE  Inv'
  BY <1>1, <1>2, <1>9, ActCounts, ResetInv DEF SelectOutput
<1>10. ASSUME NEW m \in Mode, StageInput(m)
       PROVE  Inv'
  <2>1. Good(ram') /\ ram'.isAutoDetectMode = ram.isAutoDetectMode
    BY <1>1, <1>10, StagedGood DEF StageInput, Settle
  <2>2. acts' \in 0..MaxActs
    BY <1>1, <1>10, ActCounts DEF StageInput
  <2>3. "redetect" \notin Remote => (ram'.isAutoDetectMode => persisted' = AutoMode)
    BY <1>1, <1>10, <2>1 DEF StageInput, Stored
  <2> QED
    BY <1>1, <1>2, <1>10, <2>1, <2>2, <2>3, NewMemoryInv DEF StageInput, Settle, Act
<1> QED
  BY <1>3, <1>4, <1>5, <1>6, <1>7, <1>8, <1>9, <1>10 DEF Person

LEMMA NextInv == Inv /\ [Next]_vars => Inv'
<1> SUFFICES ASSUME Inv, [Next]_vars
             PROVE  Inv'
  OBVIOUS
<1>1. TypeOK /\ Good(ram) /\ Stored
  BY DEF Inv
<1>2. CASE Boot
  BY <1>2, BootInv
<1>3. CASE CheckAutoDetectHotSwap
  BY <1>3, CheckInv
<1>4. CASE PollInput
  <2>1. Good(ram') /\ ram'.isAutoDetectMode = ram.isAutoDetectMode
    BY <1>1, <1>4, PolledGood DEF PollInput
  <2> QED
    BY <1>1, <1>4, <2>1, NewMemoryInv DEF PollInput, Stored, TypeOK
<1>5. CASE Tick
  <2>1. Good(ram') /\ ram'.isAutoDetectMode = ram.isAutoDetectMode
    BY <1>1, <1>5, AgedGood DEF Tick, Aged, Good, Memory
  <2> QED
    BY <1>1, <1>5, <2>1, NewMemoryInv DEF Tick, Stored, TypeOK
<1>6. CASE Plug
  <2>1. plugs' \in 0..MaxPlugs
    BY <1>1, <1>6, BoundAssumption DEF Plug, TypeOK
  <2> QED
    BY <1>1, <1>6, <2>1, SameMemoryInv DEF Plug, TypeOK
<1>7. CASE HostChanges
  <2>1. gate' \in Gate
    BY <1>7 DEF HostChanges, Gate
  <2> QED
    BY <1>1, <1>7, <2>1, ActCounts, SameMemoryInv DEF HostChanges, TypeOK
<1>8. CASE OutputVerdict
  <2>1. ram.deviceMode # AutoMode => ram.deviceMode \in Family
    BY <1>1 DEF TypeOK, Memory, Mode
  <2>2. scratch' \in Family \cup {NoMode} /\ phase' = "reenumerate" /\ ram' = ram
    BY <1>8, <2>1 DEF OutputVerdict, Reset, Waiting
  <2> QED
    BY <1>1, <1>8, <2>2, ActCounts, SameMemoryInv DEF OutputVerdict, TypeOK
<1>9. CASE OutputProbe
  BY <1>1, <1>9, ActCounts, ResetInv DEF OutputProbe, TypeOK
<1>10. CASE PlayerCountChanged
  <2>1. scratch' \in Family \cup {NoMode} /\ phase' = "reenumerate" /\ ram' = ram
    BY <1>10, ModeTypes DEF PlayerCountChanged, Reset
  <2> QED
    BY <1>1, <1>10, <2>1, ActCounts, SameMemoryInv DEF PlayerCountChanged, TypeOK
<1>11. CASE Person
  BY <1>11, PersonInv
<1>12. CASE UNCHANGED vars
  BY <1>12 DEF vars, Inv, TypeOK, HandOffOnlyForReenumeration, Good, Stored, Running
<1> QED
  BY <1>2, <1>3, <1>4, <1>5, <1>6, <1>7, <1>8, <1>9, <1>10, <1>11, <1>12
     DEF Next, Firmware

LEMMA Invariance == Spec => []Inv
<1>1. Init => Inv
  BY InitInv
<1>2. Inv /\ [Next]_vars => Inv'
  BY NextInv
<1> QED
  BY <1>1, <1>2, PTL DEF Spec

-----------------------------------------------------------------------------
(* Every variable keeps its type, for all families and delays; no age      *)
(* outgrows its delay and no mode is handed on that does not exist.        *)
THEOREM TypeCorrect == Spec => []TypeOK
BY Invariance, PTL DEF Inv

(* Whatever people, output detection and remote commands do, only a        *)
(* re-enumeration leaves a mode in the registers, and one boot takes it.   *)
THEOREM HandOffIsForReenumeration == Spec => []HandOffOnlyForReenumeration
BY Invariance, PTL DEF Inv

(* The driver that polls is the driver of the mode in use, also under      *)
(* every remote command.                                                   *)
THEOREM DriverAlwaysFits == Spec => []DriverFitsMode
<1>1. Inv => DriverFitsMode
  BY DEF Inv, Good, Fits, DriverFitsMode, Waiting
<1> QED
  BY <1>1, Invariance, PTL

(* Without the serial command that sends any device home, a controller     *)
(* stored by hand stops the hot swap, through every reset.                 *)
THEOREM StoredSelectionWins ==
  ASSUME "redetect" \notin Remote
  PROVE  Spec => []StoredSelectionStopsHotSwap
<1>1. Inv => StoredSelectionStopsHotSwap
  BY DEF Inv, Stored, StoredSelectionStopsHotSwap
<1> QED
  BY <1>1, Invariance, PTL

(* Unless WebHID stages a mode, a device that shows AUTO looks for         *)
(* controllers.                                                            *)
THEOREM HomeAlwaysListens ==
  ASSUME "stage" \notin Remote
  PROVE  Spec => []HomeListens
<1>1. Inv => HomeListens
  BY DEF Inv, Good, Listens, HomeListens, Waiting
<1> QED
  BY <1>1, Invariance, PTL

-----------------------------------------------------------------------------
(* Where a resolved session goes: the handlers, one by one.                *)
LEMMA ConnectedKeepsFamily ==
  ASSUME NEW s, Good(s), ~Waiting(s), HandleConnected(s)
  PROVE  ram'.deviceMode = s.deviceMode /\ ram'.isAutoDetectMode = s.isAutoDetectMode
<1> DEFINE t == [s EXCEPT !.quickMisses = 0, !.wasConnected = TRUE, !.downFor = 0,
                          !.initialized = TRUE, !.reverted = FALSE, !.grace = 0]
           now == [t EXCEPT !.nextDetect = 0]
<1>1. s \in Memory
  BY DEF Good
<1>2. /\ t.deviceMode = s.deviceMode /\ now.deviceMode = s.deviceMode
      /\ t.isAutoDetectMode = s.isAutoDetectMode /\ now.isAutoDetectMode = s.isAutoDetectMode
  BY <1>1 DEF Memory
<1>3. Settle(now) \/ MayReenumerate(t, s.deviceMode)
  BY DEF HandleConnected
<1> HIDE DEF t, now
<1> QED
  BY <1>2, <1>3 DEF MayReenumerate, Settle, Reset

LEMMA GoHomeEndsHome ==
  ASSUME NEW s \in Memory, GoHome(s)
  PROVE  ram'.deviceMode = AutoMode /\ ram'.isAutoDetectMode
<1> DEFINE t == [Restored(s) EXCEPT
                   !.isAutoDetectMode = TRUE, !.grace = 0,
                   !.initialized = TRUE, !.downFor = 0, !.nextDetect = 0,
                   !.adapter = AutoMode, !.connected = FALSE, !.quickMisses = 0]
<1>1. t.deviceMode = AutoMode /\ t.isAutoDetectMode
  BY DEF Restored, Memory
<1>2. MayReenumerate(t, AutoMode) \/ Settle(t)
  BY DEF GoHome
<1> HIDE DEF t
<1> QED
  BY <1>1, <1>2 DEF MayReenumerate, Settle, Reset

LEMMA DisconnectedGoesHome ==
  ASSUME "stage" \notin Remote, NEW s, Good(s), s.isAutoDetectMode, ~Waiting(s),
         HandleDisconnected(s)
  PROVE  ram'.deviceMode \in {s.deviceMode, AutoMode} /\ ram'.isAutoDetectMode
<1> DEFINE i == [s EXCEPT !.initialized = TRUE, !.downFor = 0, !.nextDetect = 0]
           t == IF s.initialized THEN s ELSE i
           e == [t EXCEPT !.wasConnected = FALSE, !.downFor = 0, !.nextDetect = 0,
                          !.reverted = FALSE, !.grace = 0]
<1>1. s \in Memory
  BY DEF Good
<1>2. Good(i) /\ i.deviceMode = s.deviceMode /\ i.isAutoDetectMode = s.isAutoDetectMode
  BY <1>1, InitializedGood DEF Memory
<1>3. Good(t) /\ t \in Memory /\ t.deviceMode = s.deviceMode /\ t.isAutoDetectMode
  <2> HIDE DEF i
  <2> QED
    BY <1>2 DEF Good
<1>4. DisconnectEdge(t) \/ StayDisconnected(t)
  BY DEF HandleDisconnected
<1> HIDE DEF t
<1>5. e \in Memory /\ e.deviceMode = s.deviceMode /\ e.isAutoDetectMode
  BY <1>3, DelayBounds DEF Memory
<1>6. CASE DisconnectEdge(t)
  <2>1. GoHome(e) \/ Settle(e)
    BY <1>6 DEF DisconnectEdge
  <2> HIDE DEF e
  <2> QED
    BY <1>5, <2>1, GoHomeEndsHome DEF Settle
<1>7. CASE StayDisconnected(t)
  <2>1. ~Waiting(t) /\ t.savedDeviceMode = AutoMode /\ Restorable(t)
    BY <1>3 DEF Waiting, Restorable, Good, Listens
  <2>2. Settle(t) \/ GoHome(t)
    BY <1>7, <2>1, Zenon DEF StayDisconnected
  <2> QED
    BY <1>3, <2>2, GoHomeEndsHome DEF Settle
<1> QED
  BY <1>4, <1>6, <1>7

LEMMA CheckKeepsFamily ==
  ASSUME "stage" \notin Remote, Good(ram), ~Waiting(ram), CheckAutoDetectHotSwap
  PROVE  ram'.deviceMode \in {ram.deviceMode, AutoMode} /\ ram'.isAutoDetectMode
<1> DEFINE t == Tracked(ram)
<1>1. /\ Good(t) /\ t.deviceMode = ram.deviceMode /\ ~Waiting(t)
      /\ t.isAutoDetectMode
  BY TrackedGood DEF CheckAutoDetectHotSwap, Waiting
<1>2. Settle(t) \/ HandleConnected(t) \/ HandleDisconnected(t)
  BY DEF CheckAutoDetectHotSwap
<1> HIDE DEF t
<1> QED
  BY <1>1, <1>2, ConnectedKeepsFamily, DisconnectedGoesHome DEF Settle

LEMMA PersonKeepsFamily ==
  ASSUME Remote = {}, Inv, Person, Running, phase' = "running",
         persisted' = persisted, ram.isAutoDetectMode
  PROVE  ram'.deviceMode \in {ram.deviceMode, AutoMode}
<1>1. ram \in Memory /\ persisted = AutoMode
  BY DEF Inv, Good, Stored
<1>2. CASE ResetHold
  BY <1>1, <1>2 DEF ResetHold, Settle, Memory
<1>3. ASSUME NEW m \in Mode, SaveQuickMenu(m)
      PROVE  ram'.deviceMode = ram.deviceMode
  <2>1. m # ram.deviceMode => PersistedFor(m) = m
    BY DEF PersistedFor
  <2>2. ~(m # ram.deviceMode /\ m # AutoMode)
    BY <1>1, <1>3, <2>1 DEF SaveQuickMenu
  <2>3. Settle([ram EXCEPT !.savedDeviceMode = PersistedFor(m),
                          !.isAutoDetectMode = PersistedFor(m) = AutoMode])
    BY <1>3, <2>2 DEF SaveQuickMenu, Reset
  <2> QED
    BY <1>1, <2>3 DEF Settle, Memory
<1> QED
  BY <1>2, <1>3
     DEF Person, PowerCycle, ResetTap, ResetReleased, SerialRedetect, SaveSystemMenu,
         SelectOutput, StageInput, Reset

-----------------------------------------------------------------------------
(* The refinement of InputSession.                                         *)

(* What a boot makes of the session: it goes on with what is handed over   *)
(* or stored, unless a Joybus controller is there for a session at home.   *)
LEMMA BootGoesOn ==
  ASSUME Inv, Boot
  PROVE  LET m == IF scratch # NoMode THEN scratch ELSE persisted
         IN  /\ m \in Mode
             /\ ram'.deviceMode = m \/ (m = AutoMode /\ ram'.deviceMode \in Family)
             /\ scratch = AutoMode => persisted = AutoMode \/ "redetect" \in Remote
             /\ ram'.isAutoDetectMode <=> persisted = AutoMode \/ scratch = AutoMode
             /\ ~ram'.rebootArmed
<1> DEFINE m == IF scratch # NoMode THEN scratch ELSE persisted
<1>1. /\ persisted \in Mode /\ scratch \in Mode \cup {NoMode}
      /\ NoMode \notin Mode /\ AutoMode # NoMode
  BY ModeTypes DEF Inv, TypeOK
<1>2. scratch = AutoMode => persisted = AutoMode \/ "redetect" \in Remote
  BY <1>1 DEF Inv, HandOffOnlyForReenumeration, Stored
<1>3. CASE ram' = BootedMemory
  <2>1. CASE scratch = AutoMode
    <3>1. ram' = PoweredUp(scratch, TRUE, AutoMode, AutoMode)
      BY <1>3, <2>1, ModeTypes DEF BootedMemory
    <3> QED
      BY <1>1, <1>2, <2>1, <3>1, Zenon DEF PoweredUp
  <2>2. CASE scratch \in Family
    <3>1. scratch # AutoMode /\ scratch # NoMode
      BY <2>2, ModeTypes
    <3>2. ram' = PoweredUp(scratch, persisted = AutoMode, scratch, persisted)
      BY <1>3, <2>2, <3>1 DEF BootedMemory
    <3> QED
      BY <1>1, <1>2, <2>2, <3>1, <3>2, Zenon DEF PoweredUp
  <2>3. CASE scratch = NoMode
    <3>1. ram' = PoweredUp(scratch, FALSE, persisted, persisted)
      BY <1>1, <1>3, <2>3, ModeTypes DEF BootedMemory
    <3> QED
      BY <1>1, <2>3, <3>1, Zenon DEF PoweredUp
  <2> QED
    BY <1>1, <2>1, <2>2, <2>3 DEF Mode
<1>4. CASE /\ persisted = AutoMode /\ scratch \in {NoMode, AutoMode}
           /\ plugged \in JoybusFamily /\ ram' = JoybusMemory
  <2> DEFINE p == PoweredUp(plugged, TRUE, plugged, AutoMode)
  <2>1. plugged \in Mode /\ plugged \in Family /\ p \in Memory
    BY <1>4, ModeTypes, PoweredUpType
  <2>2. p.deviceMode = plugged /\ p.isAutoDetectMode /\ ~p.rebootArmed
    BY Zenon DEF PoweredUp
  <2>3. ram' = [p EXCEPT !.wasConnected = TRUE, !.initialized = TRUE]
    BY <1>4 DEF JoybusMemory
  <2> HIDE DEF p
  <2>4. ram'.deviceMode = plugged /\ ram'.isAutoDetectMode /\ ~ram'.rebootArmed
    BY <2>1, <2>2, <2>3 DEF Memory
  <2> QED
    BY <1>1, <1>4, <2>1, <2>4
<1> QED
  BY <1>3, <1>4 DEF Boot

LEMMA BootKeepsSession ==
  ASSUME Remote = {}, Inv, Boot
  PROVE  Session!Start \/ Session!Find \/ Session!Stay
<1> DEFINE m == IF scratch # NoMode THEN scratch ELSE persisted
<1>1. /\ m \in Mode
      /\ ram'.deviceMode = m \/ (m = AutoMode /\ ram'.deviceMode \in Family)
      /\ ram'.isAutoDetectMode <=> persisted = AutoMode
      /\ m = AutoMode => persisted = AutoMode
      /\ ~ram'.rebootArmed
  BY BootGoesOn
<1>2. /\ Running' /\ Lasting' /\ ~Running /\ UNCHANGED <<persisted, acts>>
      /\ InUse' = ram'.deviceMode /\ (Fixed' <=> ~ram'.isAutoDetectMode)
  BY DEF Boot, Running, Lasting, InUse, Fixed
<1>3. Session!Unaided
  BY <1>1, <1>2 DEF Session!Unaided
<1>4. CASE Lasting
  <2>1. InUse = m /\ (Fixed <=> persisted # AutoMode)
    BY <1>2, <1>4 DEF InUse, Fixed
  <2> HIDE DEF m
  <2>2. CASE ram'.deviceMode = m
    BY <1>1, <1>2, <1>3, <1>4, <2>1, <2>2 DEF Session!Stay
  <2>3. CASE m = AutoMode /\ ram'.deviceMode \in Family
    BY <1>1, <1>2, <1>3, <1>4, <2>1, <2>3 DEF Session!Find
  <2> QED
    BY <1>1, <2>2, <2>3
<1>5. CASE ~Lasting
  <2>1. m = persisted
    BY <1>5 DEF Inv, HandOffOnlyForReenumeration, Lasting
  <2> HIDE DEF m
  <2> QED
    BY <1>1, <1>2, <1>3, <1>5, <2>1 DEF Session!Start
<1> QED
  BY <1>4, <1>5

LEMMA CheckKeepsSession ==
  ASSUME Remote = {}, Inv, CheckAutoDetectHotSwap
  PROVE  Session!Find \/ Session!Leave \/ Session!Stay
<1>1. Good(ram) /\ Step /\ Running /\ ram.isAutoDetectMode /\ UNCHANGED <<persisted, acts>>
  BY CheckStep DEF Inv, TypeOK, CheckAutoDetectHotSwap
<1>2. persisted = AutoMode /\ ram.deviceMode \in Mode /\ ram'.deviceMode \in Mode
  BY <1>1 DEF Inv, Stored, Step, Good, Memory
<1>3. Lasting /\ InUse = ram.deviceMode /\ ~Fixed
  BY <1>1 DEF Lasting, Running, InUse, Fixed
<1>4. Lasting' /\ InUse' = ram'.deviceMode
  <2>1. NoMode \notin Mode
    BY ModeTypes
  <2> QED
    BY <1>1, <1>2, <2>1 DEF Step, Lasting, Running, InUse
<1>5. ram'.isAutoDetectMode => ~Fixed'
  BY <1>1, <1>2 DEF Step, Fixed, Running
<1>6. Session!Unaided
  BY <1>1, <1>3, <1>4 DEF Session!Unaided, Step, Unasked
<1>7. ram'.deviceMode = AutoMode => ram'.isAutoDetectMode
  BY <1>1 DEF Step, Good, Listens
<1>8. CASE Waiting(ram) /\ ram'.deviceMode # AutoMode
  BY <1>2, <1>3, <1>4, <1>6, <1>8 DEF Session!Find, Mode, Waiting
<1>9. CASE Waiting(ram) /\ ram'.deviceMode = AutoMode
  BY <1>3, <1>4, <1>5, <1>6, <1>7, <1>9 DEF Session!Stay, Waiting
<1>10. CASE ~Waiting(ram)
  <2>1. ram'.deviceMode \in {ram.deviceMode, AutoMode} /\ ram'.isAutoDetectMode
    BY <1>1, <1>10, CheckKeepsFamily
  <2> QED
    BY <1>3, <1>4, <1>5, <1>6, <1>10, <2>1 DEF Session!Stay, Session!Leave, Waiting
<1> QED
  BY <1>8, <1>9, <1>10

(* What people and the output side leave behind.                           *)
LEMMA ActsIntervene ==
  ASSUME Remote = {}, Inv, Inv', Act,
         /\ Lasting /\ Lasting' /\ ~Fixed /\ persisted' = persisted
         => InUse' \in {InUse, AutoMode}
  PROVE  Session!Intervene
<1>1. acts' = acts + 1
  BY DEF Act
<1>2. persisted' \in Mode /\ InUse' \in Mode
  BY ModeTypes DEF Inv, TypeOK, Memory, InUse
<1>3. Lasting' /\ persisted' # AutoMode => Fixed'
  BY DEF Inv, Stored, Lasting, Fixed, Running
<1> QED
  BY <1>1, <1>2, <1>3 DEF Session!Intervene, Session!Choice, Mode

LEMMA OutputIntervenes ==
  ASSUME Remote = {}, Inv, Inv', HostChanges \/ OutputVerdict \/ OutputProbe \/ PlayerCountChanged
  PROVE  Session!Intervene
<1>1. Act /\ Running /\ persisted' = persisted
  BY DEF HostChanges, OutputVerdict, OutputProbe, PlayerCountChanged
<1> SUFFICES ASSUME Lasting', ~Fixed
             PROVE  InUse' \in {InUse, AutoMode}
  BY <1>1, ActsIntervene
<1>2. InUse = ram.deviceMode /\ ram.isAutoDetectMode /\ persisted = AutoMode
  BY <1>1 DEF Inv, Stored, Lasting, Fixed, InUse, Running
<1>3. CASE HostChanges
  BY <1>1, <1>2, <1>3 DEF HostChanges, InUse, Running, Lasting
<1>4. CASE OutputVerdict
  BY <1>1, <1>2, <1>4 DEF OutputVerdict, Reset, InUse, Running, Lasting
<1>5. CASE OutputProbe
  BY <1>5 DEF OutputProbe, Reset, Lasting
<1>6. CASE PlayerCountChanged
  BY <1>2, <1>6 DEF PlayerCountChanged
<1> QED
  BY <1>3, <1>4, <1>5, <1>6

LEMMA PersonIntervenes ==
  ASSUME Remote = {}, Inv, Inv', Person
  PROVE  Session!Intervene \/ Session!Restart
<1>1. CASE ResetReleased
  <2>1. Lasting /\ ram.rebootArmed /\ ~Lasting' /\ InUse' = AutoMode /\ ~Fixed'
    BY <1>1 DEF ResetReleased, Reset, Running, Lasting, InUse, Fixed
  <2> QED
    BY <1>1, <2>1 DEF ResetReleased, Session!Restart, Session!Unaided
<1>2. CASE PowerCycle
  <2>1. Act /\ ~Lasting'
    BY <1>2 DEF PowerCycle, Reset, Lasting
  <2> QED
    BY <2>1, ActsIntervene
<1>3. CASE ~ResetReleased /\ ~PowerCycle
  <2>1. Act /\ Running /\ phase' \in {"running", "person"}
    BY <1>3 DEF Person, ResetTap, ResetHold, SerialRedetect, SaveQuickMenu, SaveSystemMenu,
                SelectOutput, StageInput, Settle, Reset, Running
  <2> SUFFICES ASSUME Lasting', ~Fixed, persisted' = persisted
               PROVE  InUse' \in {InUse, AutoMode}
    BY <2>1, ActsIntervene
  <2>2. phase' = "running" /\ ram.isAutoDetectMode
    BY <2>1 DEF Lasting, Fixed, Running
  <2>3. ram'.deviceMode \in {ram.deviceMode, AutoMode}
    BY <2>1, <2>2, PersonKeepsFamily
  <2> QED
    BY <2>1, <2>2, <2>3 DEF InUse, Lasting, Running
<1> QED
  BY <1>1, <1>2, <1>3

LEMMA NextKeepsSession ==
  ASSUME Remote = {}, Inv, [Next]_vars
  PROVE  [Session!Next]_(Session!vars)
<1>1. Inv'
  BY NextInv
<1>2. CASE Boot
  BY <1>2, BootKeepsSession DEF Session!Next
<1>3. CASE CheckAutoDetectHotSwap
  BY <1>3, CheckKeepsSession DEF Session!Next
<1>4. CASE PollInput \/ Tick
  <2>1. /\ ram'.deviceMode = ram.deviceMode /\ ram'.isAutoDetectMode = ram.isAutoDetectMode
        /\ ram'.rebootArmed = ram.rebootArmed
    BY <1>4 DEF PollInput, Tick, Aged, Inv, Good, Memory
  <2>2. UNCHANGED <<persisted, scratch, phase, acts>>
    BY <1>4 DEF PollInput, Tick
  <2> QED
    BY <2>1, <2>2 DEF Session!vars, Lasting, InUse, Fixed, Running
<1>5. CASE Plug \/ UNCHANGED vars
  BY <1>5 DEF Plug, vars, Session!vars, Lasting, InUse, Fixed, Running
<1>6. CASE HostChanges \/ OutputVerdict \/ OutputProbe \/ PlayerCountChanged
  BY <1>1, <1>6, OutputIntervenes DEF Session!Next
<1>7. CASE Person
  BY <1>1, <1>7, PersonIntervenes DEF Session!Next
<1> QED
  BY <1>2, <1>3, <1>4, <1>5, <1>6, <1>7 DEF Next, Firmware

(* With no remote command, the hot swap implements InputSession.           *)
THEOREM ImplementsSession ==
  ASSUME Remote = {}
  PROVE  Spec => KeepsSession
<1>1. Init => Session!Init
  BY DEF Init, Session!Init, Session!Choice, Lasting, InUse, Fixed, Mode
<1>2. Inv /\ [Next]_vars => [Session!Next]_(Session!vars)
  BY NextKeepsSession
<1> QED
  BY <1>1, <1>2, Invariance, PTL DEF Spec, KeepsSession, Session!Spec

-----------------------------------------------------------------------------
(* An AUTO session that re-enumerates is in the registers, and AUTO is     *)
(* what is stored.                                                         *)
HandedOn ==
  Remote = {} /\ phase = "reenumerate" /\ ram.isAutoDetectMode
  => /\ persisted = AutoMode
     /\ IF Waiting(ram) THEN scratch \in {AutoMode, NoMode} ELSE scratch = ram.deviceMode

LEMMA HandedOnNext == Inv /\ HandedOn /\ [Next]_vars => HandedOn'
<1> SUFFICES ASSUME Inv, HandedOn, [Next]_vars
             PROVE  HandedOn'
  OBVIOUS
<1>1. Good(ram) /\ TypeOK /\ Stored
  BY DEF Inv
<1>2. CASE CheckAutoDetectHotSwap
  <2>1. Step /\ Running /\ ram.isAutoDetectMode /\ persisted' = persisted
    BY <1>1, <1>2, CheckStep DEF TypeOK, CheckAutoDetectHotSwap
  <2> QED
    BY <1>1, <2>1 DEF Step, HandedOn, Waiting, Stored, Running
<1>3. CASE OutputVerdict
  BY <1>1, <1>3 DEF OutputVerdict, Reset, HandedOn, Waiting, Good, Listens, Stored, Running
<1>4. CASE PlayerCountChanged
  BY <1>4 DEF PlayerCountChanged, Reset, HandedOn
<1>5. CASE Person
  BY <1>5 DEF Person, PowerCycle, ResetTap, ResetHold, ResetReleased, SerialRedetect,
              SaveQuickMenu, SaveSystemMenu, SelectOutput, StageInput,
              Settle, Reset, Running, HandedOn
<1>6. CASE Boot \/ PollInput \/ Tick \/ OutputProbe
  BY <1>6 DEF Boot, PollInput, Tick, OutputProbe, Reset, Running, HandedOn
<1>7. CASE Plug \/ HostChanges \/ UNCHANGED vars
  BY <1>7 DEF Plug, HostChanges, vars, HandedOn, Waiting
<1> QED
  BY <1>2, <1>3, <1>4, <1>5, <1>6, <1>7 DEF Next, Firmware

LEMMA CheckKeepsPresent ==
  ASSUME Good(ram), ~Waiting(ram), ram.connected, CheckAutoDetectHotSwap
  PROVE  ram'.deviceMode = ram.deviceMode
<1>1. Good(Tracked(ram)) /\ Tracked(ram).deviceMode = ram.deviceMode
  BY TrackedGood
<1>2. HandleConnected(Tracked(ram))
  BY DEF CheckAutoDetectHotSwap, Deferred
<1> QED
  BY <1>1, <1>2, ConnectedKeepsFamily DEF Waiting

LEMMA PersonKeepsPresent ==
  ASSUME Remote = {}, Inv, Person, Running, phase' \in {"running", "reenumerate"},
         persisted' = persisted, ram.isAutoDetectMode, ~ram'.rebootArmed
  PROVE  ram'.deviceMode = ram.deviceMode
<1>1. ram \in Memory /\ persisted = AutoMode
  BY DEF Inv, Good, Stored
<1>2. ~ResetHold
  BY <1>1 DEF ResetHold, Settle, Memory
<1>3. ASSUME NEW m \in Mode, SaveQuickMenu(m)
      PROVE  ram'.deviceMode = ram.deviceMode
  <2>1. m # ram.deviceMode => PersistedFor(m) = m
    BY DEF PersistedFor
  <2>2. ~(m # ram.deviceMode /\ m # AutoMode)
    BY <1>1, <1>3, <2>1 DEF SaveQuickMenu
  <2>3. Settle([ram EXCEPT !.savedDeviceMode = PersistedFor(m),
                          !.isAutoDetectMode = PersistedFor(m) = AutoMode])
    BY <1>3, <2>2 DEF SaveQuickMenu, Reset
  <2> QED
    BY <1>1, <2>3 DEF Settle, Memory
<1> QED
  BY <1>2, <1>3
     DEF Person, PowerCycle, ResetTap, ResetReleased, SerialRedetect, SaveSystemMenu,
         SelectOutput, StageInput, Reset

(* With no remote command, the firmware never drops a controller that is   *)
(* in use and present, through re-enumerations and the boots after them.   *)
THEOREM PresentControllerStays ==
  ASSUME Remote = {}
  PROVE  Spec => PresentIsKept
<1> DEFINE Present == /\ {phase, phase'} \subseteq {"running", "reenumerate"}
                      /\ ram.isAutoDetectMode /\ plugged # NoMode /\ ram.deviceMode = plugged
                      /\ ram.connected /\ plugged' = plugged /\ persisted' = persisted
                      /\ ~ram'.rebootArmed
<1>1. Inv /\ HandedOn /\ [Next]_vars => [Present => ram'.deviceMode = ram.deviceMode]_vars
  <2> SUFFICES ASSUME Inv, HandedOn, Next, Present
               PROVE  ram'.deviceMode = ram.deviceMode
    OBVIOUS
  <2>1. Good(ram) /\ ram \in Memory /\ ~Waiting(ram) /\ ram.deviceMode \in Family
    BY ModeTypes DEF Inv, TypeOK, Good, Waiting
  <2>2. CASE CheckAutoDetectHotSwap
    BY <2>1, <2>2, CheckKeepsPresent
  <2>3. CASE Person
    <3>1. CASE Running
      BY <2>3, <3>1, PersonKeepsPresent
    <3>2. CASE ~Running
      BY <2>3, <3>2
         DEF Person, PowerCycle, ResetTap, ResetHold, ResetReleased, SerialRedetect,
             SaveQuickMenu, SaveSystemMenu, SelectOutput, StageInput, Reset
    <3> QED
      BY <3>1, <3>2
  <2>4. CASE PollInput \/ Tick
    BY <2>1, <2>4 DEF PollInput, Tick, Aged, Memory
  <2>5. CASE Boot
    <3>1. scratch = ram.deviceMode /\ scratch \in Family /\ scratch # AutoMode /\ scratch # NoMode
      BY <2>1, <2>5, ModeTypes DEF Boot, Running, HandedOn
    <3>2. ram' = PoweredUp(scratch, persisted = AutoMode, scratch, persisted)
      BY <2>5, <3>1 DEF Boot, BootedMemory
    <3> QED
      BY <3>1, <3>2 DEF PoweredUp
  <2>6. CASE Plug \/ HostChanges \/ OutputVerdict \/ OutputProbe \/ PlayerCountChanged
    BY <2>6 DEF Plug, HostChanges, OutputVerdict, OutputProbe, PlayerCountChanged, Reset
  <2> QED
    BY <2>2, <2>3, <2>4, <2>5, <2>6 DEF Next, Firmware
<1>2. Init => HandedOn
  BY DEF Init, HandedOn
<1> QED
  BY <1>1, <1>2, HandedOnNext, Invariance, InitInv, NextInv, PTL DEF Spec, PresentIsKept

-----------------------------------------------------------------------------
(* How a lost session comes home.                                          *)

(* The parts of TillHome are bounded, so that a session that polls or      *)
(* boots is further away than one that waits.                              *)
LEMMA TillHomeBound ==
  ASSUME Good(ram)
  PROVE  /\ Undeferred \in 0..(DisconnectDelay + 1)
         /\ Undecided \in 1..(DisconnectDelay + 2)
<1>1. ram.downFor \in 0..DisconnectDelay /\ ram.missingFor \in 0..DisconnectDelay
  BY DEF Good, Memory
<1> QED
  BY <1>1, DelayAssumption DEF Undeferred, Undecided

LEMMA LostBoots ==
  ASSUME Remote = {}, Inv, HandedOn, Lost, LeftAlone, Boot
  PROVE  Lost' /\ TillHome' < TillHome
<1>1. plugged' = plugged /\ phase' = "running" /\ ~Running /\ gate' = "known"
  BY DEF Boot, LeftAlone
<1>2. /\ scratch = ram.deviceMode /\ scratch \in Family /\ scratch # AutoMode
      /\ scratch # NoMode /\ persisted = AutoMode /\ ~Sees(scratch)
  BY <1>1, ModeTypes DEF Lost, Lasting, Running, HandedOn, Inv, Good, Memory, Mode, Waiting
<1>3. ram' = PoweredUp(scratch, persisted = AutoMode, scratch, persisted)
  BY <1>2 DEF Boot, BootedMemory
<1>4. /\ ram'.deviceMode = scratch /\ ram'.isAutoDetectMode /\ ram'.connected = Sees(scratch)
      /\ ram'.grace = GracePeriod /\ ~ram'.initialized
  BY <1>2, <1>3, Zenon DEF PoweredUp
<1>5. Lost'
  BY <1>1, <1>2, <1>4 DEF Lost, Lasting, Waiting, Sees
<1> QED
  BY <1>1, <1>2, <1>4, <1>5, DelayAssumption DEF TillHome, Undeferred, Undecided, Running

LEMMA LostPolls ==
  ASSUME Inv, Lost, LeftAlone, PollInput
  PROVE  Lost' /\ TillHome' < TillHome
<1>1. ram.adapter = ram.deviceMode /\ ram \in Memory
  BY DEF Inv, Good, Fits, Lost, Waiting
<1>2. /\ ram.connected /\ ~ram'.connected /\ ram'.deviceMode = ram.deviceMode
      /\ ram'.isAutoDetectMode = ram.isAutoDetectMode
  BY <1>1 DEF PollInput, Lost, Memory, Sees
<1>3. Good(ram') /\ phase' = "running" /\ Running
  BY NextInv DEF Inv, Next, Firmware, PollInput, Running
<1>4. /\ ram'.grace \in 0..GracePeriod /\ Undeferred' \in 0..(DisconnectDelay + 1)
      /\ Undecided' \in 1..(DisconnectDelay + 2)
  <2>1. /\ ram'.grace \in 0..GracePeriod /\ ram'.downFor \in 0..DisconnectDelay
        /\ ram'.missingFor \in 0..DisconnectDelay
    BY <1>3 DEF Good, Memory
  <2> QED
    BY <2>1, DelayAssumption DEF Undeferred, Undecided
<1>5. Lost'
  BY <1>2 DEF Lost, LeftAlone, Waiting, Sees
<1> QED
  BY <1>2, <1>3, <1>4, <1>5, DelayAssumption DEF TillHome, Running

LEMMA LostWaits ==
  ASSUME Inv, Lost, LeftAlone, Tick
  PROVE  /\ Lost' /\ TillHome' <= TillHome
         /\ ~ram.connected
            /\ (\/ ram.grace > 0 \/ Undeferred \in 1..DisconnectDelay
                \/ Undeferred = 0 /\ Undecided \in 2..(DisconnectDelay + 1))
            => TillHome' < TillHome
<1>1. ram \in Memory /\ ram' = Aged(ram)
  BY DEF Inv, Good, Tick
<1>2. /\ ram'.connected = ram.connected /\ ram'.initialized = ram.initialized
      /\ ram'.wasConnected = ram.wasConnected /\ ram'.missing = ram.missing
      /\ ram'.missingMode = ram.missingMode /\ ram'.deviceMode = ram.deviceMode
      /\ ram'.isAutoDetectMode = ram.isAutoDetectMode
      /\ ram'.grace = Less(ram.grace)
      /\ ram'.downFor = IF ram.wasConnected THEN ram.downFor
                        ELSE Older(ram.downFor, DisconnectDelay)
      /\ ram'.missingFor = IF ram.missing THEN Older(ram.missingFor, DisconnectDelay)
                           ELSE ram.missingFor
  BY <1>1 DEF Aged, Memory
<1>3. phase' = phase /\ gate' = gate /\ Running
  BY DEF Tick
<1>4. /\ ram.grace \in 0..GracePeriod /\ ram.downFor \in 0..DisconnectDelay
      /\ ram.missingFor \in 0..DisconnectDelay
  BY <1>1 DEF Memory
<1>5. Undeferred' \in Int /\ Undeferred \in Int /\ Undeferred' <= Undeferred
        /\ (Undeferred \in 1..DisconnectDelay => Undeferred' < Undeferred)
  BY <1>2, <1>3, <1>4, DelayAssumption DEF Undeferred, Older
<1>6. Undecided' \in Int /\ Undecided \in Int /\ Undecided' <= Undecided
        /\ (Undecided \in 2..(DisconnectDelay + 1) => Undecided' < Undecided)
  BY <1>2, <1>4, DelayAssumption DEF Undecided, Older
<1>7. ram'.grace \in Int /\ ram'.grace <= ram.grace /\ (ram.grace > 0 => ram'.grace < ram.grace)
  BY <1>2, <1>4, DelayAssumption DEF Less
<1>8. Lost'
  BY <1>2 DEF Lost, LeftAlone, Waiting, Sees
<1> QED
  BY <1>2, <1>3, <1>4, <1>5, <1>6, <1>7, <1>8, DelayAssumption DEF TillHome, Running

(* The ways in which a pass of the hot swap lets a lost session wait.      *)
LEMMA LostPass ==
  ASSUME "stage" \notin Remote, Inv, Lost, CheckAutoDetectHotSwap, ~ram.connected,
         ram'.deviceMode # AutoMode
  PROVE  LET t == Tracked(ram)
             i == [t EXCEPT !.initialized = TRUE, !.downFor = 0, !.nextDetect = 0]
         IN  /\ UNCHANGED phase
             /\ \/ ram' = t /\ Deferred(ram)
                \/ /\ ~Deferred(ram)
                   /\ \/ /\ ram' = t /\ t.initialized /\ ~t.wasConnected
                         /\ t.downFor < DisconnectDelay
                      \/ ram' = i /\ ~t.initialized
<1> DEFINE t == Tracked(ram)
           i == [t EXCEPT !.initialized = TRUE, !.downFor = 0, !.nextDetect = 0]
           u == IF t.initialized THEN t ELSE i
           e == [u EXCEPT !.wasConnected = FALSE, !.downFor = 0, !.nextDetect = 0,
                          !.reverted = FALSE, !.grace = 0]
<1> SUFFICES /\ UNCHANGED phase
             /\ \/ ram' = t /\ Deferred(ram)
                \/ /\ ~Deferred(ram)
                   /\ \/ /\ ram' = t /\ t.initialized /\ ~t.wasConnected
                         /\ t.downFor < DisconnectDelay
                      \/ ram' = i /\ ~t.initialized
  OBVIOUS
<1>1. /\ Good(t) /\ t \in Memory /\ t.deviceMode = ram.deviceMode /\ ~Waiting(t)
      /\ t.isAutoDetectMode
  BY TrackedGood DEF Inv, Lost, Waiting, Good
<1>2. \/ Deferred(ram) /\ Settle(t)
      \/ ~Deferred(ram) /\ HandleDisconnected(t)
  BY DEF CheckAutoDetectHotSwap
<1>3. CASE Deferred(ram) /\ Settle(t)
  BY <1>3 DEF Settle
<1>4. CASE ~Deferred(ram) /\ HandleDisconnected(t)
  <2>1. DisconnectEdge(u) \/ StayDisconnected(u)
    BY <1>4 DEF HandleDisconnected
  <2> HIDE DEF t
  <2>2. Good(i) /\ i.deviceMode = t.deviceMode /\ i.isAutoDetectMode = t.isAutoDetectMode
    BY <1>1, InitializedGood DEF Memory
  <2>3. Good(u) /\ u \in Memory /\ u.deviceMode = t.deviceMode /\ u.isAutoDetectMode
    <3> HIDE DEF i
    <3> QED
      BY <1>1, <2>2 DEF Good
  <2>4. u.savedDeviceMode = AutoMode /\ ~Waiting(u) /\ Restorable(u)
    BY <1>1, <2>3 DEF Good, Listens, Restorable, Waiting
  <2>5. ASSUME NEW s \in Memory, GoHome(s)
        PROVE  FALSE
    BY <2>5, GoHomeEndsHome
  <2>6. ~DisconnectEdge(u)
    <3> SUFFICES ASSUME DisconnectEdge(u)
                 PROVE  FALSE
      OBVIOUS
    <3> HIDE DEF u
    <3>1. /\ e \in Memory /\ e.savedDeviceMode = u.savedDeviceMode
          /\ e.deviceMode = u.deviceMode /\ ~e.reverted
      BY <2>3, DelayBounds DEF Memory
    <3>2. IF e.savedDeviceMode = AutoMode /\ Restorable(e) THEN GoHome(e) ELSE Settle(e)
      BY DEF DisconnectEdge
    <3> HIDE DEF e
    <3> QED
      BY <2>4, <2>5, <3>1, <3>2 DEF Restorable, Waiting
  <2>7. Settle(u) /\ ~u.wasConnected /\ u.downFor < DisconnectDelay
    <3> HIDE DEF u
    <3> QED
      BY <2>1, <2>3, <2>4, <2>5, <2>6, Zenon DEF StayDisconnected
  <2>8. CASE t.initialized
    BY <1>4, <2>7, <2>8 DEF Settle
  <2>9. CASE ~t.initialized
    BY <1>4, <2>7, <2>9 DEF Settle
  <2> QED
    BY <2>8, <2>9
<1> QED
  BY <1>2, <1>3, <1>4

(* A pass of the hot swap delays nothing, and where it is due it does more.*)
LEMMA LostPasses ==
  ASSUME "stage" \notin Remote, Inv, Lost, LeftAlone, CheckAutoDetectHotSwap,
         ram'.deviceMode # AutoMode
  PROVE  /\ Lost' /\ TillHome' <= TillHome
         /\ /\ ~ram.connected /\ ram.grace = 0
            /\ Undeferred \notin 1..DisconnectDelay
            /\ Undeferred = 0 => Undecided \notin 2..(DisconnectDelay + 1)
            => TillHome' < TillHome
<1>1. Running /\ gate' = gate /\ Good(ram) /\ ram \in Memory /\ ~Waiting(ram)
  BY DEF CheckAutoDetectHotSwap, Inv, Good, Lost
<1>4. Lost'
  <2>1. ram'.deviceMode = ram.deviceMode /\ ram'.isAutoDetectMode
    BY <1>1, CheckKeepsFamily
  <2> QED
    BY <2>1 DEF Lost, LeftAlone, Waiting, Sees
<1>2. CASE ram.connected
  <2> DEFINE s == Tracked(ram)
             t == [s EXCEPT !.quickMisses = 0, !.wasConnected = TRUE, !.downFor = 0,
                            !.initialized = TRUE, !.reverted = FALSE, !.grace = 0]
             now == [t EXCEPT !.nextDetect = 0]
  <2>1. s \in Memory /\ s.connected = ram.connected /\ s.deviceMode = ram.deviceMode
    BY <1>1, TrackedGood DEF Good, Tracked, Memory
  <2>2. HandleConnected(s)
    BY <1>2 DEF CheckAutoDetectHotSwap, Deferred
  <2>3. Settle(now) \/ MayReenumerate(t, s.deviceMode)
    BY <1>1, <2>1, <2>2 DEF HandleConnected, Waiting
  <2> HIDE DEF s
  <2>4. t.connected = s.connected /\ now.connected = s.connected
    BY <2>1 DEF Memory
  <2> HIDE DEF t, now
  <2>5. ram'.connected /\ (phase' = phase \/ phase' = "reenumerate")
    BY <1>2, <2>1, <2>3, <2>4 DEF MayReenumerate, Settle, Reset
  <2> QED
    BY <1>1, <1>2, <1>4, <2>5, DelayAssumption DEF TillHome, Running
<1>3. CASE ~ram.connected
  <2> DEFINE t == Tracked(ram)
             i == [t EXCEPT !.initialized = TRUE, !.downFor = 0, !.nextDetect = 0]
  <2>1. /\ t \in Memory /\ t.deviceMode = ram.deviceMode /\ ~t.connected
        /\ t.grace = ram.grace /\ t.initialized = ram.initialized
        /\ t.wasConnected = ram.wasConnected /\ t.downFor = ram.downFor
    BY <1>1, <1>3, TrackedGood DEF Good, Tracked, Memory
  <2>2. gate = "nodata" =>
          /\ t.missing /\ t.missingMode = ram.deviceMode
          /\ t.missingFor = IF ram.missing /\ ram.missingMode = ram.deviceMode
                            THEN ram.missingFor ELSE 0
    BY <1>1, <1>3 DEF Tracked, Memory
  <2>3. Deferred(ram) <=> gate = "nodata" /\ t.missingFor < DisconnectDelay
    BY <1>1, <1>3 DEF Deferred
  <2>4. /\ i.deviceMode = t.deviceMode /\ i.connected = t.connected /\ i.grace = t.grace
        /\ i.missing = t.missing /\ i.missingMode = t.missingMode
        /\ i.missingFor = t.missingFor /\ i.wasConnected = t.wasConnected
        /\ i.initialized /\ i.downFor = 0
    <3> HIDE DEF t
    <3> QED
      BY <2>1 DEF Memory
  <2>5. /\ UNCHANGED phase
        /\ \/ ram' = t /\ Deferred(ram)
           \/ /\ ~Deferred(ram)
              /\ \/ /\ ram' = t /\ t.initialized /\ ~t.wasConnected
                    /\ t.downFor < DisconnectDelay
                 \/ ram' = i /\ ~t.initialized
    BY <1>3, LostPass
  <2>6. /\ ram.grace \in 0..GracePeriod /\ ram.downFor \in 0..DisconnectDelay
        /\ ram.missingFor \in 0..DisconnectDelay
    BY <1>1 DEF Memory
  <2> HIDE DEF t, i
  <2>7. ram'.deviceMode = ram.deviceMode /\ ~ram'.connected /\ ram'.grace = ram.grace
    BY <2>1, <2>4, <2>5
  <2>8. /\ Undeferred' \in Int /\ Undeferred \in Int /\ Undeferred' <= Undeferred
        /\ Undeferred = DisconnectDelay + 1 => Undeferred' < Undeferred
        /\ Deferred(ram) => Undeferred # 0
    BY <1>1, <2>1, <2>2, <2>3, <2>4, <2>5, <2>6, <2>7, DelayAssumption DEF Undeferred
  <2>9. /\ Undecided' \in Int /\ Undecided \in Int /\ Undecided' <= Undecided
        /\ ~Deferred(ram) /\ Undecided \notin 2..(DisconnectDelay + 1)
           => Undecided' < Undecided
    BY <2>1, <2>4, <2>5, <2>6, DelayAssumption DEF Undecided
  <2>10. Undeferred \in 0..(DisconnectDelay + 1)
    BY <1>1, TillHomeBound
  <2> QED
    BY <1>1, <1>3, <1>4, <2>5, <2>6, <2>7, <2>8, <2>9, <2>10, DelayAssumption DEF TillHome, Running
<1> QED
  BY <1>2, <1>3

(* What happens while nobody acts.                                         *)
LEMMA AloneNext ==
  ASSUME TypeOK, Next, LeftAlone
  PROVE  Boot \/ CheckAutoDetectHotSwap \/ PollInput \/ Tick
<1>1. acts \in Nat /\ acts' = acts /\ plugged' = plugged /\ Lasting'
  BY BoundAssumption DEF TypeOK, LeftAlone
<1>2. ~Act
  BY <1>1 DEF Act
<1>3. ~Plug
  BY <1>1 DEF Plug
<1>4. ~ResetReleased
  BY <1>1 DEF ResetReleased, Reset, Lasting
<1>5. ~Person
  BY <1>2, <1>4
     DEF Person, PowerCycle, ResetTap, ResetHold, SerialRedetect, SaveQuickMenu,
         SaveSystemMenu, SelectOutput, StageInput
<1>6. ~HostChanges /\ ~OutputVerdict /\ ~OutputProbe /\ ~PlayerCountChanged
  BY <1>2 DEF HostChanges, OutputVerdict, OutputProbe, PlayerCountChanged
<1> QED
  BY <1>3, <1>5, <1>6 DEF Next, Firmware

(* With no remote command, a lost session gets closer to home, for all     *)
(* delays and families.                                                    *)
THEOREM LostIsOnItsWay ==
  ASSUME Remote = {}
  PROVE  Spec => LostComesHome
<1> DEFINE Closing == \/ ram'.deviceMode = AutoMode
                      \/ /\ Lost' /\ TillHome' <= TillHome
                         /\ DueToLeave => TillHome' < TillHome
<1>1. Inv /\ HandedOn /\ [Next]_vars => [Lost /\ LeftAlone => Closing]_vars
  <2> SUFFICES ASSUME Inv, HandedOn, Next, Lost, LeftAlone, ram'.deviceMode # AutoMode
               PROVE  /\ Lost' /\ TillHome' <= TillHome
                      /\ DueToLeave => TillHome' < TillHome
    OBVIOUS
  <2>1. TillHome \in Int /\ TillHome' \in Int
    <3>1. ram.grace \in Int /\ Undeferred \in Int /\ Undecided \in Int
      BY TillHomeBound, DelayAssumption DEF Inv, Good, Memory
    <3>2. Good(ram')
      BY NextInv DEF Inv
    <3>3. ram'.grace \in Int /\ ram'.downFor \in Int /\ ram'.missingFor \in Int
      BY <3>2, DelayAssumption DEF Good, Memory
    <3>4. Undeferred' \in Int /\ Undecided' \in Int
      BY <3>3, DelayAssumption DEF Undeferred, Undecided
    <3> QED
      BY <3>1, <3>3, <3>4, DelayAssumption DEF TillHome
  <2>2. DueToLeave => TillHome' < TillHome
    <3>1. CASE ~Running
      BY <3>1, LostBoots DEF DueToLeave
    <3>2. CASE Running /\ ram.connected
      BY <3>2, LostPolls DEF DueToLeave
    <3>3. CASE Running /\ ~ram.connected
      <4>1. ram.grace > 0 \/ ram.grace = 0
        BY DelayAssumption DEF Inv, Good, Memory
      <4> QED
        BY <3>3, <4>1, LostWaits, LostPasses DEF DueToLeave
    <3> QED
      BY <3>1, <3>2, <3>3
  <2>3. CASE Boot
    BY <2>1, <2>2, <2>3, LostBoots
  <2>4. CASE CheckAutoDetectHotSwap
    BY <2>2, <2>4, LostPasses
  <2>5. CASE PollInput
    BY <2>1, <2>2, <2>5, LostPolls
  <2>6. CASE Tick
    BY <2>2, <2>6, LostWaits
  <2> QED
    BY <2>3, <2>4, <2>5, <2>6, AloneNext DEF Inv
<1>2. Init => HandedOn
  BY DEF Init, HandedOn
<1> QED
  BY <1>1, <1>2, HandedOnNext, Invariance, InitInv, NextInv, PTL DEF Spec, LostComesHome

-----------------------------------------------------------------------------
(* How a session at home finds the controller that is plugged.             *)
LEMMA AdoptFinds ==
  ASSUME plugged \in Active, NEW s \in Memory, NEW b \in BOOLEAN, Adopt(s, plugged, b)
  PROVE  ram'.deviceMode = plugged
<1> DEFINE t == Adopted(s, plugged, b)
<1>1. plugged \in Family /\ Sees(plugged)
  BY DEF Active, Sees
<1>2. t.deviceMode = plugged
  BY <1>1, AdoptedFields
<1>3. Settle(t) \/ MayReenumerate(t, plugged)
  BY <1>1 DEF Adopt
<1> HIDE DEF t
<1> QED
  BY <1>2, <1>3 DEF MayReenumerate, Settle, Reset

LEMMA AdoptsFind ==
  ASSUME plugged \in Active, NEW s \in Memory,
         AdoptActive(s, plugged) \/ AdoptPassive(s, plugged)
  PROVE  ram'.deviceMode = plugged
<1>1. (plugged \in LatchFamily) \in BOOLEAN /\ (plugged \in AssistedFamily) \in BOOLEAN
  OBVIOUS
<1>2. PICK b \in BOOLEAN : Adopt(s, plugged, b)
  BY <1>1, Zenon DEF AdoptActive, AdoptPassive
<1> QED
  BY <1>2, AdoptFinds

(* At home, a scan that returns anything returns what is plugged.          *)
LEMMA ScansFind ==
  ASSUME plugged \in Active, NEW s \in Memory, Waiting(s)
  PROVE  /\ Usable(s, plugged)
         /\ \A m \in FullScan : m = plugged
         /\ \A p \in PassiveScan : Usable(s, p) => p = plugged
         /\ Usable(s, QuickScan) => QuickScan = plugged
BY ModeTypes DEF Active, Waiting, Usable, FullScan, PassiveScan, QuickScan

LEMMA FullScanFinds ==
  ASSUME plugged \in Active, NEW s \in Memory, Waiting(s), NEW w, SearchFully(s, w)
  PROVE  ram'.deviceMode = plugged
<1>1. AdoptActive(s, plugged)
  BY ScansFind, Zenon DEF SearchFully
<1> QED
  BY <1>1, AdoptsFind

LEMMA SearchFinds ==
  ASSUME plugged \in Active, NEW s \in Memory, Waiting(s), Search(s, TRUE),
         ram'.deviceMode # plugged
  PROVE  \/ s.nextDetect > 0 /\ Settle(s)
         \/ /\ s.nextDetect = 0 /\ s.quickMisses + 1 < FullScanEvery
            /\ Settle([s EXCEPT !.quickMisses = s.quickMisses + 1, !.nextDetect = FastRetry])
<1>1. SearchActively(s, TRUE)
  <2>1. ASSUME NEW p \in PassiveScan, Usable(s, p), AdoptPassive(s, p)
        PROVE  FALSE
    BY <2>1, ScansFind, AdoptsFind
  <2> QED
    BY <2>1 DEF Search
<1>2. CASE s.nextDetect = 0 /\ SearchQuickly(s)
  <2>1. ~(Usable(s, QuickScan) /\ AdoptActive(s, QuickScan))
    BY ScansFind, AdoptsFind
  <2>2. ~SearchFully([s EXCEPT !.quickMisses = 0], TRUE)
    <3> DEFINE r == [s EXCEPT !.quickMisses = 0]
    <3>1. r \in Memory /\ Waiting(r)
      BY DelayBounds DEF Memory, Waiting
    <3> HIDE DEF r
    <3>2. ~SearchFully(r, TRUE)
      BY <3>1, FullScanFinds
    <3> QED
      BY <3>2 DEF r
  <2> QED
    BY <1>2, <2>1, <2>2 DEF SearchQuickly
<1>3. CASE s.nextDetect > 0 /\ Settle(s)
  BY <1>3
<1> QED
  BY <1>1, <1>2, <1>3 DEF SearchActively

(* What a pass leaves of a memory at home whose controller is not seen by  *)
(* the driver: it has noticed the absence, and it waits, or it has counted *)
(* a miss.                                                                 *)
Waits(s) ==
  /\ s.nextDetect > 0 \/ (~s.reverted /\ s.downFor < DisconnectDelay)
  /\ Settle(s)

Misses(s) ==
  /\ UNCHANGED phase
  /\ ram'.deviceMode = s.deviceMode /\ ram'.connected = s.connected
  /\ ram'.adapter = s.adapter /\ ram'.initialized = s.initialized
  /\ ram'.wasConnected = s.wasConnected
  /\ s.quickMisses + 1 < FullScanEvery /\ ram'.quickMisses = s.quickMisses + 1

LEMMA StayFinds ==
  ASSUME plugged \in Active, NEW s \in Memory, Waiting(s), StayDisconnected(s),
         ram'.deviceMode # plugged
  PROVE  ~s.wasConnected /\ (Waits(s) \/ Misses(s))
<1> DEFINE t == [s EXCEPT !.reverted = FALSE]
<1>1. ~s.wasConnected /\ ~Restorable(s)
  BY DEF StayDisconnected, Restorable
<1>2. /\ t \in Memory /\ t.deviceMode = s.deviceMode /\ t.connected = s.connected
      /\ t.adapter = s.adapter /\ t.initialized = s.initialized
      /\ t.wasConnected = s.wasConnected /\ t.quickMisses = s.quickMisses
      /\ t.nextDetect = s.nextDetect
  BY DEF Memory
<1>3. ASSUME NEW r \in Memory, r.deviceMode = s.deviceMode, r.connected = s.connected,
             r.adapter = s.adapter, r.initialized = s.initialized,
             r.wasConnected = s.wasConnected, r.quickMisses = s.quickMisses,
             Settle([r EXCEPT !.quickMisses = r.quickMisses + 1, !.nextDetect = FastRetry]),
             r.quickMisses + 1 < FullScanEvery
      PROVE  Misses(s)
  BY <1>3 DEF Misses, Settle, Memory
<1> HIDE DEF t
<1>4. CASE s.reverted /\ s.nextDetect > 0 /\ Settle(s)
  BY <1>1, <1>4 DEF Waits
<1>5. CASE s.reverted /\ s.nextDetect = 0 /\ Search(t, TRUE)
  <2>1. Waiting(t)
    BY <1>2 DEF Waiting
  <2>2. /\ t.quickMisses + 1 < FullScanEvery
        /\ Settle([t EXCEPT !.quickMisses = t.quickMisses + 1, !.nextDetect = FastRetry])
    <3>1. ~(t.nextDetect > 0)
      BY <1>2, <1>5
    <3> QED
      BY <1>2, <1>5, <2>1, <3>1, SearchFinds, Zenon
  <2> QED
    BY <1>1, <1>2, <1>3, <2>2
<1>6. CASE ~s.reverted /\ s.downFor < DisconnectDelay /\ Settle(s)
  BY <1>1, <1>6 DEF Waits
<1>7. CASE ~s.reverted /\ Search(s, TRUE)
  <2>1. \/ s.nextDetect > 0 /\ Settle(s)
        \/ /\ s.quickMisses + 1 < FullScanEvery
           /\ Settle([s EXCEPT !.quickMisses = s.quickMisses + 1, !.nextDetect = FastRetry])
    BY <1>7, SearchFinds
  <2> QED
    BY <1>1, <1>3, <2>1 DEF Waits
<1>8. Waiting(s) = TRUE
  BY DEF Waiting
<1> QED
  BY <1>1, <1>4, <1>5, <1>6, <1>7, <1>8, Zenon DEF StayDisconnected, t

LEMMA DisconnectedFinds ==
  ASSUME plugged \in Active, NEW s \in Memory, Waiting(s), HandleDisconnected(s),
         ram'.deviceMode # plugged
  PROVE  /\ UNCHANGED phase /\ ram'.deviceMode = s.deviceMode
         /\ ram'.connected = s.connected /\ ram'.adapter = s.adapter
         /\ ram'.initialized /\ ~ram'.wasConnected
         /\ s.initialized /\ ~s.wasConnected => Waits(s) \/ Misses(s)
<1> DEFINE i == [s EXCEPT !.initialized = TRUE, !.downFor = 0, !.nextDetect = 0]
           u == IF s.initialized THEN s ELSE i
           e == [u EXCEPT !.wasConnected = FALSE, !.downFor = 0, !.nextDetect = 0,
                          !.reverted = FALSE, !.grace = 0]
<1>1. /\ i \in Memory /\ i.deviceMode = s.deviceMode /\ i.connected = s.connected
      /\ i.adapter = s.adapter /\ i.initialized
  BY DelayBounds DEF Memory
<1>2. DisconnectEdge(u) \/ StayDisconnected(u)
  BY DEF HandleDisconnected
<1> HIDE DEF i
<1>3. /\ u \in Memory /\ u.deviceMode = s.deviceMode /\ u.connected = s.connected
      /\ u.adapter = s.adapter /\ u.initialized /\ (s.initialized => u = s)
  BY <1>1
<1> HIDE DEF u
<1>4. CASE DisconnectEdge(u)
  <2>1. /\ e.deviceMode = u.deviceMode /\ e.connected = u.connected /\ e.adapter = u.adapter
        /\ e.initialized = u.initialized /\ ~e.wasConnected
    BY <1>3 DEF Memory
  <2>2. IF e.savedDeviceMode = AutoMode /\ Restorable(e) THEN GoHome(e) ELSE Settle(e)
    BY <1>4 DEF DisconnectEdge
  <2>3. u.wasConnected
    BY <1>4 DEF DisconnectEdge
  <2> HIDE DEF e
  <2>4. Settle(e)
    BY <1>3, <2>1, <2>2 DEF Restorable, Waiting
  <2> QED
    BY <1>3, <2>1, <2>3, <2>4 DEF Settle
<1>5. CASE StayDisconnected(u)
  <2>1. ~u.wasConnected /\ (Waits(u) \/ Misses(u))
    BY <1>3, <1>5, StayFinds DEF Waiting
  <2>2. /\ UNCHANGED phase /\ ram'.deviceMode = u.deviceMode
        /\ ram'.connected = u.connected /\ ram'.adapter = u.adapter
        /\ ram'.initialized = u.initialized /\ ram'.wasConnected = u.wasConnected
    BY <2>1 DEF Waits, Misses, Settle
  <2> QED
    BY <1>3, <2>1, <2>2
<1> QED
  BY <1>2, <1>4, <1>5

LEMMA ConnectedFinds ==
  ASSUME plugged \in Active, NEW s \in Memory, Waiting(s), HandleConnected(s),
         ram'.deviceMode # plugged
  PROVE  /\ s.wasConnected /\ s.nextDetect > 0 /\ UNCHANGED phase
         /\ ram'.deviceMode = s.deviceMode /\ ram'.connected = s.connected
         /\ ram'.adapter = s.adapter /\ ram'.wasConnected /\ ram'.nextDetect = s.nextDetect
<1> DEFINE t == [s EXCEPT !.quickMisses = 0, !.wasConnected = TRUE, !.downFor = 0,
                          !.initialized = TRUE, !.reverted = FALSE, !.grace = 0]
           u == [t EXCEPT !.nextDetect = FastRetry]
<1>1. /\ t.deviceMode = s.deviceMode /\ t.connected = s.connected /\ t.adapter = s.adapter
      /\ t.wasConnected /\ t.nextDetect = s.nextDetect
      /\ u \in Memory /\ u.deviceMode = s.deviceMode
  BY DelayBounds DEF Memory
<1>2. \/ s.wasConnected /\ s.nextDetect > 0 /\ Settle(t)
      \/ \E m \in FullScan : IF Usable(u, m) THEN AdoptActive(u, m) ELSE Settle(u)
  BY DEF HandleConnected
<1> HIDE DEF t, u
<1>3. ASSUME NEW m \in FullScan, IF Usable(u, m) THEN AdoptActive(u, m) ELSE Settle(u)
      PROVE  FALSE
  <2>1. Waiting(u)
    BY <1>1 DEF Waiting
  <2>2. m = plugged /\ Usable(u, m)
    BY <1>1, <2>1, ScansFind
  <2> QED
    BY <1>1, <1>3, <2>2, AdoptsFind
<1> QED
  BY <1>1, <1>2, <1>3 DEF Settle

(* What a pass leaves of a session at home.                                *)
LEMMA SoughtPass ==
  ASSUME Inv, Sought, CheckAutoDetectHotSwap, ram'.deviceMode # plugged
  PROVE  /\ UNCHANGED phase /\ ram'.deviceMode = AutoMode
         /\ ram'.connected = ram.connected /\ ram'.adapter = ram.adapter
         /\ ram.connected =>
              /\ ram.wasConnected /\ ram.nextDetect > 0
              /\ ram'.wasConnected /\ ram'.nextDetect = ram.nextDetect
         /\ ~ram.connected =>
              /\ ram'.initialized /\ ~ram'.wasConnected
              /\ ram.initialized /\ ~ram.wasConnected =>
                   \/ /\ ram'.quickMisses = ram.quickMisses
                      /\ ram'.nextDetect = ram.nextDetect /\ ram'.reverted = ram.reverted
                      /\ ram'.downFor = ram.downFor
                      /\ \/ ram.nextDetect > 0
                         \/ ~ram.reverted /\ ram.downFor < DisconnectDelay
                   \/ /\ ram.quickMisses + 1 < FullScanEvery
                      /\ ram'.quickMisses = ram.quickMisses + 1
<1> DEFINE s == Tracked(ram)
<1>1. ram \in Memory /\ Waiting(ram) /\ plugged \in Active
  BY DEF Inv, Good, Sought
<1>2. /\ s \in Memory /\ Waiting(s) /\ s.deviceMode = AutoMode
      /\ s.connected = ram.connected /\ s.adapter = ram.adapter
      /\ s.initialized = ram.initialized /\ s.wasConnected = ram.wasConnected
      /\ s.quickMisses = ram.quickMisses /\ s.nextDetect = ram.nextDetect
      /\ s.reverted = ram.reverted /\ s.downFor = ram.downFor
  BY <1>1, TrackedGood DEF Inv, Good, Tracked, Waiting, Memory
<1>3. \/ ram.connected /\ HandleConnected(s)
      \/ ~ram.connected /\ HandleDisconnected(s)
  BY <1>1 DEF CheckAutoDetectHotSwap, Deferred
<1> HIDE DEF s
<1>4. CASE ram.connected /\ HandleConnected(s)
  BY <1>1, <1>2, <1>4, ConnectedFinds
<1>5. CASE ~ram.connected /\ HandleDisconnected(s)
  <2>1. /\ UNCHANGED phase /\ ram'.deviceMode = s.deviceMode
        /\ ram'.connected = s.connected /\ ram'.adapter = s.adapter
        /\ ram'.initialized /\ ~ram'.wasConnected
        /\ s.initialized /\ ~s.wasConnected => Waits(s) \/ Misses(s)
    BY <1>1, <1>2, <1>5, DisconnectedFinds
  <2> QED
    BY <1>2, <1>5, <2>1 DEF Waits, Misses, Settle
<1> QED
  BY <1>3, <1>4, <1>5

-----------------------------------------------------------------------------
(* The steps of a session at home that is left alone.                      *)
LEMMA CloserIsLexicographic ==
  ASSUME NEW a, NEW b, NEW c, NEW d, NEW e, NEW f
  PROVE  /\ Closer(<<a, b, c>>, <<d, e, f>>)
              <=> \/ a < d
                  \/ a = d /\ b < e
                  \/ a = d /\ b = e /\ c < f
         /\ <<a, b, c>>[1] = a
BY DEF Closer

(* The controller stays at home in memory, so the session is still sought. *)
LEMMA StillSought ==
  ASSUME Inv', Remote = {}, Sought, LeftAlone, Running', ram'.deviceMode = AutoMode
  PROVE  Sought'
BY DEF Inv, Good, Listens, Sought, LeftAlone, Waiting, Active

LEMMA SoughtBoots ==
  ASSUME Remote = {}, Inv, Inv', HandedOn, Sought, LeftAlone, Boot, ram'.deviceMode # plugged
  PROVE  Sought' /\ Closer(TillFound', TillFound)
<1>1. plugged' = plugged /\ Running' /\ ~Running
  BY DEF Boot, Running
<1>2. scratch \in {AutoMode, NoMode} /\ persisted = AutoMode /\ NoMode \notin Family
  BY <1>1, FamilyAssumption DEF Sought, Lasting, Running, HandedOn
<1>3. ram' = JoybusMemory => ram'.deviceMode = plugged
  <2> DEFINE p == PoweredUp(plugged, TRUE, plugged, AutoMode)
  <2>1. plugged \in Mode
    BY ModeTypes DEF Sought, Active
  <2>2. p \in Memory /\ p.deviceMode = plugged
    BY <2>1, ModeTypes, PoweredUpType, Zenon DEF PoweredUp
  <2> HIDE DEF p
  <2>3. [p EXCEPT !.wasConnected = TRUE, !.initialized = TRUE].deviceMode = plugged
    BY <2>2 DEF Memory
  <2> QED
    BY <2>3 DEF JoybusMemory, p
<1>4. ram' = BootedMemory
  BY <1>3 DEF Boot
<1>5. \/ ram' = PoweredUp(AutoMode, TRUE, AutoMode, AutoMode)
      \/ ram' = PoweredUp(NoMode, FALSE, AutoMode, AutoMode)
  <2>1. CASE scratch = AutoMode
    BY <1>4, <2>1, ModeTypes DEF BootedMemory
  <2>2. CASE scratch = NoMode
    BY <1>2, <1>4, <2>2, ModeTypes DEF BootedMemory
  <2> QED
    BY <1>2, <2>1, <2>2
<1>6. /\ ram'.deviceMode = AutoMode /\ ram'.adapter = AutoMode
      /\ ram'.connected = Sees(AutoMode) /\ ram'.initialized /\ ~ram'.wasConnected
  <2>1. ASSUME NEW h, NEW a, ram' = PoweredUp(h, a, AutoMode, AutoMode)
        PROVE  /\ ram'.deviceMode = AutoMode /\ ram'.adapter = AutoMode
               /\ ram'.connected = Sees(AutoMode) /\ ram'.initialized
               /\ ~ram'.wasConnected
    BY <2>1, Zenon DEF PoweredUp
  <2> QED
    BY <1>5, <2>1
<1>7. ~Stale'
  BY <1>1, <1>6 DEF Stale, Sees
<1>8. TillFound = <<4, 0, 0>>
  BY <1>1 DEF TillFound
<1>9. \/ TillFound' = <<0, 0, ScanTime'>>
      \/ TillFound' = <<0, FullScanEvery - ram'.quickMisses, ScanTime'>>
  BY <1>1, <1>6, <1>7 DEF TillFound
<1>10. Closer(TillFound', TillFound)
  BY <1>8, <1>9, CloserIsLexicographic
<1> QED
  BY <1>1, <1>6, <1>10, StillSought

LEMMA SoughtPolls ==
  ASSUME Remote = {}, Inv, Inv', Sought, LeftAlone, PollInput
  PROVE  Sought' /\ Closer(TillFound', TillFound)
<1>1. Running /\ Running' /\ Stale /\ plugged' = plugged /\ ram \in Memory
  BY DEF PollInput, Running, Stale, Inv, Good
<1>2. /\ ram'.connected = Sees(ram.adapter) /\ ram'.adapter = ram.adapter
      /\ ram'.deviceMode = ram.deviceMode
  BY <1>1 DEF PollInput, Memory
<1>3. ~Stale'
  BY <1>1, <1>2 DEF Stale, Sees
<1>4. TillFound = <<3, 0, 0>>
  BY <1>1 DEF TillFound
<1>5. \/ TillFound' = <<0, 0, ScanTime'>>
      \/ TillFound' = <<2, 0, 0>>
      \/ TillFound' = <<1, 0, 0>>
      \/ TillFound' = <<0, FullScanEvery - ram'.quickMisses, ScanTime'>>
  BY <1>1, <1>3 DEF TillFound
<1>6. Closer(TillFound', TillFound)
  BY <1>4, <1>5, CloserIsLexicographic
<1> QED
  BY <1>1, <1>2, <1>6, StillSought DEF Sought, Waiting

LEMMA SoughtWaits ==
  ASSUME Remote = {}, Inv, Inv', Sought, LeftAlone, Tick
  PROVE  /\ Sought'
         /\ TillFound' = TillFound \/ Closer(TillFound', TillFound)
         /\ ~Stale /\ TillFound[1] = 0 /\ ScanTime > 0 => Closer(TillFound', TillFound)
<1>1. ram \in Memory /\ ram' = Aged(ram) /\ Running /\ Running' /\ plugged' = plugged
  BY DEF Inv, Good, Tick, Running
<1>2. /\ ram'.connected = ram.connected /\ ram'.initialized = ram.initialized
      /\ ram'.wasConnected = ram.wasConnected /\ ram'.adapter = ram.adapter
      /\ ram'.reverted = ram.reverted /\ ram'.quickMisses = ram.quickMisses
      /\ ram'.deviceMode = ram.deviceMode /\ ram'.nextDetect = Less(ram.nextDetect)
      /\ ram'.downFor = IF ram.wasConnected THEN ram.downFor
                        ELSE Older(ram.downFor, DisconnectDelay)
  BY <1>1 DEF Aged, Memory
<1>3. ram.nextDetect \in Nat /\ ram.downFor \in 0..DisconnectDelay /\ DisconnectDelay \in Nat
  BY <1>1, DelayAssumption DEF Memory
<1>4. Sought'
  BY <1>1, <1>2, StillSought DEF Sought, Waiting
<1>5. (Stale' <=> Stale)
  BY <1>1, <1>2 DEF Stale, Sees
<1>6. ram.connected \/ ~ram.wasConnected =>
        /\ ScanTime \in Int /\ ScanTime' \in Int /\ ScanTime' <= ScanTime
        /\ ScanTime > 0 => ScanTime' < ScanTime
  BY <1>2, <1>3 DEF ScanTime, Less, Older
<1>7. CASE Stale \/ (~ram.connected /\ (~ram.initialized \/ ram.wasConnected))
  <2>1. TillFound' = TillFound
    BY <1>1, <1>2, <1>5, <1>7 DEF TillFound
  <2>2. Stale \/ TillFound = <<2, 0, 0>> \/ TillFound = <<1, 0, 0>>
    BY <1>1, <1>7 DEF TillFound
  <2>3. Stale \/ TillFound[1] # 0
    BY <2>2
  <2> QED
    BY <1>4, <2>1, <2>3
<1>8. CASE ~Stale /\ ~(~ram.connected /\ (~ram.initialized \/ ram.wasConnected))
  <2>1. PICK n : TillFound = <<0, n, ScanTime>> /\ TillFound' = <<0, n, ScanTime'>>
    <3>1. CASE ram.connected
      BY <1>1, <1>2, <1>5, <1>8, <3>1 DEF TillFound
    <3>2. CASE ~ram.connected
      BY <1>1, <1>2, <1>5, <1>8, <3>2 DEF TillFound
    <3> QED
      BY <3>1, <3>2
  <2>2. /\ ScanTime \in Int /\ ScanTime' \in Int /\ ScanTime' <= ScanTime
        /\ ScanTime > 0 => ScanTime' < ScanTime
    BY <1>6, <1>8
  <2>3. ScanTime' < ScanTime => Closer(TillFound', TillFound)
    BY <2>1, CloserIsLexicographic
  <2>4. ScanTime' = ScanTime => TillFound' = TillFound
    BY <2>1
  <2> QED
    BY <1>4, <2>2, <2>3, <2>4
<1> QED
  BY <1>7, <1>8

LEMMA SoughtPasses ==
  ASSUME Remote = {}, Inv, Inv', Sought, LeftAlone, CheckAutoDetectHotSwap,
         ram'.deviceMode # plugged
  PROVE  /\ Sought'
         /\ TillFound' = TillFound \/ Closer(TillFound', TillFound)
         /\ ~Stale /\ ~(TillFound[1] = 0 /\ ScanTime > 0) => Closer(TillFound', TillFound)
<1>1. /\ Running /\ Running' /\ plugged' = plugged /\ ram'.deviceMode = AutoMode
      /\ ram'.connected = ram.connected /\ ram'.adapter = ram.adapter
      /\ ram.connected =>
           /\ ram.wasConnected /\ ram.nextDetect > 0
           /\ ram'.wasConnected /\ ram'.nextDetect = ram.nextDetect
  BY SoughtPass DEF CheckAutoDetectHotSwap, Running
<1>2. Sought'
  BY <1>1, StillSought
<1>3. Stale' <=> Stale
  BY <1>1 DEF Stale, Sees
<1>4. /\ ram.nextDetect \in Nat /\ ram.downFor \in 0..DisconnectDelay
      /\ DisconnectDelay \in Nat /\ ram.quickMisses \in Nat /\ FullScanEvery \in Nat
  BY DelayAssumption DEF Inv, Good, Memory
<1>5. CASE Stale
  BY <1>1, <1>2, <1>3, <1>5 DEF TillFound
<1>6. CASE ~Stale /\ ram.connected
  <2>1. TillFound = <<0, 0, ScanTime>> /\ TillFound' = <<0, 0, ScanTime'>>
    BY <1>1, <1>3, <1>6 DEF TillFound
  <2>2. ScanTime' = ScanTime /\ ScanTime > 0
    BY <1>1, <1>6 DEF ScanTime
  <2>3. TillFound[1] = 0
    BY <2>1
  <2> QED
    BY <1>2, <2>1, <2>2, <2>3
<1>7. CASE ~Stale /\ ~ram.connected
  <2>1. /\ ram'.initialized /\ ~ram'.wasConnected
        /\ ram.initialized /\ ~ram.wasConnected =>
             \/ /\ ram'.quickMisses = ram.quickMisses
                /\ ram'.nextDetect = ram.nextDetect /\ ram'.reverted = ram.reverted
                /\ ram'.downFor = ram.downFor
                /\ \/ ram.nextDetect > 0
                   \/ ~ram.reverted /\ ram.downFor < DisconnectDelay
             \/ /\ ram.quickMisses + 1 < FullScanEvery
                /\ ram'.quickMisses = ram.quickMisses + 1
    BY <1>7, SoughtPass
  <2>2. TillFound' = <<0, FullScanEvery - ram'.quickMisses, ScanTime'>>
    BY <1>1, <1>3, <1>7, <2>1 DEF TillFound
  <2>3. CASE ~ram.initialized \/ ram.wasConnected
    <3>1. TillFound = <<2, 0, 0>> \/ TillFound = <<1, 0, 0>>
      BY <1>1, <1>7, <2>3 DEF TillFound
    <3> QED
      BY <1>2, <2>2, <3>1, CloserIsLexicographic
  <2>4. CASE ram.initialized /\ ~ram.wasConnected
    <3>1. TillFound = <<0, FullScanEvery - ram.quickMisses, ScanTime>>
      BY <1>1, <1>7, <2>4 DEF TillFound
    <3>2. CASE /\ ram'.quickMisses = ram.quickMisses
               /\ ram'.nextDetect = ram.nextDetect /\ ram'.reverted = ram.reverted
               /\ ram'.downFor = ram.downFor
               /\ \/ ram.nextDetect > 0
                  \/ ~ram.reverted /\ ram.downFor < DisconnectDelay
      <4>1. ScanTime' = ScanTime /\ ScanTime > 0
        BY <1>1, <1>4, <1>7, <3>2 DEF ScanTime
      <4>2. TillFound[1] = 0
        BY <3>1
      <4> QED
        BY <1>2, <2>2, <3>1, <3>2, <4>1, <4>2
    <3>3. CASE ram'.quickMisses = ram.quickMisses + 1
      <4>1. FullScanEvery - ram'.quickMisses < FullScanEvery - ram.quickMisses
        BY <1>4, <3>3
      <4> QED
        BY <1>2, <2>2, <3>1, <4>1, CloserIsLexicographic
    <3> QED
      BY <2>1, <2>4, <3>2, <3>3
  <2> QED
    BY <2>3, <2>4
<1> QED
  BY <1>5, <1>6, <1>7

(* With no remote command, a device at home gets closer to the controller  *)
(* that is plugged, for all delays and families.                           *)
THEOREM SoughtIsOnItsWay ==
  ASSUME Remote = {}
  PROVE  Spec => SoughtIsFound
<1> DEFINE Closing == \/ ram'.deviceMode = plugged
                      \/ /\ Sought'
                         /\ TillFound' = TillFound \/ Closer(TillFound', TillFound)
                         /\ DueToFind => Closer(TillFound', TillFound)
<1>1. Inv /\ HandedOn /\ [Next]_vars => [Sought /\ LeftAlone => Closing]_vars
  <2> SUFFICES ASSUME Inv, HandedOn, Next, Sought, LeftAlone, ram'.deviceMode # plugged
               PROVE  /\ Sought'
                      /\ TillFound' = TillFound \/ Closer(TillFound', TillFound)
                      /\ DueToFind => Closer(TillFound', TillFound)
    OBVIOUS
  <2>1. Inv'
    BY NextInv
  <2>2. DueToFind => Closer(TillFound', TillFound)
    <3>1. CASE ~Running
      BY <2>1, <3>1, SoughtBoots DEF DueToFind
    <3>2. CASE Running /\ Stale
      BY <2>1, <3>2, SoughtPolls DEF DueToFind
    <3>3. CASE Running /\ ~Stale
      BY <2>1, <3>3, SoughtWaits, SoughtPasses DEF DueToFind
    <3> QED
      BY <3>1, <3>2, <3>3
  <2>3. CASE Boot
    BY <2>1, <2>3, SoughtBoots
  <2>4. CASE CheckAutoDetectHotSwap
    BY <2>1, <2>2, <2>4, SoughtPasses
  <2>5. CASE PollInput
    BY <2>1, <2>5, SoughtPolls
  <2>6. CASE Tick
    BY <2>1, <2>2, <2>6, SoughtWaits
  <2> QED
    BY <2>3, <2>4, <2>5, <2>6, AloneNext DEF Inv
<1>2. Init => HandedOn
  BY DEF Init, HandedOn
<1> QED
  BY <1>1, <1>2, HandedOnNext, Invariance, InitInv, NextInv, PTL DEF Spec, SoughtIsFound
=============================================================================
