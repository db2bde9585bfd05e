------------------------ MODULE ControllerFrames_proofs ------------------------
(***************************************************************************)
(* Proofs about ControllerFrames, for any number of ports, any buttons and *)
(* any setups, as far as the setups are ones for which the property holds. *)
(***************************************************************************)
EXTENDS ControllerFramesProps, TLAPS

-----------------------------------------------------------------------------
(* The operators. *)

LEMMA HotkeysTyped ==
    ASSUME setup \in Setups, NEW h \in Hot, NEW there \in BOOLEAN, NEW physical
    PROVE  UpdatedHotkeys(h, there, physical) \in Hot
  <1>. DEFINE now == physical \cap Buttons
              home == Applies(h, "home", setup.homeCombo, now)
              capture == ~home /\ Applies(h, "capture", setup.captureCombo, now)
              active == IF home THEN h.active \cup {"home"}
                        ELSE IF capture THEN {"capture"} ELSE {}
              output == IF home THEN {Home} ELSE IF capture THEN {Capture} ELSE {}
              suppressed == IF home THEN setup.homeCombo
                            ELSE IF capture THEN setup.captureCombo ELSE {}
  <1>1. active \in SUBSET Keys
    <2>1. h.active \in SUBSET Keys
      BY DEF Hot
    <2>. QED
      BY <2>1 DEF Keys
  <1>2. output \in SUBSET {Home, Capture}
    OBVIOUS
  <1>3. suppressed \in SUBSET Buttons
    BY FramesAssumption
  <1>4. now \in SUBSET Buttons
    OBVIOUS
  <1>5. UpdatedHotkeys(h, there, physical)
          = IF menu \/ ~there THEN NoHotkey
            ELSE [active |-> active, output |-> output, suppressed |-> suppressed, previous |-> now]
    BY Zenon DEF UpdatedHotkeys
  <1>. HIDE DEF now, home, capture, active, output, suppressed
  <1>6. [active |-> active, output |-> output, suppressed |-> suppressed, previous |-> now] \in Hot
    BY <1>1, <1>2, <1>3, <1>4 DEF Hot
  <1>7. NoHotkey \in Hot
    BY DEF NoHotkey, Hot
  <1>. QED
    BY <1>5, <1>6, <1>7, Zenon

LEMMA MappedTyped ==
    ASSUME NEW physical \in SUBSET Output, NEW h
    PROVE  Mapped(physical, h) \in SUBSET Output
  BY DEF Mapped, Remapped

LEMMA TurboTyped ==
    ASSUME setup \in Setups, NEW t \in Turbo, NEW buttons \in SUBSET Output
    PROVE  TurboAfter(t, buttons) \in Turbo
  <1>1. Tracked(t, buttons) \in Turbo
    BY FramesAssumption DEF Tracked, Turbo
  <1>. QED
    BY <1>1 DEF TurboAfter

LEMMA DrawnTyped ==
    ASSUME setup \in Setups, on \in SUBSET Output,
           NEW physical \in SUBSET Output, NEW h \in Hot, NEW t \in Turbo
    PROVE  Drawn(physical, h, t) \in SUBSET Output
  <1>. DEFINE m == Mapped(physical, h)
              k == TurboAfter(t, m)
  <1>1. m \in SUBSET Output
    BY MappedTyped
  <1>2. k \in Turbo
    BY <1>1, TurboTyped
  <1>3. h.output \in SUBSET Output
    BY DEF Hot, Output
  <1>4. Drawn(physical, h, t) = (Shown(k, m) \ h.suppressed) \cup h.output
    BY DEF Drawn
  <1>. HIDE DEF m, k
  <1>5. Shown(k, m) \in SUBSET Output
    BY <1>1, <1>2 DEF Shown, Turbo
  <1>. QED
    BY <1>3, <1>4, <1>5

-----------------------------------------------------------------------------
(* Types. *)

LEMMA TurboButtonsTyped == setup \in Setups => TurboButtons \in SUBSET Output
  BY FramesAssumption DEF TurboButtons

LEMMA InitTyped == Init => TypeOK
  <1>. SUFFICES ASSUME Init PROVE TypeOK
    OBVIOUS
  <1>1. setup \in Setups /\ on \in SUBSET Output
    BY TurboButtonsTyped DEF Init
  <1>2. Unplugged \in Pad /\ NoHotkey \in Hot /\ NoTurbo \in Turbo
    BY DEF Unplugged, Pad, NoHotkey, Hot, NoTurbo, Turbo
  <1>3. pad \in [Port -> Pad] /\ read \in [Port -> Pad]
        /\ hot \in [Port -> Hot] /\ turbo \in [Port -> Turbo]
    BY <1>2 DEF Init
  <1>4. frame \in [Port -> SUBSET Output] /\ pre \in [Port -> SUBSET Output]
        /\ sent \in [Port -> SUBSET Output]
    BY DEF Init
  <1>5. needs \in SUBSET Port /\ busy \in SUBSET Port /\ moved \in SUBSET Port
    BY DEF Init
  <1>6. menu \in BOOLEAN /\ prepared \in BOOLEAN
    BY DEF Init
  <1>7. pc \in Steps /\ at \in 1 .. Ports + 1
    BY FramesAssumption DEF Init, Steps
  <1>. QED
    BY <1>1, <1>3, <1>4, <1>5, <1>6, <1>7 DEF TypeOK

(* What a poll does to one port. *)
Seen(ok) == [p \in Port |-> IF p \in ok THEN pad[p] ELSE read[p]]
Got(ok) ==
    [p \in Port |-> IF p \in ok /\ (setup.everyPoll \/ pad[p] # read[p])
                    THEN pad[p].held ELSE frame[p]]
NewHot(ok) == [p \in Port |-> UpdatedHotkeys(hot[p], Seen(ok)[p].there, Got(ok)[p])]
Kept(ok) ==
    [p \in Port |-> IF Seen(ok)[p].there
                    THEN TurboAfter(turbo[p], Mapped(Got(ok)[p], NewHot(ok)[p]))
                    ELSE turbo[p]]

LEMMA PollStep ==
    ASSUME NEW ok \in SUBSET Port, Poll(ok)
    PROVE  /\ read' = Seen(ok)
           /\ pre' = [p \in Port |-> IF Seen(ok)[p].there THEN Got(ok)[p] ELSE {}]
           /\ hot' = NewHot(ok)
           /\ turbo' = Kept(ok)
           /\ frame' = [p \in Port |-> IF Seen(ok)[p].there
                                       THEN Drawn(Got(ok)[p], NewHot(ok)[p], turbo[p])
                                       ELSE Got(ok)[p]]
           /\ needs' = needs
                \cup {p \in Port : (Seen(ok)[p].there /\ setup.everyPoll) \/ Seen(ok)[p] # read[p]}
                \cup {p \in Port : ~menu /\ NewHot(ok)[p].output # hot[p].output}
                \cup {p \in Port : Seen(ok)[p].there /\ Tracking(Kept(ok)[p])}
           /\ pc = "poll" /\ pc' = "prepare"
           /\ UNCHANGED <<setup, pad, on, at, sent, busy, moved>>
           /\ UNCHANGED menu /\ UNCHANGED prepared
  <1>. DEFINE written == {p \in ok : setup.everyPoll \/ pad[p] # read[p]}
              got == [p \in Port |-> IF p \in written THEN pad[p].held ELSE frame[p]]
  <1>1. got = Got(ok)
    <2>1. \A p : p \in written <=> p \in ok /\ (setup.everyPoll \/ pad[p] # read[p])
      OBVIOUS
    <2>. QED
      BY <2>1, Zenon DEF Got
  <1>. HIDE DEF got
  <1>2. /\ read' = Seen(ok)
        /\ pre' = [p \in Port |-> IF Seen(ok)[p].there THEN got[p] ELSE {}]
        /\ hot' = [p \in Port |-> UpdatedHotkeys(hot[p], Seen(ok)[p].there, got[p])]
    BY DEF Poll, Seen, got
  <1>. QED
    BY <1>1, <1>2 DEF Poll, Seen, Got, NewHot, Kept, usbVars

LEMMA PollTyped ==
    ASSUME TypeOK, NEW ok \in SUBSET Port, Poll(ok)
    PROVE  /\ read' \in [Port -> Pad] /\ pre' \in [Port -> SUBSET Output]
           /\ hot' \in [Port -> Hot] /\ turbo' \in [Port -> Turbo]
           /\ frame' \in [Port -> SUBSET Output] /\ needs' \in SUBSET Port
  <1>1. Seen(ok) \in [Port -> Pad] /\ \A p \in Port : Seen(ok)[p].there \in BOOLEAN
    BY DEF TypeOK, Seen, Pad
  <1>2. Got(ok) \in [Port -> SUBSET Output]
    BY DEF TypeOK, Got, Pad, Output
  <1>3. NewHot(ok) \in [Port -> Hot]
    <2>1. \A p \in Port : UpdatedHotkeys(hot[p], Seen(ok)[p].there, Got(ok)[p]) \in Hot
      BY <1>1, HotkeysTyped DEF TypeOK
    <2>. QED
      BY <2>1 DEF NewHot
  <1>4. Kept(ok) \in [Port -> Turbo]
    <2>1. \A p \in Port : TurboAfter(turbo[p], Mapped(Got(ok)[p], NewHot(ok)[p])) \in Turbo
      BY <1>2, MappedTyped, TurboTyped DEF TypeOK
    <2>. QED
      BY <2>1 DEF Kept, TypeOK
  <1>5. \A p \in Port : Drawn(Got(ok)[p], NewHot(ok)[p], turbo[p]) \in SUBSET Output
    BY <1>2, <1>3, DrawnTyped DEF TypeOK
  <1>6. read' \in [Port -> Pad] /\ hot' \in [Port -> Hot] /\ turbo' \in [Port -> Turbo]
    BY <1>1, <1>3, <1>4, PollStep
  <1>7. pre' \in [Port -> SUBSET Output]
    BY <1>2, PollStep
  <1>8. frame' \in [Port -> SUBSET Output]
    BY <1>2, <1>5, PollStep
  <1>9. needs' \in SUBSET Port
    BY PollStep DEF TypeOK
  <1>. QED
    BY <1>6, <1>7, <1>8, <1>9

LEMMA PrepareTyped ==
    ASSUME TypeOK, Prepare
    PROVE  /\ turbo' \in [Port -> Turbo] /\ frame' \in [Port -> SUBSET Output]
           /\ needs' \in SUBSET Port
  <1>1. \A p \in Port : /\ TurboAfter(turbo[p], Mapped(pre[p], hot[p])) \in Turbo
                        /\ Drawn(pre[p], hot[p], turbo[p]) \in SUBSET Output
    BY MappedTyped, TurboTyped, DrawnTyped DEF TypeOK
  <1>2. turbo' \in [Port -> Turbo]
    BY <1>1 DEF Prepare, TypeOK
  <1>3. frame' \in [Port -> SUBSET Output]
    BY <1>1 DEF Prepare, TypeOK
  <1>4. needs' \in SUBSET Port
    BY DEF Prepare, TypeOK
  <1>. QED
    BY <1>2, <1>3, <1>4

LEMMA StepTyped == TypeOK /\ [Next]_vars => TypeOK'
  <1>. SUFFICES ASSUME TypeOK, [Next]_vars PROVE TypeOK'
    OBVIOUS
  <1>1. ASSUME NEW ok \in SUBSET Port, Poll(ok) PROVE TypeOK'
    <2>1. pc' \in Steps
      BY <1>1, PollStep DEF Steps
    <2>2. UNCHANGED <<setup, pad, on, at, sent, busy, moved>>
      BY <1>1, PollStep
    <2>3. UNCHANGED menu /\ UNCHANGED prepared
      BY <1>1, PollStep
    <2>. QED
      BY <1>1, <2>1, <2>2, <2>3, PollTyped DEF TypeOK
  <1>2. CASE NoPoll \/ NoPrepare \/ AllSent
    <2>1. pc' \in Steps
      BY <1>2 DEF NoPoll, NoPrepare, AllSent, Steps
    <2>2. at' \in 1 .. Ports + 1
      BY <1>2, FramesAssumption DEF NoPoll, NoPrepare, AllSent, TypeOK
    <2>3. prepared' \in BOOLEAN
      BY <1>2, Zenon DEF NoPoll, NoPrepare, AllSent, TypeOK
    <2>4. UNCHANGED menu
      BY <1>2 DEF NoPoll, NoPrepare, AllSent
    <2>5. UNCHANGED <<setup, pad, read, frame, pre, needs, hot, turbo, on, sent, busy, moved>>
      BY <1>2 DEF NoPoll, NoPrepare, AllSent, frameVars, usbVars
    <2>. QED
      BY <2>1, <2>2, <2>3, <2>4, <2>5 DEF TypeOK
  <1>3. CASE Prepare
    <2>1. pc' \in Steps
      BY <1>3 DEF Prepare, Steps
    <2>2. prepared' \in BOOLEAN
      BY <1>3, Zenon DEF Prepare
    <2>3. UNCHANGED menu
      BY <1>3 DEF Prepare
    <2>4. UNCHANGED <<setup, pad, read, pre, hot, on, at, sent, busy, moved>>
      BY <1>3 DEF Prepare, usbVars
    <2>. QED
      BY <1>3, <2>1, <2>2, <2>3, <2>4, PrepareTyped DEF TypeOK
  <1>4. CASE Send
    <2>1. at \in Port /\ at' \in 1 .. Ports + 1
      BY <1>4, FramesAssumption DEF Send, TypeOK, Port
    <2>2. sent' \in [Port -> SUBSET Output]
      BY <1>4, <2>1 DEF Send, TypeOK
    <2>3. busy' \in SUBSET Port /\ needs' \in SUBSET Port /\ moved' \in SUBSET Port
      BY <1>4, <2>1 DEF Send, TypeOK
    <2>4. UNCHANGED menu /\ UNCHANGED prepared
      BY <1>4 DEF Send
    <2>5. UNCHANGED <<setup, pad, read, frame, pre, hot, turbo, on, pc>>
      BY <1>4 DEF Send, frameVars
    <2>. QED
      BY <2>1, <2>2, <2>3, <2>4, <2>5 DEF TypeOK
  <1>5. CASE Restore
    <2>1. frame' \in [Port -> SUBSET Output] /\ pc' \in Steps
      BY <1>5 DEF Restore, TypeOK, Steps
    <2>2. prepared' \in BOOLEAN
      BY <1>5, Zenon DEF Restore
    <2>3. UNCHANGED menu
      BY <1>5 DEF Restore
    <2>4. UNCHANGED <<setup, pad, read, pre, needs, hot, turbo, on, at, sent, busy, moved>>
      BY <1>5 DEF Restore, usbVars
    <2>. QED
      BY <2>1, <2>2, <2>3, <2>4 DEF TypeOK
  <1>6. CASE Ui
    <2>1. menu' \in BOOLEAN
      BY <1>6 DEF Ui
    <2>2. moved' \in SUBSET Port
      <3>1. moved' = Port \/ moved' = moved
        BY <1>6, Zenon DEF Ui
      <3>. QED
        BY <3>1 DEF TypeOK
    <2>3. pc' \in Steps
      BY <1>6 DEF Ui, Steps
    <2>4. UNCHANGED prepared
      BY <1>6 DEF Ui
    <2>5. UNCHANGED <<setup, pad, read, frame, pre, needs, hot, turbo, on, at, sent, busy>>
      BY <1>6 DEF Ui, frameVars, usbVars
    <2>. QED
      BY <2>1, <2>2, <2>3, <2>4, <2>5 DEF TypeOK
  <1>7. ASSUME NEW passed \in SUBSET TurboButtons, Background(passed) PROVE TypeOK'
    <2>1. on' \in SUBSET Output /\ pc' \in Steps
      BY <1>7, TurboButtonsTyped DEF Background, TypeOK, Steps
    <2>2. UNCHANGED menu /\ UNCHANGED prepared
      BY <1>7 DEF Background
    <2>3. UNCHANGED <<setup, pad, read, frame, pre, needs, hot, turbo, at, sent, busy, moved>>
      BY <1>7 DEF Background, frameVars, usbVars
    <2>. QED
      BY <2>1, <2>2, <2>3 DEF TypeOK
  <1>8. ASSUME NEW p \in Port, Change(p) \/ Collect(p) \/ HostReport(p) PROVE TypeOK'
    <2>1. Pads \subseteq Pad
      <3>1. setup.pads \subseteq Buttons
        BY FramesAssumption DEF TypeOK
      <3>2. [there : {TRUE}, held : SUBSET setup.pads] \subseteq Pad
        BY <3>1 DEF Pad
      <3>3. Unplugged \in Pad
        BY DEF Unplugged, Pad
      <3>. QED
        BY <3>2, <3>3, Zenon DEF Pads
    <2>2. pad' \in [Port -> Pad]
      BY <1>8, <2>1 DEF Change, Collect, HostReport, TypeOK
    <2>3. needs' \in SUBSET Port /\ busy' \in SUBSET Port
      BY <1>8 DEF Change, Collect, HostReport, TypeOK, usbVars
    <2>4. UNCHANGED menu /\ UNCHANGED prepared
      BY <1>8 DEF Change, Collect, HostReport, loopVars
    <2>5. UNCHANGED <<setup, read, frame, pre, hot, turbo, on, pc, at, sent, moved>>
      BY <1>8 DEF Change, Collect, HostReport, loopVars, frameVars, usbVars
    <2>. QED
      BY <2>2, <2>3, <2>4, <2>5 DEF TypeOK
  <1>9. CASE UNCHANGED vars
    <2>1. UNCHANGED menu /\ UNCHANGED prepared
      BY <1>9 DEF vars, loopVars
    <2>2. UNCHANGED <<setup, pad, read, frame, pre, needs, hot, turbo, on, pc, at, sent, busy, moved>>
      BY <1>9 DEF vars, loopVars, frameVars, usbVars
    <2>. QED
      BY <2>1, <2>2 DEF TypeOK
  <1>. QED
    BY <1>1, <1>2, <1>3, <1>4, <1>5, <1>6, <1>7, <1>8, <1>9 DEF Next, Loop

-----------------------------------------------------------------------------
(* The frames hold what the adapters read. *)

(* Nothing is set up that changes the buttons on their way. *)
Untouched(s) ==
    /\ \A b \in Buttons : s.remap[b] = b
    /\ s.turboHeld = {} /\ s.turboLatched = {}
    /\ s.homeCombo = {} /\ s.captureCombo = {}

(* The setups for which the comment in the code holds: the adapter asks    *)
(* for delivery on every poll, or there is nothing to transform.           *)
Restored == \A s \in Setups : s.everyPoll \/ Untouched(s)

(* The frame holds the pad itself: not between processing and restoring.   *)
Raw ==
    \/ pc \in {"poll", "ui", "background"}
    \/ pc = "send" /\ ~prepared
    \/ pc = "prepare" /\ needs = {}

Physical ==
    /\ \A p \in Port : read[p].there => pre[p] = read[p].held
    /\ Raw => \A p \in Port : read[p].there => frame[p] = read[p].held
    /\ TurboButtons = {} => \A p \in Port : turbo[p].raw = {}

LEMMA InitPhysical == Init => Physical
  BY DEF Init, Physical, Unplugged, NoTurbo

LEMMA NoTurboButtons ==
    ASSUME TurboButtons = {}, NEW t, NEW buttons PROVE TurboAfter(t, buttons) = t
  BY DEF TurboAfter

(* Nothing is done to the buttons when nothing is set up. *)
LEMMA DrawnUntouched ==
    ASSUME setup \in Setups, Untouched(setup), NEW physical \in SUBSET Buttons, NEW h \in Hot,
           NEW there \in BOOLEAN, NEW t, t.raw = {}
    PROVE  Drawn(physical, UpdatedHotkeys(h, there, physical), t) = physical
  <1>. DEFINE k == UpdatedHotkeys(h, there, physical)
  <1>1. k.suppressed = {} /\ k.output = {}
    BY DEF UpdatedHotkeys, Applies, Matches, NoHotkey, Untouched
  <1>. HIDE DEF k
  <1>2. Mapped(physical, k) = physical
    <2>1. physical \ k.suppressed = physical
      BY <1>1
    <2>2. {setup.remap[b] : b \in physical} = physical
      BY DEF Untouched
    <2>3. Remapped(physical) = physical
      BY <2>2 DEF Remapped, Output
    <2>. QED
      BY <2>1, <2>3 DEF Mapped
  <1>3. TurboButtons = {}
    BY DEF TurboButtons, Untouched
  <1>4. TurboAfter(t, physical) = t
    BY <1>3, NoTurboButtons
  <1>5. Shown(t, physical) = physical
    BY DEF Shown, Untouched
  <1>6. Drawn(physical, k, t) = (Shown(TurboAfter(t, Mapped(physical, k)), Mapped(physical, k))
                                   \ k.suppressed) \cup k.output
    BY DEF Drawn
  <1>7. Drawn(physical, k, t) = (physical \ {}) \cup {}
    BY <1>1, <1>2, <1>4, <1>5, <1>6
  <1>. QED
    BY <1>7 DEF k

LEMMA PollPhysical ==
    ASSUME Restored, TypeOK, Physical, NEW ok \in SUBSET Port, Poll(ok)
    PROVE  Physical'
  <1>1. /\ read' = Seen(ok) /\ pc = "poll" /\ pc' = "prepare"
        /\ pre' = [p \in Port |-> IF Seen(ok)[p].there THEN Got(ok)[p] ELSE {}]
        /\ frame' = [p \in Port |-> IF Seen(ok)[p].there
                                    THEN Drawn(Got(ok)[p], NewHot(ok)[p], turbo[p])
                                    ELSE Got(ok)[p]]
        /\ turbo' = Kept(ok) /\ UNCHANGED <<setup, TurboButtons>>
    BY PollStep DEF TurboButtons
  <1>2. ASSUME NEW p \in Port, Seen(ok)[p].there
        PROVE  Got(ok)[p] = Seen(ok)[p].held
    <2>1. read[p].there => frame[p] = read[p].held
      BY <1>1 DEF Physical, Raw
    <2>. QED
      BY <1>2, <2>1 DEF Seen, Got
  <1>3. \A p \in Port : read'[p].there => pre'[p] = read'[p].held
    BY <1>1, <1>2
  <1>4. TurboButtons' = {} => \A p \in Port : turbo'[p].raw = {}
    BY <1>1, NoTurboButtons DEF Physical, Kept
  <1>5. ASSUME Raw', NEW p \in Port, read'[p].there PROVE frame'[p] = read'[p].held
    <2>1. needs' = {}
      BY <1>1, <1>5 DEF Raw
    <2>2. ~setup.everyPoll
      BY <1>1, <1>5, <2>1, PollStep
    <2>3. Untouched(setup) /\ setup \in Setups
      BY <2>2 DEF Restored, TypeOK
    <2>4. TurboButtons = {}
      BY <2>3 DEF TurboButtons, Untouched
    <2>5. /\ turbo[p].raw = {} /\ hot[p] \in Hot /\ Seen(ok)[p].there \in BOOLEAN
          /\ Seen(ok)[p].held \in SUBSET Buttons
      BY <2>4 DEF Physical, TypeOK, Seen, Pad
    <2>6. Got(ok)[p] = Seen(ok)[p].held
      BY <1>1, <1>2, <1>5
    <2>7. NewHot(ok)[p] = UpdatedHotkeys(hot[p], Seen(ok)[p].there, Seen(ok)[p].held)
      BY <2>6 DEF NewHot
    <2>8. Drawn(Seen(ok)[p].held, NewHot(ok)[p], turbo[p]) = Seen(ok)[p].held
      BY <2>3, <2>5, <2>7, DrawnUntouched
    <2>. QED
      BY <1>1, <1>5, <2>6, <2>8
  <1>. QED
    BY <1>3, <1>4, <1>5 DEF Physical

LEMMA StepPhysical ==
    ASSUME Restored, TypeOK, Physical, [Next]_vars
    PROVE  Physical'
  <1>1. ASSUME NEW ok \in SUBSET Port, Poll(ok) PROVE Physical'
    BY <1>1, PollPhysical
  <1>2. CASE Prepare
    <2>1. UNCHANGED <<read, pre, TurboButtons>> /\ pc' = "send"
      BY <1>2 DEF Prepare, TurboButtons
    <2>2. prepared'
      BY <1>2, Zenon DEF Prepare
    <2>3. ~Raw'
      BY <2>1, <2>2 DEF Raw
    <2>4. TurboButtons' = {} => \A p \in Port : turbo'[p].raw = {}
      BY <1>2, <2>1, NoTurboButtons DEF Physical, Prepare
    <2>. QED
      BY <2>1, <2>3, <2>4 DEF Physical
  <1>3. CASE Restore
    <2>1. UNCHANGED <<read, pre, turbo, TurboButtons>>
      BY <1>3 DEF Restore, TurboButtons
    <2>2. \A p \in Port : read[p].there => frame'[p] = pre[p]
      BY <1>3 DEF Restore
    <2>. QED
      BY <2>1, <2>2 DEF Physical
  <1>4. CASE Loop /\ ~Prepare /\ ~Restore /\ ~\E ok \in SUBSET Port : Poll(ok)
    <2>1. UNCHANGED <<read, pre, frame, turbo, TurboButtons>>
      BY <1>4 DEF Loop, NoPoll, NoPrepare, Send, AllSent, Ui, Background, frameVars, TurboButtons
    <2>2. Raw' => Raw
      <3>1. NoPoll => Raw
        BY DEF NoPoll, Raw
      <3>2. NoPrepare => Raw
        BY DEF NoPrepare, Raw
      <3>3. Send => pc = "send" /\ UNCHANGED pc /\ UNCHANGED prepared
        BY DEF Send
      <3>4. AllSent => (Raw' => Raw)
        BY DEF AllSent, Raw
      <3>5. Ui \/ (\E passed \in SUBSET TurboButtons : Background(passed)) => Raw
        BY DEF Ui, Background, Raw
      <3>6. Send => (Raw' => Raw)
        BY <3>3 DEF Raw
      <3>. QED
        BY <1>4, <3>1, <3>2, <3>4, <3>5, <3>6, Zenon DEF Loop
    <2>. QED
      BY <2>1, <2>2 DEF Physical
  <1>5. CASE (\E p \in Port : Change(p) \/ Collect(p) \/ HostReport(p)) \/ UNCHANGED vars
    <2>1. UNCHANGED <<read, pre, frame, turbo, pc, TurboButtons>> /\ UNCHANGED prepared
      BY <1>5 DEF Change, Collect, HostReport, loopVars, frameVars, vars, TurboButtons
    <2>2. needs' = {} => needs = {}
      BY <1>5 DEF Change, Collect, HostReport, vars
    <2>3. Raw' => Raw
      BY <2>1, <2>2 DEF Raw
    <2>. QED
      BY <2>1, <2>3 DEF Physical
  <1>. QED
    BY <1>1, <1>2, <1>3, <1>4, <1>5 DEF Next, Loop

-----------------------------------------------------------------------------
(* An open menu. *)

(* With every output but the Switch Pro nothing asks for delivery between  *)
(* the loop's test and the sending.                                        *)
Silent ==
    pc = "send" /\ ~setup.switchPro =>
        /\ ~prepared => needs = {}
        /\ prepared /\ menu => \A p \in Port : read[p].there => frame[p] = {}

LEMMA StepSilent ==
    ASSUME TypeOK, Silent, [Next]_vars
    PROVE  Silent'
  <1>1. CASE Prepare
    <2>1. prepared' /\ (menu' => menu)
      BY <1>1, Zenon DEF Prepare
    <2>2. menu => \A p \in Port : read'[p].there => frame'[p] = {}
      BY <1>1 DEF Prepare
    <2>. QED
      BY <2>1, <2>2 DEF Silent
  <1>2. CASE NoPrepare
    <2>1. needs' = {}
      BY <1>2 DEF NoPrepare
    <2>2. ~prepared'
      BY <1>2, Zenon DEF NoPrepare
    <2>. QED
      BY <2>1, <2>2 DEF Silent
  <1>3. CASE Send
    <2>1. UNCHANGED <<setup, pc, read, frame>> /\ UNCHANGED menu /\ UNCHANGED prepared
      BY <1>3 DEF Send, frameVars
    <2>2. needs = {} => needs' = {}
      BY <1>3 DEF Send
    <2>. QED
      BY <2>1, <2>2 DEF Silent
  <1>4. CASE Loop /\ ~Prepare /\ ~NoPrepare /\ ~Send
    <2>1. pc' # "send"
      BY <1>4, PollStep DEF Loop, NoPoll, AllSent, Restore, Ui, Background
    <2>. QED
      BY <2>1 DEF Silent
  <1>5. CASE (\E p \in Port : Change(p) \/ Collect(p) \/ HostReport(p)) \/ UNCHANGED vars
    <2>1. UNCHANGED <<setup, pc, read, frame>> /\ UNCHANGED menu /\ UNCHANGED prepared
      BY <1>5 DEF Change, Collect, HostReport, loopVars, frameVars, vars
    <2>2. ~setup.switchPro => UNCHANGED needs
      BY <1>5 DEF Change, Collect, HostReport, vars
    <2>. QED
      BY <2>1, <2>2 DEF Silent
  <1>. QED
    BY <1>1, <1>2, <1>3, <1>4, <1>5 DEF Next

LEMMA SilentSends ==
    ASSUME TypeOK, Silent, [Next]_vars, menu, pc = "send", ~setup.switchPro,
           NEW p \in Port, read[p].there
    PROVE  sent'[p] \in {sent[p], {}}
  <1>1. CASE Send
    <2>1. needs # {} => frame[p] = {}
      BY DEF Silent
    <2>. QED
      BY <1>1, <2>1 DEF Send, TypeOK
  <1>2. CASE ~Send
    <2>1. UNCHANGED sent
      BY <1>2, PollStep DEF Next, Loop, NoPoll, Prepare, NoPrepare, AllSent, Restore, Ui,
                            Background, Change, Collect, HostReport, vars, usbVars
    <2>. QED
      BY <2>1
  <1>. QED
    BY <1>1, <1>2

-----------------------------------------------------------------------------
(* The host is up to date. *)

(* The buttons of a port behind the remap, and what is shown of them when  *)
(* turbo shows nothing.                                                    *)
Keyed(p) == Mapped(pre[p], hot[p])
Bare(p) == ((Keyed(p) \ setup.turboLatched) \ hot[p].suppressed) \cup hot[p].output

(* Turbo tracks the latched buttons and those it has been shown pressed.   *)
Tracks(t) ==
    /\ t.latched \subseteq t.raw /\ t.latched \subseteq setup.turboLatched
    /\ t.raw \subseteq t.latched \cup setup.turboHeld
    /\ setup.turboHeld \cap t.last \subseteq t.raw

(* Turbo has seen the buttons as they are. *)
Seeing(p) == TurboButtons = {} \/ turbo[p].last = Keyed(p)

(* Nothing that turbo works on is pressed or latched. *)
Still(p) == turbo[p].latched = {} /\ setup.turboHeld \cap Keyed(p) = {}

(* What is sent: the frame with turbo's buttons shown as they are on.      *)
Shows ==
    pc = "send" /\ prepared /\ ~menu =>
        \A p \in Port : read[p].there =>
            /\ Seeing(p)
            /\ \A b \in setup.turboHeld : b \in turbo[p].raw => b \in Keyed(p) \/ b \notin on
            /\ frame[p] = (Shown(turbo[p], Keyed(p)) \ hot[p].suppressed) \cup hot[p].output

Quiet(p) ==
    p \notin needs /\ read[p].there /\ ~menu /\ p \notin moved /\ ~setup.switchPro

Current ==
    /\ \A p \in Port : Tracks(turbo[p])
    /\ Untouched(setup) => \A p \in Port : hot[p].suppressed = {} /\ hot[p].output = {}
    /\ Shows
    /\ \A p \in Port : Quiet(p) => Seeing(p) /\ (Still(p) => sent[p] = Bare(p))

LEMMA InitCurrent == Init => Current
  <1>1. Init => \A p \in Port : Tracks(turbo[p])
    BY DEF Init, Tracks, NoTurbo
  <1>2. Init => \A p \in Port : hot[p].suppressed = {} /\ hot[p].output = {}
    BY DEF Init, NoHotkey
  <1>3. Init => Shows /\ \A p \in Port : ~Quiet(p)
    BY DEF Init, Shows, Quiet, Unplugged
  <1>. QED
    BY <1>1, <1>2, <1>3, Zenon DEF Current

LEMMA KeepsTracks ==
    ASSUME setup \in Setups, NEW t \in Turbo, Tracks(t), NEW buttons
    PROVE  Tracks(TurboAfter(t, buttons))
  <1>1. Tracks(Tracked(t, buttons))
    BY DEF Tracked, Tracks
  <1>. QED
    BY <1>1 DEF TurboAfter

(* Turbo that has seen the buttons goes on tracking what is pressed.       *)
LEMMA SeenAgain ==
    ASSUME TypeOK, ~menu, NEW p \in Port, Tracks(turbo[p]), Seeing(p)
    PROVE  TurboAfter(turbo[p], Keyed(p)).latched = turbo[p].latched
  <1>1. turbo[p] \in Turbo
    BY DEF TypeOK
  <1>2. TurboButtons = {} => TurboAfter(turbo[p], Keyed(p)) = turbo[p]
    BY NoTurboButtons
  <1>3. CASE turbo[p].last = Keyed(p) /\ TurboButtons # {}
    <2>1. TurboAfter(turbo[p], Keyed(p)) = Tracked(turbo[p], Keyed(p))
      BY <1>3 DEF TurboAfter
    <2>2. Tracked(turbo[p], Keyed(p)).latched = {b \in setup.turboLatched : b \in turbo[p].latched}
      BY <1>3 DEF Tracked
    <2>3. turbo[p].latched \subseteq setup.turboLatched
      BY DEF Tracks
    <2>. QED
      BY <2>1, <2>2, <2>3
  <1>. QED
    BY <1>2, <1>3 DEF Seeing

(* What is shown when turbo works on nothing is what is bare. *)
LEMMA StillShows ==
    ASSUME TypeOK, ~menu, NEW p \in Port, Tracks(turbo[p]), Still(p),
           \A b \in setup.turboHeld : b \in turbo[p].raw => b \in Keyed(p) \/ b \notin on
    PROVE  (Shown(turbo[p], Keyed(p)) \ hot[p].suppressed) \cup hot[p].output = Bare(p)
  <1>1. \A b \in turbo[p].raw : b \in setup.turboHeld /\ b \notin Keyed(p) /\ b \notin on
    BY DEF Tracks, Still
  <1>2. Shown(turbo[p], Keyed(p)) = Keyed(p) \ setup.turboLatched
    BY <1>1 DEF Shown
  <1>. QED
    BY <1>2 DEF Bare

(* What a step of the loop's other parts leaves alone. *)
LEMMA RestCurrent ==
    ASSUME TypeOK, Current,
           UNCHANGED <<setup, read, pre, hot, turbo, frame, sent>>,
           needs \subseteq needs',
           pc' = "send" => pc = "send",
           pc' = "send" => UNCHANGED <<on, pc>> /\ UNCHANGED menu /\ UNCHANGED prepared,
           (UNCHANGED moved /\ UNCHANGED menu) \/ moved' = Port
    PROVE  Current'
  <1>1. ASSUME UNCHANGED menu
        PROVE  \A p \in Port : /\ Keyed(p)' = Keyed(p) /\ Bare(p)' = Bare(p)
                               /\ Seeing(p)' <=> Seeing(p)
                               /\ Still(p)' <=> Still(p)
    <2>1. \A p \in Port : Keyed(p)' = Keyed(p)
      BY <1>1 DEF Keyed, Mapped, Remapped
    <2>. QED
      BY <2>1 DEF Bare, Seeing, Still, TurboButtons
  <1>2. \A p \in Port : Tracks(turbo[p])'
    BY DEF Current, Tracks
  <1>3. Untouched(setup)' => \A p \in Port : hot'[p].suppressed = {} /\ hot'[p].output = {}
    BY DEF Current, Untouched
  <1>4. Shows'
    <2>1. CASE pc' = "send"
      <3>1. UNCHANGED <<on, pc>> /\ UNCHANGED menu /\ UNCHANGED prepared
        BY <2>1
      <3>2. \A p \in Port : Shown(turbo[p], Keyed(p))' = Shown(turbo[p], Keyed(p))
        BY <1>1, <3>1 DEF Shown
      <3>. QED
        BY <1>1, <3>1, <3>2 DEF Shows, Current
    <2>2. CASE pc' # "send"
      BY <2>2 DEF Shows
    <2>. QED
      BY <2>1, <2>2
  <1>5. ASSUME NEW p \in Port, Quiet(p)'
        PROVE  Seeing(p)' /\ (Still(p)' => sent'[p] = Bare(p)')
    <2>1. UNCHANGED menu /\ UNCHANGED moved
      BY <1>5 DEF Quiet
    <2>2. Quiet(p)
      BY <1>5, <2>1, Zenon DEF Quiet
    <2>. QED
      BY <1>1, <2>1, <2>2 DEF Current
  <1>. QED
    BY <1>2, <1>3, <1>4, <1>5 DEF Current

LEMMA PollCurrent ==
    ASSUME Restored, TypeOK, Physical, Current, NEW ok \in SUBSET Port, Poll(ok)
    PROVE  Current'
  <1>1. /\ read' = Seen(ok) /\ pc = "poll" /\ pc' = "prepare"
        /\ pre' = [p \in Port |-> IF Seen(ok)[p].there THEN Got(ok)[p] ELSE {}]
        /\ hot' = NewHot(ok) /\ turbo' = Kept(ok)
        /\ UNCHANGED <<setup, on, sent, moved>>
        /\ UNCHANGED menu
    BY PollStep
  <1>2. \A p \in Port : Tracks(turbo[p])'
    <2>1. \A p \in Port : Tracks(turbo'[p])
      <3>. SUFFICES ASSUME NEW p \in Port PROVE Tracks(Kept(ok)[p])
        BY <1>1
      <3>1. turbo[p] \in Turbo /\ Tracks(turbo[p]) /\ setup \in Setups
        BY DEF TypeOK, Current
      <3>2. Kept(ok)[p] = turbo[p]
            \/ Kept(ok)[p] = TurboAfter(turbo[p], Mapped(Got(ok)[p], NewHot(ok)[p]))
        BY DEF Kept
      <3>. QED
        BY <3>1, <3>2, KeepsTracks
    <2>. QED
      BY <1>1, <2>1 DEF Tracks
  <1>3. ASSUME Untouched(setup), NEW p \in Port
        PROVE  hot'[p].suppressed = {} /\ hot'[p].output = {}
    BY <1>1, <1>3 DEF NewHot, UpdatedHotkeys, Applies, Matches, NoHotkey, Untouched
  <1>4. Shows'
    BY <1>1 DEF Shows
  <1>5. ASSUME NEW p \in Port, Quiet(p)'
        PROVE  Seeing(p)' /\ (Still(p)' => sent'[p] = Bare(p)')
    <2>1. p \notin needs' /\ read'[p].there /\ ~menu' /\ p \notin moved' /\ ~setup'.switchPro
      BY <1>5 DEF Quiet
    <2>2. p \notin needs /\ read'[p] = read[p] /\ ~setup.everyPoll
      BY <1>1, <2>1, PollStep
    <2>3. ~menu
      BY <1>1, <2>1, Zenon
    <2>4. Quiet(p)
      BY <1>1, <2>1, <2>2, <2>3 DEF Quiet
    <2>5. Untouched(setup)
      BY <2>2 DEF Restored, TypeOK
    <2>6. TurboButtons = {} /\ TurboButtons' = {}
      BY <1>1, <2>5 DEF TurboButtons, Untouched
    <2>7. turbo'[p] = turbo[p]
      BY <1>1, <2>6, NoTurboButtons DEF Kept
    <2>8. pre'[p] = pre[p]
      <3>1. frame[p] = read[p].held /\ pre[p] = read[p].held
        BY <1>1, <2>1, <2>2 DEF Physical, Raw
      <3>2. Got(ok)[p] = read[p].held
        BY <1>1, <2>2, <3>1 DEF Got, Seen
      <3>. QED
        BY <1>1, <2>1, <3>1, <3>2
    <2>9. /\ hot[p].suppressed = {} /\ hot[p].output = {}
          /\ hot'[p].suppressed = {} /\ hot'[p].output = {}
      BY <1>3, <2>5 DEF Current
    <2>10. Keyed(p)' = Keyed(p)
      BY <1>1, <2>8, <2>9 DEF Keyed, Mapped, Remapped
    <2>11. Bare(p)' = Bare(p)
      BY <1>1, <2>9, <2>10 DEF Bare
    <2>12. Still(p)' => Still(p)
      BY <1>1, <2>7, <2>10 DEF Still
    <2>. QED
      BY <1>1, <2>4, <2>6, <2>11, <2>12 DEF Current, Seeing
  <1>6. Untouched(setup)' <=> Untouched(setup)
    BY <1>1 DEF Untouched
  <1>. QED
    BY <1>2, <1>3, <1>4, <1>5, <1>6 DEF Current

LEMMA PrepareCurrent ==
    ASSUME TypeOK, Physical, Current, Prepare
    PROVE  Current'
  <1>1. /\ pc' = "send" /\ UNCHANGED <<setup, read, pre, hot, on, sent, moved>>
        /\ UNCHANGED menu /\ needs \subseteq needs'
    BY DEF Prepare, usbVars
  <1>2. \A p \in Port : Keyed(p)' = Keyed(p)
    BY <1>1 DEF Keyed, Mapped, Remapped
  <1>3. \A p \in Port : turbo'[p] = IF read[p].there THEN TurboAfter(turbo[p], Keyed(p))
                                                     ELSE turbo[p]
    BY DEF Prepare, Keyed
  <1>4. \A p \in Port : Tracks(turbo[p])'
    <2>1. \A p \in Port : Tracks(turbo'[p])
      <3>. SUFFICES ASSUME NEW p \in Port PROVE Tracks(turbo'[p])
        OBVIOUS
      <3>1. turbo[p] \in Turbo /\ Tracks(turbo[p]) /\ setup \in Setups
        BY DEF TypeOK, Current
      <3>. QED
        BY <1>3, <3>1, KeepsTracks
    <2>. QED
      BY <1>1, <2>1 DEF Tracks
  <1>5. ASSUME ~menu, NEW p \in Port, read[p].there
        PROVE  /\ Seeing(p)'
               /\ \A b \in setup.turboHeld : b \in turbo'[p].raw => b \in Keyed(p) \/ b \notin on
    <2>1. turbo'[p] = TurboAfter(turbo[p], Keyed(p))
      BY <1>3, <1>5
    <2>2. CASE TurboButtons = {}
      <3>1. TurboButtons' = {} /\ setup.turboHeld = {}
        BY <1>1, <2>2 DEF TurboButtons
      <3>. QED
        BY <3>1 DEF Seeing
    <2>3. CASE TurboButtons # {}
      <3>1. turbo'[p] = Tracked(turbo[p], Keyed(p))
        BY <1>5, <2>1, <2>3 DEF TurboAfter
      <3>2. turbo'[p].last = Keyed(p)
        BY <3>1 DEF Tracked
      <3>3. \A b \in setup.turboHeld : b \in turbo'[p].raw => b \in Keyed(p) \/ b \notin on
        <4>1. setup.turboHeld \cap setup.turboLatched = {}
          BY FramesAssumption DEF TypeOK
        <4>. QED
          BY <3>1, <4>1 DEF Tracked
      <3>. QED
        BY <1>2, <3>2, <3>3 DEF Seeing
    <2>. QED
      BY <2>2, <2>3
  <1>6. ASSUME ~menu, NEW p \in Port, read[p].there
        PROVE  frame'[p] = ((Shown(turbo[p], Keyed(p)))' \ hot[p].suppressed) \cup hot[p].output
    <2>1. frame'[p] = Drawn(pre[p], hot[p], turbo[p])
      BY <1>6 DEF Prepare, TypeOK
    <2>2. turbo'[p] = TurboAfter(turbo[p], Keyed(p))
      BY <1>3, <1>6
    <2>3. Shown(turbo[p], Keyed(p))' = Shown(TurboAfter(turbo[p], Keyed(p)), Keyed(p))
      BY <1>1, <1>2, <2>2 DEF Shown
    <2>. QED
      BY <2>1, <2>3 DEF Drawn, Keyed
  <1>7. menu' <=> menu
    BY <1>1, Zenon
  <1>8. Shows'
    BY <1>1, <1>2, <1>5, <1>6, <1>7 DEF Shows
  <1>9. ASSUME NEW p \in Port, Quiet(p)'
        PROVE  Seeing(p)' /\ (Still(p)' => sent'[p] = Bare(p)')
    <2>1. Quiet(p) /\ ~menu /\ read[p].there
      BY <1>1, <1>7, <1>9 DEF Quiet
    <2>2. Seeing(p) /\ Tracks(turbo[p])
      BY <2>1 DEF Current
    <2>3. turbo'[p].latched = turbo[p].latched
      BY <1>3, <2>1, <2>2, SeenAgain
    <2>4. Still(p)' => Still(p)
      BY <1>1, <1>2, <2>3 DEF Still
    <2>5. Bare(p)' = Bare(p)
      BY <1>1, <1>2 DEF Bare
    <2>. QED
      BY <1>1, <1>5, <2>1, <2>4, <2>5 DEF Current
  <1>10. Untouched(setup)' => \A p \in Port : hot'[p].suppressed = {} /\ hot'[p].output = {}
    BY <1>1 DEF Current, Untouched
  <1>. QED
    BY <1>4, <1>8, <1>9, <1>10 DEF Current

LEMMA SendCurrent ==
    ASSUME TypeOK, Silent, Current, Send
    PROVE  Current'
  <1>1. /\ pc = "send" /\ pc' = "send" /\ at \in Port
        /\ UNCHANGED <<setup, read, pre, hot, turbo, frame, on>>
        /\ UNCHANGED menu /\ UNCHANGED prepared
    BY FramesAssumption DEF Send, frameVars, TypeOK, Port
  <1>2. \A p \in Port : Keyed(p)' = Keyed(p)
    BY <1>1 DEF Keyed, Mapped, Remapped
  <1>3. \A p \in Port : /\ Bare(p)' = Bare(p) /\ (Seeing(p)' <=> Seeing(p))
                        /\ (Still(p)' <=> Still(p))
                        /\ Shown(turbo[p], Keyed(p))' = Shown(turbo[p], Keyed(p))
    BY <1>1, <1>2 DEF Bare, Seeing, Still, TurboButtons, Shown
  <1>4. Shows'
    BY <1>1, <1>2, <1>3 DEF Shows, Current
  <1>5. ASSUME NEW p \in Port, Quiet(p)'
        PROVE  Seeing(p)' /\ (Still(p)' => sent'[p] = Bare(p)')
    <2>1. ~menu /\ read[p].there /\ ~setup.switchPro
      BY <1>1, <1>5, Zenon DEF Quiet
    <2>2. CASE p = at /\ at \in needs /\ at \notin busy
      <3>1. sent'[p] = frame[p]
        BY <2>2 DEF Send, TypeOK
      <3>2. prepared
        BY <1>1, <2>1, <2>2 DEF Silent
      <3>3. /\ Seeing(p)
            /\ \A b \in setup.turboHeld : b \in turbo[p].raw => b \in Keyed(p) \/ b \notin on
            /\ frame[p] = (Shown(turbo[p], Keyed(p)) \ hot[p].suppressed) \cup hot[p].output
        BY <1>1, <2>1, <3>2 DEF Current, Shows
      <3>4. Still(p) => frame[p] = Bare(p)
        BY <2>1, <3>3, StillShows DEF Current
      <3>. QED
        BY <1>3, <3>1, <3>3, <3>4
    <2>3. CASE ~(p = at /\ at \in needs /\ at \notin busy)
      <3>1. sent'[p] = sent[p] /\ p \notin needs /\ p \notin moved
        BY <1>5, <2>3 DEF Send, Quiet, TypeOK
      <3>2. Quiet(p)
        BY <2>1, <3>1 DEF Quiet
      <3>. QED
        BY <1>3, <3>1, <3>2 DEF Current
    <2>. QED
      BY <2>2, <2>3
  <1>6. \A p \in Port : Tracks(turbo[p])'
    BY <1>1 DEF Current, Tracks
  <1>7. Untouched(setup)' => \A p \in Port : hot'[p].suppressed = {} /\ hot'[p].output = {}
    BY <1>1 DEF Current, Untouched
  <1>. QED
    BY <1>4, <1>5, <1>6, <1>7 DEF Current

LEMMA StepCurrent ==
    ASSUME Restored, TypeOK, Physical, Silent, Current, [Next]_vars
    PROVE  Current'
  <1>1. ASSUME NEW ok \in SUBSET Port, Poll(ok) PROVE Current'
    BY <1>1, PollCurrent
  <1>2. CASE Prepare
    BY <1>2, PrepareCurrent
  <1>3. CASE Send
    BY <1>3, SendCurrent
  <1>4. CASE Restore
    <2>1. UNCHANGED menu /\ pc' = "ui"
      BY <1>4 DEF Restore
    <2>2. UNCHANGED <<setup, read, pre, hot, turbo, needs, sent, moved>>
      BY <1>4 DEF Restore, usbVars
    <2>3. \A p \in Port : Keyed(p)' = Keyed(p)
      BY <2>1, <2>2 DEF Keyed, Mapped, Remapped
    <2>4. \A p \in Port : /\ Bare(p)' = Bare(p) /\ (Seeing(p)' <=> Seeing(p))
                          /\ (Still(p)' <=> Still(p)) /\ (Tracks(turbo[p])' <=> Tracks(turbo[p]))
      BY <2>2, <2>3 DEF Bare, Seeing, Still, TurboButtons, Tracks
    <2>5. Shows'
      BY <2>1 DEF Shows
    <2>6. \A p \in Port : Quiet(p)' => Quiet(p)
      BY <2>1, <2>2 DEF Quiet
    <2>7. Untouched(setup)' => Untouched(setup)
      BY <2>2 DEF Untouched
    <2>. QED
      BY <2>2, <2>4, <2>5, <2>6, <2>7 DEF Current
  <1>5. CASE NoPrepare
    <2>1. ~prepared'
      BY <1>5, Zenon DEF NoPrepare
    <2>2. UNCHANGED menu
      BY <1>5 DEF NoPrepare
    <2>3. UNCHANGED <<setup, read, pre, hot, turbo, needs, sent, moved>>
      BY <1>5 DEF NoPrepare, frameVars, usbVars
    <2>4. \A p \in Port : Keyed(p)' = Keyed(p)
      BY <2>2, <2>3 DEF Keyed, Mapped, Remapped
    <2>5. \A p \in Port : /\ Bare(p)' = Bare(p) /\ (Seeing(p)' <=> Seeing(p))
                          /\ (Still(p)' <=> Still(p)) /\ (Tracks(turbo[p])' <=> Tracks(turbo[p]))
      BY <2>3, <2>4 DEF Bare, Seeing, Still, TurboButtons, Tracks
    <2>6. Shows'
      BY <2>1 DEF Shows
    <2>7. \A p \in Port : Quiet(p)' => Quiet(p)
      BY <2>2, <2>3 DEF Quiet
    <2>8. Untouched(setup)' => Untouched(setup)
      BY <2>3 DEF Untouched
    <2>. QED
      BY <2>3, <2>5, <2>6, <2>7, <2>8 DEF Current
  <1>6. CASE NoPoll \/ AllSent \/ (\E passed \in SUBSET TurboButtons : Background(passed))
    <2>1. UNCHANGED <<setup, read, pre, hot, turbo, frame, sent, needs, moved>> /\ pc' # "send"
      BY <1>6 DEF NoPoll, AllSent, Background, frameVars, usbVars
    <2>2. UNCHANGED menu
      BY <1>6 DEF NoPoll, AllSent, Background
    <2>. QED
      BY <2>1, <2>2, RestCurrent
  <1>7. CASE Ui
    <2>1. UNCHANGED <<setup, read, pre, hot, turbo, frame, sent, needs>> /\ pc' # "send"
      BY <1>7 DEF Ui, frameVars, usbVars
    <2>2. (UNCHANGED moved /\ UNCHANGED menu) \/ moved' = Port
      BY <1>7, Zenon DEF Ui
    <2>. QED
      BY <2>1, <2>2, RestCurrent
  <1>8. CASE (\E p \in Port : Change(p) \/ Collect(p) \/ HostReport(p)) \/ UNCHANGED vars
    <2>1. UNCHANGED <<setup, read, pre, hot, turbo, frame, sent, moved, pc, on>>
      BY <1>8 DEF Change, Collect, HostReport, loopVars, frameVars, usbVars, vars
    <2>2. UNCHANGED menu /\ UNCHANGED prepared
      BY <1>8 DEF Change, Collect, HostReport, loopVars, vars
    <2>3. needs \subseteq needs'
      BY <1>8 DEF Change, Collect, HostReport, vars
    <2>. QED
      BY <2>1, <2>2, <2>3, RestCurrent
  <1>. QED
    BY <1>1, <1>2, <1>3, <1>4, <1>5, <1>6, <1>7, <1>8 DEF Next, Loop

(* A host that was told the buttons while turbo worked on nothing has been *)
(* told what preparing the frame now would give.                           *)
LEMMA CurrentHost ==
    ASSUME TypeOK, Physical, Current, NEW p \in Port,
           p \notin needs, read[p].there, ~menu, turbo[p].raw = {},
           p \notin moved, ~setup.switchPro
    PROVE  sent[p] = Drawn(pre[p], hot[p], turbo[p])
  <1>. DEFINE k == TurboAfter(turbo[p], Keyed(p))
  <1>1. Seeing(p) /\ (Still(p) => sent[p] = Bare(p)) /\ Tracks(turbo[p])
    BY DEF Current, Quiet
  <1>2. Still(p)
    <2>1. turbo[p].latched = {} /\ setup.turboHeld \cap turbo[p].last = {}
      BY <1>1 DEF Tracks
    <2>. QED
      BY <1>1, <2>1 DEF Still, Seeing, TurboButtons
  <1>3. k.raw = {}
    <2>1. CASE TurboButtons = {}
      BY <2>1, NoTurboButtons
    <2>2. CASE TurboButtons # {}
      <3>1. k = Tracked(turbo[p], Keyed(p)) /\ turbo[p].last = Keyed(p)
        BY <1>1, <2>2 DEF TurboAfter, Seeing
      <3>. QED
        BY <1>2, <3>1 DEF Tracked, Still
    <2>. QED
      BY <2>1, <2>2
  <1>4. Drawn(pre[p], hot[p], turbo[p]) = (Shown(k, Keyed(p)) \ hot[p].suppressed) \cup hot[p].output
    BY DEF Drawn, Keyed
  <1>. HIDE DEF k
  <1>5. Shown(k, Keyed(p)) = Keyed(p) \ setup.turboLatched
    BY <1>3 DEF Shown
  <1>. QED
    BY <1>1, <1>2, <1>4, <1>5 DEF Bare

-----------------------------------------------------------------------------
(* Ports that show nothing. *)

(* A pad that is not there holds nothing, and neither does its frame.      *)
Gone ==
    \A p \in Port :
        /\ ~pad[p].there => pad[p].held = {}
        /\ ~read[p].there => read[p].held = {} /\ frame[p] = {}

LEMMA InitGone == Init => Gone
  BY DEF Init, Gone, Unplugged

LEMMA StepGone ==
    ASSUME TypeOK, Gone, [Next]_vars
    PROVE  Gone'
  <1>1. ASSUME NEW ok \in SUBSET Port, Poll(ok) PROVE Gone'
    <2>. SUFFICES ASSUME NEW p \in Port
                  PROVE  /\ ~pad'[p].there => pad'[p].held = {}
                         /\ ~read'[p].there => read'[p].held = {} /\ frame'[p] = {}
      BY DEF Gone
    <2>1. /\ read'[p] = Seen(ok)[p] /\ UNCHANGED pad
          /\ ~Seen(ok)[p].there => frame'[p] = Got(ok)[p]
      BY <1>1, PollStep
    <2>2. ~Seen(ok)[p].there => Seen(ok)[p].held = {} /\ Got(ok)[p] = {}
      BY DEF Gone, Seen, Got
    <2>. QED
      BY <2>1, <2>2 DEF Gone
  <1>2. CASE Prepare \/ Restore
    <2>1. UNCHANGED <<pad, read>> /\ \A p \in Port : ~read[p].there => frame'[p] = frame[p]
      BY <1>2 DEF Prepare, Restore
    <2>. QED
      BY <2>1 DEF Gone
  <1>3. ASSUME NEW p \in Port, Change(p) PROVE Gone'
    <2>1. PICK new \in Pads : pad' = [pad EXCEPT ![p] = new]
      BY <1>3 DEF Change
    <2>2. ~new.there => new.held = {}
      <3>1. CASE new = Unplugged
        BY <3>1 DEF Unplugged
      <3>2. CASE new \in [there : {TRUE}, held : SUBSET setup.pads]
        <4>1. new.there \in {TRUE}
          BY <3>2
        <4>. QED
          BY <4>1, Zenon
      <3>. QED
        BY <3>1, <3>2, Zenon DEF Pads
    <2>3. \A q \in Port : ~pad'[q].there => pad'[q].held = {}
      BY <2>1, <2>2 DEF Gone, TypeOK
    <2>4. UNCHANGED <<read, frame>>
      BY <1>3 DEF Change, frameVars
    <2>. QED
      BY <2>3, <2>4 DEF Gone
  <1>4. CASE NoPoll \/ NoPrepare \/ Send \/ AllSent \/ Ui
             \/ (\E passed \in SUBSET TurboButtons : Background(passed))
             \/ (\E p \in Port : Collect(p) \/ HostReport(p)) \/ UNCHANGED vars
    <2>1. UNCHANGED <<pad, read, frame>>
      BY <1>4 DEF NoPoll, NoPrepare, Send, AllSent, Ui, Background, Collect, HostReport,
                  frameVars, vars
    <2>. QED
      BY <2>1 DEF Gone
  <1>. QED
    BY <1>1, <1>2, <1>3, <1>4 DEF Next, Loop

(* A port that hides its buttons has told its host so, unless it asks.     *)
Neutral ==
    ~setup.switchPro => \A p \in Port \ (needs \cup moved) : Hidden(p) => sent[p] = {}

LEMMA InitNeutral == Init => Neutral
  BY DEF Init, Neutral

LEMMA StepNeutral ==
    ASSUME TypeOK, Silent, Gone, Neutral, [Next]_vars
    PROVE  Neutral'
  <1>. SUFFICES ASSUME ~setup'.switchPro, NEW p \in Port,
                       p \notin needs', p \notin moved', Hidden(p)'
                PROVE  sent'[p] = {}
    BY DEF Neutral
  <1>1. ASSUME NEW ok \in SUBSET Port, Poll(ok) PROVE sent'[p] = {}
    <2>1. UNCHANGED <<setup, moved, sent>> /\ UNCHANGED menu
      BY <1>1, PollStep
    <2>2. p \notin needs /\ read'[p] = read[p]
      BY <1>1, PollStep
    <2>. QED
      BY <2>1, <2>2 DEF Neutral, Hidden
  <1>2. CASE Send
    <2>1. UNCHANGED <<setup, read>> /\ UNCHANGED menu /\ pc = "send"
      BY <1>2 DEF Send, frameVars
    <2>2. CASE at = p /\ at \in needs /\ at \notin busy
      <3>1. sent'[p] = frame[p]
        BY <1>2, <2>2 DEF Send, TypeOK
      <3>2. frame[p] = {}
        BY <2>1, <2>2 DEF Hidden, Silent, Gone
      <3>. QED
        BY <3>1, <3>2
    <2>3. CASE ~(at = p /\ at \in needs /\ at \notin busy)
      <3>1. sent'[p] = sent[p] /\ p \notin needs /\ p \notin moved
        BY <1>2, <2>3 DEF Send, TypeOK
      <3>. QED
        BY <2>1, <3>1 DEF Neutral, Hidden
    <2>. QED
      BY <2>2, <2>3
  <1>3. CASE Ui
    <2>1. UNCHANGED <<setup, read, needs, sent>>
      BY <1>3 DEF Ui, frameVars, usbVars
    <2>2. UNCHANGED menu /\ UNCHANGED moved
      <3>1. moved' = IF menu' # menu THEN Port ELSE moved
        BY <1>3, Zenon DEF Ui
      <3>2. menu' = menu
        BY <3>1, Zenon
      <3>. QED
        BY <3>1, <3>2, Zenon
    <2>. QED
      BY <2>1, <2>2 DEF Neutral, Hidden
  <1>4. CASE Prepare
    <2>1. UNCHANGED <<setup, read, moved, sent>> /\ UNCHANGED menu /\ p \notin needs
      BY <1>4 DEF Prepare, usbVars
    <2>. QED
      BY <2>1 DEF Neutral, Hidden
  <1>5. CASE NoPoll \/ NoPrepare \/ AllSent \/ Restore
             \/ (\E passed \in SUBSET TurboButtons : Background(passed))
             \/ (\E q \in Port : Change(q) \/ Collect(q) \/ HostReport(q)) \/ UNCHANGED vars
    <2>1. UNCHANGED <<setup, read, moved, sent>> /\ UNCHANGED menu
      BY <1>5 DEF NoPoll, NoPrepare, AllSent, Restore, Background, Change, Collect,
                  HostReport, frameVars, usbVars, vars
    <2>2. p \notin needs
      BY <1>5 DEF NoPoll, NoPrepare, AllSent, Restore, Background, Change, Collect,
                  HostReport, vars
    <2>. QED
      BY <2>1, <2>2 DEF Neutral, Hidden
  <1>. QED
    BY <1>1, <1>2, <1>3, <1>4, <1>5 DEF Next, Loop

-----------------------------------------------------------------------------
(* The theorems. *)

(* Every variable of the frames' way keeps its type, for every setup. *)
THEOREM TypeCorrect == Spec => []TypeOK
  BY InitTyped, StepTyped, PTL DEF Spec

(* Remap, hotkeys and turbo start from the pad, wherever the adapter asks  *)
(* for delivery on every poll or nothing is set up.                        *)
THEOREM FromPhysical ==
    ASSUME Restored
    PROVE  Spec => []StartsFromPhysical
  <1>1. Init => TypeOK /\ Physical
    BY InitTyped, InitPhysical
  <1>2. TypeOK /\ Physical /\ [Next]_vars => (TypeOK /\ Physical)'
    BY StepTyped, StepPhysical
  <1>3. TypeOK /\ Physical => StartsFromPhysical
    BY DEF Physical, StartsFromPhysical
  <1>. QED
    BY <1>1, <1>2, <1>3, PTL DEF Spec

(* While a menu is open the host is told nothing but neutral reports, with *)
(* every output but the Switch Pro.                                        *)
THEOREM SilentMenu == Spec => MenuIsSilent
  <1>1. Init => TypeOK /\ Silent
    BY InitTyped DEF Init, Silent
  <1>2. TypeOK /\ Silent /\ [Next]_vars => (TypeOK /\ Silent)'
    BY StepTyped, StepSilent
  <1>3. TypeOK /\ Silent /\ [Next]_vars
        => [menu /\ pc = "send" /\ ~setup.switchPro
              => \A p \in Port : read[p].there => sent'[p] \in {sent[p], {}}]_vars
    BY SilentSends
  <1>. QED
    BY <1>1, <1>2, <1>3, PTL DEF Spec, MenuIsSilent

(* No change is lost, wherever the adapter asks for delivery on every poll *)
(* or nothing is set up: a port that asks for nothing has sent what it is  *)
(* to be told.                                                             *)
THEOREM NoChangeLost ==
    ASSUME Restored
    PROVE  Spec => []HostIsCurrent
  <1>. DEFINE Inv == TypeOK /\ Physical /\ Silent /\ Current /\ Gone /\ Neutral
  <1>1. Init => Inv
    BY InitTyped, InitPhysical, InitCurrent, InitGone, InitNeutral DEF Init, Silent
  <1>2. Inv /\ [Next]_vars => Inv'
    BY StepTyped, StepPhysical, StepSilent, StepCurrent, StepGone, StepNeutral
  <1>3. Inv => HostIsCurrent
    <2>. SUFFICES ASSUME Inv, ~setup.switchPro, NEW p \in Port, p \notin needs, p \notin moved,
                         Hidden(p) \/ turbo[p].raw = {}
                  PROVE  sent[p] = Due(p)
      BY DEF HostIsCurrent
    <2>1. CASE Hidden(p)
      BY <2>1 DEF Neutral, Due
    <2>2. CASE ~Hidden(p)
      BY <2>2, CurrentHost DEF Hidden, Due
    <2>. QED
      BY <2>1, <2>2
  <1>. QED
    BY <1>1, <1>2, <1>3, PTL DEF Spec

(* A pad that is pulled and a menu that opens are told to the host, for    *)
(* all setups: this part of HostIsCurrent needs nothing of the adapter.    *)
THEOREM HiddenIsNeutral == Spec => []Neutral
  <1>1. Init => TypeOK /\ Silent /\ Gone /\ Neutral
    BY InitTyped, InitGone, InitNeutral DEF Init, Silent
  <1>2. TypeOK /\ Silent /\ Gone /\ Neutral /\ [Next]_vars => (TypeOK /\ Silent /\ Gone /\ Neutral)'
    BY StepTyped, StepSilent, StepGone, StepNeutral
  <1>. QED
    BY <1>1, <1>2, PTL DEF Spec
===============================================================================
