--------------------------- MODULE ControllerFrames ---------------------------
(***************************************************************************)
(* The way of a controller's buttons to the host.  On each pass the main   *)
(* loop polls the controllers (if that is due) and processes their frames: *)
(* hotkeys that stand for HOME and CAPTURE, remap, turbo.  When a port     *)
(* asks for delivery it prepares all frames anew from the buttons as they  *)
(* were before remapping, sends the reports of the ports that ask and      *)
(* whose endpoint is free, and puts the frames back.  Then the menus run.  *)
(*                                                                         *)
(* The pad changes at any time, the host collects a report at any time,    *)
(* and with the Switch Pro output each report the host sends asks for a    *)
(* delivery from within the USB interrupt.                                 *)
(*                                                                         *)
(* Buttons only: sticks and triggers, chords, the merge of two classic     *)
(* controllers and the mouse are left out, and so are the outputs that     *)
(* report without being asked (PS3, keepalive of the PS4) and the Neo Geo  *)
(* adapter's shorter way.                                                  *)
(***************************************************************************)
EXTENDS Naturals

CONSTANTS
    Ports,   \* how many ports there are (MAX_USB_OUT)
    Buttons, \* the buttons of a pad, all of them allowed in a hotkey
    Home,    \* the buttons that only hotkeys press
    Capture,
    Setups   \* what is connected and how it is set up

Port == 1 .. Ports
Output == Buttons \cup {Home, Capture}

(* A setup: the buttons of the connected pads; whether their adapter asks  *)
(* for delivery on every poll (PSX) or when something has changed (SNES,   *)
(* N64, SMS, Neo Geo); whether the output is the Switch Pro; the remap     *)
(* (a target outside Output drops the button); the buttons with turbo,     *)
(* held or latched; the combinations for HOME and CAPTURE, none if empty.  *)
ASSUME FramesAssumption ==
    /\ Ports \in Nat
    /\ Home \notin Buttons /\ Capture \notin Buttons
    /\ \A s \in Setups :
         /\ s.pads \subseteq Buttons
         /\ s.everyPoll \in BOOLEAN /\ s.switchPro \in BOOLEAN
         /\ Output \subseteq DOMAIN s.remap
         /\ s.turboHeld \subseteq Output /\ s.turboLatched \subseteq Output
         /\ s.turboHeld \cap s.turboLatched = {}
         /\ s.homeCombo \subseteq Buttons /\ s.captureCombo \subseteq Buttons

VARIABLES
    setup,   \* the setup, never changed
    pad,     \* the pad on each port: is it there, what is held
    read,    \* the pad as the adapter last read it
    frame,   \* digital_buttons of the controller frame
    pre,     \* pre_remap_buttons
    needs,   \* controller_frame_needs_delivery
    hot,     \* the state of the hotkeys of each port
    turbo,   \* the state of turbo of each port
    on,      \* turbo_state: the buttons turbo shows
    menu,    \* menuOwnsControllerInput
    pc,      \* where the loop is
    at,      \* the port it sends next
    prepared,\* the frames have been prepared in this pass
    sent,    \* the last report submitted for each port
    busy,    \* ports whose endpoint holds a report
    moved    \* ports sent nothing since a menu opened or closed

loopVars == <<pc, at, prepared>>
frameVars == <<frame, pre, hot, turbo>>
usbVars == <<sent, busy>>
vars == <<setup, pad, read, frameVars, needs, on, menu, loopVars, usbVars, moved>>

Pad == [there : BOOLEAN, held : SUBSET Buttons]
Unplugged == [there |-> FALSE, held |-> {}]
Pads == {Unplugged} \cup [there : {TRUE}, held : SUBSET setup.pads]

Keys == {"home", "capture"}
Hot == [active : SUBSET Keys, output : SUBSET {Home, Capture},
        suppressed : SUBSET Buttons, previous : SUBSET Buttons]
NoHotkey == [active |-> {}, output |-> {}, suppressed |-> {}, previous |-> {}]

Turbo == [raw : SUBSET Output, latched : SUBSET Output, last : SUBSET Output]
NoTurbo == [raw |-> {}, latched |-> {}, last |-> {}]
TurboButtons == setup.turboHeld \cup setup.turboLatched

Steps == {"poll", "prepare", "send", "restore", "ui", "background"}

(* Every variable has its type. *)
TypeOK ==
    /\ setup \in Setups
    /\ pad \in [Port -> Pad]
    /\ read \in [Port -> Pad]
    /\ frame \in [Port -> SUBSET Output]
    /\ pre \in [Port -> SUBSET Output]
    /\ needs \in SUBSET Port
    /\ hot \in [Port -> Hot]
    /\ turbo \in [Port -> Turbo]
    /\ on \in SUBSET Output
    /\ menu \in BOOLEAN
    /\ pc \in Steps
    /\ at \in 1 .. Ports + 1
    /\ prepared \in BOOLEAN
    /\ sent \in [Port -> SUBSET Output]
    /\ busy \in SUBSET Port
    /\ moved \in SUBSET Port

Init ==
    /\ setup \in Setups
    /\ pad = [p \in Port |-> Unplugged] /\ read = pad
    /\ frame = [p \in Port |-> {}] /\ pre = frame /\ sent = frame
    /\ hot = [p \in Port |-> NoHotkey] /\ turbo = [p \in Port |-> NoTurbo]
    /\ on = TurboButtons
    /\ needs = {} /\ busy = {} /\ menu = FALSE /\ moved = {}
    /\ pc = "poll" /\ at = 1 /\ prepared = FALSE

-----------------------------------------------------------------------------
(* Hotkeys. *)

(* hotkeyComboMatches: exactly the combination. *)
Matches(buttons, combo) == combo # {} /\ buttons \cap Buttons = combo

(* applyHeldVirtualButtonHotkey: an active hotkey lasts while its buttons  *)
(* are held; to become active, two polls in a row may complete it.         *)
Applies(h, key, combo, now) ==
    Matches(IF key \in h.active THEN now ELSE now \cup h.previous, combo)

(* updateHeldControllerHotkeysBeforeTransforms, for one port: HOME has     *)
(* precedence, and then nothing is said of CAPTURE.                        *)
UpdatedHotkeys(h, there, physical) ==
    LET now == physical \cap Buttons
        home == Applies(h, "home", setup.homeCombo, now)
        capture == ~home /\ Applies(h, "capture", setup.captureCombo, now)
    IN  IF menu \/ ~there THEN NoHotkey
        ELSE [active |-> IF home THEN h.active \cup {"home"}
                         ELSE IF capture THEN {"capture"} ELSE {},
              output |-> IF home THEN {Home} ELSE IF capture THEN {Capture} ELSE {},
              suppressed |-> IF home THEN setup.homeCombo
                             ELSE IF capture THEN setup.captureCombo ELSE {},
              previous |-> now]

-----------------------------------------------------------------------------
(* Remap and turbo, which the menus switch off. *)

(* applyRemap *)
Remapped(buttons) == IF menu THEN buttons ELSE {setup.remap[b] : b \in buttons} \cap Output

(* Mutant: a button that was let go stays tracked. *)
MutTracked(t, buttons) ==
    LET latched == {b \in setup.turboLatched :
                      (b \in t.latched) # (b \in buttons /\ b \notin t.last)}
        held == {b \in setup.turboHeld : b \in buttons \/ b \in t.raw}
    IN  [raw |-> latched \cup held, latched |-> latched, last |-> buttons]

(* TurboController::updateRawButtons: a press turns a latched button on or *)
(* off; a button that is let go is tracked until turbo has shown it again. *)
Tracked(t, buttons) ==
    LET latched == {b \in setup.turboLatched :
                      (b \in t.latched) # (b \in buttons /\ b \notin t.last)}
        held == {b \in setup.turboHeld :
                      b \in buttons \/ (b \in t.raw /\ b \notin on)}
    IN  [raw |-> latched \cup held, latched |-> latched, last |-> buttons]

(* applyTurboTransforms: what it keeps of a port and what it shows. *)
TurboAfter(t, buttons) == IF menu \/ TurboButtons = {} THEN t ELSE Tracked(t, buttons)
Shown(t, buttons) ==
    IF menu THEN buttons
    ELSE (buttons \ (setup.turboLatched \cup t.raw)) \cup (t.raw \cap on)

(* Both ways to the output: from the physical buttons, with the hotkeys'   *)
(* own taken away and their output added at the end.                       *)
Mapped(physical, h) == Remapped(physical \ h.suppressed)
Drawn(physical, h, t) ==
    (Shown(TurboAfter(t, Mapped(physical, h)), Mapped(physical, h)) \ h.suppressed)
        \cup h.output

Tracking(t) == ~menu /\ t.raw # {}

-----------------------------------------------------------------------------
(* The loop. *)

(* The adapter reads some of the pads (a read may fail) and writes their   *)
(* frames; then processPolledInputFrame, on all of them.                   *)
Poll(ok) ==
    LET seen == [p \in Port |-> IF p \in ok THEN pad[p] ELSE read[p]]
        written == {p \in ok : setup.everyPoll \/ pad[p] # read[p]}
        asked == {p \in Port : (seen[p].there /\ setup.everyPoll) \/ seen[p] # read[p]}
        got == [p \in Port |-> IF p \in written THEN pad[p].held ELSE frame[p]]
        keys == [p \in Port |-> UpdatedHotkeys(hot[p], seen[p].there, got[p])]
        kept == [p \in Port |->
                   IF seen[p].there THEN TurboAfter(turbo[p], Mapped(got[p], keys[p]))
                   ELSE turbo[p]]
    IN  /\ pc = "poll"
        /\ read' = seen
        /\ pre' = [p \in Port |-> IF seen[p].there THEN got[p] ELSE {}]
        /\ hot' = keys
        /\ turbo' = kept
        /\ frame' = [p \in Port |-> IF seen[p].there THEN Drawn(got[p], keys[p], turbo[p])
                                    ELSE got[p]]
        /\ needs' = needs \cup asked
                      \cup {p \in Port : ~menu /\ keys[p].output # hot[p].output}
                      \cup {p \in Port : seen[p].there /\ Tracking(kept[p])}
        /\ pc' = "prepare"
        /\ UNCHANGED <<setup, pad, on, menu, at, prepared, usbVars, moved>>

(* The poll interval has not passed. *)
NoPoll ==
    /\ pc = "poll"
    /\ pc' = "prepare"
    /\ UNCHANGED <<setup, pad, read, frameVars, needs, on, menu, at, prepared, usbVars, moved>>

(* Mutant: an open menu does not take the buttons. *)
MutPrepare ==
    /\ pc = "prepare" /\ needs # {}
    /\ frame' = [p \in Port |-> IF ~read[p].there THEN frame[p]
                                ELSE Drawn(pre[p], hot[p], turbo[p])]
    /\ turbo' = [p \in Port |-> IF read[p].there
                                THEN TurboAfter(turbo[p], Mapped(pre[p], hot[p]))
                                ELSE turbo[p]]
    /\ needs' = needs \cup {p \in Port : read[p].there /\ Tracking(turbo'[p])}
    /\ pc' = "send" /\ prepared' = TRUE
    /\ UNCHANGED <<setup, pad, read, pre, hot, on, menu, at, usbVars, moved>>

(* finalizeControllerFrameForOutput: from the buttons before remapping,    *)
(* and nothing while a menu is open.                                       *)
Prepare ==
    /\ pc = "prepare" /\ needs # {}
    /\ frame' = [p \in Port |-> IF ~read[p].there THEN frame[p]
                                ELSE IF menu THEN {}
                                ELSE Drawn(pre[p], hot[p], turbo[p])]
    /\ turbo' = [p \in Port |-> IF read[p].there
                                THEN TurboAfter(turbo[p], Mapped(pre[p], hot[p]))
                                ELSE turbo[p]]
    /\ needs' = needs \cup {p \in Port : read[p].there /\ Tracking(turbo'[p])}
    /\ pc' = "send" /\ prepared' = TRUE
    /\ UNCHANGED <<setup, pad, read, pre, hot, on, menu, at, usbVars, moved>>

(* runPostPollOutputTasks without anything to deliver: it goes on to send  *)
(* with the frames as they are.                                            *)
NoPrepare ==
    /\ pc = "prepare" /\ needs = {}
    /\ pc' = "send" /\ prepared' = FALSE
    /\ UNCHANGED <<setup, pad, read, frameVars, needs, on, menu, at, usbVars, moved>>

(* Mutants: delivery is completed though the endpoint was not free; the    *)
(* ports are counted one too far.                                          *)
MutSend ==
    /\ pc = "send" /\ at <= Ports
    /\ sent' = IF at \in needs /\ at \notin busy THEN [sent EXCEPT ![at] = frame[at]] ELSE sent
    /\ busy' = IF at \in needs THEN busy \cup {at} ELSE busy
    /\ moved' = IF at \in needs /\ at \notin busy THEN moved \ {at} ELSE moved
    /\ needs' = needs \ {at}
    /\ at' = at + 1
    /\ UNCHANGED <<setup, pad, read, frameVars, on, menu, pc, prepared>>
MutSendTooFar ==
    /\ pc = "send" /\ at <= Ports + 1
    /\ at' = at + 1
    /\ UNCHANGED <<setup, pad, read, frameVars, on, menu, pc, prepared, needs, usbVars, moved>>

(* send_usb_single_report for the next port, if it asks and its endpoint   *)
(* is free.  A request of the interrupt between the submission and the     *)
(* clearing of the flag is lost with it, as if it had come just before.    *)
Send ==
    /\ pc = "send" /\ at <= Ports
    /\ IF at \in needs /\ at \notin busy
       THEN /\ sent' = [sent EXCEPT ![at] = frame[at]]
            /\ busy' = busy \cup {at}
            /\ needs' = needs \ {at} /\ moved' = moved \ {at}
       ELSE UNCHANGED <<sent, busy, needs, moved>>
    /\ at' = at + 1
    /\ UNCHANGED <<setup, pad, read, frameVars, on, menu, pc, prepared>>

AllSent ==
    /\ pc = "send" /\ at > Ports
    /\ at' = 1
    /\ pc' = IF prepared THEN "restore" ELSE "ui"
    /\ UNCHANGED <<setup, pad, read, frameVars, needs, on, menu, prepared, usbVars, moved>>

(* Mutant: the prepared frames stay. *)
MutRestore ==
    /\ pc = "restore"
    /\ pc' = "ui" /\ prepared' = FALSE
    /\ UNCHANGED <<setup, pad, read, frameVars, needs, on, menu, at, usbVars, moved>>

(* restorePhysicalButtonsAfterUsbSend *)
Restore ==
    /\ pc = "restore"
    /\ frame' = [p \in Port |-> IF read[p].there THEN pre[p] ELSE frame[p]]
    /\ pc' = "ui" /\ prepared' = FALSE
    /\ UNCHANGED <<setup, pad, read, pre, needs, hot, turbo, on, menu, at, usbVars, moved>>

(* The menus run: one may open or close. *)
Ui ==
    /\ pc = "ui"
    /\ menu' \in BOOLEAN
    /\ moved' = IF menu' # menu THEN Port ELSE moved
    /\ pc' = "background"
    /\ UNCHANGED <<setup, pad, read, frameVars, needs, on, at, prepared, usbVars>>

(* TurboController::update, for the buttons whose interval has passed. *)
Background(passed) ==
    /\ pc = "background"
    /\ on' = (on \ passed) \cup (passed \ on)
    /\ pc' = "poll"
    /\ UNCHANGED <<setup, pad, read, frameVars, needs, menu, at, prepared, usbVars, moved>>

-----------------------------------------------------------------------------
(* What comes between. *)

(* The pad on a port changes: it is plugged, pulled, pressed, let go. *)
Change(p) ==
    /\ \E new \in Pads : new # pad[p] /\ pad' = [pad EXCEPT ![p] = new]
    /\ UNCHANGED <<setup, read, frameVars, needs, on, menu, loopVars, usbVars, moved>>

(* The host collects the report. *)
Collect(p) ==
    /\ p \in busy
    /\ busy' = busy \ {p}
    /\ UNCHANGED <<setup, pad, read, frameVars, needs, on, menu, loopVars, sent, moved>>

(* tud_hid_set_report_cb with the Switch Pro output. *)
HostReport(p) ==
    /\ setup.switchPro
    /\ needs' = needs \cup {p}
    /\ UNCHANGED <<setup, pad, read, frameVars, on, menu, loopVars, usbVars, moved>>

-----------------------------------------------------------------------------
Loop ==
    \/ \E ok \in SUBSET Port : Poll(ok)
    \/ NoPoll \/ Prepare \/ NoPrepare \/ Send \/ AllSent \/ Restore \/ Ui
    \/ \E passed \in SUBSET TurboButtons : Background(passed)

Next ==
    \/ Loop
    \/ \E p \in Port : Change(p) \/ Collect(p) \/ HostReport(p)

Spec == Init /\ [][Next]_vars

(* The loop goes round, polls again and again and reads every pad among    *)
(* them, turbo's intervals pass, and the host collects what is sent.       *)
Fairness ==
    /\ WF_vars(Loop)
    /\ \A p \in Port : SF_vars(\E ok \in SUBSET Port : p \in ok /\ Poll(ok))
    /\ \A b \in Output :
         SF_vars(\E passed \in SUBSET TurboButtons : b \in passed /\ Background(passed))
    /\ \A p \in Port : WF_vars(Collect(p))

FairSpec == Spec /\ Fairness
=============================================================================
