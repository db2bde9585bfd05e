---------------------------- MODULE SettingsStore ----------------------------
(***************************************************************************)
(* The settings store: records kept twice (slot 0 and slot 1, each with a  *)
(* generation and a CRC) in a RAM image of one flash sector that is        *)
(* committed to the flash as a whole.                                      *)
(*                                                                         *)
(* The main loop saves a setting (menus, serial commands, hot swap), saves *)
(* the quick menu's selection in two records, resets to factory defaults   *)
(* and repairs the store at boot, in steps: read, choose the slot, put the *)
(* payload, put the header, commit.  A setting written over WebHID is read *)
(* changed and committed by the USB interrupt, as a whole, between any two *)
(* steps of the loop.  The power may fail at any moment, also while the    *)
(* sector is erased and programmed.                                        *)
(***************************************************************************)
EXTENDS Naturals, Sequences

CONSTANTS
    Fields,      \* the settings in a record
    Values,      \* their values
    Factory,     \* the default of a setting
    LoopFields,  \* the settings the loop saves one at a time
    RemoteFields,\* the settings written over WebHID
    MenuBodies,  \* the records the quick menu may have
    Generations, \* how many generations there are (2^16 in the code)
    MaxSaves,    \* bound: saves and resets of the loop
    MaxRemote,   \* bound: settings written over WebHID
    MaxLosses    \* bound: power failures

ASSUME StoreAssumption ==
    /\ Factory \in Values
    /\ LoopFields \subseteq Fields /\ RemoteFields \subseteq Fields
    /\ MenuBodies \subseteq [Fields -> Values]
    /\ Generations \in Nat /\ Generations > 2
    /\ MaxSaves \in Nat /\ MaxRemote \in Nat /\ MaxLosses \in Nat

(* The global record, a record of one input mode, and the hotkeys, which   *)
(* stand for the records behind the region that a reset wipes.             *)
Records == {"global", "mode", "hotkeys"}
Region == {"global", "mode"}
Slots == {0, 1}

Bodies == [Fields -> Values]
Defaults == [f \in Fields |-> Factory]
Changes == UNION {[F -> Values] : F \in SUBSET Fields}
Writes == [rec : Records, change : Changes]

(* A slot: the header's generation, the payloads its CRC fits (none when   *)
(* the header's own CRC, magic, version or size is wrong), the payload.    *)
(* Collisions of the CRC are left out: put together with Cell, the header  *)
(* fits one payload.                                                       *)
Gens == 0 .. Generations - 1
Cells == [gen : Gens, fits : SUBSET Bodies, body : Bodies]
Erased == [gen |-> 0, fits |-> {}, body |-> Defaults]
Cell(g, b) == [gen |-> g, fits |-> {b}, body |-> b]
Stores == [Records -> [Slots -> Cells]]

VARIABLES
    ram,       \* the EEPROM library's image of the sector
    flash,     \* the sector
    pc,        \* where the main loop is in the store's code
    up,        \* boot is over and the USB device runs
    todo,      \* the records it still has to write, the current one first
    draft,     \* the record it is about to store
    target,    \* the slot it has chosen
    gen,       \* the generation it has chosen
    found,     \* whether it found a readable record when it chose
    at,        \* slots a reset has wiped so far
    saves,     \* saves and resets of the loop so far
    remote,    \* settings written over WebHID so far
    losses,    \* power failures so far
    recent,    \* what the record has held or was to hold since its last save began
    disturbed  \* whether something came between that save's steps

loopVars == <<pc, up, todo, draft, target, gen, found, at>>
counters == <<saves, remote, losses>>
history == <<recent, disturbed>>
vars == <<ram, flash, loopVars, counters, history>>

Steps == {"off", "wipe", "wiped", "idle", "read", "choose", "body", "head", "commit"}

(* Every variable has its type. *)
TypeOK ==
    /\ ram \in Stores
    /\ flash \in Stores
    /\ pc \in Steps
    /\ up \in BOOLEAN
    /\ todo \in Seq(Writes)
    /\ draft \in Bodies
    /\ target \in Slots
    /\ gen \in Gens
    /\ found \in BOOLEAN
    /\ at \in 0 .. 4
    /\ saves \in 0 .. MaxSaves
    /\ remote \in 0 .. MaxRemote
    /\ losses \in 0 .. MaxLosses
    /\ recent \in [Records -> SUBSET Bodies]
    /\ disturbed \in [Records -> BOOLEAN]

-----------------------------------------------------------------------------
(* Reading and writing a record. *)

(* isPersistedBlockHeaderValid and the payload's CRC. *)
Valid(c) == c.body \in c.fits

(* Mutant: generations are compared as numbers. *)
MutNewer(g, h) == g > h

(* isGenerationNewer: generations are compared around the circle. *)
Ahead(g, h) == IF g >= h THEN g - h ELSE g + Generations - h
Newer(g, h) == g # h /\ 2 * Ahead(g, h) < Generations

(* Mutant: the generation does not wrap. *)
MutSuccessor(g) == g + 1

Successor(g) == IF g = Generations - 1 THEN 0 ELSE g + 1

(* readLatestPersistedRecordAB *)
Readable(store, r) == \E s \in Slots : Valid(store[r][s])

LatestSlot(store, r) ==
    IF Valid(store[r][1]) /\ (Valid(store[r][0]) =>
                                Newer(store[r][1].gen, store[r][0].gen))
    THEN 1 ELSE 0

(* readGlobalSettings, readPerModeSettings, readHotkeyBindings: defaults   *)
(* stand in for a record that cannot be read.                              *)
Value(store, r) ==
    IF Readable(store, r) THEN store[r][LatestSlot(store, r)].body ELSE Defaults

(* Mutant: the latest slot is overwritten. *)
MutChosenSlot(store, r) == IF Readable(store, r) THEN LatestSlot(store, r) ELSE 0

(* The slot and the generation writePersistedRecordAB chooses. *)
ChosenSlot(store, r) == IF Readable(store, r) THEN 1 - LatestSlot(store, r) ELSE 0
ChosenGen(store, r) ==
    IF Readable(store, r) THEN Successor(store[r][LatestSlot(store, r)].gen) ELSE 1

(* It writes nothing when the record already holds the value. *)
Holds(store, r, b) == Readable(store, r) /\ Value(store, r) = b

Put(store, r, s, c) == [store EXCEPT ![r] = [@ EXCEPT ![s] = c]]

(* The image after writePersistedRecordAB has run without interruption. *)
Written(store, r, b) ==
    IF Holds(store, r, b) THEN store
    ELSE Put(store, r, ChosenSlot(store, r), Cell(ChosenGen(store, r), b))

(* A record with some of its settings changed. *)
Changed(b, change) == [f \in Fields |-> IF f \in DOMAIN change THEN change[f] ELSE b[f]]

-----------------------------------------------------------------------------
(* The flash. *)

(* The order of the slots in the sector. *)
Place(r, s) == s + [global |-> 0, mode |-> 2, hotkeys |-> 4][r]

(* The sector when the power fails after n slots have been programmed:     *)
(* EEPROM.commit erases it and programs it from the start.                 *)
Programmed(store, n) ==
    [r \in Records |-> [s \in Slots |-> IF Place(r, s) < n THEN store[r][s] ELSE Erased]]

-----------------------------------------------------------------------------
(* What the loop writes. *)

Write(r, change) == [rec |-> r, change |-> change]
Setting(f, v) == [x \in {f} |-> v]
Keep == [x \in {} |-> Factory]

(* factoryResetSettings, behind the wiping: the defaults, and the per-mode *)
(* records as they can be read.                                            *)
ResetWrites == <<Write("global", Defaults), Write("hotkeys", Defaults), Write("mode", Keep)>>

(* Boot: reading the hotkeys and the settings of the mode writes defaults  *)
(* where there are none.                                                   *)
BootWrites == <<Write("hotkeys", Keep), Write("mode", Keep)>>

Current == Head(todo)

(* A reset is wiping the record. *)
Wiping(r) == pc \in {"wipe", "wiped"} /\ r \in Region

(* The loop is between reading the record and having stored it. *)
InUse(r) ==
    \/ Wiping(r)
    \/ pc \in {"choose", "body", "head", "commit"} /\ Current.rec = r

(* The store has been in use: what a flash holds that earlier sessions     *)
(* wrote, its generations about to wrap, or nothing at all.                *)
FormerStore(r) == [s \in Slots |-> IF s = 0 THEN Cell(Generations - 1, Defaults)
                                  ELSE Cell(Generations - 2, Defaults)]

Init ==
    /\ flash \in {[r \in Records |-> FormerStore(r)],
                  [r \in Records |-> [s \in Slots |-> Erased]]}
    /\ ram = flash
    /\ pc = "off" /\ up = FALSE /\ todo = <<>> /\ at = 0
    /\ draft = Defaults /\ target = 0 /\ gen = 0 /\ found = FALSE
    /\ saves = 0 /\ remote = 0 /\ losses = 0
    /\ recent = [r \in Records |-> {Defaults}]
    /\ disturbed = [r \in Records |-> FALSE]

-----------------------------------------------------------------------------
(* The main loop begins something. *)

(* Mutant: boot takes the global record as it is. *)
MutBoot ==
    /\ pc = "off"
    /\ ram' = flash
    /\ pc' = "read" /\ todo' = BootWrites
    /\ at' = 0
    /\ UNCHANGED <<flash, up, draft, target, gen, found, counters, history>>

(* EEPROM.begin and beginPersistentStorage: a global record that cannot be *)
(* read means a reset.                                                     *)
Boot ==
    /\ pc = "off"
    /\ ram' = flash
    /\ IF Readable(flash, "global")
       THEN pc' = "read" /\ todo' = BootWrites
       ELSE pc' = "wipe" /\ todo' = ResetWrites \o BootWrites
    /\ at' = 0
    /\ UNCHANGED <<flash, up, draft, target, gen, found, counters, history>>

(* saveSettingValue and its like: one setting of one record. *)
SaveSetting ==
    /\ pc = "idle" /\ saves < MaxSaves
    /\ \E r \in Records, f \in LoopFields, v \in Values :
          todo' = <<Write(r, Setting(f, v))>>
    /\ pc' = "read"
    /\ saves' = saves + 1
    /\ UNCHANGED <<ram, flash, up, draft, target, gen, found, at, remote, losses, history>>

(* persistSelection: the selected mode in the global record, then the      *)
(* whole record of the mode as the menu had it.                            *)
SaveSelection ==
    /\ pc = "idle" /\ saves < MaxSaves
    /\ \E f \in LoopFields, v \in Values, menu \in MenuBodies :
          todo' = <<Write("global", Setting(f, v)), Write("mode", menu)>>
    /\ pc' = "read"
    /\ saves' = saves + 1
    /\ UNCHANGED <<ram, flash, up, draft, target, gen, found, at, remote, losses, history>>

FactoryReset ==
    /\ pc = "idle" /\ saves < MaxSaves
    /\ pc' = "wipe" /\ at' = 0 /\ todo' = ResetWrites
    /\ saves' = saves + 1
    /\ disturbed' = [r \in Records |-> r \notin Region /\ disturbed[r]]
    /\ UNCHANGED <<ram, flash, up, draft, target, gen, found, remote, losses, recent>>

-----------------------------------------------------------------------------
(* Its steps. *)

(* stageEepromRangeFill, a slot at a time. *)
Wipe ==
    /\ pc = "wipe"
    /\ ram' = [r \in Records |-> [s \in Slots |->
                 IF r \in Region /\ Place(r, s) = at THEN Erased ELSE ram[r][s]]]
    /\ at' = at + 1
    /\ pc' = IF at + 1 = 4 THEN "wiped" ELSE "wipe"
    /\ UNCHANGED <<flash, up, todo, draft, target, gen, found, counters, history>>

CommitWipe ==
    /\ pc = "wiped"
    /\ flash' = ram
    /\ pc' = "read"
    /\ recent' = [r \in Records |-> IF r \in Region /\ ~disturbed[r] THEN {Defaults}
                                                                  ELSE recent[r]]
    /\ UNCHANGED <<ram, up, todo, draft, target, gen, found, at, counters, disturbed>>

(* The record with the new settings in it.  Reading both slots is one      *)
(* step: a callback between them leaves the reader with the record as it   *)
(* was before or as it is after the callback, and two do not fit.          *)
ReadRecord ==
    /\ pc = "read"
    /\ draft' = Changed(Value(ram, Current.rec), Current.change)
    /\ pc' = "choose"
    /\ recent' = [recent EXCEPT ![Current.rec] = {Value(ram, Current.rec)}]
    /\ disturbed' = [disturbed EXCEPT ![Current.rec] = FALSE]
    /\ UNCHANGED <<ram, flash, up, todo, target, gen, found, at, counters>>

(* On to the next record, with the locals gone; boot is over when there is *)
(* none left.                                                              *)
Forget ==
    /\ draft' = Defaults /\ target' = 0 /\ gen' = 0 /\ found' = FALSE /\ at' = 0

Proceed ==
    /\ Forget
    /\ todo' = Tail(todo)
    /\ pc' = IF Len(todo) = 1 THEN "idle" ELSE "read"
    /\ up' = (up \/ Len(todo) = 1)

ChooseSlot ==
    /\ pc = "choose"
    /\ \/ /\ Holds(ram, Current.rec, draft)
          /\ Proceed
       \/ /\ ~Holds(ram, Current.rec, draft)
          /\ target' = ChosenSlot(ram, Current.rec)
          /\ gen' = ChosenGen(ram, Current.rec)
          /\ found' = Readable(ram, Current.rec)
          /\ pc' = "body"
          /\ UNCHANGED <<todo, up, draft, at>>
    /\ UNCHANGED <<ram, flash, counters, history>>

(* A put that is interrupted half way ends like one that is interrupted    *)
(* before or behind it: in a payload that the header's CRC does not fit.   *)
PutBody ==
    /\ pc = "body"
    /\ ram' = Put(ram, Current.rec, target,
                  [ram[Current.rec][target] EXCEPT !.body = draft])
    /\ pc' = "head"
    /\ UNCHANGED <<flash, up, todo, draft, target, gen, found, at, counters, history>>

PutHead ==
    /\ pc = "head"
    /\ ram' = Put(ram, Current.rec, target,
                  [gen |-> gen, fits |-> {draft}, body |-> ram[Current.rec][target].body])
    /\ pc' = "commit"
    /\ UNCHANGED <<flash, up, todo, draft, target, gen, found, at, counters, history>>

(* Behind a save that nothing came between there is only what it stored.    *)
StoredDraft ==
    recent' = [recent EXCEPT ![Current.rec] =
                  {draft} \cup (IF disturbed[Current.rec] THEN @ ELSE {})]

(* Mutant: the image is not committed. *)
MutCommit ==
    /\ pc = "commit"
    /\ StoredDraft
    /\ Proceed
    /\ UNCHANGED <<ram, flash, counters, disturbed>>

(* EEPROM.commit keeps the interrupts off. *)
Commit ==
    /\ pc = "commit"
    /\ flash' = ram
    /\ StoredDraft
    /\ Proceed
    /\ UNCHANGED <<ram, counters, disturbed>>

-----------------------------------------------------------------------------
(* What comes between. *)

(* What a record may hold when the interrupt has stored b in record r.     *)
StoredBetween(r, b) ==
    /\ recent' = [x \in Records |->
          IF Wiping(x) THEN Bodies
          ELSE IF x # r THEN recent[x]
          ELSE {b} \cup (IF InUse(r) THEN recent[r] ELSE {})]
    /\ disturbed' = [x \in Records |-> IF x = r THEN InUse(r) ELSE disturbed[x] \/ Wiping(x)]

(* A setting written over WebHID: read, changed, stored and committed, if  *)
(* it is a change, with whatever else the image holds at this moment.  It  *)
(* commits a half wiped image too, and may save what the wiping uncovers.  *)
RemoteSave ==
    /\ up /\ remote < MaxRemote
    /\ \E r \in Records, f \in RemoteFields, v \in Values :
          LET b == [Value(ram, r) EXCEPT ![f] = v]
          IN  /\ ram' = Written(ram, r, b)
              /\ flash' = IF Holds(ram, r, b) THEN flash ELSE Written(ram, r, b)
              /\ StoredBetween(r, b)
    /\ remote' = remote + 1
    /\ UNCHANGED <<loopVars, saves, losses>>

(* The power fails: outside the flash's programming, or in the middle of   *)
(* it, the loop's or that of a setting written over WebHID.                *)
PowerLoss ==
    /\ pc # "off" /\ losses < MaxLosses
    /\ \/ flash' = flash
       \/ /\ pc \in {"commit", "wiped"}
          /\ \E n \in 0 .. 6 : flash' = Programmed(ram, n)
       \/ /\ up /\ remote < MaxRemote
          /\ \E r \in Records, f \in RemoteFields, v \in Values, n \in 0 .. 6 :
                flash' = Programmed(Written(ram, r, [Value(ram, r) EXCEPT ![f] = v]), n)
    /\ ram' = flash' /\ pc' = "off" /\ up' = FALSE /\ todo' = <<>>
    /\ recent' = [r \in Records |-> {Value(flash', r)}]
    /\ disturbed' = [r \in Records |-> FALSE]
    /\ losses' = losses + 1
    /\ Forget
    /\ UNCHANGED <<saves, remote>>

-----------------------------------------------------------------------------
Begin == SaveSetting \/ SaveSelection \/ FactoryReset

Step ==
    \/ Boot \/ Wipe \/ CommitWipe \/ ReadRecord \/ ChooseSlot
    \/ PutBody \/ PutHead \/ Commit

Next == Begin \/ Step \/ RemoteSave \/ PowerLoss

Spec == Init /\ [][Next]_vars
=============================================================================
