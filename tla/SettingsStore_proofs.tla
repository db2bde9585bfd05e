-------------------------- MODULE SettingsStore_proofs --------------------------
(***************************************************************************)
(* Proofs of the properties of SettingsStore, for any settings and values, *)
(* any number of generations above 2 and any number of saves and failures. *)
(***************************************************************************)
EXTENDS SettingsStoreProps, SequenceTheorems, TLAPS

-----------------------------------------------------------------------------
(* The operators on a store. *)

LEMMA LatestReadable ==
    ASSUME NEW store, NEW r, Readable(store, r)
    PROVE  LatestSlot(store, r) \in Slots /\ Valid(store[r][LatestSlot(store, r)])
  BY DEF Readable, LatestSlot, Slots

LEMMA ValueTyped ==
    ASSUME NEW store \in Stores, NEW r \in Records
    PROVE  Value(store, r) \in Bodies
  <1>1. Defaults \in Bodies
    BY StoreAssumption DEF Defaults, Bodies
  <1>2. \A s \in Slots : store[r][s].body \in Bodies
    BY DEF Stores, Cells
  <1>3. Readable(store, r) => store[r][LatestSlot(store, r)].body \in Bodies
    BY <1>2, LatestReadable
  <1>. QED
    BY <1>1, <1>3 DEF Value

LEMMA ChosenTyped ==
    ASSUME NEW store \in Stores, NEW r \in Records
    PROVE  ChosenSlot(store, r) \in Slots /\ ChosenGen(store, r) \in Gens
  <1>1. \A s \in Slots : store[r][s].gen \in Gens
    BY DEF Stores, Cells
  <1>2. ASSUME NEW g \in Gens PROVE Successor(g) \in Gens
    BY StoreAssumption DEF Successor, Gens
  <1>3. 1 \in Gens /\ 0 \in Slots
    BY StoreAssumption DEF Gens, Slots
  <1>4. CASE Readable(store, r)
    <2>1. LatestSlot(store, r) \in Slots
      BY <1>4, LatestReadable
    <2>2. ChosenGen(store, r) = Successor(store[r][LatestSlot(store, r)].gen)
      BY <1>4 DEF ChosenGen
    <2>3. ChosenSlot(store, r) = 1 - LatestSlot(store, r)
      BY <1>4 DEF ChosenSlot
    <2>. QED
      BY <1>1, <1>2, <2>1, <2>2, <2>3 DEF Slots
  <1>5. CASE ~Readable(store, r)
    BY <1>3, <1>5 DEF ChosenSlot, ChosenGen
  <1>. QED
    BY <1>4, <1>5

(* What Put changes. *)
LEMMA PutCell ==
    ASSUME NEW store \in Stores, NEW r \in Records, NEW s \in Slots, NEW c \in Cells
    PROVE  /\ Put(store, r, s, c) \in Stores
           /\ Put(store, r, s, c)[r][s] = c
           /\ Put(store, r, s, c)[r][1 - s] = store[r][1 - s]
           /\ \A x \in Records : x # r => Put(store, r, s, c)[x] = store[x]
  <1>. DEFINE slots == [store[r] EXCEPT ![s] = c]
  <1>1. store[r] \in [Slots -> Cells] /\ store \in [Records -> [Slots -> Cells]]
    BY DEF Stores
  <1>2. Put(store, r, s, c) = [store EXCEPT ![r] = slots]
    BY DEF Put
  <1>3. slots \in [Slots -> Cells] /\ slots[s] = c
    BY <1>1
  <1>4. 1 - s \in Slots /\ 1 - s # s
    BY DEF Slots
  <1>5. slots[1 - s] = store[r][1 - s]
    BY <1>1, <1>4
  <1>. HIDE DEF slots
  <1>. QED
    BY <1>1, <1>2, <1>3, <1>5 DEF Stores

(* What is put together fits its header. *)
LEMMA CellValid ==
    ASSUME NEW g \in Gens, NEW b \in Bodies
    PROVE  Cell(g, b) \in Cells /\ Valid(Cell(g, b)) /\ Cell(g, b).body = b /\ Cell(g, b).gen = g
  BY DEF Cell, Cells, Valid

(* What putting a payload and putting a header change.                     *)
LEMMA CellEdited ==
    ASSUME NEW c \in Cells, NEW g \in Gens, NEW b \in Bodies
    PROVE  /\ [c EXCEPT !.body = b] \in Cells
           /\ [c EXCEPT !.body = b].body = b
           /\ [gen |-> g, fits |-> {b}, body |-> c.body] \in Cells
  <1>1. c = [gen |-> c.gen, fits |-> c.fits, body |-> c.body]
    BY DEF Cells
  <1>2. c.gen \in Gens /\ c.fits \in SUBSET Bodies /\ c.body \in Bodies
    BY DEF Cells
  <1>3. [c EXCEPT !.body = b] = [gen |-> c.gen, fits |-> c.fits, body |-> b]
    BY <1>1
  <1>4. {b} \in SUBSET Bodies
    OBVIOUS
  <1>. QED
    BY <1>2, <1>3, <1>4 DEF Cells

LEMMA ErasedCell == Erased \in Cells /\ ~Valid(Erased)
  BY StoreAssumption DEF Erased, Cells, Valid, Gens, Defaults, Bodies

(* A record is read from its own two slots. *)
LEMMA Local ==
    ASSUME NEW a, NEW b, NEW r, a[r] = b[r]
    PROVE  Value(a, r) = Value(b, r) /\ (Readable(a, r) <=> Readable(b, r))
  BY DEF Value, Readable, LatestSlot

(* The successor of a generation is newer, and not the other way round.    *)
LEMMA NextIsNewer ==
    ASSUME NEW g \in Gens
    PROVE  Newer(Successor(g), g) /\ ~Newer(g, Successor(g))
  BY StoreAssumption, SMTT(30) DEF Newer, Ahead, Successor, Gens

(* One slot wins: it fits, and the other one does not or is older.         *)
LEMMA Wins ==
    ASSUME NEW store \in Stores, NEW r \in Records, NEW s \in Slots,
           Valid(store[r][s]),
           \/ ~Valid(store[r][1 - s])
           \/ store[r][s].gen = Successor(store[r][1 - s].gen)
    PROVE  Readable(store, r) /\ Value(store, r) = store[r][s].body
  <1>1. Readable(store, r)
    BY DEF Readable
  <1>2. LatestSlot(store, r) = s
    <2>1. store[r][1 - s].gen \in Gens
      BY DEF Stores, Cells, Slots
    <2>2. CASE s = 0
      BY <2>1, <2>2, NextIsNewer DEF LatestSlot
    <2>3. CASE s = 1
      BY <2>1, <2>3, NextIsNewer DEF LatestSlot
    <2>. QED
      BY <2>2, <2>3 DEF Slots
  <1>. QED
    BY <1>1, <1>2 DEF Value

(* The record that is written whole is the one that is read. *)
LEMMA WrittenValue ==
    ASSUME NEW store \in Stores, NEW r \in Records, NEW b \in Bodies
    PROVE  /\ Written(store, r, b) \in Stores
           /\ Readable(Written(store, r, b), r)
           /\ Value(Written(store, r, b), r) = b
           /\ \A x \in Records : x # r => Written(store, r, b)[x] = store[x]
           /\ \A s \in Slots : Valid(store[r][s]) => Valid(Written(store, r, b)[r][s])
           /\ \A s \in Slots : \/ Written(store, r, b)[r][s] = store[r][s]
                               \/ /\ Valid(Written(store, r, b)[r][s])
                                  /\ Written(store, r, b)[r][s].body = b
  <1>1. CASE Holds(store, r, b)
    BY <1>1 DEF Holds, Written
  <1>2. CASE ~Holds(store, r, b)
    <2>. DEFINE s == ChosenSlot(store, r)
                g == ChosenGen(store, r)
                new == Put(store, r, s, Cell(g, b))
    <2>1. Written(store, r, b) = new /\ s \in Slots /\ g \in Gens
      BY <1>2, ChosenTyped DEF Written
    <2>2. Cell(g, b) \in Cells /\ Valid(Cell(g, b)) /\ Cell(g, b).body = b /\ Cell(g, b).gen = g
      BY <2>1, CellValid
    <2>3. /\ new \in Stores /\ new[r][s] = Cell(g, b) /\ new[r][1 - s] = store[r][1 - s]
          /\ \A x \in Records : x # r => new[x] = store[x]
      BY <2>1, <2>2, PutCell
    <2>4. ~Valid(store[r][1 - s]) \/ g = Successor(store[r][1 - s].gen)
      <3>1. CASE Readable(store, r)
        <4>1. 1 - s = LatestSlot(store, r)
          BY <3>1, LatestReadable DEF ChosenSlot, Slots
        <4>. QED
          BY <3>1, <4>1 DEF ChosenGen
      <3>2. CASE ~Readable(store, r)
        BY <3>2, <2>1 DEF Readable, Slots
      <3>. QED
        BY <3>1, <3>2
    <2>. HIDE DEF s, g, new
    <2>5. Readable(new, r) /\ Value(new, r) = b
      BY <2>1, <2>2, <2>3, <2>4, Wins
    <2>6. \A x \in Slots : x = s \/ x = 1 - s
      BY <2>1 DEF Slots
    <2>. QED
      BY <2>1, <2>2, <2>3, <2>5, <2>6
  <1>. QED
    BY <1>1, <1>2

-----------------------------------------------------------------------------
(* Types. *)

(* While the loop is in the store it has something to write.               *)
Progress ==
    /\ pc \notin {"off", "idle"} => todo # <<>>
    /\ pc = "wipe" => at < 4

Typed == TypeOK /\ Progress

LEMMA WritesTyped ==
    /\ \A r \in Records, f \in LoopFields, v \in Values : Write(r, Setting(f, v)) \in Writes
    /\ \A r \in Records, menu \in MenuBodies : Write(r, menu) \in Writes
    /\ \A r \in Records : Write(r, Defaults) \in Writes /\ Write(r, Keep) \in Writes
  <1>1. ASSUME NEW F \in SUBSET Fields, NEW c \in [F -> Values] PROVE c \in Changes
    BY DEF Changes
  <1>2. ASSUME NEW c \in Changes, NEW r \in Records PROVE Write(r, c) \in Writes
    BY DEF Write, Writes
  <1>3. ASSUME NEW f \in LoopFields, NEW v \in Values PROVE Setting(f, v) \in Changes
    <2>1. {f} \in SUBSET Fields /\ Setting(f, v) \in [{f} -> Values]
      BY StoreAssumption DEF Setting
    <2>. QED
      BY <1>1, <2>1
  <1>4. ASSUME NEW menu \in MenuBodies PROVE menu \in Changes
    BY <1>1, StoreAssumption
  <1>5. Defaults \in Changes
    BY <1>1, StoreAssumption DEF Defaults
  <1>6. Keep \in Changes
    <2>1. Keep \in [{} -> Values]
      BY DEF Keep
    <2>. QED
      BY <1>1, <2>1
  <1>. QED
    BY <1>2, <1>3, <1>4, <1>5, <1>6

LEMMA ChangedTyped ==
    ASSUME NEW b \in Bodies, NEW change \in Changes
    PROVE  Changed(b, change) \in Bodies
  <1>1. PICK F \in SUBSET Fields : change \in [F -> Values]
    BY DEF Changes
  <1>. QED
    BY <1>1 DEF Changed, Bodies

LEMMA BootTyped ==
    /\ BootWrites \in Seq(Writes) /\ BootWrites # <<>>
    /\ ResetWrites \in Seq(Writes) /\ ResetWrites # <<>>
    /\ ResetWrites \o BootWrites \in Seq(Writes) /\ ResetWrites \o BootWrites # <<>>
  <1>1. {"global", "mode", "hotkeys"} \subseteq Records
    BY DEF Records
  <1>2. BootWrites \in Seq(Writes) /\ BootWrites # <<>>
    BY <1>1, WritesTyped DEF BootWrites
  <1>3. ResetWrites \in Seq(Writes) /\ ResetWrites # <<>>
    BY <1>1, WritesTyped DEF ResetWrites
  <1>. QED
    BY <1>2, <1>3

(* The write under way. *)
LEMMA CurrentTyped ==
    ASSUME Typed, pc \notin {"off", "idle"}
    PROVE  /\ todo \in Seq(Writes) /\ todo # <<>>
           /\ Current \in Writes /\ Current.rec \in Records /\ Current.change \in Changes
           /\ Tail(todo) \in Seq(Writes)
           /\ Len(todo) \in Nat /\ (Len(todo) # 1 => Tail(todo) # <<>>)
  <1>1. todo \in Seq(Writes) /\ todo # <<>>
    BY DEF Typed, TypeOK, Progress
  <1>2. Current \in Writes /\ Tail(todo) \in Seq(Writes) /\ Len(Tail(todo)) = Len(todo) - 1
    BY <1>1, HeadTailProperties DEF Current
  <1>3. Len(todo) \in Nat /\ Len(todo) # 0
    BY <1>1
  <1>4. Len(todo) # 1 => Tail(todo) # <<>>
    <2>1. Tail(todo) = <<>> => Len(Tail(todo)) = 0
      BY EmptySeq
    <2>. QED
      BY <1>2, <1>3, <2>1
  <1>. QED
    BY <1>1, <1>2, <1>3, <1>4 DEF Writes

LEMMA InitTyped == Init => Typed
  <1>. SUFFICES ASSUME Init PROVE Typed
    OBVIOUS
  <1>1. Defaults \in Bodies /\ Generations - 1 \in Gens /\ Generations - 2 \in Gens
    BY StoreAssumption DEF Defaults, Bodies, Gens
  <1>2. \A r : FormerStore(r) \in [Slots -> Cells]
    BY <1>1, CellValid DEF FormerStore
  <1>3. flash \in Stores /\ ram \in Stores
    BY <1>2, ErasedCell DEF Init, Stores
  <1>4. up \in BOOLEAN /\ found \in BOOLEAN /\ disturbed \in [Records -> BOOLEAN]
    BY DEF Init
  <1>5. pc \in Steps /\ todo \in Seq(Writes) /\ draft \in Bodies /\ target \in Slots
    BY <1>1 DEF Init, Steps, Slots
  <1>6. gen \in Gens /\ at \in 0 .. 4 /\ saves \in 0 .. MaxSaves
        /\ remote \in 0 .. MaxRemote /\ losses \in 0 .. MaxLosses
    BY StoreAssumption DEF Init, Gens
  <1>7. recent \in [Records -> SUBSET Bodies]
    BY <1>1 DEF Init
  <1>8. Progress
    BY DEF Init, Progress
  <1>. QED
    BY <1>3, <1>4, <1>5, <1>6, <1>7, <1>8 DEF Typed, TypeOK

LEMMA ForgetTyped ==
    ASSUME Forget
    PROVE  /\ draft' \in Bodies /\ target' \in Slots /\ gen' \in Gens /\ found' \in BOOLEAN
           /\ at' \in 0 .. 4
  <1>1. found' \in BOOLEAN
    BY Zenon DEF Forget
  <1>. QED
    BY <1>1, StoreAssumption DEF Forget, Defaults, Bodies, Slots, Gens

LEMMA ProceedTyped ==
    ASSUME Typed, pc \notin {"off", "idle"}, Proceed
    PROVE  /\ draft' \in Bodies /\ target' \in Slots /\ gen' \in Gens /\ found' \in BOOLEAN
           /\ at' \in 0 .. 4 /\ todo' \in Seq(Writes) /\ pc' \in Steps /\ up' \in BOOLEAN
           /\ Progress'
  <1>1. todo' \in Seq(Writes) /\ (Len(todo) # 1 => todo' # <<>>)
    BY CurrentTyped DEF Proceed
  <1>2. pc' = IF Len(todo) = 1 THEN "idle" ELSE "read"
    BY DEF Proceed
  <1>3. up' \in BOOLEAN
    BY Zenon DEF Proceed
  <1>. QED
    BY <1>1, <1>2, <1>3, ForgetTyped DEF Proceed, Steps, Progress

LEMMA BetweenTyped ==
    ASSUME Typed, NEW r \in Records, NEW b \in Bodies, StoredBetween(r, b)
    PROVE  recent' \in [Records -> SUBSET Bodies] /\ disturbed' \in [Records -> BOOLEAN]
  <1>1. \A x \in Records : recent[x] \in SUBSET Bodies
    BY DEF Typed, TypeOK
  <1>2. recent' \in [Records -> SUBSET Bodies]
    BY <1>1 DEF StoredBetween
  <1>3. disturbed \in [Records -> BOOLEAN]
    BY DEF Typed, TypeOK
  <1>4. \A x \in Records : InUse(x) \in BOOLEAN /\ (disturbed[x] \/ Wiping(x)) \in BOOLEAN
    BY Zenon DEF InUse, Wiping
  <1>5. disturbed' \in [Records -> BOOLEAN]
    BY <1>4, Zenon DEF StoredBetween
  <1>. QED
    BY <1>2, <1>5

LEMMA StepTyped == Typed /\ [Next]_vars => Typed'
  <1>. SUFFICES ASSUME Typed, [Next]_vars PROVE Typed'
    OBVIOUS
  <1>0. TypeOK /\ Progress
    BY DEF Typed
  <1>1. CASE Boot
    <2>1. ram' \in Stores /\ pc' \in {"read", "wipe"} /\ at' = 0
      BY <1>0, <1>1 DEF Boot, TypeOK
    <2>2. todo' \in Seq(Writes) /\ todo' # <<>>
      BY <1>1, BootTyped DEF Boot
    <2>3. UNCHANGED <<up, found>>
      BY <1>1 DEF Boot
    <2>4. UNCHANGED <<flash, draft, target, gen, saves, remote, losses, recent, disturbed>>
      BY <1>1 DEF Boot, counters, history
    <2>. QED
      BY <1>0, <2>1, <2>2, <2>3, <2>4 DEF Typed, TypeOK, Progress, Steps
  <1>2. CASE Begin
    <2>1. todo' \in Seq(Writes) /\ todo' # <<>>
      <3>1. CASE SaveSetting
        BY <3>1, WritesTyped DEF SaveSetting
      <3>2. CASE SaveSelection
        <4>1. {"global", "mode"} \subseteq Records
          BY DEF Records
        <4>. QED
          BY <3>2, <4>1, WritesTyped DEF SaveSelection
      <3>3. CASE FactoryReset
        BY <3>3, BootTyped DEF FactoryReset
      <3>. QED
        BY <1>2, <3>1, <3>2, <3>3 DEF Begin
    <2>2. pc' \in {"read", "wipe"} /\ (pc' = "wipe" => at' = 0) /\ at' \in {at, 0}
      BY <1>2 DEF Begin, SaveSetting, SaveSelection, FactoryReset
    <2>3. saves' \in 0 .. MaxSaves
      BY <1>0, <1>2, StoreAssumption DEF Begin, SaveSetting, SaveSelection, FactoryReset, TypeOK
    <2>4. UNCHANGED <<up, found>>
      BY <1>2 DEF Begin, SaveSetting, SaveSelection, FactoryReset
    <2>5. UNCHANGED <<ram, flash, draft, target, gen, remote, losses, recent>>
      BY <1>2 DEF Begin, SaveSetting, SaveSelection, FactoryReset, history
    <2>6. disturbed' \in [Records -> BOOLEAN]
      <3>1. CASE FactoryReset
        <4>1. disturbed' = [r \in Records |-> r \notin Region /\ disturbed[r]]
          BY <3>1 DEF FactoryReset
        <4>. QED
          BY <4>1, Zenon
      <3>2. CASE SaveSetting \/ SaveSelection
        BY <1>0, <3>2 DEF SaveSetting, SaveSelection, history, TypeOK
      <3>. QED
        BY <1>2, <3>1, <3>2 DEF Begin
    <2>. QED
      BY <1>0, <2>1, <2>2, <2>3, <2>4, <2>5, <2>6 DEF Typed, TypeOK, Progress, Steps
  <1>3. CASE Wipe
    <2>1. ram' \in Stores
      BY <1>0, <1>3, ErasedCell DEF Wipe, TypeOK, Stores
    <2>2. at' \in 0 .. 4 /\ pc' \in {"wipe", "wiped"} /\ (pc' = "wipe" => at' < 4) /\ todo' # <<>>
      BY <1>0, <1>3 DEF Wipe, TypeOK, Progress
    <2>3. UNCHANGED <<up, found>>
      BY <1>3 DEF Wipe
    <2>4. UNCHANGED <<flash, todo, draft, target, gen, saves, remote, losses, recent, disturbed>>
      BY <1>3 DEF Wipe, counters, history
    <2>. QED
      BY <1>0, <2>1, <2>2, <2>3, <2>4 DEF Typed, TypeOK, Progress, Steps
  <1>4. CASE CommitWipe
    <2>1. recent' \in [Records -> SUBSET Bodies]
      <3>1. {Defaults} \in SUBSET Bodies
        BY StoreAssumption DEF Defaults, Bodies
      <3>. QED
        BY <1>0, <1>4, <3>1 DEF CommitWipe, TypeOK
    <2>2. flash' \in Stores /\ pc' = "read" /\ todo' # <<>>
      BY <1>0, <1>4 DEF CommitWipe, TypeOK, Progress
    <2>3. UNCHANGED <<up, found>>
      BY <1>4 DEF CommitWipe
    <2>4. UNCHANGED <<ram, todo, draft, target, gen, at, saves, remote, losses, disturbed>>
      BY <1>4 DEF CommitWipe, counters
    <2>. QED
      BY <1>0, <2>1, <2>2, <2>3, <2>4 DEF Typed, TypeOK, Progress, Steps
  <1>5. CASE ReadRecord
    <2>0. pc = "read" /\ pc' = "choose" /\ Current.rec \in Records /\ Current.change \in Changes
      BY <1>5, CurrentTyped DEF ReadRecord
    <2>1. Value(ram, Current.rec) \in Bodies
      BY <1>0, <2>0, ValueTyped DEF TypeOK
    <2>2. draft' \in Bodies /\ recent' \in [Records -> SUBSET Bodies]
      BY <1>0, <1>5, <2>0, <2>1, ChangedTyped DEF ReadRecord, TypeOK
    <2>3. disturbed' \in [Records -> BOOLEAN]
      BY <1>0, <1>5 DEF ReadRecord, TypeOK
    <2>4. UNCHANGED <<up, found>>
      BY <1>5 DEF ReadRecord
    <2>5. UNCHANGED <<ram, flash, todo, target, gen, at, saves, remote, losses>>
      BY <1>5 DEF ReadRecord, counters
    <2>. QED
      BY <1>0, <2>0, <2>2, <2>3, <2>4, <2>5 DEF Typed, TypeOK, Progress, Steps
  <1>6. CASE ChooseSlot
    <2>0. pc = "choose" /\ Current.rec \in Records
      BY <1>6, CurrentTyped DEF ChooseSlot
    <2>1. UNCHANGED <<ram, flash, saves, remote, losses, recent, disturbed>>
      BY <1>6 DEF ChooseSlot, counters, history
    <2>2. CASE Proceed
      BY <1>0, <2>0, <2>1, <2>2, ProceedTyped DEF Typed, TypeOK
    <2>3. CASE ~Proceed
      <3>1. /\ target' = ChosenSlot(ram, Current.rec) /\ gen' = ChosenGen(ram, Current.rec)
            /\ pc' = "body" /\ UNCHANGED <<todo, draft, at>>
        BY <1>6, <2>3 DEF ChooseSlot
      <3>2. target' \in Slots /\ gen' \in Gens
        BY <1>0, <2>0, <3>1, ChosenTyped DEF TypeOK
      <3>3. found' \in BOOLEAN
        BY <1>6, <2>3, Zenon DEF ChooseSlot, Readable
      <3>4. UNCHANGED up
        BY <1>6, <2>3 DEF ChooseSlot
      <3>. QED
        BY <1>0, <2>0, <2>1, <3>1, <3>2, <3>3, <3>4 DEF Typed, TypeOK, Progress, Steps
    <2>. QED
      BY <2>2, <2>3
  <1>7. CASE PutBody
    <2>0. pc = "body" /\ pc' = "head" /\ Current.rec \in Records
      BY <1>7, CurrentTyped DEF PutBody
    <2>1. [ram[Current.rec][target] EXCEPT !.body = draft] \in Cells
      <3>1. ram[Current.rec][target] \in Cells
        BY <1>0, <2>0 DEF TypeOK, Stores
      <3>. QED
        BY <1>0, <3>1, CellEdited DEF TypeOK
    <2>2. ram' \in Stores
      BY <1>0, <1>7, <2>0, <2>1, PutCell DEF PutBody, TypeOK
    <2>3. UNCHANGED <<up, found>>
      BY <1>7 DEF PutBody
    <2>4. UNCHANGED <<flash, todo, draft, target, gen, at, saves, remote, losses, recent, disturbed>>
      BY <1>7 DEF PutBody, counters, history
    <2>. QED
      BY <1>0, <2>0, <2>2, <2>3, <2>4 DEF Typed, TypeOK, Progress, Steps
  <1>8. CASE PutHead
    <2>0. pc = "head" /\ pc' = "commit" /\ Current.rec \in Records
      BY <1>8, CurrentTyped DEF PutHead
    <2>1. [gen |-> gen, fits |-> {draft}, body |-> ram[Current.rec][target].body] \in Cells
      <3>1. ram[Current.rec][target] \in Cells
        BY <1>0, <2>0 DEF TypeOK, Stores
      <3>. QED
        BY <1>0, <3>1, CellEdited DEF TypeOK
    <2>2. ram' \in Stores
      BY <1>0, <1>8, <2>0, <2>1, PutCell DEF PutHead, TypeOK
    <2>3. UNCHANGED <<up, found>>
      BY <1>8 DEF PutHead
    <2>4. UNCHANGED <<flash, todo, draft, target, gen, at, saves, remote, losses, recent, disturbed>>
      BY <1>8 DEF PutHead, counters, history
    <2>. QED
      BY <1>0, <2>0, <2>2, <2>3, <2>4 DEF Typed, TypeOK, Progress, Steps
  <1>9. CASE Commit
    <2>0. pc = "commit" /\ Proceed /\ flash' = ram
      BY <1>9 DEF Commit
    <2>1. recent' \in [Records -> SUBSET Bodies]
      <3>1. draft \in Bodies /\ recent \in [Records -> SUBSET Bodies]
        BY <1>0 DEF TypeOK
      <3>2. ASSUME NEW old \in SUBSET Bodies, NEW b \in BOOLEAN
            PROVE  {draft} \cup (IF b THEN old ELSE {}) \in SUBSET Bodies
        BY <3>1
      <3>. QED
        BY <1>9, <3>1, <3>2 DEF Commit, StoredDraft
    <2>2. UNCHANGED <<ram, saves, remote, losses, disturbed>>
      BY <1>9 DEF Commit, counters
    <2>. QED
      BY <1>0, <2>0, <2>1, <2>2, ProceedTyped DEF Typed, TypeOK
  <1>10. CASE RemoteSave
    <2>1. PICK r \in Records, f \in RemoteFields, v \in Values :
            LET b == [Value(ram, r) EXCEPT ![f] = v]
            IN  /\ ram' = Written(ram, r, b)
                /\ flash' = IF Holds(ram, r, b) THEN flash ELSE Written(ram, r, b)
                /\ StoredBetween(r, b)
      BY <1>10, Zenon DEF RemoteSave
    <2>. DEFINE b == [Value(ram, r) EXCEPT ![f] = v]
    <2>2. b \in Bodies
      BY <1>0, ValueTyped DEF TypeOK, Bodies
    <2>3. Written(ram, r, b) \in Stores
      BY <1>0, <2>2, WrittenValue DEF TypeOK
    <2>4. ram' \in Stores /\ flash' \in Stores
      BY <1>0, <2>1, <2>2, <2>3 DEF TypeOK
    <2>5. recent' \in [Records -> SUBSET Bodies] /\ disturbed' \in [Records -> BOOLEAN]
      BY <2>1, <2>2, BetweenTyped DEF Typed
    <2>6. remote' \in 0 .. MaxRemote
      BY <1>0, <1>10, StoreAssumption DEF RemoteSave, TypeOK
    <2>7. UNCHANGED <<up, found>>
      BY <1>10 DEF RemoteSave, loopVars
    <2>8. UNCHANGED <<pc, todo, draft, target, gen, at, saves, losses>>
      BY <1>10 DEF RemoteSave, loopVars
    <2>. QED
      BY <1>0, <2>4, <2>5, <2>6, <2>7, <2>8 DEF Typed, TypeOK, Progress
  <1>11. CASE PowerLoss
    <2>0. \A store \in Stores : \A n : Programmed(store, n) \in Stores
      BY ErasedCell DEF Programmed, Stores
    <2>1. flash' \in Stores
      <3>1. ASSUME NEW r \in Records, NEW f \in RemoteFields, NEW v \in Values
            PROVE  Written(ram, r, [Value(ram, r) EXCEPT ![f] = v]) \in Stores
        <4>1. [Value(ram, r) EXCEPT ![f] = v] \in Bodies
          BY <1>0, ValueTyped DEF TypeOK, Bodies
        <4>. QED
          BY <1>0, <4>1, WrittenValue DEF TypeOK
      <3>. QED
        BY <1>0, <1>11, <2>0, <3>1 DEF PowerLoss, TypeOK
    <2>2. ram' \in Stores /\ pc' = "off" /\ todo' = <<>> /\ Forget
      BY <1>11, <2>1 DEF PowerLoss
    <2>3. up' \in BOOLEAN
      BY <1>11, Zenon DEF PowerLoss
    <2>4. recent' \in [Records -> SUBSET Bodies]
      BY <1>11, <2>1, ValueTyped DEF PowerLoss
    <2>5. disturbed' \in [Records -> BOOLEAN]
      BY <1>11 DEF PowerLoss
    <2>6. losses' \in 0 .. MaxLosses /\ UNCHANGED <<saves, remote>>
      BY <1>0, <1>11, StoreAssumption DEF PowerLoss, TypeOK
    <2>7. todo' \in Seq(Writes)
      BY <2>2
    <2>. QED
      BY <1>0, <2>1, <2>2, <2>3, <2>4, <2>5, <2>6, <2>7, ForgetTyped
         DEF Typed, TypeOK, Progress, Steps
  <1>12. CASE UNCHANGED vars
    BY <1>0, <1>12 DEF vars, loopVars, counters, history, Typed, TypeOK, Progress
  <1>. QED
    BY <1>1, <1>2, <1>3, <1>4, <1>5, <1>6, <1>7, <1>8, <1>9, <1>10, <1>11, <1>12
       DEF Next, Step

-----------------------------------------------------------------------------
(* The image and the flash. *)

(* Outside the steps that put and commit, the flash is the image.          *)
Clean == pc \in {"off", "idle", "read", "choose"} => flash = ram

(* A setting written over WebHID, and the power failing, with the value    *)
(* they work on.                                                           *)
LEMMA RemoteStep ==
    ASSUME Typed, RemoteSave
    PROVE  \E r \in Records, b \in Bodies :
              /\ ram' = Written(ram, r, b)
              /\ flash' = IF Holds(ram, r, b) THEN flash ELSE Written(ram, r, b)
              /\ StoredBetween(r, b)
  <1>1. ASSUME NEW r \in Records, NEW f, NEW v \in Values
        PROVE  [Value(ram, r) EXCEPT ![f] = v] \in Bodies
    BY ValueTyped DEF Typed, TypeOK, Bodies
  <1>. QED
    BY <1>1, Zenon DEF RemoteSave

LEMMA StepClean == Typed /\ Clean /\ [Next]_vars => Clean'
  <1>. SUFFICES ASSUME Typed, Clean, [Next]_vars PROVE Clean'
    OBVIOUS
  <1>1. CASE Begin
    BY <1>1 DEF Begin, SaveSetting, SaveSelection, FactoryReset, Clean
  <1>2. CASE Boot \/ Wipe \/ CommitWipe \/ ReadRecord
    BY <1>2 DEF Boot, Wipe, CommitWipe, ReadRecord, Clean
  <1>3. CASE ChooseSlot
    BY <1>3 DEF ChooseSlot, Clean
  <1>4. CASE PutBody \/ PutHead \/ Commit
    BY <1>4 DEF PutBody, PutHead, Commit, Clean
  <1>5. CASE RemoteSave
    <2>1. PICK r \in Records, b \in Bodies :
              /\ ram' = Written(ram, r, b)
              /\ flash' = IF Holds(ram, r, b) THEN flash ELSE Written(ram, r, b)
      BY <1>5, RemoteStep, Zenon
    <2>2. UNCHANGED pc
      BY <1>5 DEF RemoteSave, loopVars
    <2>. QED
      BY <2>1, <2>2 DEF Clean, Written
  <1>6. CASE PowerLoss
    BY <1>6 DEF PowerLoss, Clean
  <1>7. CASE UNCHANGED vars
    BY <1>7 DEF vars, loopVars, Clean
  <1>. QED
    BY <1>1, <1>2, <1>3, <1>4, <1>5, <1>6, <1>7 DEF Next, Step

-----------------------------------------------------------------------------
(* One of the two slots stays whole. *)

(* A save of a record that was there never touches the slot it was in.     *)
Spared == pc \in {"body", "head"} /\ found => Valid(ram[Current.rec][1 - target])

(* What putting the payload and putting the header change in the image.    *)
LEMMA PutStep ==
    ASSUME Typed, PutBody \/ PutHead
    PROVE  /\ Current.rec \in Records /\ target \in Slots
           /\ ram'[Current.rec][1 - target] = ram[Current.rec][1 - target]
           /\ \A x \in Records : x # Current.rec => ram'[x] = ram[x]
           /\ UNCHANGED <<todo, target, Current>>
           /\ UNCHANGED found
  <1>1. Current.rec \in Records /\ target \in Slots /\ ram \in Stores
    BY CurrentTyped DEF Typed, TypeOK, PutBody, PutHead
  <1>2. ram[Current.rec][target] \in Cells /\ draft \in Bodies /\ gen \in Gens
    BY <1>1 DEF Typed, TypeOK, Stores
  <1>3. [ram[Current.rec][target] EXCEPT !.body = draft] \in Cells
        /\ [gen |-> gen, fits |-> {draft}, body |-> ram[Current.rec][target].body] \in Cells
    BY <1>2, CellEdited
  <1>4. UNCHANGED <<todo, target>> /\ UNCHANGED found
    BY DEF PutBody, PutHead
  <1>5. UNCHANGED Current
    BY <1>4 DEF Current
  <1>6. \E c \in Cells : ram' = Put(ram, Current.rec, target, c)
    BY <1>3 DEF PutBody, PutHead
  <1>. QED
    BY <1>1, <1>4, <1>5, <1>6, PutCell

(* What they leave in the slot.                                            *)
LEMMA PutTarget ==
    ASSUME Typed
    PROVE  /\ PutBody =>
                 ram'[Current.rec][target] = [ram[Current.rec][target] EXCEPT !.body = draft]
           /\ PutHead =>
                 ram'[Current.rec][target]
                   = [gen |-> gen, fits |-> {draft}, body |-> ram[Current.rec][target].body]
  <1>. DEFINE b == [ram[Current.rec][target] EXCEPT !.body = draft]
              h == [gen |-> gen, fits |-> {draft}, body |-> ram[Current.rec][target].body]
  <1>1. ASSUME PutBody \/ PutHead
        PROVE  Current.rec \in Records /\ target \in Slots /\ ram \in Stores
    BY <1>1, CurrentTyped DEF Typed, TypeOK, PutBody, PutHead
  <1>2. ASSUME PutBody \/ PutHead PROVE b \in Cells /\ h \in Cells
    <2>1. ram[Current.rec][target] \in Cells /\ draft \in Bodies /\ gen \in Gens
      BY <1>1, <1>2 DEF Typed, TypeOK, Stores
    <2>. QED
      BY <2>1, CellEdited
  <1>3. /\ PutBody => ram' = Put(ram, Current.rec, target, b)
        /\ PutHead => ram' = Put(ram, Current.rec, target, h)
    BY DEF PutBody, PutHead
  <1>. HIDE DEF b, h
  <1>4. PutBody => ram'[Current.rec][target] = b
    BY <1>1, <1>2, <1>3, PutCell
  <1>5. PutHead => ram'[Current.rec][target] = h
    BY <1>1, <1>2, <1>3, PutCell
  <1>. QED
    BY <1>4, <1>5 DEF b, h

LEMMA StepSpared == Typed /\ Spared /\ [Next]_vars => Spared'
  <1>. SUFFICES ASSUME Typed, Spared, [Next]_vars PROVE Spared'
    OBVIOUS
  <1>1. CASE Begin \/ Boot \/ Wipe \/ CommitWipe \/ ReadRecord \/ Commit \/ PowerLoss
    BY <1>1 DEF Begin, SaveSetting, SaveSelection, FactoryReset, Boot, Wipe, CommitWipe,
                ReadRecord, Commit, Proceed, PowerLoss, Spared
  <1>2. CASE ChooseSlot
    <2>1. CASE Proceed
      BY <2>1 DEF Proceed, Spared
    <2>2. CASE ~Proceed
      <3>1. /\ target' = ChosenSlot(ram, Current.rec) /\ found' = Readable(ram, Current.rec)
            /\ UNCHANGED <<ram, todo>>
        BY <1>2, <2>2 DEF ChooseSlot
      <3>2. UNCHANGED Current
        BY <3>1 DEF Current
      <3>3. Readable(ram, Current.rec) => 1 - ChosenSlot(ram, Current.rec) = LatestSlot(ram, Current.rec)
        BY LatestReadable DEF ChosenSlot, Slots
      <3>. QED
        BY <3>1, <3>2, <3>3, LatestReadable DEF Spared
    <2>. QED
      BY <2>1, <2>2
  <1>3. CASE PutBody \/ PutHead
    <2>1. found' /\ pc' \in {"body", "head"} => pc \in {"body", "head"} /\ found
      BY <1>3 DEF PutBody, PutHead
    <2>. QED
      BY <1>3, <2>1, PutStep DEF Spared
  <1>4. CASE RemoteSave
    <2>1. PICK r \in Records, b \in Bodies : ram' = Written(ram, r, b)
      BY <1>4, RemoteStep, Zenon
    <2>2. UNCHANGED <<pc, todo, target>> /\ UNCHANGED found
      BY <1>4 DEF RemoteSave, loopVars
    <2>3. UNCHANGED Current
      BY <2>2 DEF Current
    <2>4. SUFFICES ASSUME pc \in {"body", "head"}, Valid(ram[Current.rec][1 - target])
                   PROVE  Valid(ram'[Current.rec][1 - target])
      BY <2>2, <2>3, Zenon DEF Spared
    <2>5. Current.rec \in Records /\ 1 - target \in Slots /\ ram \in Stores
      BY <2>4, CurrentTyped DEF Typed, TypeOK, Slots
    <2>6. CASE Current.rec = r
      BY <2>1, <2>4, <2>5, <2>6, WrittenValue
    <2>7. CASE Current.rec # r
      BY <2>1, <2>4, <2>5, <2>7, WrittenValue
    <2>. QED
      BY <2>6, <2>7
  <1>5. CASE UNCHANGED vars
    <2>1. UNCHANGED <<pc, todo, target, ram>> /\ UNCHANGED found
      BY <1>5 DEF vars, loopVars
    <2>2. UNCHANGED Current
      BY <2>1 DEF Current
    <2>. QED
      BY <2>1, <2>2, Zenon DEF Spared
  <1>. QED
    BY <1>1, <1>2, <1>3, <1>4, <1>5 DEF Next, Step

LEMMA KeepsReadable ==
    ASSUME Typed, Clean, Spared, [Next]_vars, NEW r \in Records, Readable(ram, r)
    PROVE  \/ Readable(ram', r)
           \/ pc = "wipe" /\ r \in Region
           \/ pc \in {"body", "head"} /\ ~found
           \/ pc' = "off"
  <1>1. CASE Begin \/ CommitWipe \/ ReadRecord \/ ChooseSlot \/ Commit \/ UNCHANGED vars
    <2>1. UNCHANGED ram
      BY <1>1 DEF Begin, SaveSetting, SaveSelection, FactoryReset, CommitWipe, ReadRecord,
                  ChooseSlot, Commit, vars
    <2>. QED
      BY <2>1
  <1>2. CASE Boot
    BY <1>2 DEF Boot, Clean
  <1>3. CASE Wipe
    <2>1. r \notin Region => ram'[r] = ram[r]
      BY <1>3 DEF Wipe, Typed, TypeOK, Stores
    <2>. QED
      BY <1>3, <2>1, Local DEF Wipe
  <1>4. CASE PutBody \/ PutHead
    <2>1. CASE r = Current.rec /\ found
      <3>1. Valid(ram'[r][1 - target]) /\ target \in Slots
        BY <1>4, <2>1, PutStep DEF Spared, PutBody, PutHead
      <3>. QED
        BY <3>1 DEF Readable, Slots
    <2>2. CASE r # Current.rec
      BY <1>4, <2>2, PutStep, Local
    <2>3. CASE ~found
      BY <1>4, <2>3 DEF PutBody, PutHead
    <2>. QED
      BY <2>1, <2>2, <2>3
  <1>5. CASE RemoteSave
    <2>1. PICK x \in Records, b \in Bodies : ram' = Written(ram, x, b)
      BY <1>5, RemoteStep, Zenon
    <2>2. ram \in Stores
      BY DEF Typed, TypeOK
    <2>3. x # r => ram'[r] = ram[r]
      BY <2>1, <2>2, WrittenValue
    <2>4. x = r => Readable(ram', r)
      BY <2>1, <2>2, WrittenValue
    <2>. QED
      BY <2>3, <2>4, Local
  <1>6. CASE PowerLoss
    BY <1>6 DEF PowerLoss
  <1>. QED
    BY <1>1, <1>2, <1>3, <1>4, <1>5, <1>6 DEF Next, Step

-----------------------------------------------------------------------------
(* Boot. *)

(* The loop still has to write the record. *)
Pending(r) == \E i \in 1 .. Len(todo) : todo[i].rec = r

(* Until boot is over, what cannot be read is still to be written.         *)
Booting ==
    /\ pc = "idle" => up
    /\ ~up /\ pc \in {"wipe", "wiped"} => \A r \in Records : Pending(r)
    /\ ~up /\ pc # "off" => \A r \in Records : Pending(r) \/ Readable(ram, r)
    /\ ~up /\ pc = "head" => ram[Current.rec][target].body = draft
    /\ ~up /\ pc = "commit" => Readable(ram, Current.rec)

LEMMA Unchanged ==
    ASSUME UNCHANGED todo
    PROVE  UNCHANGED Current /\ \A r : Pending(r)' <=> Pending(r)
  BY DEF Current, Pending

(* A record the loop is done with is the one it was at. *)
LEMMA ProceedPending ==
    ASSUME Typed, pc \notin {"off", "idle"}, todo' = Tail(todo), NEW r, Pending(r)
    PROVE  r = Current.rec \/ (Len(todo) # 1 /\ Pending(r)')
  <1>1. PICK i \in 1 .. Len(todo) : todo[i].rec = r
    BY DEF Pending
  <1>2. /\ todo \in Seq(Writes) /\ todo # <<>> /\ Len(todo) \in Nat
        /\ Len(todo') = Len(todo) - 1
        /\ \A j \in 1 .. Len(todo') : todo'[j] = todo[j + 1]
    BY CurrentTyped, HeadTailProperties
  <1>3. CASE i = 1
    BY <1>1, <1>2, <1>3 DEF Current
  <1>4. CASE i # 1
    <2>1. i - 1 \in 1 .. Len(todo') /\ todo'[i - 1] = todo[i] /\ Len(todo) # 1
      BY <1>1, <1>2, <1>4
    <2>. QED
      BY <1>1, <2>1 DEF Pending
  <1>. QED
    BY <1>3, <1>4

LEMMA BootPending ==
    /\ todo' = ResetWrites \o BootWrites => \A r \in Records : Pending(r)'
    /\ todo' = BootWrites => \A r \in Records : r = "global" \/ Pending(r)'
  <1>1. ASSUME todo' = ResetWrites \o BootWrites PROVE \A r \in Records : Pending(r)'
    <2>1. Len(todo') = 5
      BY <1>1 DEF ResetWrites, BootWrites
    <2>2. todo'[1].rec = "global" /\ todo'[2].rec = "hotkeys" /\ todo'[3].rec = "mode"
      BY <1>1 DEF ResetWrites, BootWrites, Write
    <2>3. \A i \in {1, 2, 3} : i \in 1 .. Len(todo')
      BY <2>1
    <2>. QED
      BY <2>2, <2>3 DEF Pending, Records
  <1>2. ASSUME todo' = BootWrites PROVE \A r \in Records : r = "global" \/ Pending(r)'
    <2>1. Len(todo') = 2 /\ todo'[1].rec = "hotkeys" /\ todo'[2].rec = "mode"
      BY <1>2 DEF BootWrites, Write
    <2>2. \A i \in {1, 2} : i \in 1 .. Len(todo')
      BY <2>1
    <2>. QED
      BY <2>1, <2>2 DEF Pending, Records
  <1>. QED
    BY <1>1, <1>2

LEMMA StepBooting == Typed /\ Clean /\ Spared /\ Booting /\ [Next]_vars => Booting'
  <1>. SUFFICES ASSUME Typed, Clean, Spared, Booting, [Next]_vars PROVE Booting'
    OBVIOUS
  <1>1. CASE Boot
    <2>1. pc' \in {"read", "wipe"} /\ ram' = flash
      BY <1>1 DEF Boot
    <2>2. \A r \in Records : Pending(r)' \/ (pc' = "read" /\ Readable(ram', r))
      BY <1>1, <2>1, BootPending DEF Boot
    <2>. QED
      BY <2>1, <2>2 DEF Booting
  <1>2. CASE Begin
    <2>1. up /\ UNCHANGED up /\ pc' \in {"read", "wipe"}
      BY <1>2 DEF Begin, SaveSetting, SaveSelection, FactoryReset, Booting
    <2>. QED
      BY <2>1, Zenon DEF Booting
  <1>3. CASE Wipe
    <2>1. pc = "wipe" /\ pc' \in {"wipe", "wiped"} /\ UNCHANGED todo /\ UNCHANGED up
      BY <1>3 DEF Wipe
    <2>. QED
      BY <2>1, Unchanged DEF Booting
  <1>4. CASE CommitWipe \/ ReadRecord
    <2>1. /\ pc \in {"wiped", "read"} /\ pc' \in {"read", "choose"} /\ UNCHANGED <<todo, ram>>
          /\ UNCHANGED up
      BY <1>4 DEF CommitWipe, ReadRecord
    <2>. QED
      BY <2>1, Unchanged DEF Booting
  <1>5. ASSUME Proceed, UNCHANGED ram, pc \in {"choose", "commit"},
               ~up => Readable(ram, Current.rec)
        PROVE  Booting'
    <2>1. /\ todo' = Tail(todo) /\ pc' = IF Len(todo) = 1 THEN "idle" ELSE "read"
          /\ up' = (up \/ Len(todo) = 1)
      BY <1>5 DEF Proceed
    <2>2. ~up' => ~up /\ Len(todo) # 1
      BY <2>1, Zenon
    <2>3. ASSUME ~up', NEW r \in Records PROVE Pending(r)' \/ Readable(ram', r)
      <3>1. Pending(r) \/ Readable(ram, r)
        BY <1>5, <2>2, <2>3 DEF Booting
      <3>. QED
        BY <1>5, <2>1, <2>2, <2>3, <3>1, ProceedPending
    <2>4. pc' = "idle" => up'
      BY <2>1
    <2>. QED
      BY <2>1, <2>3, <2>4 DEF Booting
  <1>6. CASE ChooseSlot
    <2>1. CASE Proceed
      <3>1. Readable(ram, Current.rec) \/ pc' = "body"
        BY <1>6 DEF ChooseSlot, Holds
      <3>2. pc' # "body"
        BY <2>1 DEF Proceed
      <3>. QED
        BY <1>5, <1>6, <2>1, <3>1, <3>2 DEF ChooseSlot
    <2>2. CASE ~Proceed
      <3>1. pc = "choose" /\ pc' = "body" /\ UNCHANGED <<ram, todo>>
        BY <1>6, <2>2 DEF ChooseSlot
      <3>2. UNCHANGED up
        BY <1>6, <2>2 DEF ChooseSlot
      <3>. QED
        BY <3>1, <3>2, Unchanged DEF Booting
    <2>. QED
      BY <2>1, <2>2
  <1>7. CASE PutBody \/ PutHead
    <2>1. /\ Current.rec \in Records /\ target \in Slots
          /\ UNCHANGED <<todo, target, Current, draft>> /\ UNCHANGED up
      BY <1>7, PutStep DEF PutBody, PutHead
    <2>2. ASSUME NEW r \in Records, ~up PROVE Pending(r)' \/ Readable(ram', r)
      <3>1. pc' # "off" /\ pc # "off" /\ pc # "wipe"
        BY <1>7 DEF PutBody, PutHead
      <3>2. Pending(r) \/ Readable(ram, r)
        BY <2>2, <3>1 DEF Booting
      <3>3. Current.rec # r => (Readable(ram', r) <=> Readable(ram, r))
        BY <1>7, <2>2, PutStep, Local
      <3>4. Pending(Current.rec)
        <4>1. todo \in Seq(Writes) /\ todo # <<>>
          BY <3>1, <1>7, CurrentTyped DEF PutBody, PutHead
        <4>. QED
          BY <4>1 DEF Pending, Current
      <3>. QED
        BY <2>1, <3>2, <3>3, <3>4, Unchanged
    <2>3. /\ ram \in Stores /\ draft \in Bodies /\ gen \in Gens
          /\ ram[Current.rec][target] \in Cells
      BY <2>1 DEF Typed, TypeOK, Stores
    <2>4. PutBody => ram'[Current.rec][target].body = draft
      BY <2>3, CellEdited, PutTarget
    <2>5. ASSUME PutHead, ~up PROVE Readable(ram', Current.rec)
      <3>1. ram'[Current.rec][target]
              = [gen |-> gen, fits |-> {draft}, body |-> ram[Current.rec][target].body]
        BY <2>5, PutTarget
      <3>2. ram[Current.rec][target].body = draft
        BY <2>5 DEF PutHead, Booting
      <3>. QED
        <4>1. Valid(ram'[Current.rec][target])
          BY <3>1, <3>2 DEF Valid
        <4>. QED
          BY <2>1, <4>1 DEF Readable
    <2>6. up' <=> up
      BY <2>1, Zenon
    <2>7. CASE PutBody
      <3>1. pc' = "head" /\ ram'[Current'.rec][target'].body = draft'
        BY <2>1, <2>4, <2>7 DEF PutBody
      <3>. QED
        BY <2>2, <2>6, <3>1 DEF Booting
    <2>8. CASE PutHead
      <3>1. pc' = "commit" /\ (~up => Readable(ram', Current'.rec))
        BY <2>1, <2>5, <2>8 DEF PutHead
      <3>. QED
        BY <2>2, <2>6, <3>1 DEF Booting
    <2>. QED
      BY <1>7, <2>7, <2>8
  <1>8. CASE Commit
    <2>1. ~up => Readable(ram, Current.rec)
      BY <1>8 DEF Commit, Booting
    <2>. QED
      BY <1>5, <1>8, <2>1 DEF Commit
  <1>9. CASE RemoteSave
    <2>1. up /\ UNCHANGED up
      BY <1>9 DEF RemoteSave, loopVars
    <2>. QED
      BY <2>1, Zenon DEF Booting
  <1>10. CASE PowerLoss
    BY <1>10 DEF PowerLoss, Booting
  <1>11. CASE UNCHANGED vars
    <2>1. UNCHANGED <<pc, todo, target, draft, ram>> /\ UNCHANGED up
      BY <1>11 DEF vars, loopVars
    <2>. QED
      BY <2>1, Unchanged DEF Booting
  <1>. QED
    BY <1>1, <1>2, <1>3, <1>4, <1>6, <1>7, <1>8, <1>9, <1>10, <1>11 DEF Next, Step

(* The step that ends boot leaves every record readable and committed.     *)
LEMMA EndOfBoot ==
    ASSUME Typed, Clean, Booting, [Next]_vars, ~up, up', NEW r \in Records
    PROVE  Readable(flash', r) /\ flash' = ram'
  <1>1. Proceed /\ (ChooseSlot \/ Commit)
    <2>1. Next
      BY Zenon DEF vars, loopVars
    <2>2. ~Begin /\ ~RemoteSave /\ ~PowerLoss
      BY Zenon DEF Begin, SaveSetting, SaveSelection, FactoryReset, RemoteSave, PowerLoss
    <2>3. Step
      BY <2>1, <2>2, Zenon DEF Next
    <2>4. ~Boot /\ ~Wipe /\ ~CommitWipe /\ ~ReadRecord /\ ~PutBody /\ ~PutHead
      BY Zenon DEF Boot, Wipe, CommitWipe, ReadRecord, PutBody, PutHead
    <2>5. ChooseSlot => Proceed
      BY Zenon DEF ChooseSlot
    <2>6. Commit => Proceed
      BY DEF Commit
    <2>. QED
      BY <2>3, <2>4, <2>5, <2>6, Zenon DEF Step
  <1>2. Len(todo) = 1 /\ todo' = Tail(todo)
    BY <1>1, Zenon DEF Proceed
  <1>3. pc \in {"choose", "commit"} /\ flash' = ram /\ UNCHANGED ram
    BY <1>1 DEF ChooseSlot, Commit, Clean
  <1>4. Readable(ram, Current.rec)
    <2>1. ChooseSlot => Readable(ram, Current.rec)
      BY <1>1 DEF ChooseSlot, Proceed, Holds
    <2>2. Commit => Readable(ram, Current.rec)
      BY DEF Commit, Booting
    <2>. QED
      BY <1>1, <2>1, <2>2
  <1>5. Pending(r) \/ Readable(ram, r)
    BY <1>3 DEF Booting
  <1>6. Readable(ram, r)
    BY <1>2, <1>3, <1>4, <1>5, ProceedPending
  <1>. QED
    BY <1>3, <1>6

-----------------------------------------------------------------------------
(* What the flash may hold. *)

Writing(r) == pc \in {"body", "head", "commit"} /\ Current.rec = r

(* Before boot nothing has come between anything. *)
Rested == pc = "off" => ~up /\ \A r \in Records : ~disturbed[r]

(* Only the record under way may differ between the image and the flash.   *)
Behind(r) == ~Writing(r) /\ ~Wiping(r) => flash[r] = ram[r]

(* The slot that is not being written holds nothing that is older than the *)
(* save, or there was no old record.                                       *)
Other(r) ==
    /\ Valid(ram[r][1 - target]) => ram[r][1 - target].body \in recent[r]
    /\ ~Valid(ram[r][1 - target]) => Defaults \in recent[r]

(* The slot that is being written holds nothing older from the moment its  *)
(* payload is put; before that the other slot is the one that is read.     *)
Half(r) ==
    /\ Other(r)
    /\ pc = "body" => Value(ram, r) \in recent[r] /\ Value(flash, r) \in recent[r]
    /\ pc \in {"head", "commit"} =>
          /\ Valid(ram[r][target]) => ram[r][target].body \in recent[r] \cup {draft}
          /\ Value(flash, r) \in recent[r] \cup {draft}

(* What a save has when nothing comes between: the generation behind that  *)
(* of the old record, and the payload and the header that it has put.      *)
Alone(r) ==
    /\ Valid(ram[r][1 - target]) => gen = Successor(ram[r][1 - target].gen)
    /\ pc \in {"head", "commit"} => ram[r][target].body = draft
    /\ pc = "commit" => ram[r][target] = Cell(gen, draft)

Settled(r) ==
    /\ Writing(r) => Half(r) /\ (~disturbed[r] => Alone(r))
    /\ ~Writing(r) => Value(flash, r) \in recent[r]
    /\ ~Writing(r) /\ ~Wiping(r) => Value(ram, r) \in recent[r]
    /\ Wiping(r) /\ ~disturbed[r] =>
          \A s \in Slots : Place(r, s) < at \/ pc = "wiped" => ram[r][s] = Erased
    /\ Wiping(r) /\ disturbed[r] => recent[r] = Bodies

LEMMA StepRested == Rested /\ [Next]_vars => Rested'
  <1>. SUFFICES ASSUME [Next]_vars, Rested, pc' = "off"
                PROVE  ~up' /\ \A r \in Records : ~disturbed'[r]
    BY DEF Rested
  <1>1. CASE PowerLoss
    BY <1>1 DEF PowerLoss
  <1>2. CASE UNCHANGED vars
    <2>1. UNCHANGED <<pc, disturbed>> /\ (up' <=> up)
      BY <1>2 DEF vars, loopVars, history
    <2>. QED
      BY <2>1 DEF Rested
  <1>3. CASE RemoteSave
    BY <1>3 DEF RemoteSave, loopVars, Rested
  <1>4. pc' # "off" \/ PowerLoss \/ UNCHANGED vars \/ RemoteSave
    BY DEF Next, Begin, Step, SaveSetting, SaveSelection, FactoryReset, Boot, Wipe, CommitWipe,
           ReadRecord, ChooseSlot, PutBody, PutHead, Commit, Proceed
  <1>. QED
    BY <1>1, <1>2, <1>3, <1>4

LEMMA InitSettled == ASSUME Init, NEW r \in Records PROVE Behind(r) /\ Settled(r)
  <1>1. pc = "off" /\ ram = flash /\ recent[r] = {Defaults}
    BY DEF Init
  <1>2. Value(flash, r) = Defaults
    <2>1. CASE flash[r] = [s \in Slots |-> Erased]
      <3>1. ~Readable(flash, r)
        BY <2>1, ErasedCell DEF Readable
      <3>. QED
        BY <3>1 DEF Value
    <2>2. CASE flash[r] = FormerStore(r)
      <3>1. \A s \in Slots : flash[r][s].body = Defaults
        BY <2>2 DEF FormerStore, Cell
      <3>. QED
        BY <3>1, LatestReadable DEF Value
    <2>. QED
      BY <2>1, <2>2 DEF Init
  <1>. QED
    BY <1>1, <1>2 DEF Behind, Settled, Writing, Wiping

(* Behind the payload, a recent record is read or the new one. *)
LEMMA RecentOrNew ==
    ASSUME Typed, NEW r \in Records, Other(r),
           Valid(ram[r][target]) => ram[r][target].body \in recent[r] \cup {draft}
    PROVE  Value(ram, r) \in recent[r] \cup {draft}
  <1>1. target \in Slots
    BY DEF Typed, TypeOK
  <1>2. CASE Readable(ram, r)
    <2>1. /\ LatestSlot(ram, r) \in Slots /\ Valid(ram[r][LatestSlot(ram, r)])
          /\ Value(ram, r) = ram[r][LatestSlot(ram, r)].body
      BY <1>2, LatestReadable DEF Value
    <2>2. LatestSlot(ram, r) = target \/ LatestSlot(ram, r) = 1 - target
      BY <1>1, <2>1 DEF Slots
    <2>. QED
      BY <2>1, <2>2 DEF Other
  <1>3. CASE ~Readable(ram, r)
    <2>1. 1 - target \in Slots
      BY <1>1 DEF Slots
    <2>. QED
      BY <1>3, <2>1 DEF Readable, Value, Other
  <1>. QED
    BY <1>2, <1>3

(* With the header put, and nothing between, the new record is read. *)
LEMMA NewWins ==
    ASSUME Typed, NEW r \in Records, Alone(r), pc = "commit"
    PROVE  Value(ram, r) = draft
  <1>1. target \in Slots /\ gen \in Gens /\ draft \in Bodies /\ ram \in Stores
    BY DEF Typed, TypeOK
  <1>2. /\ Valid(ram[r][target]) /\ ram[r][target].body = draft /\ ram[r][target].gen = gen
    BY <1>1, CellValid DEF Alone
  <1>. QED
    BY <1>1, <1>2, Wins DEF Alone

(* The slots after ChooseSlot. *)
LEMMA OtherChosen ==
    ASSUME Typed, NEW r \in Records, Value(ram, r) \in recent[r],
           target' = ChosenSlot(ram, r), gen' = ChosenGen(ram, r), pc' = "body",
           UNCHANGED <<ram, recent>>
    PROVE  Other(r)' /\ Alone(r)'
  <1>1. CASE Readable(ram, r)
    <2>1. 1 - target' = LatestSlot(ram, r) /\ Valid(ram[r][LatestSlot(ram, r)])
      BY <1>1, LatestReadable DEF ChosenSlot, Slots
    <2>. QED
      BY <1>1, <2>1 DEF Other, Alone, Value, ChosenGen
  <1>2. CASE ~Readable(ram, r)
    BY <1>2 DEF Other, Alone, Value, ChosenSlot, Readable, Slots
  <1>. QED
    BY <1>1, <1>2

LEMMA RestSettled ==
    ASSUME NEW r \in Records, ~Writing(r)', ~Wiping(r)',
           Value(ram', r) \in recent'[r], flash'[r] = ram'[r]
    PROVE  Behind(r)' /\ Settled(r)'
  <1>1. Value(flash', r) = Value(ram', r)
    BY Local
  <1>. QED
    BY <1>1 DEF Behind, Settled

(* A step that leaves a record alone. *)
LEMMA AloneSettled ==
    ASSUME NEW r \in Records, Behind(r), Settled(r),
           ram'[r] = ram[r], flash'[r] = flash[r], recent'[r] = recent[r],
           ~Writing(r), ~Wiping(r), ~Writing(r)', ~Wiping(r)'
    PROVE  Behind(r)' /\ Settled(r)'
  <1>1. Value(flash', r) = Value(flash, r) /\ Value(ram', r) = Value(ram, r)
    BY Local
  <1>2. Value(ram, r) \in recent[r] /\ Value(flash, r) \in recent[r]
    BY DEF Settled
  <1>. QED
    BY <1>1, <1>2 DEF Behind, Settled

Stuck(r) == Behind(r) /\ Settled(r)

LEMMA WipeSettled ==
    ASSUME Typed, Wipe \/ CommitWipe, NEW r \in Records, Stuck(r)
    PROVE  Stuck(r)'
  <1>. USE DEF Stuck
  <1>0. ~Writing(r) /\ ~Writing(r)' /\ UNCHANGED disturbed
    BY DEF Wipe, CommitWipe, Writing, history
  <1>1. CASE r \in Region /\ Wipe
    <2>1. /\ pc = "wipe" /\ at' = at + 1 /\ at \in 0 .. 4 /\ UNCHANGED <<flash, recent>>
          /\ pc' = IF at + 1 = 4 THEN "wiped" ELSE "wipe"
          /\ \A s \in Slots : ram'[r][s] = IF Place(r, s) = at THEN Erased ELSE ram[r][s]
      BY <1>1 DEF Wipe, Typed, TypeOK, history
    <2>2. Wiping(r) /\ Wiping(r)'
      BY <1>1, <2>1 DEF Wiping
    <2>3. \A s \in Slots : Place(r, s) \in 0 .. 3
      BY <1>1 DEF Place, Region, Slots
    <2>4. ~disturbed[r] => \A s \in Slots : Place(r, s) < at' \/ pc' = "wiped" => ram'[r][s] = Erased
      <3>. SUFFICES ASSUME ~disturbed[r], NEW s \in Slots, Place(r, s) < at' \/ pc' = "wiped"
                    PROVE  ram'[r][s] = Erased
        OBVIOUS
      <3>1. Place(r, s) = at \/ Place(r, s) < at
        BY <2>1, <2>3
      <3>. QED
        BY <1>0, <2>1, <2>2, <3>1 DEF Settled
    <2>5. Value(flash', r) = Value(flash, r)
      BY <2>1
    <2>6. disturbed[r] => recent'[r] = Bodies
      BY <2>1, <2>2 DEF Settled
    <2>. QED
      BY <1>0, <2>1, <2>2, <2>4, <2>5, <2>6 DEF Behind, Settled
  <1>2. CASE r \in Region /\ CommitWipe
    <2>1. /\ pc = "wiped" /\ pc' = "read" /\ flash' = ram /\ UNCHANGED ram
          /\ recent'[r] = IF ~disturbed[r] THEN {Defaults} ELSE recent[r]
      BY <1>2 DEF CommitWipe
    <2>2. Wiping(r) /\ ~Wiping(r)'
      BY <1>2, <2>1 DEF Wiping
    <2>3. CASE ~disturbed[r]
      <3>1. ~Readable(ram, r)
        BY <2>1, <2>2, <2>3, ErasedCell DEF Settled, Readable
      <3>2. Value(ram', r) \in recent'[r]
        BY <2>1, <2>3, <3>1 DEF Value
      <3>. QED
        BY <1>0, <2>1, <2>2, <3>2, RestSettled
    <2>4. CASE disturbed[r]
      <3>1. recent'[r] = Bodies
        BY <2>1, <2>2, <2>4 DEF Settled
      <3>2. Value(ram', r) \in recent'[r]
        BY <2>1, <3>1, ValueTyped DEF Typed, TypeOK
      <3>. QED
        BY <1>0, <2>1, <2>2, <3>2, RestSettled
    <2>. QED
      BY <2>3, <2>4
  <1>3. CASE r \notin Region
    <2>1. ~Wiping(r) /\ ~Wiping(r)'
      BY <1>3 DEF Wiping
    <2>2. ram'[r] = ram[r] /\ flash'[r] = flash[r] /\ recent'[r] = recent[r]
      <3>1. Wipe => ram'[r] = ram[r] /\ UNCHANGED <<flash, recent>>
        BY <1>3 DEF Wipe, Typed, TypeOK, Stores, history
      <3>2. CommitWipe => UNCHANGED ram /\ flash'[r] = ram[r] /\ recent'[r] = recent[r]
        BY <1>3 DEF CommitWipe
      <3>. QED
        BY <1>0, <2>1, <3>1, <3>2 DEF Behind
    <2>. QED
      BY <1>0, <2>1, <2>2, AloneSettled
  <1>. QED
    BY <1>1, <1>2, <1>3

LEMMA PutSettled ==
    ASSUME Typed, PutBody \/ PutHead, NEW r \in Records, Stuck(r)
    PROVE  Stuck(r)'
  <1>. USE DEF Stuck
  <1>1. /\ UNCHANGED <<flash, draft, gen, recent, target, Current>> /\ UNCHANGED disturbed
        /\ target \in Slots
        /\ ram'[Current.rec][1 - target] = ram[Current.rec][1 - target]
        /\ \A x \in Records : x # Current.rec => ram'[x] = ram[x]
    BY PutStep DEF PutBody, PutHead, history
  <1>2. ~Wiping(r) /\ ~Wiping(r)'
    BY DEF Wiping, PutBody, PutHead
  <1>3. CASE r # Current.rec
    <2>1. ~Writing(r) /\ ~Writing(r)'
      BY <1>1, <1>3 DEF Writing
    <2>. QED
      BY <1>1, <1>2, <1>3, <2>1, AloneSettled
  <1>4. CASE r = Current.rec
    <2>0. pc \in {"body", "head"} /\ pc' \in {"head", "commit"}
      BY DEF PutBody, PutHead
    <2>1. Writing(r) /\ Writing(r)'
      BY <1>1, <1>4, <2>0 DEF Writing
    <2>2. Half(r) /\ (~disturbed[r] => Alone(r))
      BY <2>1 DEF Settled
    <2>3. Other(r)'
      BY <1>1, <1>4, <2>2 DEF Half, Other
    <2>4. Value(flash', r) = Value(flash, r) /\ Value(flash, r) \in recent[r] \cup {draft}
      BY <1>1, <2>0, <2>2 DEF Half
    <2>5. /\ Valid(ram'[r][target]) => ram'[r][target].body \in recent[r] \cup {draft}
          /\ ~disturbed[r] => Alone(r)'
      <3>0. ram[r][target] \in Cells /\ draft \in Bodies /\ gen \in Gens
        BY <1>1 DEF Typed, TypeOK, Stores
      <3>1. CASE PutBody
        <4>1. pc' = "head" /\ ram'[r][target].body = draft
          BY <1>4, <3>0, <3>1, CellEdited, PutTarget DEF PutBody
        <4>2. ~disturbed[r] => Alone(r)'
          BY <1>1, <1>4, <2>2, <4>1 DEF Alone
        <4>. QED
          BY <4>1, <4>2
      <3>2. CASE PutHead
        <4>1. pc = "head" /\ pc' = "commit"
          BY <3>2 DEF PutHead
        <4>2. ram'[r][target] = [gen |-> gen, fits |-> {draft}, body |-> ram[r][target].body]
          BY <1>4, <3>2, PutTarget
        <4>3. Valid(ram'[r][target]) => ram'[r][target].body = draft
          BY <4>2 DEF Valid
        <4>4. ASSUME Alone(r) PROVE Alone(r)'
          <5>1. ram'[r][target] = Cell(gen, draft) /\ ram'[r][target].body = draft
            BY <4>1, <4>2, <4>4 DEF Alone, Cell
          <5>. QED
            BY <1>1, <1>4, <4>1, <4>4, <5>1 DEF Alone
        <4>. QED
          BY <2>2, <4>3, <4>4
      <3>. QED
        BY <3>1, <3>2
    <2>6. Half(r)'
      BY <1>1, <2>0, <2>3, <2>4, <2>5 DEF Half
    <2>. QED
      BY <1>1, <1>2, <2>1, <2>5, <2>6 DEF Behind, Settled
  <1>. QED
    BY <1>3, <1>4

(* A setting written over WebHID into the record under way. *)
LEMMA RemoteHalf ==
    ASSUME Typed, NEW r \in Records, NEW b \in Bodies, Writing(r), Half(r),
           ram' = Written(ram, r, b), flash' = ram' \/ (flash' = flash /\ ram' = ram),
           recent'[r] = {b} \cup recent[r], UNCHANGED <<pc, draft, target>>
    PROVE  Half(r)'
  <1>0. ram \in Stores /\ target \in Slots /\ 1 - target \in Slots
    BY DEF Typed, TypeOK, Slots
  <1>1. /\ Value(ram', r) = b
        /\ \A s \in Slots : \/ ram'[r][s] = ram[r][s]
                            \/ Valid(ram'[r][s]) /\ ram'[r][s].body = b
    BY <1>0, WrittenValue
  <1>2. Other(r)'
    BY <1>0, <1>1 DEF Half, Other
  <1>3. Value(flash', r) \in {b, Value(flash, r)}
    BY <1>1
  <1>4. pc \in {"head", "commit"} =>
            (Valid(ram'[r][target]) => ram'[r][target].body \in recent'[r] \cup {draft})
    BY <1>0, <1>1 DEF Half
  <1>. QED
    BY <1>1, <1>2, <1>3, <1>4 DEF Half

LEMMA RemoteSettled ==
    ASSUME Typed, RemoteSave, NEW r \in Records, Stuck(r)
    PROVE  Stuck(r)'
  <1>. USE DEF Stuck
  <1>1. PICK x \in Records, b \in Bodies :
              /\ ram' = Written(ram, x, b)
              /\ flash' = IF Holds(ram, x, b) THEN flash ELSE Written(ram, x, b)
              /\ StoredBetween(x, b)
    BY RemoteStep, Zenon
  <1>2. UNCHANGED <<pc, todo, draft, target, gen, at>>
    BY DEF RemoteSave, loopVars
  <1>3. UNCHANGED Current
    BY <1>2 DEF Current
  <1>4. ram \in Stores /\ ram' \in Stores /\ flash' \in Stores
    BY <1>1, WrittenValue DEF Typed, TypeOK
  <1>5. (Writing(r)' <=> Writing(r)) /\ (Wiping(r)' <=> Wiping(r))
    BY <1>2, <1>3 DEF Writing, Wiping
  <1>6. flash' = ram' \/ (flash' = flash /\ ram' = ram)
    BY <1>1 DEF Written
  <1>7. Behind(r)'
    BY <1>5, <1>6 DEF Behind
  <1>8. ~(Writing(r) /\ Wiping(r))
    BY DEF Writing, Wiping
  <1>9. CASE Wiping(r)
    <2>1. recent'[r] = Bodies
      BY <1>1, <1>9 DEF StoredBetween
    <2>2. InUse(r)
      BY <1>9 DEF InUse
    <2>3. disturbed'[r]
      BY <1>1, <1>9, <2>2, Zenon DEF StoredBetween
    <2>4. Value(flash', r) \in Bodies
      BY <1>4, ValueTyped
    <2>. QED
      BY <1>5, <1>7, <1>8, <1>9, <2>1, <2>3, <2>4 DEF Settled
  <1>10. CASE ~Wiping(r) /\ r = x
    <2>1. Value(ram', r) = b
      BY <1>1, <1>4, <1>10, WrittenValue
    <2>2. recent'[r] = {b} \cup (IF InUse(r) THEN recent[r] ELSE {})
      BY <1>1, <1>10 DEF StoredBetween
    <2>3. CASE Writing(r)
      <3>1. InUse(r)
        BY <2>3 DEF Writing, InUse
      <3>2. disturbed'[r]
        BY <1>1, <1>10, <3>1, Zenon DEF StoredBetween
      <3>3. Half(r) /\ recent'[r] = {b} \cup recent[r]
        BY <2>2, <2>3, <3>1 DEF Settled
      <3>4. Half(r)'
        BY <1>1, <1>2, <1>6, <1>10, <2>3, <3>3, RemoteHalf
      <3>. QED
        BY <1>5, <1>7, <1>10, <2>3, <3>2, <3>4 DEF Settled
    <2>4. CASE ~Writing(r)
      <3>1. flash'[r] = ram'[r]
        BY <1>5, <1>7, <1>10, <2>4 DEF Behind
      <3>2. b \in recent'[r]
        BY <2>2
      <3>. QED
        BY <1>5, <1>10, <2>1, <2>4, <3>1, <3>2, RestSettled
    <2>. QED
      BY <2>3, <2>4
  <1>11. CASE ~Wiping(r) /\ r # x
    <2>1. ram'[r] = ram[r]
      BY <1>1, <1>4, <1>11, WrittenValue
    <2>2. Value(ram', r) = Value(ram, r)
      BY <2>1, Local
    <2>3. recent'[r] = recent[r]
      BY <1>1, <1>11 DEF StoredBetween
    <2>4. disturbed'[r] = (disturbed[r] \/ Wiping(r))
      BY <1>1, <1>11, Zenon DEF StoredBetween
    <2>5. ~disturbed'[r] => ~disturbed[r]
      BY <2>4, Zenon
    <2>6. Value(flash', r) \in {Value(flash, r), Value(ram, r)}
      BY <1>6, <2>2
    <2>7. CASE ~Writing(r)
      <3>1. Value(flash, r) \in recent[r] /\ Value(ram, r) \in recent[r]
        BY <1>11, <2>7 DEF Settled
      <3>. QED
        BY <1>5, <1>7, <1>11, <2>2, <2>3, <2>6, <2>7, <3>1 DEF Settled
    <2>8. CASE Writing(r)
      <3>1. Half(r) /\ (~disturbed[r] => Alone(r))
        BY <2>8 DEF Settled
      <3>2. Other(r)' /\ (Alone(r) => Alone(r)')
        BY <1>2, <2>1, <2>3, <3>1 DEF Half, Other, Alone
      <3>3. pc \in {"head", "commit"} => Value(ram, r) \in recent[r] \cup {draft}
        BY <3>1, RecentOrNew DEF Half
      <3>4. Half(r)'
        BY <1>2, <2>1, <2>2, <2>3, <2>6, <3>1, <3>2, <3>3 DEF Half
      <3>. QED
        BY <1>5, <1>7, <1>11, <2>5, <2>8, <3>1, <3>2, <3>4 DEF Settled
    <2>. QED
      BY <2>7, <2>8
  <1>. QED
    BY <1>9, <1>10, <1>11

LEMMA StepSettled ==
    ASSUME Typed, Clean, Rested, [Next]_vars, NEW r \in Records, Stuck(r)
    PROVE  Stuck(r)'
  <1>. USE DEF Stuck
  <1>1. CASE Boot
    <2>1. /\ pc = "off" /\ ram' = flash /\ flash' = flash /\ recent' = recent
          /\ UNCHANGED disturbed /\ pc' \in {"read", "wipe"} /\ at' = 0
      BY <1>1 DEF Boot, history
    <2>2. ~Writing(r) /\ ~Wiping(r) /\ ~Writing(r)' /\ ~disturbed'[r]
      BY <2>1 DEF Writing, Wiping, Rested
    <2>3. Value(flash', r) = Value(flash, r) /\ Value(ram', r) = Value(flash, r)
      BY <2>1
    <2>4. \A s \in Slots : ~(r \in Region /\ Place(r, s) < at')
      BY <2>1 DEF Place, Region, Slots
    <2>5. pc' # "wiped"
      BY <2>1
    <2>6. Settled(r)'
      BY <2>1, <2>2, <2>3, <2>4, <2>5 DEF Settled, Wiping
    <2>. QED
      BY <2>1, <2>6 DEF Behind
  <1>2. CASE Begin
    <2>1. /\ pc = "idle" /\ UNCHANGED <<ram, flash, recent>>
          /\ pc' \in {"read", "wipe"} /\ (pc' = "wipe" => at' = 0)
      BY <1>2 DEF Begin, SaveSetting, SaveSelection, FactoryReset, history
    <2>2. ~Writing(r) /\ ~Wiping(r) /\ ~Writing(r)'
      BY <2>1 DEF Writing, Wiping
    <2>3. \A s \in Slots : ~(pc' = "wipe" /\ r \in Region /\ Place(r, s) < at')
      BY <2>1 DEF Place, Region, Slots
    <2>4. Value(flash', r) = Value(flash, r) /\ Value(ram', r) = Value(ram, r)
      BY <2>1
    <2>5. Wiping(r)' => ~disturbed'[r]
      <3>1. Wiping(r)' => FactoryReset /\ r \in Region
        BY <1>2 DEF Begin, SaveSetting, SaveSelection, Wiping
      <3>2. FactoryReset => disturbed' = [y \in Records |-> y \notin Region /\ disturbed[y]]
        BY DEF FactoryReset
      <3>. QED
        BY <3>1, <3>2, Zenon
    <2>6. Settled(r)'
      BY <2>1, <2>2, <2>3, <2>4, <2>5 DEF Settled, Wiping
    <2>. QED
      BY <2>1, <2>2, <2>6 DEF Behind
  <1>3. CASE Wipe \/ CommitWipe
    BY <1>3, WipeSettled
  <1>4. CASE ReadRecord
    <2>0. /\ pc = "read" /\ pc' = "choose" /\ UNCHANGED <<ram, flash>> /\ flash = ram
          /\ Current.rec \in Records
      BY <1>4, CurrentTyped DEF ReadRecord, Clean
    <2>1. ~Writing(r) /\ ~Wiping(r) /\ ~Writing(r)' /\ ~Wiping(r)'
      BY <2>0 DEF Writing, Wiping
    <2>2. CASE r = Current.rec
      <3>1. recent'[r] = {Value(ram, r)}
        BY <1>4, <2>2 DEF ReadRecord, Typed, TypeOK
      <3>. QED
        BY <2>0, <2>1, <3>1, RestSettled
    <2>3. CASE r # Current.rec
      <3>1. recent'[r] = recent[r]
        BY <1>4, <2>3 DEF ReadRecord, Typed, TypeOK
      <3>. QED
        BY <2>0, <2>1, <3>1, AloneSettled
    <2>. QED
      BY <2>2, <2>3
  <1>5. CASE ChooseSlot
    <2>0. /\ pc = "choose" /\ UNCHANGED <<ram, flash, recent>> /\ UNCHANGED disturbed
          /\ flash = ram
      BY <1>5 DEF ChooseSlot, history, Clean
    <2>1. ~Writing(r) /\ ~Wiping(r) /\ ~Wiping(r)'
      BY <1>5, <2>0 DEF Writing, Wiping, ChooseSlot, Proceed
    <2>2. CASE ~Writing(r)'
      BY <2>0, <2>1, <2>2, AloneSettled
    <2>3. CASE Writing(r)'
      <3>1. ~Proceed
        BY <2>3 DEF Writing, Proceed
      <3>2. /\ target' = ChosenSlot(ram, Current.rec) /\ gen' = ChosenGen(ram, Current.rec)
            /\ pc' = "body" /\ UNCHANGED <<todo, draft>>
        BY <1>5, <3>1 DEF ChooseSlot
      <3>3. r = Current.rec
        BY <2>3, <3>2 DEF Writing, Current
      <3>4. Value(ram, r) \in recent[r] /\ Value(flash, r) \in recent[r]
        BY <2>1 DEF Settled
      <3>5. Other(r)' /\ Alone(r)'
        BY <2>0, <3>2, <3>3, <3>4, OtherChosen
      <3>6. Half(r)'
        BY <2>0, <3>2, <3>4, <3>5 DEF Half
      <3>. QED
        BY <2>0, <2>1, <2>3, <3>5, <3>6 DEF Behind, Settled
    <2>. QED
      BY <2>2, <2>3
  <1>6. CASE PutBody \/ PutHead
    BY <1>6, PutSettled
  <1>7. CASE Commit
    <2>0. /\ pc = "commit" /\ pc' \in {"idle", "read"} /\ UNCHANGED ram /\ flash' = ram
          /\ StoredDraft
      BY <1>7 DEF Commit, Proceed
    <2>1. ~Wiping(r) /\ ~Writing(r)' /\ ~Wiping(r)'
      BY <2>0 DEF Writing, Wiping
    <2>2. CASE r = Current.rec
      <3>1. Writing(r) /\ recent'[r] = {draft} \cup (IF disturbed[r] THEN recent[r] ELSE {})
        BY <2>0, <2>2 DEF Writing, StoredDraft, Typed, TypeOK
      <3>2. Half(r) /\ (~disturbed[r] => Alone(r))
        BY <3>1 DEF Settled
      <3>3. Value(ram, r) \in recent[r] \cup {draft}
        BY <2>0, <3>2, RecentOrNew DEF Half
      <3>4. ~disturbed[r] => Value(ram, r) = draft
        BY <2>0, <3>2, NewWins
      <3>5. Value(ram', r) \in recent'[r]
        BY <2>0, <3>1, <3>3, <3>4
      <3>. QED
        BY <2>0, <2>1, <3>5, RestSettled
    <2>3. CASE r # Current.rec
      <3>1. ~Writing(r) /\ recent'[r] = recent[r] /\ flash'[r] = flash[r]
        BY <2>0, <2>1, <2>3 DEF Writing, Behind, StoredDraft, Typed, TypeOK
      <3>. QED
        BY <2>0, <2>1, <3>1, AloneSettled
    <2>. QED
      BY <2>2, <2>3
  <1>8. CASE RemoteSave
    BY <1>8, RemoteSettled
  <1>9. CASE PowerLoss
    <2>1. ram' = flash' /\ pc' = "off" /\ recent'[r] = {Value(flash', r)}
      BY <1>9 DEF PowerLoss
    <2>2. ~Writing(r)' /\ ~Wiping(r)'
      BY <2>1 DEF Writing, Wiping
    <2>. QED
      BY <2>1, <2>2, RestSettled
  <1>10. CASE UNCHANGED vars
    <2>1. UNCHANGED <<pc, todo, draft, target, gen, at, ram, flash, recent>>
          /\ UNCHANGED disturbed
      BY <1>10 DEF vars, loopVars, history
    <2>2. UNCHANGED Current
      BY <2>1 DEF Current
    <2>3. (Writing(r)' <=> Writing(r)) /\ (Wiping(r)' <=> Wiping(r))
      BY <2>1, <2>2 DEF Writing, Wiping
    <2>4. Value(flash', r) = Value(flash, r) /\ Value(ram', r) = Value(ram, r)
      BY <2>1
    <2>5. (Half(r) => Half(r)') /\ (Alone(r) => Alone(r)')
      BY <2>1, <2>4 DEF Half, Other, Alone
    <2>. QED
      BY <2>1, <2>3, <2>4, <2>5 DEF Behind, Settled
  <1>. QED
    BY <1>1, <1>2, <1>3, <1>4, <1>5, <1>6, <1>7, <1>8, <1>9, <1>10 DEF Next, Step

-----------------------------------------------------------------------------
(* The theorems. *)

Inv == Typed /\ Clean /\ Spared /\ Booting /\ Rested /\ \A r \in Records : Stuck(r)

LEMMA InitInv == Init => Inv
  <1>1. Init => Clean /\ Spared
    BY DEF Init, Clean, Spared
  <1>2. Init => Booting
    BY DEF Init, Booting
  <1>3. Init => Rested
    BY DEF Init, Rested
  <1>. QED
    BY <1>1, <1>2, <1>3, InitTyped, InitSettled DEF Inv, Stuck

LEMMA StepInv == Inv /\ [Next]_vars => Inv'
  BY StepTyped, StepClean, StepSpared, StepBooting, StepRested, StepSettled DEF Inv

LEMMA Safe == Spec => []Inv
  BY InitInv, StepInv, PTL DEF Spec

(* Every variable of the store keeps its type. *)
THEOREM TypeCorrect == Spec => []TypeOK
  <1>1. Inv => TypeOK
    BY DEF Inv, Typed
  <1>. QED
    BY <1>1, Safe, PTL

(* The flash holds what the last save has stored or, from the moment the   *)
(* loop begins to save a record, nothing older than what it held then.     *)
THEOREM SavesLast == Spec => []SavesStick
  <1>1. Inv => SavesStick
    <2>. SUFFICES ASSUME Inv, NEW r \in Records
                  PROVE  \/ Value(flash, r) \in recent[r]
                         \/ pc \in {"head", "commit"} /\ Current.rec = r /\ Value(flash, r) = draft
      BY DEF SavesStick
    <2>1. Settled(r)
      BY DEF Inv, Stuck
    <2>2. CASE Writing(r)
      BY <2>1, <2>2 DEF Settled, Half, Writing
    <2>3. CASE ~Writing(r)
      BY <2>1, <2>3 DEF Settled
    <2>. QED
      BY <2>2, <2>3
  <1>. QED
    BY <1>1, Safe, PTL

(* No save returns with anything left in RAM only. *)
THEOREM AllInFlash == Spec => []NothingLeftInRam
  <1>1. Inv => NothingLeftInRam
    BY DEF Inv, Clean, NothingLeftInRam
  <1>. QED
    BY <1>1, Safe, PTL

(* A record that can be read stays readable. *)
THEOREM NeverLost == Spec => StaysReadable
  <1>1. Inv /\ [Next]_vars =>
          [\A r \in Records : Readable(ram, r) =>
             \/ Readable(ram', r)
             \/ pc = "wipe" /\ r \in Region
             \/ pc \in {"body", "head"} /\ ~found
             \/ pc' = "off"]_vars
    BY KeepsReadable DEF Inv
  <1>. QED
    BY <1>1, Safe, PTL DEF Spec, StaysReadable

(* Boot ends with a store that is readable and in the flash. *)
THEOREM BootsWhole == Spec => BootRepairs
  <1>1. Inv /\ [Next]_vars =>
          [~up /\ up' => \A r \in Records : Readable(flash', r) /\ flash' = ram']_vars
    BY EndOfBoot DEF Inv
  <1>. QED
    BY <1>1, Safe, PTL DEF Spec, BootRepairs
===============================================================================
