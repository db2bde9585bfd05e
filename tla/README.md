# Verification of the Reflex Adapt Classic2USB firmware

Classic2USB connects the controllers of some twenty old consoles to a USB host. It is an RP2040
firmware (`src/firmware`) with two automatic halves: *input detection* finds out which controller
is plugged, *output detection* (the AUTO output) finds out which host the device hangs on and
re-enumerates as the controller that this host expects. This directory holds TLA+ models of the
control logic, TLC configurations that check them on small instances, and proofs checked by TLAPS.

## 1. The system

One core runs one loop (`core/runtime/runtime_loop.cpp`): USB task, input poll and hot swap,
output send, buttons and menu, background work (`auto_detect_process`), pending output (the PS4
signature). The loop is not alone: the vendored TinyUSB port
(`third_party/Adafruit_TinyUSB_Arduino/.../Adafruit_TinyUSB_rp2040.cpp`, `usb_task_irq`) runs
`tud_task()` in a soft interrupt, so every USB callback - a nonce page, a WebHID setting, a host's
report - may come between any two instructions of the loop and itself runs whole, unless the loop
has switched interrupts off, as the flash's programming does. Two things make the firmware hard:

* **re-enumeration by reboot**: a decision is written to watchdog scratch registers, the chip is
  reset, and the next boot must find exactly that decision, once;
* **callbacks in the middle**: a save, a signature or a frame is under way when the host asks.

The models of detection and hot swap (`OutputAutoDetect`, `InputHotSwap`) take a *handler call*
as one step, so there a callback comes between calls only; those of the store, the signature and
the frames (`SettingsStore`, `Ps4Auth`, `ControllerFrames`) take the loop apart into the steps
between which a callback makes a difference.

| component | state it keeps | operations | interacts with |
|---|---|---|---|
| Output host detection (`output/autodetect`) | `host_detection` record, start time, quiet period, probe stage, attach retry, the function static `fully_initialized` | request handlers, `usb_host_detection_task`, `auto_detect_process` | USB stack (callbacks), scratch registers, `reboot()` |
| Output runtime state (`output/output_runtime_state.cpp`) | `outputMode`, `configuredOutputMode`, `autoDetectState`, the two host preferences, scratch registers 2, 3, 6 | persist, load and clear of a resolved mode, preserve for an input reboot, boot restore | everything that reboots |
| Input detection and hot swap (`input/autodetect`, `input/runtime`) | detected mode, last good mode, latches and grace timers, scratch registers 4, 5 | cycle, hot-swap check, live apply, boot restore | output runtime state (preserve), input drivers |
| Settings store (`core/settings_store*`, `core/eeprom_helper.h`) | each record twice, with generation and CRC, in a RAM image of one flash sector | read, save, reset, repair at boot, commit | menu, serial (loop), WebHID (interrupt), power |
| Buttons, menu, display (`platform`, `menu`) | press times, suppression flags, menu position | tap, hold, release, save | settings, reboot |
| WebHID and serial (`output/usb/webhid`, `core/runtime/runtime_serial_debug.cpp`) | pending command, staged settings | set, save, select output, reboot | settings, output runtime state |
| Authentication (`output/auth`) | PS4 nonce, answer buffer, page counter, state; key slots in flash | challenge pages (interrupt), signing (loop), response pages (interrupt), key import | USB stack, flash |
| Frames and delivery (`core/controller_*`, `core/runtime/runtime_loop.cpp`) | frame and pre-remap buttons of each port, a delivery request, endpoints | poll and transform, prepare, send when the endpoint is free, restore | drivers, menus, outputs |
| Turbo, hotkeys, remap, sticks (`core`) | buttons tracked and latched, active hotkeys, previous poll, calibration | per-frame transforms | frames, menus |
| Output personalities (`output/<name>`) | descriptors, endpoint state | descriptor and report callbacks | USB stack |
| Input drivers (`input/<name>`) | bus state | setup, poll | hardware |
| Tools and web page (`tools`, `web`) | none in the device | talk WebHID and serial | device |

### What is hard, and what makes each part correct

* **Output detection.** Hosts' signatures overlap (Linux asks a DS3 the same reports as a PS3,
  Windows asks the OS string of anything), come in any order, are spread over several boots and
  race four deadlines. Correct: the verdict rests on what *this* host asked, the ladder of probes
  ends, a device on a charger stays up, every host that keeps coming back gets a personality.
* **Hand-off.** Scratch registers survive every reset. Correct: read by exactly one boot, never
  half of two decisions, never stronger than a selection made by hand.
* **Shared fate of input and output.** Input hot swap reboots for its own reasons. Correct: the
  output verdict survives it and is not forged by it.
* **Preferences.** The personality that AUTO runs depends on preferences that may change at any
  time by four ways (menu, WebHID, serial, specialised PSX controllers).
* **Input hot swap.** Misses, grace periods and latches decide whether a controller is gone; four
  variables (mode in use, saved mode, stored mode, driver) are set by different rules in menu,
  buttons, WebHID, serial, detection and boot. Correct: a controller in use and present is never
  dropped, a selection by hand is never overruled, one family gives way to another only by way of
  home, AUTO always finds what is plugged.
* **Settings.** The loop saves in steps, the USB interrupt saves between them into the same
  image, every commit programs the whole sector, and power may fail in any of it. Correct: what a
  save stored is there after the next boot, a readable record stays readable, boot repairs the rest.
* **PS4 challenge.** The console writes a nonce while the loop may still hash the one before, and
  resets or restarts at will. Correct: a challenge posed in peace gets its own signature, whole and
  in order; nothing is offered that is a mixture; nobody waits for a signature nobody makes.
* **Frames.** The same buttons are transformed at the poll and again before sending; the endpoint
  may be busy, a menu may open in between. Correct: transforms start from the pad, no change is
  lost, presses that work a menu stay in the device, a release arrives.

`PROJECT.json` lists every component with its status and every hazard at its line.

## 2. The modules

| module | models | theorems |
|---|---|---|
| `OutputModes` | output personalities, build sanitising, host preferences (`output_mode.h`, `output_runtime_state.cpp`) | |
| `HostDetection` | the detector's record, what a request does to it, ranking of flags (`usb_detect_runtime.cpp`) | `HostDetection_proofs` |
| `OutputAutoDetect` | boot, hand-off, time, the bus, detection, input reboots, people; composes the two above | `OutputAutoDetect_proofs` (types), `OutputAutoDetectSafety_proofs`, `OutputAutoDetectEvidence_proofs` |
| `OutputAutoDetectProps` | properties, the refinement mapping, refuted claims | |
| `HostVerdict` | abstract specification: at most one extra probe, then one opinion, kept until something intervenes | |
| `MCOutputAutoDetect` | request sets and selections for TLC | |
| `InputSession` | abstract specification: a session finds a family from home, leaves it for home, and lasts until somebody ends it | |
| `InputHotSwap` | the input side: detected, saved and stored mode, drivers, scans, misses and grace, latches, hand-off, what people and the output side do to them | `InputHotSwap_proofs` |
| `InputHotSwapProps` | its properties, the refinement mapping and refuted claims | |
| `MCInputHotSwap` | families for TLC, one for each set of branches | |
| `ChallengeResponse` | abstract specification: each challenge is told the pages of its own answer, in order | |
| `Ps4Auth`, `Ps4AuthProps` | the class `PS4Auth` with its two actors and the console (`output/auth/ps4_auth.cpp`); the refinement mapping | `Ps4Auth_proofs` |
| `SettingsStore`, `SettingsStoreProps` | records in two slots, saves in steps, interrupts, power failures (`core/eeprom_helper.h`, `core/settings_store_*.cpp`) | `SettingsStore_proofs` |
| `ControllerFrames`, `ControllerFramesProps` | from the poll to the report: hotkeys, remap, turbo, delivery, menus (`core/runtime/runtime_loop.cpp`, `core/controller_runtime_*.cpp`, `core/turbo.cpp`) | `ControllerFrames_proofs` |
| `MCPs4Auth`, `MCSettingsStore`, `MCControllerFrames` | instances for TLC | |

### From code to model

* `host_detection` (bit fields) is a record of three sets. A HID, vendor or string request is one
  action `HostAsks(req)`; the callback chain from TinyUSB to `usb_detect_handle_*` is its body.
  Requests outside the list leave no trace in the detector and are not modelled.
* `auto_detect_process` is one action, `AutoDetectProcess`: time stamp, attach retry of the USB
  pull-up, `usb_host_detection_task`, then one of four outcomes (`Conclude`). Debug registers,
  display strings and counters are left out.
* `reboot()` never returns: it is `phase' = "resetting"` with the registers that the caller wrote.
  `Boot` is the whole of `setup()` as far as the output is concerned: it reads the registers, lets
  input setup promote the personality, and clears them.
* Time stamps are modelled by their age. An age stops growing at the largest delay it is compared
  with, so the state is finite for any run length. The 2^32 ms wrap of `millis()` is not
  modelled.
* What people do is one action per entry point: reset tap, reset hold, input cycle, menu save,
  output selection over WebHID or serial (with and without reboot), host preference. The menu
  runs inside the loop and returns early, so `auto_detect_process` does not run while it is open;
  an open menu is a loop that passes later.
* `HotSwapCheck` is the gate of the input side and everything it may do to the output: promote or
  restore a PSX personality, re-enumerate with or without preserving what AUTO knows.
* External, modelled from how the code uses them: `tud_connected` becomes true with the first
  SETUP packet, `tud_mounted` with SET_CONFIGURATION, both are cleared by a bus reset; a watchdog
  reset keeps scratch, a loss of power clears it.

### `InputHotSwap`

* `ram` is everything a reset loses: `deviceMode`, `savedDeviceMode`, `isAutoDetectMode`, the
  driver that was set up last, and the statics of the hot swap (`input_hotswap_*`,
  `autoInputResolvedGraceUntil`, `noDataHost*`). `persisted` is the mode in flash, `scratch` the
  mode in watchdog registers 4 and 5. `phase` says what the loop does or why the chip is being
  reset; `gate` is what output detection lets the input do.
* A mode stands for all modes of one driver, so the driver is named by its mode. What kind of
  family it is (`QuickFamily`, `ConfirmFamily`, `JoybusFamily`, `AssistedFamily`, `LatchFamily`,
  `SlotFamily`, `NsoFamily`) is a constant: the theorems hold for any number of families of any
  kinds.
* `CheckAutoDetectHotSwap` is one pass of the function of that name with every call it makes. A
  helper that may reset the chip is an operator over the memory so far (`Adopt`, `GoHome`,
  `Search`): it ends in `Settle` (the handler returns) or `Reset` (it does not).
* A scan is modelled by its results: an active protocol finds the controller that is plugged; an
  assisted one is found while its button is held, at any time; an empty connector may look like a
  pad that its driver must confirm. The output side may grant or refuse a re-enumeration, since
  that depends on state of `OutputAutoDetect`.
* `PollInput` reports presence later than it changes. An assisted driver reports presence for
  ever.
* Timers are ages or times left, capped at the delay they are compared with.
* Left out: mixed mode (a compile-time constant disables it), the passive scratch pair that
  nothing reads, the debounce of a player count (one step, `PlayerCountChanged`), menu navigation
  (a save is one action), the benchmark's own trace, `shouldDeferInitialAutoDetectUntilHomeVisible`
  (it only delays a pass), and the recovery of `createActiveInputAdapter`
  (`input_adapter_factory.cpp:288-298`): a stored mode that the build has no driver for becomes
  AUTO, and a mode of the model is one that has a driver.

`OutputAutoDetect` also has `CycleInputMode`, for an entry point of the code that nothing calls
in the shipped build; it adds behaviours and hides none. It has no part in the finding of section 5:
the run `no_host` has no acts of people. Nothing calls
`auto_detect_preserve_current_runtime_mode_for_input_reboot` (`output_autodetect_runtime.cpp:190`)
either, and it is not modelled. `SelectOutput` stands for both ways in which WebHID selects an
output: in place (`webhid_settings_reports.cpp:184-192`) and with a reboot (446-472).

### `Ps4Auth`

* A page of the nonce holds the number of the challenge it came from; only a whole challenge
  hashes to what the console accepts, so a signature is `Signature(nonce)` and a mixture is seen
  as one. `buffer` holds the pages with signature bytes; the certificate behind them is the same in
  every answer.
* The callbacks `receiveNoncePage`, `getAuthPage`, `getSigningState`, `getResetConfig` are one step
  each, taken by the console's actions. `process()` is taken apart: it clears the request
  (`StartSigning`; the test and the clearing are one step, since a whole challenge does not fit
  between two instructions), hashes page by page, pads, signs or fails, and completes (page
  counter, then state; one step, see the comment there).
* The console is an environment that may write a page again, lose an answer, reset, or drop a
  challenge for the next one at any moment. It takes zeros for no answer.
* `keySigns` is whether the engine takes the stored key at all; the key is loaded when USB begins
  and does not change. A report with a wrong CRC leaves no trace and is not modelled.

### `SettingsStore`

* Three records stand for all: the global one, one input mode's, and the hotkeys, which lie behind
  the region that a factory reset wipes. A slot has a generation, the payloads that its header's
  CRC fits, and a payload; a header and a payload of different saves do not fit.
* `ram` is the EEPROM library's image, `flash` the sector. The loop's steps are those of
  `writePersistedRecordAB`: read (by the caller), choose slot and generation, put the payload, put
  the header, commit. A save over WebHID is one step between them. `SaveSelection` writes two
  records, one after the other; `FactoryReset` wipes slot by slot, commits, and writes the defaults.
* `PowerLoss` may come anywhere; while the sector is programmed it leaves any prefix of the new
  image (`Programmed`). `Boot` reads the flash and repairs: a global record that cannot be read
  means a factory reset, the others get defaults.
* The cyclic comparison of generations is modelled with its width (`Generations`, 2^16 in the
  code), so that the wrap is checked and proved.
* Left out: what the settings mean and how they are sanitised, old layouts (their migration, and
  the fallback of a per-mode record that cannot be read to one of the old layout,
  `settings_store_per_mode_quick.cpp:121-146`: the store of the model never had another layout),
  and the records behind the hotkeys, which follow the same pattern.

### `ControllerFrames`

* One pass of `runMainRuntimeLoop` is: `Poll` or `NoPoll`, `Prepare` or `NoPrepare`, `Send` for
  each port, `Restore` if the frames were prepared, `Ui`, `Background`. A `Poll` is the adapter's
  poll and the whole of `processPolledInputFrame`; a failed read leaves a port as it was.
* A setup (`Setups`) says what is connected and how it is configured; it never changes. Adapters
  differ in one thing: some ask for delivery on every poll of a connected pad (PSX), the others
  when something has changed.
* `Drawn` is the transformation of one port's buttons, used at the poll and again before sending.
* Left out: chords, the merge of two classic controllers, sticks, triggers and mouse, grouped and
  keyboard outputs, outputs that report without being asked (PS3, PS4 keepalive) and the direct
  way of the Neo Geo adapter; the cached `runtimeFeatureMask` (`controller_runtime_core.cpp:37`),
  since a setup never changes; and the early return of `send_usb_report` while output detection
  runs (`output_usb_send_runtime.h:440-449`), since the model is of a boot whose output is known.
  A free endpoint accepts what is submitted; the XInput output does not look at whether it did.

Left out of the model of the output components, because the shipped flags do not compile it: native
PS5 output, USB authentication sidecar, late Xbox 360 promotion, Wii U detection. Other console
outputs that can be selected by hand (Pokken, Wii U adapter, MD Mini, ...) go through the same
code as `SWITCHPRO` and are represented by it; JogCon, neGcon and GunCon descriptors are one name
`MISTER_PSX`.

## 3. The runs

Delays keep the order of the code's (quiet period < non-Wii U < attach retry < grace = assist <
no mount < no mount after retry) and are otherwise as short as possible: 1, 2, 3, 4, 4, 5, 6
ticks. Only their order and the ties matter to the code, since every comparison is of one age
with one delay; the proofs do not need these values.

| run | bounds | checks |
|---|---|---|
| `hosts` | 3 of 9 requests per boot, 1 disturbance | `TypeOK`, `VerdictHasEvidence`, `ProbeLadderEnds`, `StandaloneKeepsRunning`, `ProbeRunsOut` |
| `people` | 3 selections, 2x2 preferences, 1 of 2 requests, 2 disturbances | `HandOffReadOnce`, `PersonalityFitsVerdict`, `ManualSelectionWins`, `OnlyPeopleForget`, `KeepsOneVerdict` |
| `liveness` | 3 selections, 2 disturbances, fairness | `HostGetsResolved` |
| `no_host` | nobody acts (`LeftAloneSpec`), else as small as shows it | `FallbackNeedsHost`, refuted, see section 5 |
| `hotswap` | 5 families, 3 changes of the connector, 3 acts | `TypeOK`, `HandOffOnlyForReenumeration`, `StoredSelectionStopsHotSwap`, `HomeListens`, `KeepsSession` (refinement of `InputSession`), `PresentIsKept`, `LostComesHome`, `SoughtIsFound` |
| `hotswap_remote` | 3 families, 2 changes, 3 acts, with the remote commands | `DriverFitsMode` |
| `hotswap_liveness` | 3 families, 2 changes, 1 act, fairness | `AutoFindsController`, `UnpluggedGoesHome` |
| `hotswap_latch` | as small as shows it | `RestartReturnsToAuto`, refuted, see section 5 |
| `settings` | 2 settings of 2 values, 4 generations, 2 saves, 2 WebHID settings, 1 power failure | `TypeOK`, `SavesStick`, `NothingLeftInRam`, `StaysReadable`, `BootRepairs` |
| `ps4_signing` | 3 nonce pages, 2 of 4 answer pages with signature, 2 identifiers, 3 challenges, fairness | `TypeOK`, `PageInBuffer`, `SigningIsUnderWay`, `OfferIsWhole`, `AnswersChallenge`, `WaitHasWork`, `WaitShrinks`, `WaitEnds` |
| `frames` | 1 port, 2 buttons, 4 setups, fairness | `TypeOK`, `StartsFromPhysical`, `HostIsCurrent`, `MenuIsSilent`, `ReleaseArrives` |
| `frames_feedback` | 1 port, 1 setup | `StartsFromPhysical`, refuted, see section 5 |

A *disturbance* is a bus reset, an act of a person, a controller change that reboots, or a power
cycle. Two of them are enough to change a selection or a preference and come back, or to
interrupt the reboot that another one caused; three requests are enough for every signature (two
at most) plus one that interferes. The request list has one request for each kind of trace in the
detector; `MCOutputAutoDetect` says which request each omitted one resembles. Preference 2
(keyboard) takes the same branches as 1 as far as the output's life cycle goes. The proofs cover
all requests and all preferences.

In the input model the delays are 1 < 2 < 3 < 4 (the order of 250 ms, 1 s, the grace of most
families and 5 s; only the Wii grace equals the last) and the
full scan is due on every second miss. The five families differ in the branches they take
(`MCInputHotSwap` names the real families behind each). Three changes of the connector are enough
to take a controller out, put another in and take that out again; three acts are enough to store
a selection, return, and reset in between. The runs with `CHECK_DEADLOCK FALSE` may stop: once
the bounds on changes and acts are used up, a device with a selection by hand has nothing to do.

The remote commands `stage` (WebHID setting 13) and `redetect` (serial ADBENCH AUTO) set one of
the mode variables of a running device and leave the others. With them `HomeListens`,
`StoredSelectionStopsHotSwap` and `KeepsSession` do not hold; `PROJECT.json` lists this
under hazards, since no text promises otherwise. So these properties are checked without them,
and `hotswap_remote` checks what holds with them.

In `settings` one setting is saved by the loop and the other one over WebHID, so that a lost update
is seen; two saves and two interruptions are enough for two saves to meet in a slot and for the
next one to rely on what they left; four generations are the fewest in which the comparison goes
around the circle with room on both sides, and the store starts just below the wrap. One power
failure, since boot after it is the same as boot after the next. In `ps4_signing` three challenges
let a signature of the first end while the second is written and the third answered; three nonce
pages have a first, a last and one between; the answer has pages with and without signature. The
ports of `frames` share nothing but turbo's phase and the loop's decision to prepare; one port was
enough for every mutant, and the safety properties of two ports are covered by the proofs.
Of the four setups one is a Switch Pro output (`HostReport` fires only there): its transforms
start from the pad and a release arrives, but its reports may go out unprepared, so that it is
excepted from the other two properties; `PROJECT.json` lists this under hazards.

**Fairness.** Weak fairness of the passes of the loop (`AutoDetectProcess`), of booting and of
time. The code justifies it: the loop never blocks for ever, a reboot always boots, the clock
runs. It does assume that a person who opened the menu leaves it. Nothing is assumed of the host,
which may stop asking, never configure the device, or reset the bus; `HostGetsResolved` only has
the premise that a host connects again and again.

On the input side the fair actions are `Boot`, `CheckAutoDetectHotSwap`, `PollInput` and `Tick`:
the loop polls and checks in every pass. Nothing is assumed of people, of the connector or of the
output side; the two liveness properties have the premise that the connector stays as it is and
that output detection releases the loop, and exclude assisted families, which report themselves
for ever.

In `Ps4Auth` the loop runs `process()` in every pass and a console that waits goes on polling;
nothing makes it pose, read or reset. In `ControllerFrames` the loop goes round (weak fairness), a
poll falls due and reads each pad, and each turbo interval passes, again and again whatever else
happens (strong fairness, since in between the step is not enabled), and the host collects a
report that waits for it. `ReleaseArrives` has the premise that the pad has been let go for good.
`SettingsStore` states no liveness: its loop may stop anywhere by a loss of power.

## 4. The proofs

Assumptions: `DelayAssumption` (the order of the delays above, any values) and `BoundAssumption`
(which sets the inputs are taken from, any sizes). TLC evaluates both in every run.

1. `TypeCorrect` — each action keeps the five groups of typed variables. The detector's answer is
   typed through `TaskType`, which rests on `ResolveFlagsIsBest` (the `CHOOSE` of the resolver has
   a witness for every non-empty set of flags).
2. `HandOffIsReadOnce` — inductive on top of types; `HandedResolved` and `HandedPreserved` say
   what the two writers leave in the registers when they start from cleared ones.
3. `DetectorIsNotSpent` — not inductive alone: after an answer the device might "settle in place"
   and go on with a spent detector. The strengthening `ProbePersonality` (while AUTO probes, the
   device runs MiSTer, MiSTer PSX or PS3) excludes it, because no answer names those; it also
   shows that the in-place branch of `Settle` is unreachable in the shipped build. `ProbesRunOut`
   builds on it and is the safety half of `HostGetsResolved`: `WaitLeft` adds up the clocks of a
   probe and the second quiet period that the trace of a Switch takes. Only a new signal raises
   it; while the host stays and sends none, a tick lowers it, or a pass does where a pass is due,
   and once nothing is left (`Decidable`) the next pass ends the probe. It needs that a PS3 flag
   leaves a trace (`FlagLeavesTrace`), so that taking the flag back under Linux does not open the
   wait of a Switch. With `LadderEnds`, at most two probes run. What is left to fairness is
   that passes and ticks come, and to the host that it falls silent.
4. `StandaloneRuns` — the strengthening `HostPresence` ties connection, flags and the assist
   stage, in memory and in scratch, to a host that was there since power came on.
5. `LadderEnds` — the strengthening `Ladder` counts the reboots left in each state, across the
   reset.
6. `ManualWins` and `PersonalityFits` — inductive on top of 2. `PreservedFits` and
   `PsxPeripheralFits` carry the two delicate cases: a preserved verdict under changed preferences
   and the live promotion of a DInput personality.
7. `VerdictIsJustified` — needs `Heard`, a relation between the detector's record and the set of
   requests it was told of, in both directions: a flag is backed by its request, and a console
   request is never forgotten, so that a Windows answer (lowest rank) excludes it.
8. `OnlyPeopleForgetHosts` and `ImplementsHostVerdict` — from lemmas that say what each kind of
   step does to the verdict (`KnownBoot`, `KnownProcess`, ...); the refinement maps registers and
   runtime state to one opinion.

9. `InputHotSwap_proofs` — nine theorems for any families, delays and bounds
   (`FamilyAssumption`, `DelayAssumption`, `BoundAssumption`). One lemma per helper says what it
   does to a memory that satisfies `Good`, and one per handler combines them. The invariant `Inv`
   is types, the hand-off, `Good(ram)` and "stored selection stops the hot swap". `Good` says
   that the driver fits (`Fits`) and, if no mode can be staged, `Listens`: *the hot swap is on
   exactly when the saved mode is AUTO, a device that shows AUTO has it on, and a resolved
   session is not marked as reverted*. Staging breaks the first part and with it the rest, so
   `HomeAlwaysListens` assumes that it is not used, `StoredSelectionWins` that `redetect` is not,
   `ImplementsSession`, `PresentControllerStays` and the two below that neither is. The second needs
   `HandedOn` besides: what AUTO found is in the registers between a re-enumeration and its boot.
   `ImplementsSession` proves the refinement of `InputSession` action by action: a boot starts a
   session, or goes on with the one in the registers (`BootKeepsSession`), a pass of the hot swap
   finds, leaves or stays (`CheckKeepsSession`, from `Step`, which says what a pass hands on), and
   what people and the output side do are its interventions, of which a released reset button is
   the restart. The mapping reads the family in use from memory while the device runs, and from
   the registers or the store while it re-enumerates.
   `LostIsOnItsWay` and `SoughtIsOnItsWay` are the safety halves of the two liveness properties,
   without bounds on delays, families and misses. For a session whose controller is gone,
   `TillHome` adds up the grace period, the wait of a device without a host and the disconnect
   delay; for a session at home, `TillFound` orders what is still to be noticed, the quick misses
   until the full scan, and the time to the next scan lexicographically, since a miss starts the
   time again. While nobody acts, no step of the loop raises either, and the step that is due
   lowers it or ends the wait: at home, or with the controller that is plugged. What is left to
   fairness is that the step that is due is taken.

10. `Ps4Auth_proofs` — `PagesInRange`, `NeverForgotten` and `OneSignature` are inductive with
   little help. `Answers` is not: that a page told belongs to the current challenge needs that the
   nonce is whole when it is hashed, that the hash has read it before it changes, and that the
   console's progress, the set of pages received and the place of the loop fit together. The
   invariant says this for a challenge that found the loop idle (`calm`): it is *arriving* or has
   *arrived*, and in the latter case what is asked for, hashed, signed, offered and told is this
   challenge's. The refinement maps `told` to the console's answer of such a challenge.
   `WaitIsServed` and `WaitIsBounded` are the safety half of `WaitEnds`, for any number of pages
   and challenges: with a key that signs, a console that waits finds an answer or a loop that owes
   it steps (invariant `Heard`: the page that completed the nonce, or the request it made, is
   still there), and `Owed`, a natural number, falls at every step of a wait. What they leave to
   fairness is that the loop keeps running.
11. `SettingsStore_proofs` — for any settings, values, bounds and any number of generations above
   two. `NextIsNewer` shows that a successor is newer on the circle, `Wins` that a slot written
   with it is the latest one, `WrittenValue` what an uninterrupted save leaves. The invariants say
   when the image differs from the flash (`Clean`), that a record's other slot is not touched by
   the save under way (`Spared`), what boot has repaired so far (`Booting`), and for every record
   what the flash and the image hold at each step (`Behind`, `Settled`). The loop's save may be
   disturbed between any two of its steps and any number of times, even so often that generations
   go round the circle: then the slot that is read cannot be told, but each slot that can be read
   holds something no older than the save (`Other`, `Half`), except the slot chosen to be
   overwritten, which is not the one that is read. `Alone` says what holds besides when nothing
   comes between, from which the new record wins.
12. `ControllerFrames_proofs` — for any number of ports, any buttons and setups. `TypeCorrect`
   holds of all. `FromPhysical` assumes `Restored` (each setup's adapter asks on every poll, or
   nothing is set up), which the finding `frames_feedback` shows to be needed, and so does
   `NoChangeLost`, whose invariant (`Current`, on top of `Physical`) says for each step of the loop
   what a port that owes no report has sent. A pulled pad and an open menu need no such
   assumption: `HiddenIsNeutral` proves of all setups that what was sent is neutral then, from the
   invariant that a pad that is gone leaves no button in any frame (`Gone`). `HostIsCurrent` and `MenuIsSilent` except the Switch
   Pro output, whose host asks for a delivery from the interrupt; this is the premise of the
   invariant `Silent`, that nothing asks between the loop's test and the sending.

Only model-checked: `HostGetsResolved`, `AutoFindsController`, `UnpluggedGoesHome`, `WaitEnds`,
`ReleaseArrives` (liveness under fairness, out of the prover's reach) and the refuted claims. Of
`AutoFindsController`, `UnpluggedGoesHome` and `WaitEnds` all but the fairness is proved; of
`HostGetsResolved` this is proved for a host that stays connected and falls silent, while a host
that comes and goes, or talks up to the bound of the run, is left to TLC. `DetectorNotSpent`,
which `ProbeRunsOut` rests on, is proved and is a property of no run.

## 5. Findings

Three statements of comments and documents do not hold of the code; each has a run that shows it
(`PROJECT.json`, `findings`):

* on a device that is left alone without a host, the window without a data host releases input
  detection; when the controller it finds makes it re-enumerate, the hand-off stores the fallback
  as a verdict, and the host that comes later is never looked at (`no_host`);
* an assisted mode that detection latched becomes a stored selection when an output is selected
  over WebHID, so that no restart returns to AUTO (`hotswap_latch`);
* with an adapter that asks only on a change, transforms feed back into themselves: each poll
  without a change remaps the buttons that the poll before has remapped (`frames_feedback`).

Four more readings of the text came up while modelling and are not runs. A host attached after the
no-mount window is sent to the assist probe before the generic one could characterise it, and the
assist deadline may fire inside the quiet period of a console signal
(`output_autodetect_runtime.cpp:430-487`, against the comments at 28-30 and 481-483). A PSX
controller plugged live takes a Windows DInput device to the MiSTer PSX personality
(`output_capabilities.h:387`, against `output_boot_runtime.cpp:163-166`). A latched assisted mode is
not handed on when output detection re-enumerates (`output_autodetect_runtime.cpp:167`, against
`Classic2USB-Input-Reference.md:286`). The models have all four behaviours, and the properties are
stated and proved with them.

## 6. Not modelled, and what would come next

* **Composition of input and output hand-off.** Each side sees the other as a free choice
  (`HotSwapCheck` there, `gate` and `MayReenumerate` here), which has more behaviours than the
  composition; what is proved of each side holds of both together. A composed module could state
  what relates them: that a re-enumeration loses neither decision.
* **Callbacks inside detection.** `usb_host_detection_task` and `auto_detect_process` are one step;
  a callback between their instructions (a time stamp older than the signal it is compared with,
  a flag lost in a bit field) is listed as a hazard.
* **Key storage and import.** Two slots for each key in one sector, chunks written over WebHID from
  the interrupt, an import from a drive run by the loop; an import interrupted by the other way
  could store a mixture, and the fingerprint of the last import processed outlives a key that was
  cleared since.
* **Buttons and menus.** The state machine of the button handlers (tap, hold, release) and menu
  navigation. It keeps one event (`button_handler_shared.cpp:55`), so that a scan that blocks the
  loop can lose one of two; the models take the events as the loop gets them.
* **Delivery's other ways.** Grouped and keyboard outputs, the PS3 and PS4 clocks, the Neo Geo
  adapter, the wireless receiver's slots, and three small things that the model shows or leaves
  out: a turbo tap that falls into an off phase is never seen by the host, a latched turbo button
  held while a menu closes toggles again, and the XInput output takes a refused report for sent.
* **Turbo and remap under change.** A setting changed while frames flow resets turbo's tracking.
* **Stick processing, calibration, chords, Konami code.** Functions of a frame or a frame sequence.
* **Serial and WebHID parsers.** Text in, calls out; the calls that matter are actions of the models.
* **Input protocol drivers, output descriptors and reports, drawing, tools and web pages.** Bit-level
  timing against hardware, data, or programs that run elsewhere. They are most of the source's lines.
* **Not compiled into the shipped build:** native PS5 output, the relay to a USB authentication
  dongle (`ps_auth_dongle_runtime.cpp`), the experimental Xbox One output, Wii U detection.
* **The wrap of `millis()`** after 49.7 days.

Liveness, and what recursive definitions compute, are out of the prover's reach and stay with TLC.
