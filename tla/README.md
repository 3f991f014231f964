# hohd, modelled and proved in TLA+

hohd takes a Bluetooth LE controller from bluetoothd and keeps replacing one
fake device with the next.  This directory holds TLA+ modules translated from
its Go source, TLC configurations that check them on small instances, and
proofs that TLAPS checks for every value of the constants.  Paths below are
relative to the root of the repository.

## The system

| Component | State | Operations | Talks to |
|---|---|---|---|
| Rotation loop, `internal/engine/engine.go` (`Run`, `cycle`) | point of the loop, ok/fail counters, ticker | one iteration: learn, pause or cycle, report, dwell | commands the controller through `hci.Conn`; reads the switches; reports to the dashboard |
| `LearnControl`, `learn.go` | requested, learning, weights, devices, summary | Request, takeRequest, setResult, setSummary, setDevices, snapshots | key thread (Request), loop (the rest), draw thread (reads) |
| Live switches, `apple.go`, `trackers.go`, `broadcast.go` | one atomic each | Cycle/Toggle by compare-and-swap, read | key thread writes, loop and draw thread read |
| `RateControl`, `rate.go` | dwell in ms, clamped | Adjust, Duration | key thread, loop |
| `DebugControl`, `debuglog.go` | open file or nil, path | Enable, Disable, Toggle, Write | key thread, loop's logger |
| Takeover and restore, `internal/hci/hci_linux.go` (`New`, `Close`), `mgmt.go` | user channel, control socket, retry counter | power down with retries, bind, reset; disable, release, power up | kernel mgmt interface, bluetoothd, signals |
| HCI transport, `hci_linux.go` (`sendCommand`, `Scan`) | reply queue of the user channel | one command and its answer; the scan's read loop | controller |
| Codec, `commands.go` | none | packet encoding and parsing | transport |
| Calibration, `engine.Calibrate`, `internal/tune/tune.go` | probes, counters | probe each candidate, Recommend | controller; `calibrateDense`, `runBenchmark` |
| Payloads, `internal/decoy`; parser and score, `internal/verify` | none | build, parse, score | loop, learn mode, hoh-verify |
| Dashboard, `internal/dashboard` | model (table, scroll, mirrors), carried key bytes, terminal mode | keys, draw, snapshot | controls, loop (Reporter), terminal |
| `cmd/hohd`, `cmd/hoh-verify` | context, deferred calls | lifecycle | all of the above |
| Configuration, `internal/config` | none | Parse, Validate | main |

Threads of hohd in dashboard mode: the loop, the key thread, the draw thread,
and the runtime's signal delivery.  The controller, the kernel and bluetoothd
run beside them.  What makes the code hard:

* **partial failure** of a sequence of controller commands, any of which may be
  refused, or obeyed without its confirmation ever being read;
* **staleness**: the loop reads the switches once per cycle, and the commands of
  the cycle take time;
* **ordering** of the deferred calls against signals, and of a late power
  change against the next one;
* **shutdown** from every point, the 15-second learn scan included;
* **boundaries**: zero cycles, no clean probe, 16-bit intervals, clamps.

`PROJECT.json` lists each hazard at its line, with the properties that cover it
or the reason why none does yet.

### What makes each component correct

* *Loop*: the address and the payload on the air are one decoy's; nothing is
  edited on the air; a control takes effect within one cycle; the rate is not
  invented; pause silences; rotation goes on; shutdown completes.
* *Learn*: one request, at least one scan after it; weights and table from the
  same scan; a failed scan discards nothing, and does not spoil the next for good.
* *Takeover*: the adapter is never shared, is handed back, and is reported
  restored only when it is; nothing blocks on a hung controller.
* *Calibration*: each candidate is tried; the recommendation is the lowest
  clean interval, or else the lowest failure rate.
* *Transport*: late, lost and refused answers do not put a mixed identity on
  the air or report one that is not there.
* *Rate and debug controls*: an identity is never shorter on the air than one
  advertising interval; no log line and no log file is lost; the dashboard shows
  what is.
* *Payloads*: at most 31 bytes, parsed back to what was built, and nothing that
  hoh-verify would flag.
* *Dashboard*: keys do what they do however the terminal splits their bytes;
  the mirrors catch up with the controls; the scroll offset stays in range.

## Modules

### Engine: the rotation loop and its threads

`Engine.tla` models `engine.Run` with `pc` as the point of the loop.  Every
point at which another thread or the controller can matter is a step; the
actions' names follow the code:

| Actions | Code |
|---|---|
| `SetAdvParams` | `SetAdvParams` and its early return |
| `Top`, `LearnOff` | `ctx.Err()`, `takeRequest`, `setLearning(true)`, the ignored disable |
| `ScanClear`, `ScanParams`, `ScanOn`, `Listen`, `ScanOff` | `hci.Conn.Scan`: best-effort clear, parameters, enable, read loop, deferred disable |
| `LearnResult`, `SetDevices`, `LearnEnd` | the two outcomes of a scan; `setResult` and `setDevices` are separate critical sections |
| `CheckPause`, `PauseOff` | the pause switch |
| `ReadApple`, `ReadRest` | the reads that make `decoy.Options` |
| `CycleOff`, `CycleAddr`, `CycleData`, `CycleOn` | `cycle`, each with its early return |
| `Report`, `WaitCancelled`, `WaitElapsed`, `DeferredOff` | the ticker's select, the dwell's select, the deferred disable |
| `Cancel`, `KeyPause`, `KeyApple`, `KeyTrackers`, `KeyLearn` | a signal or `q`, the dashboard's keys |

`Answers` is the controller: a command is obeyed and confirmed, obeyed with the
confirmation lost, or refused; an illegal command (an address change while
advertising, scan parameters while scanning) is never obeyed.  A payload is
named by the address it was minted with.  Three history variables (`aired`,
`staleMints`, `unserved`) only serve the properties.  Two adjacent critical
sections are one step where nobody can act on the difference: `takeRequest`
with `setLearning(true)` (the draw thread only displays it), and the reads of
`ReadRest`, of which only the tracker switch has another writer.

`DecoyRadio.tla` is the promise: one decoy on the air at a time, whole, and
silence between two.  `Radio == INSTANCE DecoyRadio` maps what the controller
holds to it (silent, the decoy, or, when address and payload differ, nothing
DecoyRadio knows), and `AiredByRadio` says that Engine implements it.

### Takeover and AdapterLease

`Takeover.tla` models `hci.New`, the body of `run` in `cmd/hohd/main.go` and its
deferred calls, with the kernel's mgmt interface and bluetoothd as a separate
actor (`Kernel`, external: modelled from how the code uses it).  A Set Powered
is answered Busy while another is under way; others complete later and queue
their reply; the program matches replies by opcode, on and off alike.
`CatchesSignals` FALSE makes it hoh-verify.

`AdapterLease.tla` is the promise: the adapter is lent at most once, never left
with nobody, and comes back once recalled.  `Lease == INSTANCE AdapterLease`
maps Takeover to it, and `LeaseKept` says that Takeover implements it.

### Calibrate

`Calibrate.tla` models `engine.Calibrate` and both loops of `tune.Recommend`,
with the cut by a signal and the difference between `calibrateDense`, which
looks at `ctx` afterwards, and `runBenchmark`, which does not.  A decoy cycle
is reduced to its possible outcomes (`CycleEnds`), those of Engine's cycle:
confirmed and advertising, or failed with the controller in either state.

### HciTransport

Engine takes the answer of a command from `Answers`; `HciTransport.tla` opens
that box for the commands of a cycle, a pause and a learn scan.

| Actions | Code |
|---|---|
| `Cycle`, `Pause`, `Learn` | `Run` begins a cycle, the disable of a paused iteration, or the learn branch with its disable |
| `Write`, `WriteFails` | `sendCommand`'s write |
| `Match`, `Skip` | `parseCommandComplete`: an answer to the opcode awaited, or another event |
| `Timeout`, `Deadline` | `SO_RCVTIMEO` without an event; the deadline of the read loop |
| `Listen`, `ListenEnds` | `Scan`'s read loop, which drops what is no advertising report, late answers too; the end of its window, or a failed read |
| `Goes` | what `cycle` and `Scan` do with the outcome: they ignore the disables' and the clearing's, and return on any other error |
| `Execute` (external) | the controller takes the next command, obeys or refuses it, answers or not |

A Command Complete carries the opcode and nothing else, so an answer that comes
after its command timed out is taken for the next command's with that opcode;
enable and disable share one, of advertising and of the scan.  `doubt` records
that this happened to a command of the decoy (address, payload, enable) or of the
scan (parameters, enable); `OnAirCoherent` and `ReportedIsOnAir` hold without the
first, `ListenedIsScanning` without the second, and `OneLateHarmless` says what it takes: two commands unanswered before the
queue was empty again.  Then it does happen: an address change that was refused
can be reported as accepted, by the answer to an earlier one, and the next
payload is put on the air under the old address.  The comment at
`engine.go:197-198`, which relies on the refusal, holds with that exception.

### LiveControls

`LiveControls.tla` has the two controls that are not the loop's own business,
under the three threads that use them.

| Actions | Code |
|---|---|
| `KeyRate`, `MirrorRate` | `RateControl.Adjust`, `Model.SetRate` |
| `KeyDebug`, `Swap`, `CloseLog`, `Forget`, `OpenLog`, `OpenFails`, `Store` | `Toggle`'s check, `Disable` and `Enable` one access at a time |
| `ReadPath`, `MirrorKey` | the rest of `D`: `SetDebug(Toggle(), Path())` |
| `SetAdvParams` | `Run`'s conversions, and `advIntervalUnits` of `commands.go` |
| `LoadLog`, `WriteLog`, `Dwell` | `debugWriter.Write` without a lock; the dwell |
| `DrawOn`, `DrawPath`, `DrawSet` | the draw thread's `SetDebug(Enabled(), Path())` |

A run begins with the flags `config.Validate` admits, or with what a dense
calibration derives from them, and with the log open or not.  A log file is a
number, the path that of the file it names.

### Payload and Learn

`Payload.tla` has the builders of `internal/decoy` as sets of byte sequences,
one for each random choice, and `ParseAdvData` of `internal/verify`: its loop
over the payload (`Structures`), and what its switch takes from the structures.
Offsets, lengths and identifiers are the code's; names are
letters, and random bytes are from `Noise`.

`Learn.tla` follows a scan into the next decoy: `Hear` and `Heard` (the
scan), `Weigh` and `Weighed` (`learnWeights`), `Build` and `Built`
(`buildLearnedDevices`), `Mint` (`BuildWithOpts`).  The two loops take one
report a step; a report stands for `count` equal ones in a row.  `Boost` writes
the rounded square root in integers: b is `math.Round(2 * math.Sqrt(n))` iff
(2b-1)^2 <= 16n < (2b+1)^2.

### Dashboard

`Dashboard.tla` models the key thread and the draw thread of
`internal/dashboard`, and `runLoop` of `cmd/hohd` which starts and joins them.

| Actions | Code |
|---|---|
| `KeyLoop`, `Read`, `ReadTimeout`, `Handled` | `readKeys`: a read of any part of what was typed, behind the carried bytes; the deadline and `forceInput`; the carry |
| `Ignore`, `Scroll`, `ScrollToEnd`, `CycleFocus`, `ToggleHelp`, `Quit` | `applyCSI` and `handleSingle` on what `parseEsc` found |
| `Flip`, `MirrorFlip` | a switch flipped, then mirrored: two critical sections |
| `Start`, `MirrorLearned`, `ReadSwitch`, `WriteMirror`, `SetScrollBounds`, `Snapshot`, `DrawTick`, `DrawEnds` | `Run` and its `draw`: each control is read under its own lock and written under the model's |
| `EngineEnds`, `Join` | `runLoop`: cancel, then wait for the dashboard |
| `NewVendor`, `Learned`, `Signal`, `Type` | `Model.Decoy`, `setDevices`, a signal, the user |

The byte sequences of the keys share letters with single keys (an arrow ends in
`a`), so a sequence cut in the wrong place becomes another key, as in the code.
The theme keys are left out, and the rate and debug keys are in LiveControls:
they go through the same dispatch.

## Runs

| Run | Question | Instance |
|---|---|---|
| `engine` | Is what is on the air coherent, a DecoyRadio, and what the controls say, and does the loop end, serve l, fall silent when paused, rotate otherwise and learn again after a failed scan? | 2 addresses, 1 mix, all four keys at any time, all failures, 1 cycle between ticks |
| `live_controls` | Do identities dwell long enough, is the log kept, and does the dashboard settle on what is? | 7 intervals at the edges of the conversions and of the controller's range, 4 dwells, 2 calibrated intervals times 2 multipliers, 3 keys |
| `calibrate` | Does a dense calibration recommend what is documented? | 3 candidates out of order, up to 3 cycles each, a controller that may or may not take parameters while it advertises |
| `calibrate_each` | Is each candidate probed? **No** | 3 candidates, a strict controller that fails nothing legal |
| `takeover_lease` | Does the takeover implement the lease with a prompt kernel and signals under the handler? | 2 signals, during the loop and before `stop` |
| `takeover_faults` | Is the adapter never shared, never falsely reported restored, and does nothing block? | all failures, late answers, a kernel that may hang, 2 signals at any point |
| `takeover_early_signal` | Is the adapter handed back when a signal arrives during `New`? **No** | 1 signal |
| `takeover_slow_off` | ... when the power-off outlasts the timeout? **No** | no signal |
| `transport` | Is what is on the air, reported and listened to right when answers are late, lost, refused or another command's? How long does a dead controller stall a cycle or a scan? | 2 decoys, 2 learn scans, any pauses between them, every order of delays |
| `learn` | Do weights, table and summary follow what was heard, and is every decoy they lead to well formed and harmless? | 2 beacons of 6 kinds, 2 addresses, 2 signals, once or 20 times; 5 table entries |
| `dashboard_keys` | Is each key understood and served however its bytes are split, and the terminal restored at the end? | 2 keys of 7, every split and pause |
| `dashboard_frames` | Do frames show the offsets the keys move and the controls as they are? | 2 keys of 4, 3 rows, 2 window heights |

The runs in bold are disagreements between the code and its own documentation;
`PROJECT.json` quotes the line of each under `findings`.

Smaller ones met while modelling, which have no run of their own:

* `engine.go:190-192` bounds the stall of a wedged controller "to a single read
  timeout".  It is two: the ignored disable waits for one of its own.  For a
  learn scan it is three (`StallBounded`).
* The warning of `engine.go:67-71`, that decoys rotate before transmitting, is
  never true: the dwell is clamped to `AdvMs` (`DwellVisible`).  The dashboard's
  header shows the `--rotate-ms` asked for until a rate key is pressed, and a dense
  dwell above 2000 ms is cut to that.  hoh-verify takes its rate floor from the
  flag as well: when `--rotate-ms` is below half of `--adv-ms`, no crowd passes.
* `--adv-ms` has no upper bound.  From 10211 on the controller refuses the
  maximum and hohd ends; from 40960 on the units wrap in 16 bits, and 40980 is
  accepted as 20 ms.  `IntervalAsAsked` is about what fits.
* A frame may show the log on without its path, or off with one, since `Enabled`
  and `Path` are read apart; the next one is right (`ShownSettles`).
* The ticker drops ticks while the loop dwells for longer than a second, or scans:
  a rate "per second" then counts more than one.
* A second signal during the deferred `Close` ends hohd before the restore:
  `stop` is deferred after `Close` and so runs first, and gives the signals
  their default action back (`Takeover` with `SignalPoints` at the close).
* hoh-verify installs no handler at all: interrupted, it leaves the controller
  powered down.  `CatchesSignals` FALSE is that program; no run has it, but the
  theorems without `Prompt` hold for either value.
* `hohd --benchmark` cut by a signal may recommend an interval that was never
  cycled: a probe without cycles has no failures (`Dense` FALSE).  `--dense`
  looks at its context first, and `Sustained` holds.
* The "~17% of decoys" of `learn.go:168-171` is the share of one table entry.
  Samsung has three: heard alone it gets 30 of 76.  `CrowdDiverse` states the
  bound that holds.
* The comments of `buildLearnedDevices` (`learn.go:107-109` and `120-121`) say that the
  strongest sighting of each address is kept, and that a later one only fills in a
  name or company that was missing.  The code keeps the latest, filled in from the
  earlier ones, and only its RSSI is the strongest: Samsung heard at -60 and then Swift
  at -80 from one address is listed as Swift at -60.  `NothingForgotten` states what
  the comments and the code agree on (a name and a company that the device gave,
  every service kept) and leaves open which of two names it is.
* `buildLearnedDevices` keeps Tile and Fast Pair of an earlier sighting, but not
  Find My, although the parser finds it.
* `commands.go:39` documents an RSSI of 0x7F as unavailable; the table sorts it
  as the closest device.
* `terminal_linux.go:101-104` counts on a read deadline.  `SetReadDeadline`'s
  error is ignored, and os.Stdin supports deadlines only when it was opened
  non-blocking: otherwise a lone ESC is carried until the next byte, and the
  thread sees the cancellation only then.  The model lets every read time out
  or not; the properties hold either way.
* When a read does time out inside a sequence, the rest of it is taken for
  single keys when it arrives: an arrow becomes `a`, and switches the Apple mode.
  This is the exception (`gapped`) of `KeysUnderstood`.
* `input.go:89` says that ISIG is off; `enableRaw` leaves it on, and Ctrl-C is a
  signal.  `render.go:289` offers q to leave the help; it quits.

### Bounds, and why they suffice

* Two addresses are the least that can differ between the register and the
  payload; `OnAirCoherent` compares only those two, and the addresses are
  symmetric.  One mix against "nothing learned" is enough to see weights and
  devices of different scans.
* `MaxPerTick` is a bound of the real loop, not only of the model: a cycle of
  the paced loop dwells at least `AdvMs` >= 20 ms, so a tick is due after
  finitely many cycles.  The run has 1, which is enough for a counter carried over
  to the next report; `HonestRate` is proved for every value.
* Keys of the `engine` run are unlimited in number and order.
* `live_controls`: 20 ms is the least `Validate` admits, 10210 and 10211 are on
  either side of the controller's maximum, 40958 is the last interval that fits 16
  bits, and 40980 wraps to a legal one; the dwells are below, at and above both
  clamps.  Three keys are the least that toggle the log off, on and off again, and
  that mix with a rate key in any place.
* Three candidates show first, middle and last in any order of intervals; three
  cycles give the failure rates 0, 1/3, 1/2, 2/3 and 1, ties included.
* Two signals: the first is caught, the second may meet the restored default
  action.  `Attempts` is the code's own 6.
* `transport`: the doubt needs an answer of an earlier cycle or scan, so two of
  each, in any order and with any pauses between them.  `MaxLag` limits what is
  queued when a pause or a scan begins, since a paused loop adds to the queue of a
  dead controller without end; each cycle may add its two unanswered commands to
  that, and each scan its three.
* `learn`: a vendor's weights need its count alone, and 20 adverts go past the
  cap, which cuts from 19 on.  Two reports are the least that can be merged, in both orders.  The
  air has a beacon of each kind that is treated differently, a truncated one
  and a Find My message behind another; `Noise` is the one byte with a meaning
  in an Apple payload, 18, so that it comes wherever a random byte can.  The
  names fill the payload exactly (26), are one too long (27), and leave room for
  the manufacturer data exactly (19) or amply (11); those of the shipped table have
  at most 12 letters and reach no edge.  One decoy is
  minted: none depends on another.  The table has a company twice, as the code's
  has.
* `dashboard_keys`: two keys, whose sequences may share a read, or be cut at any
  byte, with a deadline in any gap.  No rows: where the keys scroll does not
  matter for which key was understood.
* `dashboard_frames`: `TableRows` gives at least 2; three rows against heights 2
  and 3 make the bound come and go.  One switch, Apple mode, is mirrored: it
  has three values, so an old one differs from the next flip's, and the
  switches have nothing in common but the thread.
* `CHECK_DEADLOCK FALSE` stands in the configurations of Calibrate, Takeover,
  Dashboard, HciTransport and Learn: these end, or come to the end of what they
  are given.  The loop's environment never stops.

### Fairness, and what justifies it

* `WF_vars(Step)`: the Go scheduler runs the loop, its timers fire, and every
  read has a receive timeout (`SO_RCVTIMEO`), so each command is answered or
  given up.  Nothing is assumed about keys, signals, the ticker or the controller.
* `Obeys` is an assumption of `PauseSilences` and `RotationContinues` alone: a
  controller that is asked again and again does not refuse for ever.  A
  controller that does is wedged, and no software could rotate it.  `LearnObeys`
  is the same for the steps of a scan, in `ScanRecovers` alone.
* Takeover: the program runs; its loop need not end by itself, but ends once
  cancelled, which is Engine's `ShutdownCompletes`.  The kernel finishes what
  it started in `takeover_lease` only; `takeover_faults` lets it hang.
* HciTransport: the program writes and reads, a read times out, and the scan's
  window ends.  Nothing is assumed of the controller.
* LiveControls: the key thread finishes what a key began, and the draw thread
  draws.  Nobody presses keys, and the loop may stop.
* Dashboard: the three threads run.  `SF_vars(Read)`: a read that can return
  bytes is not beaten by its deadline for ever.  `SF_vars(DrawEnds)`: Go picks
  at random between two ready cases of a select, so `ctx.Done` is taken sooner
  or later.  `WF_vars(EngineEnds /\ cancelled)` is Engine's
  `ShutdownCompletes`.  No read is sure to time out, and nobody types.

## Proofs

Each `*Proofs.tla` extends its module and proves an inductive invariant `IInv`
(`Init => IInv`, `IInv /\ [Next]_vars => IInv'`), from which the theorems follow
by PTL.  They hold for every value of the constants, under the named
assumptions the modules declare and nothing else.

* **EngineProofs**: `TypeCorrect`, `Coherent` (`OnAirCoherent`), `Radiates`
  (`AiredByRadio`: every step of Engine is one of DecoyRadio or a stutter),
  `OneStaleMint` (`AtMostOneStaleMint`), `HonestRate`
  (`RateHonest`), `TogetherLearned` (`LearnedTogether`).  `OnAirCoherent` alone
  is not inductive: between the address and the payload command the two differ,
  and nothing in it says that advertising is off then.  The invariant adds what
  the loop knows at each point: past a confirmed address change the controller
  is silent, because it would have refused otherwise.  This is the argument of
  `cycle`'s comment about its best-effort disable, and it is what the proof
  checks.  For `AtMostOneStaleMint` the strengthening says that a stale mint
  counted means the loop has yet to re-read the controls.
* **CalibrateProofs**: `TypeCorrect`, `ChoosesLowestClean` (`LowestClean`, for
  every sequence of candidates), `ChoosesLowestRate` (`LowestRate`),
  `DenseSustained` (`Sustained`, when `Dense`).  The second loop compares rates as
  products, so its invariant is kept only because that order is transitive
  (`RatesTransitive`), which is arithmetic the solver is led through by hand.
* **TakeoverProofs**: `TypeCorrect`, `ExclusiveAlways` (`Exclusive`),
  `RestoredTrue` (`RestoredIsTrue`), for any number of signals at any points.
  The strengthening follows the one command the kernel has not answered or the
  one answer the program has not read (`Unread`): as long as `New` has not
  failed there is never a second, so matching by opcode alone is sound.  After
  a failed `New` it is not, which `takeover_slow_off` shows.  With a prompt kernel
  and signals under the handler (`Prompt`), `LeaseImplemented` proves the safety
  half of `LeaseKept`, that every step is one of AdapterLease or a stutter, and
  `HandedBackWhenPrompt` that the adapter is back on every way out: the two
  runs that refute `HandedBack` need an early signal or a slow kernel.
* **HciTransportProofs**: `TypeCorrect`, `OneDecoyOnAir` (`OnAirCoherent`),
  `ReportedDecoyOnAir` (`ReportedIsOnAir`), `ScanIsOn` (`ListenedIsScanning`),
  `StallsAreBounded` (`StallBounded`) and the action property `OneLateIsHarmless`
  (`OneLateHarmless`), for any number of decoys and scans and any lag.  Nothing
  in the code numbers the answers; the strengthening does.  An answer not yet read
  belongs to a command written earlier, and the decoy's address is on its way at
  most once, so without doubt a payload or an enable is executed behind a
  confirmed address, when the controller is silent (`DecoySteps`), and a scan
  listens behind its own enable (`ScanSteps`).  `OneOlder` counts: with one command
  late since the queue was last empty, at most one older command is before the
  current one, and it is a best-effort one or of another opcode.
* **LearnProofs**: `TypeCorrect`, `TableIsClosestFirst` (`ClosestFirst`),
  `TableForgetsNothing` (`NothingForgotten`), `SummaryIsHonest` (`SummaryHonest`),
  `DecoysParseAsClaimed` (`AiredParses`), `DecoysAreHarmless` (`AiredHarmless`) and
  `CrowdStaysDiverse` (`CrowdDiverse`), for any air, any scan, any random bytes and
  any vendor table that keeps clear of Apple, Microsoft and the trackers, as
  `vendors.go` says it must (`VendorsAssumption`).  The invariant says of the table
  under construction what the properties say of the finished one, for the reports
  gone through (`SumsUp`), of the weights that they are those of the counts
  (`WeightsOK`), and of the last decoy that it reads as it should (`AiredOK`); that a
  boost is positive exactly for a positive count is arithmetic on the rounded root.
  For the crowd: a vendor is drawn by the numbers between two running sums
  (`Slices`), so vendors of one weight are drawn by that many numbers each
  (`DrawsOfMany`), and a company's share is largest when all others are at the floor
  (`Share`).
* **PayloadProofs** has the lemmas about the builders and the parser that those
  theorems need.  The parser's loops and the running sums are recursive functions;
  each only looks further on, so it exists and satisfies its equation
  (`StructuresUnrolled`, `MsgTypeUnrolled`, `TotalsUnrolled`), by induction over a set
  of numbers (`SetInduction`, from the library's well-founded minimum).  Then the
  parser reads a structure in front of others (`ReadsFirst`), and so gives back the
  list that was written.  Each builder writes one of a few shapes, whose readings the
  lemmas `VendorDecoy`, `AppleDecoy`, `TileDecoy` and `FastPairDecoy` compare with what the
  decoy claims.  An Apple body is harmless because its first message is not Find My
  and covers all that follows (`OneMessage`).
* **DashboardProofs**: `TypeCorrect`, `ScrollsAsDrawn` (`ScrollMatches`),
  `FramesAreFresh` (`FrameFresh`), `TerminalGivenBack` (`TerminalRestored`) and
  `KeysAreUnderstood` (`KeysUnderstood`), for any keys, rows, heights and
  switches.  `ScrollMatches` needs that no table gets shorter while a frame is put
  together (`Scrolled`): SetLearned comes before SetScrollBounds in `draw`.  `KeysInv`
  says that what the key thread holds, carries and has not read is whole keys
  (`Keyed`, with the boundaries between them), and that the operations owed are
  theirs.  `ItemIsKey` is the argument about the parser: no key begins with `[`, and
  no arrow has a final byte before its last, so what parseEsc makes of a whole
  key's bytes is that key, and of the beginning of one, nothing yet.  `NoRest` is the
  one about the flush: an unfinished sequence with nothing behind it was the
  escape key.
* **LiveControlsProofs**: `TypeCorrect`, `AdvertisesAsAsked` (`IntervalAsAsked`),
  `SeenBeforeRotated` (`DwellVisible`), `LogIsKept` (`LogKept`), for every flag
  `Validate` admits, every calibration and any number of keys.  The strengthening
  says what the key thread knows of the log at each of its points, and that a
  line under way either has the writer's file or was overtaken by `D`.  Below
  40960 ms the maximum, 30 ms more, may still wrap; the proof uses that the
  controller has refused the minimum by then.

Only model-checked:

* every liveness property, and the fairness half of `LeaseKept`: liveness under
  fairness and ENABLED are outside the prover's reach;
* `HandedBack` and `HandedBackOnFailure` without `Prompt`, and `EachProbed`: the
  runs refute them.

## Not modelled, and assumptions

* The bytes of HCI and mgmt packets (those of the payloads are in `Payload`),
  wording, colours and layout.
* Themes, the name and mode of the debug log's file, the parsing of flags; the
  ranges `Validate` admits are the assumptions on the constants.
* The controller's rules are those the code's comments state: no address change
  and no advertising parameters while advertising, no scan parameters while
  scanning.  A controller that also refuses an address change while it scans,
  as the Bluetooth specification allows, would keep refusing the cycles after a scan
  that was left running, until the next learn.
* A panic's unwinding: the deferred calls run as on a return.
* The adapter is powered and bluetoothd has it when hohd starts.
* A write to a socket that fails is a refused or failed command.
* Memory, file and terminal errors outside the components above.

`PROJECT.json` says of each component what of it is left out.

## Plan

In order of importance; each adds its runs, mutants and proofs.

Done: Engine with DecoyRadio, Calibrate, Takeover with AdapterLease, HciTransport
with the learn scan, LiveControls, Payload and Learn, Dashboard, and the proofs of
all of them: every invariant and every action property that a run checks and none
refutes is a theorem.  Left:

1. `Analyze`'s rate floor, the one piece of logic that could still be modelled; it
   is arithmetic on two numbers that the user types.
2. Calibration and the loop in one module, as `run` runs them one after the other
   on one connection when dense is asked for: what a probe leaves in the reply queue
   is what the first cycle finds there.
