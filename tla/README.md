# Surface Laptop 7: a TLA+ model of the maintenance archive

The repository keeps a Surface Laptop 7 (Romulus13) usable under Linux: a kernel driver for its
HID-over-SPI touchpad, patches to the touch daemon iptsd, scripts that try these out and take them
back on the running machine, firmware and address provisioning, and the packaging of it all.
This directory models the parts that decide something while others run beside them, checks them
with TLC, and proves the main results with TLAPS. Paths below are relative to the repository;
`patch 0002` alone means `patchsets/kernel/0002-romulus13-qspi-touchpad.patch` and its line numbers.

## 1. The system

| | Component | State it keeps | Operations | Model |
|---|---|---|---|---|
| A | SPI-HID touchpad driver, `spi-hid-core.c` in patch 0002 | `struct spi_hid`: ready, hid, power state, response buffer, completion, mutex, counters | threaded interrupt; reset, create and refresh work; HID requests; probe and remove | `SpiHid` |
| B | SPI controller, `drivers/spi/spi-geni-qcom.c` | `struct spi_geni_master`: the transfer, its mode, bytes remaining, last bus settings, completions | set-up and completion of a transfer, FIFO and DMA; cancel, abort, reset; runtime and system suspend | `SpiGeni`; its GPI mode `SpiGsi` |
| C | GPI DMA engine, `drivers/dma/qcom/gpi.c`, with the QSPI descriptors of patch 0002 | two channels with rings, an event ring, channel and engine states, descriptors | allocate, prepare, issue, terminate, pause, resume, free; interrupt; event tasklet | `Gpi` |
| D | HID core, life of a device, `drivers/hid/hid-core.c` | driver, input lock, parsed or not, listeners, open count | add, probe, remove, reprobe, destroy; open, close; input | `HidDevice` |
| E | HID core, reports, same file | parser, collections, reports, fields with values | scan, parse, multipliers; extract, implement, array and variable events, requests | `HidParser`, `HidReport` |
| F | iptsd `TouchDevice`, `patchsets/iptsd` | accepted contacts, pointer's finger, button and its debounce, palm and pen suppression | touch frame, button report, pen report, enable/disable | `TouchDevice`, `Pointer` |
| G | Trial of an iptsd candidate, `experimental/touchpad-click/trial.py`, `rollback-trial.py` | override file, systemd's loaded unit, running daemon, timer, `state.json` | preflight, arm, override, reload, restart, check; rollback | `ClickTrial` |
| H | iptsd `Tracker`; iptsd's units, udev rule, sleep hook; other scripts that change and take back; firmware kit; address provisioning; boot entries | files, units | | not modelled, section 6 |
| I | Build, signing, verification; diagnostics; device tree, ath12k patch, recorded evidence | none that others use | check, observe | not modelled, section 6 |

The kernel files of B to E are those under `patchsets/kernel/reference-original-files`, the kernel that patch
0002 is made for; the patch adds the QSPI transfers to B and C.

How they meet. The touchpad raises an interrupt; A reads a header and a body over B, which moves the
bytes through its FIFO, its own DMA or C; A either hands an input report to the HID device it created
(D, E), or stores a response and completes a request that a work item or a HID user waits for. E
turns a report into events for hidinput and passes it whole to hidraw. iptsd (F) opens the device
through hidraw, which is a HID user of A, and writes events to a kernel input device of its own.
systemd runs iptsd; G replaces its executable for a while; a rollback timer of systemd runs beside
G's script.

What is hard, and where:

* A has five kinds of threads (interrupt, three work items, HID users, remove), one mutex that
  only some of them take, one completion and one response buffer for every request, and answers that
  say neither whose they are nor arrive in time. Resets of the touchpad, garbled transfers and
  failing allocations fall between any two steps.
* B and C are driven by interrupts whose status is older than the lock they take, by hardware that goes on
  while a timeout is handled, and by commands that are carried out after the driver has given them up. What
  the hardware remembers (registers, rings, clocks) has to agree with what the driver remembers.
* D: input tries a semaphore that probes and removals hold, which drivers may release in the middle; drivers
  and devices come and go in any order; an attempt to open may fail.
* E: bits of fields across bytes, arrays told by differences, limits that two readings of one
  descriptor must treat alike.
* F has to tell an unstable measurement, a finger that slid off the edge and a lifted finger apart,
  keep two protocols of the kernel consistent, and drop button changes (debounce, palm, pen) without
  ever being left with the wrong state.
* G changes the service that provides the pointer; the script can fail or be killed anywhere, and a
  second process rolls back when 180 s have passed, wherever the script is then.

What makes each correct. A: no use of what was freed, which takes one HID device at a time; every wait ends; a
touchpad that works comes up; a caller gets the report it asked for. B: a transfer is ended once, by its
own completion, all of it moved, on a bus set up for its device. C: a completion belongs to its descriptor, no
event is lost, and after a termination nothing of the old transfer runs. D: no report meets what a probe or
removal takes away; the right driver ends up with the device. E: the layout covers the report without overlap;
values go in and come out whole. F: the desktop sees a pointer (section 4). G: a candidate always has a
way back underway.

`PROJECT.json` lists all components under `components`, and under `hazards` every place of this kind
that was found, at its line, with the properties that cover it.

## 2. Modules

| Module | Contents |
|---|---|
| `SpiHid` | A against its touchpad: the driver's threads, HID core as far as it matters, faults |
| `MCSpiHid` | sets of requests for the runs of `SpiHid` |
| `SpiHidProofs` | proofs about `SpiHid` |
| `SpiGeni`, `MCSpiGeni` | B in FIFO and DMA mode against its hardware; transfers and devices for its run |
| `SpiGeniProofs` | proofs about `SpiGeni` |
| `Gpi` | C against its hardware: actions of the engine, no client |
| `SpiGsi` | extends `Gpi` by its client, B in GPI mode: the composition that is checked |
| `SpiGsiProofs` | proofs about `SpiGsi` and, in it, `Gpi` |
| `SpiGsiRingProofs` | more of them: the rings, while commands succeed |
| `HidDevice` | D, with two drivers, a transport and listeners |
| `HidDeviceProofs` | proofs about `HidDevice` |
| `HidParser` | the first half of E: both readings of a descriptor |
| `HidReport`, `MCHidReport` | extends `HidParser` by reports and events; descriptors for its run |
| `HidReportProofs` | proofs about `HidParser` and `HidReport` |
| `Pointer` | abstract specification: what a desktop may rely on from iptsd's device |
| `TouchDevice` | F; implements `Pointer` |
| `TouchDeviceProofs` | proofs about `TouchDevice`, the implementation of `Pointer` among them |
| `ClickTrial` | G: two scripts, a timer, systemd, reboots |
| `ClickTrialProofs` | proofs about `ClickTrial` |

Operators named as mutants ("Mutant of X") are wrong variants of a definition; no
specification uses them. Each property has one that breaks it, recorded in `PROJECT.json`.

### SpiHid

Every thread has a program counter (`irqPc`, `wpc[w]` for the three work items, `cpc[c]` for HID
users, `drv` for probe and remove), and a step is what a thread does between two points where
another can look or interfere. `pending` holds the queued work items: queueing one that is queued
already changes nothing, as `schedule_work`. `ResetFlushCreate` and the cancelling steps are
`flush_work` and `cancel_work_sync`: they wait for the item to be idle. `lock` is the mutex,
`outputDone` the completion; sending a request clears it (`reinit_completion`).

* Touchpad (external: only its messages are known): in reset, booting, or running. `owed` are
  requests it has accepted, `rx` messages it wants read. The interrupt line is asserted while `rx` is
  not empty. A reset forgets both. With `Answers = FALSE` it announces resets and does nothing else.
* Interrupt: header, body, then `input` and `deliver`, or `store` and `signal`. `resp` is written in `store`,
  and whether somebody waits is looked at in `signal`, as in the code; what an answer nobody
  waited for triggers is `Unsolicited`.
* `reset_work`: three nested loops: `try` (a different answer than expected), `attempt` (pulse
  reset and start over), and, through the error handler, `attempts`.
* `spi_hid_create_device` is called by two work items, unlocked; devices are named by their creator.
  `hidObj` is HID core's view: allocated, added, removed (takes no new request), none (freed).
  `hid_destroy_device` waits for the requests in flight.
* The error handler and `spi_hid_stop_hid` are shared by their callers, as in the code.
* A request releases the mutex before it checks and copies the response: `ClientCheck`,
  `ClientCopy` are steps of their own.

Simplifications: `IrqInputReport` reads `shid->hid` once, while line 946 reads it again; a second read
can only see a newer pointer or null. Report contents, sysfs texts and trace points are left out. The
buffers are freed in the step that ends remove, so "released" is the state before and after it.
`resp_len` is 0 or 1, for empty or not. The driver has no suspend or resume handler.

### SpiGeni

The pump is the SPI core's thread (external): `pc` is where it is in `prepare_message`, `transfer_one`, its wait or
`handle_err`. The interrupt handler `isr` reads the status in one step, takes `lock` in the next and
then works through what it has read, so a status can be older than what the lock protects. `SetupLock` is the empty
critical section of `setup_se_xfer`, which waits for a handler still running. The hardware has a FIFO of `Depth`
words of `Bpw` bytes, the watermark register, two DMA engines and a sequencer with one command `op`;
`HwLevels` are the latched levels, which come back while they hold. Cancel, abort and reset act at once, as
`spi_geni_is_abort_still_pending` assumes; the handler may be later than any timeout, those of the two DMA resets
among them (`ResetEnds`). The driver forgets a reset whose wait timed out; `late`, which no action reads, remembers that a transfer was set up
with the interrupt of one still to be served. The handler can then end that transfer before it starts (run `geni_late`).
`last` are `last_cs`, `last_mode`, `cur_speed_hz` and the clock actually set; `reg` what the registers hold.
Runtime PM suspends between transfers, a suspend of the system may fail after the vote was dropped.
The SPI core finalizes a transfer by `sig`.

### Gpi and SpiGsi

`ctrl_lock` admits one handler, so the handler that has it is a `script`: the steps it still has to take, each a
command with its wait, a change of state or an allocation. Errors drop the rest of the script and put
the code's label in its place (those of `gpi_ch_init` undo little, section 3). A command that times out stays in `cmds`, and the hardware may still carry it
out. The tasklet `tk` has a program counter: it scans to the read pointer it saw, finds a descriptor and calls
back, unlinks the descriptor (`vc.lock` is released in between), reads again, unmasks. `pm_lock` makes a step that takes it for writing wait for the tasklet.
Rings have `Elements` slots, one always empty; `slot` holds what was written there, with its flags, and the
hardware runs from `at` to its doorbell `db`. The configuration, go and data elements of a transfer are
queued together; a write whose bytes fit in an element has them there instead (immediate data), and
a combined write and read has its go on the transmit channel and its data on both.
`SpiGsi` adds the client: it takes both channels, issues receive before transmit, waits, terminates both when the
transfer fails or is late, and gives the channels back. `dirty`, which no action reads, says that the grab or a termination has
reported an error or a command of a release has failed, `pauses` that another user of dmaengine has paused the channels.

### HidDevice

Three threads: the driver core (`job`: a probe or removal with its place, its driver and the drivers still to be
tried; `rt`: a driver being registered or unregistered), the life of the device (`life`), and the
transport's input (`inp`). `sem` is `driver_input_lock`. `IoStart` and `IoStop` are `hid_device_io_start`
and `hid_device_io_stop` of `hid.h`. `Generic` is hid-generic, `Special` a driver that fits the device better and, as
hid-logitech-dj does, talks to it in its probe with input let in, and leaves it so when all went well. The callbacks of
drivers and the transport are external; that a driver turns input off again before its probe fails is an
assumption about drivers: `hid_close_report` would free the reports under a report otherwise. `added`, `reprobed` are the bits of `hdev->status`. Listeners open and close at any time; the transport may fail
to open. Where the device's memory matters it is `parsed`: `hid_close_report` frees the reports.

### HidParser and HidReport

One step is one item of a descriptor, once for `hid_scan_report` and once for `hid_open_report`. Tags, sizes and
sign matter and are kept, the sign of four bytes at `LongSign`; a usage is page and id, with a page of `Half` ids. Collections, reports and
fields are sequences; a field keeps offset, size, count, limits, flags, usages and values.
`HidReport` has bytes of `Byte` bits and words of `Word` bits, so that a field can cross a byte and be wider
than a word at sizes TLC can enumerate; the masks and shifts of `__extract` and `implement` are sums of
powers. `Connect` lets listeners claim the device and builds the list of entries by priority; `Input`,
`GetReport`, `SetReport`, `SetField` are the paths of reports, each taken whole, since `HidDevice` shows that
`driver_input_lock` separates them. `Reconnect` is the removal of the driver and the next open, from the same descriptor.
`WideMask` is what `(1 << 32) - 1` comes to, which C leaves undefined. The arithmetic of `hid_calculate_multiplier` does not
overflow in the model.

### TouchDevice

One step is everything between two `SYN_REPORT`s. A frame maps indices to what the stabilizer
(`stable`) and the validator (`valid`) say and to a place; `OUTSIDE` is beyond the overshoot. `stray`
is a palm without an index. `emitted` is `m_emitted`; `slots`, `touch`, `tool`, `abs`, `left` are
what the kernel's device holds. `touchpad` is chosen at the start and distinguishes the two devices
that run the code; only a touchscreen has a pen, only a touchpad a click sensor. Which places are near each other
and whether a contact is stable or a palm is decided by iptsd's detection and left nondeterministic.
`on_touch`, `on_stylus` and `is_blocked` are not shown whole by the patches; they are
taken from the daemon in `sources/iptsd-sl7-click-fixed-source.tar.gz`.

### ClickTrial

Each command or file operation of the two scripts is a step. `override` is the file, `loaded` what
systemd would start (it changes only with a reload), `daemon` what runs. The rollback exists twice,
run by `trial.py`'s `except` clause and by the timer. `TimerFires` is possible only while `trial.py`
waits for something of unknown length or has ended: its own steps take far less than 180 s. A
`reboot` clears all of it, because all of it is below `/run`. Left out: an administrator's own edit
of the override, for which `rollback-trial.py` refuses to act; the checksum comparisons are one
condition of `TrialStart`.

## 3. Runs

| Run | Question | Result |
|---|---|---|
| `faults` | any two of nine kinds of fault, no HID user: drained workers, the storm guard, the report descriptor, the pointer to the HID device, remove finishes | holds |
| `retry` | two lost, late or unsendable requests beside a user's output reports: brought up, and remove waits for the user | holds |
| `clients` | two readers of features and one lost, late or unsendable request: every call returns | holds |
| `crossed` | two readers get their own reports | violated |
| `gsi` | two transfers over the DMA engine, a failing command or allocation, a pause, release and all: completions, events, rings | holds |
| `geni` | three transfers for two devices with timeouts, late interrupts, failing clocks, suspends: each ended by its own completion, whole | holds |
| `geni_late` | so it is even after the wait for a DMA reset timed out | violated |
| `device` | input while drivers come and go and probes fail; the device's end | holds |
| `report` | all descriptors of seven families and all short reports for them: layout, scan, multipliers, keys, events, sending | holds |
| `touch` | the six properties of `TouchDevice` | holds |
| `trial` | failures and kills of `trial.py` and of the rollbacks: until a rollback fails, always one to come; the packaged iptsd comes back | holds |
| `rollback` | a rollback that says "restored" has restored, though one failed before | violated |

### What the violations say

* `crossed` (patch 0002, 1398). The response is read after the mutex was released. Not only a second reader
  triggers this: an output report's answer that arrives between the two also changes the buffer.
* `geni_late` (`spi-geni-qcom.c`, 203). The wait for a DMA reset times out. Its handler reads RESET_DONE, waits for the lock,
  and gets it when the next `setup_se_xfer` has cleared both counters and set `cur_xfer`: nothing is left of that transfer, so it finalizes it.
  `SetupLock` does not help, because the interrupt may come after it.
* `rollback` (`rollback-trial.py`, 13). The missing override is taken for a finished rollback.

### Known divergences without a run

These were found while modelling; the models do what the code does, and a property that leaves one of them out says so.

* A touchpad that announces its resets and answers nothing is reset once more and then stays powered,
  neither retried nor given up (patch 0002, 906 and 977): the `RESET_RESP` of the reset that the error handler makes
  completes the idle completion instead of starting `reset_work`. `Answers = FALSE` in a configuration of `SpiHid` shows it.
* `device_initiated_reset_count` (1471) stays 0: it is incremented when `reset_work` runs with `ready` set (1116), and the
  interrupt queues that only when `ready` is clear. `RUNTIME-PM-PLAN.zh-CN.md` reads its 0 as evidence.
* The version of the touchpad is checked in one (1255) of the two work items that create the HID device (1204).
* Two HID devices (patch 0002, 1002). The touchpad resets by itself while `reset_work` is creating the HID device;
  `create_device_work` finds `shid->hid` still null and creates another. Remove destroys the second; the first, which nothing names any more,
  keeps its users, and a request of one of them can wait for the mutex when the buffers are freed (1643). With `"reset"` among the
  faults of a run with a user, `DrainedClients` fails after one.
* The input handler uses `shid->hid` after its test (946), while the error handler (907) or a failing registration (1240) may free the device.
* The labels of `gpi_ch_init` (`gpi.c`, 1966) send their commands to the channel that was asked for, not to `gchan[i]`. When ALLOCATE of the
  receive channel fails, the transmit channel stays allocated in the hardware with the address of a ring that the release frees; a START
  that timed out may be obeyed after it; and `pm_state` stays `CONFIG` for who asks again. The properties of the rings end with a
  failed grab.
* A multiplier in a logical collection on the top level scales nothing. `hid_apply_multiplier` finds that collection, "then search all fields
  for that same parent collection" (`hid-core.c`, 1174), but `hid_apply_multiplier_to_field` takes a walk that ends on the top level for
  one that has not met it (1145).
* The effective multiplier may be up to 255 (`hid-core.c`, 1114), the usage keeps it in an `__s8` (`hid.h`, 509): 200 becomes -56.
* `s32ton` computes `(1 << n) - 1` for `n` of 32 (`hid-core.c`, 80), which C leaves undefined. Where it comes to 0, a value that a GET_REPORT
  has read from a signed field of 32 bits is sent back as 0.
* `__hid_insert_field_entry` (`hid-core.c`, 1758) says that lower priorities come first; the code, and so
  `EventOrder`, has higher ones first.
* `hid_hw_open` calls `on_hid_hw_open` after a failed open too (`hid-core.c`, 2479).
* `__hid_request` hands the answer to a GET_REPORT of an unnumbered report on with the byte for the number
  still in front (`hid-core.c`, 2029): its values are read a byte late.

### Bounds

* `MaxResetAttempts = 3` is the driver's. `MaxInitRetries` is 10 in the code and 2 in the runs,
  `MaxBusErrors` is 100 and 2: both are compared only with counters that start at 0 and go up by one,
  and 2 has a step below the limit and one at it. The proofs hold for every value.
* `MaxQueue = 2`: two messages, so that an unexpected one stands before or after the expected one.
  Two requests can be owed when one timed out. An input report waits alone.
* `MaxFaults` is 2 in `faults` and `retry`, 1 in `clients`:
  every kind of fault meets every other. In `retry`, `BringUp` needs `MaxFaults` below the three attempts.
* Two users and two reports in `crossed`, two users in `clients`: one waits for the mutex that
  the other holds. Users do not know each other otherwise.
* `retry` has one user of output reports, which write to the touchpad while `reset_work` waits.
* `Indices = {0, 1, 2}`: a contact leaves, one replaces it, one stays; finger counts above 5 are covered by the
  proof. Two places `p`, `q`: a contact that moves. `Debounce = 2`: a moment in the middle of it.
* `gsi`: `Elements = 4`: a ring of three usable slots, one transfer of up to three elements, so every transfer wraps.
  `MaxXfers = 2`: one transfer after a terminated one; `MaxFaults = 1`, `MaxPauses = 1`, `MaxGrabs = 1`.
* `geni`: `Depth = 3`, `Bpw = 2`: FIFO transfers that fit and that do not, odd lengths that end in a partial word, a DMA
  transfer; `MaxXfers = 3`: the middle one has a predecessor that may have timed out and a successor;
  `MaxFaults = 2`: two of clocks, suspends and waits of the driver, among them both DMA resets of one error. A transfer that times
  out itself is no fault: each of the three may.
* `device`: `MaxOps = 3` registrations and removals of the special driver, `MaxFaults = 2` failing probes or opens. The proofs hold for any number.
* `report`: descriptors are products of fragments (6,089 initial states); two usages too many, two fields too many, a
  stack too deep each happen. `MaxUsages = 4`, `MaxFields = 2`, `MaxIds = 4`, `MaxBits = 26`, `StackSize = 2`; bytes of 2 bits and
  words of 8, so that a field covers up to three bytes and there are fields of a word and more. `LongSign = 2^20`, since TLC's own
  numbers end at 2^31; the proofs need 2^15 at least. `WideMask = 0`. `Driven` keeps the descriptors to which reports are sent
  to the families made for it.
* `ClickTrial`: `MaxFaults = 2` of each kind in `trial`, so that a failed step meets a kill, and both
  rollbacks fail.

### Fairness

`SpiHid`: weak fairness of the interrupt thread, each work item, `spi_hid_stop_hid` and a probe or
remove in progress, since the kernel's workqueues and threads run what can run; of a touchpad that boots or
owes an answer; and of each user's steps, with strong fairness for taking the mutex, which
the kernel hands to its waiters in turn. Nothing forces a user to call, a finger to move, a fault, a probe
or a remove. Losing a request is a fault, so an answer may be lost but not postponed for ever.
`SpiGeni`: weak fairness of the pump, the handler and the hardware; a timeout is never forced, so that `TransfersEnd` does not
rest on it. `HidDevice`: the driver core, the destruction and a report on its way go on; the semaphore
is handed to a waiter in turn, although reports keep trying it. `SpiGsi` and `HidReport` have safety properties only.
`TouchDevice`: the clock, and a touchpad that goes on sending frames and the button's state, which
`ButtonSettles` and `TouchReturns` rest on; the user and the pen are free. `ClickTrial`: the scripts go on, an
armed timer elapses, `Restart=on-failure` starts a daemon that has gone.

Deadlock is checked in every run: in `SpiHid` a driver can always be probed again, a machine can always be
rebooted, and the bounded models say by an explicit stutter (`Ended`) where their bound, and nothing else, stops them.

## 4. What the properties promise

`SpiHid`: `StormGuard`: the interrupt disables itself exactly at the limit, though body errors
count too and nobody compares there. `DrainedWorkers`, `DrainedClients`: nothing runs that uses what
remove frees. `RdIsReportDescriptor`: what is kept as the report descriptor is one, though copied from a
buffer the interrupt writes. `HidPointerLive`: `shid->hid` is null or alive, though set and cleared without a lock.
`FeatureAnswersMatch`: a reader gets the report it asked for, which two readers refute (`crossed`). `BringUp`, `RemoveFinishes`,
`ClientReturns`.

`BringUp` excludes `body`, `slow`, `header` and `reset` faults. With a garbled first `RESET_RESP` nothing else
starts `reset_work`, so the driver waits for the next reset; this is noted under `hazards`.

`SpiGsi`: `CompletesItsOwn`: the event, the descriptor and the transfer of a completion belong together, though
the list is unlocked for the callback and stale events are still in the ring. `DescriptorStays`: in that
time nobody takes or frees the descriptor, its event or the ring, whichever commands fail. `NoLostEvent`: an unread event is
announced by the interrupt, a scheduled tasklet or a running one. `OnlyCurrent`: the hardware runs nothing of an earlier
transfer, as long as terminations succeed. `RingsLive`: no ring is freed under the hardware. `ReadyForNext`: between
transfers the driver and the hardware agree where the next element goes. The last three exclude the time after a
failed grab, termination or command of a release (`dirty`), `ReadyForNext` also a pause, and say so: `gpi_terminate_all`
does leave the engine in any state then, and `gpi_free_chan_resources` frees the rings although the hardware
has not confirmed that it stopped (`gpi.c`, 2001). After a failed grab even a channel that is not active can be started late, by the START that
timed out, with its ring freed (section 3).

`SpiGeni`: `FinalizeOwn`, `AllMoved`: the handler ends a transfer only when the hardware has finished that
one, whole. `FifoFits`. `RunsConfigured`: whatever failed before, the hardware runs for the transfer the pump waits for, with the
settings of the device it talks to. `TransfersEnd`: what does not time out is finalized. All but `FifoFits` are promised as long as no transfer
was set up with the interrupt of a DMA reset still to be served (`late`): the waits for such resets do time out in `geni`, and the code
goes on. Without the condition, `FinalizeOwn` is `EndsOwn` (`geni_late`).

`HidDevice`: `InputSafe`, `OpenBalanced`, `RightDriver`, `DestroyEnds`. `HidReport`: `LayoutSound` (fields of a report lie side by
side within it, their usages within their limits), `ScanAgrees` (the group the scan chose follows from what the
parse then finds; descriptors that fill a report with fields are left out, since the parser drops what follows), `SharedMultiplier`,
`KeysAgree` (the keys hidinput believes are down are those the input reports named; arrays of outputs and features are left
out, because a driver that sets one tells nobody), `EventOrder`, `SentCarries` (every field but a signed one of a word or more, section 3), each against a
definition of its own, not the code's loops.

`SharedMultiplier` follows the usage tables as the code quotes them (`hid-core.c`, 1162): a usage has the effective value of a
multiplier that lies in a logical collection around it or in none, and 1 if there is no such multiplier; all inputs of one logical collection have the same.
Of several the last in the order of reports wins ("it will overwrite the applicable fields later"), which need not be the closest.
"All controls in the report" is, in the code, every input of the device. Left out are usages for which a multiplier is defined that lies in a
logical collection on the top level or does not fit an s8 (section 3).

`TouchDevice`: `ActsAsPointer` is the implementation of `Pointer`: fingers, the one that moves
the pointer, a button. The pointer changes finger only when its own lifts; contacts that come and go never
touch the button; a palm or pen releases all at once. `KernelView`: multitouch slots, single-touch
position, finger count and `m_emitted` agree. `QuietWhenSuppressed`, `HoldSurvives`, `ButtonSettles`,
`TouchReturns`.

`ClickTrial`: `Guarded`, `TrialEnds`, `RestoredIsPackaged`.

## 5. Proofs

All are checked by TLAPS to the last leaf, for every value of the constants that the `ASSUME`s admit
(bounds are naturals of a minimal size, sets are typed, null is not a member). The runs evaluate those
assumptions for their values.

`SpiHidProofs` proves `TypeOK`, `StormGuard`, `DrainedWorkers` and `RdIsReportDescriptor` for any number of users,
requests, faults and retries. None is inductive. `Inv` adds:

* `LocalsSet`: inside its loops `reset_work`'s counters are below their limits (otherwise an increment
  would leave the type), and a message being processed, a response that is not empty, and a call in
  progress are set.
* `IrqBound`: the interrupt is off exactly while the driver is not bound, and its handler is idle once
  `free_irq` has returned.
* `ErrorsCounted`: `busErrors` is 0 while a body is being read. This is the reason why a body error cannot
  step over the limit: it makes the count 1, and the limit is greater (`MaxBusErrors > 1` is an assumption).
* `DrainOrder`: a worker drained stays drained: `reset` is queued only by the interrupt, `create` and
  `refresh` too, and the interrupt is off.

The proof goes by groups of actions, one lemma each: for types, `TouchpadTyped` to `DriverTyped`; for the rest,
`WorkLeaves` and `OthersLeave` say that an action only removes from `pending` and moves only its own
thread.

`RdIsReportDescriptor` (theorem `ReportDescriptorKept`) needs a second invariant, `RdInv`, because `reset_work` checks
`resp_type` and copies `resp_buf` while the interrupt may write both. Its core is the order of answers: what is owed,
what waits in `rx` and what the interrupt holds are one queue, and `Apart(A, B)` says that in it no answer of a type in `A`
stands before one of a type in `B`. While `reset_work` asks for the device descriptor, no report descriptor follows a device
descriptor; it asks for the report descriptor when no other is underway; and once it has found one, nothing but it can be
underway (`AwaitsDevice`, `AwaitsReport`, `Copies`). Late answers, resets and lost requests keep this, garbled bodies too, because
each only removes from the queue or empties it; a retry starts with an empty queue, because it pulses the
reset line (`GivingUp`, `Elsewhere`). The mutex keeps the other senders out (`Exclusive`). Two hypotheses are there because it
fails without them: the touchpad has the supported version, since otherwise the create work's error handler resets it and clears
the power state under `reset_work`'s hands; and no request outlives its driver (`DrainedClients`, which `retry` checks), since
such a request could be sent into the loops of the next probe.

`TouchDeviceProofs` proves `TypeOK`, `KernelView`, `QuietWhenSuppressed`, the action property
`HoldSurvives` and the refinement `ActsAsPointer`, for any finite set of indices and any debounce. The
invariant adds that a touchscreen has no button pressed and a touchpad is never disabled. The
lemma `LowestExists` shows that `First` of a non-empty set is a member, from well-foundedness of `<`.
`PointerStep` maps each action to a step of `Pointer` or a stutter: frames to `Touch` or, when suppressed,
`Release` or nothing; a button report to `Click`.

`ClickTrialProofs` proves `Guarded` for any number of failures and kills of `trial.py`. `Guarded` ends with the
first failure of a rollback, because one that fails last does leave the candidate running with no timer
(`RollbackFailed` reads this off the count of faults still allowed). `Guarded` does not say what a running rollback still
has to do; `WayBack` does, and `TrialOrder` says what `trial.py` has not done yet.

`HidDeviceProofs` proves `TypeOK`, `InputSafe`, `OpenBalanced` and `RightDriver` for any number of drivers that come and go, failures
and reports. The invariant counts the one unit of `driver_input_lock` (`SemCounted`): it is free, or
input has it, or a probe or removal has it that does not let input in. `IoPlaces` names the places where one that has
let input in can be; `Parsed` says that a driver has parsed reports but where it is set up or given up;
`Claims` that listeners exist only under a driver whose transport has started. Together: if a report is inside, `sem` is 0
and nobody else holds it, so that a probe or removal is at none of the places that free.
`RightDriver` follows from where the driver core stands in its list of drivers still to be tried.

`SpiGsiProofs` proves `TypeOK`, `DescriptorStays` and `NoLostEvent` for any length of the rings and any number of transfers,
faults, requests of the channels and pauses. The handlers are scripts, so the invariant `IInv` says of a script what it may
still contain (`Typed`, which fixes the kinds of steps while channels are taken, used and given back) and how far it has come
(`Handlers`): a release gives its channel back by a list of steps of which the last ones are left (`GivesBack`, `GivesShared`), and what has been
freed is what the steps before freed. `RingOn`, `Empty`: the event ring exists while a channel is in use, and has no
events while it does not exist. `Works`: the tasklet runs only while pm_state lets it touch registers, and what takes `pm_lock` for
writing waits for it; hence between finding a descriptor and `list_del` none of the steps that wipe a channel or free a ring can come, which
is `DescriptorStays`. `Pending`: an event that comes while the registers are not to be touched leaves the interrupt pending,
which is the case `NoLostEvent` does not cover by itself. No command is assumed to succeed.

`SpiGsiRingProofs` proves `OnlyCurrent` under the same assumptions, for the time before `dirty`. Commands may still be late: `STOP` may time out in a
termination that then succeeds, and what it leaves behind comes while the next commands are awaited. `RInv` follows a handler step by
step (`At`, `Place`), as long as it succeeds. A command is believed when `ch_state` has the value it is to leave behind, so the
invariant says which values and which late commands there can be (`Agrees`, `Late`): a channel is up from its `START` to its
`RESET`, and while it is, `ch_state` is not `ALLOCATED` before the awaited `RESET` has been obeyed. Hence a
termination that reports success has reset both channels (`Stage`, `Cleared`). `Arc` says that elements lie before the hardware only for the
transfer in progress, and which; `Sorted` and `Events` that descriptors and unread events are in the order of their transfers, so
that the tasklet takes each descriptor for its own event; with `Answered`, the callback that says "ok" is that of the last element, after
which a controller that is ready has left nothing for the hardware.

The same module proves `RingsLive` (`RingsStayLive`) from `LInv`, for any number of pauses. `Down` says that a channel without a ring
is not up and no `START` for it is on its way. For the event ring the invariant says who looks after the
events (`Guarded`): the interrupt while it is not masked, the scheduled tasklet, or the tasklet at work. The release of the last
channel waits for the tasklet (`tasklet_kill`), and nothing schedules it again before the ring goes: the handler confirms `STOP` after it has
seen what was pending with it, so an interrupt of the event ring that is still there is masked, and its tasklet yet to clear it
(`Seen`); a channel that is down brings no other. So the event ring goes only when all is `AtRest`.

`OwnEventsOnly` says of the same module's `AInv` that `CompletesItsOwn` holds as long as the grab and every termination has succeeded, for rings of
any length, any number of transfers, faults and pauses. The tasklet takes the first descriptor of the channel that the event names, so
the two belong together only if what is issued and what is announced stay in step. A channel is given a transfer when nothing
of the one before is left but what the tasklet is about to unlink (`Drained`), so all its descriptors are of
the transfer in progress (`OwnOnly`) and, once that has been issued, all its elements are before the hardware until it has done them
(`Whole`; `HasRoom` is why none is missing); then an event says so (`Told`). The callback comes with the receive channel when
the transfer reads, and `InTurn` says that by then the transmit channel has been read. A termination that
fails in the middle has reset the lists of the channels that are up (`GivenUp`), so the tasklet finds nothing there.

`HidReportProofs` proves `LayoutSound` for every descriptor and any limits, the data of items being natural
numbers (`ParserAssumption`): what `hid_open_report` accepts has fields that do not overlap or leave their report, a
usage for every value, a collection for every usage, and collections that nest. The property speaks of a parsed device;
the invariant says it of every item before. It needs `OpenChain` (the stack of open collections is
the chain of parents, and whatever came after one of them lies in it), `GlobalsSound` (sizes and counts are natural
numbers, on the stack of the globals too, so that a report never shrinks under its fields) and `LocalSound` (the
usages waiting for their main item name collections that exist). `FieldStep`, `Opened` and `LocalStep` are the steps that build; `LayoutKept` says that
what only replaces values and multipliers leaves the layout alone, which covers reports, settings and `Scaled`. Its first section has what the proofs need
to know about sequences of values of no particular set.

It also proves `SharedMultiplier`, whose two halves have an invariant each. `MInv` says that usages are plain until the descriptor ends; then `Scaled` gives each the last
multiplier that applies to it. Which do depends, in `hid_apply_multiplier_to_field`, on a walk up from the usage's own collection. The
collections around one are a chain, each enclosing the next (`AroundChain`), so a multiplier of a logical collection applies to
a usage exactly if it applies to the innermost logical collection around it (`AppliesAlike`), which is the same for the
two usages the property compares. `Defined` says that a parsed usage has what one of the multipliers defined for it gives. `Scaled` goes through
the usages with `MultipliersAre`, the sequence of values of all multipliers; `FlattenedHolds` says that this has nothing but those and all of them.
With the walk again, the last one that applies is one that is defined for the usage, and if none applies the
usage stays plain; `Narrow` says that keeping it in an s8 changes nothing that fits (`DefinedAtEnd`, `DefinedStays`).

`KeysAgree` and `EventOrder` are proved from `VInv`, `OInv`, for any payloads, ranks and settings. What a report does is computed by
`FlattenSeq` and `FoldLeft`; `LaidOut` and `HeardSteps` say what these are, place by place, by the least place where they would be
anything else. `InsertionSorts` shows that `Insert` keeps a list by priority and, among equals, in the order of the
descriptor; `OrderingListed` that the list has each variable and each array once. `EventsAre` follows: an event for each variable,
those of each array, in the order of the list. For the keys, `ArrayAgrees` is the core: an event of an array says of
its key what the values remembered afterwards say, a key without an event is as before, and after an overrun there are no events and
nothing is remembered, which is why `Remembered` must not. So what `HeardIs` says of the last event of a key is right.
`VInv` is there because two values of an array name two keys only if the minimum is a number.

`ScanAgrees` is proved from `BInv`. The scan ignores errors and builds nothing; the parser stops at the first one and knows the
collection of each usage. But global state, stack and local state of both are one function of the items read
(`ParserIsIn`), up to the collections (`SameAfter`), which the usages of an item do not depend on (`SameHids`). So
there is one sequence of states (`IsRead`), in which the scan is at its item and later the parser at its own (`ParseReads`). The scan's group and flags
say what its items have met (`Scanning`), at its end what all have (`Chosen`); the reports say what the items up to the parser's
own have (`Built`: `FieldAdds` is the step, `SameBuilt` the steps that keep all fields). Where the parser accepts, it has come to where
the scan ended: a truncated item ends both, and the parser rejects it.

`SpiGeniProofs` proves `TypeOK`, `FinalizeOwn`, `AllMoved`, `FifoFits` and `RunsConfigured` for any depth (above two words)
and word size of the FIFOs, any kinds of transfers of which those by DMA exceed the FIFO (`CanDma`), any devices, and any number
of transfers, timeouts and late interrupts; all but `TypeOK` until `late`. The invariant is `Kinds /\ Tail /\ (~late => Facts)`: types, and six parts that
hold until a transfer is set up with the interrupt of a DMA reset still to be served. `Quiet` is the one the driver is about: what could
end or disturb a transfer (`Watched`) is, once a transfer is over or its cancel or abort has been answered, only what the
handler is just serving (`Calm`); so after `SetupLock` has waited for the handler nothing of it is left.
It holds because a cancel is answered only by a handler that has read everything pending with it. `Engines` says the same of the DMA
status, which the resets flush. `Turns` says whose `cur_xfer`, mode and command are; with these, `EndIsOwn` shows that a handler that finds an
end has found that of the running command. In between, a receive watermark of an aborted transfer can make the handler read
bytes for the new one, before the mode changes to DMA: `Budget` shows that this never uses up a DMA
transfer's count, because it exceeds the FIFO. `Counts` is the account of words: what is in the transmit FIFO and what
is to be written are the words the command still sends; what is in the receive FIFO and to come is no less than what is to be read.
`Settings` says that what the driver remembers is what the registers hold, which writing changes only relies on.
While a reset is unserved between two transfers, its interrupt may stay pending or be in the handler's hands; `SetupLock`
decides, since the lock is free there: what has been read has been served, and what has not makes `late`.
The arithmetic of `Words`, with a symbolic divisor, is in lemmas of its own (`WordsHold` to `WordsLast`).

Only model-checked:

* Liveness (`BringUp`, `RemoveFinishes`, `ClientReturns`, `TransfersEnd`, `DestroyEnds`, `ButtonSettles`, `TouchReturns`,
  `TrialEnds`, `RestoredIsPackaged`): TLAPS does not prove it under fairness.
* `DrainedClients` of `SpiHid` holds for the faults of `retry`, not for a reset (section 3); `FeatureAnswersMatch` is violated
  (`crossed`). `HidPointerLive` needs to know which work item's device `shid->hid` names through every failure of both.
* `ReadyForNext` of `SpiGsi`: `RInv` and `AInv` do not follow the place where the hardware stands in a ring that is empty again.
* `CompletesItsOwn` after a failed termination. With enough late commands in succession a `RESET` may be believed on
  the word of an earlier interrupt while an old `START` is still queued, and an event come between the wipe and the programming; so
  it is not expected for any number of failed commands, only for that of its run.
* `SentCarries` is about sums of powers of two, of which the
  provers know nothing.

Each module has its `TypeOK`; where it is proved it is not listed among a run's invariants.

## 6. Not modelled

* The iptsd tracker: the patch shows only the reposition ceiling, the matching it belongs to is in an archive of
  sources. iptsd's units, udev rule and sleep hook are declarations; a model of them would be one of systemd.
* `runtime-pm-trial.py`, `install-click-fix.py`, `promote-touchscreen.py`: sequential scripts that change something and take it back in a
  handler. The hard case, a second process that rolls back at the same time, is in `ClickTrial`.
* The firmware kit: an interrupted `fix` run again makes its own backup the latest one, and `undo` takes back only
  what that one created (`fix.sh`, 90). Addresses, boot entries: generated text, the same each time.
* Build, signing, verification, calibration, diagnostics, recorders: they keep nothing that the other parts use.
* Of B and C: probes with their resources, clocks and modes, target mode, words that do not pack, descriptors of I2C and
  UART, interrupts that are only logged.
* Of D and E: attributes and debug texts, id tables, units, BPF programs, the fixups and quirks of single devices,
  allocation failures, `report_descriptor_read`, which copies without a lock (`hid-core.c`, 2270).

## 7. Running it

    tlc -config SpiHid_faults.cfg MCSpiHid        # likewise SpiHid_*.cfg
    tlc -config SpiGsi_faults.cfg SpiGsi
    tlc -config SpiGeni_faults.cfg MCSpiGeni      # and SpiGeni_late.cfg
    tlc -config HidDevice_faults.cfg HidDevice
    tlc -config HidReport.cfg MCHidReport
    tlc -config TouchDevice.cfg TouchDevice
    tlc -config ClickTrial_trial.cfg ClickTrial   # and ClickTrial_rollback.cfg
    tlapm SpiHidProofs.tla                        # and SpiGsiProofs, SpiGsiRingProofs, SpiGeniProofs, HidDeviceProofs,
                                                  # HidReportProofs, TouchDeviceProofs, ClickTrialProofs
