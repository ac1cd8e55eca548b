------------------------------ MODULE HidDevice ------------------------------
(***************************************************************************)
(* The life of a device in the HID core, drivers/hid/hid-core.c: a         *)
(* transport allocates, adds and destroys it; the driver core probes and   *)
(* removes drivers under the lock of the device, one job at a time;        *)
(* listeners open and close it; and the transport's interrupt thread       *)
(* reports input all the while.                                            *)
(*                                                                         *)
(* driver_input_lock is a semaphore that a probe or a removal holds,       *)
(* unless the driver lets input in (hid_device_io_start), and that an      *)
(* input report only tries to take.                                        *)
(*                                                                         *)
(* Two drivers match the device: hid-generic, which steps back when a      *)
(* special driver is there, and a special one.                             *)
(***************************************************************************)
EXTENDS Integers, FiniteSets, Sequences

CONSTANTS
  MaxFaults,    \* steps that fail
  MaxOps        \* registrations and unregistrations of the special driver

ASSUME HidDeviceAssumption == MaxFaults \in Nat /\ MaxOps \in Nat

Generic == "generic"
Special == "special"
Drivers == {Generic, Special}
None    == "none"
Listeners == {"input", "hidraw"}

VARIABLES
  \* struct hid_device
  driver,       \* driver
  sem,          \* count of driver_input_lock
  ioStarted,    \* io_started
  added, parsed, reprobed,    \* status
  claimed,      \* claimed
  opened,       \* who counts in ll_open_count
  \* the transport
  life,         \* where it is with the device
  llStarted,    \* between ll_driver->start and ->stop
  llOpen,       \* between ->open and ->close
  hook,         \* the driver was told on_hid_hw_open, and not on_hid_hw_close
  \* the driver core
  registered,   \* drivers on the bus
  onBus,        \* the device is on the bus
  job,          \* the probe or removal in progress: pc, its driver, drivers to try next
  rt,           \* the thread that registers and unregisters the special driver
  inp,          \* hid_input_report in progress
  faults, ops

devVars   == <<driver, sem, ioStarted, parsed, reprobed, claimed, opened>>
llVars    == <<llStarted, llOpen, hook>>
busVars   == <<registered, rt, ops>>
lifeVars  == <<life, onBus, added>>
vars      == <<devVars, llVars, busVars, lifeVars, job, inp, faults>>

NoJob == [pc |-> "off", drv |-> None, next |-> <<>>]

\* hid_allocate_device, with hid-generic loaded.
Init ==
  /\ driver = None /\ sem = 1 /\ ioStarted = FALSE
  /\ added = FALSE /\ parsed = FALSE /\ reprobed = FALSE
  /\ claimed = {} /\ opened = {}
  /\ life = "allocated" /\ llStarted = FALSE /\ llOpen = FALSE /\ hook = FALSE
  /\ registered = {Generic} /\ onBus = FALSE /\ job = NoJob /\ rt = "off" /\ inp = "off"
  /\ faults = 0 /\ ops = 0

Fault == faults < MaxFaults /\ faults' = faults + 1

-----------------------------------------------------------------------------
(* Probe: hid_device_probe, __hid_device_probe *)

Job(from, to) == job.pc = from /\ job' = [job EXCEPT !.pc = to]
JobFrame(v) == UNCHANGED <<lifeVars, busVars, inp, v>>

\* hid_bus_match has let the driver core call probe for the next driver, unless the device has one.
TryNext ==
  /\ job.pc = "try"
  /\ job' = IF job.next = <<>> \/ driver # None THEN NoJob
            ELSE [job EXCEPT !.pc = "lock", !.drv = Head(job.next), !.next = Tail(job.next)]
  /\ JobFrame(<<devVars, llVars, faults>>)

\* down_interruptible, which a signal may end.
ProbeLock ==
  /\ Job("lock", "match") /\ sem > 0
  /\ sem' = sem - 1 /\ ioStarted' = FALSE /\ reprobed' = FALSE
  /\ JobFrame(<<driver, parsed, claimed, opened, llVars, faults>>)

ProbeSignal ==
  /\ Job("lock", "try") /\ sem = 0 /\ Fault
  /\ JobFrame(<<devVars, llVars>>)

\* hid_check_device_match: hid-generic has a match of its own, which looks for special drivers.
Matches(d) == d = Special \/ Special \notin registered

\* hid_check_device_match decides; then driver is set.
ProbeMatch ==
  /\ job.pc = "match"
  /\ IF Matches(job.drv)
     THEN driver' = job.drv /\ job' = [job EXCEPT !.pc = "parse"]
     ELSE job' = [job EXCEPT !.pc = "unlock"] /\ UNCHANGED driver
  /\ JobFrame(<<sem, ioStarted, parsed, reprobed, claimed, opened, llVars, faults>>)

\* hid_open_report, called by the driver's probe: it refuses a device that is parsed, and closes
\* what it opened when the descriptor is bad.
ProbeParse ==
  /\ job.pc = "parse"
  /\ \/ job' = [job EXCEPT !.pc = IF parsed THEN "fail" ELSE "start"] /\ parsed' = TRUE /\ UNCHANGED faults
     \/ job' = [job EXCEPT !.pc = "fail"] /\ Fault /\ UNCHANGED parsed
  /\ JobFrame(<<driver, sem, ioStarted, reprobed, claimed, opened, llVars>>)

\* hid_connect: each listener may claim the device, and without any it fails.
Connect ==
  \/ \E c \in SUBSET Listeners : c # {} /\ claimed' = c /\ llStarted' = TRUE /\ UNCHANGED faults
  \/ Fault /\ UNCHANGED <<claimed, llStarted>>

\* hid_hw_start: the transport starts, and stops again when hid_connect fails.
ProbeStart ==
  /\ job.pc = "start"
  /\ Connect
  /\ job' = [job EXCEPT !.pc = IF ~llStarted' THEN "fail"
                               ELSE IF job.drv = Special THEN "talk" ELSE "unlock"]
  /\ JobFrame(<<driver, sem, ioStarted, parsed, reprobed, opened, llOpen, hook>>)

\* Mutant of IoStop: the semaphore is not taken again.
IoStopNoDown(from, to) ==
  /\ Job(from, to) /\ ioStarted
  /\ ioStarted' = FALSE
  /\ JobFrame(<<driver, sem, parsed, reprobed, claimed, opened, llVars, faults>>)

\* hid_device_io_start and hid_device_io_stop, of hid.h.
IoStart(from, to) ==
  /\ Job(from, to) /\ ~ioStarted
  /\ ioStarted' = TRUE /\ sem' = sem + 1
  /\ JobFrame(<<driver, parsed, reprobed, claimed, opened, llVars, faults>>)

IoStop(from, to) ==
  /\ Job(from, to) /\ ioStarted /\ sem > 0
  /\ ioStarted' = FALSE /\ sem' = sem - 1
  /\ JobFrame(<<driver, parsed, reprobed, claimed, opened, llVars, faults>>)

\* The special driver talks to its device, and leaves the input on when that goes well, as
\* hid-logitech-dj does; otherwise it turns the input off and stops the transport.
ProbeTalks == IoStart("talk", "answer")

ProbeListens ==
  /\ Job("answer", "unlock") /\ ioStarted
  /\ JobFrame(<<devVars, llVars, faults>>)

ProbeStopsInput ==
  \/ IoStop("answer", "unlock")
  \/ faults < MaxFaults /\ IoStop("answer", "giveUp")

\* hid_disconnect: the listeners close what they have open.
Disconnect == claimed' = {} /\ opened' = {} /\ llOpen' = FALSE /\ hook' = FALSE

\* hid_hw_stop
HwStop == Disconnect /\ llStarted' = FALSE

\* The probe fails: the driver stops the transport.
ProbeGivesUp ==
  /\ Job("giveUp", "fail") /\ HwStop /\ Fault
  /\ JobFrame(<<driver, sem, ioStarted, parsed, reprobed>>)

\* The end of __hid_device_probe after an error.
ProbeFailed ==
  /\ Job("fail", "unlock")
  /\ parsed' = FALSE /\ driver' = None
  /\ JobFrame(<<sem, ioStarted, reprobed, claimed, opened, llVars, faults>>)

\* up, unless the driver left the input on; a failed probe lets the driver core go on.
Unlock ==
  /\ Job("unlock", "try")
  /\ sem' = IF ioStarted THEN sem ELSE sem + 1
  /\ JobFrame(<<driver, ioStarted, parsed, reprobed, claimed, opened, llVars, faults>>)

-----------------------------------------------------------------------------
(* hid_device_remove *)

RemoveLock ==
  /\ job.pc = "rlock" /\ sem > 0
  /\ sem' = sem - 1 /\ ioStarted' = FALSE
  /\ job' = [job EXCEPT !.pc = IF driver = None THEN "runlock" ELSE "rstop"]
  /\ JobFrame(<<driver, parsed, reprobed, claimed, opened, llVars, faults>>)

\* The special driver may let input in while it says goodbye to its device.
RemoveTalks == driver = Special /\ IoStart("rstop", "rtalk")
RemoveStopsInput == IoStop("rtalk", "rhw")
RemoveSilent == Job("rstop", "rhw") /\ JobFrame(<<devVars, llVars, faults>>)

RemoveHwStop ==
  /\ Job("rhw", "rclose") /\ HwStop
  /\ JobFrame(<<driver, sem, ioStarted, parsed, reprobed, faults>>)

\* hid_close_report, and the driver is forgotten.
RemoveClose ==
  /\ Job("rclose", "runlock")
  /\ parsed' = FALSE /\ driver' = None
  /\ JobFrame(<<sem, ioStarted, reprobed, claimed, opened, llVars, faults>>)

RemoveUnlock ==
  /\ Job("runlock", "try")
  /\ sem' = IF ioStarted THEN sem ELSE sem + 1
  /\ JobFrame(<<driver, ioStarted, parsed, reprobed, claimed, opened, llVars, faults>>)

JobNext ==
  \/ TryNext \/ ProbeLock \/ ProbeSignal \/ ProbeMatch \/ ProbeParse \/ ProbeStart
  \/ ProbeTalks \/ ProbeListens \/ ProbeStopsInput \/ ProbeGivesUp \/ ProbeFailed \/ Unlock
  \/ RemoveLock \/ RemoveTalks \/ RemoveStopsInput \/ RemoveSilent \/ RemoveHwStop
  \/ RemoveClose \/ RemoveUnlock

-----------------------------------------------------------------------------
(* The driver core starts jobs, each under the lock of the device *)

\* The drivers on the bus, hid-generic first.
InOrder == IF Special \in registered THEN <<Generic, Special>> ELSE <<Generic>>

Attach(ds) == job.pc = "off" /\ job' = [pc |-> "try", drv |-> None, next |-> ds]
Detach(ds) == job.pc = "off" /\ job' = [pc |-> "rlock", drv |-> None, next |-> ds]

RtFrame(v) == UNCHANGED <<driver, sem, ioStarted, parsed, claimed, opened, llVars, lifeVars, inp,
                          faults, v>>

\* hid_register_driver: the driver is on the bus, and is offered the device.
Register ==
  /\ rt = "off" /\ Special \notin registered /\ ops < MaxOps
  /\ registered' = registered \cup {Special} /\ ops' = ops + 1 /\ rt' = "attach"
  /\ RtFrame(<<job, reprobed>>)

DriverAttach ==
  /\ rt = "attach"
  /\ rt' = "scan"
  /\ IF onBus THEN Attach(<<Special>>) ELSE UNCHANGED job
  /\ RtFrame(<<registered, ops, reprobed>>)

\* Mutant of Reprobe: a device that has been reprobed once is left alone.
ReprobeNever(scanned) == FALSE

\* __hid_bus_reprobe_drivers: a device of hid-generic that a special driver could have.
Reprobe(scanned) == driver = Generic /\ ~Matches(Generic) /\ ~scanned

\* __hid_bus_driver_added, once the device has been offered; device_reprobe removes and attaches.
DriverAdded ==
  /\ rt = "scan" /\ job.pc = "off"
  /\ rt' = "off"
  /\ IF onBus /\ Reprobe(reprobed) THEN Detach(InOrder) /\ reprobed' = TRUE ELSE UNCHANGED <<job, reprobed>>
  /\ RtFrame(<<registered, ops>>)

\* hid_unregister_driver: the driver leaves its devices, then the bus looks for others.
Unregister ==
  /\ rt = "off" /\ job.pc = "off" /\ Special \in registered /\ ops < MaxOps
  /\ ops' = ops + 1 /\ rt' = "rescan"
  /\ registered' = registered \ {Special}
  /\ IF onBus /\ driver = Special THEN Detach(<<>>) ELSE UNCHANGED job
  /\ RtFrame(<<reprobed>>)

\* __bus_removed_driver
Rescan ==
  /\ rt = "rescan" /\ job.pc = "off"
  /\ rt' = "off"
  /\ IF onBus /\ driver = None THEN Attach(InOrder) ELSE UNCHANGED job
  /\ RtFrame(<<registered, ops, reprobed>>)

RtNext == Register \/ DriverAttach \/ DriverAdded \/ Unregister \/ Rescan

-----------------------------------------------------------------------------
(* The transport *)

LifeFrame(v) == UNCHANGED <<devVars, llVars, busVars, inp, v>>

\* hid_add_device: the descriptor of the transport is read first, and device_add probes.
AddDevice ==
  /\ life = "allocated" /\ ~added
  /\ \/ life' = "adding" /\ onBus' = TRUE /\ Attach(InOrder) /\ UNCHANGED <<added, faults>>
     \/ life' = "unused" /\ Fault /\ UNCHANGED <<onBus, added, job>>
  /\ LifeFrame(<<>>)

Added ==
  /\ life = "adding" /\ job.pc = "off"
  /\ life' = "added" /\ added' = TRUE
  /\ LifeFrame(<<onBus, job, faults>>)

\* hid_destroy_device: hid_remove_device takes an added device off the bus, its driver first.
DestroyDevice ==
  /\ life \in {"added", "unused"}
  /\ life' = "deleting"
  /\ IF added THEN Detach(<<>>) /\ onBus' = FALSE ELSE UNCHANGED <<job, onBus>>
  /\ LifeFrame(<<added, faults>>)

\* put_device drops the last reference; the transport's input has ended.
PutDevice ==
  /\ life = "deleting" /\ job.pc = "off" /\ inp = "off"
  /\ life' = "freed" /\ added' = FALSE
  /\ LifeFrame(<<onBus, job, faults>>)

LifeNext == AddDevice \/ Added \/ DestroyDevice \/ PutDevice

-----------------------------------------------------------------------------
(* Listeners: hid_hw_open and hid_hw_close, under ll_open_lock *)

OpenFrame(v) == UNCHANGED <<driver, sem, ioStarted, parsed, reprobed, claimed, llStarted, busVars,
                            lifeVars, job, inp, v>>

\* The first one opens the transport, and tells the driver even if that failed.
HwOpen(l) ==
  /\ l \in claimed \ opened
  /\ \/ opened' = opened \cup {l} /\ llOpen' = TRUE /\ UNCHANGED faults
     \/ opened = {} /\ Fault /\ UNCHANGED <<opened, llOpen>>
  /\ hook' = IF opened = {} /\ driver = Special THEN TRUE ELSE hook
  /\ OpenFrame(<<>>)

\* Mutant of HwClose: every listener that closes closes the transport.
HwCloseAll(l) ==
  /\ l \in opened
  /\ opened' = opened \ {l}
  /\ llOpen' = FALSE /\ hook' = FALSE
  /\ OpenFrame(<<faults>>)

HwClose(l) ==
  /\ l \in opened
  /\ opened' = opened \ {l}
  /\ IF opened' = {} THEN llOpen' = FALSE /\ hook' = FALSE ELSE UNCHANGED <<llOpen, hook>>
  /\ OpenFrame(<<faults>>)

-----------------------------------------------------------------------------
(* __hid_input_report, by the interrupt thread of the transport *)

InputFrame == UNCHANGED <<driver, ioStarted, parsed, reprobed, claimed, opened, llVars, busVars,
                          lifeVars, job, faults>>

\* down_trylock: while the semaphore is taken the report is dropped.
InputLock ==
  /\ inp = "off" /\ life \in {"adding", "added", "deleting"} /\ sem > 0
  /\ sem' = sem - 1 /\ inp' = "driver"
  /\ InputFrame

\* Mutant of InputDriver: without a driver it returns with the semaphore.
InputDriverReturns ==
  /\ inp = "driver"
  /\ inp' = IF driver = None THEN "off" ELSE "raw"
  /\ UNCHANGED sem /\ InputFrame

\* Without a driver, or without such a report, it ends.
InputDriver ==
  /\ inp = "driver"
  /\ inp' = IF driver = None THEN "unlock" ELSE "raw"
  /\ UNCHANGED sem /\ InputFrame

\* hid_get_report and the driver's raw_event.
InputRaw ==
  /\ inp = "raw"
  /\ inp' \in {"event", "unlock"}
  /\ UNCHANGED sem /\ InputFrame

\* hid_report_raw_event, through the fields of the report.
InputEvent ==
  /\ inp = "event"
  /\ inp' = "unlock"
  /\ UNCHANGED sem /\ InputFrame

InputUnlock ==
  /\ inp = "unlock"
  /\ sem' = sem + 1 /\ inp' = "off"
  /\ InputFrame

InputNext == InputDriver \/ InputRaw \/ InputEvent \/ InputUnlock

Ended == life = "freed" /\ rt = "off" /\ (ops = MaxOps) /\ UNCHANGED vars

Next ==
  \/ JobNext \/ RtNext \/ LifeNext \/ InputLock \/ InputNext
  \/ \E l \in Listeners : HwOpen(l) \/ HwClose(l)
  \/ Ended

\* The threads of the driver core, of the transport's destruction and of the input run on.  down
\* is a fair semaphore: a waiter gets it although reports keep trying.
Fairness ==
  /\ SF_vars(JobNext) /\ WF_vars(DriverAttach \/ DriverAdded \/ Rescan) /\ WF_vars(InputNext)
  /\ WF_vars(Added) /\ SF_vars(PutDevice)

Spec == Init /\ [][Next]_vars /\ Fairness

-----------------------------------------------------------------------------
ProbePcs  == {"match", "parse", "start", "talk", "answer", "giveUp", "fail", "unlock"}
RemovePcs == {"rstop", "rtalk", "rhw", "rclose", "runlock"}

Pcs  == {"off", "try", "lock", "rlock"} \cup ProbePcs \cup RemovePcs
Jobs == [pc : Pcs, drv : Drivers \cup {None}, next : Seq(Drivers)]

\* Types.
FlagsOK == {ioStarted, added, parsed, reprobed, llStarted, llOpen, hook, onBus} \subseteq BOOLEAN
CountsOK == sem \in 0 .. 1 /\ faults \in 0 .. MaxFaults /\ ops \in 0 .. MaxOps
TypeOK ==
  /\ FlagsOK /\ CountsOK
  /\ driver \in Drivers \cup {None} /\ registered \in SUBSET Drivers
  /\ claimed \in SUBSET Listeners /\ opened \in SUBSET Listeners
  /\ life \in {"allocated", "unused", "adding", "added", "deleting", "freed"}
  /\ job \in Jobs
  /\ rt \in {"off", "attach", "scan", "rescan"}
  /\ inp \in {"off", "driver", "raw", "event", "unlock"}

\* A report that is being processed has a driver and the parsed reports it walks through: neither
\* a failing probe nor a removal frees them meanwhile (driver_input_lock, "protects the current
\* driver", hid.h:695).  While a probe or a removal is under way, no report reaches the driver but
\* when the driver lets input in (hid.h:865, "During probe, input will not be passed to raw_event
\* unless hid_device_io_start is called"), and none is left inside when it stops doing so.
InputSafe ==
  inp \in {"raw", "event"} =>
    /\ driver # None /\ parsed
    /\ job.pc \in ProbePcs \cup RemovePcs => ioStarted

\* The transport is open exactly while somebody counts in ll_open_count, and only between start
\* and stop, under a driver (hid_hw_open, hid_hw_close, hid_disconnect).
OpenBalanced == (llOpen <=> opened # {}) /\ (llOpen => llStarted /\ driver # None)

\* When all is quiet and nothing has failed, the device has the special driver if there is one,
\* otherwise hid-generic, in whatever order devices and drivers came and went
\* (__hid_bus_driver_added, __bus_removed_driver).
RightDriver ==
  job.pc = "off" /\ rt = "off" /\ life = "added" /\ faults = 0 =>
    driver = IF Special \in registered THEN Special ELSE Generic

\* A device that is being destroyed is freed in the end: nobody keeps the semaphore.
DestroyEnds == life = "deleting" ~> life = "freed"
=============================================================================
