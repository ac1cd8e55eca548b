------------------------------- MODULE SpiHid -------------------------------
(***************************************************************************)
(* The HID-over-SPI (HIDSPI v3) touchpad driver, spi-hid-core.c, as added  *)
(* by patchsets/kernel/0002-romulus13-qspi-touchpad.patch: one threaded    *)
(* interrupt handler, three work items (reset, create device, refresh      *)
(* device), the HID requests of its users, probe and remove, against a     *)
(* touchpad that resets, answers late, loses requests or garbles reads.    *)
(*                                                                         *)
(* Every thread has a program counter; a step is what happens between two  *)
(* points where another thread can look.                                   *)
(***************************************************************************)
EXTENDS Integers, Sequences, FiniteSets

CONSTANTS
  Clients,            \* threads that call the HID low-level driver (hidraw users, HID drivers)
  Reports,            \* the report numbers they ask for
  Requests,           \* the requests they issue, a subset of Request
  MaxResetAttempts,   \* SPI_HID_MAX_RESET_ATTEMPTS
  MaxInitRetries,     \* SPI_HID_MAX_INIT_RETRIES
  MaxBusErrors,       \* bad header reads in a row after which the IRQ is disabled
  SupportedVersion,   \* SPI_HID_SUPPORTED_VERSION
  DeviceVersion,      \* the bcdVersion this touchpad reports
  Answers,            \* FALSE: a touchpad that reports its resets and answers nothing else
  MaxQueue,           \* bound: messages the touchpad queues in either direction
  FaultKinds,         \* what may go wrong, a subset of AllFaults
  MaxFaults,          \* bound: how often it may, in one behaviour
  NONE                \* a null pointer, no message, nobody

\* GET_FEATURE, SET_FEATURE and SET_REPORT come through spi_hid_ll_raw_request,
\* OUTPUT_REPORT through spi_hid_ll_output_report.
ClientRequests == {"GET_FEATURE", "SET_FEATURE", "SET_REPORT", "OUTPUT_REPORT"}

(***************************************************************************)
(* "reset"  the touchpad resets on its own      "lost"   it loses a request *)
(* "late"   an answer comes after the timeout   "slow"   it boots too slowly *)
(* "header" a header read fails or is garbled   "body"   a body read fails   *)
(* "write"  a request cannot be sent            "alloc"  hid_allocate_device *)
(* "register" registering the HID device fails                              *)
(***************************************************************************)
AllFaults == {"reset", "late", "lost", "slow", "header", "body", "write", "alloc", "register"}

ASSUME SpiHidAssumption ==
  /\ Requests \subseteq [req : ClientRequests, id : Reports]
  /\ FaultKinds \subseteq AllFaults
  /\ MaxResetAttempts \in Nat \ {0}
  /\ MaxInitRetries \in Nat \ {0}
  /\ MaxBusErrors \in Nat \ {0, 1}
  /\ MaxQueue \in Nat \ {0}
  /\ MaxFaults \in Nat
  /\ Answers \in BOOLEAN
  /\ NONE \notin Clients \cup Reports \cup Requests
  /\ Clients \cap {"reset", "create", "refresh", "remove"} = {}
  /\ NONE \notin {"reset", "create", "refresh", "remove",
                  "DATA", "RESET_RESP", "DEVICE_DESC", "REPORT_DESC",
                  "GET_FEATURE_RESP", "SET_FEATURE_RESP", "OUTPUT_REPORT_RESP"}
  /\ NONE \notin {SupportedVersion, DeviceVersion}

(***************************************************************************)
(* Work items are named by their function: reset_work is "reset", and so   *)
(* on.  The two that can create a HID device also name the device they     *)
(* create; Stoppers are the threads that run spi_hid_stop_hid.             *)
(***************************************************************************)
Works     == {"reset", "create", "refresh"}
Creators  == {"reset", "create"}
Stoppers  == {"reset", "create", "remove"}

AnswerTo == [GET_DD        |-> "DEVICE_DESC",
             GET_RD        |-> "REPORT_DESC",
             GET_FEATURE   |-> "GET_FEATURE_RESP",
             SET_FEATURE   |-> "SET_FEATURE_RESP",
             SET_REPORT    |-> "OUTPUT_REPORT_RESP",
             OUTPUT_REPORT |-> "OUTPUT_REPORT_RESP"]

ResponseTypes == {AnswerTo[r] : r \in DOMAIN AnswerTo}
MessageTypes  == ResponseTypes \cup {"DATA", "RESET_RESP"}
Message       == [type : MessageTypes, id : Reports \cup {NONE}]   \* id is content_id
Request       == [req : DOMAIN AnswerTo, id : Reports \cup {NONE}]

Msg(type, id) == [type |-> type, id |-> id]

WorkLabels ==
  {"idle", "flush_create", "flush_refresh", "send", "wait", "check", "copy", "pulse", "release",
   "settle", "success", "allocate", "add", "add_failed", "added", "error", "deassert",
   "cancel_create", "cancel_refresh", "destroy", "power_down"}
DriverLabels ==
  {"unbound", "probe_reset", "probe_settle", "bound", "sync_irq", "drain_reset", "drain_create",
   "drain_refresh", "stop_hid", "cancel_create", "cancel_refresh", "destroy", "power_down"}

VARIABLES
  \* the touchpad and the bus
  dev,          \* "reset" (line asserted), "booting" or "running"
  owed,         \* requests it has accepted and not answered, oldest first
  rx,           \* messages waiting to be read; the IRQ line is asserted while there are any
  faults,       \* faults still allowed
  \* struct spi_hid
  ready, hid, hidVersion, powered, powerState, attempts, busErrors, dirCount,
  resp,         \* resp_type, resp_len (0 or 1, for empty or not) and resp_buf
  rd,           \* the kind of message rd_buf was copied from; NONE while rd_len is 0
  outputDone,   \* the completion output_done
  lock,         \* the holder of the mutex
  pending,      \* work items queued and not started
  \* threads
  irq,          \* the interrupt: "off" (masked or freed), "on", "disabled" (after errors)
  irqPc, irqMsg, irqHid,
  wpc,          \* the work items' program counters
  stage, attempt, try,     \* locals of spi_hid_reset_work
  victim,       \* the HID device each stopper is destroying
  hidObj,       \* HID core's view of the HID device each creator made
  cpc, creq, cobj,         \* the clients: program counter, request, HID device used
  drv           \* where probe or remove stands

devVars    == <<dev, owed, rx>>
respVars   == <<resp, rd, hidVersion>>
irqVars    == <<irq, irqPc, irqMsg, irqHid>>
localVars  == <<stage, attempt, try>>
clientVars == <<cpc, creq, cobj>>
hidVars    == <<hid, hidObj, victim>>
powerVars  == <<powered, powerState, attempts>>
vars == <<dev, owed, rx, faults, ready, hid, hidVersion, powered, powerState, attempts,
          busErrors, dirCount, resp, rd, outputDone, lock, pending, irq, irqPc, irqMsg,
          irqHid, wpc, stage, attempt, try, victim, hidObj, cpc, creq, cobj, drv>>

Init ==
  /\ dev = "reset" /\ owed = <<>> /\ rx = <<>> /\ faults = MaxFaults
  /\ ready = FALSE /\ hid = NONE /\ hidVersion = NONE
  /\ powered = FALSE /\ powerState = "ACTIVE" /\ attempts = 0
  /\ busErrors = 0 /\ dirCount = 0
  /\ resp = [type |-> NONE, len |-> 0, buf |-> NONE] /\ rd = NONE
  /\ outputDone = TRUE /\ lock = NONE /\ pending = {}
  /\ irq = "off" /\ irqPc = "idle" /\ irqMsg = NONE /\ irqHid = NONE
  /\ wpc = [w \in Works |-> "idle"]
  /\ stage = "GET_DD" /\ attempt = 0 /\ try = 0
  /\ victim = [s \in Stoppers |-> NONE]
  /\ hidObj = [c \in Creators |-> "none"]
  /\ cpc = [c \in Clients |-> "idle"]
  /\ creq = [c \in Clients |-> NONE]
  /\ cobj = [c \in Clients |-> NONE]
  /\ drv = "unbound"

\* Mutant of InUse: only the request that holds the mutex counts.
InUseHolders == {cobj[c] : c \in {d \in Clients : lock = d}}

\* HID devices with a request in flight; HID core destroys a device after its last one.
InUse          == {cobj[c] : c \in {d \in Clients : cpc[d] # "idle"}}
Goto(w, label) == wpc' = [wpc EXCEPT ![w] = label]
Fault(kind)    == kind \in FaultKinds /\ faults > 0 /\ faults' = faults - 1
WorkBusy(w)    == w \in pending \/ wpc[w] # "idle"
Schedule(w)    == pending' = pending \cup {w}

-----------------------------------------------------------------------------
(***************************************************************************)
(* The touchpad.  Asserting the reset line forgets every request and every *)
(* message; a touchpad that has booted announces it with RESET_RESP.       *)
(***************************************************************************)
AssertReset  == dev' = "reset" /\ owed' = <<>> /\ rx' = <<>>
ReleaseReset == dev' = "booting" /\ UNCHANGED <<owed, rx>>

Booted == /\ dev' = "running" /\ owed' = <<>>
          /\ rx' = <<Msg("RESET_RESP", NONE)>>

DevUnchanged == UNCHANGED <<ready, hidVersion, powered, powerState, attempts, busErrors,
                            dirCount, resp, rd, outputDone, lock, pending, wpc, drv,
                            irqVars, localVars, clientVars, hidVars>>

DeviceBoot ==
  /\ dev = "booting"
  /\ Booted
  /\ UNCHANGED faults /\ DevUnchanged

DeviceInitiatedReset ==
  /\ dev = "running" /\ Fault("reset")
  /\ Booted
  /\ DevUnchanged

DeviceAnswer ==
  /\ dev = "running" /\ owed # <<>> /\ Len(rx) < MaxQueue
  /\ rx' = Append(rx, Msg(AnswerTo[Head(owed).req], Head(owed).id))
  /\ owed' = Tail(owed)
  /\ UNCHANGED <<dev, faults>> /\ DevUnchanged

DeviceLosesRequest ==
  /\ owed # <<>> /\ Fault("lost")
  /\ owed' = Tail(owed)
  /\ UNCHANGED <<dev, rx>> /\ DevUnchanged

\* A finger on the pad: at most one input report waits at a time.
DeviceInput ==
  /\ dev = "running" /\ Len(rx) < MaxQueue
  /\ \A i \in DOMAIN rx : rx[i].type # "DATA"
  /\ rx' = Append(rx, Msg("DATA", NONE))
  /\ UNCHANGED <<dev, owed, faults>> /\ DevUnchanged

\* The touchpad hears a request only while it runs and has room for it.
Accept(req, id) ==
  owed' = IF dev = "running" /\ Answers /\ Len(owed) < MaxQueue
            THEN Append(owed, [req |-> req, id |-> id]) ELSE owed

\* Is a message other than an input report on its way to the completion?
Listening == irq = "on" /\ powered
ResponseComing ==
  \/ irqPc \in {"store", "signal"}
  \/ irqPc = "body" /\ rx # <<>> /\ Head(rx).type # "DATA"
  \/ Listening /\ (dev = "booting" \/ \E i \in DOMAIN rx : rx[i].type # "DATA")

\* wait_for_completion_timeout: two seconds are enough for a touchpad that
\* behaves, so the clock beats an answer on its way only as a fault.
Completed == outputDone /\ outputDone' = FALSE

\* Mutant of TimedOut: wait_for_completion without a timeout.
TimedOutNever == FALSE

TimedOut  == /\ ~outputDone /\ UNCHANGED outputDone
             /\ IF ResponseComing \/ (Listening /\ owed # <<>>)
                  THEN Fault("late") ELSE UNCHANGED faults

\* The two seconds after a reset are enough to boot and, with the IRQ on, to
\* have RESET_RESP read; or that is a fault.
Settled == IF dev = "booting" \/ ResponseComing
             THEN Fault("slow") ELSE UNCHANGED faults

-----------------------------------------------------------------------------
(***************************************************************************)
(* spi_hid_irq_thread: read the header, read the body, process the report. *)
(* Processing stores the response before it looks at the completion.       *)
(***************************************************************************)
IrqUnchanged == UNCHANGED <<dev, owed, ready, hid, powered, powerState, dirCount, rd, lock,
                            wpc, drv, localVars, clientVars, victim, hidObj>>

\* Mutant of IrqReadHeader: a header in order does not clear bus_error_count.
IrqReadHeaderKeepsCount ==
  /\ irqPc = "idle" /\ irq = "on" /\ powered /\ rx # <<>>
  /\ irqPc' = "body"
  /\ IrqUnchanged
  /\ UNCHANGED <<rx, faults, hidVersion, attempts, busErrors, resp, outputDone, pending, irq, irqMsg,
                 irqHid>>

\* A header in order; garbled, it may announce no body, or one that is too long.
IrqReadHeader ==
  /\ irqPc = "idle" /\ irq = "on" /\ powered /\ rx # <<>>
  /\ busErrors' = 0
  /\ \/ irqPc' = "body" /\ UNCHANGED faults
     \/ Fault("header") /\ UNCHANGED irqPc
  /\ IrqUnchanged
  /\ UNCHANGED <<rx, hidVersion, attempts, resp, outputDone, pending, irq, irqMsg, irqHid>>

\* The read fails, or the header has a bad sync byte, version or length.
IrqBadHeader ==
  /\ irqPc = "idle" /\ irq = "on" /\ powered /\ rx # <<>>
  /\ Fault("header")
  /\ busErrors' = busErrors + 1
  /\ irq' = IF busErrors' = MaxBusErrors THEN "disabled" ELSE irq
  /\ IrqUnchanged
  /\ UNCHANGED <<rx, hidVersion, attempts, resp, outputDone, pending, irqPc, irqMsg, irqHid>>

\* A garbled body has no report type the driver knows, and is dropped.
IrqReadBody ==
  /\ irqPc = "body" /\ rx # <<>> /\ rx' = Tail(rx)
  /\ \/ /\ irqMsg' = Head(rx) /\ UNCHANGED faults
        /\ irqPc' = IF irqMsg'.type = "DATA" THEN "input" ELSE "store"
     \/ Fault("body") /\ irqPc' = "idle" /\ UNCHANGED irqMsg
  /\ IrqUnchanged
  /\ UNCHANGED <<hidVersion, attempts, busErrors, resp, outputDone, pending, irq, irqHid>>

\* The transfer fails, or a reset emptied the touchpad between the two reads;
\* the message is lost or stays for the next interrupt.
IrqBadBody ==
  /\ irqPc = "body"
  /\ IF rx = <<>> THEN UNCHANGED faults ELSE Fault("body")
  /\ rx' \in {rx, IF rx = <<>> THEN rx ELSE Tail(rx)}
  /\ busErrors' = busErrors + 1
  /\ irqPc' = "idle"
  /\ IrqUnchanged
  /\ UNCHANGED <<hidVersion, attempts, resp, outputDone, pending, irq, irqMsg, irqHid>>

\* spi_hid_input_report_handler: ready and hid are read first, hid is used after.
IrqInputReport ==
  /\ irqPc = "input"
  /\ \/ /\ ready /\ hid # NONE
        /\ irqHid' = hid /\ irqPc' = "deliver"
     \/ /\ ~ready \/ hid = NONE
        /\ irqPc' = "idle" /\ UNCHANGED irqHid
  /\ IrqUnchanged
  /\ UNCHANGED <<rx, faults, hidVersion, attempts, busErrors, resp, outputDone, pending, irq, irqMsg>>

IrqDeliver ==
  /\ irqPc = "deliver"
  /\ irqPc' = "idle" /\ irqHid' = NONE
  /\ IrqUnchanged
  /\ UNCHANGED <<rx, faults, hidVersion, attempts, busErrors, resp, outputDone, pending, irq, irqMsg>>

\* Mutant of Stored: resp_buf is filled once and not overwritten.
StoredOnce(m) ==
  [type |-> m.type, len |-> 1, buf |-> IF resp.buf = NONE THEN m ELSE resp.buf]

Stored(m) == [type |-> m.type, len |-> 1, buf |-> m]

IrqStoreResponse ==
  /\ irqPc = "store"
  /\ \/ /\ irqMsg.type = "RESET_RESP"
        /\ resp' = [resp EXCEPT !.type = "RESET_RESP", !.len = 0]
        /\ UNCHANGED <<attempts, hidVersion>>
     \/ /\ irqMsg.type = "DEVICE_DESC"
        /\ resp' = Stored(irqMsg)
        /\ attempts' = 0 /\ hidVersion' = DeviceVersion
     \/ /\ irqMsg.type \in ResponseTypes \ {"DEVICE_DESC"}
        /\ resp' = Stored(irqMsg)
        /\ UNCHANGED <<attempts, hidVersion>>
  /\ irqPc' = "signal"
  /\ IrqUnchanged
  /\ UNCHANGED <<rx, faults, busErrors, outputDone, pending, irq, irqMsg, irqHid>>

\* What an answer nobody waits for asks of the driver.
Unsolicited ==
  \/ irqMsg.type = "RESET_RESP" /\ ~ready /\ Schedule("reset")
  \/ irqMsg.type = "RESET_RESP" /\ ready /\ Schedule("refresh")
  \/ irqMsg.type = "DEVICE_DESC" /\ hid = NONE /\ Schedule("create")
  \/ irqMsg.type = "DEVICE_DESC" /\ hid # NONE /\ Schedule("refresh")
  \/ irqMsg.type \notin {"RESET_RESP", "DEVICE_DESC"} /\ UNCHANGED pending

IrqSignal ==
  /\ irqPc = "signal"
  /\ \/ ~outputDone /\ outputDone' = TRUE /\ UNCHANGED pending
     \/ outputDone /\ UNCHANGED outputDone /\ Unsolicited
  /\ irqPc' = "idle" /\ irqMsg' = NONE
  /\ IrqUnchanged
  /\ UNCHANGED <<rx, faults, hidVersion, attempts, busErrors, resp, irq, irqHid>>

-----------------------------------------------------------------------------
(***************************************************************************)
(* spi_hid_reset_work: fetch the two descriptors under the mutex, then     *)
(* create the HID device.                                                  *)
(***************************************************************************)
ResetUnchanged == UNCHANGED <<hidVersion, busErrors, resp, drv, irqVars, clientVars>>

ResetStart ==
  /\ "reset" \in pending /\ wpc["reset"] = "idle"
  /\ pending' = pending \ {"reset"}
  /\ dirCount' = IF ready THEN dirCount + 1 ELSE dirCount
  /\ Goto("reset", "flush_create")
  /\ ResetUnchanged
  /\ UNCHANGED <<devVars, faults, ready, powerVars, rd, outputDone, lock, localVars, hidVars>>

ResetFlushCreate ==
  /\ wpc["reset"] = "flush_create" /\ ~WorkBusy("create")
  /\ Goto("reset", IF powerState = "OFF" THEN "idle" ELSE "flush_refresh")
  /\ ResetUnchanged
  /\ UNCHANGED <<devVars, faults, ready, powerVars, dirCount, rd, outputDone, lock, pending,
                 localVars, hidVars>>

ResetFlushRefresh ==
  /\ wpc["reset"] = "flush_refresh" /\ ~WorkBusy("refresh")
  /\ lock = NONE /\ lock' = "reset"
  /\ stage' = "GET_DD" /\ attempt' = 0 /\ try' = 0
  /\ Goto("reset", "send")
  /\ ResetUnchanged
  /\ UNCHANGED <<devVars, faults, ready, powerVars, dirCount, rd, outputDone, pending, hidVars>>

\* Mutant of NextAttempt: no second attempt.
NextAttemptNone ==
  /\ attempt' = attempt + 1
  /\ Goto("reset", "error") /\ lock' = NONE
  /\ UNCHANGED <<stage, try>>

\* The attempt failed: pulse reset and start over, or give the mutex back and
\* leave it to the error handler.
NextAttempt ==
  /\ attempt' = attempt + 1
  /\ \/ /\ attempt' < MaxResetAttempts
        /\ Goto("reset", "pulse") /\ UNCHANGED lock
     \/ /\ attempt' = MaxResetAttempts
        /\ Goto("reset", "error") /\ lock' = NONE
  /\ UNCHANGED <<stage, try>>

\* spi_hid_sync_request: reinit_completion, then the write.
ResetSend ==
  /\ wpc["reset"] = "send"
  /\ outputDone' = FALSE
  /\ \/ Accept(stage, NONE) /\ Goto("reset", "wait") /\ UNCHANGED <<faults, localVars, lock>>
     \/ Fault("write") /\ NextAttempt /\ UNCHANGED owed
  /\ ResetUnchanged
  /\ UNCHANGED <<dev, rx, ready, powerVars, dirCount, rd, pending, hidVars>>

ResetWait ==
  /\ wpc["reset"] = "wait"
  /\ \/ Completed /\ Goto("reset", "check") /\ UNCHANGED <<faults, localVars, lock>>
     \/ TimedOut /\ NextAttempt
  /\ ResetUnchanged
  /\ UNCHANGED <<devVars, ready, powerVars, dirCount, rd, pending, hidVars>>

\* resp_type is read: the expected descriptor, or RESET_RESP or another
\* answer, after which the same request is sent again.
ResetCheck ==
  /\ wpc["reset"] = "check"
  /\ \/ /\ resp.type = AnswerTo[stage] /\ stage = "GET_DD"
        /\ stage' = "GET_RD" /\ try' = 0 /\ Goto("reset", "send") /\ UNCHANGED <<attempt, lock>>
     \/ /\ resp.type = AnswerTo[stage] /\ stage = "GET_RD"
        /\ Goto("reset", "copy") /\ UNCHANGED <<localVars, lock>>
     \/ /\ resp.type # AnswerTo[stage] /\ try + 1 < MaxInitRetries
        /\ try' = try + 1 /\ Goto("reset", "send") /\ UNCHANGED <<stage, attempt, lock>>
     \/ /\ resp.type # AnswerTo[stage] /\ try + 1 = MaxInitRetries
        /\ NextAttempt
  /\ ResetUnchanged
  /\ UNCHANGED <<devVars, faults, ready, powerVars, dirCount, rd, outputDone, pending, hidVars>>

\* resp_len is checked and resp_buf copied to rd_buf; then the mutex is released.
ResetCopy ==
  /\ wpc["reset"] = "copy"
  /\ \/ /\ resp.len > 0
        /\ rd' = resp.buf.type /\ lock' = NONE
        /\ Goto("reset", "success") /\ UNCHANGED localVars
     \/ resp.len = 0 /\ NextAttempt /\ UNCHANGED rd
  /\ ResetUnchanged
  /\ UNCHANGED <<devVars, faults, ready, powerVars, dirCount, outputDone, pending, hidVars>>

ResetPulse ==
  /\ wpc["reset"] = "pulse"
  /\ AssertReset
  /\ Goto("reset", "release")
  /\ ResetUnchanged
  /\ UNCHANGED <<faults, ready, powerVars, dirCount, rd, outputDone, lock, pending, localVars, hidVars>>

ResetRelease ==
  /\ wpc["reset"] = "release"
  /\ ReleaseReset
  /\ Goto("reset", "settle")
  /\ ResetUnchanged
  /\ UNCHANGED <<faults, ready, powerVars, dirCount, rd, outputDone, lock, pending, localVars, hidVars>>

ResetSettle ==
  /\ wpc["reset"] = "settle" /\ Settled
  /\ stage' = "GET_DD" /\ try' = 0 /\ UNCHANGED attempt
  /\ Goto("reset", "send")
  /\ ResetUnchanged
  /\ UNCHANGED <<devVars, ready, powerVars, dirCount, rd, outputDone, lock, pending, hidVars>>

ResetSuccess ==
  /\ wpc["reset"] = "success"
  /\ Goto("reset", IF hid = NONE THEN "allocate" ELSE "idle")
  /\ ResetUnchanged
  /\ UNCHANGED <<devVars, faults, ready, powerVars, dirCount, rd, outputDone, lock, pending,
                 localVars, hidVars>>

-----------------------------------------------------------------------------
(***************************************************************************)
(* spi_hid_create_device_work and spi_hid_create_device, which             *)
(* spi_hid_reset_work also calls, unlocked.                                *)
(***************************************************************************)
WorkUnchanged == UNCHANGED <<hidVersion, busErrors, dirCount, resp, rd, outputDone, lock, drv,
                             irqVars, localVars, clientVars>>

CreateStart ==
  /\ "create" \in pending /\ wpc["create"] = "idle"
  /\ pending' = pending \ {"create"}
  /\ Goto("create", IF hidVersion = SupportedVersion THEN "allocate" ELSE "error")
  /\ WorkUnchanged
  /\ UNCHANGED <<devVars, faults, ready, powerVars, hidVars>>

CreateDevice(w) ==
  /\ wpc[w] = "allocate"
  /\ \/ /\ hid' = w /\ hidObj' = [hidObj EXCEPT ![w] = "allocated"]
        /\ Goto(w, "add") /\ UNCHANGED faults
     \/ Fault("alloc") /\ Goto(w, "idle") /\ UNCHANGED <<hid, hidObj>>
  /\ WorkUnchanged
  /\ UNCHANGED <<devVars, ready, powerVars, pending, victim>>

\* hid_add_device calls spi_hid_ll_parse first, which marks the driver ready
\* when the report descriptor parses; registering the device may still fail.
HidAddDevice(w) ==
  /\ wpc[w] = "add"
  /\ \/ /\ rd # "REPORT_DESC"
        /\ Goto(w, "add_failed") /\ UNCHANGED <<ready, hidObj, faults>>
     \/ /\ rd = "REPORT_DESC" /\ ready' = TRUE
        /\ \/ hidObj' = [hidObj EXCEPT ![w] = "added"] /\ Goto(w, "added") /\ UNCHANGED faults
           \/ Fault("register") /\ Goto(w, "add_failed") /\ UNCHANGED hidObj
  /\ WorkUnchanged
  /\ UNCHANGED <<devVars, powerVars, pending, hid, victim>>

\* Mutant of HidAddFailed: shid->hid keeps pointing to the device.
HidAddFailedKeepsPointer(w) ==
  /\ wpc[w] = "add_failed" /\ hid \notin InUse
  /\ hidObj' = IF hid = NONE THEN hidObj ELSE [hidObj EXCEPT ![hid] = "none"]
  /\ Goto(w, "idle")
  /\ WorkUnchanged
  /\ UNCHANGED <<devVars, faults, ready, powerVars, pending, hid, victim>>

\* The HID device is destroyed through shid->hid, whatever that is by now.
HidAddFailed(w) ==
  /\ wpc[w] = "add_failed" /\ hid \notin InUse
  /\ hid' = NONE
  /\ hidObj' = IF hid = NONE THEN hidObj ELSE [hidObj EXCEPT ![hid] = "none"]
  /\ Goto(w, "idle")
  /\ WorkUnchanged
  /\ UNCHANGED <<devVars, faults, ready, powerVars, pending, victim>>

\* Only create_device_work clears attempts once the device is there.
HidAdded(w) ==
  /\ wpc[w] = "added"
  /\ attempts' = IF w = "create" THEN 0 ELSE attempts
  /\ Goto(w, "idle")
  /\ WorkUnchanged
  /\ UNCHANGED <<devVars, faults, ready, powered, powerState, pending, hidVars>>

RefreshWork ==
  /\ "refresh" \in pending /\ wpc["refresh"] = "idle"
  /\ pending' = pending \ {"refresh"}
  /\ ready' = TRUE
  /\ WorkUnchanged
  /\ UNCHANGED <<devVars, faults, powerVars, wpc, hidVars>>

-----------------------------------------------------------------------------
(***************************************************************************)
(* spi_hid_error_handler, run by the reset and the create work, and        *)
(* spi_hid_stop_hid, which spi_hid_remove runs too.                        *)
(***************************************************************************)
At(s, label)   == IF s = "remove" THEN drv = label ELSE wpc[s] = label
Move(s, label) == IF s = "remove" THEN drv' = label /\ UNCHANGED wpc
                                  ELSE Goto(s, label) /\ UNCHANGED drv

HandlerUnchanged == UNCHANGED <<faults, hidVersion, busErrors, dirCount, resp, rd, outputDone,
                                lock, irqVars, localVars, clientVars>>

\* Too many attempts: stop the HID device and power down.  Otherwise pulse reset.
ErrorHandler(w) ==
  /\ wpc[w] = "error"
  /\ \/ /\ powerState = "OFF"
        /\ Goto(w, "idle")
        /\ UNCHANGED <<devVars, ready, powerVars, hid, victim>>
     \/ /\ powerState # "OFF" /\ attempts >= MaxResetAttempts
        /\ attempts' = attempts + 1
        /\ victim' = [victim EXCEPT ![w] = hid] /\ hid' = NONE
        /\ Goto(w, IF hid = NONE THEN "power_down" ELSE "cancel_create")
        /\ UNCHANGED <<devVars, ready, powered, powerState>>
     \/ /\ powerState # "OFF" /\ attempts < MaxResetAttempts
        /\ attempts' = attempts + 1
        /\ ready' = FALSE /\ powerState' = "OFF" /\ AssertReset
        /\ Goto(w, "deassert")
        /\ UNCHANGED <<powered, hid, victim>>
  /\ HandlerUnchanged
  /\ UNCHANGED <<pending, hidObj, drv>>

ErrorHandlerRelease(w) ==
  /\ wpc[w] = "deassert"
  /\ powerState' = "ACTIVE" /\ ReleaseReset
  /\ Goto(w, "idle")
  /\ HandlerUnchanged
  /\ UNCHANGED <<ready, powered, attempts, pending, hidVars, drv>>

\* cancel_work_sync of the create work, then of the refresh work.  A create
\* work that gets here waits for itself.
StopCancelCreate(s) ==
  /\ At(s, "cancel_create") /\ wpc["create"] = "idle"
  /\ pending' = pending \ {"create"}
  /\ Move(s, "cancel_refresh")
  /\ HandlerUnchanged
  /\ UNCHANGED <<devVars, ready, powerVars, hidVars>>

\* hid_destroy_device unregisters the device: it accepts no new request ...
StopCancelRefresh(s) ==
  /\ At(s, "cancel_refresh") /\ wpc["refresh"] = "idle"
  /\ pending' = pending \ {"refresh"}
  /\ hidObj' = [hidObj EXCEPT ![victim[s]] = "removed"]
  /\ Move(s, "destroy")
  /\ HandlerUnchanged
  /\ UNCHANGED <<devVars, ready, powerVars, hid, victim>>

\* ... and is freed after the last one has returned.
StopDestroy(s) ==
  /\ At(s, "destroy") /\ victim[s] \notin InUse
  /\ hidObj' = [hidObj EXCEPT ![victim[s]] = "none"]
  /\ victim' = [victim EXCEPT ![s] = NONE]
  /\ Move(s, "power_down")
  /\ HandlerUnchanged
  /\ UNCHANGED <<devVars, ready, powerVars, pending, hid>>

\* spi_hid_power_down selects the sleep pin state, which is reset on this board.
StopPowerDown(s) ==
  /\ At(s, "power_down")
  /\ powered' = FALSE
  /\ IF powered THEN AssertReset ELSE UNCHANGED devVars
  /\ Move(s, IF s = "remove" THEN "unbound" ELSE "idle")
  /\ HandlerUnchanged
  /\ UNCHANGED <<ready, powerState, attempts, pending, hidVars>>

-----------------------------------------------------------------------------
(***************************************************************************)
(* spi_hid_ll_raw_request and spi_hid_ll_output_report.                    *)
(***************************************************************************)
ClientUnchanged == UNCHANGED <<ready, hidVersion, powerVars, busErrors, dirCount, resp, rd,
                               pending, irqVars, wpc, localVars, hidVars, drv>>
MoveClient(c, label) == cpc' = [cpc EXCEPT ![c] = label]

ClientCall(c) ==
  /\ cpc[c] = "idle"
  /\ \E h \in Creators, r \in Requests :
       /\ hidObj[h] = "added"
       /\ cobj' = [cobj EXCEPT ![c] = h]
       /\ creq' = [creq EXCEPT ![c] = r]
  /\ MoveClient(c, "lock")
  /\ ClientUnchanged
  /\ UNCHANGED <<devVars, faults, outputDone, lock>>

ClientLock(c) ==
  /\ cpc[c] = "lock" /\ lock = NONE
  /\ lock' = c /\ MoveClient(c, "send")
  /\ ClientUnchanged
  /\ UNCHANGED <<devVars, faults, outputDone, creq, cobj>>

ClientDone(c) == /\ MoveClient(c, "idle")
                 /\ creq' = [creq EXCEPT ![c] = NONE] /\ cobj' = [cobj EXCEPT ![c] = NONE]

AnswersFeature(c) == creq[c].req \in {"GET_FEATURE", "SET_FEATURE"}

\* An output report waits for nothing; spi_hid_ll_output_report refuses it while not ready.
ClientSendOutput(c) ==
  /\ cpc[c] = "send" /\ ~AnswersFeature(c)
  /\ \/ /\ ready \/ creq[c].req = "SET_REPORT"
        /\ \/ Accept(creq[c].req, creq[c].id) /\ UNCHANGED faults
           \/ Fault("write") /\ UNCHANGED owed
     \/ ~ready /\ creq[c].req = "OUTPUT_REPORT" /\ UNCHANGED <<owed, faults>>
  /\ lock' = NONE /\ ClientDone(c)
  /\ ClientUnchanged
  /\ UNCHANGED <<dev, rx, outputDone>>

ClientSendFeature(c) ==
  /\ cpc[c] = "send" /\ AnswersFeature(c)
  /\ outputDone' = FALSE
  /\ \/ /\ Accept(creq[c].req, creq[c].id)
        /\ MoveClient(c, "wait") /\ UNCHANGED <<faults, lock, creq, cobj>>
     \/ Fault("write") /\ lock' = NONE /\ ClientDone(c) /\ UNCHANGED owed
  /\ ClientUnchanged
  /\ UNCHANGED <<dev, rx>>

\* The mutex is released before the response is looked at.
ClientWait(c) ==
  /\ cpc[c] = "wait"
  /\ \/ Completed /\ MoveClient(c, "check") /\ UNCHANGED <<faults, creq, cobj>>
     \/ TimedOut /\ ClientDone(c)
  /\ lock' = NONE
  /\ ClientUnchanged
  /\ UNCHANGED devVars

\* A RESET_RESP counts as success, any other answer than the expected one as an error.
ClientCheck(c) ==
  /\ cpc[c] = "check"
  /\ \/ /\ creq[c].req = "GET_FEATURE" /\ resp.type = "GET_FEATURE_RESP"
        /\ MoveClient(c, "copy") /\ UNCHANGED <<creq, cobj>>
     \/ /\ creq[c].req = "SET_FEATURE" \/ resp.type # "GET_FEATURE_RESP"
        /\ ClientDone(c)
  /\ ClientUnchanged
  /\ UNCHANGED <<devVars, faults, outputDone, lock>>

\* resp_buf, as long as resp_len says, goes to the caller as report creq[c].id.
ClientCopy(c) ==
  /\ cpc[c] = "copy"
  /\ ClientDone(c)
  /\ ClientUnchanged
  /\ UNCHANGED <<devVars, faults, outputDone, lock>>

-----------------------------------------------------------------------------
(***************************************************************************)
(* spi_hid_probe and spi_hid_remove.                                       *)
(***************************************************************************)
DriverUnchanged == UNCHANGED <<faults, localVars, clientVars, wpc, irqPc, irqMsg, irqHid,
                               hidObj, victim>>

\* A new struct spi_hid; the IRQ is requested and masked, reset is asserted.
ProbeReset ==
  /\ drv = "unbound" /\ drv' = "probe_reset"
  /\ AssertReset
  /\ ready' = FALSE /\ hid' = NONE /\ hidVersion' = NONE
  /\ powered' = FALSE /\ powerState' = "ACTIVE" /\ attempts' = 0
  /\ busErrors' = 0 /\ dirCount' = 0
  /\ resp' = [type |-> NONE, len |-> 0, buf |-> NONE] /\ rd' = NONE
  /\ outputDone' = TRUE /\ lock' = NONE /\ pending' = {} /\ irq' = "off"
  /\ DriverUnchanged

ProbePowerUp ==
  /\ drv = "probe_reset" /\ drv' = "probe_settle"
  /\ ReleaseReset /\ powered' = TRUE
  /\ DriverUnchanged
  /\ UNCHANGED <<ready, hid, hidVersion, powerState, attempts, busErrors, dirCount, resp, rd,
                 outputDone, lock, pending, irq>>

ProbeArm ==
  /\ drv = "probe_settle" /\ drv' = "bound"
  /\ Settled /\ irq' = "on"
  /\ UNCHANGED <<devVars, ready, hid, hidVersion, powerVars, busErrors, dirCount, resp, rd,
                 outputDone, lock, pending, localVars, clientVars, wpc, irqPc, irqMsg, irqHid,
                 hidObj, victim>>

RemoveUnchanged == UNCHANGED <<devVars, ready, hidVersion, powerVars, busErrors, dirCount, resp,
                               rd, outputDone, lock>>

\* free_irq: no new interrupt, then wait for the handler.
RemoveFreeIrq ==
  /\ drv = "bound" /\ drv' = "sync_irq"
  /\ irq' = "off"
  /\ RemoveUnchanged /\ DriverUnchanged
  /\ UNCHANGED <<hid, pending>>

\* Mutant of RemoveSyncIrq: disable_irq_nosync for free_irq.
RemoveSyncIrqNot ==
  /\ drv = "sync_irq" /\ drv' = "drain_reset"
  /\ RemoveUnchanged /\ DriverUnchanged
  /\ UNCHANGED <<hid, pending, irq>>

RemoveSyncIrq ==
  /\ drv = "sync_irq" /\ irqPc = "idle" /\ drv' = "drain_reset"
  /\ RemoveUnchanged /\ DriverUnchanged
  /\ UNCHANGED <<hid, pending, irq>>

DrainStep == [drain_reset   |-> [work |-> "reset",   next |-> "drain_create"],
              drain_create  |-> [work |-> "create",  next |-> "drain_refresh"],
              drain_refresh |-> [work |-> "refresh", next |-> "stop_hid"]]

\* cancel_work_sync, one worker after the other.
RemoveDrain ==
  /\ drv \in DOMAIN DrainStep
  /\ wpc[DrainStep[drv].work] = "idle"
  /\ pending' = pending \ {DrainStep[drv].work}
  /\ drv' = DrainStep[drv].next
  /\ RemoveUnchanged /\ DriverUnchanged
  /\ UNCHANGED <<hid, irq>>

RemoveStopHid ==
  /\ drv = "stop_hid"
  /\ victim' = [victim EXCEPT !["remove"] = hid] /\ hid' = NONE
  /\ drv' = IF hid = NONE THEN "power_down" ELSE "cancel_create"
  /\ RemoveUnchanged
  /\ UNCHANGED <<faults, pending, irqVars, wpc, localVars, clientVars, hidObj>>

-----------------------------------------------------------------------------
Touchpad == \/ DeviceBoot \/ DeviceInitiatedReset \/ DeviceAnswer
            \/ DeviceLosesRequest \/ DeviceInput
Irq      == \/ IrqReadHeader \/ IrqBadHeader \/ IrqReadBody \/ IrqBadBody
            \/ IrqInputReport \/ IrqDeliver \/ IrqStoreResponse \/ IrqSignal
ResetWork == \/ ResetStart \/ ResetFlushCreate \/ ResetFlushRefresh \/ ResetSend
             \/ ResetWait \/ ResetCheck \/ ResetCopy \/ ResetPulse \/ ResetRelease
             \/ ResetSettle \/ ResetSuccess
Create(w) == \/ CreateDevice(w) \/ HidAddDevice(w) \/ HidAddFailed(w) \/ HidAdded(w)
             \/ ErrorHandler(w) \/ ErrorHandlerRelease(w)
StopHid(s) == \/ StopCancelCreate(s) \/ StopCancelRefresh(s) \/ StopDestroy(s)
              \/ StopPowerDown(s)
Client(c) == \/ ClientLock(c) \/ ClientSendOutput(c) \/ ClientSendFeature(c)
             \/ ClientWait(c) \/ ClientCheck(c) \/ ClientCopy(c)
Probe  == ProbeReset \/ ProbePowerUp \/ ProbeArm
Remove == RemoveSyncIrq \/ RemoveDrain \/ RemoveStopHid

Next ==
  \/ Touchpad
  \/ Irq
  \/ ResetWork
  \/ CreateStart
  \/ \E w \in Creators : Create(w)
  \/ RefreshWork
  \/ \E s \in Stoppers : StopHid(s)
  \/ \E c \in Clients : ClientCall(c) \/ Client(c)
  \/ Probe
  \/ RemoveFreeIrq
  \/ Remove

Spec == Init /\ [][Next]_vars

(***************************************************************************)
(* Scheduling: workers, the interrupt thread and a removal in progress run *)
(* as long as they can; so does a touchpad that boots or owes an answer.   *)
(* Nothing forces a client, a finger, a fault, a probe or a removal.       *)
(***************************************************************************)
Fairness ==
  /\ WF_vars(DeviceBoot) /\ WF_vars(DeviceAnswer)
  /\ WF_vars(Irq) /\ WF_vars(ResetWork) /\ WF_vars(CreateStart) /\ WF_vars(RefreshWork)
  /\ \A w \in Creators : WF_vars(Create(w))
  /\ \A s \in Stoppers : WF_vars(StopHid(s))
  /\ \A c \in Clients : SF_vars(ClientLock(c)) /\ WF_vars(Client(c))
  /\ WF_vars(ProbePowerUp \/ ProbeArm) /\ WF_vars(Remove)

FairSpec == Spec /\ Fairness

-----------------------------------------------------------------------------
TouchpadTypeOK ==
  /\ dev \in {"reset", "booting", "running"}
  /\ owed \in Seq(Request) /\ rx \in Seq(Message) /\ faults \in 0..MaxFaults

StructTypeOK ==
  /\ ready \in BOOLEAN /\ powered \in BOOLEAN /\ outputDone \in BOOLEAN
  /\ hid \in Creators \cup {NONE} /\ hidVersion \in {NONE, DeviceVersion}
  /\ powerState \in {"ACTIVE", "OFF"}
  /\ attempts \in Nat /\ busErrors \in Nat /\ dirCount \in Nat
  /\ resp \in [type : MessageTypes \cup {NONE}, len : {0, 1}, buf : Message \cup {NONE}]
  /\ rd \in MessageTypes \cup {NONE}
  /\ lock \in {"reset", NONE} \cup Clients
  /\ pending \subseteq Works

ThreadTypeOK ==
  /\ irq \in {"off", "on", "disabled"}
  /\ irqPc \in {"idle", "body", "input", "deliver", "store", "signal"}
  /\ irqMsg \in Message \cup {NONE} /\ irqHid \in Creators \cup {NONE}
  /\ wpc \in [Works -> WorkLabels]
  /\ stage \in {"GET_DD", "GET_RD"}
  /\ attempt \in 0..MaxResetAttempts /\ try \in 0..MaxInitRetries
  /\ victim \in [Stoppers -> Creators \cup {NONE}]
  /\ hidObj \in [Creators -> {"none", "allocated", "added", "removed"}]
  /\ cpc \in [Clients -> {"idle", "lock", "send", "wait", "check", "copy"}]
  /\ creq \in [Clients -> Requests \cup {NONE}]
  /\ cobj \in [Clients -> Creators \cup {NONE}]
  /\ drv \in DriverLabels

(***************************************************************************)
(* Every variable has its type: the loop counters of reset_work stay in    *)
(* their bounds and no handler builds a malformed message.                 *)
(***************************************************************************)
TypeOK == TouchpadTypeOK /\ StructTypeOK /\ ThreadTypeOK

(***************************************************************************)
(* spi_hid_irq_thread disables its own interrupt after MaxBusErrors bad    *)
(* headers in a row (1054 and 1072 test the count for equality, and only   *)
(* there): the interrupt is off for bus errors exactly when the count has  *)
(* reached the limit, although the body path (1098) counts without testing *)
(* and could have stepped over it.                                         *)
(***************************************************************************)
StormGuard == irq # "off" => (irq = "disabled" <=> busErrors >= MaxBusErrors)

\* spi_hid_remove is about to power down and free the transport buffers.
Released == drv \in {"power_down", "unbound"}

(***************************************************************************)
(* "Drain every worker before releasing the transport buffers" (1643):     *)
(* when spi_hid_remove releases them, no interrupt thread and no work item *)
(* running or queued is left that could use them, whatever order they were *)
(* scheduled in.                                                           *)
(***************************************************************************)
DrainedWorkers == Released => irqPc = "idle" /\ \A w \in Works : ~WorkBusy(w)

(***************************************************************************)
(* Nor is a HID request left: resp_buf is freed (1651) only after the last *)
(* spi_hid_ll_raw_request that could copy from it (1398) has returned.     *)
(***************************************************************************)
DrainedClients == Released => \A c \in Clients : cpc[c] = "idle"

(***************************************************************************)
(* The buffer kept as the report descriptor, rd_buf, only ever holds a     *)
(* report descriptor, although it is copied (1189-1191) from a buffer the  *)
(* interrupt thread writes, after the check of resp_type.                  *)
(***************************************************************************)
RdIsReportDescriptor == rd \in {NONE, "REPORT_DESC"}

(***************************************************************************)
(* shid->hid is null or points to a device that has not been freed, though *)
(* three threads set it, clear it and destroy what it pointed to, unlocked *)
(* (875-893, 1208-1245).                                                   *)
(***************************************************************************)
HidPointerLive == hid # NONE => hidObj[hid] # "none"

(***************************************************************************)
(* What spi_hid_ll_raw_request copies to the caller as report number       *)
(* reportnum (1388-1400) is that report, although resp_buf is read after   *)
(* the mutex is released and the content_id of an answer is never read.    *)
(***************************************************************************)
FeatureAnswersMatch ==
  \A c \in Clients :
    cpc[c] = "copy" /\ resp.len > 0 => resp.buf = Msg("GET_FEATURE_RESP", creq[c].id)

(***************************************************************************)
(* Probe to a working touchpad: a bound driver ends with a HID device and  *)
(* ready set, or is removed (reset_work's two retry loops, 1128-1194).     *)
(***************************************************************************)
BringUp == drv = "bound" ~> (ready /\ hid # NONE) \/ drv = "unbound"

(***************************************************************************)
(* spi_hid_remove returns: none of its waits (free_irq, the work items,    *)
(* hid_destroy_device) is for a thread that waits for it or for ever.      *)
(***************************************************************************)
RemoveFinishes == drv = "sync_irq" ~> drv = "unbound"

(***************************************************************************)
(* A HID request returns: with an answer, an error or a timeout, whatever  *)
(* the other users of the mutex and the touchpad do.                       *)
(***************************************************************************)
ClientReturns == \A c \in Clients : cpc[c] = "lock" ~> cpc[c] = "idle"
=============================================================================
