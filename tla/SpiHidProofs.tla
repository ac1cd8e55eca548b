---------------------------- MODULE SpiHidProofs ----------------------------
(***************************************************************************)
(* Proofs about SpiHid for any number of clients, any requests, faults and *)
(* bounds: the types, the guard against interrupt storms, that nothing     *)
(* still runs when spi_hid_remove frees the transport buffers, and that    *)
(* reset_work keeps a report descriptor and nothing else.                  *)
(***************************************************************************)
EXTENDS SpiHid, SequenceTheorems, TLAPS

\* Where reset_work holds the mutex, inside its two loops.
InLoop == {"send", "wait", "check", "copy", "pulse", "release", "settle"}

\* A thread that uses a local has set it: the loop counters are in range, a
\* message being processed is one, and so is a stored response that is not empty.
LocalsSet ==
  /\ wpc["reset"] \in InLoop => attempt < MaxResetAttempts /\ try < MaxInitRetries
  /\ irqPc \in {"store", "signal"} => irqMsg \in Message
  /\ resp.len = 1 => resp.buf \in Message
  /\ \A c \in Clients : cpc[c] # "idle" => creq[c] \in Requests

Typed == TypeOK /\ LocalsSet

\* The interrupt is requested and unmasked only while the driver is bound, and its
\* handler outlives free_irq only until the wait in free_irq is over.
IrqBound ==
  /\ irq = "off" <=> drv # "bound"
  /\ drv \notin {"bound", "sync_irq"} => irqPc = "idle"

\* A good header clears the count, so a body error finds it at zero.
ErrorsCounted ==
  /\ drv \in {"probe_reset", "probe_settle"} => busErrors = 0
  /\ drv = "bound" /\ irqPc # "idle" => busErrors = 0
  /\ StormGuard

\* The workers are drained one after the other, and only the interrupt queues them.
ResetDrained   == {"drain_create", "drain_refresh", "stop_hid", "cancel_create",
                   "cancel_refresh", "destroy", "power_down", "unbound",
                   "probe_reset", "probe_settle"}
CreateDrained  == ResetDrained \ {"drain_create"}
RefreshDrained == CreateDrained \ {"drain_refresh"}

DrainOrder ==
  /\ drv \in ResetDrained => ~WorkBusy("reset")
  /\ drv \in CreateDrained => ~WorkBusy("create")
  /\ drv \in RefreshDrained => ~WorkBusy("refresh")

Inv == Typed /\ IrqBound /\ ErrorsCounted /\ DrainOrder

-----------------------------------------------------------------------------
USE DEF vars, devVars, respVars, irqVars, localVars, clientVars, hidVars, powerVars

\* The requests the driver sends and the type of answer each asks for.
LEMMA AnswerToDomain ==
  /\ DOMAIN AnswerTo = {"GET_DD", "GET_RD", "GET_FEATURE", "SET_FEATURE", "SET_REPORT",
                        "OUTPUT_REPORT"}
  /\ ClientRequests \subseteq DOMAIN AnswerTo
  /\ \A r \in DOMAIN AnswerTo : AnswerTo[r] \in MessageTypes
BY DEF AnswerTo, ClientRequests, MessageTypes, ResponseTypes

\* The invariant holds before the driver is probed.
LEMMA InitInv == Init => Inv
<1> SUFFICES ASSUME Init PROVE Inv
  OBVIOUS
<1>1. TypeOK
  <2>1. TouchpadTypeOK
    BY SpiHidAssumption DEF Init, TouchpadTypeOK
  <2>2. StructTypeOK
    BY DEF Init, StructTypeOK
  <2>3. ThreadTypeOK
    BY SpiHidAssumption DEF Init, ThreadTypeOK, WorkLabels, DriverLabels
  <2> QED
    BY <2>1, <2>2, <2>3 DEF TypeOK
<1>2. LocalsSet
  BY DEF Init, LocalsSet, InLoop, Works
<1>3. IrqBound /\ ErrorsCounted /\ DrainOrder
  BY SpiHidAssumption DEF Init, IrqBound, ErrorsCounted, StormGuard, DrainOrder, ResetDrained,
     CreateDrained, RefreshDrained, WorkBusy, Works
<1> QED
  BY <1>1, <1>2, <1>3 DEF Inv, Typed

\* What the touchpad model builds from a type and a report number is a message.
LEMMA MsgTyped ==
  \A t \in MessageTypes, i \in Reports \cup {NONE} : Msg(t, i) \in Message
BY DEF Msg, Message

\* The touchpad's two queues hold requests and messages.
LEMMA TouchpadQueues ==
  ASSUME owed \in Seq(Request), rx \in Seq(Message), Touchpad
  PROVE  owed' \in Seq(Request) /\ rx' \in Seq(Message)
<1>1. Msg("RESET_RESP", NONE) \in Message /\ Msg("DATA", NONE) \in Message
  BY MsgTyped DEF MessageTypes
<1>2. CASE DeviceBoot \/ DeviceInitiatedReset
  <2>1. owed' = <<>> /\ rx' = <<Msg("RESET_RESP", NONE)>>
    BY <1>2 DEF DeviceBoot, DeviceInitiatedReset, Booted
  <2> QED
    BY <1>1, <2>1
<1>3. CASE DeviceAnswer
  <2>1. Head(owed) \in Request /\ Tail(owed) \in Seq(Request)
    BY <1>3, HeadTailProperties DEF DeviceAnswer
  <2>2. Msg(AnswerTo[Head(owed).req], Head(owed).id) \in Message
    BY <2>1, MsgTyped, AnswerToDomain DEF Request
  <2>3. rx' = Append(rx, Msg(AnswerTo[Head(owed).req], Head(owed).id)) /\ owed' = Tail(owed)
    BY <1>3 DEF DeviceAnswer
  <2> QED
    BY <2>1, <2>2, <2>3, AppendProperties
<1>4. CASE DeviceLosesRequest
  BY <1>4, HeadTailProperties DEF DeviceLosesRequest
<1>5. CASE DeviceInput
  <2>1. rx' = Append(rx, Msg("DATA", NONE)) /\ owed' = owed
    BY <1>5 DEF DeviceInput
  <2> QED
    BY <1>1, <2>1, AppendProperties
<1> QED
  BY <1>2, <1>3, <1>4, <1>5 DEF Touchpad

\* Reading takes the first message or leaves all of them.
LEMMA IrqQueue ==
  ASSUME rx \in Seq(Message), Irq
  PROVE  rx' \in Seq(Message)
<1>1. rx' = rx \/ (rx # <<>> /\ rx' = Tail(rx))
  BY DEF Irq, IrqReadHeader, IrqBadHeader, IrqReadBody, IrqBadBody, IrqInputReport, IrqDeliver,
     IrqStoreResponse, IrqSignal
<1> QED
  BY <1>1, HeadTailProperties

\* Typing, by who takes the step: the touchpad ...
LEMMA TouchpadTyped ==
  ASSUME Typed, Touchpad
  PROVE  Typed'
<1> USE SpiHidAssumption DEF Typed, TypeOK, TouchpadTypeOK, StructTypeOK, ThreadTypeOK, LocalsSet
<1>1. UNCHANGED <<respVars, irqVars, localVars, clientVars, hidVars, powerVars, ready,
                  busErrors, dirCount, outputDone, lock, pending, wpc, drv>>
  BY DEF Touchpad, DevUnchanged, DeviceBoot, DeviceInitiatedReset, DeviceAnswer,
     DeviceLosesRequest, DeviceInput
<1>2. faults' \in 0..MaxFaults /\ dev' \in {"reset", "booting", "running"}
  BY DEF Touchpad, DeviceBoot, DeviceInitiatedReset, DeviceAnswer,
     DeviceLosesRequest, DeviceInput, Fault, Booted
<1> QED
  BY <1>1, <1>2, TouchpadQueues

\* ... the interrupt thread ...
LEMMA IrqTyped ==
  ASSUME Typed, Irq
  PROVE  Typed'
<1> USE SpiHidAssumption DEF Typed, TypeOK, TouchpadTypeOK, StructTypeOK, ThreadTypeOK, LocalsSet
<1>0. rx' \in Seq(Message)
  BY IrqQueue
<1>1. CASE IrqReadHeader
  BY <1>1 DEF IrqReadHeader, Fault, IrqUnchanged
<1>2. CASE IrqBadHeader
  BY <1>2 DEF IrqBadHeader, Fault, IrqUnchanged
<1>3. CASE IrqReadBody
  <2>1. Head(rx) \in Message
    BY <1>3, HeadTailProperties DEF IrqReadBody
  <2>2. irqMsg' \in Message \cup {NONE} /\ (irqPc' \in {"store", "signal"} => irqMsg' \in Message)
    BY <1>3, <2>1 DEF IrqReadBody
  <2>3. irqPc' \in {"idle", "input", "store"} /\ faults' \in 0..MaxFaults
    BY <1>3 DEF IrqReadBody, Fault
  <2> QED
    BY <1>0, <1>3, <2>2, <2>3 DEF IrqReadBody, IrqUnchanged
<1>4. CASE IrqBadBody
  BY <1>0, <1>4 DEF IrqBadBody, Fault, IrqUnchanged
<1>5. CASE IrqInputReport
  BY <1>5 DEF IrqInputReport, IrqUnchanged
<1>6. CASE IrqDeliver
  BY <1>6 DEF IrqDeliver, IrqUnchanged
<1>7. CASE IrqStoreResponse
  <2>1. irqMsg \in Message /\ irqMsg.type \in MessageTypes
    BY <1>7 DEF IrqStoreResponse, Stored, Message
  <2>2. /\ resp' \in [type : MessageTypes \cup {NONE}, len : {0, 1}, buf : Message \cup {NONE}]
        /\ resp'.len = 1 => resp'.buf \in Message
    <3>1. CASE irqMsg.type = "RESET_RESP"
      <4>1. resp' = [resp EXCEPT !.type = "RESET_RESP", !.len = 0]
        BY <1>7, <3>1 DEF IrqStoreResponse, Stored, ResponseTypes, AnswerTo
      <4> QED
        BY <4>1 DEF MessageTypes
    <3>2. CASE irqMsg.type # "RESET_RESP"
      BY <1>7, <2>1, <3>2 DEF IrqStoreResponse, Stored
    <3> QED
      BY <3>1, <3>2
  <2> QED
    BY <1>7, <2>1, <2>2 DEF IrqStoreResponse, Stored, IrqUnchanged
<1>8. CASE IrqSignal
  <2>1. pending' \subseteq Works
    BY <1>8 DEF IrqSignal, Unsolicited, Schedule, Works
  <2>2. outputDone' \in BOOLEAN
    BY <1>8 DEF IrqSignal
  <2> QED
    BY <1>8, <2>1, <2>2 DEF IrqSignal, IrqUnchanged
<1> QED
  BY <1>1, <1>2, <1>3, <1>4, <1>5, <1>6, <1>7, <1>8 DEF Irq

\* A request sent by the driver or a client is queued well-formed, or not at all.
LEMMA AcceptTyped ==
  ASSUME owed \in Seq(Request), NEW r \in DOMAIN AnswerTo, NEW i \in Reports \cup {NONE},
         Accept(r, i)
  PROVE  owed' \in Seq(Request)
BY AppendProperties DEF Accept, Request

\* wait_for_completion_timeout, whichever way it ends.
LEMMA WaitTyped ==
  ASSUME outputDone \in BOOLEAN, faults \in 0..MaxFaults,
         (Completed /\ UNCHANGED faults) \/ TimedOut
  PROVE  outputDone' \in BOOLEAN /\ faults' \in 0..MaxFaults
<1>1. CASE Completed /\ UNCHANGED faults
  BY <1>1 DEF Completed
<1>2. CASE TimedOut
  <2>1. outputDone' = outputDone /\ (UNCHANGED faults \/ Fault("late"))
    BY <1>2 DEF TimedOut
  <2> QED
    BY <2>1, SpiHidAssumption DEF Fault
<1> QED
  BY <1>1, <1>2

\* ... spi_hid_reset_work, whose loops stay in their bounds ...
LEMMA ResetWorkTyped ==
  ASSUME Typed, ResetWork
  PROVE  Typed'
<1> USE SpiHidAssumption
    DEF Typed, TypeOK, TouchpadTypeOK, StructTypeOK, ThreadTypeOK, LocalsSet, Works, Goto,
        ResetUnchanged
<1>0. <<>> \in Seq(Request) /\ <<>> \in Seq(Message)
  OBVIOUS
<1>1. CASE ResetStart
  BY <1>1 DEF ResetStart, WorkLabels, InLoop
<1>2. CASE ResetFlushCreate
  BY <1>2 DEF ResetFlushCreate, WorkLabels, InLoop
<1>3. CASE ResetFlushRefresh
  BY <1>3 DEF ResetFlushRefresh, WorkLabels, InLoop
<1>4. ASSUME NextAttempt, wpc["reset"] \in InLoop
      PROVE  /\ wpc' \in [Works -> WorkLabels]
             /\ lock' \in {lock, NONE}
             /\ stage' \in {"GET_DD", "GET_RD"} /\ try' \in 0..MaxInitRetries
             /\ attempt' \in 0..MaxResetAttempts
             /\ wpc'["reset"] \in InLoop => attempt' < MaxResetAttempts /\ try' < MaxInitRetries
  BY <1>4 DEF NextAttempt, WorkLabels, InLoop
<1>5. CASE ResetSend
  <2>1. owed' \in Seq(Request)
    BY <1>5, AcceptTyped, AnswerToDomain DEF ResetSend
  <2>2. UNCHANGED faults \/ Fault("write")
    BY <1>5 DEF ResetSend
  <2>3. /\ outputDone' \in BOOLEAN
        /\ UNCHANGED <<dev, rx, ready, powerVars, dirCount, rd, pending, hidVars, hidVersion,
                       busErrors, resp, drv, irqVars, clientVars>>
    BY <1>5 DEF ResetSend
  <2>4. faults' \in 0..MaxFaults
    BY <2>2 DEF Fault
  <2>5. CASE NextAttempt
    <3>1. wpc["reset"] \in InLoop
      BY <1>5 DEF ResetSend, InLoop
    <3>2. TouchpadTypeOK'
      BY <2>3, <2>1, <2>4
    <3>3. StructTypeOK'
      BY <1>4, <2>3, <2>5, <3>1
    <3>4. ThreadTypeOK'
      BY <1>4, <2>3, <2>5, <3>1
    <3>5. LocalsSet'
      BY <1>4, <2>3, <2>5, <3>1
    <3> QED
      BY <3>2, <3>3, <3>4, <3>5
  <2>6. CASE Goto("reset", "wait") /\ UNCHANGED <<localVars, lock>>
    <3>1. wpc["reset"] \in InLoop
      BY <1>5 DEF ResetSend, InLoop
    <3>2. TouchpadTypeOK'
      BY <2>3, <2>1, <2>4
    <3>3. StructTypeOK'
      BY <2>3, <2>6
    <3>4. ThreadTypeOK'
      BY <2>3, <2>6 DEF WorkLabels
    <3>5. LocalsSet'
      BY <2>3, <2>6, <3>1
    <3> QED
      BY <3>2, <3>3, <3>4, <3>5
  <2>7. NextAttempt \/ (Goto("reset", "wait") /\ UNCHANGED <<localVars, lock>>)
    BY <1>5 DEF ResetSend
  <2> QED
    BY <2>5, <2>6, <2>7
<1>6. CASE ResetWait
  <2>1. outputDone' \in BOOLEAN /\ faults' \in 0..MaxFaults
    BY <1>6, WaitTyped DEF ResetWait
  <2>2. CASE NextAttempt
    BY <1>4, <1>6, <2>1, <2>2 DEF ResetWait, InLoop
  <2>3. CASE Goto("reset", "check") /\ UNCHANGED <<faults, localVars, lock>>
    BY <1>6, <2>1, <2>3 DEF ResetWait, WorkLabels, InLoop
  <2> QED
    BY <1>6, <2>2, <2>3 DEF ResetWait
<1>7. CASE ResetCheck
  <2>1. CASE NextAttempt
    BY <1>4, <1>7, <2>1 DEF ResetCheck, InLoop
  <2>2. CASE ~NextAttempt
    BY <1>7, <2>2 DEF ResetCheck, WorkLabels, InLoop
  <2> QED
    BY <2>1, <2>2
<1>8. CASE ResetCopy
  <2>1. CASE NextAttempt /\ UNCHANGED rd
    BY <1>4, <1>8, <2>1 DEF ResetCopy, InLoop
  <2>2. CASE resp.len > 0 /\ rd' = resp.buf.type /\ lock' = NONE /\ Goto("reset", "success")
             /\ UNCHANGED localVars
    <3>1. rd' \in MessageTypes
      BY <2>2 DEF Message
    <3> QED
      BY <1>8, <2>2, <3>1 DEF ResetCopy, WorkLabels, InLoop
  <2> QED
    BY <1>8, <2>1, <2>2 DEF ResetCopy
<1>9. CASE ResetPulse
  BY <1>0, <1>9 DEF ResetPulse, AssertReset, WorkLabels, InLoop
<1>10. CASE ResetRelease
  BY <1>10 DEF ResetRelease, ReleaseReset, WorkLabels, InLoop
<1>11. CASE ResetSettle
  BY <1>11 DEF ResetSettle, Settled, Fault, WorkLabels, InLoop
<1>12. CASE ResetSuccess
  BY <1>12 DEF ResetSuccess, WorkLabels, InLoop
<1> QED
  BY <1>1, <1>2, <1>3, <1>5, <1>6, <1>7, <1>8, <1>9, <1>10, <1>11, <1>12 DEF ResetWork

\* ... the work that creates the HID device, and the error handler ...
LEMMA CreateTyped ==
  ASSUME Typed,
         CreateStart \/ RefreshWork \/ (\E w \in Creators : Create(w))
  PROVE  Typed'
<1> USE SpiHidAssumption
    DEF Typed, TypeOK, TouchpadTypeOK, StructTypeOK, ThreadTypeOK, LocalsSet, Works, Goto,
        WorkUnchanged, HandlerUnchanged
<1>0. <<>> \in Seq(Request) /\ <<>> \in Seq(Message)
  OBVIOUS
<1>1. CASE CreateStart
  BY <1>1 DEF CreateStart, WorkLabels, InLoop
<1>2. CASE RefreshWork
  BY <1>2 DEF RefreshWork
<1>3. ASSUME NEW w \in Creators, Create(w)
      PROVE  Typed'
  <2> USE DEF Creators, Stoppers
  <2>1. CASE CreateDevice(w)
    BY <2>1 DEF CreateDevice, Fault, WorkLabels, InLoop
  <2>2. CASE HidAddDevice(w)
    <3>1. faults' \in 0..MaxFaults
      BY <2>2 DEF HidAddDevice, Fault
    <3>2. hidObj' \in [Creators -> {"none", "allocated", "added", "removed"}]
      BY <2>2 DEF HidAddDevice
    <3>3. wpc' \in [Works -> WorkLabels] /\ (wpc'["reset"] \in InLoop => wpc["reset"] \in InLoop)
      BY <2>2 DEF HidAddDevice, WorkLabels, InLoop
    <3>4. ready' \in BOOLEAN
      BY <2>2 DEF HidAddDevice
    <3> QED
      BY <2>2, <3>1, <3>2, <3>3, <3>4 DEF HidAddDevice
  <2>3. CASE HidAddFailed(w)
    BY <2>3 DEF HidAddFailed, WorkLabels, InLoop
  <2>4. CASE HidAdded(w)
    BY <2>4 DEF HidAdded, WorkLabels, InLoop
  <2>5. CASE ErrorHandler(w)
    <3>1. attempts' \in Nat
      BY <2>5 DEF ErrorHandler
    <3>2. hid' \in {hid, NONE} /\ powerState' \in {powerState, "OFF"}
      BY <2>5 DEF ErrorHandler
    <3>3. ready' \in BOOLEAN
      BY <2>5 DEF ErrorHandler
    <3>4. victim' \in [Stoppers -> Creators \cup {NONE}]
      BY <2>5 DEF ErrorHandler
    <3>5. wpc' \in [Works -> WorkLabels] /\ (wpc'["reset"] \in InLoop => wpc["reset"] \in InLoop)
      BY <2>5 DEF ErrorHandler, WorkLabels, InLoop
    <3>6. /\ dev' \in {"reset", "booting", "running"} /\ owed' \in Seq(Request)
          /\ rx' \in Seq(Message)
      BY <1>0, <2>5 DEF ErrorHandler, AssertReset
    <3>7. UNCHANGED <<powered, faults, hidVersion, busErrors, dirCount, resp, rd, outputDone,
                      lock, irqVars, localVars, clientVars, pending, hidObj, drv>>
      BY <2>5 DEF ErrorHandler
    <3>8. TouchpadTypeOK' /\ LocalsSet'
      BY <3>5, <3>6, <3>7
    <3>9. StructTypeOK'
      BY <3>1, <3>2, <3>7, <3>3
    <3>10. ThreadTypeOK'
      BY <3>4, <3>5, <3>7
    <3> QED
      BY <3>8, <3>9, <3>10
  <2>6. CASE ErrorHandlerRelease(w)
    BY <2>6 DEF ErrorHandlerRelease, ReleaseReset, WorkLabels, InLoop
  <2> QED
    BY <1>3, <2>1, <2>2, <2>3, <2>4, <2>5, <2>6 DEF Create
<1> QED
  BY <1>1, <1>2, <1>3

\* ... spi_hid_stop_hid, whoever runs it ...
LEMMA StopHidTyped ==
  ASSUME Typed, NEW s \in Stoppers, StopHid(s)
  PROVE  Typed'
<1> USE SpiHidAssumption
    DEF Typed, TypeOK, TouchpadTypeOK, StructTypeOK, ThreadTypeOK, LocalsSet, HandlerUnchanged
<1>0. <<>> \in Seq(Request) /\ <<>> \in Seq(Message)
  OBVIOUS
<1>1. /\ wpc' \in [Works -> WorkLabels] /\ drv' \in DriverLabels
      /\ wpc'["reset"] \in InLoop => wpc["reset"] \in InLoop
  <2>1. PICK label \in {"cancel_refresh", "destroy", "power_down", "unbound", "idle"} :
          Move(s, label) /\ (label = "unbound" => s = "remove") /\ (label = "idle" => s # "remove")
    BY DEF StopHid, StopCancelCreate, StopCancelRefresh, StopDestroy, StopPowerDown
  <2> QED
    BY <2>1 DEF Move, Goto, Works, Stoppers, WorkLabels, DriverLabels, InLoop
<1>2. /\ hidObj' \in [Creators -> {"none", "allocated", "added", "removed"}]
      /\ victim' \in [Stoppers -> Creators \cup {NONE}]
  BY DEF StopHid, StopCancelCreate, StopCancelRefresh, StopDestroy, StopPowerDown
<1>3. pending' \subseteq Works /\ powered' \in BOOLEAN
  BY DEF StopHid, StopCancelCreate, StopCancelRefresh, StopDestroy, StopPowerDown
<1>4. dev' \in {"reset", "booting", "running"} /\ owed' \in Seq(Request) /\ rx' \in Seq(Message)
  BY <1>0 DEF StopHid, StopCancelCreate, StopCancelRefresh, StopDestroy, StopPowerDown, AssertReset
<1>5. UNCHANGED <<ready, hid, powerState, attempts, faults, hidVersion, busErrors, dirCount,
                  resp, rd, outputDone, lock, irqVars, localVars, clientVars>>
  BY DEF StopHid, StopCancelCreate, StopCancelRefresh, StopDestroy, StopPowerDown
<1> QED
  BY <1>1, <1>2, <1>3, <1>4, <1>5

\* ... the users of the HID device ...
LEMMA ClientTyped ==
  ASSUME Typed, NEW c \in Clients, ClientCall(c) \/ Client(c)
  PROVE  Typed'
<1> USE SpiHidAssumption
    DEF Typed, TypeOK, TouchpadTypeOK, StructTypeOK, ThreadTypeOK, LocalsSet, ClientUnchanged,
        MoveClient, ClientDone
<1>0. cpc[c] # "idle" => creq[c].req \in DOMAIN AnswerTo /\ creq[c].id \in Reports \cup {NONE}
  BY AnswerToDomain
<1>1. CASE ClientCall(c)
  BY <1>1 DEF ClientCall
<1>2. CASE ClientLock(c)
  BY <1>2 DEF ClientLock
<1>3. CASE ClientSendOutput(c)
  <2>1. owed' \in Seq(Request)
    BY <1>0, <1>3, AcceptTyped DEF ClientSendOutput
  <2> QED
    BY <1>3, <2>1 DEF ClientSendOutput, Fault
<1>4. CASE ClientSendFeature(c)
  <2>1. owed' \in Seq(Request)
    BY <1>0, <1>4, AcceptTyped DEF ClientSendFeature
  <2>2. faults' \in 0..MaxFaults /\ lock' \in {lock, NONE}
    BY <1>4 DEF ClientSendFeature, Fault
  <2>3. (MoveClient(c, "wait") /\ UNCHANGED <<creq, cobj>> /\ cpc[c] # "idle") \/ ClientDone(c)
    BY <1>4 DEF ClientSendFeature
  <2>4. /\ cpc' \in [Clients -> {"idle", "lock", "send", "wait", "check", "copy"}]
        /\ creq' \in [Clients -> Requests \cup {NONE}]
        /\ cobj' \in [Clients -> Creators \cup {NONE}]
        /\ \A d \in Clients : cpc'[d] # "idle" => creq'[d] \in Requests
    <3>1. CASE MoveClient(c, "wait") /\ UNCHANGED <<creq, cobj>> /\ cpc[c] # "idle"
      BY <3>1
    <3>2. CASE ClientDone(c)
      BY <3>2
    <3> QED
      BY <2>3, <3>1, <3>2
  <2>5. UNCHANGED <<dev, rx, ready, hidVersion, powerVars, busErrors, dirCount, resp, rd,
                    pending, irqVars, wpc, localVars, hidVars, drv>> /\ outputDone' \in BOOLEAN
    BY <1>4 DEF ClientSendFeature
  <2>6. TouchpadTypeOK'
    BY <2>1, <2>2, <2>5
  <2>7. StructTypeOK'
    <3>1. lock' \in {"reset", NONE} \cup Clients /\ pending' \subseteq Works
      BY <2>2, <2>5
    <3>2. resp' \in [type : MessageTypes \cup {NONE}, len : {0, 1}, buf : Message \cup {NONE}]
      BY <2>5
    <3> QED
      BY <2>5, <3>1, <3>2
  <2>8. ThreadTypeOK' /\ LocalsSet'
    BY <2>4, <2>5
  <2> QED
    BY <2>6, <2>8, <2>7
<1>5. CASE ClientWait(c)
  <2>1. outputDone' \in BOOLEAN /\ faults' \in 0..MaxFaults
    BY <1>5, WaitTyped DEF ClientWait
  <2>2. /\ cpc' \in [Clients -> {"idle", "lock", "send", "wait", "check", "copy"}]
        /\ creq' \in [Clients -> Requests \cup {NONE}]
        /\ cobj' \in [Clients -> Creators \cup {NONE}]
        /\ \A d \in Clients : cpc'[d] # "idle" => creq'[d] \in Requests
    BY <1>5 DEF ClientWait
  <2>3. UNCHANGED <<devVars, ready, hidVersion, powerVars, busErrors, dirCount, resp, rd,
                    pending, irqVars, wpc, localVars, hidVars, drv>> /\ lock' = NONE
    BY <1>5 DEF ClientWait
  <2> QED
    BY <2>1, <2>2, <2>3
<1>6. CASE ClientCheck(c)
  <2>1. \/ MoveClient(c, "copy") /\ UNCHANGED <<creq, cobj>> /\ cpc[c] # "idle"
        \/ ClientDone(c)
    BY <1>6 DEF ClientCheck
  <2> QED
    BY <1>6, <2>1 DEF ClientCheck
<1>7. CASE ClientCopy(c)
  BY <1>7 DEF ClientCopy
<1> QED
  BY <1>1, <1>2, <1>3, <1>4, <1>5, <1>6, <1>7 DEF Client

\* ... probe and remove.
LEMMA DriverTyped ==
  ASSUME Typed, Probe \/ RemoveFreeIrq \/ Remove
  PROVE  Typed'
<1> USE SpiHidAssumption
    DEF Typed, TypeOK, TouchpadTypeOK, StructTypeOK, ThreadTypeOK, LocalsSet, Works, Stoppers,
        DriverLabels, DriverUnchanged, RemoveUnchanged
<1>0. <<>> \in Seq(Request) /\ <<>> \in Seq(Message)
  OBVIOUS
<1>1. CASE ProbeReset
  <2>1. /\ resp' \in [type : MessageTypes \cup {NONE}, len : {0, 1}, buf : Message \cup {NONE}]
        /\ resp'.len = 0
    BY <1>1 DEF ProbeReset
  <2>2. /\ TouchpadTypeOK'
        /\ UNCHANGED <<localVars, clientVars, wpc, irqPc, irqMsg, irqHid, hidObj, victim>>
    BY <1>0, <1>1 DEF ProbeReset, AssertReset
  <2>3. StructTypeOK'
    BY <1>1, <2>1 DEF ProbeReset
  <2>4. irq' = "off" /\ drv' = "probe_reset"
    BY <1>1 DEF ProbeReset
  <2> QED
    BY <2>1, <2>2, <2>3, <2>4
<1>2. CASE ProbePowerUp
  BY <1>2 DEF ProbePowerUp, ReleaseReset
<1>3. CASE ProbeArm
  BY <1>3 DEF ProbeArm, Settled, Fault
<1>4. CASE RemoveFreeIrq
  BY <1>4 DEF RemoveFreeIrq
<1>5. CASE RemoveSyncIrq
  BY <1>5 DEF RemoveSyncIrq
<1>6. CASE RemoveDrain
  <2>1. drv' \in {"drain_create", "drain_refresh", "stop_hid"}
    BY <1>6 DEF RemoveDrain, DrainStep
  <2>2. pending' \subseteq Works
    BY <1>6 DEF RemoveDrain
  <2> QED
    BY <1>6, <2>1, <2>2 DEF RemoveDrain
<1>7. CASE RemoveStopHid
  BY <1>7 DEF RemoveStopHid
<1> QED
  BY <1>1, <1>2, <1>3, <1>4, <1>5, <1>6, <1>7 DEF Probe, Remove

\* Every step keeps the types and the locals.
LEMMA TypedStep == Typed /\ [Next]_vars => Typed'
<1>1. ASSUME Typed, UNCHANGED vars
      PROVE  Typed'
  BY <1>1 DEF Typed, TypeOK, TouchpadTypeOK, StructTypeOK, ThreadTypeOK, LocalsSet
<1> QED
  BY <1>1, TouchpadTyped, IrqTyped, ResetWorkTyped, CreateTyped, StopHidTyped, ClientTyped,
     DriverTyped DEF Next

-----------------------------------------------------------------------------
(***************************************************************************)
(* The work items, and the parts of spi_hid_stop_hid that they run.        *)
(***************************************************************************)
WorkStep ==
  \/ ResetWork \/ CreateStart \/ RefreshWork
  \/ \E w \in Creators : Create(w) \/ StopHid(w)

\* No work item touches the interrupt, its error count or the driver's state; an
\* idle one stays idle.
LEMMA WorkLeaves ==
  ASSUME WorkStep, Typed
  PROVE  /\ UNCHANGED <<irq, irqPc, busErrors, drv>>
         /\ \A v \in Works : ~WorkBusy(v) => ~WorkBusy(v)'
<1>0. wpc \in [Works -> WorkLabels] /\ "idle" \in WorkLabels
  BY DEF Typed, TypeOK, ThreadTypeOK, WorkLabels
<1>1. CASE ResetWork
  <2>1. UNCHANGED <<irq, irqPc, busErrors, drv>>
    BY <1>1 DEF ResetWork, ResetStart, ResetFlushCreate, ResetFlushRefresh, ResetSend, ResetWait,
       ResetCheck, ResetCopy, ResetPulse, ResetRelease, ResetSettle, ResetSuccess, ResetUnchanged
  <2>2. WorkBusy("reset") /\ pending' \subseteq pending
    BY <1>1 DEF ResetWork, ResetStart, ResetFlushCreate, ResetFlushRefresh, ResetSend, ResetWait,
       ResetCheck, ResetCopy, ResetPulse, ResetRelease, ResetSettle, ResetSuccess, WorkBusy
  <2>3. \E label : Goto("reset", label)
    BY <1>1 DEF ResetWork, ResetStart, ResetFlushCreate, ResetFlushRefresh, ResetSend, ResetWait,
       ResetCheck, ResetCopy, ResetPulse, ResetRelease, ResetSettle, ResetSuccess, NextAttempt
  <2> QED
    BY <1>0, <2>1, <2>2, <2>3 DEF WorkBusy, Goto, Works
<1>2. CASE CreateStart
  BY <1>0, <1>2 DEF CreateStart, WorkUnchanged, Goto, WorkBusy, Works
<1>3. CASE RefreshWork
  BY <1>0, <1>3 DEF RefreshWork, WorkUnchanged, WorkBusy, Works
<1>4. ASSUME NEW w \in Creators, Create(w) \/ StopHid(w)
      PROVE  /\ UNCHANGED <<irq, irqPc, busErrors, drv>>
             /\ \A v \in Works : ~WorkBusy(v) => ~WorkBusy(v)'
  <2>0. w \in Works /\ w # "remove"
    BY DEF Creators, Works
  <2>1. UNCHANGED <<irq, irqPc, busErrors, drv>>
    BY <1>4, <2>0 DEF Create, CreateDevice, HidAddDevice, HidAddFailed, HidAdded, ErrorHandler,
       ErrorHandlerRelease, StopHid, StopCancelCreate, StopCancelRefresh, StopDestroy,
       StopPowerDown, Move, WorkUnchanged, HandlerUnchanged
  <2>2. wpc[w] # "idle" /\ pending' \subseteq pending
    BY <1>4, <2>0 DEF Create, CreateDevice, HidAddDevice, HidAddFailed, HidAdded, ErrorHandler,
       ErrorHandlerRelease, StopHid, StopCancelCreate, StopCancelRefresh, StopDestroy,
       StopPowerDown, At
  <2>3. \E label : Goto(w, label)
    BY <1>4, <2>0 DEF Create, CreateDevice, HidAddDevice, HidAddFailed, HidAdded, ErrorHandler,
       ErrorHandlerRelease, StopHid, StopCancelCreate, StopCancelRefresh, StopDestroy,
       StopPowerDown, Move
  <2> QED
    BY <1>0, <2>0, <2>1, <2>2, <2>3 DEF WorkBusy, Goto
<1> QED
  BY <1>1, <1>2, <1>3, <1>4 DEF WorkStep

\* Nor do the touchpad and the clients, which leave the work items alone too.
LEMMA OthersLeave ==
  ASSUME Touchpad \/ (\E c \in Clients : ClientCall(c) \/ Client(c)) \/ UNCHANGED vars
  PROVE  UNCHANGED <<irq, irqPc, busErrors, drv, wpc, pending>>
BY DEF Touchpad, DeviceBoot, DeviceInitiatedReset, DeviceAnswer, DeviceLosesRequest, DeviceInput,
   DevUnchanged, ClientCall, Client, ClientLock, ClientSendOutput, ClientSendFeature, ClientWait,
   ClientCheck, ClientCopy, ClientUnchanged

\* The interrupt thread, step by step: an error is counted where it is tested, or
\* right after a good header.
LEMMA IrqGuard ==
  ASSUME Typed, IrqBound, ErrorsCounted, Irq
  PROVE  IrqBound' /\ ErrorsCounted'
<1> USE SpiHidAssumption DEF IrqBound, ErrorsCounted, StormGuard, IrqUnchanged
<1>0. busErrors \in Nat /\ irq \in {"off", "on", "disabled"} /\ UNCHANGED drv
  BY DEF Typed, TypeOK, StructTypeOK, ThreadTypeOK, Irq, IrqReadHeader, IrqBadHeader, IrqReadBody,
     IrqBadBody, IrqInputReport, IrqDeliver, IrqStoreResponse, IrqSignal
<1>1. CASE IrqReadHeader
  BY <1>0, <1>1 DEF IrqReadHeader
<1>2. CASE IrqBadHeader
  BY <1>0, <1>2 DEF IrqBadHeader
<1>3. CASE IrqBadBody
  BY <1>0, <1>3 DEF IrqBadBody
<1>4. CASE IrqReadBody \/ IrqInputReport \/ IrqDeliver \/ IrqStoreResponse \/ IrqSignal
  <2>1. UNCHANGED <<irq, busErrors, drv>> /\ irqPc # "idle"
    BY <1>4 DEF IrqReadBody, IrqInputReport, IrqDeliver, IrqStoreResponse, IrqSignal
  <2> QED
    BY <2>1
<1> QED
  BY <1>1, <1>2, <1>3, <1>4 DEF Irq

\* Probe unmasks the interrupt with no error counted; remove masks it for good.
LEMMA DriverGuard ==
  ASSUME Typed, IrqBound, ErrorsCounted, Probe \/ RemoveFreeIrq \/ Remove \/ StopHid("remove")
  PROVE  IrqBound' /\ ErrorsCounted'
<1> USE SpiHidAssumption DEF IrqBound, ErrorsCounted, StormGuard, DriverUnchanged, RemoveUnchanged
<1>1. CASE ProbeReset
  BY <1>1 DEF ProbeReset
<1>2. CASE ProbePowerUp
  BY <1>2 DEF ProbePowerUp
<1>3. CASE ProbeArm
  BY <1>3 DEF ProbeArm
<1>4. CASE RemoveFreeIrq
  BY <1>4 DEF RemoveFreeIrq
<1>5. CASE RemoveSyncIrq
  BY <1>5 DEF RemoveSyncIrq
<1>6. CASE RemoveDrain
  <2>1. /\ drv \in {"drain_reset", "drain_create", "drain_refresh"}
        /\ drv' \in {"drain_create", "drain_refresh", "stop_hid"}
        /\ UNCHANGED <<irq, irqPc, busErrors>>
    BY <1>6 DEF RemoveDrain, DrainStep
  <2> QED
    BY <2>1
<1>7. CASE RemoveStopHid
  BY <1>7 DEF RemoveStopHid
<1>8. CASE StopHid("remove")
  <2>1. /\ drv \in {"cancel_create", "cancel_refresh", "destroy", "power_down"}
        /\ drv' \in {"cancel_refresh", "destroy", "power_down", "unbound"}
        /\ UNCHANGED <<irq, irqPc, busErrors>>
    BY <1>8 DEF StopHid, StopCancelCreate, StopCancelRefresh, StopDestroy, StopPowerDown, At, Move,
       HandlerUnchanged
  <2> QED
    BY <2>1
<1> QED
  BY <1>1, <1>2, <1>3, <1>4, <1>5, <1>6, <1>7, <1>8 DEF Probe, Remove

\* The steps of the driver by what they can disturb.
LEMMA NextCases ==
  ASSUME [Next]_vars
  PROVE  \/ Irq \/ WorkStep
         \/ Touchpad \/ (\E c \in Clients : ClientCall(c) \/ Client(c)) \/ UNCHANGED vars
         \/ Probe \/ RemoveFreeIrq \/ Remove \/ StopHid("remove")
BY DEF Next, WorkStep, Stoppers, Creators

\* Every step keeps the interrupt's state and its error count consistent.
LEMMA GuardStep ==
  ASSUME Typed, IrqBound, ErrorsCounted, [Next]_vars
  PROVE  IrqBound' /\ ErrorsCounted'
<1>1. ASSUME UNCHANGED <<irq, irqPc, busErrors, drv>>
      PROVE  IrqBound' /\ ErrorsCounted'
  BY <1>1 DEF IrqBound, ErrorsCounted, StormGuard
<1> QED
  BY <1>1, NextCases, IrqGuard, WorkLeaves, OthersLeave, DriverGuard

-----------------------------------------------------------------------------
\* Probe starts with every worker drained; remove drains them in its order.
LEMMA DriverDrains ==
  ASSUME Typed, DrainOrder, Probe \/ RemoveFreeIrq \/ Remove \/ StopHid("remove")
  PROVE  DrainOrder'
<1> USE DEF DrainOrder, ResetDrained, CreateDrained, RefreshDrained, WorkBusy, DriverUnchanged,
        RemoveUnchanged
<1>1. CASE ProbeReset
  BY <1>1 DEF ProbeReset
<1>2. CASE ProbePowerUp
  BY <1>2 DEF ProbePowerUp
<1>3. CASE ProbeArm
  BY <1>3 DEF ProbeArm
<1>4. CASE RemoveFreeIrq
  BY <1>4 DEF RemoveFreeIrq
<1>5. CASE RemoveSyncIrq
  BY <1>5 DEF RemoveSyncIrq
<1>6. CASE RemoveDrain
  <2>1. UNCHANGED wpc
    BY <1>6 DEF RemoveDrain
  <2>2. \/ /\ drv = "drain_reset" /\ drv' = "drain_create" /\ wpc["reset"] = "idle"
           /\ pending' = pending \ {"reset"}
        \/ /\ drv = "drain_create" /\ drv' = "drain_refresh" /\ wpc["create"] = "idle"
           /\ pending' = pending \ {"create"}
        \/ /\ drv = "drain_refresh" /\ drv' = "stop_hid" /\ wpc["refresh"] = "idle"
           /\ pending' = pending \ {"refresh"}
    BY <1>6 DEF RemoveDrain, DrainStep
  <2> QED
    BY <2>1, <2>2
<1>7. CASE RemoveStopHid
  BY <1>7 DEF RemoveStopHid
<1>8. CASE StopHid("remove")
  <2>1. /\ drv \in {"cancel_create", "cancel_refresh", "destroy", "power_down"}
        /\ drv' \in {"cancel_refresh", "destroy", "power_down", "unbound"}
        /\ UNCHANGED wpc /\ pending' \subseteq pending
    BY <1>8 DEF StopHid, StopCancelCreate, StopCancelRefresh, StopDestroy, StopPowerDown, At, Move
  <2> QED
    BY <2>1
<1> QED
  BY <1>1, <1>2, <1>3, <1>4, <1>5, <1>6, <1>7, <1>8 DEF Probe, Remove

\* Only the interrupt thread queues work, and it is gone when the draining starts.
LEMMA DrainStepInv ==
  ASSUME Typed, IrqBound, DrainOrder, [Next]_vars
  PROVE  DrainOrder'
<1>1. CASE Irq
  <2>1. UNCHANGED <<wpc, drv>> /\ (pending' = pending \/ irqPc = "signal")
    BY <1>1 DEF Irq, IrqReadHeader, IrqBadHeader, IrqReadBody, IrqBadBody, IrqInputReport,
       IrqDeliver, IrqStoreResponse, IrqSignal, IrqUnchanged
  <2>2. CASE irqPc = "signal"
    BY <2>1, <2>2 DEF IrqBound, DrainOrder, ResetDrained, CreateDrained, RefreshDrained
  <2>3. CASE pending' = pending
    BY <2>1, <2>3 DEF DrainOrder, WorkBusy
  <2> QED
    BY <2>1, <2>2, <2>3
<1>2. CASE WorkStep
  BY <1>2, WorkLeaves DEF DrainOrder, Works
<1>3. ASSUME UNCHANGED <<wpc, pending, drv>>
      PROVE  DrainOrder'
  BY <1>3 DEF DrainOrder, WorkBusy
<1> QED
  BY <1>1, <1>2, <1>3, NextCases, OthersLeave, DriverDrains

-----------------------------------------------------------------------------
\* Every step preserves the invariant.
LEMMA InvStep == Inv /\ [Next]_vars => Inv'
BY TypedStep, GuardStep, DrainStepInv DEF Inv

\* Inv is an inductive invariant of the driver, for all constants.
THEOREM Invariance == Spec => []Inv
BY InitInv, InvStep, PTL DEF Spec

(***************************************************************************)
(* Every variable keeps its type: reset_work's loop counters stay below    *)
(* their bounds, and no handler builds a malformed message.                *)
(***************************************************************************)
THEOREM TypesCorrect == Spec => []TypeOK
<1>1. Inv => TypeOK
  BY DEF Inv, Typed
<1> QED
  BY <1>1, Invariance, PTL

(***************************************************************************)
(* The interrupt is disabled exactly when MaxBusErrors headers in a row    *)
(* were bad (1054, 1072), for any MaxBusErrors above one.                  *)
(***************************************************************************)
THEOREM StormGuarded == Spec => []StormGuard
<1>1. Inv => StormGuard
  BY DEF Inv, ErrorsCounted
<1> QED
  BY <1>1, Invariance, PTL

(***************************************************************************)
(* When spi_hid_remove powers down and frees its buffers (1648-1656), the  *)
(* interrupt thread and all three work items are over and none is queued.  *)
(***************************************************************************)
THEOREM WorkersDrained == Spec => []DrainedWorkers
<1>1. Inv => DrainedWorkers
  BY DEF Inv, IrqBound, DrainOrder, DrainedWorkers, Released, ResetDrained, CreateDrained,
     RefreshDrained, Works
<1> QED
  BY <1>1, Invariance, PTL

-----------------------------------------------------------------------------
(***************************************************************************)
(* The order of answers.  The touchpad answers in the order of the         *)
(* requests, and the interrupt thread reads in the order of the answers,   *)
(* so what is owed, what waits in rx and what the interrupt thread holds   *)
(* are one queue.  It is read while the touchpad has power.                *)
(***************************************************************************)
Other == ResponseTypes \ {"REPORT_DESC"}

\* No answer with a type of T waits or is owed.
Rest(T) ==
  powered =>
    /\ \A i \in DOMAIN rx : rx[i].type \notin T
    /\ \A j \in DOMAIN owed : AnswerTo[owed[j].req] \notin T

\* Nor does the interrupt thread hold one.
NoneComing(T) == Rest(T) /\ (irqPc = "store" => irqMsg.type \notin T)

\* No answer with a type of A comes before one with a type of B.
Apart(A, B) ==
  /\ irqPc = "store" /\ irqMsg.type \in A => Rest(B)
  /\ powered =>
       /\ \A i, k \in DOMAIN rx : i < k /\ rx[i].type \in A => rx[k].type \notin B
       /\ \A i \in DOMAIN rx, j \in DOMAIN owed :
            rx[i].type \in A => AnswerTo[owed[j].req] \notin B
       /\ \A j, l \in DOMAIN owed :
            j < l /\ AnswerTo[owed[j].req] \in A => AnswerTo[owed[l].req] \notin B

\* Where reset_work waits for an answer, in its first or in its second loop, and where it is
\* giving up and the touchpad, which it is about to reset, may be in any state.
Trying   == {"send", "wait", "check"}
GivingUp == {"pulse", "error", "cancel_create", "cancel_refresh", "destroy", "power_down"}

\* While reset_work holds the mutex, or a client waits, nobody else sends.
Exclusive ==
  /\ wpc["reset"] \in InLoop => lock = "reset"
  /\ \A c \in Clients : cpc[c] \in {"send", "wait"} => lock = c

\* The touchpad has the supported version, so create_device_work never reaches the error handler,
\* and the power state is off only between the two steps of reset_work's.
NoVersionError ==
  /\ "create" \in pending => hidVersion = DeviceVersion
  /\ irqPc = "signal" /\ irqMsg.type = "DEVICE_DESC" => hidVersion = DeviceVersion
  /\ wpc["create"] \in {"idle", "allocate", "add", "add_failed", "added"}
  /\ powerState = "OFF" => wpc["reset"] = "deassert"

\* A touchpad in reset has forgotten everything, and stays there until its line is released;
\* the last body that is read without power is the announcement of a reset.
Forgotten ==
  /\ dev # "running" => rx = <<>> /\ owed = <<>>
  /\ drv = "probe_reset" \/ wpc["reset"] \in {"release", "deassert"} => dev = "reset"
  /\ ~powered /\ irqPc = "body" /\ dev = "running" => rx # <<>> /\ Head(rx).type = "RESET_RESP"

\* resp_type, resp_len and resp_buf belong together.
RespWhole ==
  /\ resp.type \in ResponseTypes => resp.buf.type = resp.type
  /\ resp.type \notin ResponseTypes => resp.len = 0
  /\ irqPc = "store" => irqMsg.type # "DATA"

\* Has reset_work's request been completed, by the response that is stored?
Seen ==
  \/ irqPc = "signal"
  \/ wpc["reset"] = "check"
  \/ wpc["reset"] = "wait" /\ outputDone

\* As long as the report descriptor has not been asked for, none follows a device descriptor.
DeviceFirst ==
  /\ Apart({"DEVICE_DESC"}, {"REPORT_DESC"})
  /\ irqPc = "signal" /\ resp.type = "DEVICE_DESC" => Rest({"REPORT_DESC"})

\* Where reset_work asks for the device descriptor, ...
AwaitsDevice ==
  wpc["reset"] \in Trying /\ stage = "GET_DD" =>
    DeviceFirst /\ (Seen /\ resp.type = "DEVICE_DESC" => NoneComing({"REPORT_DESC"}))

\* ... where it asks for the report descriptor, ...
AwaitsReport ==
  wpc["reset"] \in Trying /\ stage = "GET_RD" =>
    /\ Apart({"REPORT_DESC"}, Other)
    /\ resp.type = "REPORT_DESC" => NoneComing(Other)

\* ... where it copies it, and where it does none of this.
Copies ==
  wpc["reset"] = "copy" => NoneComing(Other) /\ resp.type \in {"REPORT_DESC", "RESET_RESP"}

Elsewhere == wpc["reset"] \notin Trying \cup GivingUp \cup {"copy"} => DeviceFirst

Answered == Exclusive /\ NoVersionError /\ Forgotten /\ RespWhole
Ordered  == AwaitsDevice /\ AwaitsReport /\ Copies /\ Elsewhere
RdInv == Answered /\ Ordered /\ RdIsReportDescriptor

-----------------------------------------------------------------------------
\* The announcement of a reset and an input report are no answers.
LEMMA AnswerTypes ==
  /\ ResponseTypes = {"DEVICE_DESC", "REPORT_DESC", "GET_FEATURE_RESP", "SET_FEATURE_RESP",
                      "OUTPUT_REPORT_RESP"}
  /\ AnswerTo["GET_DD"] = "DEVICE_DESC" /\ AnswerTo["GET_RD"] = "REPORT_DESC"
  /\ \A r \in ClientRequests : AnswerTo[r] \in ResponseTypes \ {"DEVICE_DESC", "REPORT_DESC"}
<1>1. DOMAIN AnswerTo = {"GET_DD", "GET_RD", "GET_FEATURE", "SET_FEATURE", "SET_REPORT",
                         "OUTPUT_REPORT"}
  BY DEF AnswerTo
<1>2. /\ AnswerTo["GET_DD"] = "DEVICE_DESC" /\ AnswerTo["GET_RD"] = "REPORT_DESC"
      /\ AnswerTo["GET_FEATURE"] = "GET_FEATURE_RESP"
      /\ AnswerTo["SET_FEATURE"] = "SET_FEATURE_RESP"
      /\ AnswerTo["SET_REPORT"] = "OUTPUT_REPORT_RESP"
      /\ AnswerTo["OUTPUT_REPORT"] = "OUTPUT_REPORT_RESP"
  BY DEF AnswerTo
<1> QED
  BY <1>1, <1>2 DEF ResponseTypes, ClientRequests

\* The elements of a sequence that has grown by one, and of one that has lost its first.
LEMMA Elements ==
  ASSUME NEW S, NEW s \in Seq(S), NEW x \in S
  PROVE  /\ DOMAIN s = 1 .. Len(s) /\ Len(s) \in Nat
         /\ DOMAIN Append(s, x) = 1 .. Len(s) + 1
         /\ \A k \in 1 .. Len(s) : Append(s, x)[k] = s[k]
         /\ Append(s, x)[Len(s) + 1] = x
         /\ s # <<>> => /\ 1 \in DOMAIN s /\ Head(s) = s[1] /\ Head(s) \in S
                        /\ DOMAIN Tail(s) = 1 .. Len(s) - 1
                        /\ \A k \in 1 .. Len(s) - 1 : Tail(s)[k] = s[k + 1]
BY AppendProperties, HeadTailProperties, LenProperties

\* Nothing moves; the queue is forgotten; the power goes.
LEMMA OrderKept ==
  ASSUME NEW A, NEW B, UNCHANGED <<rx, owed, powered, irqPc, irqMsg>>
  PROVE  /\ Apart(A, B) => Apart(A, B)'
         /\ Rest(B) => Rest(B)'
         /\ NoneComing(B) => NoneComing(B)'
BY DEF Apart, Rest, NoneComing

LEMMA OrderForgotten ==
  ASSUME NEW A, NEW B, (rx' = <<>> /\ owed' = <<>>) \/ powered' = FALSE
  PROVE  Apart(A, B)' /\ Rest(B)'
<1>1. ASSUME rx' = <<>>, owed' = <<>> PROVE DOMAIN rx' = {} /\ DOMAIN owed' = {}
  BY <1>1
<1>2. CASE powered' = FALSE
  BY <1>2 DEF Apart, Rest
<1>3. CASE rx' = <<>> /\ owed' = <<>>
  BY <1>1, <1>3 DEF Apart, Rest
<1> QED
  BY <1>2, <1>3

\* A request is accepted, whose answer is not of the second kind.
LEMMA OrderSent ==
  ASSUME Typed, NEW A, NEW B, NEW r \in DOMAIN AnswerTo, NEW id \in Reports \cup {NONE},
         Accept(r, id), AnswerTo[r] \notin B, UNCHANGED <<rx, powered, irqPc, irqMsg>>
  PROVE  /\ Apart(A, B) => Apart(A, B)'
         /\ Rest(B) => Rest(B)'
         /\ NoneComing(B) => NoneComing(B)'
<1> DEFINE q == [req |-> r, id |-> id]
<1>1. owed \in Seq(Request) /\ q \in Request /\ q.req = r
  BY DEF Typed, TypeOK, TouchpadTypeOK, Request
<1>2. CASE owed' = owed
  BY <1>2, OrderKept
<1>3. CASE owed' = Append(owed, q)
  <2> HIDE DEF q
  <2>1. /\ DOMAIN owed = 1 .. Len(owed) /\ Len(owed) \in Nat
        /\ DOMAIN owed' = 1 .. Len(owed) + 1
        /\ \A k \in 1 .. Len(owed) : owed'[k] = owed[k]
        /\ owed'[Len(owed) + 1] = q
    BY <1>1, <1>3, Elements
  <2>2. \A k \in DOMAIN owed' : (k \in DOMAIN owed /\ owed'[k] = owed[k]) \/ owed'[k].req = r
    BY <1>1, <2>1
  <2>3. \A j, l \in DOMAIN owed' : j < l => j \in DOMAIN owed /\ owed'[j] = owed[j]
    BY <2>1
  <2>4. Rest(B) => Rest(B)'
    BY <2>2 DEF Rest
  <2>5. Apart(A, B) => Apart(A, B)'
    BY <2>2, <2>3, <2>4 DEF Apart
  <2> QED
    BY <2>4, <2>5 DEF NoneComing
<1> QED
  BY <1>2, <1>3 DEF Accept

\* What the touchpad does keeps the order.
LEMMA OrderTouchpad ==
  ASSUME Typed, Touchpad, NEW A, NEW B, {"RESET_RESP", "DATA"} \cap (A \cup B) = {}
  PROVE  /\ Apart(A, B) => Apart(A, B)'
         /\ Rest(B) => Rest(B)'
         /\ NoneComing(B) => NoneComing(B)'
<1>1. UNCHANGED <<powered, irqPc, irqMsg>>
  BY DEF Touchpad, DeviceBoot, DeviceInitiatedReset, DeviceAnswer, DeviceLosesRequest, DeviceInput,
     DevUnchanged
<1>2. rx \in Seq(Message) /\ owed \in Seq(Request)
  BY DEF Typed, TypeOK, TouchpadTypeOK
<1>3. /\ Msg("RESET_RESP", NONE) \in Message /\ Msg("DATA", NONE) \in Message
      /\ Msg("RESET_RESP", NONE).type = "RESET_RESP" /\ Msg("DATA", NONE).type = "DATA"
  BY MsgTyped DEF MessageTypes, Msg
<1>4. CASE DeviceBoot \/ DeviceInitiatedReset
  <2>1. rx' = <<Msg("RESET_RESP", NONE)>> /\ owed' = <<>>
    BY <1>4 DEF DeviceBoot, DeviceInitiatedReset, Booted
  <2>2. /\ DOMAIN owed' = {}
        /\ \A i \in DOMAIN rx' : i = 1 /\ rx'[i].type = "RESET_RESP"
    BY <1>3, <2>1
  <2> QED
    BY <1>1, <2>2 DEF Apart, Rest, NoneComing
<1>5. CASE DeviceAnswer
  <2> DEFINE m == Msg(AnswerTo[Head(owed).req], Head(owed).id)
  <2>1. owed # <<>> /\ rx' = Append(rx, m) /\ owed' = Tail(owed)
    BY <1>5 DEF DeviceAnswer
  <2>2. /\ DOMAIN owed = 1 .. Len(owed) /\ 1 \in DOMAIN owed /\ Head(owed) = owed[1]
        /\ Head(owed) \in Request
        /\ \A k \in DOMAIN owed' : k \in Nat /\ k + 1 \in DOMAIN owed /\ owed'[k] = owed[k + 1]
                                   /\ 1 < k + 1
    BY <1>2, <2>1, Elements
  <2>3. m \in Message /\ m.type = AnswerTo[owed[1].req]
    BY <2>2, MsgTyped, AnswerToDomain DEF Request, Msg
  <2> HIDE DEF m
  <2>4. /\ DOMAIN rx = 1 .. Len(rx) /\ Len(rx) \in Nat /\ DOMAIN rx' = 1 .. Len(rx) + 1
        /\ \A k \in 1 .. Len(rx) : rx'[k] = rx[k]
        /\ rx'[Len(rx) + 1] = m
    BY <1>2, <2>1, <2>3, Elements
  <2>5. \A i \in DOMAIN rx' : \/ i \in DOMAIN rx /\ rx'[i] = rx[i]
                              \/ rx'[i].type = AnswerTo[owed[1].req]
    BY <2>3, <2>4
  <2>6. \A i, k \in DOMAIN rx' : i < k => i \in DOMAIN rx /\ rx'[i] = rx[i]
    BY <2>4
  <2>7. \A j, l \in DOMAIN owed' : j < l => j + 1 < l + 1
    BY <2>2
  <2>8. Rest(B) => Rest(B)'
    BY <1>1, <2>2, <2>5 DEF Rest
  <2>9. Apart(A, B) => Apart(A, B)'
    <3> SUFFICES ASSUME Apart(A, B) PROVE Apart(A, B)'
      OBVIOUS
    <3>1. (irqPc = "store" /\ irqMsg.type \in A => Rest(B))'
      BY <1>1, <2>8 DEF Apart
    <3> SUFFICES ASSUME powered PROVE Apart(A, B)'
      BY <1>1, <3>1 DEF Apart
    <3>2. \A i, k \in DOMAIN rx' : i < k /\ rx'[i].type \in A => rx'[k].type \notin B
      BY <2>2, <2>5, <2>6 DEF Apart
    <3>3. \A i \in DOMAIN rx', j \in DOMAIN owed' :
            rx'[i].type \in A => AnswerTo[owed'[j].req] \notin B
      BY <2>2, <2>5 DEF Apart
    <3>4. \A j, l \in DOMAIN owed' :
            j < l /\ AnswerTo[owed'[j].req] \in A => AnswerTo[owed'[l].req] \notin B
      BY <2>2, <2>7 DEF Apart
    <3> QED
      BY <3>1, <3>2, <3>3, <3>4 DEF Apart
  <2> QED
    BY <1>1, <2>8, <2>9 DEF NoneComing
<1>6. CASE DeviceLosesRequest
  <2>1. owed # <<>> /\ owed' = Tail(owed) /\ rx' = rx
    BY <1>6 DEF DeviceLosesRequest
  <2>2. \A k \in DOMAIN owed' : k \in Nat /\ k + 1 \in DOMAIN owed /\ owed'[k] = owed[k + 1]
    BY <1>2, <2>1, Elements
  <2>3. \A j, l \in DOMAIN owed' : j < l => j + 1 < l + 1
    BY <2>2
  <2> QED
    BY <1>1, <2>1, <2>2, <2>3 DEF Apart, Rest, NoneComing
<1>7. CASE DeviceInput
  <2>1. rx' = Append(rx, Msg("DATA", NONE)) /\ owed' = owed
    BY <1>7 DEF DeviceInput
  <2>2. /\ DOMAIN rx = 1 .. Len(rx) /\ Len(rx) \in Nat /\ DOMAIN rx' = 1 .. Len(rx) + 1
        /\ \A k \in 1 .. Len(rx) : rx'[k] = rx[k]
        /\ rx'[Len(rx) + 1] = Msg("DATA", NONE)
    BY <1>2, <1>3, <2>1, Elements
  <2>3. \A i \in DOMAIN rx' : (i \in DOMAIN rx /\ rx'[i] = rx[i]) \/ rx'[i].type = "DATA"
    BY <1>3, <2>2
  <2> QED
    BY <1>1, <2>1, <2>3 DEF Apart, Rest, NoneComing
<1> QED
  BY <1>4, <1>5, <1>6, <1>7 DEF Touchpad

\* So does the interrupt thread, and what it stores has nothing before it.
LEMMA OrderIrq ==
  ASSUME Typed, Forgotten, Irq, NEW A, NEW B, {"RESET_RESP", "DATA"} \cap (A \cup B) = {}
  PROVE  /\ Apart(A, B) => Apart(A, B)'
         /\ Rest(B) => Rest(B)'
         /\ NoneComing(B) => NoneComing(B)'
         /\ irqPc' = "signal" => irqPc = "store"
         /\ IrqStoreResponse /\ Apart(A, B) /\ irqMsg.type \in A => Rest(B)'
<1>1. UNCHANGED <<owed, powered>> /\ rx \in Seq(Message)
  BY DEF Irq, IrqReadHeader, IrqBadHeader, IrqReadBody, IrqBadBody, IrqInputReport, IrqDeliver,
     IrqStoreResponse, IrqSignal, IrqUnchanged, Typed, TypeOK, TouchpadTypeOK
<1>2. CASE rx' = rx /\ irqPc' # "store"
  <2>1. Rest(B) => Rest(B)'
    BY <1>1, <1>2 DEF Rest
  <2>2. Apart(A, B) => Apart(A, B)'
    BY <1>1, <1>2 DEF Apart
  <2>3. irqPc' = "signal" => irqPc = "store"
    BY DEF Irq, IrqReadHeader, IrqBadHeader, IrqReadBody, IrqBadBody, IrqInputReport, IrqDeliver,
       IrqStoreResponse, IrqSignal
  <2>4. IrqStoreResponse /\ Apart(A, B) /\ irqMsg.type \in A => Rest(B)'
    BY <2>1 DEF IrqStoreResponse, Apart
  <2> QED
    BY <1>2, <2>1, <2>2, <2>3, <2>4 DEF NoneComing
<1>3. CASE irqPc = "body" /\ rx # <<>> /\ rx' = Tail(rx)
  <2>1. /\ 1 \in DOMAIN rx /\ Head(rx) = rx[1]
        /\ \A k \in DOMAIN rx' : k \in Nat /\ 1 < k + 1 /\ k + 1 \in DOMAIN rx /\ rx'[k] = rx[k + 1]
    BY <1>1, <1>3, Elements
  <2>2. \A j, l \in DOMAIN rx' : j < l => j + 1 < l + 1
    BY <2>1
  <2>3. irqPc' # "signal" /\ ~IrqStoreResponse
    BY <1>3 DEF Irq, IrqReadHeader, IrqBadHeader, IrqReadBody, IrqBadBody, IrqInputReport,
       IrqDeliver, IrqStoreResponse, IrqSignal
  <2>4. irqPc' = "store" => irqMsg' = rx[1] /\ irqMsg'.type # "DATA"
    BY <1>3, <2>1 DEF Irq, IrqReadHeader, IrqBadHeader, IrqReadBody, IrqBadBody, IrqInputReport,
       IrqDeliver, IrqStoreResponse, IrqSignal
  <2>5. Rest(B) => Rest(B)'
    BY <1>1, <2>1 DEF Rest
  <2>6. Apart(A, B) => Apart(A, B)'
    BY <1>1, <2>1, <2>2, <2>4 DEF Apart, Rest
  <2>7. ~powered => rx[1].type = "RESET_RESP"
    BY <1>3, <2>1 DEF Forgotten
  <2>8. NoneComing(B) => NoneComing(B)'
    BY <2>1, <2>4, <2>5, <2>7 DEF NoneComing, Rest
  <2> QED
    BY <2>3, <2>5, <2>6, <2>8
<1>4. \/ rx' = rx /\ irqPc' # "store"
      \/ irqPc = "body" /\ rx # <<>> /\ rx' = Tail(rx)
  BY DEF Irq, IrqReadHeader, IrqBadHeader, IrqReadBody, IrqBadBody, IrqInputReport, IrqDeliver,
     IrqStoreResponse, IrqSignal
<1> QED
  BY <1>2, <1>3, <1>4

-----------------------------------------------------------------------------
\* A touchpad and its queues, by whoever takes the step: it forgets everything when reset, and
\* then accepts nothing before it has announced itself.
LEMMA ForgottenStep ==
  ASSUME Inv, NoVersionError, Forgotten, [Next]_vars
  PROVE  Forgotten'
<1> USE DEF Forgotten
<1>0. rx \in Seq(Message) /\ owed \in Seq(Request)
  BY DEF Inv, Typed, TypeOK, TouchpadTypeOK
<1>00. wpc \in [Works -> WorkLabels] /\ "reset" \in Works /\ "create" \in Works
  BY DEF Inv, Typed, TypeOK, ThreadTypeOK, Works
<1>1. ASSUME UNCHANGED <<dev, rx, powered>>, owed' = owed \/ dev = "running",
             irqPc' = irqPc \/ irqPc' # "body", drv' = drv \/ drv' # "probe_reset",
             wpc'["reset"] = wpc["reset"] \/ wpc'["reset"] \notin {"release", "deassert"}
      PROVE  Forgotten'
  BY <1>1
<1>2. ASSUME AssertReset PROVE Forgotten'
  BY <1>2 DEF AssertReset
<1>3. CASE Touchpad
  <2>1. UNCHANGED <<powered, irqPc, drv, wpc>>
    BY <1>3 DEF Touchpad, DeviceBoot, DeviceInitiatedReset, DeviceAnswer, DeviceLosesRequest,
       DeviceInput, DevUnchanged
  <2>2. CASE DeviceBoot \/ DeviceInitiatedReset
    <3>1. /\ dev \in {"booting", "running"} /\ dev' = "running"
          /\ rx' = <<Msg("RESET_RESP", NONE)>>
      BY <2>2 DEF DeviceBoot, DeviceInitiatedReset, Booted
    <3>2. rx' # <<>> /\ Head(rx').type = "RESET_RESP"
      BY <3>1 DEF Msg
    <3> QED
      BY <2>1, <3>1, <3>2
  <2>3. CASE DeviceAnswer \/ DeviceInput
    <3>1. dev = "running" /\ dev' = "running" /\ \E m : rx' = Append(rx, m)
      BY <2>3 DEF DeviceAnswer, DeviceInput, DevUnchanged
    <3>2. rx # <<>> => rx' # <<>> /\ Head(rx') = Head(rx)
      BY <1>0, <3>1
    <3> QED
      BY <2>1, <3>1, <3>2
  <2>4. CASE DeviceLosesRequest
    <3>1. owed # <<>> /\ UNCHANGED <<dev, rx>>
      BY <2>4 DEF DeviceLosesRequest
    <3> QED
      BY <2>1, <3>1
  <2> QED
    BY <1>3, <2>2, <2>3, <2>4 DEF Touchpad
<1>4. CASE Irq
  <2>1. UNCHANGED <<dev, owed, powered, drv, wpc>>
    BY <1>4 DEF Irq, IrqReadHeader, IrqBadHeader, IrqReadBody, IrqBadBody, IrqInputReport,
       IrqDeliver, IrqStoreResponse, IrqSignal, IrqUnchanged
  <2>2. /\ irqPc' = "body" => powered /\ rx' = rx
        /\ rx = <<>> => rx' = rx
    BY <1>4 DEF Irq, IrqReadHeader, IrqBadHeader, IrqReadBody, IrqBadBody, IrqInputReport,
       IrqDeliver, IrqStoreResponse, IrqSignal
  <2> QED
    BY <2>1, <2>2
<1>5. CASE ResetWork
  <2>1. CASE ResetPulse
    BY <1>2, <2>1 DEF ResetPulse
  <2>2. CASE ResetRelease
    <3>1. /\ UNCHANGED <<rx, owed, powered, irqPc, drv>> /\ dev' = "booting"
          /\ wpc["reset"] = "release" /\ wpc'["reset"] = "settle"
      BY <1>00, <2>2 DEF ResetRelease, ReleaseReset, ResetUnchanged, Goto
    <3>2. drv # "probe_reset"
      BY <3>1 DEF Inv, DrainOrder, ResetDrained, WorkBusy
    <3> QED
      BY <3>1, <3>2
  <2>3. CASE ~ResetPulse /\ ~ResetRelease
    <3>1. /\ UNCHANGED <<dev, rx, powered, irqPc, drv>> /\ (owed' = owed \/ dev = "running")
          /\ wpc'["reset"] \notin {"release", "deassert"}
      BY <1>00, <1>5, <2>3 DEF Goto, NextAttempt,
         ResetWork, ResetStart, ResetFlushCreate, ResetFlushRefresh, ResetSend,
         ResetWait, ResetCheck, ResetCopy, ResetSettle, ResetSuccess, ResetUnchanged, Accept
    <3> QED
      BY <1>1, <3>1
  <2> QED
    BY <2>1, <2>2, <2>3
<1>6. CASE CreateStart \/ RefreshWork
  BY <1>00, <1>1, <1>6 DEF CreateStart, RefreshWork, WorkUnchanged, Goto
<1>7. ASSUME NEW w \in Creators, Create(w) PROVE Forgotten'
  <2>0. drv' = drv /\ irqPc' = irqPc /\ powered' = powered
    BY <1>7 DEF Create, CreateDevice, HidAddDevice, HidAddFailed, HidAdded, ErrorHandler,
       ErrorHandlerRelease, WorkUnchanged, HandlerUnchanged
  <2>1. UNCHANGED devVars \/ AssertReset \/ (ReleaseReset /\ wpc[w] = "deassert")
    BY <1>7 DEF Create, CreateDevice, HidAddDevice, HidAddFailed, HidAdded, ErrorHandler,
       ErrorHandlerRelease
  <2>2. CASE ReleaseReset /\ wpc[w] = "deassert"
    <3>1. w = "reset"
      BY <2>2 DEF NoVersionError, Creators
    <3>2. drv # "probe_reset" /\ wpc'["reset"] = "idle"
      BY <1>00, <1>7, <2>2, <3>1 DEF Inv, DrainOrder, ResetDrained, WorkBusy, Create, CreateDevice,
         HidAddDevice, HidAddFailed, HidAdded, ErrorHandler, ErrorHandlerRelease, Goto
    <3> QED
      BY <2>0, <2>2, <3>1, <3>2 DEF ReleaseReset
  <2>3. ~AssertReset => wpc'["reset"] = wpc["reset"] \/ wpc'["reset"] \notin {"release", "deassert"}
    BY <1>00, <1>7 DEF Create, CreateDevice, HidAddDevice, HidAddFailed, HidAdded, ErrorHandler,
       ErrorHandlerRelease, Goto
  <2> QED
    BY <1>1, <1>2, <2>0, <2>1, <2>2, <2>3
<1>8. ASSUME NEW s \in Stoppers, StopHid(s) PROVE Forgotten'
  <2>1. /\ irqPc' = irqPc /\ (drv' = drv \/ drv' # "probe_reset")
        /\ wpc'["reset"] = wpc["reset"] \/ wpc'["reset"] \notin {"release", "deassert"}
    BY <1>00, <1>8 DEF Goto, StopHid, StopCancelCreate, StopCancelRefresh, StopDestroy,
       StopPowerDown, Move,
       HandlerUnchanged
  <2>2. \/ UNCHANGED <<devVars, powered>>
        \/ AssertReset
        \/ UNCHANGED devVars /\ ~powered /\ powered' = FALSE
    BY <1>8 DEF StopHid, StopCancelCreate, StopCancelRefresh, StopDestroy, StopPowerDown
  <2> QED
    BY <1>2, <2>1, <2>2
<1>9. ASSUME NEW c \in Clients, ClientCall(c) \/ Client(c) PROVE Forgotten'
  <2>1. UNCHANGED <<dev, rx, powered, irqPc, drv, wpc>> /\ (owed' = owed \/ dev = "running")
    BY <1>9 DEF ClientCall, Client, ClientLock, ClientSendOutput, ClientSendFeature, ClientWait,
       ClientCheck, ClientCopy, ClientUnchanged, Accept
  <2> QED
    BY <1>1, <2>1
<1>10. CASE ProbeReset
  BY <1>2, <1>10 DEF ProbeReset, AssertReset
<1>11. CASE ProbePowerUp
  <2>1. /\ dev = "reset" /\ drv' # "probe_reset" /\ powered' = TRUE /\ dev' = "booting"
        /\ UNCHANGED <<rx, owed, wpc>> /\ drv = "probe_reset"
    BY <1>11 DEF ProbePowerUp, ReleaseReset, DriverUnchanged
  <2>2. wpc["reset"] = "idle"
    BY <2>1 DEF Inv, DrainOrder, ResetDrained, WorkBusy
  <2> QED
    BY <2>1, <2>2
<1>12. CASE ProbeArm \/ RemoveFreeIrq \/ Remove
  <2>1. UNCHANGED <<dev, rx, owed, powered, irqPc, wpc>> /\ drv' # "probe_reset"
    BY <1>12 DEF ProbeArm, RemoveFreeIrq, Remove, RemoveSyncIrq, RemoveDrain, RemoveStopHid,
       RemoveUnchanged, DriverUnchanged, DrainStep
  <2> QED
    BY <1>1, <2>1
<1>13. CASE UNCHANGED vars
  BY <1>1, <1>13
<1> QED
  BY <1>3, <1>4, <1>5, <1>6, <1>7, <1>8, <1>9, <1>10, <1>11, <1>12, <1>13 DEF Next, Probe

\* What is stored is whole.
LEMMA RespWholeStep ==
  ASSUME Inv, RespWhole, [Next]_vars
  PROVE  RespWhole'
<1> USE DEF RespWhole
<1>1. ASSUME UNCHANGED <<resp, irqPc, irqMsg>> PROVE RespWhole'
  BY <1>1
<1>2. CASE Irq
  <2>1. CASE IrqStoreResponse
    <3>1. irqMsg \in Message /\ resp \in [type : MessageTypes \cup {NONE}, len : {0, 1},
                                          buf : Message \cup {NONE}]
      BY <2>1 DEF IrqStoreResponse, Inv, Typed, LocalsSet, TypeOK, StructTypeOK
    <3>2. CASE irqMsg.type = "RESET_RESP"
      <4>1. resp'.type = "RESET_RESP" /\ resp'.len = 0
        BY <2>1, <3>1, <3>2, AnswerTypes DEF IrqStoreResponse
      <4> QED
        BY <2>1, <4>1, AnswerTypes DEF IrqStoreResponse
    <3>3. CASE irqMsg.type # "RESET_RESP"
      BY <2>1, <3>3, AnswerTypes DEF IrqStoreResponse, Stored
    <3> QED
      BY <3>2, <3>3
  <2>2. CASE ~IrqStoreResponse
    BY <1>2, <2>2 DEF Irq, IrqReadHeader, IrqBadHeader, IrqReadBody, IrqBadBody, IrqInputReport,
       IrqDeliver, IrqSignal
  <2> QED
    BY <2>1, <2>2
<1>3. CASE WorkStep
  BY <1>1, <1>3 DEF WorkStep, ResetWork, ResetStart, ResetFlushCreate, ResetFlushRefresh, ResetSend,
     ResetWait, ResetCheck, ResetCopy, ResetPulse, ResetRelease, ResetSettle, ResetSuccess,
     ResetUnchanged, CreateStart, RefreshWork, Create, CreateDevice, HidAddDevice, HidAddFailed,
     HidAdded, ErrorHandler, ErrorHandlerRelease, StopHid, StopCancelCreate, StopCancelRefresh,
     StopDestroy, StopPowerDown, WorkUnchanged, HandlerUnchanged
<1>4. CASE Touchpad \/ UNCHANGED vars
  BY <1>1, <1>4 DEF Touchpad, DeviceBoot, DeviceInitiatedReset, DeviceAnswer, DeviceLosesRequest,
     DeviceInput, DevUnchanged
<1>5. CASE \E c \in Clients : ClientCall(c) \/ Client(c)
  BY <1>1, <1>5 DEF ClientCall, Client, ClientLock, ClientSendOutput, ClientSendFeature, ClientWait,
     ClientCheck, ClientCopy, ClientUnchanged
<1>6. CASE ProbeReset
  <2>1. resp'.type = NONE /\ resp'.len = 0 /\ UNCHANGED <<irqPc, irqMsg>>
    BY <1>6 DEF ProbeReset, DriverUnchanged
  <2>2. NONE \notin ResponseTypes
    BY SpiHidAssumption, AnswerTypes
  <2> QED
    BY <2>1, <2>2
<1>7. CASE ProbePowerUp \/ ProbeArm \/ RemoveFreeIrq \/ Remove \/ StopHid("remove")
  BY <1>1, <1>7 DEF ProbePowerUp, ProbeArm, RemoveFreeIrq, Remove, RemoveSyncIrq, RemoveDrain,
     RemoveStopHid, StopHid, StopCancelCreate, StopCancelRefresh, StopDestroy, StopPowerDown,
     DriverUnchanged, RemoveUnchanged, HandlerUnchanged
<1> QED
  BY <1>2, <1>3, <1>4, <1>5, <1>6, <1>7, NextCases DEF Probe

-----------------------------------------------------------------------------
\* Who holds the mutex: a probe comes after the last request has returned.
LEMMA ExclusiveStep ==
  ASSUME Inv, DrainedClients, Exclusive, [Next]_vars
  PROVE  Exclusive'
<1> USE DEF Exclusive
<1>0. /\ wpc \in [Works -> WorkLabels] /\ "reset" \in Works
      /\ cpc \in [Clients -> {"idle", "lock", "send", "wait", "check", "copy"}]
      /\ NONE \notin Clients /\ "reset" \notin Clients /\ NONE # "reset"
  BY SpiHidAssumption DEF Inv, Typed, TypeOK, ThreadTypeOK, Works
<1>1. ASSUME UNCHANGED <<lock, cpc>>,
             wpc'["reset"] = wpc["reset"] \/ wpc'["reset"] \notin InLoop
      PROVE  Exclusive'
  BY <1>1
<1>2. CASE Irq \/ Touchpad \/ UNCHANGED vars
  BY <1>1, <1>2 DEF Irq, IrqReadHeader, IrqBadHeader, IrqReadBody, IrqBadBody, IrqInputReport,
     IrqDeliver, IrqStoreResponse, IrqSignal, IrqUnchanged, Touchpad, DeviceBoot,
     DeviceInitiatedReset, DeviceAnswer, DeviceLosesRequest, DeviceInput, DevUnchanged
<1>3. CASE ResetWork
  <2>1. cpc' = cpc
    BY <1>3 DEF ResetWork, ResetStart, ResetFlushCreate, ResetFlushRefresh, ResetSend, ResetWait,
       ResetCheck, ResetCopy, ResetPulse, ResetRelease, ResetSettle, ResetSuccess, ResetUnchanged
  <2>2. CASE ResetStart \/ ResetFlushCreate \/ ResetSuccess
    <3>1. lock' = lock /\ wpc'["reset"] \notin InLoop
      BY <1>0, <2>2 DEF ResetStart, ResetFlushCreate, ResetSuccess, Goto, InLoop
    <3> QED
      BY <1>1, <2>1, <3>1
  <2>3. CASE ResetFlushRefresh
    <3>1. lock = NONE /\ lock' = "reset"
      BY <2>3 DEF ResetFlushRefresh
    <3> QED
      BY <1>0, <2>1, <3>1
  <2>4. CASE ~(ResetStart \/ ResetFlushCreate \/ ResetSuccess \/ ResetFlushRefresh)
    <3>1. wpc["reset"] \in InLoop /\ (lock' = lock \/ wpc'["reset"] \notin InLoop)
      BY <1>0, <1>3, <2>4 DEF ResetWork, ResetSend, ResetWait, ResetCheck, ResetCopy, ResetPulse,
         ResetRelease, ResetSettle, NextAttempt, Goto, InLoop
    <3> QED
      BY <1>0, <2>1, <3>1
  <2> QED
    BY <2>2, <2>3, <2>4
<1>4. CASE CreateStart \/ RefreshWork
  BY <1>0, <1>1, <1>4 DEF CreateStart, RefreshWork, WorkUnchanged, Goto
<1>5. ASSUME NEW w \in Creators, Create(w) PROVE Exclusive'
  BY <1>0, <1>1, <1>5 DEF Create, CreateDevice, HidAddDevice, HidAddFailed, HidAdded, ErrorHandler,
     ErrorHandlerRelease, WorkUnchanged, HandlerUnchanged, Goto, InLoop
<1>6. ASSUME NEW s \in Stoppers, StopHid(s) PROVE Exclusive'
  BY <1>0, <1>1, <1>6 DEF StopHid, StopCancelCreate, StopCancelRefresh, StopDestroy, StopPowerDown,
     HandlerUnchanged, Move, Goto, InLoop
<1>7. ASSUME NEW c \in Clients, ClientCall(c) \/ Client(c) PROVE Exclusive'
  <2>1. wpc' = wpc /\ \A d \in Clients : d # c => cpc'[d] = cpc[d]
    BY <1>0, <1>7 DEF ClientCall, Client, ClientLock, ClientSendOutput, ClientSendFeature,
       ClientWait, ClientCheck, ClientCopy, ClientUnchanged, MoveClient, ClientDone
  <2>2. CASE ClientCall(c) \/ ClientCheck(c) \/ ClientCopy(c)
    <3>1. lock' = lock /\ cpc'[c] \notin {"send", "wait"}
      BY <1>0, <2>2 DEF ClientCall, ClientCheck, ClientCopy, MoveClient, ClientDone
    <3> QED
      BY <2>1, <3>1
  <2>3. CASE ClientLock(c)
    <3>1. lock = NONE /\ lock' = c
      BY <2>3 DEF ClientLock
    <3> QED
      BY <1>0, <2>1, <3>1
  <2>4. CASE ClientSendOutput(c) \/ ClientSendFeature(c) \/ ClientWait(c)
    <3>1. /\ cpc[c] \in {"send", "wait"}
          /\ lock' = lock \/ (lock' = NONE /\ cpc'[c] \notin {"send", "wait"})
      BY <1>0, <2>4 DEF ClientSendOutput, ClientSendFeature, ClientWait, MoveClient, ClientDone
    <3>2. lock = c
      BY <3>1
    <3> QED
      BY <1>0, <2>1, <3>1, <3>2
  <2> QED
    BY <1>7, <2>2, <2>3, <2>4 DEF Client
<1>8. CASE ProbeReset
  <2>1. drv = "unbound" /\ UNCHANGED <<wpc, cpc>>
    BY <1>8 DEF ProbeReset, DriverUnchanged
  <2>2. wpc["reset"] = "idle" /\ \A c \in Clients : cpc[c] = "idle"
    BY <2>1 DEF Inv, DrainOrder, ResetDrained, WorkBusy, DrainedClients, Released
  <2> QED
    BY <2>1, <2>2 DEF InLoop
<1>9. CASE ProbePowerUp \/ ProbeArm \/ RemoveFreeIrq \/ Remove
  BY <1>1, <1>9 DEF ProbePowerUp, ProbeArm, RemoveFreeIrq, Remove, RemoveSyncIrq, RemoveDrain,
     RemoveStopHid, RemoveUnchanged, DriverUnchanged
<1> QED
  BY <1>2, <1>3, <1>4, <1>5, <1>6, <1>7, <1>8, <1>9 DEF Next, Probe

\* A touchpad of the supported version never sends the create work to the error handler.
LEMMA NoVersionErrorStep ==
  ASSUME Inv, NoVersionError, DeviceVersion = SupportedVersion, [Next]_vars
  PROVE  NoVersionError'
<1> USE DEF NoVersionError
<1>0. /\ wpc \in [Works -> WorkLabels] /\ "reset" \in Works /\ "create" \in Works
      /\ pending \subseteq Works
  BY DEF Inv, Typed, TypeOK, ThreadTypeOK, StructTypeOK, Works
<1>1. ASSUME UNCHANGED <<hidVersion, irqPc, irqMsg, powerState, wpc>>, pending' \subseteq pending
      PROVE  NoVersionError'
  BY <1>1
<1>2. CASE Irq
  <2>1. UNCHANGED <<powerState, wpc>>
    BY <1>2 DEF Irq, IrqReadHeader, IrqBadHeader, IrqReadBody, IrqBadBody, IrqInputReport,
       IrqDeliver, IrqStoreResponse, IrqSignal, IrqUnchanged
  <2>2. CASE IrqStoreResponse
    <3>1. /\ hidVersion' = hidVersion \/ hidVersion' = DeviceVersion
          /\ irqMsg.type = "DEVICE_DESC" => hidVersion' = DeviceVersion
          /\ UNCHANGED <<irqMsg, pending>>
      BY <2>2, AnswerTypes DEF IrqStoreResponse
    <3> QED
      BY <2>1, <3>1
  <2>3. CASE IrqSignal
    <3>1. hidVersion' = hidVersion /\ irqPc' = "idle" /\ irqPc = "signal"
      BY <2>3 DEF IrqSignal
    <3>2. "create" \in pending' => "create" \in pending \/ irqMsg.type = "DEVICE_DESC"
      BY <2>3 DEF IrqSignal, Unsolicited, Schedule
    <3> QED
      BY <2>1, <3>1, <3>2
  <2>4. CASE ~IrqStoreResponse /\ ~IrqSignal
    <3>1. UNCHANGED <<hidVersion, pending>> /\ irqPc' # "signal"
      BY <1>2, <2>4 DEF Irq, IrqReadHeader, IrqBadHeader, IrqReadBody, IrqBadBody, IrqInputReport,
         IrqDeliver, IrqStoreResponse
    <3> QED
      BY <2>1, <3>1
  <2> QED
    BY <2>2, <2>3, <2>4
<1>3. CASE ResetWork
  <2>1. /\ UNCHANGED <<hidVersion, irqPc, irqMsg, powerState>> /\ pending' \subseteq pending
        /\ wpc["reset"] # "deassert" /\ \E label : Goto("reset", label)
    BY <1>3 DEF ResetWork, ResetStart, ResetFlushCreate, ResetFlushRefresh, ResetSend, ResetWait,
       ResetCheck, ResetCopy, ResetPulse, ResetRelease, ResetSettle, ResetSuccess, ResetUnchanged,
       NextAttempt
  <2> QED
    BY <1>0, <2>1 DEF Goto
<1>4. CASE CreateStart
  BY <1>0, <1>4 DEF CreateStart, WorkUnchanged, Goto
<1>5. CASE RefreshWork
  BY <1>1, <1>5 DEF RefreshWork, WorkUnchanged
<1>6. ASSUME NEW w \in Creators, Create(w) PROVE NoVersionError'
  <2>0. /\ w \in Works /\ UNCHANGED <<hidVersion, irqPc, irqMsg, pending>>
        /\ wpc' = [wpc EXCEPT ![w] = wpc'[w]]
    BY <1>0, <1>6 DEF Creators, Create, CreateDevice, HidAddDevice, HidAddFailed, HidAdded,
       ErrorHandler, ErrorHandlerRelease, WorkUnchanged, HandlerUnchanged, Goto, Works
  <2>1. CASE w = "create"
    <3>1. powerState' = powerState /\ wpc'[w] \in {"idle", "add", "add_failed", "added"}
      BY <1>0, <1>6, <2>1 DEF Create, CreateDevice, HidAddDevice, HidAddFailed, HidAdded,
         ErrorHandler, ErrorHandlerRelease, Goto
    <3> QED
      BY <1>0, <2>0, <2>1, <3>1
  <2>2. CASE w = "reset"
    <3>1. powerState' = "OFF" => wpc'["reset"] = "deassert"
      BY <1>0, <1>6, <2>2 DEF Create, CreateDevice, HidAddDevice, HidAddFailed, HidAdded,
         ErrorHandler, ErrorHandlerRelease, Goto
    <3> QED
      BY <1>0, <2>0, <2>2, <3>1
  <2> QED
    BY <2>1, <2>2 DEF Creators
<1>7. ASSUME NEW s \in Stoppers, StopHid(s) PROVE NoVersionError'
  <2>0. UNCHANGED <<hidVersion, irqPc, irqMsg, powerState>> /\ pending' \subseteq pending
    BY <1>7 DEF StopHid, StopCancelCreate, StopCancelRefresh, StopDestroy, StopPowerDown,
       HandlerUnchanged
  <2>1. CASE s = "remove"
    BY <1>1, <1>7, <2>0, <2>1 DEF StopHid, StopCancelCreate, StopCancelRefresh, StopDestroy,
       StopPowerDown, Move
  <2>2. CASE s = "reset"
    <3>1. wpc["reset"] # "deassert" /\ \E label : Goto("reset", label)
      BY <1>7, <2>2 DEF StopHid, StopCancelCreate, StopCancelRefresh, StopDestroy,
         StopPowerDown, At, Move
    <3> QED
      BY <1>0, <2>0, <3>1 DEF Goto
  <2>3. s # "create"
    BY <1>7 DEF StopHid, StopCancelCreate, StopCancelRefresh, StopDestroy, StopPowerDown, At
  <2> QED
    BY <2>1, <2>2, <2>3 DEF Stoppers
<1>8. CASE Touchpad \/ UNCHANGED vars
  BY <1>1, <1>8 DEF Touchpad, DeviceBoot, DeviceInitiatedReset, DeviceAnswer, DeviceLosesRequest,
     DeviceInput, DevUnchanged
<1>9. CASE \E c \in Clients : ClientCall(c) \/ Client(c)
  BY <1>1, <1>9 DEF ClientCall, Client, ClientLock, ClientSendOutput, ClientSendFeature, ClientWait,
     ClientCheck, ClientCopy, ClientUnchanged
<1>10. CASE ProbeReset
  <2>1. /\ drv = "unbound" /\ UNCHANGED <<wpc, irqPc>> /\ pending' = {}
        /\ powerState' = "ACTIVE"
    BY <1>10 DEF ProbeReset, DriverUnchanged
  <2>2. irqPc = "idle"
    BY <2>1 DEF Inv, IrqBound
  <2> QED
    BY <2>1, <2>2
<1>11. CASE ProbePowerUp \/ ProbeArm \/ RemoveFreeIrq \/ Remove
  BY <1>1, <1>11 DEF ProbePowerUp, ProbeArm, RemoveFreeIrq, Remove, RemoveSyncIrq, RemoveDrain,
     RemoveStopHid, RemoveUnchanged, DriverUnchanged
<1> QED
  BY <1>2, <1>3, <1>4, <1>5, <1>6, <1>7, <1>8, <1>9, <1>10, <1>11 DEF Next, Probe

-----------------------------------------------------------------------------
\* The sets of types the order of answers is about.
LEMMA OrderTypes ==
  /\ {"RESET_RESP", "DATA"} \cap ({"DEVICE_DESC"} \cup {"REPORT_DESC"}) = {}
  /\ {"RESET_RESP", "DATA"} \cap ({"REPORT_DESC"} \cup Other) = {}
  /\ "DEVICE_DESC" \in Other /\ "REPORT_DESC" \notin Other
  /\ ResponseTypes = Other \cup {"REPORT_DESC"}
BY AnswerTypes DEF Other

\* The queue does not move, no request of reset_work completes, and reset_work stays where it is.
LEMMA OrderedKept ==
  ASSUME Ordered, UNCHANGED <<rx, owed, powered, irqPc, irqMsg, resp>>, outputDone' => outputDone,
         wpc'["reset"] = wpc["reset"], stage' = stage
  PROVE  Ordered'
<1>1. /\ DeviceFirst => DeviceFirst'
      /\ Apart({"REPORT_DESC"}, Other) => Apart({"REPORT_DESC"}, Other)'
      /\ NoneComing({"REPORT_DESC"}) => NoneComing({"REPORT_DESC"})'
      /\ NoneComing(Other) => NoneComing(Other)'
  BY OrderKept DEF DeviceFirst
<1>2. Seen' => Seen
  BY DEF Seen
<1> QED
  BY <1>1, <1>2 DEF Ordered, AwaitsDevice, AwaitsReport, Copies, Elsewhere

\* The touchpad is reset or has no power, and reset_work is outside its loops.
LEMMA OrderedForgotten ==
  ASSUME (rx' = <<>> /\ owed' = <<>>) \/ powered' = FALSE, wpc'["reset"] \notin Trying \cup {"copy"}
  PROVE  Ordered'
BY OrderForgotten DEF Ordered, AwaitsDevice, AwaitsReport, Copies, Elsewhere, DeviceFirst

\* The touchpad answers in order, ...
LEMMA OrderedTouchpad ==
  ASSUME Typed, Ordered, Touchpad
  PROVE  Ordered'
<1>1. UNCHANGED <<irqPc, irqMsg, resp, outputDone, wpc, stage>>
  BY DEF Touchpad, DeviceBoot, DeviceInitiatedReset, DeviceAnswer, DeviceLosesRequest, DeviceInput,
     DevUnchanged
<1>2. /\ DeviceFirst => DeviceFirst'
      /\ Apart({"REPORT_DESC"}, Other) => Apart({"REPORT_DESC"}, Other)'
      /\ NoneComing({"REPORT_DESC"}) => NoneComing({"REPORT_DESC"})'
      /\ NoneComing(Other) => NoneComing(Other)'
  BY <1>1, OrderTouchpad, OrderTypes DEF DeviceFirst
<1>3. Seen' => Seen
  BY <1>1 DEF Seen
<1> QED
  BY <1>1, <1>2, <1>3 DEF Ordered, AwaitsDevice, AwaitsReport, Copies, Elsewhere

\* ... the interrupt thread stores the answers in order, ...
LEMMA OrderedIrq ==
  ASSUME Typed, Forgotten, RespWhole, Ordered, Irq
  PROVE  Ordered'
<1>1. UNCHANGED <<wpc, stage>>
  BY DEF Irq, IrqReadHeader, IrqBadHeader, IrqReadBody, IrqBadBody, IrqInputReport, IrqDeliver,
     IrqStoreResponse, IrqSignal, IrqUnchanged
<1>2. /\ Apart({"DEVICE_DESC"}, {"REPORT_DESC"}) => Apart({"DEVICE_DESC"}, {"REPORT_DESC"})'
      /\ Apart({"REPORT_DESC"}, Other) => Apart({"REPORT_DESC"}, Other)'
      /\ NoneComing({"REPORT_DESC"}) => NoneComing({"REPORT_DESC"})'
      /\ NoneComing(Other) => NoneComing(Other)'
  BY OrderIrq, OrderTypes
<1>3. CASE IrqStoreResponse
  <2>1. /\ irqPc = "store" /\ irqPc' = "signal"
        /\ UNCHANGED outputDone /\ irqMsg \in Message
    BY <1>3 DEF IrqStoreResponse, Typed, LocalsSet
  <2>2. resp'.type = irqMsg.type
    <3>1. resp \in [type : MessageTypes \cup {NONE}, len : {0, 1}, buf : Message \cup {NONE}]
      BY DEF Typed, TypeOK, StructTypeOK
    <3>2. CASE irqMsg.type = "RESET_RESP"
      BY <1>3, <3>1, <3>2, AnswerTypes DEF IrqStoreResponse
    <3>3. CASE irqMsg.type # "RESET_RESP"
      BY <1>3, <3>3 DEF IrqStoreResponse, Stored
    <3> QED
      BY <3>2, <3>3
  <2>3. /\ Apart({"DEVICE_DESC"}, {"REPORT_DESC"}) /\ resp'.type = "DEVICE_DESC"
             => Rest({"REPORT_DESC"})' /\ NoneComing({"REPORT_DESC"})'
        /\ Apart({"REPORT_DESC"}, Other) /\ resp'.type = "REPORT_DESC"
             => NoneComing(Other)'
    BY <1>3, <2>1, <2>2, OrderIrq, OrderTypes DEF NoneComing
  <2>4. DeviceFirst => DeviceFirst'
    BY <1>2, <2>3 DEF DeviceFirst
  <2>5. NoneComing(Other) => resp'.type \in {"REPORT_DESC", "RESET_RESP"}
    <3>1. irqMsg.type \in ResponseTypes \cup {"RESET_RESP"}
      BY <2>1 DEF RespWhole, Message, MessageTypes
    <3> QED
      BY <2>1, <2>2, <3>1, OrderTypes DEF NoneComing
  <2> QED
    BY <1>1, <1>2, <2>3, <2>4, <2>5
    DEF Ordered, AwaitsDevice, AwaitsReport, Copies, Elsewhere, DeviceFirst
<1>4. CASE ~IrqStoreResponse
  <2>1. /\ resp' = resp /\ irqPc # "store" /\ irqPc' # "signal"
        /\ (outputDone' => outputDone) \/ irqPc = "signal"
    BY <1>4 DEF Irq, IrqReadHeader, IrqBadHeader, IrqReadBody, IrqBadBody, IrqInputReport,
       IrqDeliver, IrqStoreResponse, IrqSignal
  <2>2. (Seen' => Seen) /\ (DeviceFirst => DeviceFirst')
    BY <1>1, <1>2, <2>1 DEF Seen, DeviceFirst
  <2> QED
    BY <1>1, <1>2, <2>1, <2>2 DEF Ordered, AwaitsDevice, AwaitsReport, Copies, Elsewhere
<1> QED
  BY <1>3, <1>4

-----------------------------------------------------------------------------
\* ... reset_work asks for the second descriptor only after the first one has come, ...
LEMMA OrderedReset ==
  ASSUME Inv, Forgotten, RespWhole, Ordered, ResetWork
  PROVE  Ordered'
<1>0. /\ wpc \in [Works -> WorkLabels] /\ "reset" \in Works
      /\ Typed /\ stage \in {"GET_DD", "GET_RD"}
  BY DEF Inv, Typed, TypeOK, ThreadTypeOK, Works
<1>1. UNCHANGED <<resp, irqPc, irqMsg, powered>>
  BY DEF ResetWork, ResetStart, ResetFlushCreate, ResetFlushRefresh, ResetSend, ResetWait,
     ResetCheck, ResetCopy, ResetPulse, ResetRelease, ResetSettle, ResetSuccess, ResetUnchanged
<1>2. ASSUME wpc'["reset"] \in GivingUp PROVE Ordered'
  <2>1. wpc'["reset"] \notin Trying /\ wpc'["reset"] # "copy"
    BY <1>2 DEF GivingUp, Trying
  <2> QED
    BY <1>2, <2>1 DEF Ordered, AwaitsDevice, AwaitsReport, Copies, Elsewhere
<1>3. ASSUME NextAttempt PROVE Ordered'
  <2>1. wpc'["reset"] \in GivingUp
    BY <1>0, <1>3 DEF NextAttempt, Goto, GivingUp
  <2> QED
    BY <1>2, <2>1
<1>4. ASSUME UNCHANGED <<rx, owed>>
      PROVE  /\ DeviceFirst => DeviceFirst'
             /\ Apart({"REPORT_DESC"}, Other) => Apart({"REPORT_DESC"}, Other)'
             /\ NoneComing({"REPORT_DESC"}) => NoneComing({"REPORT_DESC"})'
             /\ NoneComing(Other) => NoneComing(Other)'
  BY <1>1, <1>4, OrderKept DEF DeviceFirst
<1>5. CASE ResetStart \/ ResetFlushCreate \/ ResetSuccess \/ ResetRelease
  <2>1. UNCHANGED <<rx, owed>> /\ wpc["reset"] \in {"idle", "flush_create", "success", "release"}
    BY <1>5 DEF ResetStart, ResetFlushCreate, ResetSuccess, ResetRelease, ReleaseReset
  <2>2. wpc'["reset"] \in {"idle", "flush_create", "flush_refresh", "allocate", "settle"}
    BY <1>0, <1>5 DEF ResetStart, ResetFlushCreate, ResetSuccess, ResetRelease, Goto
  <2>3. DeviceFirst'
    BY <1>4, <2>1 DEF Ordered, Elsewhere, Trying, GivingUp
  <2>4. wpc'["reset"] \notin Trying /\ wpc'["reset"] # "copy"
    BY <2>2 DEF Trying
  <2> QED
    BY <2>3, <2>4 DEF Ordered, AwaitsDevice, AwaitsReport, Copies, Elsewhere
<1>6. CASE ResetFlushRefresh \/ ResetSettle
  <2>1. /\ UNCHANGED <<rx, owed>> /\ wpc["reset"] \in {"flush_refresh", "settle"}
        /\ stage' = "GET_DD"
    BY <1>6 DEF ResetFlushRefresh, ResetSettle
  <2>2. wpc'["reset"] = "send"
    BY <1>0, <1>6 DEF ResetFlushRefresh, ResetSettle, Goto
  <2>3. DeviceFirst'
    BY <1>4, <2>1 DEF Ordered, Elsewhere, Trying, GivingUp
  <2>4. Seen' => irqPc' = "signal"
    BY <2>2 DEF Seen
  <2>5. Seen' /\ resp'.type = "DEVICE_DESC" => NoneComing({"REPORT_DESC"})'
    BY <2>3, <2>4 DEF DeviceFirst, NoneComing
  <2> QED
    BY <2>1, <2>2, <2>3, <2>5 DEF Ordered, AwaitsDevice, AwaitsReport, Copies, Elsewhere, Trying
<1>7. CASE ResetSend
  <2>1. CASE NextAttempt
    BY <1>3, <2>1
  <2>2. CASE Accept(stage, NONE) /\ Goto("reset", "wait") /\ UNCHANGED localVars
    <3>1. /\ wpc["reset"] = "send" /\ wpc'["reset"] = "wait" /\ outputDone' = FALSE
          /\ rx' = rx /\ stage' = stage
      BY <1>0, <1>7, <2>2 DEF ResetSend, Goto
    <3>2. Seen' => Seen
      BY <1>1, <3>1 DEF Seen
    <3>3. stage \in DOMAIN AnswerTo
      BY <1>0, AnswerToDomain
    <3>4. CASE stage = "GET_DD"
      <4>1. AnswerTo[stage] \notin {"REPORT_DESC"}
        BY <3>4, AnswerTypes
      <4>2. /\ DeviceFirst => DeviceFirst'
            /\ NoneComing({"REPORT_DESC"}) => NoneComing({"REPORT_DESC"})'
        BY <1>0, <1>1, <2>2, <3>1, <3>3, <4>1, OrderSent DEF DeviceFirst
      <4> QED
        BY <1>1, <3>1, <3>2, <3>4, <4>2
        DEF Ordered, AwaitsDevice, AwaitsReport, Copies, Elsewhere, Trying
    <3>5. CASE stage = "GET_RD"
      <4>1. AnswerTo[stage] \notin Other
        BY <3>5, AnswerTypes, OrderTypes
      <4>2. /\ Apart({"REPORT_DESC"}, Other) => Apart({"REPORT_DESC"}, Other)'
            /\ NoneComing(Other) => NoneComing(Other)'
        BY <1>0, <1>1, <2>2, <3>1, <3>3, <4>1, OrderSent
      <4> QED
        BY <1>1, <3>1, <3>5, <4>2
        DEF Ordered, AwaitsDevice, AwaitsReport, Copies, Elsewhere, Trying
    <3> QED
      BY <1>0, <3>4, <3>5
  <2> QED
    BY <1>7, <2>1, <2>2 DEF ResetSend
<1>8. CASE ResetWait
  <2>1. CASE NextAttempt
    BY <1>3, <2>1
  <2>2. CASE Completed /\ Goto("reset", "check") /\ UNCHANGED localVars
    <3>1. /\ UNCHANGED <<rx, owed, stage>> /\ wpc["reset"] = "wait" /\ wpc'["reset"] = "check"
          /\ outputDone
      BY <1>0, <1>8, <2>2 DEF ResetWait, Completed, Goto
    <3>2. Seen
      BY <3>1 DEF Seen
    <3> QED
      BY <1>1, <1>4, <3>1, <3>2
      DEF Ordered, AwaitsDevice, AwaitsReport, Copies, Elsewhere, Trying
  <2> QED
    BY <1>8, <2>1, <2>2 DEF ResetWait
<1>9. CASE ResetCheck
  <2>0. UNCHANGED <<rx, owed>> /\ wpc["reset"] = "check" /\ Seen
    BY <1>9 DEF ResetCheck, Seen
  <2>1. CASE NextAttempt
    BY <1>3, <2>1
  <2>2. CASE /\ resp.type = AnswerTo[stage] /\ stage = "GET_DD"
             /\ stage' = "GET_RD" /\ Goto("reset", "send")
    <3>1. resp'.type = "DEVICE_DESC" /\ wpc'["reset"] = "send"
      BY <1>0, <1>1, <2>2, AnswerTypes DEF Goto
    <3>2. NoneComing({"REPORT_DESC"})'
      BY <1>1, <1>4, <2>0, <2>2, <3>1 DEF Ordered, AwaitsDevice, Trying
    <3>3. Apart({"REPORT_DESC"}, Other)'
      BY <3>2 DEF NoneComing, Rest, Apart
    <3> QED
      BY <2>2, <3>1, <3>3 DEF Ordered, AwaitsDevice, AwaitsReport, Copies, Elsewhere, Trying
  <2>3. CASE resp.type = AnswerTo[stage] /\ stage = "GET_RD" /\ Goto("reset", "copy")
    <3>1. resp'.type = "REPORT_DESC" /\ wpc'["reset"] = "copy"
      BY <1>0, <1>1, <2>3, AnswerTypes DEF Goto
    <3>2. NoneComing(Other)'
      BY <1>1, <1>4, <2>0, <2>3, <3>1 DEF Ordered, AwaitsReport, Trying
    <3> QED
      BY <3>1, <3>2 DEF Ordered, AwaitsDevice, AwaitsReport, Copies, Elsewhere, Trying
  <2>4. CASE Goto("reset", "send") /\ stage' = stage
    <3>1. wpc'["reset"] = "send"
      BY <1>0, <2>4 DEF Goto
    <3> QED
      BY <1>1, <1>4, <2>0, <2>4, <3>1
      DEF Ordered, AwaitsDevice, AwaitsReport, Copies, Elsewhere, Trying
  <2> QED
    BY <1>9, <2>1, <2>2, <2>3, <2>4 DEF ResetCheck
<1>10. CASE ResetCopy
  <2>0. UNCHANGED <<rx, owed>> /\ wpc["reset"] = "copy"
    BY <1>10 DEF ResetCopy
  <2>1. CASE NextAttempt
    BY <1>3, <2>1
  <2>2. CASE resp.len > 0 /\ Goto("reset", "success")
    <3>1. wpc'["reset"] = "success"
      BY <1>0, <2>2 DEF Goto
    <3>2. NoneComing(Other)' /\ resp'.type # "DEVICE_DESC"
      BY <1>1, <1>4, <2>0 DEF Ordered, Copies
    <3>3. DeviceFirst'
      BY <3>2, OrderTypes DEF DeviceFirst, Apart, NoneComing, Rest
    <3> QED
      BY <3>1, <3>3 DEF Ordered, AwaitsDevice, AwaitsReport, Copies, Elsewhere, Trying
  <2> QED
    BY <1>10, <2>1, <2>2 DEF ResetCopy
<1>11. CASE ResetPulse
  <2>1. wpc'["reset"] = "release" /\ rx' = <<>> /\ owed' = <<>>
    BY <1>0, <1>11 DEF ResetPulse, AssertReset, Goto
  <2> QED
    BY <2>1, OrderedForgotten DEF Trying
<1> QED
  BY <1>5, <1>6, <1>7, <1>8, <1>9, <1>10, <1>11 DEF ResetWork

\* ... its error handler leaves the loops with a touchpad that is reset or has no power, ...
LEMMA OrderedHandler ==
  ASSUME Inv, NoVersionError, Ordered,
         \E s \in Stoppers : StopHid(s) \/ (s \in Creators /\ Create(s))
  PROVE  Ordered'
<1>0. /\ wpc \in [Works -> WorkLabels] /\ "reset" \in Works /\ "create" \in Works
      /\ UNCHANGED <<irqPc, irqMsg, resp, outputDone, stage>>
  BY DEF Inv, Typed, TypeOK, ThreadTypeOK, Works, StopHid, StopCancelCreate, StopCancelRefresh,
     StopDestroy, StopPowerDown, Create, CreateDevice, HidAddDevice, HidAddFailed, HidAdded,
     ErrorHandler, ErrorHandlerRelease, HandlerUnchanged, WorkUnchanged
<1>1. ASSUME NEW w \in Creators, Create(w) PROVE Ordered'
  <2>1. CASE w = "create"
    <3>1. UNCHANGED <<rx, owed, powered>> /\ wpc'["reset"] = wpc["reset"]
      BY <1>0, <1>1, <2>1 DEF NoVersionError, Create, CreateDevice, HidAddDevice, HidAddFailed,
         HidAdded, ErrorHandler, ErrorHandlerRelease, Goto
    <3> QED
      BY <1>0, <3>1, OrderedKept
  <2>2. CASE w = "reset" /\ ErrorHandler(w)
    <3>1. wpc["reset"] = "error" /\ powerState # "OFF"
      BY <2>2 DEF ErrorHandler, NoVersionError
    <3>2. \/ wpc'["reset"] \in {"power_down", "cancel_create"}
          \/ wpc'["reset"] = "deassert" /\ rx' = <<>> /\ owed' = <<>>
      BY <1>0, <2>2, <3>1 DEF ErrorHandler, AssertReset, Goto
    <3>3. CASE wpc'["reset"] \in {"power_down", "cancel_create"}
      BY <3>3 DEF Ordered, AwaitsDevice, AwaitsReport, Copies, Elsewhere, Trying, GivingUp
    <3>4. CASE wpc'["reset"] = "deassert" /\ rx' = <<>> /\ owed' = <<>>
      BY <3>4, OrderedForgotten DEF Trying
    <3> QED
      BY <3>2, <3>3, <3>4
  <2>3. CASE w = "reset" /\ ~ErrorHandler(w)
    <3>1. /\ UNCHANGED <<rx, owed, powered>>
          /\ wpc["reset"] \in {"allocate", "add", "add_failed", "added", "deassert"}
          /\ wpc'["reset"] \in {"idle", "add", "add_failed", "added"}
      BY <1>0, <1>1, <2>3 DEF Create, CreateDevice, HidAddDevice, HidAddFailed, HidAdded,
         ErrorHandlerRelease, ReleaseReset, Goto
    <3>2. DeviceFirst => DeviceFirst'
      BY <1>0, <3>1, OrderKept DEF DeviceFirst
    <3>3. DeviceFirst
      BY <3>1 DEF Ordered, Elsewhere, Trying, GivingUp
    <3> QED
      BY <3>1, <3>2, <3>3 DEF Ordered, AwaitsDevice, AwaitsReport, Copies, Elsewhere, Trying
  <2> QED
    BY <2>1, <2>2, <2>3 DEF Creators
<1>2. ASSUME NEW s \in Stoppers, StopHid(s) PROVE Ordered'
  <2>1. s # "create"
    BY <1>2 DEF NoVersionError, StopHid, StopCancelCreate, StopCancelRefresh, StopDestroy,
       StopPowerDown, At
  <2>2. CASE StopPowerDown(s)
    <3>1. powered' = FALSE
      BY <2>2 DEF StopPowerDown
    <3>2. CASE s = "reset"
      <4>1. wpc'["reset"] = "idle"
        BY <1>0, <2>2, <3>2 DEF StopPowerDown, Move, Goto
      <4> QED
        BY <3>1, <4>1, OrderedForgotten DEF Trying
    <3>3. CASE s = "remove"
      <4>1. drv = "power_down" /\ wpc' = wpc
        BY <2>2, <3>3 DEF StopPowerDown, At, Move
      <4>2. wpc["reset"] = "idle"
        BY <4>1 DEF Inv, DrainOrder, ResetDrained, WorkBusy
      <4> QED
        BY <3>1, <4>1, <4>2, OrderedForgotten DEF Trying
    <3> QED
      BY <2>1, <3>2, <3>3 DEF Stoppers
  <2>3. CASE ~StopPowerDown(s)
    <3>1. UNCHANGED <<rx, owed, powered>>
      BY <1>2, <2>3 DEF StopHid, StopCancelCreate, StopCancelRefresh, StopDestroy
    <3>2. CASE s = "remove"
      <4>1. wpc' = wpc
        BY <1>2, <2>3, <3>2 DEF StopHid, StopCancelCreate, StopCancelRefresh, StopDestroy, Move
      <4> QED
        BY <1>0, <3>1, <4>1, OrderedKept
    <3>3. CASE s = "reset"
      <4>1. wpc'["reset"] \in {"cancel_refresh", "destroy", "power_down"}
        BY <1>0, <1>2, <2>3, <3>3 DEF StopHid, StopCancelCreate, StopCancelRefresh, StopDestroy,
           Move, Goto
      <4> QED
        BY <4>1 DEF Ordered, AwaitsDevice, AwaitsReport, Copies, Elsewhere, Trying, GivingUp
    <3> QED
      BY <2>1, <3>2, <3>3 DEF Stoppers
  <2> QED
    BY <2>2, <2>3
<1> QED
  BY <1>1, <1>2

\* ... and a client sends nothing while reset_work holds the mutex.
LEMMA OrderedClient ==
  ASSUME Inv, Exclusive, Ordered, NEW c \in Clients, ClientCall(c) \/ Client(c)
  PROVE  Ordered'
<1>1. UNCHANGED <<rx, powered, irqPc, irqMsg, resp, wpc, stage>> /\ (outputDone' => outputDone)
  BY DEF ClientCall, Client, ClientLock, ClientSendOutput, ClientSendFeature, ClientWait,
     ClientCheck, ClientCopy, ClientUnchanged, Completed, TimedOut
<1>2. CASE owed' = owed
  BY <1>1, <1>2, OrderedKept
<1>3. CASE cpc[c] = "send" /\ Accept(creq[c].req, creq[c].id)
  <2>1. lock = c /\ wpc["reset"] \notin InLoop
    <3>1. c # "reset"
      BY SpiHidAssumption
    <3> QED
      BY <1>3, <3>1 DEF Exclusive
  <2>2. creq[c] \in Requests /\ Typed
    BY <1>3 DEF Inv, Typed, LocalsSet
  <2>3. creq[c].req \in ClientRequests /\ creq[c].id \in Reports \cup {NONE}
    BY <2>2, SpiHidAssumption
  <2>4. creq[c].req \in DOMAIN AnswerTo /\ AnswerTo[creq[c].req] \notin {"REPORT_DESC"}
    BY <2>3, AnswerToDomain, AnswerTypes
  <2>5. DeviceFirst => DeviceFirst'
    BY <1>1, <1>3, <2>2, <2>3, <2>4, OrderSent DEF DeviceFirst
  <2> QED
    BY <1>1, <2>1, <2>5 DEF Ordered, AwaitsDevice, AwaitsReport, Copies, Elsewhere, Trying, InLoop
<1>4. owed' = owed \/ (cpc[c] = "send" /\ Accept(creq[c].req, creq[c].id))
  BY DEF ClientCall, Client, ClientLock, ClientSendOutput, ClientSendFeature, ClientWait,
     ClientCheck, ClientCopy
<1> QED
  BY <1>2, <1>3, <1>4

\* Every step keeps the order.
LEMMA OrderedStep ==
  ASSUME Inv, Answered, Ordered, [Next]_vars
  PROVE  Ordered'
<1>0. Typed /\ Exclusive /\ NoVersionError /\ Forgotten /\ RespWhole
  BY DEF Inv, Answered
<1>1. CASE CreateStart
  <2>1. /\ UNCHANGED <<rx, owed, powered, irqPc, irqMsg, resp, outputDone, stage>>
        /\ wpc'["reset"] = wpc["reset"]
    BY <1>0, <1>1 DEF CreateStart, WorkUnchanged, Goto, Typed, TypeOK, ThreadTypeOK, Works
  <2> QED
    BY <2>1, OrderedKept
<1>2. CASE RefreshWork \/ UNCHANGED vars \/ ProbeArm \/ RemoveFreeIrq \/ Remove
  <2>1. UNCHANGED <<rx, owed, powered, irqPc, irqMsg, resp, outputDone, stage, wpc>>
    BY <1>2 DEF RefreshWork, WorkUnchanged, ProbeArm, RemoveFreeIrq, Remove, RemoveSyncIrq,
       RemoveDrain, RemoveStopHid, RemoveUnchanged, DriverUnchanged
  <2> QED
    BY <2>1, OrderedKept
<1>3. CASE ProbeReset \/ ProbePowerUp
  <2>1. drv \in {"unbound", "probe_reset"} /\ wpc' = wpc
    BY <1>3 DEF ProbeReset, ProbePowerUp, DriverUnchanged
  <2>2. wpc["reset"] = "idle"
    BY <2>1 DEF Inv, DrainOrder, ResetDrained, WorkBusy
  <2>3. CASE ProbeReset
    BY <2>1, <2>2, <2>3, OrderedForgotten DEF ProbeReset, AssertReset, Trying
  <2>4. CASE ProbePowerUp
    <3>1. rx' = <<>> /\ owed' = <<>>
      BY <1>0, <2>4 DEF Forgotten, ProbePowerUp, ReleaseReset
    <3> QED
      BY <2>1, <2>2, <3>1, OrderedForgotten DEF Trying
  <2> QED
    BY <1>3, <2>3, <2>4
<1>4. CASE \E s \in Stoppers : StopHid(s) \/ (s \in Creators /\ Create(s))
  BY <1>0, <1>4, OrderedHandler
<1> QED
  BY <1>0, <1>1, <1>2, <1>3, <1>4, OrderedTouchpad, OrderedIrq, OrderedReset, OrderedClient
  DEF Next, Probe, Creators, Stoppers

\* What is copied is what has been checked.
LEMMA CopyStep ==
  ASSUME Inv, RespWhole, Copies, RdIsReportDescriptor, [Next]_vars
  PROVE  RdIsReportDescriptor'
<1>1. CASE ResetCopy
  <2>1. CASE rd' = rd
    BY <2>1 DEF RdIsReportDescriptor
  <2>2. CASE resp.len > 0 /\ rd' = resp.buf.type
    <3>1. resp.type \in ResponseTypes
      BY <2>2 DEF RespWhole
    <3>2. resp.type = "REPORT_DESC"
      BY <1>1, <3>1, AnswerTypes DEF ResetCopy, Copies
    <3> QED
      BY <2>2, <3>1, <3>2 DEF RespWhole, RdIsReportDescriptor
  <2> QED
    BY <1>1, <2>1, <2>2 DEF ResetCopy
<1>2. CASE ~ResetCopy
  <2>1. rd' \in {rd, NONE}
    BY <1>2, NextCases DEF Irq, IrqReadHeader, IrqBadHeader, IrqReadBody, IrqBadBody,
       IrqInputReport, IrqDeliver, IrqStoreResponse, IrqSignal, IrqUnchanged,
       WorkStep, ResetWork, ResetStart, ResetFlushCreate, ResetFlushRefresh, ResetSend,
       ResetWait, ResetCheck, ResetPulse, ResetRelease, ResetSettle, ResetSuccess,
       CreateStart, RefreshWork, Create, CreateDevice, HidAddDevice, HidAddFailed,
       HidAdded, ErrorHandler, ErrorHandlerRelease, StopHid, StopCancelCreate, StopCancelRefresh,
       StopDestroy, StopPowerDown, WorkUnchanged, HandlerUnchanged, Touchpad, DeviceBoot,
       DeviceInitiatedReset, DeviceAnswer, DeviceLosesRequest, DeviceInput, DevUnchanged,
       ClientCall, Client, ClientLock, ClientSendOutput, ClientSendFeature, ClientWait,
       ClientCheck, ClientCopy, ClientUnchanged, Probe, ProbeReset, ProbePowerUp, ProbeArm,
       RemoveFreeIrq, Remove, RemoveSyncIrq, RemoveDrain, RemoveStopHid, RemoveUnchanged
  <2> QED
    BY <2>1 DEF RdIsReportDescriptor
<1> QED
  BY <1>1, <1>2

\* Before the driver is probed nothing is owed, waits or is stored.
LEMMA InitOrdered == Init => RdInv
<1> SUFFICES ASSUME Init PROVE RdInv
  OBVIOUS
<1>1. wpc["reset"] = "idle" /\ wpc["create"] = "idle"
  BY DEF Init, Works
<1>2. Exclusive
  BY <1>1 DEF Init, Exclusive, InLoop
<1>3. NoVersionError
  BY <1>1 DEF Init, NoVersionError
<1>4. Forgotten /\ RespWhole
  BY <1>1, AnswerTypes, SpiHidAssumption DEF Init, Forgotten, RespWhole
<1>5. Ordered
  BY <1>1 DEF Init, Ordered, AwaitsDevice, AwaitsReport, Copies, Elsewhere, Trying, DeviceFirst,
     Apart, Rest
<1> QED
  BY <1>2, <1>3, <1>4, <1>5 DEF Init, RdInv, Answered, RdIsReportDescriptor

LEMMA RdStep ==
  ASSUME DeviceVersion = SupportedVersion, Inv, DrainedClients, RdInv, [Next]_vars
  PROVE  RdInv'
<1>1. Answered /\ Ordered /\ RdIsReportDescriptor
  BY DEF RdInv
<1>2. Answered'
  BY <1>1, ExclusiveStep, NoVersionErrorStep, ForgottenStep, RespWholeStep DEF Answered
<1> QED
  BY <1>1, <1>2, OrderedStep, CopyStep DEF RdInv, Ordered, Answered

(***************************************************************************)
(* rd_buf only ever holds a report descriptor: resp_type is checked and    *)
(* resp_buf copied (1160-1191) while the interrupt thread may write both,  *)
(* but what is still to come when the report descriptor has been checked   *)
(* is no answer.  For a touchpad of the supported version - another one    *)
(* makes create_device_work reset it under reset_work's hands (1204) - and *)
(* as long as no request outlives its driver (DrainedClients).             *)
(***************************************************************************)
THEOREM ReportDescriptorKept ==
  ASSUME DeviceVersion = SupportedVersion
  PROVE  Spec /\ []DrainedClients => []RdIsReportDescriptor
<1>1. Inv /\ RdInv /\ DrainedClients /\ [Next]_vars => RdInv'
  BY RdStep
<1>2. RdInv => RdIsReportDescriptor
  BY DEF RdInv
<1> QED
  BY <1>1, <1>2, InitOrdered, Invariance, PTL DEF Spec
=============================================================================
