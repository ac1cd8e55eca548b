------------------------------- MODULE SpiGeni -------------------------------
(***************************************************************************)
(* The SPI controller driver, drivers/spi/spi-geni-qcom.c, in its FIFO and *)
(* SE_DMA modes (SpiGsi has the GPI mode).  Three processes share struct   *)
(* spi_geni_master and the registers: the message pump of the SPI core,    *)
(* which calls prepare_message, transfer_one and handle_err, the interrupt *)
(* handler, and the hardware.  Only the handler and a few steps of the     *)
(* pump hold mas->lock: the handler reads the interrupt status before it   *)
(* takes the lock, and a transfer is set up mostly without it.             *)
(*                                                                         *)
(* As the driver assumes (spi_geni_is_abort_still_pending), the hardware   *)
(* obeys cancel, abort and reset at once, but the handler may be held up   *)
(* for longer than any of the driver's waits.                              *)
(***************************************************************************)
EXTENDS Integers, FiniteSets

CONSTANTS
  Depth,        \* tx_fifo_depth, in FIFO words
  Bpw,          \* bytes in a FIFO word
  Shapes,       \* kinds of transfers: tx_buf, rx_buf, mapped for DMA, length in bytes
  Devices,      \* SPI devices: chip select, mode, clock
  MaxXfers,     \* transfers
  MaxFaults     \* waits for the hardware that time out, and failures to set the clock

\* geni_can_dma: a transfer that does not fit in the FIFO may be mapped for DMA.
CanDma(len) == len > Depth * Bpw

\* What a device asks of the controller: chip select, SPI_CS_HIGH, SPI_CPHA with SPI_CPOL, clock.
Setting == [cs : 0 .. 3, high : BOOLEAN, phase : BOOLEAN, hz : Nat]

ASSUME SpiGeniAssumption ==
  /\ Depth \in Nat /\ Depth > 2 /\ Bpw \in Nat \ {0}
  /\ Shapes \subseteq [tx : BOOLEAN, rx : BOOLEAN, dma : BOOLEAN, len : Nat]
  /\ \A s \in Shapes : (s.tx \/ s.rx) /\ (s.dma => CanDma(s.len))
  /\ Devices \subseteq Setting /\ Devices # {}
  /\ MaxXfers \in Nat /\ MaxFaults \in Nat

VARIABLES
  \* struct spi_geni_master
  cur,          \* cur_xfer, 0 is NULL
  mode,         \* cur_xfer_mode
  txRem, rxRem, \* tx_rem_bytes and rx_rem_bytes
  abortFailed,
  last,         \* last_cs, last_mode, cur_speed_hz and cur_sclk_hz
  lock,         \* who holds it
  power,        \* runtime PM of the controller
  system,       \* the system is awake, asleep, or failed to suspend the controller
  cancelDone, abortDone, txResetDone, rxResetDone,
  \* the message pump
  pc,
  xfer,         \* its transfer: number, shape and device
  hx,           \* the local xfer of handle_se_timeout
  sig,          \* spi_finalize_current_transfer was called for the transfer
  isr,          \* the interrupt handler: pc and the status it has read
  \* the hardware
  reg,          \* chip select, inverted chip selects, mode and clock
  fifo,         \* words in the FIFOs, bytes in the last one received, the watermark register
  op,           \* its command: transfer, what is left
  ended,        \* the last transfer that it finished
  mstat, txStat, rxStat,    \* interrupt status: of the sequencer and of the two DMA engines
  hwMode,       \* FIFO or DMA, which decides what mstat may interrupt
  faults,
  late          \* history: a transfer was set up with the interrupt of a DMA reset still to be served

masVars  == <<cur, mode, txRem, rxRem, abortFailed, last>>
doneVars == <<cancelDone, abortDone, txResetDone, rxResetDone>>
pumpVars == <<pc, xfer, hx>>
hwVars   == <<reg, fifo, op, ended, mstat, txStat, rxStat, hwMode>>
vars     == <<masVars, lock, power, system, doneVars, pumpVars, sig, isr, hwVars, faults, late>>

NoOp  == [x |-> 0, tx |-> FALSE, rx |-> FALSE, dma |-> FALSE, left |-> 0, lastBytes |-> 0]
IdleIsr == [pc |-> "off", m |-> {}, tx |-> {}, rx |-> {}]
NoXfer == [x |-> 0, s |-> [tx |-> FALSE, rx |-> FALSE, dma |-> FALSE, len |-> 0], d |-> CHOOSE d \in Devices : TRUE]

\* spi_geni_init without GPI: FIFO mode, all registers of setup_fifo_params zero.
Init ==
  /\ cur = 0 /\ mode = "FIFO" /\ txRem = 0 /\ rxRem = 0 /\ abortFailed = FALSE
  /\ last = [cs |-> 0, high |-> FALSE, phase |-> FALSE, hz |-> 0, sclk |-> 0]
  /\ lock = "none" /\ power = "off" /\ system = "awake"
  /\ cancelDone = FALSE /\ abortDone = FALSE /\ txResetDone = FALSE /\ rxResetDone = FALSE
  /\ pc = "idle" /\ xfer = NoXfer /\ hx = 0 /\ sig = FALSE
  /\ isr = IdleIsr
  /\ reg = [cs |-> 0, inv |-> {}, phase |-> FALSE, hz |-> 0]
  /\ fifo = [tx |-> 0, rx |-> 0, last |-> 0, wm |-> FALSE]
  /\ op = NoOp /\ ended = 0 /\ mstat = {} /\ txStat = {} /\ rxStat = {} /\ hwMode = "FIFO"
  /\ faults = 0 /\ late = FALSE

Fault == faults < MaxFaults /\ faults' = faults + 1
Least(a, b) == IF a < b THEN a ELSE b
Words(n) == (n + Bpw - 1) \div Bpw

-----------------------------------------------------------------------------
(* The FIFOs *)

\* Mutant of Room: a FIFO word is taken to be full although its words do not pack.
RoomPacked == (Depth - 1) * 2 * Bpw

\* max_bytes of geni_spi_handle_tx: tx_wm is 1.
Room == (Depth - 1) * Bpw

\* geni_spi_handle_tx into the FIFOs f; on is the watermark register if there is more to send.
HandleTx(f, on) ==
  LET n == Least(Room, txRem)
  IN  IF cur = 0 THEN fifo' = [f EXCEPT !.wm = FALSE] /\ UNCHANGED txRem
      ELSE /\ txRem' = txRem - n
           /\ fifo' = [f EXCEPT !.tx = @ + Words(n), !.wm = on /\ n < txRem]

\* geni_spi_handle_rx: the bytes that are there, the last word being partly filled.
RxBytes == fifo.rx * Bpw - (IF fifo.last # 0 THEN Bpw - fifo.last ELSE 0)

HandleRx ==
  LET n == Least(RxBytes, rxRem)
  IN  IF cur = 0 THEN fifo' = [fifo EXCEPT !.rx = 0, !.last = 0] /\ UNCHANGED rxRem
      ELSE /\ rxRem' = rxRem - n
           /\ fifo' = [fifo EXCEPT !.rx = @ - Words(n), !.last = IF fifo.rx = Words(n) THEN 0 ELSE @]

-----------------------------------------------------------------------------
(* The message pump *)

Goes(from, to) == pc = from /\ pc' = to
Pump(v) == UNCHANGED <<isr, ended, power, system, late, v>>

\* The bits of mstat that may interrupt: SE_GENI_M_IRQ_EN, as geni_se_select_mode leaves it.
Enabled == IF hwMode = "FIFO" THEN mstat ELSE mstat \cap {"CANCEL", "ABORT"}

\* spi_geni_is_abort_still_pending
AbortPending == abortFailed /\ Enabled # {}

\* setup_fifo_params: only what changed is written.
SetupFifoParams(d) ==
  /\ last' = [last EXCEPT !.cs = d.cs, !.high = d.high, !.phase = d.phase]
  /\ reg' = [reg EXCEPT
       !.cs = IF d.cs # last.cs THEN d.cs ELSE @,
       !.phase = IF d.phase # last.phase THEN d.phase ELSE @,
       !.inv = IF d.high # last.high \/ (d.cs # last.cs /\ d.high)
               THEN (IF d.high THEN {d.cs} ELSE {}) ELSE @]

Power(v) ==
  UNCHANGED <<cur, mode, txRem, rxRem, abortFailed, last, lock, doneVars, pumpVars, sig, isr, fifo,
              op, ended, mstat, txStat, rxStat, hwMode, late, v>>

\* The queue is empty, and the interrupt handler has run.
Unused == pc = "idle" /\ isr.pc = "off" /\ Enabled = {} /\ txStat = {} /\ rxStat = {}

\* spi_geni_runtime_suspend, a quarter of a second after the last message: the performance vote
\* is dropped first, and stays dropped if switching off fails.
RuntimeSuspend ==
  /\ Unused /\ power = "on"
  /\ reg' = [reg EXCEPT !.hz = 0]
  /\ \/ power' = "off" /\ UNCHANGED faults
     \/ power' = "error" /\ Fault
  /\ Power(<<system>>)

\* Mutant of RuntimeResume: the clock is not set again.
RuntimeResumeNoRate ==
  /\ pc = "idle" /\ power = "off" /\ system # "asleep" /\ xfer.x < MaxXfers
  /\ power' = "on" /\ UNCHANGED faults /\ UNCHANGED reg
  /\ Power(<<system>>)

\* spi_geni_runtime_resume, called by the core before a message; after a failure, runtime PM
\* refuses and no message runs.
RuntimeResume ==
  /\ pc = "idle" /\ power = "off" /\ system # "asleep" /\ xfer.x < MaxXfers
  /\ \/ power' = "on" /\ reg' = [reg EXCEPT !.hz = last.sclk] /\ UNCHANGED faults
     \/ power' = "error" /\ Fault /\ UNCHANGED reg
  /\ Power(<<system>>)

\* spi_geni_suspend: the queue stops, and runtime PM is forced to suspend.  If that fails the
\* queue goes on, with the vote dropped and the controller still counted as on.
Suspend ==
  /\ Unused /\ power # "error" /\ system = "awake"
  /\ reg' = [reg EXCEPT !.hz = 0]
  /\ \/ system' = "asleep" /\ power' = "off" /\ UNCHANGED faults
     \/ power = "on" /\ Fault /\ system' = "failed" /\ UNCHANGED power
  /\ Power(<<>>)

\* spi_geni_resume: runtime PM is resumed if it was on, or at the next message; the queue goes on.
Resume ==
  /\ system = "asleep" /\ pc = "idle"
  /\ \/ system' = "awake" /\ UNCHANGED <<power, reg, faults>>
     \/ system' = "awake" /\ power' = "on" /\ reg' = [reg EXCEPT !.hz = last.sclk] /\ UNCHANGED faults
     \/ power' = "error" /\ Fault /\ UNCHANGED <<system, reg>>
  /\ Power(<<>>)

\* The pump has a message: spi_geni_prepare_message.
PrepareMessage ==
  /\ pc = "idle" /\ power = "on" /\ system # "asleep" /\ xfer.x < MaxXfers
  /\ abortFailed => lock = "none"
  /\ \E s \in Shapes, d \in Devices :
       /\ xfer' = [x |-> xfer.x + 1, s |-> s, d |-> d]
       /\ IF AbortPending THEN pc' = "idle" /\ UNCHANGED <<abortFailed, last, reg>>
          ELSE pc' = "transfer" /\ abortFailed' = FALSE /\ SetupFifoParams(d)
  /\ Pump(<<cur, mode, txRem, rxRem, lock, doneVars, hx, sig, fifo, op, mstat, txStat, rxStat,
            hwMode, faults>>)

\* spi_geni_transfer_one, up to setup_se_xfer; the core has cleared xfer_completion.
TransferOne ==
  /\ pc = "transfer"
  /\ abortFailed => lock = "none"
  /\ sig' = FALSE
  /\ IF AbortPending THEN pc' = "error" /\ UNCHANGED abortFailed
     ELSE /\ abortFailed' = FALSE
          /\ pc' = IF xfer.s.len = 0 THEN "idle" ELSE "setup"
  /\ Pump(<<cur, mode, txRem, rxRem, last, lock, doneVars, xfer, hx, reg, fifo, op, mstat, txStat,
            rxStat, hwMode, faults>>)

\* Mutant of SetupLock: the handler may still be running.
SetupLockNot ==
  /\ Goes("setup", "clock")
  /\ late' = (late \/ "RESET" \in txStat \cup rxStat)
  /\ UNCHANGED <<masVars, lock, power, system, doneVars, xfer, hx, sig, isr, hwVars, faults>>

\* setup_se_xfer takes the lock and releases it, which waits for the handler that holds it.
SetupLock ==
  /\ Goes("setup", "clock") /\ lock = "none"
  /\ late' = (late \/ "RESET" \in txStat \cup rxStat)
  /\ UNCHANGED <<masVars, lock, power, system, doneVars, xfer, hx, sig, isr, hwVars, faults>>

\* geni_spi_set_clock_and_bw: nothing for the speed it has; the clock can fail, and so can the
\* bandwidth once the speed has been noted.
SetClock ==
  /\ pc = "clock"
  /\ \/ /\ pc' = "rem"
        /\ IF xfer.d.hz = last.hz THEN UNCHANGED <<last, reg>>
           ELSE last' = [last EXCEPT !.hz = xfer.d.hz, !.sclk = xfer.d.hz] /\ reg' = [reg EXCEPT !.hz = xfer.d.hz]
        /\ UNCHANGED faults
     \/ /\ xfer.d.hz # last.hz /\ Fault
        /\ pc' = "error"
        /\ \/ UNCHANGED <<last, reg>>
           \/ last' = [last EXCEPT !.hz = xfer.d.hz, !.sclk = xfer.d.hz] /\ reg' = [reg EXCEPT !.hz = xfer.d.hz]
  /\ Pump(<<cur, mode, txRem, rxRem, abortFailed, lock, doneVars, xfer, hx, sig, fifo, op, mstat,
            txStat, rxStat, hwMode>>)

\* setup_se_xfer, without the lock: the counters to zero, cur_xfer, the counters.
ClearRem ==
  /\ Goes("rem", "cur")
  /\ txRem' = 0 /\ rxRem' = 0
  /\ Pump(<<cur, mode, abortFailed, last, lock, doneVars, xfer, hx, sig, reg, fifo, op, mstat,
            txStat, rxStat, hwMode, faults>>)

SetCur ==
  /\ Goes("cur", "lens")
  /\ cur' = xfer.x
  /\ Pump(<<mode, txRem, rxRem, abortFailed, last, lock, doneVars, xfer, hx, sig, reg, fifo, op,
            mstat, txStat, rxStat, hwMode, faults>>)

SetRem ==
  /\ Goes("lens", "mode")
  /\ txRem' = IF xfer.s.tx THEN xfer.s.len ELSE 0
  /\ rxRem' = IF xfer.s.rx THEN xfer.s.len ELSE 0
  /\ Pump(<<cur, mode, abortFailed, last, lock, doneVars, xfer, hx, sig, reg, fifo, op, mstat,
            txStat, rxStat, hwMode, faults>>)

SetMode ==
  /\ Goes("mode", "select")
  /\ mode' = IF xfer.s.dma THEN "DMA" ELSE "FIFO"
  /\ Pump(<<cur, txRem, rxRem, abortFailed, last, lock, doneVars, xfer, hx, sig, reg, fifo, op,
            mstat, txStat, rxStat, hwMode, faults>>)

\* geni_se_select_mode, which also clears every interrupt.
SelectMode ==
  /\ Goes("select", "start")
  /\ hwMode' = mode /\ mstat' = {} /\ txStat' = {} /\ rxStat' = {}
  /\ Pump(<<masVars, lock, doneVars, xfer, hx, sig, reg, fifo, op, faults>>)

\* geni_se_setup_m_cmd, which empties the receive FIFO, and the DMA addresses or the first words, under the lock.
StartXfer ==
  /\ Goes("start", "wait") /\ lock = "none"
  /\ op' = [x |-> xfer.x, tx |-> xfer.s.tx, rx |-> xfer.s.rx, dma |-> mode = "DMA",
            left |-> Words(xfer.s.len), lastBytes |-> ((xfer.s.len - 1) % Bpw) + 1]
  /\ LET f == [fifo EXCEPT !.rx = 0, !.last = 0]
     IN  IF mode = "FIFO" /\ xfer.s.tx THEN HandleTx(f, TRUE) ELSE fifo' = f /\ UNCHANGED txRem
  /\ Pump(<<cur, mode, rxRem, abortFailed, last, lock, doneVars, xfer, hx, sig, reg, mstat, txStat,
            rxStat, hwMode, faults>>)

\* The core's wait for the transfer ends.
Finalized ==
  /\ Goes("wait", "idle") /\ sig
  /\ Pump(<<masVars, lock, doneVars, xfer, hx, sig, reg, fifo, op, mstat, txStat, rxStat, hwMode,
            faults>>)

\* The wait of the core times out, for any transfer.
TimesOut ==
  /\ Goes("wait", "error") /\ ~sig
  /\ Pump(<<masVars, lock, doneVars, xfer, hx, sig, reg, fifo, op, mstat, txStat, rxStat, hwMode,
            faults>>)

-----------------------------------------------------------------------------
(* spi_geni_handle_err: handle_se_timeout *)

\* The transfer is dropped and cancelled.
Cancel ==
  /\ Goes("error", "cancel") /\ lock = "none"
  /\ fifo' = [fifo EXCEPT !.wm = IF mode = "FIFO" THEN FALSE ELSE @, !.tx = 0]
  /\ hx' = cur /\ cur' = 0
  /\ cancelDone' = FALSE
  /\ op' = NoOp /\ mstat' = mstat \cup {"CANCEL"}
  /\ Pump(<<mode, txRem, rxRem, abortFailed, last, lock, abortDone, txResetDone, rxResetDone, xfer,
            sig, reg, txStat, rxStat, hwMode, faults>>)

Cancelled ==
  /\ Goes("cancel", "reset") /\ cancelDone
  /\ Pump(<<masVars, lock, doneVars, xfer, hx, sig, reg, fifo, op, mstat, txStat, rxStat, hwMode,
            faults>>)

\* The cancel had no answer in time.
Abort ==
  /\ Goes("cancel", "abort") /\ ~cancelDone /\ lock = "none" /\ Fault
  /\ abortDone' = FALSE
  /\ op' = NoOp /\ mstat' = mstat \cup {"ABORT"}
  /\ Pump(<<masVars, lock, cancelDone, txResetDone, rxResetDone, xfer, hx, sig, reg, fifo, txStat,
            rxStat, hwMode>>)

Aborted ==
  /\ Goes("abort", "reset")
  /\ \/ abortDone /\ UNCHANGED <<abortFailed, faults>>
     \/ ~abortDone /\ Fault /\ abortFailed' = TRUE
  /\ Pump(<<cur, mode, txRem, rxRem, last, lock, doneVars, xfer, hx, sig, reg, fifo, op, mstat,
            txStat, rxStat, hwMode>>)

\* reset_if_dma: first the transmit DMA, then the receive DMA, of a transfer that used them.
NeedsTxReset == mode = "DMA" /\ hx # 0 /\ xfer.s.tx
NeedsRxReset == mode = "DMA" /\ hx # 0 /\ xfer.s.rx

ResetTx ==
  /\ pc = "reset"
  /\ IF NeedsTxReset
     THEN lock = "none" /\ pc' = "txReset" /\ txResetDone' = FALSE /\ txStat' = txStat \cup {"RESET"}
     ELSE pc' = "reset2" /\ UNCHANGED <<txResetDone, txStat>>
  /\ Pump(<<masVars, lock, cancelDone, abortDone, rxResetDone, xfer, hx, sig, reg, fifo, op, mstat,
            rxStat, hwMode, faults>>)

ResetRx ==
  /\ pc = "reset2"
  /\ IF NeedsRxReset
     THEN lock = "none" /\ pc' = "rxReset" /\ rxResetDone' = FALSE /\ rxStat' = rxStat \cup {"RESET"}
     ELSE pc' = "idle" /\ UNCHANGED <<rxResetDone, rxStat>>
  /\ Pump(<<masVars, lock, cancelDone, abortDone, txResetDone, xfer, hx, sig, reg, fifo, op, mstat,
            txStat, hwMode, faults>>)

\* The waits for the two resets.  A wait that times out is logged, and nobody remembers it: its
\* interrupt may come when the next transfer is set up.
ResetEnds ==
  /\ \/ Goes("txReset", "reset2") /\ (IF txResetDone THEN UNCHANGED faults ELSE Fault)
     \/ Goes("rxReset", "idle") /\ (IF rxResetDone THEN UNCHANGED faults ELSE Fault)
  /\ Pump(<<masVars, lock, doneVars, xfer, hx, sig, reg, fifo, op, mstat, txStat, rxStat, hwMode>>)

PumpNext ==
  \/ RuntimeResume \/ PrepareMessage \/ TransferOne \/ SetupLock \/ SetClock \/ ClearRem \/ SetCur \/ SetRem
  \/ SetMode \/ SelectMode \/ StartXfer \/ Finalized \/ Cancel \/ Cancelled \/ Abort \/ Aborted
  \/ ResetTx \/ ResetRx \/ ResetEnds

-----------------------------------------------------------------------------
(* geni_spi_isr *)

Isr(v) == UNCHANGED <<pumpVars, abortFailed, last, mode, reg, op, ended, hwMode, power, system,
                       faults, late, v>>

Interrupts == Enabled # {} \/ txStat # {} \/ rxStat # {}

IsrReadM ==
  /\ isr.pc = "off" /\ Interrupts
  /\ isr' = [IdleIsr EXCEPT !.pc = "dma", !.m = mstat]
  /\ Isr(<<cur, txRem, rxRem, lock, doneVars, sig, fifo, mstat, txStat, rxStat>>)

IsrReadDma ==
  /\ isr.pc = "dma"
  /\ isr' = IF isr.m = {} /\ txStat = {} /\ rxStat = {} THEN IdleIsr
            ELSE [isr EXCEPT !.pc = "lock", !.tx = txStat, !.rx = rxStat]
  /\ Isr(<<cur, txRem, rxRem, lock, doneVars, sig, fifo, mstat, txStat, rxStat>>)

IsrLock ==
  /\ isr.pc = "lock" /\ lock = "none"
  /\ lock' = "isr"
  /\ isr' = [isr EXCEPT !.pc = "rx"]
  /\ Isr(<<cur, txRem, rxRem, doneVars, sig, fifo, mstat, txStat, rxStat>>)

\* Mutant of MayRead: the end of a transfer does not have the receive FIFO read.
MayReadWatermark == "RX_WATERMARK" \in isr.m

\* The handler reads the receive FIFO at its watermark and at the end of a transfer.
MayRead == "RX_WATERMARK" \in isr.m \/ "RX_LAST" \in isr.m

\* The receive FIFO, and the state of the DMA.
IsrRx ==
  /\ isr.pc = "rx"
  /\ isr' = [isr EXCEPT !.pc = "tx"]
  /\ IF mode = "FIFO"
     THEN /\ IF MayRead THEN HandleRx ELSE UNCHANGED <<rxRem, fifo>>
          /\ UNCHANGED <<txRem, txStat, rxStat, txResetDone, rxResetDone>>
     ELSE /\ txStat' = txStat \ isr.tx /\ rxStat' = rxStat \ isr.rx
          /\ txRem' = IF "DONE" \in isr.tx THEN 0 ELSE txRem
          /\ rxRem' = IF "DONE" \in isr.rx THEN 0 ELSE rxRem
          /\ txResetDone' = (txResetDone \/ "RESET" \in isr.tx)
          /\ rxResetDone' = (rxResetDone \/ "RESET" \in isr.rx)
          /\ UNCHANGED fifo
  /\ Isr(<<cur, lock, cancelDone, abortDone, sig, mstat>>)

IsrTx ==
  /\ isr.pc = "tx"
  /\ isr' = [isr EXCEPT !.pc = "done"]
  /\ IF mode = "FIFO" /\ "TX_WATERMARK" \in isr.m THEN HandleTx(fifo, fifo.wm)
     ELSE UNCHANGED <<txRem, fifo>>
  /\ Isr(<<cur, rxRem, lock, doneVars, sig, mstat, txStat, rxStat>>)

\* Is the transfer at its end?
AtEnd == cur # 0 /\ IF mode = "FIFO" THEN "DONE" \in isr.m ELSE txRem = 0 /\ rxRem = 0

IsrDone ==
  /\ isr.pc = "done"
  /\ sig' = (sig \/ AtEnd)
  /\ isr' = [isr EXCEPT !.pc = IF AtEnd THEN "forget" ELSE "complete"]
  /\ Isr(<<cur, txRem, rxRem, lock, doneVars, fifo, mstat, txStat, rxStat>>)

\* The transfer has been finalized, and the core may go on.
IsrForget ==
  /\ isr.pc = "forget"
  /\ cur' = 0
  /\ fifo' = [fifo EXCEPT !.wm = @ /\ ~(mode = "FIFO" /\ txRem # 0)]
  /\ isr' = [isr EXCEPT !.pc = "complete"]
  /\ Isr(<<txRem, rxRem, lock, doneVars, sig, mstat, txStat, rxStat>>)

IsrComplete ==
  /\ isr.pc = "complete"
  /\ cancelDone' = (cancelDone \/ "CANCEL" \in isr.m)
  /\ abortDone' = (abortDone \/ "ABORT" \in isr.m)
  /\ isr' = [isr EXCEPT !.pc = "ack"]
  /\ Isr(<<cur, txRem, rxRem, lock, txResetDone, rxResetDone, sig, fifo, mstat, txStat, rxStat>>)

\* Mutant of Ack: whatever is pending is acknowledged.
AckAll == {}

\* What was read is acknowledged, at the end.
Ack == mstat \ isr.m

IsrAck ==
  /\ isr.pc = "ack"
  /\ mstat' = Ack
  /\ lock' = "none"
  /\ isr' = IdleIsr
  /\ Isr(<<cur, txRem, rxRem, doneVars, sig, fifo, txStat, rxStat>>)

IsrNext ==
  \/ IsrReadM \/ IsrReadDma \/ IsrLock \/ IsrRx \/ IsrTx \/ IsrDone \/ IsrForget \/ IsrComplete
  \/ IsrAck

-----------------------------------------------------------------------------
(* The hardware *)

Hw(v) == UNCHANGED <<masVars, lock, doneVars, pumpVars, sig, isr, reg, hwMode, power, system, faults,
                      late, v>>

\* A word goes out, or comes in, or both; after the last one the command is done.
HwWord ==
  /\ op.x # 0 /\ ~op.dma
  /\ op.tx => fifo.tx > 0
  /\ op.rx => fifo.rx < Depth
  /\ fifo' = [fifo EXCEPT !.tx = IF op.tx THEN @ - 1 ELSE @, !.rx = IF op.rx THEN @ + 1 ELSE @,
                          !.last = IF op.rx /\ op.left = 1 THEN op.lastBytes ELSE @]
  /\ IF op.left > 1 THEN op' = [op EXCEPT !.left = @ - 1] /\ UNCHANGED <<mstat, ended>>
     ELSE /\ op' = NoOp /\ ended' = op.x
          /\ mstat' = mstat \cup {"DONE"} \cup (IF op.rx THEN {"RX_LAST"} ELSE {})
  /\ Hw(<<txStat, rxStat>>)

\* The DMA ends, in one direction or in the other.
HwDma(tx) ==
  /\ op.x # 0 /\ op.dma /\ IF tx THEN op.tx ELSE op.rx
  /\ IF tx THEN txStat' = txStat \cup {"DONE"} /\ UNCHANGED rxStat
     ELSE rxStat' = rxStat \cup {"DONE"} /\ UNCHANGED txStat
  /\ LET rest == IF tx THEN op.rx ELSE op.tx
     IN  IF rest THEN /\ op' = IF tx THEN [op EXCEPT !.tx = FALSE] ELSE [op EXCEPT !.rx = FALSE]
                      /\ UNCHANGED <<mstat, ended>>
         ELSE op' = NoOp /\ ended' = op.x /\ mstat' = mstat \cup {"DONE"}
  /\ Hw(<<fifo>>)

\* Latched levels: the transmit FIFO is empty, the receive FIFO is filling.
HwLevels ==
  LET levels == (IF fifo.wm /\ fifo.tx = 0 THEN {"TX_WATERMARK"} ELSE {})
                \cup (IF fifo.rx >= Depth - 2 THEN {"RX_WATERMARK"} ELSE {})
  IN  /\ ~(levels \subseteq mstat)
      /\ mstat' = mstat \cup levels
      /\ Hw(<<fifo, op, ended, txStat, rxStat>>)

HwNext == HwWord \/ HwLevels \/ \E tx \in BOOLEAN : HwDma(tx)

\* Nothing is left to transfer, or runtime PM refuses.
Ended == pc = "idle" /\ (xfer.x = MaxXfers \/ power = "error") /\ UNCHANGED vars

Next == PumpNext \/ RuntimeSuspend \/ Suspend \/ Resume \/ TimesOut \/ IsrNext \/ HwNext \/ Ended

\* The pump is a thread, the hardware works, the handler runs in the end.
Fairness == WF_vars(PumpNext) /\ WF_vars(IsrNext) /\ WF_vars(HwNext)

Spec == Init /\ [][Next]_vars /\ Fairness

-----------------------------------------------------------------------------
\* Types.
TypeOK ==
  /\ cur \in 0 .. MaxXfers /\ hx \in 0 .. MaxXfers /\ ended \in 0 .. MaxXfers
  /\ mode \in {"FIFO", "DMA"} /\ hwMode \in {"FIFO", "DMA"}
  /\ txRem \in Nat /\ rxRem \in Nat
  /\ abortFailed \in BOOLEAN /\ sig \in BOOLEAN /\ lock \in {"none", "isr"}
  /\ power \in {"on", "off", "error"} /\ system \in {"awake", "asleep", "failed"}
  /\ cancelDone \in BOOLEAN /\ abortDone \in BOOLEAN
  /\ txResetDone \in BOOLEAN /\ rxResetDone \in BOOLEAN
  /\ pc \in {"idle", "transfer", "setup", "clock", "rem", "cur", "lens", "mode", "select", "start",
             "wait", "error", "cancel", "abort", "reset", "txReset", "reset2", "rxReset"}
  /\ isr.pc \in {"off", "dma", "lock", "rx", "tx", "done", "forget", "complete", "ack"}
  /\ mstat \subseteq {"DONE", "RX_WATERMARK", "RX_LAST", "TX_WATERMARK", "CANCEL", "ABORT"}
  /\ isr.m \subseteq {"DONE", "RX_WATERMARK", "RX_LAST", "TX_WATERMARK", "CANCEL", "ABORT"}
  /\ txStat \subseteq {"DONE", "RESET"} /\ rxStat \subseteq {"DONE", "RESET"}
  /\ isr.tx \subseteq {"DONE", "RESET"} /\ isr.rx \subseteq {"DONE", "RESET"}
  /\ fifo.tx \in Nat /\ fifo.rx \in Nat /\ fifo.last \in 0 .. Bpw /\ fifo.wm \in BOOLEAN
  /\ op.x \in 0 .. MaxXfers /\ op.left \in Nat
  /\ xfer.x \in 0 .. MaxXfers
  /\ late \in BOOLEAN
  /\ faults \in 0 .. MaxFaults

\* The handler finalizes a transfer only when the hardware has finished that very transfer, and
\* the cur_xfer that it then forgets is still that one.
EndsOwn == isr.pc = "forget" => cur # 0 /\ cur = ended

\* So it does as long as no transfer is set up with the interrupt of a DMA reset still to be
\* served: no other interrupt of an earlier command, read before the lock was taken, ends a later
\* transfer (setup_se_xfer: "Ensure that our interrupt handler isn't still running from some prior
\* command").  Of a reset whose wait has timed out the driver remembers nothing, and EndsOwn fails.
FinalizeOwn == ~late => EndsOwn

\* A finalized transfer has moved every byte (geni_spi_isr: "Premature done"), under the same
\* condition: a transfer taken for over before it is started has moved none.
AllMoved == ~late /\ isr.pc = "forget" => txRem = 0 /\ rxRem = 0

\* The words written never exceed the transmit FIFO: the watermark that geni_spi_handle_tx
\* answers is that of the FIFO it writes to.
FifoFits == fifo.tx <= Depth

\* A command that the hardware runs is the pump's, which waits for it or is about to cancel it,
\* and the bus is set up as its device asked, however the devices alternate and whichever
\* settings failed before (setup_fifo_params and geni_spi_set_clock_and_bw write changes only).
\* Its clock has the vote that the device asked for, unless a suspend of the system failed.  The
\* command of a transfer finalized too early (late) runs on without the pump.
RunsConfigured ==
  ~late /\ op.x # 0 =>
    /\ op.x = xfer.x /\ pc \in {"wait", "error"}
    /\ reg.cs = xfer.d.cs /\ reg.phase = xfer.d.phase
    /\ system = "awake" => reg.hz = xfer.d.hz
    /\ reg.inv = IF xfer.d.high THEN {xfer.d.cs} ELSE {}

\* A transfer that does not time out is finalized: no interrupt is lost between the handler's
\* reading of the status and its acknowledgement, and the FIFOs never starve.  (A late handler can
\* end a transfer too early and leave its command to be overtaken by the next.)
TransfersEnd == pc = "wait" ~> pc # "wait" \/ late

=============================================================================
