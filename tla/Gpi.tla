--------------------------------- MODULE Gpi ---------------------------------
(***************************************************************************)
(* One instance (gpii) of the GPI DMA engine, drivers/dma/qcom/gpi.c with  *)
(* the QSPI descriptors of the patch: a transmit and a receive channel, the *)
(* transfer rings, the event ring that both share, the interrupt handler,  *)
(* the tasklet that reads the events, and the handlers of dmaengine.       *)
(*                                                                         *)
(* ctrl_lock admits one handler at a time, so the handler that holds it is *)
(* a script: the steps it has yet to take.  The other processes are the    *)
(* interrupt handler, the tasklet and the hardware.  pm_lock is a rwlock:  *)
(* the tasklet reads under it, and a step of a script that takes it for    *)
(* writing waits until the tasklet has run.                                *)
(*                                                                         *)
(* SpiGsi adds the client: the SPI controller.                             *)
(***************************************************************************)
EXTENDS Integers, Sequences, FiniteSets, SequencesExt

CONSTANTS
  Elements,     \* ring elements of a channel, CHAN_TRES
  MaxFaults     \* commands that outlast CMD_TIMEOUT_MS, and allocations that fail

ASSUME GpiAssumption == Elements \in Nat \ {0, 1} /\ MaxFaults \in Nat

TX == 0         \* GPI_TX_CHAN
RX == 1         \* GPI_RX_CHAN
Chans == {TX, RX}
Slots == 0 .. Elements - 1

ChStates  == {"NOT_ALLOCATED", "ALLOCATED", "STARTED", "STOPPED", "STOP_IN_PROC"}
EvStates  == {"NOT_ALLOCATED", "ALLOCATED"}
PmStates  == {"DISABLE", "CONFIG", "PREPARE_HARDWARE", "ACTIVE", "PREPARE_TERMINATE", "PAUSE"}
RegAccessValid(p) == p \in {"PREPARE_HARDWARE", "ACTIVE", "PREPARE_TERMINATE", "PAUSE"}

\* gpi_cmd_info: the state that a command must leave behind.
CmdState == [ALLOCATE  |-> "ALLOCATED", START |-> "STARTED",       STOP |-> "STOPPED",
             RESET     |-> "ALLOCATED", DE_ALLOC |-> "NOT_ALLOCATED",
             EV_ALLOCATE |-> "ALLOCATED", EV_DEALLOC |-> "NOT_ALLOCATED"]
Cmds == DOMAIN CmdState
IsChanCmd(cmd) == cmd \notin {"EV_ALLOCATE", "EV_DEALLOC"}

VARIABLES
  \* struct gpii
  pm,           \* pm_state
  evState,      \* ev_state
  evOn,         \* ev_ring.configured
  irq,          \* "off": no handler, "on", or "disabled" by disable_irq
  ieobOn,       \* the IEOB bit of cntxt_type_irq_msk and of its register
  gpiCmd,       \* gpi_cmd, the last command sent
  done,         \* cmd_completion
  sched,        \* ev_task is scheduled
  \* struct gchan
  cpm,          \* pm_state
  chState,      \* ch_state
  ring,         \* ch_ring: configured, rp and wp, as indices
  slot,         \* the elements of ch_ring
  vc,           \* the descriptors of vc: allocated, submitted and issued
  \* the threads
  script,       \* what the holder of ctrl_lock has yet to do
  sent,         \* it waits for cmd_completion
  ret,          \* its result is 0
  tk,           \* gpi_ev_tasklet: pc, the events before cntxt_rp, and vd
  \* the hardware
  hw,           \* per channel: state, context programmed, next element, doorbell, links
  hwEv,         \* state of the event channel
  cmds,         \* commands written and not yet obeyed
  evs,          \* events between ev_ring.rp and the hardware's rp
  stat,         \* pending interrupts: IEOB, channel and event control
  faults        \* how many commands and allocations have failed

ctlVars  == <<script, sent, ret>>
irqVars  == <<irq, ieobOn>>
listVars == <<ring, slot, vc>>
hwVars   == <<hw, hwEv, cmds>>
pmVars   == <<pm, cpm>>
gpiVars  == <<pm, evState, evOn, irq, ieobOn, gpiCmd, done, sched, cpm, chState, ring, slot, vc,
              script, sent, ret, tk, hw, hwEv, cmds, evs, stat, faults>>

IdleTk  == [pc |-> "off", n |-> 0, ch |-> TX, x |-> 0, cb |-> FALSE]
IdleHw  == [state |-> "NOT_ALLOCATED", ctx |-> FALSE, at |-> 0, db |-> 0, links |-> 0]
NoRing  == [on |-> FALSE, rp |-> 0, wp |-> 0]
NoDescs == [allocated |-> <<>>, submitted |-> <<>>, issued |-> <<>>]
NoTre   == [kind |-> "none", flags |-> {}, x |-> 0]

\* gpi_probe: everything zeroed, no channel in use.
GpiInit ==
  /\ pm = "DISABLE" /\ evState = "NOT_ALLOCATED" /\ evOn = FALSE
  /\ irq = "off" /\ ieobOn = FALSE /\ gpiCmd = "ALLOCATE" /\ done = FALSE /\ sched = FALSE
  /\ cpm = [c \in Chans |-> "DISABLE"] /\ chState = [c \in Chans |-> "NOT_ALLOCATED"]
  /\ ring = [c \in Chans |-> NoRing] /\ slot = [c \in Chans |-> [i \in Slots |-> NoTre]]
  /\ vc = [c \in Chans |-> NoDescs]
  /\ script = <<>> /\ sent = FALSE /\ ret = TRUE
  /\ tk = IdleTk
  /\ hw = [c \in Chans |-> IdleHw] /\ hwEv = "NOT_ALLOCATED" /\ cmds = <<>>
  /\ evs = <<>> /\ stat = [ieob |-> FALSE, ch |-> {}, ev |-> FALSE] /\ faults = 0

-----------------------------------------------------------------------------
(* Rings and descriptors *)

\* gpi_ring_num_elements_avail
Avail(r) ==
  IF r.wp < r.rp THEN (r.rp - r.wp) - 1 ELSE r.rp + (Elements - r.wp) - 1

\* Advance of a ring pointer, of gpi_ring_add_element and gpi_ring_recycle_ev_element.
After(i, k) == (i + k) % Elements

\* gpi_create_qspi_tre: the elements of a transfer t for channel c.  t.cmd is
\* SPI_TX or SPI_TX_RX, t.imm says that its command bytes fit in an element.
Tres(c, t) ==
  LET Tre(kind, flags) == [kind |-> kind, flags |-> flags, x |-> t.x]
      Go  == Tre("go", {"CHAIN"} \cup (IF t.cmd = "SPI_TX_RX" THEN {"LINK"} ELSE {}))
      Dma == Tre(IF c = TX /\ t.imm THEN "imm" ELSE "dma", {"IEOT"})
  IN  IF c = TX THEN <<Tre("config", {"CHAIN"}), Go, Dma>> ELSE <<Dma>>

\* nr_tre of gpi_prep_slave_sg; spi-geni-qcom always sets set_config.
NrTre(c) == IF c = TX THEN 3 ELSE 1

\* gpi_prep_slave_sg, called with DMA_PREP_INTERRUPT, finds room for a transfer.
HasRoom(c) == Avail(ring[c]) >= NrTre(c)

Desc(c, t) == [x |-> t.x, cb |-> (c = RX) = (t.cmd = "SPI_TX_RX"), tres |-> Tres(c, t)]

\* gpi_queue_xfer for the elements of a descriptor: what does not fit is dropped.
Queued(c, d) ==
  LET k == IF Len(d.tres) <= Avail(ring[c]) THEN Len(d.tres) ELSE Avail(ring[c])
  IN  [wp   |-> After(ring[c].wp, k),
       slot |-> [i \in Slots |->
                   LET o == (i - ring[c].wp + Elements) % Elements
                   IN  IF o < k THEN d.tres[o + 1] ELSE slot[c][i]]]

\* gpi_issue_pending: everything submitted is issued, the elements of the last
\* descriptor go into the ring, and the doorbell rings.
Issue(c) ==
  LET issued == vc[c].issued \o vc[c].submitted
      q == Queued(c, Last(issued))
  IN  /\ vc' = [vc EXCEPT ![c].issued = issued, ![c].submitted = <<>>]
      /\ IF issued = <<>> THEN UNCHANGED <<ring, slot, hw>>
         ELSE /\ ring' = [ring EXCEPT ![c].wp = q.wp]
              /\ slot' = [slot EXCEPT ![c] = q.slot]
              /\ hw' = [hw EXCEPT ![c].db = q.wp]
      /\ UNCHANGED <<pmVars, ctlVars, irqVars, evState, evOn, gpiCmd, done, sched, chState, tk,
                     hwEv, cmds, evs, stat, faults>>

-----------------------------------------------------------------------------
(* Scripts.  A step is done to a channel; a command also says what follows *)
(* when it succeeds (ok), whether its failure ends the handler (must) and  *)
(* which steps then undo what was done (bad).                              *)

Step(k, c) == [do |-> k, ch |-> c, val |-> "", ok |-> <<>>, must |-> FALSE, bad |-> <<>>]
SetPm(p)    == [Step("setPm", TX) EXCEPT !.val = p]
SetCh(c, p) == [Step("setCh", c) EXCEPT !.val = p]
Cmd(cmd, c) == [Step("cmd", c) EXCEPT !.val = cmd]
Must(s, bad) == [s EXCEPT !.must = TRUE, !.bad = bad]

\* gpi_reset_chan after its command; gpi_start_chan; gpi_stop_chan.
Wiped(c)      == <<Step("resetRing", c), Step("wipe", c)>>
ResetChan(cmd, c) == [Cmd(cmd, c) EXCEPT !.ok = Wiped(c)]
StartChan(c, bad) == Must([Cmd("START", c) EXCEPT !.ok = <<SetCh(c, "ACTIVE")>>], bad)
StopChan(c)   == Cmd("STOP", c)

\* Mutant of Terminating: the rings are not programmed again.
TerminatingNoProgram ==
  <<SetCh(TX, "PREPARE_TERMINATE"), StopChan(TX),
    SetCh(RX, "PREPARE_TERMINATE"), StopChan(RX),
    ResetChan("RESET", TX), ResetChan("RESET", RX),
    StartChan(TX, <<>>), StartChan(RX, <<>>)>>

\* Mutant of Terminating: the channels are stopped and started again, never reset.
TerminatingNoReset ==
  <<SetCh(TX, "PREPARE_TERMINATE"), StopChan(TX),
    SetCh(RX, "PREPARE_TERMINATE"), StopChan(RX)>>
  \o Wiped(TX) \o Wiped(RX) \o <<StartChan(TX, <<>>), StartChan(RX, <<>>)>>

\* gpi_terminate_all: both channels, in lockstep.
Terminating ==
  <<SetCh(TX, "PREPARE_TERMINATE"), StopChan(TX),
    SetCh(RX, "PREPARE_TERMINATE"), StopChan(RX),
    Must(ResetChan("RESET", TX), <<>>), Step("program", TX),
    Must(ResetChan("RESET", RX), <<>>), Step("program", RX),
    StartChan(TX, <<>>), StartChan(RX, <<>>)>>

\* gpi_pause, unless already paused.
Pausing ==
  <<Must(StopChan(TX), <<>>), Must(StopChan(RX), <<>>),
    Step("disableIrq", TX), Step("killTasklet", TX), SetPm("PAUSE")>>

\* gpi_resume, unless active.
Resuming ==
  <<Step("enableIrq", TX), Must(Cmd("START", TX), <<>>), Must(Cmd("START", RX), <<>>),
    SetPm("ACTIVE")>>

\* The labels of gpi_ch_init, called for channel c, when started channels are
\* running and allocated ones have been allocated.
ErrorConfigInt   == <<Step("freeEv", TX)>>
ErrorAllocEvRing == <<Step("irqOff", TX)>> \o ErrorConfigInt
ErrorAllocChan(c, allocated) ==
  [i \in 1 .. allocated |-> ResetChan("DE_ALLOC", c)] \o ErrorAllocEvRing
ErrorStartChan(c, started) ==
  (IF started = 1 THEN <<StopChan(TX), Cmd("RESET", c)>> ELSE <<>>) \o ErrorAllocChan(c, 2)

\* gpi_ch_init for channel c, once both channels are configured.
ChInit(c) ==
  <<Step("allocEv", TX), SetPm("PREPARE_HARDWARE"), Step("configIrq", TX),
    Must(Cmd("EV_ALLOCATE", TX), ErrorAllocEvRing), SetPm("ACTIVE"),
    Must(Cmd("ALLOCATE", TX), ErrorAllocChan(c, 0)), Step("program", TX),
    Must(Cmd("ALLOCATE", RX), ErrorAllocChan(c, 1)), Step("program", RX),
    StartChan(TX, ErrorStartChan(c, 0)), StartChan(RX, ErrorStartChan(c, 1))>>

\* Mutant of Freeing: the ring is freed under a running channel.
FreeingAtOnce(c, p) ==
  <<SetCh(c, "PREPARE_TERMINATE"), Step("freeRing", c), Step("freeVc", c), SetCh(c, "DISABLE"),
    Step("others", c)>>

\* gpi_free_chan_resources for channel c in state p, up to the other channel's check.
Freeing(c, p) ==
  <<SetCh(c, "PREPARE_TERMINATE")>>
  \o (IF p = "ACTIVE" THEN <<StopChan(c), Cmd("RESET", c), ResetChan("DE_ALLOC", c)>> ELSE <<>>)
  \o <<Step("freeRing", c), Step("freeVc", c), SetCh(c, "DISABLE"), Step("others", c)>>

\* The rest of it, when the gpii was in state p.
FreeingEv(p) ==
  <<SetPm("PREPARE_TERMINATE"), Step("killTasklet", TX)>>
  \o (IF p = "ACTIVE" THEN <<Cmd("EV_DEALLOC", TX)>> ELSE <<>>)
  \o <<Step("freeEv", TX)>>
  \o (IF p = "ACTIVE" THEN <<Step("irqOff", TX)>> ELSE <<>>)
  \o <<SetPm("DISABLE")>>

\* A handler takes ctrl_lock.
Enter(s) == script = <<>> /\ script' = s /\ sent' = FALSE /\ ret' = TRUE

Quiet == UNCHANGED <<pm, evState, evOn, irqVars, gpiCmd, done, sched, chState, slot, vc, tk,
                     hwVars, evs, stat>>

Terminate == Enter(Terminating) /\ UNCHANGED <<cpm, ring, faults>> /\ Quiet
Pause     == Enter(IF pm = "PAUSE" THEN <<>> ELSE Pausing) /\ UNCHANGED <<cpm, ring, faults>> /\ Quiet
Resume    == Enter(IF pm = "ACTIVE" THEN <<>> ELSE Resuming) /\ UNCHANGED <<cpm, ring, faults>> /\ Quiet
Free(c)   == Enter(Freeing(c, cpm[c])) /\ UNCHANGED <<cpm, ring, faults>> /\ Quiet

\* gpi_alloc_chan_resources: the ring, and gpi_ch_init up to its check of both channels.
Alloc(c) ==
  /\ ring' = [ring EXCEPT ![c] = [on |-> TRUE, rp |-> 0, wp |-> 0]]
  /\ cpm' = [cpm EXCEPT ![c] = "CONFIG"]
  /\ Enter(IF \A d \in Chans : cpm'[d] = "CONFIG" THEN ChInit(c) ELSE <<>>)
  /\ UNCHANGED faults /\ Quiet

\* There is no memory for the ring.
AllocFails ==
  /\ script = <<>> /\ faults < MaxFaults /\ faults' = faults + 1
  /\ ret' = FALSE
  /\ UNCHANGED <<script, sent, cpm, ring>> /\ Quiet

-----------------------------------------------------------------------------
(* The holder of ctrl_lock takes its next step *)

\* Some thread holds pm_lock for reading.
Readers == tk.pc # "off"
Next1(k) == script # <<>> /\ ~sent /\ Head(script).do = k
Moves == script' = Tail(script) /\ UNCHANGED <<sent, ret>>
Head1 == Head(script)

\* gpi_send_cmd, up to its wait.
SendCmd ==
  /\ Next1("cmd")
  /\ sent' = TRUE /\ done' = FALSE /\ gpiCmd' = Head1.val
  /\ cmds' = Append(cmds, [cmd |-> Head1.val, ch |-> Head1.ch])
  /\ UNCHANGED <<script, ret, pmVars, evState, evOn, irqVars, sched, chState, listVars, tk,
                 hw, hwEv, evs, stat, faults>>

\* The state that the interrupt handler has read is the one the command asked for.
Confirmed(s) ==
  CmdState[s.val] = IF IsChanCmd(s.val) THEN chState[s.ch] ELSE evState

CmdEnds(good) ==
  /\ sent' = FALSE
  /\ script' = IF good THEN Head1.ok \o Tail(script)
               ELSE IF Head1.must THEN Head1.bad ELSE Tail(script)
  /\ ret' = (ret /\ (good \/ ~Head1.must))
  /\ UNCHANGED <<pmVars, evState, evOn, irqVars, gpiCmd, done, sched, chState, listVars, tk,
                 hwVars, evs, stat>>

\* gpi_send_cmd after its wait.
CmdAnswered == sent /\ done /\ CmdEnds(Confirmed(Head1)) /\ UNCHANGED faults

\* It waits in vain when its interrupt cannot be handled.
CmdTimesOut ==
  /\ sent /\ ~done
  /\ IF irq = "on" /\ RegAccessValid(pm) THEN faults < MaxFaults /\ faults' = faults + 1
     ELSE UNCHANGED faults
  /\ CmdEnds(FALSE)

\* Mutant of SetState: pm_lock is not taken, and the tasklet may be at work.
SetStateAtOnce ==
  /\ Next1("setPm") \/ Next1("setCh")
  /\ IF Head1.do = "setPm" THEN pm' = Head1.val /\ UNCHANGED cpm
     ELSE cpm' = [cpm EXCEPT ![Head1.ch] = Head1.val] /\ UNCHANGED pm
  /\ Moves
  /\ UNCHANGED <<evState, evOn, irqVars, gpiCmd, done, sched, chState, listVars, tk,
                 hwVars, evs, stat, faults>>

\* pm_state, of the gpii or of a channel, under pm_lock.
SetState ==
  /\ Next1("setPm") \/ Next1("setCh")
  /\ ~Readers
  /\ IF Head1.do = "setPm" THEN pm' = Head1.val /\ UNCHANGED cpm
     ELSE cpm' = [cpm EXCEPT ![Head1.ch] = Head1.val] /\ UNCHANGED pm
  /\ Moves
  /\ UNCHANGED <<evState, evOn, irqVars, gpiCmd, done, sched, chState, listVars, tk,
                 hwVars, evs, stat, faults>>

\* gpi_reset_chan: both pointers of the ring.
ResetRing ==
  /\ Next1("resetRing")
  /\ ring' = [ring EXCEPT ![Head1.ch].rp = 0, ![Head1.ch].wp = 0]
  /\ Moves
  /\ UNCHANGED <<pmVars, evState, evOn, irqVars, gpiCmd, done, sched, chState, slot, vc, tk,
                 hwVars, evs, stat, faults>>

\* Mutant of Stale: the events of the channel are left to be read.
StaleNone(c) == evs

\* gpi_mark_stale_events
Stale(c) == [i \in DOMAIN evs |-> IF evs[i].ch = c THEN [evs[i] EXCEPT !.type = "stale"] ELSE evs[i]]

\* gpi_reset_chan: under pm_lock, stale events are marked and all descriptors taken.
Wipe ==
  /\ Next1("wipe")
  /\ ~Readers
  /\ evs' = Stale(Head1.ch)
  /\ vc' = [vc EXCEPT ![Head1.ch] = NoDescs]
  /\ Moves
  /\ UNCHANGED <<pmVars, evState, evOn, irqVars, gpiCmd, done, sched, chState, ring, slot, tk,
                 hwVars, stat, faults>>

\* gpi_alloc_chan after its command: the hardware knows the ring.
Program ==
  /\ Next1("program")
  /\ hw' = [hw EXCEPT ![Head1.ch].ctx = TRUE, ![Head1.ch].at = 0, ![Head1.ch].db = 0]
  /\ Moves
  /\ UNCHANGED <<pmVars, evState, evOn, irqVars, gpiCmd, done, sched, chState, listVars, tk,
                 hwEv, cmds, evs, stat, faults>>

\* gpi_alloc_ring for the event ring.
AllocEvRing ==
  /\ Next1("allocEv")
  /\ \/ evOn' = TRUE /\ evs' = <<>> /\ Moves /\ UNCHANGED faults
     \/ /\ faults < MaxFaults /\ faults' = faults + 1
        /\ script' = <<>> /\ ret' = FALSE
        /\ UNCHANGED <<sent, evOn, evs>>
  /\ UNCHANGED <<pmVars, evState, irqVars, gpiCmd, done, sched, chState, listVars, tk,
                 hwVars, stat>>

\* gpi_config_interrupts(DEFAULT_IRQ_SETTINGS)
ConfigIrq ==
  /\ Next1("configIrq")
  /\ \/ irq' = "on" /\ ieobOn' = TRUE /\ Moves /\ UNCHANGED faults
     \/ /\ irq = "off" /\ faults < MaxFaults /\ faults' = faults + 1
        /\ script' = ErrorConfigInt /\ ret' = FALSE
        /\ UNCHANGED <<sent, irq, ieobOn>>
  /\ UNCHANGED <<pmVars, evState, evOn, gpiCmd, done, sched, chState, listVars, tk,
                 hwVars, evs, stat>>

\* gpi_disable_interrupts, disable_irq, enable_irq.
SwitchIrq ==
  /\ Next1("irqOff") \/ Next1("disableIrq") \/ Next1("enableIrq")
  /\ irq' = CASE Head1.do = "irqOff" -> "off"
              [] Head1.do = "disableIrq" -> "disabled"
              [] Head1.do = "enableIrq" -> IF irq = "disabled" THEN "on" ELSE irq
  /\ ieobOn' = (ieobOn /\ Head1.do # "irqOff")
  /\ Moves
  /\ UNCHANGED <<pmVars, evState, evOn, gpiCmd, done, sched, chState, listVars, tk,
                 hwVars, evs, stat, faults>>

\* tasklet_kill
KillTasklet ==
  /\ Next1("killTasklet")
  /\ ~sched /\ tk.pc = "off"
  /\ Moves
  /\ UNCHANGED <<pmVars, evState, evOn, irqVars, gpiCmd, done, sched, chState, listVars, tk,
                 hwVars, evs, stat, faults>>

\* gpi_free_ring for a channel and for the events, vchan_free_chan_resources.
FreeMemory ==
  /\ \/ Next1("freeRing") /\ ring' = [ring EXCEPT ![Head1.ch] = NoRing]
                         /\ UNCHANGED <<vc, evOn, evs>>
     \/ Next1("freeVc") /\ vc' = [vc EXCEPT ![Head1.ch] = NoDescs]
                       /\ UNCHANGED <<ring, evOn, evs>>
     \/ Next1("freeEv") /\ evOn' = FALSE /\ evs' = <<>> /\ UNCHANGED <<ring, vc>>
  /\ Moves
  /\ UNCHANGED <<pmVars, evState, irqVars, gpiCmd, done, sched, chState, slot, tk,
                 hwVars, stat, faults>>

\* gpi_free_chan_resources: the last channel also frees what both share.
FreeShared ==
  /\ Next1("others")
  /\ script' = IF \E c \in Chans : ring[c].on THEN <<>> ELSE FreeingEv(pm)
  /\ UNCHANGED <<sent, ret, pmVars, evState, evOn, irqVars, gpiCmd, done, sched, chState, listVars,
                 tk, hwVars, evs, stat, faults>>

CtlNext ==
  \/ SendCmd \/ CmdAnswered \/ CmdTimesOut \/ SetState \/ ResetRing \/ Wipe \/ Program
  \/ AllocEvRing \/ ConfigIrq \/ SwitchIrq \/ KillTasklet \/ FreeMemory \/ FreeShared

-----------------------------------------------------------------------------
(* The interrupt handler, whose pass is one step *)

\* What the handler reads of the state of a channel.  DE_ALLOC does not change the state
\* of the hardware, so that of the software is overwritten.
ReadState(c) == IF gpiCmd = "DE_ALLOC" THEN "NOT_ALLOCATED" ELSE hw[c].state

\* gpi_process_ch_ctrl_irq waits for the second interrupt of a channel that stops.
CompletesCmd(c) == ReadState(c) # "STOP_IN_PROC"

\* gpi_process_ieob
HandleIeob ==
  LET ieob == stat.ieob /\ ieobOn
  IN  ieobOn' = (ieobOn /\ ~ieob) /\ sched' = (sched \/ ieob)

\* gpi_handle_irq: transfer completions, event control, channel control.
HandleIrq ==
  /\ irq = "on" /\ RegAccessValid(pm)
  /\ (stat.ieob /\ ieobOn) \/ stat.ev \/ stat.ch # {}
  /\ HandleIeob
  /\ evState' = IF ~stat.ev THEN evState
                ELSE IF gpiCmd = "EV_DEALLOC" THEN "NOT_ALLOCATED" ELSE hwEv
  /\ chState' = [c \in Chans |-> IF c \in stat.ch THEN ReadState(c) ELSE chState[c]]
  /\ done' = (done \/ stat.ev \/ \E c \in stat.ch : CompletesCmd(c))
  /\ stat' = [ieob |-> stat.ieob /\ ~ieobOn, ev |-> FALSE, ch |-> {}]
  /\ UNCHANGED <<pmVars, evOn, irq, gpiCmd, listVars, ctlVars, tk, hwVars, evs, faults>>

-----------------------------------------------------------------------------
(* The tasklet *)

TkFrame == UNCHANGED <<pmVars, evState, evOn, gpiCmd, done, chState, slot, ctlVars, hwVars,
                       faults>>

\* gpi_ev_tasklet takes pm_lock; gpi_process_events reads cntxt_rp.
TkStart ==
  /\ sched /\ tk.pc = "off"
  /\ sched' = FALSE
  /\ tk' = IF RegAccessValid(pm) THEN [IdleTk EXCEPT !.pc = "scan", !.n = Len(evs)] ELSE IdleTk
  /\ UNCHANGED <<irq, ieobOn, ring, vc, evs, stat>> /\ TkFrame

\* gpi_ring_recycle_ev_element
Recycled(t) == [IdleTk EXCEPT !.pc = "scan", !.n = t.n - 1]

\* gpi_process_xfer_compl_event and gpi_process_imed_data_event, up to the callback: an event
\* of an active channel with a descriptor moves rp past its element; any other is skipped.
TkEvent ==
  /\ tk.pc = "scan" /\ tk.n > 0 /\ evOn /\ evs # <<>>
  /\ LET e == Head(evs)
         live == e.type # "stale" /\ cpm[e.ch] = "ACTIVE" /\ vc[e.ch].issued # <<>>
     IN  IF live
         THEN /\ LET vd == Head(vc[e.ch].issued)
                IN  tk' = [tk EXCEPT !.pc = "complete", !.ch = e.ch, !.x = vd.x, !.cb = vd.cb]
              /\ ring' = [ring EXCEPT ![e.ch].rp = After(e.slot, 1)]
              /\ UNCHANGED evs
         ELSE /\ tk' = Recycled(tk) /\ evs' = Tail(evs)
              /\ UNCHANGED ring
  /\ UNCHANGED <<irq, ieobOn, sched, vc, stat>> /\ TkFrame

\* list_del: the descriptor of transfer x leaves its list, where it is.
Unlinked(ds, x) ==
  LET k == CHOOSE k \in DOMAIN ds : ds[k].x = x
  IN  IF \E i \in DOMAIN ds : ds[i].x = x THEN RemoveAt(ds, k) ELSE ds

\* The callback, which the client supplies, without vc.lock.
TkCallback ==
  /\ tk.pc = "complete"
  /\ tk' = [tk EXCEPT !.pc = "unlink"]
  /\ UNCHANGED <<irq, ieobOn, sched, ring, vc, evs, stat>> /\ TkFrame

\* list_del and kfree of the descriptor; the event goes back to the hardware.
TkUnlink ==
  /\ tk.pc = "unlink"
  /\ vc' = [vc EXCEPT ![tk.ch].issued = Unlinked(@, tk.x)]
  /\ tk' = Recycled(tk) /\ evs' = Tail(evs)
  /\ UNCHANGED <<irq, ieobOn, sched, ring, stat>> /\ TkFrame

\* The snapshot has been read: the pending IEOB is cleared.
TkClear ==
  /\ tk.pc = "scan" /\ tk.n = 0
  /\ stat' = [stat EXCEPT !.ieob = FALSE]
  /\ tk' = [tk EXCEPT !.pc = "reread"]
  /\ UNCHANGED <<irq, ieobOn, sched, ring, vc, evs>> /\ TkFrame

\* Mutant of TkReread: what came before the clear is left to the next interrupt.
TkRereadNot ==
  /\ tk.pc = "reread"
  /\ tk' = [tk EXCEPT !.pc = "unmask"]
  /\ UNCHANGED <<irq, ieobOn, sched, ring, vc, evs, stat>> /\ TkFrame

\* cntxt_rp once more, for what came before the clear.
TkReread ==
  /\ tk.pc = "reread"
  /\ tk' = IF evs # <<>> THEN [tk EXCEPT !.pc = "scan", !.n = Len(evs)]
           ELSE [tk EXCEPT !.pc = "unmask"]
  /\ UNCHANGED <<irq, ieobOn, sched, ring, vc, evs, stat>> /\ TkFrame

\* gpi_config_interrupts(MASK_IEOB_SETTINGS, 1), which also requests a freed interrupt.
TkUnmask ==
  /\ tk.pc = "unmask"
  /\ ieobOn' = TRUE /\ irq' = IF irq = "off" THEN "on" ELSE irq
  /\ tk' = IdleTk
  /\ UNCHANGED <<sched, ring, vc, evs, stat>> /\ TkFrame

-----------------------------------------------------------------------------
(* The hardware, as far as the driver relies on it *)

HwFrame == UNCHANGED <<pmVars, evState, evOn, irqVars, gpiCmd, done, sched, chState, listVars,
                       ctlVars, tk, faults>>

\* What a channel command does; DE_ALLOC leaves the state alone.
Obeyed(h, cmd) ==
  CASE cmd = "ALLOCATE" -> [IdleHw EXCEPT !.state = "ALLOCATED"]
    [] cmd = "START" -> IF h.state \in {"ALLOCATED", "STOPPED"} THEN [h EXCEPT !.state = "STARTED"] ELSE h
    [] cmd = "STOP"  -> IF h.state = "STARTED" THEN [h EXCEPT !.state = "STOP_IN_PROC"] ELSE h
    [] cmd = "RESET" -> [IdleHw EXCEPT !.state = "ALLOCATED"]
    [] cmd = "DE_ALLOC" -> [h EXCEPT !.ctx = FALSE]

HwCommand ==
  /\ cmds # <<>>
  /\ cmds' = Tail(cmds)
  /\ LET c == Head(cmds)
     IN  IF IsChanCmd(c.cmd)
         THEN /\ hw' = [hw EXCEPT ![c.ch] = Obeyed(@, c.cmd)]
              /\ stat' = [stat EXCEPT !.ch = @ \cup {c.ch}]
              /\ UNCHANGED hwEv
         ELSE /\ hwEv' = IF c.cmd = "EV_ALLOCATE" THEN "ALLOCATED" ELSE hwEv
              /\ stat' = [stat EXCEPT !.ev = TRUE]
              /\ UNCHANGED hw
  /\ UNCHANGED evs /\ HwFrame

HwStopped ==
  /\ \E c \in Chans :
       /\ hw[c].state = "STOP_IN_PROC"
       /\ hw' = [hw EXCEPT ![c].state = "STOPPED"]
       /\ stat' = [stat EXCEPT !.ch = @ \cup {c}]
  /\ UNCHANGED <<hwEv, cmds, evs>> /\ HwFrame

\* Channel c finds elements in its ring; the receive channel also waits for a link.
HwRuns(c) ==
  /\ hw[c].state \in {"STARTED", "STOP_IN_PROC"} /\ hw[c].ctx
  /\ hw[c].at # hw[c].db
  /\ c = RX => hw[c].links > 0

\* The elements from the next one to the first that is not chained, or to the doorbell.
Chain(c) ==
  LET Ends(k) == \/ "CHAIN" \notin slot[c][After(hw[c].at, k - 1)].flags
                 \/ After(hw[c].at, k) = hw[c].db
      k == CHOOSE k \in 1 .. Elements : Ends(k) /\ \A j \in 1 .. k - 1 : ~Ends(j)
  IN  [i \in 1 .. k |-> slot[c][After(hw[c].at, i - 1)]]

\* Channel c obeys a chain; its last element may raise an event, a link lets the
\* receive channel go on.
HwElements(c) ==
  /\ HwRuns(c)
  /\ LET ch == Chain(c)
         t == Last(ch)
         links == Cardinality({i \in DOMAIN ch : "LINK" \in ch[i].flags})
                    - (IF c = RX THEN 1 ELSE 0)
     IN  /\ hw' = [hw EXCEPT ![c].at = After(@, Len(ch)), ![RX].links = @ + links]
         /\ IF "IEOT" \in t.flags
            THEN \E good \in BOOLEAN :
                   /\ evs' = Append(evs, [ch |-> c, slot |-> After(hw[c].at, Len(ch) - 1), x |-> t.x,
                                          type |-> IF t.kind = "imm" THEN "imed" ELSE "xfer",
                                          ok |-> good])
                   /\ stat' = [stat EXCEPT !.ieob = TRUE]
            ELSE UNCHANGED <<evs, stat>>
  /\ UNCHANGED <<hwEv, cmds>> /\ HwFrame

HwNext == HwCommand \/ HwStopped \/ \E c \in Chans : HwElements(c)

=============================================================================
