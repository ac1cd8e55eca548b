------------------------------- MODULE SpiGsi -------------------------------
(***************************************************************************)
(* The QSPI controller, drivers/spi/spi-geni-qcom.c in GENI_GPI_DMA mode   *)
(* with the patch, as the client of Gpi: it takes the two channels, runs   *)
(* one transfer after the other, terminates both channels when a transfer  *)
(* fails or times out, and gives the channels back.                        *)
(*                                                                         *)
(* The message pump of the SPI core is external: it starts a transfer,     *)
(* waits for spi_finalize_current_transfer, and calls handle_err when the  *)
(* transfer fails or its time is up.                                       *)
(***************************************************************************)
EXTENDS Gpi

CONSTANTS
  MaxXfers,     \* transfers
  MaxGrabs,     \* times that a probe takes the channels
  MaxPauses     \* pauses by another user of dmaengine

ASSUME SpiGsiAssumption == MaxXfers \in Nat /\ MaxGrabs \in Nat /\ MaxPauses \in Nat

VARIABLES
  cl,       \* where the controller is
  cur,      \* its transfer, the last one when there is none
  sig,      \* xfer_completion and what the callback said
  grabs,    \* probes so far
  pauses,   \* pauses so far
  dirty     \* a grab, a termination, or a command of a release, has failed

clVars == <<cl, cur, sig, grabs, pauses, dirty>>
vars   == <<gpiVars, clVars>>

\* A write of more than eight bytes, and a read, whose opcode and address fit in an element.
Shapes == {[cmd |-> "SPI_TX", imm |-> FALSE], [cmd |-> "SPI_TX_RX", imm |-> TRUE]}

NoXfer == [x |-> 0, cmd |-> "SPI_TX", imm |-> TRUE]

Init ==
  /\ GpiInit
  /\ cl = "off" /\ cur = NoXfer /\ sig = "none"
  /\ grabs = 0 /\ pauses = 0 /\ dirty = FALSE

Calls(from, to) == cl = from /\ cl' = to
Returns(from) == cl = from /\ script = <<>>
Client(v) == UNCHANGED <<gpiVars>> /\ UNCHANGED v

-----------------------------------------------------------------------------
(* Probe and remove *)

\* spi_geni_grab_gpi_chan asks for the transmit channel, then for the receive channel.
GrabTx ==
  /\ Calls("off", "grabTx") /\ grabs < MaxGrabs
  /\ grabs' = grabs + 1
  /\ Alloc(TX) \/ AllocFails
  /\ UNCHANGED <<cur, sig, pauses, dirty>>

GrabTxFailed ==
  /\ Returns("grabTx") /\ ~ret
  /\ cl' = "off"
  /\ Client(<<cur, sig, grabs, pauses, dirty>>)

GrabRx ==
  /\ Returns("grabTx") /\ ret
  /\ cl' = "grabRx"
  /\ Alloc(RX) \/ AllocFails
  /\ UNCHANGED <<cur, sig, grabs, pauses, dirty>>

Grabbed ==
  /\ Returns("grabRx") /\ ret
  /\ cl' = "ready"
  /\ Client(<<cur, sig, grabs, pauses, dirty>>)

\* The receive channel failed: the transmit channel goes back, and GPI mode is given up.  The
\* labels of gpi_ch_init undo little of what it did, and a START may be late: from here on dirty
\* holds.
GrabFailed ==
  /\ Returns("grabRx") /\ ~ret
  /\ cl' = "freeTx"
  /\ Free(TX)
  /\ dirty' = TRUE
  /\ UNCHANGED <<cur, sig, grabs, pauses>>

\* spi_geni_release_dma_chan: the receive channel first.
ReleaseRx ==
  /\ Calls("ready", "freeRx")
  /\ Free(RX)
  /\ UNCHANGED <<cur, sig, grabs, pauses, dirty>>

ReleaseTx ==
  /\ Returns("freeRx")
  /\ cl' = "freeTx"
  /\ Free(TX)
  /\ UNCHANGED <<cur, sig, grabs, pauses, dirty>>

Released ==
  /\ Returns("freeTx")
  /\ cl' = "off"
  /\ Client(<<cur, sig, grabs, pauses, dirty>>)

-----------------------------------------------------------------------------
(* Transfers *)

\* setup_gsi_xfer: both descriptors are prepared and submitted, or a preparation fails
\* for want of room or memory, the receive descriptor staying behind if it was first.
SetupGsiXfer ==
  /\ cl = "ready" /\ cur.x < MaxXfers
  /\ \E s \in Shapes :
       LET t == [x |-> cur.x + 1, cmd |-> s.cmd, imm |-> s.imm]
           reads == t.cmd = "SPI_TX_RX"
           room == HasRoom(TX) /\ (reads => HasRoom(RX))
       IN  /\ cur' = t
           /\ sig' = "none"
           /\ \/ /\ room
                 /\ vc' = [c \in Chans |->
                             IF c = TX \/ reads
                             THEN [vc[c] EXCEPT !.submitted = Append(@, Desc(c, t))] ELSE vc[c]]
                 /\ cl' = IF reads THEN "issueRx" ELSE "issueTx"
                 /\ UNCHANGED faults
              \/ /\ IF room THEN faults < MaxFaults /\ faults' = faults + 1 ELSE UNCHANGED faults
                 /\ vc' = IF reads /\ HasRoom(RX)
                          THEN [vc EXCEPT ![RX].allocated = Append(@, Desc(RX, t))] ELSE vc
                 /\ cl' = "failed"
  /\ UNCHANGED <<pmVars, ctlVars, irqVars, evState, evOn, gpiCmd, done, sched, chState, ring, slot,
                 tk, hwVars, evs, stat, grabs, pauses, dirty>>

IssueRx == Calls("issueRx", "issueTx") /\ Issue(RX) /\ UNCHANGED <<cur, sig, grabs, pauses, dirty>>
IssueTx == Calls("issueTx", "wait") /\ Issue(TX) /\ UNCHANGED <<cur, sig, grabs, pauses, dirty>>

\* spi_gsi_callback_result, called by the tasklet for the descriptor that has the callback.
Complete ==
  /\ TkCallback
  /\ sig' = IF ~tk.cb THEN sig ELSE IF Head(evs).ok THEN "ok" ELSE "error"
  /\ UNCHANGED <<cl, cur, grabs, pauses, dirty>>

\* The core's wait ends: with an answer, or when its time is up.
WaitEnds ==
  /\ cl = "wait"
  /\ cl' = IF sig = "ok" THEN "ready" ELSE "failed"
  /\ Client(<<cur, sig, grabs, pauses, dirty>>)

\* handle_gpi_timeout: dmaengine_terminate_sync for each channel, results ignored.
TerminateTx ==
  /\ Calls("failed", "terminateTx")
  /\ Terminate
  /\ UNCHANGED <<cur, sig, grabs, pauses, dirty>>

TerminateRx ==
  /\ Returns("terminateTx")
  /\ cl' = "terminateRx"
  /\ Terminate
  /\ dirty' = (dirty \/ ~ret)
  /\ UNCHANGED <<cur, sig, grabs, pauses>>

Terminated ==
  /\ Returns("terminateRx")
  /\ cl' = "ready" /\ dirty' = (dirty \/ ~ret)
  /\ Client(<<cur, sig, grabs, pauses>>)

\* dmaengine_pause and dmaengine_resume, by a thread that is not the controller's.
PauseOrResume ==
  /\ cl = "wait" /\ pauses < MaxPauses
  /\ pauses' = pauses + 1
  /\ Pause \/ Resume
  /\ UNCHANGED <<cl, cur, sig, grabs, dirty>>

ClientNext ==
  \/ GrabTx \/ GrabTxFailed \/ GrabRx \/ Grabbed \/ GrabFailed \/ ReleaseRx \/ ReleaseTx \/ Released
  \/ SetupGsiXfer \/ IssueRx \/ IssueTx \/ WaitEnds
  \/ TerminateTx \/ TerminateRx \/ Terminated \/ PauseOrResume

Tasklet ==
  \/ Complete
  \/ (TkStart \/ TkEvent \/ TkUnlink \/ TkClear \/ TkReread \/ TkUnmask) /\ UNCHANGED clVars

\* The handler goes on; a release whose command fails frees the memory all the same.
ReleaseFails == cl \in {"freeRx", "freeTx"} /\ sent /\ ~sent' /\ ~(done /\ Confirmed(Head1))

Controls ==
  /\ CtlNext
  /\ dirty' = (dirty \/ ReleaseFails)
  /\ UNCHANGED <<cl, cur, sig, grabs, pauses>>

\* The controller is gone, or the tasklet has crashed on a freed ring.
Ended ==
  /\ (cl = "off" /\ script = <<>>) \/ (tk.pc = "scan" /\ ~evOn)
  /\ UNCHANGED vars

Next ==
  \/ ClientNext
  \/ Tasklet
  \/ Controls
  \/ (HandleIrq \/ HwNext) /\ UNCHANGED clVars
  \/ Ended

Spec == Init /\ [][Next]_vars

-----------------------------------------------------------------------------
Xs    == 0 .. MaxXfers
Flags == {"CHAIN", "LINK", "IEOT"}
Tre   == [kind : {"none", "config", "go", "dma", "imm"}, flags : SUBSET Flags, x : Xs]
Event == [ch : Chans, slot : Slots, x : Xs, type : {"xfer", "imed", "stale"}, ok : BOOLEAN]

\* Types.  script and vc hold sequences of descriptors and steps, left out.
TypeOK ==
  /\ pm \in PmStates /\ cpm \in [Chans -> PmStates]
  /\ evState \in EvStates /\ hwEv \in EvStates /\ chState \in [Chans -> ChStates]
  /\ evOn \in BOOLEAN /\ irq \in {"off", "on", "disabled"} /\ ieobOn \in BOOLEAN
  /\ gpiCmd \in Cmds /\ done \in BOOLEAN /\ sched \in BOOLEAN /\ sent \in BOOLEAN /\ ret \in BOOLEAN
  /\ ring \in [Chans -> [on : BOOLEAN, rp : Slots, wp : Slots]]
  /\ slot \in [Chans -> [Slots -> Tre]]
  /\ tk \in [pc : {"off", "scan", "complete", "unlink", "reread", "unmask"}, n : Nat, ch : Chans,
             x : Xs, cb : BOOLEAN]
  /\ hw \in [Chans -> [state : ChStates, ctx : BOOLEAN, at : Slots, db : Slots, links : Nat]]
  /\ stat \in [ieob : BOOLEAN, ch : SUBSET Chans, ev : BOOLEAN]
  /\ \A i \in DOMAIN cmds : cmds[i] \in [cmd : Cmds, ch : Chans]
  /\ \A i \in DOMAIN evs : evs[i] \in Event
  /\ faults \in 0 .. MaxFaults
  /\ cl \in {"off", "grabTx", "grabRx", "ready", "issueRx", "issueTx", "wait", "failed", "terminateTx",
             "terminateRx", "freeRx", "freeTx"}
  /\ cur.x \in Xs /\ sig \in {"none", "ok", "error"} /\ dirty \in BOOLEAN
  /\ grabs \in 0 .. MaxGrabs /\ pauses \in 0 .. MaxPauses

\* From the moment the tasklet has found a descriptor until list_del, nobody takes or frees what it
\* works on, although vc.lock is released for the callback and the client may go on once it has
\* run: the event is still the first of the ring and not marked stale, and the descriptor is still
\* the first of its list (gpi_process_xfer_compl_event, against gpi_reset_chan,
\* gpi_free_chan_resources and gpi_free_ring, in whichever order their commands fail).
DescriptorStays ==
  tk.pc \in {"complete", "unlink"} =>
    /\ evOn /\ evs # <<>> /\ Head(evs).ch = tk.ch /\ Head(evs).type # "stale"
    /\ vc[tk.ch].issued # <<>> /\ Head(vc[tk.ch].issued).x = tk.x

\* What the tasklet completes belongs together: the event, the descriptor and, when there is a
\* callback, the transfer of the controller.  An event of a terminated transfer never ends a later
\* one (gpi_mark_stale_events, the tests of pm_state in gpi_process_xfer_compl_event).
CompletesItsOwn ==
  tk.pc = "complete" => Head(evs).x = tk.x /\ (tk.cb => tk.x = cur.x)

\* An event that nobody has read yet is announced: by the pending interrupt, by the scheduled
\* tasklet, or by a running one that will look at the ring once more (the loop of
\* gpi_process_events, the masking of gpi_process_ieob).
NoLostEvent ==
  evOn /\ evs # <<>> =>
    sched \/ stat.ieob \/ tk.pc \in {"scan", "complete", "unlink", "reread"}

\* While the grab and every gpi_terminate_all have reported success, the hardware has nothing left
\* to do for an earlier transfer: it runs only for the one in progress, whose buffers are still
\* mapped.
OnlyCurrent ==
  \A c \in Chans : HwRuns(c) => dirty \/ (slot[c][hw[c].at].x = cur.x /\ cl # "ready")

\* A transfer ring is freed only under a channel that the hardware no longer runs, and the event
\* ring outlives the tasklet, once both channels were grabbed and as long as the terminations
\* succeed and the commands of the release do, even if another user paused the channels
\* (gpi_free_chan_resources, which stops and resets an active channel only, and goes on whatever
\* becomes of its commands).  It says nothing of a gpi_ch_init that fails:
\* its ring goes although a START that timed out is obeyed later.
RingsLive ==
  ~dirty =>
    /\ \A c \in Chans : hw[c].state = "STARTED" /\ hw[c].ctx => ring[c].on
    /\ tk.pc # "off" => evOn

\* Between two transfers, while the grab and every termination have succeeded and nobody has paused
\* them, the channels are started and active, and once its events are read the ring is accounted
\* for: no descriptor is left, and the driver and the hardware agree on where the next element goes.
ReadyForNext ==
  cl = "ready" /\ ~dirty /\ pauses = 0 =>
    \A c \in Chans :
      /\ cpm[c] = "ACTIVE" /\ hw[c].state = "STARTED" /\ hw[c].ctx
      /\ (\A i \in DOMAIN evs : evs[i].ch # c) /\ ~HwRuns(c) =>
           /\ vc[c].issued = <<>>
           /\ ring[c].rp = ring[c].wp /\ hw[c].at = ring[c].wp /\ hw[c].db = ring[c].wp

=============================================================================
