-------------------------- MODULE SpiGsiRingProofs --------------------------
(***************************************************************************)
(* More about SpiGsi, for handlers whose commands have succeeded: while no *)
(* grab, termination or command of a release has failed, the hardware has  *)
(* elements before it only of the transfer in progress (OnlyCurrent).      *)
(*                                                                         *)
(* The argument follows a handler step by step.  A command is believed     *)
(* when the interrupt handler has read the state that it is to leave       *)
(* behind; what is left of earlier commands, late or never answered, must  *)
(* not be mistaken for it (Agrees, Late).  So a termination that reports   *)
(* success has really reset both channels (Stage).  Between terminations,  *)
(* events and descriptors pair off in the order of their transfers (Events,*)
(* Sorted), so the callback that says "ok" is that of the last element     *)
(* (Answered).                                                             *)
(*                                                                         *)
(* With the same account of the handler, a transfer ring goes only when    *)
(* the hardware has left its channel, and the event ring only after the    *)
(* tasklet (RingsLive).  gpi_free_chan_resources waits for the tasklet with*)
(* tasklet_kill, and nothing may schedule it after that: once a STOP has   *)
(* been confirmed an interrupt of the event ring that is pending has been  *)
(* seen and is masked (Seen), and a channel that is down brings no other.  *)
(*                                                                         *)
(* While terminations succeed, each completion is also of its own transfer *)
(* (OwnEventsOnly).  A channel is given a transfer only when nothing is    *)
(* left of the one before (Drained); it has all of its elements before it  *)
(* or none (Whole); when it has done them an event says so (Told), that of *)
(* the transmit channel before that of the receive channel (InTurn).       *)
(***************************************************************************)
EXTENDS SpiGsiProofs

-----------------------------------------------------------------------------
(* Scripts, as far as they have come *)

\* What is left of script s when its first k - 1 steps have been taken, and n of the steps that the
\* last of them, a command, has left to be taken first.
Rest(s, k, n) ==
  IF n = 0 THEN From(s, k)
  ELSE From(s[k - 1].ok, Len(s[k - 1].ok) - n + 1) \o From(s, k)

\* The handler has come that far in script s.
At(s, k, n) ==
  /\ k \in 1 .. Len(s) + 1 /\ n \in Nat
  /\ n > 0 => k > 1 /\ n <= Len(s[k - 1].ok)
  /\ script = Rest(s, k, n)

\* Step i of it has been done, and what it leaves to be done.
Past(k, n, i) == k > i + 1 \/ (k = i + 1 /\ n = 0)

Stopping == {"terminateTx", "terminateRx"}
InUse    == Running \ Stopping

\* So far no termination and no release has failed, nor has the handler at work.
Clean == ~dirty /\ (cl \in {"grabRx"} \cup Stopping => ret)

\* Steps that leave nothing to be done, of a handler that pauses or resumes the channels, and of one
\* that gives back what they share.
PauseSteps ==
  {s \in AnyStep : /\ s.ok = <<>> /\ s.bad = <<>>
                   /\ \/ s.do \in {"disableIrq", "enableIrq", "killTasklet", "setPm"}
                      \/ s.do = "cmd" /\ s.val \in {"STOP", "START"}}
LastSteps ==
  {s \in AnyStep : /\ s.ok = <<>> /\ s.bad = <<>>
                   /\ \/ s.do \in {"setPm", "killTasklet", "freeEv", "irqOff"}
                      \/ s.do = "cmd" /\ s.val = "EV_DEALLOC"}

\* Where the handler is.
Place(k, n) ==
  /\ cl \in {"off", "grabTx"} => script = <<>>
  /\ cl = "grabRx" => At(ChInit(RX), k, n)
  /\ cl \in InUse => script \in Seq(PauseSteps)
  /\ cl \in Stopping => At(Terminating, k, n)
  /\ cl = "freeRx" => At(Freeing(RX, "ACTIVE"), k, n)
  /\ cl = "freeTx" => \/ At(Freeing(TX, "ACTIVE"), k, n)
                      \/ k = 9 /\ n = 0 /\ script \in Seq(LastSteps)

-----------------------------------------------------------------------------
(* Commands *)

\* A channel is up from its START to its RESET.
Up(c, k) ==
  \/ cl \in InUse
  \/ cl = "grabRx" /\ k > (IF c = TX THEN 10 ELSE 11)
  \/ cl \in Stopping /\ (k <= (IF c = TX THEN 5 ELSE 7) \/ k > (IF c = TX THEN 9 ELSE 10))
  \/ cl = "freeRx" /\ (c = TX \/ k <= 3)
  \/ cl = "freeTx" /\ c = TX /\ k <= 3

Sent(cmd, c) == sent /\ Head1.do = "cmd" /\ Head1.val = cmd /\ Head1.ch = c

HwUp(c) == hw[c].state \in {"STARTED", "STOPPED", "STOP_IN_PROC"}
Zero(c) == hw[c].at = 0 /\ hw[c].db = 0 /\ (c = RX => hw[c].links = 0)

\* What the driver has read of a channel, and what the hardware is: neither can be mistaken for the
\* state that the next RESET or START leaves behind, until the hardware has obeyed that command.
Agrees(c, k) ==
  IF Up(c, k)
  THEN \/ chState[c] # "ALLOCATED" /\ HwUp(c)
       \/ Sent("RESET", c) /\ cmds = <<>> /\ ~HwUp(c) /\ Zero(c)
  ELSE \/ chState[c] # "STARTED" /\ ~HwUp(c)
       \/ Sent("START", c) /\ cmds = <<>> /\ HwUp(c)

\* The commands not yet obeyed: those that reset a channel or start one that is down are still
\* waited for.
Late(k) ==
  \A i \in DOMAIN cmds, cmd \in Cmds, c \in Chans :
    cmds[i].cmd = cmd /\ cmds[i].ch = c =>
      LET last == i = Len(cmds) /\ Sent(cmd, c)
      IN  \/ cmd \in {"STOP", "EV_ALLOCATE", "EV_DEALLOC", "DE_ALLOC"}
          \/ cmd = "START" /\ (Up(c, k) \/ last)
          \/ cmd = "RESET" /\ Up(c, k) /\ last
          \/ cmd = "ALLOCATE" /\ ~Up(c, k)

-----------------------------------------------------------------------------
(* Rings *)

Settled(c) == hw[c].at = hw[c].db

\* Nothing is in the ring.
Still(c) == ring[c].rp = 0 /\ ring[c].wp = 0

\* What a termination has made of the states of the two channels, and what it has reset of them.
Turned(k, n) ==
  /\ (Past(k, n, 9) => cpm[TX] = "ACTIVE") /\ (Past(k, n, 10) => cpm[RX] = "ACTIVE")
  /\ k > 1 /\ ~Past(k, n, 9) => cpm[TX] # "ACTIVE"
  /\ k > 3 /\ ~Past(k, n, 10) => cpm[RX] # "ACTIVE"
Cleared(k, n) ==
  /\ (k > 5 => Zero(TX)) /\ (k > 7 => Zero(RX))
  /\ (k > 6 \/ (k = 6 /\ n < 2)) => Still(TX)
  /\ (k > 8 \/ (k = 8 /\ n < 2)) => Still(RX)
  /\ (Past(k, n, 5) => vc[TX] = NoDescs) /\ (Past(k, n, 7) => vc[RX] = NoDescs)

\* What a handler has done to the rings and the channels, by how far it has come.
Stage(k, n) ==
  /\ cl = "off" => \A c \in Chans : cpm[c] = "DISABLE"
  /\ cl = "grabTx" =>
       /\ cpm[RX] = "DISABLE" /\ cpm[TX] = (IF ret THEN "CONFIG" ELSE "DISABLE")
       /\ ret => Still(TX)
  /\ cl = "grabRx" =>
       /\ \A c \in Chans : Still(c)
       /\ k > 1 => evs = <<>>
       /\ (k > 7 => Zero(TX)) /\ (k > 9 => Zero(RX))
       /\ (Past(k, n, 10) => cpm[TX] = "ACTIVE") /\ (Past(k, n, 11) => cpm[RX] = "ACTIVE")
  /\ cl \in InUse => \A c \in Chans : ring[c].wp = hw[c].db /\ cpm[c] = "ACTIVE"
  /\ cl \in Stopping => Turned(k, n)
  /\ (cl = "terminateTx" => Cleared(k, n)) /\ (cl = "terminateRx" => Cleared(11, 0))
  /\ cl = "freeRx" => cpm[TX] = "ACTIVE" /\ (k > 7 => cpm[RX] = "DISABLE")
  /\ cl = "freeTx" => cpm[RX] = "DISABLE" /\ (k > 7 => cpm[TX] = "DISABLE")

Busy == {"issueTx", "wait", "failed", "terminateTx"}

\* No channel has anything to do, and no link waits.
Idle == Settled(TX) /\ Settled(RX) /\ hw[RX].links = 0

\* The hardware has elements before it only while a transfer is in progress, and they are the first
\* ones of the transfer's descriptor.
Arc(c) ==
  ~Settled(c) =>
    /\ cl \in Busy /\ (c = TX => cl # "issueTx")
    /\ \E n \in 1 .. NrTre(c) :
         /\ n < Elements /\ hw[c].db = After(hw[c].at, n)
         /\ \A i \in 0 .. n - 1 : slot[c][After(hw[c].at, i)] = Tres(c, cur)[i + 1]

-----------------------------------------------------------------------------
(* Transfers *)

Reads == cur.cmd = "SPI_TX_RX"

\* A link waits only between the two halves of a read.
Linked ==
  /\ hw[RX].links \in {0, 1}
  /\ hw[RX].links = 1 => Reads /\ Settled(TX) /\ cl \in {"wait", "failed", "terminateTx"}
  /\ ~Settled(RX) => Reads

\* What has been submitted is what is about to be issued.
Prepared ==
  /\ cl = "issueRx" => Reads /\ vc[RX].submitted = <<Desc(RX, cur)>>
  /\ cl \in {"issueRx", "issueTx"} => vc[TX].submitted = <<Desc(TX, cur)>> /\ sig = "none"
  /\ cl \notin {"issueRx", "issueTx"} => vc[TX].submitted = <<>>
  /\ cl # "issueRx" => vc[RX].submitted = <<>>

\* The descriptors of a channel are in the order of their transfers, and the one with the callback is
\* that of the transfer in progress or is being unlinked.
Sorted(c) ==
  /\ \A i, j \in DOMAIN vc[c].issued : i < j => vc[c].issued[i].x < vc[c].issued[j].x
  /\ \A i \in DOMAIN vc[c].issued :
       LET d == vc[c].issued[i]
       IN  /\ d.x <= cur.x /\ (vc[c].submitted # <<>> => d.x < cur.x)
           /\ d.x = cur.x => d.cb = ((c = RX) = Reads)
           /\ d.cb => \/ tk.pc = "unlink" /\ tk.ch = c /\ tk.x = d.x
                      \/ d.x = cur.x /\ sig = "none" /\ cl \in Busy
  /\ ~Settled(c) => \E i \in DOMAIN vc[c].issued : vc[c].issued[i].x = cur.x

Live(i, c) == evs[i].ch = c /\ evs[i].type # "stale"

\* The events of a channel that are still to be read are in the order of their transfers, each has its
\* descriptor, and one of the transfer in progress is the last thing that the channel does for it.
Events(c) ==
  /\ \A i, j \in DOMAIN evs : i < j /\ Live(i, c) /\ Live(j, c) => evs[i].x < evs[j].x
  /\ \A i \in DOMAIN evs : Live(i, c) =>
       /\ \E j \in DOMAIN vc[c].issued : vc[c].issued[j].x = evs[i].x
       /\ evs[i].x = cur.x => /\ cl \notin {"issueRx", "issueTx"} /\ Settled(c)
                              /\ c = RX => Reads /\ Settled(TX) /\ hw[RX].links = 0

\* When the callback has come the hardware has done all of the transfer.
Answered == sig # "none" => Idle
Taken == tk.pc \in Held => tk.cb = Head(vc[tk.ch].issued).cb

Transfers == Linked /\ Prepared /\ (\A c \in Chans : Sorted(c) /\ Events(c)) /\ Answered /\ Taken

-----------------------------------------------------------------------------
(* The invariant *)

Handled(k, n) == Place(k, n) /\ Late(k) /\ Stage(k, n) /\ \A c \in Chans : Agrees(c, k)

RInv ==
  ~dirty =>
    /\ (cl \notin Busy => Idle) /\ \A c \in Chans : Arc(c)
    /\ Clean => \E k \in Nat, n \in Nat : Handled(k, n)
    /\ Clean /\ cl \in Running => Transfers


-----------------------------------------------------------------------------
(* The scripts, step by step *)

\* The steps that take the channels.
LEMMA InitTable ==
  LET s == ChInit(RX)
  IN  /\ s \in Seq(AnyStep) /\ Len(s) = 11
      /\ s[1].do = "allocEv" /\ s[2].do = "setPm" /\ s[3].do = "configIrq" /\ s[5].do = "setPm"
      /\ s[7].do = "program" /\ s[7].ch = TX /\ s[9].do = "program" /\ s[9].ch = RX
      /\ \A i \in {4, 6, 8, 10, 11} : s[i].do = "cmd" /\ s[i].must
      /\ \A i \in 1 .. 9 : s[i].ok = <<>>
      /\ s[4].val = "EV_ALLOCATE"
      /\ s[6].val = "ALLOCATE" /\ s[6].ch = TX /\ s[8].val = "ALLOCATE" /\ s[8].ch = RX
      /\ s[10].val = "START" /\ s[10].ch = TX /\ s[10].ok = <<SetCh(TX, "ACTIVE")>>
      /\ s[11].val = "START" /\ s[11].ch = RX /\ s[11].ok = <<SetCh(RX, "ACTIVE")>>
<1> DEFINE a1 == Step("allocEv", TX)
           a2 == SetPm("PREPARE_HARDWARE")
           a3 == Step("configIrq", TX)
           a4 == Must(Cmd("EV_ALLOCATE", TX), ErrorAllocEvRing)
           a5 == SetPm("ACTIVE")
           a6 == Must(Cmd("ALLOCATE", TX), ErrorAllocChan(RX, 0))
           a7 == Step("program", TX)
           a8 == Must(Cmd("ALLOCATE", RX), ErrorAllocChan(RX, 1))
           a9 == Step("program", RX)
           a10 == StartChan(TX, ErrorStartChan(RX, 0))
           a11 == StartChan(RX, ErrorStartChan(RX, 1))
           s == ChInit(RX)
<1>1. s \in Seq(AnyStep)
  BY Scripts DEF Chans
<1>2. s = <<a1, a2, a3, a4, a5, a6, a7, a8, a9, a10, a11>>
  BY DEF ChInit
<1>3. a1.do = "allocEv" /\ a2.do = "setPm" /\ a3.do = "configIrq" /\ a5.do = "setPm"
      /\ a7.do = "program" /\ a7.ch = TX /\ a9.do = "program" /\ a9.ch = RX
  BY Fields
<1>4. /\ a1.ok = <<>> /\ a2.ok = <<>> /\ a3.ok = <<>> /\ a5.ok = <<>> /\ a7.ok = <<>> /\ a9.ok = <<>>
  BY DEF Step, SetPm
<1>5. /\ a4.do = "cmd" /\ a4.must /\ a4.ok = <<>> /\ a4.val = "EV_ALLOCATE"
      /\ a6.do = "cmd" /\ a6.must /\ a6.ok = <<>> /\ a6.val = "ALLOCATE" /\ a6.ch = TX
      /\ a8.do = "cmd" /\ a8.must /\ a8.ok = <<>> /\ a8.val = "ALLOCATE" /\ a8.ch = RX
  BY DEF Must, Cmd, Step
<1>6. /\ a10.do = "cmd" /\ a10.must /\ a10.val = "START" /\ a10.ch = TX /\ a10.ok = <<SetCh(TX, "ACTIVE")>>
      /\ a11.do = "cmd" /\ a11.must /\ a11.val = "START" /\ a11.ch = RX /\ a11.ok = <<SetCh(RX, "ACTIVE")>>
  BY DEF StartChan, Must, Cmd, Step
<1> HIDE DEF a1, a2, a3, a4, a5, a6, a7, a8, a9, a10, a11, s
<1>7. /\ Len(s) = 11 /\ s[1] = a1 /\ s[2] = a2 /\ s[3] = a3 /\ s[4] = a4 /\ s[5] = a5 /\ s[6] = a6
      /\ s[7] = a7 /\ s[8] = a8 /\ s[9] = a9 /\ s[10] = a10 /\ s[11] = a11
  BY <1>2
<1>8. \A i \in {4, 6, 8, 10, 11} : s[i].do = "cmd" /\ s[i].must
  BY <1>5, <1>6, <1>7
<1>9. \A i \in 1 .. 9 : s[i].ok = <<>>
  <2>1. \A i \in 1 .. 9 : i \in {1, 2, 3, 4, 5, 6, 7, 8, 9}
    OBVIOUS
  <2> QED
    BY <1>5, <1>7, <1>4, <2>1
<1> QED
  BY <1>1, <1>3, <1>5, <1>6, <1>7, <1>8, <1>9 DEF s

\* The steps that terminate the channels.
LEMMA StopTable ==
  LET s == Terminating
  IN  /\ s \in Seq(AnyStep) /\ Len(s) = 10
      /\ s[1].do = "setCh" /\ s[1].ch = TX /\ s[1].val = "PREPARE_TERMINATE"
      /\ s[3].do = "setCh" /\ s[3].ch = RX /\ s[3].val = "PREPARE_TERMINATE"
      /\ s[6].do = "program" /\ s[6].ch = TX /\ s[8].do = "program" /\ s[8].ch = RX
      /\ \A i \in {2, 4, 5, 7, 9, 10} : s[i].do = "cmd"
      /\ \A i \in {2, 4} : s[i].val = "STOP" /\ ~s[i].must
      /\ \A i \in {1, 2, 3, 4, 6, 8} : s[i].ok = <<>>
      /\ \A i \in {5, 7, 9, 10} : s[i].must
      /\ s[5].val = "RESET" /\ s[5].ch = TX /\ s[5].ok = Wiped(TX)
      /\ s[7].val = "RESET" /\ s[7].ch = RX /\ s[7].ok = Wiped(RX)
      /\ s[9].val = "START" /\ s[9].ch = TX /\ s[9].ok = <<SetCh(TX, "ACTIVE")>>
      /\ s[10].val = "START" /\ s[10].ch = RX /\ s[10].ok = <<SetCh(RX, "ACTIVE")>>
<1> DEFINE a1 == SetCh(TX, "PREPARE_TERMINATE")
           a2 == StopChan(TX)
           a3 == SetCh(RX, "PREPARE_TERMINATE")
           a4 == StopChan(RX)
           a5 == Must(ResetChan("RESET", TX), <<>>)
           a6 == Step("program", TX)
           a7 == Must(ResetChan("RESET", RX), <<>>)
           a8 == Step("program", RX)
           a9 == StartChan(TX, <<>>)
           a10 == StartChan(RX, <<>>)
           s == Terminating
<1>1. s \in Seq(AnyStep)
  BY Scripts
<1>2. s = <<a1, a2, a3, a4, a5, a6, a7, a8, a9, a10>>
  BY DEF Terminating
<1>3. /\ a1.do = "setCh" /\ a1.ch = TX /\ a1.val = "PREPARE_TERMINATE"
      /\ a3.do = "setCh" /\ a3.ch = RX /\ a3.val = "PREPARE_TERMINATE"
      /\ a6.do = "program" /\ a6.ch = TX /\ a8.do = "program" /\ a8.ch = RX
      /\ a1.ok = <<>> /\ a3.ok = <<>> /\ a6.ok = <<>> /\ a8.ok = <<>>
  BY Fields DEF Step, SetCh
<1>4. /\ a2.do = "cmd" /\ a2.val = "STOP" /\ a2.ok = <<>> /\ ~a2.must
      /\ a4.do = "cmd" /\ a4.val = "STOP" /\ a4.ok = <<>> /\ ~a4.must
  BY DEF StopChan, Cmd, Step
<1>5. /\ a5.do = "cmd" /\ a5.must /\ a5.val = "RESET" /\ a5.ch = TX /\ a5.ok = Wiped(TX)
      /\ a7.do = "cmd" /\ a7.must /\ a7.val = "RESET" /\ a7.ch = RX /\ a7.ok = Wiped(RX)
  BY DEF ResetChan, Must, Cmd, Step
<1>6. /\ a9.do = "cmd" /\ a9.must /\ a9.val = "START" /\ a9.ch = TX /\ a9.ok = <<SetCh(TX, "ACTIVE")>>
      /\ a10.do = "cmd" /\ a10.must /\ a10.val = "START" /\ a10.ch = RX /\ a10.ok = <<SetCh(RX, "ACTIVE")>>
  BY DEF StartChan, Must, Cmd, Step
<1> HIDE DEF a1, a2, a3, a4, a5, a6, a7, a8, a9, a10, s
<1>7. /\ Len(s) = 10 /\ s[1] = a1 /\ s[2] = a2 /\ s[3] = a3 /\ s[4] = a4 /\ s[5] = a5 /\ s[6] = a6
      /\ s[7] = a7 /\ s[8] = a8 /\ s[9] = a9 /\ s[10] = a10
  BY <1>2
<1>8. \A i \in {2, 4, 5, 7, 9, 10} : s[i].do = "cmd"
  BY <1>4, <1>5, <1>6, <1>7
<1>9. \A i \in {2, 4} : s[i].val = "STOP" /\ ~s[i].must
  BY <1>4, <1>7
<1>10. \A i \in {1, 2, 3, 4, 6, 8} : s[i].ok = <<>>
  BY <1>3, <1>4, <1>7
<1>11. \A i \in {5, 7, 9, 10} : s[i].must
  BY <1>5, <1>6, <1>7
<1> QED
  BY <1>1, <1>3, <1>5, <1>6, <1>7, <1>8, <1>9, <1>11, <1>10 DEF s

\* The steps that give back a channel in use.
LEMMA FreeTable ==
  ASSUME NEW c \in Chans
  PROVE  LET s == Freeing(c, "ACTIVE")
         IN  /\ s \in Seq(AnyStep) /\ Len(s) = 8
             /\ s[1].do = "setCh" /\ s[1].ch = c
             /\ \A i \in {2, 3, 4} : s[i].do = "cmd" /\ s[i].ch = c /\ ~s[i].must
             /\ s[2].val = "STOP" /\ s[3].val = "RESET" /\ s[4].val = "DE_ALLOC"
             /\ s[4].ok = Wiped(c) /\ \A i \in {1, 2, 3, 5, 6, 7, 8} : s[i].ok = <<>>
             /\ s[5].do = "freeRing" /\ s[6].do = "freeVc"
             /\ s[7].do = "setCh" /\ s[7].ch = c /\ s[7].val = "DISABLE" /\ s[8].do = "others"
<1> DEFINE a1 == SetCh(c, "PREPARE_TERMINATE")
           a2 == StopChan(c)
           a3 == Cmd("RESET", c)
           a4 == ResetChan("DE_ALLOC", c)
           a5 == Step("freeRing", c)
           a6 == Step("freeVc", c)
           a7 == SetCh(c, "DISABLE")
           a8 == Step("others", c)
           s == Freeing(c, "ACTIVE")
<1>1. s \in Seq(AnyStep)
  BY Scripts DEF PmStates
<1>2. s = <<a1>> \o <<a2, a3, a4>> \o <<a5, a6, a7, a8>>
  BY DEF Freeing
<1>3. /\ a1.do = "setCh" /\ a1.ch = c /\ a5.do = "freeRing" /\ a6.do = "freeVc"
      /\ a7.do = "setCh" /\ a7.ch = c /\ a7.val = "DISABLE" /\ a8.do = "others"
      /\ a1.ok = <<>> /\ a5.ok = <<>> /\ a6.ok = <<>> /\ a7.ok = <<>> /\ a8.ok = <<>>
  BY Fields DEF Step, SetCh
<1>4. /\ a2.do = "cmd" /\ a2.ch = c /\ a2.val = "STOP" /\ a2.ok = <<>> /\ ~a2.must
      /\ a3.do = "cmd" /\ a3.ch = c /\ a3.val = "RESET" /\ a3.ok = <<>> /\ ~a3.must
      /\ a4.do = "cmd" /\ a4.ch = c /\ a4.val = "DE_ALLOC" /\ a4.ok = Wiped(c) /\ ~a4.must
  BY DEF StopChan, ResetChan, Cmd, Step
<1> HIDE DEF a1, a2, a3, a4, a5, a6, a7, a8, s
<1>5. /\ Len(s) = 8 /\ s[1] = a1 /\ s[2] = a2 /\ s[3] = a3 /\ s[4] = a4 /\ s[5] = a5 /\ s[6] = a6
      /\ s[7] = a7 /\ s[8] = a8
  BY <1>2
<1>6. \A i \in {2, 3, 4} : s[i].do = "cmd" /\ s[i].ch = c /\ ~s[i].must
  BY <1>4, <1>5
<1>7. \A i \in {1, 2, 3, 5, 6, 7, 8} : s[i].ok = <<>>
  BY <1>3, <1>4, <1>5
<1> QED
  BY <1>1, <1>3, <1>4, <1>5, <1>6, <1>7 DEF s

-----------------------------------------------------------------------------
(* The holder of ctrl_lock *)

\* What more a step changes (Effects), by what it is.
LEMMA MoreEffects ==
  ASSUME Typed, CtlNext
  PROVE  /\ UNCHANGED <<slot, chState>>
         /\ Head1.do # "program" => hw' = hw
         /\ Head1.do = "program" =>
              hw' = [hw EXCEPT ![Head1.ch].ctx = TRUE, ![Head1.ch].at = 0, ![Head1.ch].db = 0]
         /\ Head1.do # "cmd" => ~sent /\ ~sent' /\ cmds' = cmds
         /\ Head1.do \notin {"cmd", "allocEv", "configIrq"} => ret' = ret
         /\ Head1.do \in {"allocEv", "configIrq"} /\ ret' => ret /\ script' = Tail(script)
         /\ Head1.do = "allocEv" /\ ret' => evs' = <<>>
         /\ Head1.do = "cmd" /\ ~sent =>
              /\ sent' /\ script' = script /\ ret' = ret
              /\ cmds' = Append(cmds, [cmd |-> Head1.val, ch |-> Head1.ch])
         /\ Head1.do = "cmd" /\ sent =>
              LET good == done /\ Confirmed(Head1)
              IN  /\ ~sent' /\ cmds' = cmds
                  /\ script' = IF good THEN Head1.ok \o Tail(script)
                               ELSE IF Head1.must THEN Head1.bad ELSE Tail(script)
                  /\ ret' = (ret /\ (good \/ ~Head1.must))
<1> USE DEF Next1, Moves, ctlVars, irqVars, listVars, hwVars, pmVars, Head1
<1>1. CASE SendCmd
  BY <1>1 DEF SendCmd
<1>2. CASE CmdAnswered \/ CmdTimesOut
  <2>1. sent /\ script # <<>> /\ Head1.do = "cmd"
    BY <1>2 DEF CmdAnswered, CmdTimesOut, Typed, TypedScript
  <2> DEFINE good == done /\ Confirmed(Head1)
  <2>2. CmdEnds(good)
    <3>1. CASE CmdAnswered
      BY <3>1 DEF CmdAnswered, CmdEnds
    <3>2. CASE CmdTimesOut
      BY <3>2 DEF CmdTimesOut, CmdEnds
    <3> QED
      BY <1>2, <3>1, <3>2
  <2> HIDE DEF good
  <2>3. /\ ~sent' /\ cmds' = cmds /\ UNCHANGED <<slot, chState, hw>>
        /\ script' = IF good THEN Head1.ok \o Tail(script)
                     ELSE IF Head1.must THEN Head1.bad ELSE Tail(script)
        /\ ret' = (ret /\ (good \/ ~Head1.must))
    BY <2>2 DEF CmdEnds
  <2> QED
    BY <2>1, <2>3 DEF good
<1>3. CASE SetState
  BY <1>3 DEF SetState
<1>4. CASE ResetRing
  BY <1>4 DEF ResetRing
<1>5. CASE Wipe
  BY <1>5 DEF Wipe
<1>6. CASE Program
  BY <1>6 DEF Program
<1>7. CASE AllocEvRing
  BY <1>7 DEF AllocEvRing
<1>8. CASE ConfigIrq
  BY <1>8 DEF ConfigIrq
<1>9. CASE SwitchIrq
  BY <1>9 DEF SwitchIrq
<1>10. CASE KillTasklet
  BY <1>10 DEF KillTasklet
<1>11. CASE FreeMemory
  BY <1>11 DEF FreeMemory
<1>12. CASE FreeShared
  BY <1>12 DEF FreeShared
<1> QED
  BY <1>1, <1>2, <1>3, <1>4, <1>5, <1>6, <1>7, <1>8, <1>9, <1>10, <1>11, <1>12 DEF CtlNext

\* A sequence is its first element in front of the rest.
LEMMA HeadFirst ==
  ASSUME NEW S, NEW u \in Seq(S), u # <<>>
  PROVE  u = <<Head(u)>> \o Tail(u)
<1>1. /\ Head(u) \in S /\ Tail(u) \in Seq(S) /\ Len(Tail(u)) = Len(u) - 1
      /\ \A i \in 1 .. Len(Tail(u)) : Tail(u)[i] = u[i + 1]
  BY HeadTailProperties
<1> DEFINE h == Head(u)
           t == Tail(u)
           w == <<h>> \o t
<1>2. h = u[1] /\ Len(u) \in Nat
  BY LenProperties
<1> HIDE DEF h, t
<1>3. h \in S /\ t \in Seq(S) /\ Len(t) = Len(u) - 1 /\ Len(t) \in Nat /\ \A i \in 1 .. Len(t) : t[i] = u[i + 1]
  BY <1>1, LenProperties DEF h, t
<1>4. <<h>> \in Seq(S) /\ Len(<<h>>) = 1 /\ <<h>>[1] = h
  BY <1>3
<1>5. /\ w \in Seq(S) /\ Len(w) = 1 + Len(t)
      /\ \A i \in 1 .. 1 + Len(t) : w[i] = IF i <= 1 THEN <<h>>[i] ELSE t[i - 1]
  BY <1>3, <1>4, ConcatProperties
<1> HIDE DEF w
<1>6. \A i \in 1 .. Len(u) : w[i] = u[i]
  <2> TAKE i \in 1 .. Len(u)
  <2>1. CASE i = 1
    BY <1>2, <1>3, <1>4, <1>5, <2>1
  <2>2. CASE i # 1
    <3>1. i - 1 \in 1 .. Len(t) /\ (i - 1) + 1 = i /\ ~(i <= 1) /\ i \in 1 .. 1 + Len(t)
      BY <1>2, <1>3, <2>2
    <3> QED
      BY <1>3, <1>5, <3>1
  <2> QED
    BY <2>1, <2>2
<1>7. w = u
  BY <1>2, <1>3, <1>5, <1>6, SeqEqual
<1> QED
  BY <1>7 DEF w, h, t

\* The next step, and where the handler is after it.
LEMMA Position ==
  ASSUME NEW s \in Seq(AnyStep), NEW k, NEW n, At(s, k, n), script # <<>>
  PROVE  \/ /\ n = 0 /\ k \in 1 .. Len(s) /\ Head1 = s[k]
            /\ Tail(script) = Rest(s, k + 1, 0)
            /\ s[k].ok \in Seq(AnyStep) => s[k].ok \o Tail(script) = Rest(s, k + 1, Len(s[k].ok))
         \/ /\ n \in Nat /\ n > 0 /\ k \in 2 .. Len(s) + 1 /\ n <= Len(s[k - 1].ok)
            /\ s[k - 1].ok \in Seq(AnyStep) =>
                 /\ Head1 = s[k - 1].ok[Len(s[k - 1].ok) - n + 1]
                 /\ Tail(script) = Rest(s, k, n - 1)
<1>1. /\ k \in 1 .. Len(s) + 1 /\ n \in Nat /\ Len(s) \in Nat
      /\ n > 0 => k > 1 /\ n <= Len(s[k - 1].ok)
      /\ script = Rest(s, k, n)
  BY LenProperties DEF At
<1>2. ASSUME NEW i \in 1 .. Len(s) + 1 PROVE From(s, i) \in Seq(AnyStep) /\ <<>> \o From(s, i) = From(s, i)
  <2>1. CASE i \in 1 .. Len(s)
    BY <2>1, Left, ConcatEmptySeq
  <2>2. CASE i = Len(s) + 1
    BY <2>2, NoneLeft, EmptySeq, ConcatEmptySeq
  <2> QED
    BY <1>1, <2>1, <2>2
<1>3. CASE n = 0
  <2>1. script = From(s, k)
    BY <1>1, <1>3 DEF Rest
  <2>2. k \in 1 .. Len(s)
    BY <1>1, <2>1, NoneLeft
  <2>3. Head1 = s[k] /\ Tail(script) = From(s, k + 1) /\ k + 1 \in 1 .. Len(s) + 1
    BY <1>1, <2>1, <2>2, Left DEF Head1
  <2> DEFINE ok == s[k].ok
             j == k + 1
  <2>4. ASSUME ok \in Seq(AnyStep) PROVE ok \o From(s, j) = Rest(s, j, Len(ok))
    <3> HIDE DEF j
    <3>1. CASE Len(ok) = 0
      <4>1. ok = <<>>
        BY <2>4, <3>1, EmptySeq, LenProperties
      <4> QED
        BY <1>2, <2>3, <3>1, <4>1 DEF Rest, j
    <3>2. CASE Len(ok) # 0
      <4>1. j - 1 = k /\ Len(ok) \in Nat /\ Len(ok) - Len(ok) + 1 = 1
        BY <1>1, <2>4, LenProperties DEF j
      <4>2. From(ok, 1) = ok
        BY <2>4, AllLeft
      <4> QED
        BY <3>2, <4>1, <4>2 DEF Rest
    <3> QED
      BY <3>1, <3>2
  <2>5. Rest(s, k + 1, 0) = From(s, k + 1)
    BY DEF Rest
  <2> QED
    BY <1>3, <2>2, <2>3, <2>4, <2>5
<1>4. CASE n # 0
  <2> DEFINE ok == s[k - 1].ok
             t == From(s, k)
             i == Len(ok) - n + 1
  <2>1. n > 0 /\ k > 1 /\ n <= Len(ok)
    BY <1>1, <1>4
  <2>2. script = From(ok, i) \o t
    BY <1>1, <1>4 DEF Rest
  <2>3. ASSUME ok \in Seq(AnyStep) PROVE Head1 = ok[i] /\ Tail(script) = Rest(s, k, n - 1)
    <3>1. Len(ok) \in Nat /\ i \in 1 .. Len(ok) /\ t \in Seq(AnyStep)
      BY <1>1, <1>2, <2>1, <2>3, LenProperties
    <3> HIDE DEF ok, t, i
    <3>2. /\ From(ok, i) \in Seq(AnyStep) /\ From(ok, i) # <<>>
          /\ Head(From(ok, i)) = ok[i] /\ Tail(From(ok, i)) = From(ok, i + 1)
      BY <2>3, <3>1, Left
    <3> DEFINE u == From(ok, i)
               v == From(ok, i + 1)
    <3>3. v \in Seq(AnyStep) /\ ok[i] \in AnyStep
      BY <2>3, <3>1, <3>2, HeadTailProperties
    <3> HIDE DEF u, v
    <3>4. u = <<ok[i]>> \o v
      BY <3>2, HeadFirst DEF u, v
    <3>5. v \o t \in Seq(AnyStep) /\ script = <<ok[i]>> \o (v \o t)
      <4>1. <<ok[i]>> \in Seq(AnyStep)
        BY <3>3
      <4>2. (<<ok[i]>> \o v) \o t = <<ok[i]>> \o (v \o t)
        BY <3>1, <3>3, <4>1, ConcatAssociative
      <4> QED
        BY <2>2, <3>1, <3>3, <3>4, <4>2, ConcatProperties DEF u
    <3>6. Head(script) = ok[i] /\ Tail(script) = v \o t
      BY <3>3, <3>5, Consed
    <3>7. v \o t = Rest(s, k, n - 1)
      <4>1. CASE n = 1
        <5>1. i + 1 = Len(ok) + 1
          BY <3>1, <4>1 DEF i
        <5>2. v = <<>>
          BY <2>3, <5>1, NoneLeft DEF v
        <5>3. <<>> \o t = t
          BY <1>1, <1>2 DEF t
        <5> QED
          BY <4>1, <5>2, <5>3 DEF Rest, t
      <4>2. CASE n # 1
        <5>1. n - 1 # 0 /\ Len(ok) - (n - 1) + 1 = i + 1
          BY <1>1, <1>4, <3>1, <4>2 DEF i
        <5>2. Rest(s, k, n - 1) = From(ok, Len(ok) - (n - 1) + 1) \o t
          BY <5>1 DEF Rest, ok, t
        <5> QED
          BY <5>1, <5>2 DEF v
      <4> QED
        BY <4>1, <4>2
    <3> QED
      BY <3>6, <3>7 DEF Head1
  <2>4. k \in 2 .. Len(s) + 1
    BY <1>1, <2>1
  <2> QED
    BY <1>1, <2>1, <2>3, <2>4
<1> QED
  BY <1>3, <1>4

\* What commands leave to be done.
Oks == {<<>>, Wiped(TX), Wiped(RX), <<SetCh(TX, "ACTIVE")>>, <<SetCh(RX, "ACTIVE")>>}

LEMMA OkFacts ==
  ASSUME NEW o \in Oks
  PROVE  o \in Seq(AnyStep) /\ \A j \in 1 .. Len(o) : o[j].do \in {"resetRing", "wipe", "setCh"}
<1>1. Steps(AllKinds) \subseteq AnyStep /\ {"cmd", "resetRing", "wipe", "setCh"} \subseteq AllKinds
  BY DEF AnyStep, AllKinds, InitKinds
<1>2. Seq(Plain(AllKinds)) \subseteq Seq(AnyStep)
  BY <1>1, StepSets, SeqMonotonic
<1>3. \A c \in Chans : Wiped(c) \in Seq(AnyStep) /\ <<SetCh(c, "ACTIVE")>> \in Seq(AnyStep)
  BY <1>1, <1>2, CmdSteps
<1>4. o \in Seq(AnyStep)
  BY <1>3, EmptySeq DEF Oks, Chans
<1>5. ASSUME NEW c, o = Wiped(c) PROVE \A j \in 1 .. Len(o) : o[j].do \in {"resetRing", "wipe"}
  <2>1. Len(o) = 2 /\ o[1] = Step("resetRing", c) /\ o[2] = Step("wipe", c)
    BY <1>5 DEF Wiped
  <2>2. \A j \in 1 .. 2 : j = 1 \/ j = 2
    OBVIOUS
  <2> QED
    BY <2>1, <2>2, Fields
<1>6. ASSUME NEW c, o = <<SetCh(c, "ACTIVE")>> PROVE \A j \in 1 .. Len(o) : o[j].do = "setCh"
  <2>1. Len(o) = 1 /\ o[1] = SetCh(c, "ACTIVE")
    BY <1>6
  <2>2. \A j \in 1 .. 1 : j = 1
    OBVIOUS
  <2> QED
    BY <2>1, <2>2, Fields
<1>7. ASSUME o = <<>> PROVE \A j \in 1 .. Len(o) : o[j].do = "setCh"
  BY <1>7
<1> QED
  BY <1>4, <1>5, <1>6, <1>7 DEF Oks

\* Where a handler that may go on in script s goes.
LEMMA Advance ==
  ASSUME Typed, CtlNext, NEW s \in Seq(AnyStep), NEW k, NEW n, At(s, k, n),
         \A i \in 1 .. Len(s) : s[i].ok \in Oks,
         Head1.do # "others",
         Head1.do \in {"allocEv", "configIrq"} \/ (Head1.do = "cmd" /\ Head1.must) => ret'
  PROVE  \/ /\ n = 0 /\ k \in 1 .. Len(s) /\ Head1 = s[k]
            /\ \/ Head1.do = "cmd" /\ ~sent /\ At(s, k, 0)'
               \/ Head1.do = "cmd" /\ sent /\ done /\ Confirmed(Head1) /\ At(s, k + 1, Len(s[k].ok))'
               \/ Head1.do = "cmd" /\ sent /\ ~(done /\ Confirmed(Head1)) /\ ~Head1.must /\ At(s, k + 1, 0)'
               \/ Head1.do # "cmd" /\ At(s, k + 1, 0)'
         \/ /\ n \in Nat /\ n > 0 /\ k \in 2 .. Len(s) + 1 /\ n <= Len(s[k - 1].ok)
            /\ Head1 = s[k - 1].ok[Len(s[k - 1].ok) - n + 1]
            /\ Head1.do \in {"resetRing", "wipe", "setCh"} /\ At(s, k, n - 1)'
<1>1. script # <<>> /\ Len(s) \in Nat
  BY Effects, LenProperties
<1>2. \A i \in 1 .. Len(s) : s[i].ok \in Seq(AnyStep) /\ Len(s[i].ok) \in Nat
  BY OkFacts, LenProperties
<1>3. k \in Nat /\ n \in Nat
  BY DEF At
<1>4. ASSUME NEW j \in 1 .. Len(s) + 1, NEW m \in Nat, script' = Rest(s, j, m), m > 0 => j > 1 /\ m <= Len(s[j - 1].ok)
      PROVE  At(s, j, m)'
  BY <1>4 DEF At
<1>5. CASE n = 0
  <2>1. /\ k \in 1 .. Len(s) /\ Head1 = s[k] /\ Tail(script) = Rest(s, k + 1, 0)
        /\ s[k].ok \o Tail(script) = Rest(s, k + 1, Len(s[k].ok))
    BY <1>1, <1>2, <1>5, Position
  <2>2. k \in 1 .. Len(s) + 1 /\ k + 1 \in 1 .. Len(s) + 1 /\ (k + 1) - 1 = k /\ k + 1 > 1
    BY <1>1, <2>1
  <2>3. script' = Tail(script) => At(s, k + 1, 0)'
    BY <1>4, <2>1, <2>2
  <2>4. script' = script => At(s, k, 0)'
    BY <1>5, <2>2 DEF At
  <2>5. script' = s[k].ok \o Tail(script) => At(s, k + 1, Len(s[k].ok))'
    <3>1. Len(s[k].ok) \in Nat /\ Len(s[k].ok) <= Len(s[(k + 1) - 1].ok)
      BY <1>2, <2>1, <2>2
    <3> QED
      BY <2>1, <2>2, <3>1 DEF At
  <2>6. CASE Head1.do = "cmd" /\ ~sent
    BY <1>5, <2>1, <2>4, <2>6, MoreEffects
  <2>7. CASE Head1.do = "cmd" /\ sent
    <3>1. /\ script' = IF done /\ Confirmed(Head1) THEN Head1.ok \o Tail(script)
                       ELSE IF Head1.must THEN Head1.bad ELSE Tail(script)
          /\ ret' = (ret /\ ((done /\ Confirmed(Head1)) \/ ~Head1.must))
      BY <2>7, MoreEffects
    <3> QED
      BY <1>5, <2>1, <2>3, <2>5, <2>7, <3>1
  <2>8. CASE Head1.do # "cmd"
    <3>1. script' = Tail(script)
      BY <2>8, Effects, MoreEffects
    <3> QED
      BY <1>5, <2>1, <2>3, <2>8, <3>1
  <2> QED
    BY <2>6, <2>7, <2>8
<1>6. CASE n # 0
  <2>0. k \in 2 .. Len(s) + 1 /\ n > 0 /\ n <= Len(s[k - 1].ok)
    BY <1>1, <1>3, <1>6, Position
  <2>1. k - 1 \in 1 .. Len(s)
    BY <1>1, <2>0
  <2>2. /\ Head1 = s[k - 1].ok[Len(s[k - 1].ok) - n + 1]
        /\ Tail(script) = Rest(s, k, n - 1)
    BY <1>1, <1>2, <1>6, <2>1, Position
  <2>3. Len(s[k - 1].ok) - n + 1 \in 1 .. Len(s[k - 1].ok)
    BY <1>2, <1>3, <2>0, <2>1
  <2>4. Head1.do \in {"resetRing", "wipe", "setCh"}
    BY <2>1, <2>2, <2>3, OkFacts
  <2>5. script' = Tail(script)
    BY <2>4, Effects
  <2>6. At(s, k, n - 1)'
    <3>1. k \in 1 .. Len(s) + 1 /\ n - 1 \in Nat /\ (n - 1 > 0 => k > 1 /\ n - 1 <= Len(s[k - 1].ok))
      BY <1>1, <1>2, <1>3, <2>0, <2>1
    <3> QED
      BY <2>2, <2>5, <3>1 DEF At
  <2> QED
    BY <1>3, <2>0, <2>2, <2>4, <2>6
<1> QED
  BY <1>5, <1>6

\* A handler that has nothing left to do has come to the end of its script.
LEMMA Arrived ==
  ASSUME NEW s \in Seq(AnyStep), NEW k, NEW n, At(s, k, n), script = <<>>,
         \A i \in 1 .. Len(s) : s[i].ok \in Oks
  PROVE  k = Len(s) + 1 /\ n = 0
<1>1. k \in 1 .. Len(s) + 1 /\ n \in Nat /\ Len(s) \in Nat /\ Rest(s, k, n) = <<>>
  BY LenProperties DEF At
<1>2. CASE n = 0
  <2>1. From(s, k) = <<>>
    BY <1>1, <1>2 DEF Rest
  <2>2. k \notin 1 .. Len(s)
    BY <2>1, Left
  <2> QED
    BY <1>1, <1>2, <2>2
<1>3. CASE n # 0
  <2> DEFINE ok == s[k - 1].ok
             i == Len(ok) - n + 1
  <2>1. k > 1 /\ n <= Len(ok) /\ From(ok, i) \o From(s, k) = <<>>
    BY <1>1, <1>3 DEF At, Rest
  <2>2. k - 1 \in 1 .. Len(s)
    BY <1>1, <2>1
  <2>3. ok \in Seq(AnyStep) /\ Len(ok) \in Nat
    BY <2>2, OkFacts, LenProperties
  <2>4. i \in 1 .. Len(ok)
    BY <1>1, <1>3, <2>1, <2>3
  <2> HIDE DEF ok, i
  <2>5. From(ok, i) \in Seq(AnyStep) /\ From(ok, i) # <<>>
    BY <2>3, <2>4, Left
  <2>6. From(s, k) \in Seq(AnyStep)
    <3>1. CASE k \in 1 .. Len(s)
      BY <3>1, Left
    <3>2. CASE k = Len(s) + 1
      BY <3>2, NoneLeft, EmptySeq
    <3> QED
      BY <1>1, <3>1, <3>2
  <2>7. Len(From(ok, i) \o From(s, k)) = Len(From(ok, i)) + Len(From(s, k))
    BY <2>5, <2>6, ConcatProperties
  <2>8. Len(From(ok, i)) \in Nat /\ Len(From(ok, i)) # 0 /\ Len(From(s, k)) \in Nat
    BY <2>5, <2>6, LenProperties, EmptySeq
  <2>9. Len(<<>>) = 0
    OBVIOUS
  <2> QED
    BY <2>1, <2>7, <2>8, <2>9
<1> QED
  BY <1>2, <1>3

-----------------------------------------------------------------------------
(* What is believed of the channels *)

LEMMA TwoChans ==
  /\ TX \in Chans /\ RX \in Chans /\ TX # RX
  /\ \A c \in Chans : c = TX \/ c = RX
BY DEF Chans, TX, RX

\* What the hardware of a channel keeps.
LEMMA Programmed ==
  ASSUME Typed, CtlNext, NEW c \in Chans
  PROVE  /\ hw'[c].state = hw[c].state /\ hw'[c].links = hw[c].links
         /\ \/ hw'[c].at = hw[c].at /\ hw'[c].db = hw[c].db
            \/ /\ Head1.do = "program" /\ c = Head1.ch
               /\ hw'[c].at = 0 /\ hw'[c].db = 0
<1> DEFINE H == [state : ChStates, ctx : BOOLEAN, at : Slots, db : Slots, links : Nat]
           g == [hw[Head1.ch] EXCEPT !.ctx = TRUE, !.at = 0, !.db = 0]
<1>1. hw \in [Chans -> H] /\ hw[c] \in H
  BY DEF Typed, TypedRings
<1>2. CASE Head1.do = "program"
  <2>1. Head1.ch \in Chans
    BY Effects, ScriptFacts
  <2>2. hw' = [hw EXCEPT ![Head1.ch].ctx = TRUE, ![Head1.ch].at = 0, ![Head1.ch].db = 0]
    BY <1>2, MoreEffects
  <2>3. hw' = [hw EXCEPT ![Head1.ch] = g]
    BY <1>1, <2>1, <2>2
  <2>4. /\ g.state = hw[Head1.ch].state /\ g.links = hw[Head1.ch].links
        /\ g.at = 0 /\ g.db = 0
    BY <1>1, <2>1
  <2> HIDE DEF g
  <2>5. hw'[c] = IF c = Head1.ch THEN g ELSE hw[c]
    BY <1>1, <2>1, <2>3
  <2> QED
    BY <1>2, <2>4, <2>5
<1>3. CASE Head1.do # "program"
  BY <1>3, MoreEffects
<1> QED
  BY <1>2, <1>3

\* Before a command is sent, and when another channel's is awaited, a channel is as it was left.
LEMMA NotSent ==
  ASSUME NEW c \in Chans, NEW k, Agrees(c, k), ~Sent("RESET", c), ~Sent("START", c)
  PROVE  IF Up(c, k) THEN chState[c] # "ALLOCATED" /\ HwUp(c) ELSE chState[c] # "STARTED" /\ ~HwUp(c)
BY DEF Agrees

\* A step of a handler, at k before and at k2 after, leaves what is known of the channels in order:
\* it resets a channel that is up, and a channel comes up, or goes down, when its START or its
\* RESET is believed.
LEMMA CommandsKept ==
  ASSUME Typed, CtlNext, cl' = cl, NEW k, NEW k2, Late(k), \A c \in Chans : Agrees(c, k),
         Head1.do = "cmd" /\ ~sent =>
           k2 = k /\ (Head1.val = "RESET" => Up(Head1.ch, k)) /\ (Head1.val = "ALLOCATE" => ~Up(Head1.ch, k)),
         \A c \in Chans : ~(Up(c, k2) <=> Up(c, k)) =>
           /\ Head1.do = "cmd" /\ sent /\ Head1.ch = c
           /\ Head1.val = (IF Up(c, k) THEN "RESET" ELSE "START"),
         Head1.do = "cmd" /\ sent /\ (Head1.val = "RESET" \/ (Head1.val = "START" /\ ~Up(Head1.ch, k))) =>
           /\ Confirmed(Head1) /\ ~(Up(Head1.ch, k2) <=> Up(Head1.ch, k))
           /\ Head1.val = "RESET" => Up(Head1.ch, k)
  PROVE  Late(k2)' /\ \A c \in Chans : Agrees(c, k2)'
<1>1. script # <<>> /\ Head1.ch \in Chans /\ cmds \in Seq(Command) /\ chState' = chState
  BY Effects, MoreEffects, ScriptFacts DEF Typed, TypedRings
<1>2. \A c \in Chans : Up(c, k2)' <=> Up(c, k2)
  BY DEF Up
<1>3. ASSUME NEW c \in Chans PROVE HwUp(c)' <=> HwUp(c)
  BY Programmed DEF HwUp
<1>4. CASE Head1.do = "cmd" /\ ~sent
  <2>1. /\ sent' /\ script' = script /\ k2 = k
        /\ cmds' = Append(cmds, [cmd |-> Head1.val, ch |-> Head1.ch])
        /\ Head1.val \in Cmds
    BY <1>1, <1>4, MoreEffects, ScriptFacts
  <2>2. \A c \in Chans : ~Sent("RESET", c) /\ ~Sent("START", c)
    BY <1>4 DEF Sent
  <2>3. ASSUME NEW c \in Chans PROVE Agrees(c, k2)'
    BY <1>1, <1>2, <1>3, <2>1, <2>2, NotSent DEF Agrees
  <2>4. Late(k2)'
    <3> DEFINE e == [cmd |-> Head1.val, ch |-> Head1.ch]
    <3>1. e \in Command
      BY <1>1, <2>1 DEF Command
    <3>2. e.cmd = Head1.val /\ e.ch = Head1.ch
      OBVIOUS
    <3> HIDE DEF e
    <3>3. /\ cmds' = Append(cmds, e) /\ Len(cmds') = Len(cmds) + 1 /\ Len(cmds) \in Nat
          /\ cmds'[Len(cmds) + 1] = e /\ \A i \in 1 .. Len(cmds) : cmds'[i] = cmds[i]
          /\ DOMAIN cmds' = 1 .. Len(cmds) + 1 /\ DOMAIN cmds = 1 .. Len(cmds)
          /\ \A i \in 1 .. Len(cmds) : cmds[i] \in Command
      BY <1>1, <2>1, <3>1, AppendProperties, LenProperties DEF e
    <3>4. Head1' = Head1
      BY <2>1 DEF Head1
    <3> SUFFICES ASSUME NEW i \in DOMAIN cmds', NEW cmd \in Cmds, NEW c \in Chans,
                        cmds'[i].cmd = cmd, cmds'[i].ch = c
                 PROVE  \/ cmd \in {"STOP", "EV_ALLOCATE", "EV_DEALLOC", "DE_ALLOC"}
                        \/ cmd = "START" /\ (Up(c, k2)' \/ (i = Len(cmds') /\ Sent(cmd, c)'))
                        \/ cmd = "RESET" /\ Up(c, k2)' /\ i = Len(cmds') /\ Sent(cmd, c)'
                        \/ cmd = "ALLOCATE" /\ ~Up(c, k2)'
      BY DEF Late
    <3>5. CASE i \in 1 .. Len(cmds)
      <4>1. cmds[i].cmd = cmd /\ cmds[i].ch = c
        BY <3>3, <3>5
      <4>2. \/ cmd \in {"STOP", "EV_ALLOCATE", "EV_DEALLOC", "DE_ALLOC"}
            \/ cmd = "START" /\ Up(c, k)
            \/ cmd = "ALLOCATE" /\ ~Up(c, k)
        BY <1>4, <3>3, <3>5, <4>1 DEF Late, Sent
      <4> QED
        BY <1>2, <2>1, <4>2
    <3>6. CASE i = Len(cmds) + 1
      <4>1. cmd = Head1.val /\ c = Head1.ch /\ i = Len(cmds')
        BY <3>2, <3>3, <3>6
      <4>2. Sent(cmd, c)'
        BY <1>4, <2>1, <3>4, <4>1 DEF Sent
      <4>3. (cmd = "RESET" => Up(c, k2)') /\ (cmd = "ALLOCATE" => ~Up(c, k2)')
        BY <1>2, <1>4, <2>1, <4>1
      <4> QED
        BY <4>1, <4>2, <4>3, CmdNames
    <3> QED
      BY <3>3, <3>5, <3>6
  <2> QED
    BY <2>3, <2>4
<1>5. CASE Head1.do = "cmd" /\ sent /\ (Head1.val = "RESET" \/ (Head1.val = "START" /\ ~Up(Head1.ch, k)))
  <2>0. PICK h \in Chans : h = Head1.ch
    BY <1>1
  <2>1. ~sent' /\ cmds' = cmds
    BY <1>5, MoreEffects
  <2>2. /\ Confirmed(Head1) /\ ~(Up(h, k2) <=> Up(h, k)) /\ (Head1.val = "RESET" => Up(h, k))
    BY <1>5, <2>0
  <2>3. chState[h] = IF Head1.val = "RESET" THEN "ALLOCATED" ELSE "STARTED"
    BY <1>5, <2>0, <2>2 DEF Confirmed, CmdState, IsChanCmd
  <2>4. cmds = <<>> /\ (Up(h, k) => ~HwUp(h)) /\ (~Up(h, k) => HwUp(h))
    BY <1>1, <1>5, <2>0, <2>2, <2>3 DEF Agrees
  <2>5. Late(k2)'
    <3>1. DOMAIN cmds' = {}
      BY <2>1, <2>4
    <3> QED
      BY <3>1 DEF Late
  <2>6. ASSUME NEW c \in Chans, c # h PROVE Agrees(c, k2)'
    <3>1. ~Sent("RESET", c) /\ ~Sent("START", c) /\ (Up(c, k2) <=> Up(c, k))
      BY <2>0, <2>6 DEF Sent
    <3> QED
      BY <1>1, <1>2, <1>3, <3>1, NotSent DEF Agrees
  <2>7. Agrees(h, k2)'
    <3>1. \/ Up(h, k2)' /\ chState'[h] # "ALLOCATED" /\ HwUp(h)'
          \/ ~Up(h, k2)' /\ chState'[h] # "STARTED" /\ ~HwUp(h)'
      BY <1>1, <1>2, <1>3, <1>5, <2>0, <2>2, <2>3, <2>4
    <3> QED
      BY <3>1 DEF Agrees
  <2>8. \A c \in Chans : Agrees(c, k2)'
    BY <2>6, <2>7
  <2> QED
    BY <2>5, <2>8
<1>6. CASE ~(Head1.do = "cmd" /\ ~sent)
           /\ ~(Head1.do = "cmd" /\ sent /\ (Head1.val = "RESET" \/ (Head1.val = "START" /\ ~Up(Head1.ch, k))))
  <2>1. ~sent' /\ cmds' = cmds
    BY <1>6, MoreEffects
  <2>2. \A c \in Chans : Up(c, k2) <=> Up(c, k)
    BY <1>6
  <2>3. \A c \in Chans : ~Sent("RESET", c)
    BY <1>6, MoreEffects DEF Sent
  <2>4. ASSUME NEW c \in Chans PROVE Agrees(c, k2)'
    <3>1. ~Sent("START", c) \/ Up(c, k)
      BY <1>6, MoreEffects DEF Sent
    <3> QED
      BY <1>1, <1>2, <1>3, <2>2, <2>3, <3>1 DEF Agrees
  <2>5. Late(k2)'
    <3> SUFFICES ASSUME NEW i \in DOMAIN cmds, NEW cmd \in Cmds, NEW c \in Chans,
                        cmds[i].cmd = cmd, cmds[i].ch = c
                 PROVE  \/ cmd \in {"STOP", "EV_ALLOCATE", "EV_DEALLOC", "DE_ALLOC"}
                        \/ cmd = "START" /\ Up(c, k2)'
                        \/ cmd = "ALLOCATE" /\ ~Up(c, k2)'
      BY <2>1 DEF Late
    <3>1. ~Sent("START", c) \/ Up(c, k)
      BY <1>6, MoreEffects DEF Sent
    <3>2. cmd = "START" => Up(c, k)
      BY <3>1 DEF Late
    <3>3. cmd # "RESET"
      BY <2>3 DEF Late
    <3> QED
      BY <1>2, <2>2, <3>2, <3>3 DEF Late
  <2> QED
    BY <2>4, <2>5
<1> QED
  BY <1>4, <1>5, <1>6

\* What a step of a handler keeps of the rings, and of the states of the channels.
LEMMA RingsKept ==
  ASSUME Typed, CtlNext, NEW c \in Chans
  PROVE  /\ Zero(c) => Zero(c)'
         /\ Head1.do # "setCh" => cpm' = cpm
         /\ Head1.do = "setCh" => cpm'[c] = IF c = Head1.ch THEN Head1.val ELSE cpm[c]
         /\ Head1.do \notin {"resetRing", "freeRing"} => ring' = ring
         /\ Head1.do = "resetRing" => IF c = Head1.ch THEN Still(c)' ELSE ring'[c] = ring[c]
         /\ Head1.do \notin {"wipe", "freeVc"} => vc' = vc
         /\ Head1.do = "wipe" => vc'[c] = IF c = Head1.ch THEN NoDescs ELSE vc[c]
<1>1. script # <<>> /\ Head1.ch \in Chans
  BY Effects, ScriptFacts
<1>2. /\ cpm \in [Chans -> PmStates] /\ vc \in [Chans -> Lists]
      /\ ring \in [Chans -> [on : BOOLEAN, rp : Slots, wp : Slots]]
  BY DEF Typed, TypedRegs, TypedRings
<1>3. Zero(c) => Zero(c)'
  BY Programmed DEF Zero
<1>4. Head1.do = "setCh" => cpm'[c] = IF c = Head1.ch THEN Head1.val ELSE cpm[c]
  BY <1>1, <1>2, Effects
<1>5. Head1.do = "resetRing" => IF c = Head1.ch THEN Still(c)' ELSE ring'[c] = ring[c]
  BY <1>1, <1>2, Effects DEF Still
<1>6. Head1.do = "wipe" => vc'[c] = IF c = Head1.ch THEN NoDescs ELSE vc[c]
  BY <1>1, <1>2, Effects
<1> QED
  BY <1>3, <1>4, <1>5, <1>6, Effects

\* A step of the handler that takes the channels.
LEMMA GrabSteps ==
  ASSUME IInv, CtlNext, cl' = cl, cl = "grabRx", ret', Idle,
         NEW k \in Nat, NEW n \in Nat, Handled(k, n)
  PROVE  \E k2 \in Nat, n2 \in Nat : Handled(k2, n2)'
<1> DEFINE s == ChInit(RX)
<1>1. Typed
  BY DEF IInv
<1>2. At(s, k, n) /\ Late(k) /\ \A c \in Chans : Agrees(c, k)
  BY DEF Handled, Place
<1>3. /\ \A c \in Chans : Still(c)
      /\ (k > 1 => evs = <<>>) /\ (k > 7 => Zero(TX)) /\ (k > 9 => Zero(RX))
      /\ (Past(k, n, 10) => cpm[TX] = "ACTIVE") /\ (Past(k, n, 11) => cpm[RX] = "ACTIVE")
  BY DEF Handled, Stage
<1>4. /\ s \in Seq(AnyStep) /\ Len(s) = 11
      /\ s[1].do = "allocEv" /\ s[2].do = "setPm" /\ s[3].do = "configIrq" /\ s[5].do = "setPm"
      /\ s[7].do = "program" /\ s[7].ch = TX /\ s[9].do = "program" /\ s[9].ch = RX
      /\ \A i \in {4, 6, 8, 10, 11} : s[i].do = "cmd" /\ s[i].must
      /\ \A i \in 1 .. 9 : s[i].ok = <<>>
      /\ s[4].val = "EV_ALLOCATE"
      /\ s[6].val = "ALLOCATE" /\ s[6].ch = TX /\ s[8].val = "ALLOCATE" /\ s[8].ch = RX
      /\ s[10].val = "START" /\ s[10].ch = TX /\ s[10].ok = <<SetCh(TX, "ACTIVE")>>
      /\ s[11].val = "START" /\ s[11].ch = RX /\ s[11].ok = <<SetCh(RX, "ACTIVE")>>
  BY InitTable
<1> HIDE DEF s
<1>5. \A i \in 1 .. Len(s) : s[i].ok \in Oks
  <2>1. \A i \in 1 .. 11 : i \in 1 .. 9 \/ i = 10 \/ i = 11
    OBVIOUS
  <2> QED
    BY <1>4, <2>1 DEF Oks
<1>6. \A i \in 1 .. 11 : Len(s[i].ok) = IF i \in {10, 11} THEN 1 ELSE 0
  <2>1. Len(<<SetCh(TX, "ACTIVE")>>) = 1 /\ Len(<<SetCh(RX, "ACTIVE")>>) = 1
    OBVIOUS
  <2>2. Len(s[10].ok) = 1 /\ Len(s[11].ok) = 1
    BY <1>4, <2>1
  <2>3. \A i \in 1 .. 9 : Len(s[i].ok) = 0
    BY <1>4
  <2>4. \A i \in 1 .. 11 : i \in 1 .. 9 \/ i = 10 \/ i = 11
    OBVIOUS
  <2>5. \A i \in 1 .. 9 : i \notin {10, 11}
    OBVIOUS
  <2> QED
    BY <2>2, <2>3, <2>4, <2>5
<1>7. Head1.do # "others"
  <2>1. script \in Seq(Steps(InitKinds)) /\ "others" \notin InitKinds
    BY DEF IInv, Handlers, Taking, InitKinds
  <2>2. Head1 \in Steps(InitKinds)
    BY <1>1, <2>1, TwoChans, InitScripts, KindsKept
  <2> QED
    BY <2>1, <2>2 DEF Steps
\* What is left to show of where the handler is then.
<1>8. ASSUME NEW k2 \in Nat, NEW n2 \in Nat, At(s, k2, n2)',
             Head1.do \notin {"resetRing", "freeRing"},
             k2 > 1 => evs' = <<>>, k2 > 7 => Zero(TX)', k2 > 9 => Zero(RX)',
             Past(k2, n2, 10) => cpm'[TX] = "ACTIVE", Past(k2, n2, 11) => cpm'[RX] = "ACTIVE",
             Late(k2)' /\ \A c \in Chans : Agrees(c, k2)'
      PROVE  Handled(k2, n2)'
  <2>1. cl' = "grabRx" /\ \A c \in Chans : Still(c)'
    BY <1>1, <1>3, <1>8, RingsKept DEF Still
  <2>2. Place(k2, n2)'
    BY <1>8, <2>1 DEF Place, s, InUse, Running, Stopping
  <2>3. Stage(k2, n2)'
    BY <1>8, <2>1 DEF Stage, InUse, Running, Stopping
  <2> QED
    BY <1>8, <2>2, <2>3 DEF Handled
<1>9. CASE /\ n = 0 /\ k \in 1 .. Len(s) /\ Head1 = s[k]
           /\ Head1.do = "cmd" /\ ~sent /\ At(s, k, 0)'
  <2>1. k \in {4, 6, 8, 10, 11} /\ Head1.do = "cmd"
    <3>1. k \in 1 .. 11 => k \in {1, 2, 3, 5, 7, 9} \/ k \in {4, 6, 8, 10, 11}
      OBVIOUS
    <3> QED
      BY <1>4, <1>9, <3>1
  <2>2. Head1.val # "RESET" /\ (Head1.val = "ALLOCATE" => ~Up(Head1.ch, k))
    <3>1. k \in {6, 8} => ~Up(Head1.ch, k)
      BY DEF Up, InUse, Running, Stopping
    <3> QED
      BY <1>4, <1>9, <2>1, <3>1
  <2>3. Late(k)' /\ \A c \in Chans : Agrees(c, k)'
    BY <1>1, <1>2, <1>9, <2>2, CommandsKept
  <2>4. evs' = evs /\ cpm' = cpm
    BY <1>1, <1>9, Effects
  <2>5. (k > 7 => Zero(TX)') /\ (k > 9 => Zero(RX)')
    BY <1>1, <1>3, RingsKept, TwoChans
  <2>6. Handled(k, 0)'
    BY <1>3, <1>8, <1>9, <2>3, <2>4, <2>5
  <2> QED
    BY <2>6
<1>10. CASE /\ n = 0 /\ k \in 1 .. Len(s) /\ Head1 = s[k]
           /\ Head1.do = "cmd" /\ sent /\ Confirmed(Head1) /\ At(s, k + 1, Len(s[k].ok))'
  <2>1. k \in {4, 6, 8, 10, 11}
    <3>1. k \in 1 .. 11 => k \in {1, 2, 3, 5, 7, 9} \/ k \in {4, 6, 8, 10, 11}
      OBVIOUS
    <3> QED
      BY <1>4, <1>10, <3>1
  <2>2. \A c \in Chans : (Up(c, k + 1) <=> Up(c, k)) \/ (c = TX /\ k = 10) \/ (c = RX /\ k = 11)
    BY TwoChans DEF Up, InUse, Running, Stopping
  <2>3. /\ ~Up(TX, 10) /\ Up(TX, 11) /\ ~Up(RX, 11) /\ Up(RX, 12)
    BY TwoChans DEF Up, InUse, Running, Stopping
  <2>4. Head1.val # "RESET" /\ (Head1.val = "START" => k \in {10, 11})
    BY <1>4, <1>10, <2>1
  <2>5. /\ k = 10 => Head1.val = "START" /\ Head1.ch = TX
        /\ k = 11 => Head1.val = "START" /\ Head1.ch = RX
    BY <1>4, <1>10
  <2>6. \A c \in Chans : ~(Up(c, k + 1) <=> Up(c, k)) =>
          /\ Head1.do = "cmd" /\ sent /\ Head1.ch = c
          /\ Head1.val = (IF Up(c, k) THEN "RESET" ELSE "START")
    BY <1>10, <2>2, <2>3, <2>5
  <2>7. Head1.do = "cmd" /\ sent /\ (Head1.val = "RESET" \/ (Head1.val = "START" /\ ~Up(Head1.ch, k))) =>
           /\ Confirmed(Head1) /\ ~(Up(Head1.ch, k + 1) <=> Up(Head1.ch, k))
           /\ Head1.val = "RESET" => Up(Head1.ch, k)
    BY <1>10, <2>3, <2>4, <2>5
  <2>8. Late(k + 1)' /\ \A c \in Chans : Agrees(c, k + 1)'
    <3>1. k + 1 \in Nat
      OBVIOUS
    <3> QED
      BY <1>1, <1>2, <1>10, <2>6, <2>7, CommandsKept
  <2>9. evs' = evs /\ cpm' = cpm /\ evs = <<>>
    BY <1>1, <1>3, <1>10, <2>1, Effects
  <2>10. (k + 1 > 7 => Zero(TX)') /\ (k + 1 > 9 => Zero(RX)')
    BY <1>1, <1>3, <2>1, RingsKept, TwoChans
  <2>11. Len(s[k].ok) = IF k \in {10, 11} THEN 1 ELSE 0
    BY <1>6, <1>4, <1>10
  <2>12. /\ (Past(k + 1, Len(s[k].ok), 10) => cpm'[TX] = "ACTIVE")
         /\ (Past(k + 1, Len(s[k].ok), 11) => cpm'[RX] = "ACTIVE")
    BY <1>3, <1>10, <2>1, <2>9, <2>11 DEF Past
  <2>13. k + 1 \in Nat /\ Len(s[k].ok) \in Nat
    BY <2>11
  <2>14. Handled(k + 1, Len(s[k].ok))'
    BY <1>8, <1>10, <2>8, <2>9, <2>10, <2>12, <2>13
  <2> QED
    BY <2>13, <2>14
<1>11. CASE /\ n = 0 /\ k \in 1 .. Len(s) /\ Head1 = s[k]
            /\ Head1.do # "cmd" /\ At(s, k + 1, 0)'
  <2>1. k \in {1, 2, 3, 5, 7, 9}
    <3>1. k \in 1 .. 11 => k \in {1, 2, 3, 5, 7, 9} \/ k \in {4, 6, 8, 10, 11}
      OBVIOUS
    <3> QED
      BY <1>4, <1>11, <3>1
  <2>2. \A c \in Chans : Up(c, k + 1) <=> Up(c, k)
    BY <2>1, TwoChans DEF Up, InUse, Running, Stopping
  <2>3. k + 1 \in Nat /\ Late(k + 1)' /\ \A c \in Chans : Agrees(c, k + 1)'
    <3>1. \A c \in Chans : ~(Up(c, k + 1) <=> Up(c, k)) =>
            /\ Head1.do = "cmd" /\ sent /\ Head1.ch = c
            /\ Head1.val = (IF Up(c, k) THEN "RESET" ELSE "START")
      BY <2>2
    <3>2. Late(k + 1)' /\ \A c \in Chans : Agrees(c, k + 1)'
      BY <1>1, <1>2, <1>11, <3>1, CommandsKept
    <3> QED
      BY <3>2
  <2>4. Head1.do \in {"allocEv", "setPm", "configIrq", "program"} /\ (Head1.do = "allocEv" => k = 1)
        /\ (k = 1 => Head1.do = "allocEv") /\ (k = 7 => Head1.do = "program" /\ Head1.ch = TX)
        /\ (k = 9 => Head1.do = "program" /\ Head1.ch = RX)
    BY <1>4, <1>11, <2>1
  <2>5. evs' = <<>>
    BY <1>1, <1>3, <2>1, <2>4, Effects, MoreEffects
  <2>6. (k + 1 > 7 => Zero(TX)') /\ (k + 1 > 9 => Zero(RX)')
    <3>1. k > 7 => Zero(TX)'
      BY <1>1, <1>3, RingsKept, TwoChans
    <3>2. Head1.do = "program" =>
            hw' = [hw EXCEPT ![Head1.ch].ctx = TRUE, ![Head1.ch].at = 0, ![Head1.ch].db = 0]
      BY <1>1, MoreEffects
    <3>3. hw \in [Chans -> [state : ChStates, ctx : BOOLEAN, at : Slots, db : Slots, links : Nat]]
      BY <1>1 DEF Typed, TypedRings
    <3>4. k = 7 => Zero(TX)'
      BY <2>4, <3>2, <3>3, TwoChans DEF Zero
    <3>5. k = 9 => Zero(RX)'
      BY <2>4, <3>2, <3>3, TwoChans DEF Zero, Idle
    <3> QED
      BY <2>1, <3>1, <3>4, <3>5
  <2>7. ~Past(k + 1, 0, 10) /\ ~Past(k + 1, 0, 11)
    BY <2>1 DEF Past
  <2>8. Handled(k + 1, 0)'
    BY <1>8, <1>11, <2>3, <2>4, <2>5, <2>6, <2>7
  <2> QED
    BY <2>3, <2>8
<1>12. CASE /\ n > 0 /\ k \in 2 .. Len(s) + 1 /\ n <= Len(s[k - 1].ok)
            /\ Head1 = s[k - 1].ok[Len(s[k - 1].ok) - n + 1]
            /\ Head1.do \in {"resetRing", "wipe", "setCh"} /\ At(s, k, n - 1)'
  <2>1. k \in {11, 12} /\ n = 1
    <3>1. k - 1 \in 1 .. 11
      BY <1>4, <1>12
    <3>2. Len(s[k - 1].ok) = IF k - 1 \in {10, 11} THEN 1 ELSE 0
      BY <1>6, <3>1
    <3> QED
      BY <1>12, <3>1, <3>2
  <2>2. Head1 = SetCh(IF k = 11 THEN TX ELSE RX, "ACTIVE")
    <3>1. CASE k = 11
      BY <1>4, <1>12, <2>1, <3>1
    <3>2. CASE k = 12
      BY <1>4, <1>12, <2>1, <3>2
    <3> QED
      BY <2>1, <3>1, <3>2
  <2>3. Head1.do = "setCh" /\ Head1.val = "ACTIVE" /\ Head1.ch = IF k = 11 THEN TX ELSE RX
    BY <2>2, Fields
  <2>4. Late(k)' /\ \A c \in Chans : Agrees(c, k)'
    BY <1>1, <1>2, <2>3, CommandsKept
  <2>5. evs' = evs /\ evs = <<>>
    BY <1>1, <1>3, <2>1, <2>3, Effects
  <2>6. Zero(TX)' /\ Zero(RX)'
    BY <1>1, <1>3, <2>1, RingsKept, TwoChans
  <2>7. /\ k = 11 => cpm'[TX] = "ACTIVE"
        /\ k = 12 => cpm'[RX] = "ACTIVE" /\ cpm'[TX] = cpm[TX]
    BY <1>1, <2>3, RingsKept, TwoChans
  <2>8. (Past(k, 0, 10) => cpm'[TX] = "ACTIVE") /\ (Past(k, 0, 11) => cpm'[RX] = "ACTIVE")
    BY <1>3, <2>1, <2>7 DEF Past
  <2>9. At(s, k, 0)'
    BY <1>12, <2>1
  <2>10. Handled(k, 0)'
    BY <1>8, <2>3, <2>4, <2>5, <2>6, <2>8, <2>9
  <2> QED
    BY <2>10
<1>13. Head1.do = "cmd" => Head1.must \/ n > 0
  <2>1. CASE n = 0
    <3>1. k \in 1 .. 11 /\ Head1 = s[k]
      BY <1>1, <1>2, <1>4, <2>1, Effects, Position
    <3>2. k \in {1, 2, 3, 5, 7, 9} \/ k \in {4, 6, 8, 10, 11}
      BY <3>1
    <3> QED
      BY <1>4, <3>1, <3>2
  <2> QED
    BY <2>1
<1>14. \/ /\ n = 0 /\ k \in 1 .. Len(s) /\ Head1 = s[k]
          /\ \/ Head1.do = "cmd" /\ ~sent /\ At(s, k, 0)'
             \/ Head1.do = "cmd" /\ sent /\ done /\ Confirmed(Head1) /\ At(s, k + 1, Len(s[k].ok))'
             \/ Head1.do = "cmd" /\ sent /\ ~(done /\ Confirmed(Head1)) /\ ~Head1.must /\ At(s, k + 1, 0)'
             \/ Head1.do # "cmd" /\ At(s, k + 1, 0)'
       \/ /\ n \in Nat /\ n > 0 /\ k \in 2 .. Len(s) + 1 /\ n <= Len(s[k - 1].ok)
          /\ Head1 = s[k - 1].ok[Len(s[k - 1].ok) - n + 1]
          /\ Head1.do \in {"resetRing", "wipe", "setCh"} /\ At(s, k, n - 1)'
  BY <1>1, <1>2, <1>4, <1>5, <1>7, Advance
<1> QED
  BY <1>9, <1>10, <1>11, <1>12, <1>13, <1>14

\* A step of the handler that terminates the channels.
LEMMA StopSteps ==
  ASSUME IInv, CtlNext, cl' = cl, cl \in Stopping, ret',
         NEW k \in Nat, NEW n \in Nat, Handled(k, n)
  PROVE  \E k2 \in Nat, n2 \in Nat : Handled(k2, n2)'
<1> DEFINE s == Terminating
<1>1. Typed
  BY DEF IInv
<1>2. At(s, k, n) /\ Late(k) /\ \A c \in Chans : Agrees(c, k)
  BY DEF Handled, Place
<1>3. /\ Turned(k, n)
      /\ (cl = "terminateTx" => Cleared(k, n)) /\ (cl = "terminateRx" => Cleared(11, 0))
  BY DEF Handled, Stage
<1>4. /\ s \in Seq(AnyStep) /\ Len(s) = 10
      /\ s[1].do = "setCh" /\ s[1].ch = TX /\ s[1].val = "PREPARE_TERMINATE"
      /\ s[3].do = "setCh" /\ s[3].ch = RX /\ s[3].val = "PREPARE_TERMINATE"
      /\ s[6].do = "program" /\ s[6].ch = TX /\ s[8].do = "program" /\ s[8].ch = RX
      /\ \A i \in {2, 4, 5, 7, 9, 10} : s[i].do = "cmd"
      /\ \A i \in {2, 4} : s[i].val = "STOP" /\ ~s[i].must
      /\ \A i \in {1, 2, 3, 4, 6, 8} : s[i].ok = <<>>
      /\ \A i \in {5, 7, 9, 10} : s[i].must
      /\ s[5].val = "RESET" /\ s[5].ch = TX /\ s[5].ok = Wiped(TX)
      /\ s[7].val = "RESET" /\ s[7].ch = RX /\ s[7].ok = Wiped(RX)
      /\ s[9].val = "START" /\ s[9].ch = TX /\ s[9].ok = <<SetCh(TX, "ACTIVE")>>
      /\ s[10].val = "START" /\ s[10].ch = RX /\ s[10].ok = <<SetCh(RX, "ACTIVE")>>
  BY StopTable
<1> HIDE DEF s
<1>5. \A i \in 1 .. 10 : i \in {1, 3, 6, 8} \/ i \in {2, 4} \/ i \in {5, 7} \/ i \in {9, 10}
  OBVIOUS
<1>6. \A i \in 1 .. Len(s) : s[i].ok \in Oks
  BY <1>4, <1>5 DEF Oks
<1>7. \A i \in 1 .. 10 : Len(s[i].ok) = IF i \in {5, 7} THEN 2 ELSE IF i \in {9, 10} THEN 1 ELSE 0
  <2>1. /\ Len(<<SetCh(TX, "ACTIVE")>>) = 1 /\ Len(<<SetCh(RX, "ACTIVE")>>) = 1
        /\ Len(Wiped(TX)) = 2 /\ Len(Wiped(RX)) = 2
    BY DEF Wiped
  <2>2. /\ Len(s[9].ok) = 1 /\ Len(s[10].ok) = 1 /\ Len(s[5].ok) = 2 /\ Len(s[7].ok) = 2
    BY <1>4, <2>1
  <2>3. \A i \in {1, 2, 3, 4, 6, 8} : Len(s[i].ok) = 0
    BY <1>4
  <2> QED
    BY <1>5, <2>2, <2>3
<1>8. Head1.do \notin {"others", "freeRing", "freeVc"}
  <2>1. script \in Seq(Steps(RunKinds)) /\ "others" \notin RunKinds /\ "configIrq" \notin RunKinds
    BY DEF IInv, Handlers, Running, Stopping, RunKinds
  <2>2. Head1 \in Steps(RunKinds)
    BY <1>1, <2>1, KindsKept
  <2> QED
    BY <2>2 DEF Steps, RunKinds
<1>9. ASSUME NEW c \in Chans
      PROVE  /\ Zero(c) => Zero(c)'
             /\ Still(c) => Still(c)'
             /\ vc[c] = NoDescs => vc'[c] = NoDescs
  BY <1>1, <1>8, RingsKept DEF Still
<1>10. cl = "terminateRx" => Cleared(11, 0)'
  BY <1>3, <1>9, TwoChans DEF Cleared, Past
<1>11. Cleared(k, n) => Cleared(k, n)'
  BY <1>9, TwoChans DEF Cleared, Past
\* What is left to show of where the handler is then.
<1>12. ASSUME NEW k2 \in Nat, NEW n2 \in Nat, At(s, k2, n2)',
              Turned(k2, n2)',
              cl = "terminateTx" => Cleared(k2, n2)',
              Late(k2)' /\ \A c \in Chans : Agrees(c, k2)'
       PROVE  Handled(k2, n2)'
  <2>1. Place(k2, n2)'
    BY <1>12 DEF Place, s, InUse, Running, Stopping
  <2>2. Stage(k2, n2)'
    BY <1>10, <1>12 DEF Stage, InUse, Running, Stopping
  <2> QED
    BY <1>12, <2>1, <2>2 DEF Handled
<1>13. CASE /\ n = 0 /\ k \in 1 .. Len(s) /\ Head1 = s[k]
            /\ Head1.do = "cmd" /\ ~sent /\ At(s, k, 0)'
  <2>1. k \in {2, 4, 5, 7, 9, 10}
    BY <1>4, <1>5, <1>13
  <2>2. Head1.val # "ALLOCATE" /\ (Head1.val = "RESET" => Up(Head1.ch, k))
    <3>1. Up(TX, 5) /\ Up(RX, 7)
      BY TwoChans DEF Up
    <3> QED
      BY <1>4, <1>13, <2>1, <3>1
  <2>3. Late(k)' /\ \A c \in Chans : Agrees(c, k)'
    BY <1>1, <1>2, <1>13, <2>2, CommandsKept
  <2>4. Turned(k, 0)'
    BY <1>1, <1>3, <1>13, Effects DEF Turned
  <2>5. Handled(k, 0)'
    BY <1>3, <1>11, <1>12, <1>13, <2>3, <2>4
  <2> QED
    BY <2>5
<1>14. CASE /\ n = 0 /\ k \in 1 .. Len(s) /\ Head1 = s[k]
            /\ Head1.do = "cmd" /\ sent /\ Confirmed(Head1) /\ At(s, k + 1, Len(s[k].ok))'
  <2>1. k \in {2, 4, 5, 7, 9, 10}
    BY <1>4, <1>5, <1>14
  <2>2. \A c \in Chans : \/ Up(c, k + 1) <=> Up(c, k)
                         \/ (c = TX /\ k \in {5, 9}) \/ (c = RX /\ k \in {7, 10})
    BY <2>1, TwoChans DEF Up, InUse
  <2>3. /\ Up(TX, 5) /\ ~Up(TX, 6) /\ Up(RX, 7) /\ ~Up(RX, 8)
        /\ ~Up(TX, 9) /\ Up(TX, 10) /\ ~Up(RX, 10) /\ Up(RX, 11)
    BY TwoChans DEF Up, InUse, Stopping
  <2>4. /\ k = 5 => Head1.val = "RESET" /\ Head1.ch = TX
        /\ k = 7 => Head1.val = "RESET" /\ Head1.ch = RX
        /\ k = 9 => Head1.val = "START" /\ Head1.ch = TX
        /\ k = 10 => Head1.val = "START" /\ Head1.ch = RX
        /\ k \in {2, 4} => Head1.val = "STOP"
    BY <1>4, <1>14
  <2>5. \A c \in Chans : ~(Up(c, k + 1) <=> Up(c, k)) =>
          /\ Head1.do = "cmd" /\ sent /\ Head1.ch = c
          /\ Head1.val = (IF Up(c, k) THEN "RESET" ELSE "START")
    BY <1>14, <2>2, <2>3, <2>4
  <2>6. Head1.do = "cmd" /\ sent /\ (Head1.val = "RESET" \/ (Head1.val = "START" /\ ~Up(Head1.ch, k))) =>
           /\ Confirmed(Head1) /\ ~(Up(Head1.ch, k + 1) <=> Up(Head1.ch, k))
           /\ Head1.val = "RESET" => Up(Head1.ch, k)
    BY <1>14, <2>1, <2>3, <2>4
  <2>7. Late(k + 1)' /\ \A c \in Chans : Agrees(c, k + 1)'
    BY <1>1, <1>2, <1>14, <2>5, <2>6, CommandsKept
  <2>8. cpm' = cpm /\ Len(s[k].ok) = IF k \in {5, 7} THEN 2 ELSE IF k \in {9, 10} THEN 1 ELSE 0
    <3>1. cpm' = cpm
      BY <1>1, <1>14, Effects
    <3>2. Len(s[k].ok) = IF k \in {5, 7} THEN 2 ELSE IF k \in {9, 10} THEN 1 ELSE 0
      BY <1>4, <1>7, <1>14
    <3> QED
      BY <3>1, <3>2
\* A RESET that is believed has been obeyed.
  <2>9. (k = 5 => Zero(TX)) /\ (k = 7 => Zero(RX))
    <3>1. k \in {5, 7} => chState[Head1.ch] = "ALLOCATED" /\ Agrees(Head1.ch, k) /\ Up(Head1.ch, k)
      BY <1>2, <1>14, <2>3, <2>4, TwoChans DEF Confirmed, CmdState, IsChanCmd
    <3>2. k \in {5, 7} => Zero(Head1.ch)
      BY <3>1 DEF Agrees
    <3> QED
      BY <2>4, <3>2
  <2>10. cl = "terminateTx" => Cleared(k + 1, Len(s[k].ok))'
    <3> SUFFICES ASSUME cl = "terminateTx" PROVE Cleared(k + 1, Len(s[k].ok))'
      OBVIOUS
    <3>1. Cleared(k, 0)
      BY <1>3, <1>14
    <3>2. (k + 1 > 5 => Zero(TX)') /\ (k + 1 > 7 => Zero(RX)')
      BY <1>9, <2>1, <2>9, <3>1, TwoChans DEF Cleared
    <3>3. /\ (k + 1 > 6 \/ (k + 1 = 6 /\ Len(s[k].ok) < 2)) => Still(TX)'
          /\ (k + 1 > 8 \/ (k + 1 = 8 /\ Len(s[k].ok) < 2)) => Still(RX)'
      BY <1>9, <2>1, <2>8, <3>1, TwoChans DEF Cleared
    <3>4. /\ Past(k + 1, Len(s[k].ok), 5) => vc'[TX] = NoDescs
          /\ Past(k + 1, Len(s[k].ok), 7) => vc'[RX] = NoDescs
      BY <1>9, <2>1, <2>8, <3>1, TwoChans DEF Cleared, Past
    <3>5. PICK m : m = Len(s[k].ok)
      OBVIOUS
    <3>6. Cleared(k + 1, m)'
      BY <3>2, <3>3, <3>4, <3>5 DEF Cleared
    <3> QED
      BY <3>5, <3>6 DEF s
  <2>11. Turned(k + 1, Len(s[k].ok))'
    <3>1. PICK m : m = Len(s[k].ok)
      OBVIOUS
    <3>2. \A i \in {9, 10} : Past(k + 1, m, i) <=> Past(k, 0, i)
      <4>1. m = IF k \in {5, 7} THEN 2 ELSE IF k \in {9, 10} THEN 1 ELSE 0
        BY <2>8, <3>1
      <4> HIDE DEF s
      <4> QED
        BY <2>1, <4>1 DEF Past
    <3>3. Turned(k + 1, m)'
      BY <1>3, <1>14, <2>1, <2>8, <3>2 DEF Turned
    <3> QED
      BY <3>1, <3>3 DEF s
  <2>12. k + 1 \in Nat /\ Len(s[k].ok) \in Nat
    BY <2>8
  <2>13. Handled(k + 1, Len(s[k].ok))'
    BY <1>12, <1>14, <2>7, <2>10, <2>11, <2>12
  <2> QED
    BY <2>12, <2>13
<1>15. CASE /\ n = 0 /\ k \in 1 .. Len(s) /\ Head1 = s[k]
            /\ Head1.do = "cmd" /\ sent /\ ~Head1.must /\ At(s, k + 1, 0)'
  <2>1. k \in {2, 4}
    BY <1>4, <1>5, <1>15
  <2>2. Head1.val = "STOP"
    BY <1>4, <1>15, <2>1
  <2>3. \A c \in Chans : Up(c, k + 1) /\ Up(c, k)
    BY <2>1 DEF Up
  <2>4. Late(k + 1)' /\ \A c \in Chans : Agrees(c, k + 1)'
    BY <1>1, <1>2, <1>15, <2>2, <2>3, CommandsKept
  <2>5. Cleared(k + 1, 0)' /\ Turned(k + 1, 0)'
    BY <1>1, <1>3, <1>15, <2>1, Effects DEF Cleared, Turned, Past
  <2>6. k + 1 \in Nat /\ Handled(k + 1, 0)'
    BY <1>12, <1>15, <2>4, <2>5
  <2> QED
    BY <2>6
<1>16. CASE /\ n = 0 /\ k \in 1 .. Len(s) /\ Head1 = s[k]
            /\ Head1.do # "cmd" /\ At(s, k + 1, 0)'
  <2>1. k \in {1, 3, 6, 8}
    BY <1>4, <1>5, <1>16
  <2>2. \A c \in Chans : Up(c, k + 1) <=> Up(c, k)
    BY <2>1, TwoChans DEF Up, InUse
  <2>3. \A c \in Chans : ~(Up(c, k + 1) <=> Up(c, k)) =>
          /\ Head1.do = "cmd" /\ sent /\ Head1.ch = c
          /\ Head1.val = (IF Up(c, k) THEN "RESET" ELSE "START")
    BY <2>2
  <2>4. Late(k + 1)' /\ \A c \in Chans : Agrees(c, k + 1)'
    BY <1>1, <1>2, <1>16, <2>3, CommandsKept
  <2>5. Turned(k + 1, 0)'
    <3>1. ~Past(k + 1, 0, 9) /\ ~Past(k + 1, 0, 10) /\ ~Past(k, 0, 9) /\ ~Past(k, 0, 10)
      BY <2>1 DEF Past
    <3>3. k \in {1, 3} =>
            /\ Head1.do = "setCh" /\ Head1.val # "ACTIVE" /\ Head1.ch = (IF k = 1 THEN TX ELSE RX)
            /\ \A c \in Chans : cpm'[c] = IF c = Head1.ch THEN Head1.val ELSE cpm[c]
      BY <1>1, <1>4, <1>16, RingsKept
    <3>4. k \in {6, 8} => cpm' = cpm
      BY <1>1, <1>4, <1>16, Effects
    <3> QED
      BY <1>3, <1>16, <2>1, <3>1, <3>3, <3>4, TwoChans DEF Turned
  <2>6. cl = "terminateTx" => Cleared(k + 1, 0)'
    <3>1. cl = "terminateTx" => Cleared(k, 0)'
      BY <1>3, <1>11, <1>16
    <3>2. Cleared(k, 0)' => Cleared(k + 1, 0)'
      BY <2>1 DEF Cleared, Past
    <3> QED
      BY <3>1, <3>2
  <2>7. k + 1 \in Nat
    OBVIOUS
  <2>8. Handled(k + 1, 0)'
    BY <1>12, <1>16, <2>4, <2>5, <2>6, <2>7
  <2> QED
    BY <2>7, <2>8
<1>17. CASE /\ n > 0 /\ k \in 2 .. Len(s) + 1 /\ n <= Len(s[k - 1].ok)
            /\ Head1 = s[k - 1].ok[Len(s[k - 1].ok) - n + 1]
            /\ Head1.do \in {"resetRing", "wipe", "setCh"} /\ At(s, k, n - 1)'
  <2>1. /\ k - 1 \in 1 .. 10 /\ k \in 2 .. 11
        /\ Len(s[k - 1].ok) = IF k - 1 \in {5, 7} THEN 2 ELSE IF k - 1 \in {9, 10} THEN 1 ELSE 0
    <3>1. Len(s) = 10
      BY <1>4
    <3>2. k - 1 \in 1 .. 10 /\ k \in 2 .. 11
      BY <1>17, <3>1
    <3> QED
      BY <1>7, <3>2
  <2>2. Late(k)' /\ \A c \in Chans : Agrees(c, k)'
    BY <1>1, <1>2, <1>17, CommandsKept
  <2>3. CASE k \in {6, 8}
    <3>1. n \in {1, 2} /\ Len(s[k - 1].ok) = 2 /\ k - 1 = (IF k = 6 THEN 5 ELSE 7)
      BY <1>17, <2>1, <2>3
    <3>2. PICK c \in Chans : c = IF k = 6 THEN TX ELSE RX
      BY TwoChans
    <3>3. s[k - 1].ok = <<Step("resetRing", c), Step("wipe", c)>>
      BY <1>4, <2>3, <3>1, <3>2 DEF Wiped
    <3>4. Head1 = IF n = 2 THEN Step("resetRing", c) ELSE Step("wipe", c)
      BY <1>17, <3>1, <3>3
    <3>5. Head1.do = (IF n = 2 THEN "resetRing" ELSE "wipe") /\ Head1.ch = c
      BY <3>4, Fields
    <3>6. (n = 2 => Still(c)') /\ (n = 1 => vc'[c] = NoDescs) /\ cpm' = cpm
      BY <1>1, <3>5, RingsKept
    <3>7. cl = "terminateTx" => Cleared(k, n - 1)'
      <4>1. Cleared(k, n)' => Cleared(k, n - 1)'
        BY <2>3, <3>1, <3>2, <3>6 DEF Cleared, Past
      <4> QED
        BY <1>3, <1>11, <4>1
    <3>8. n - 1 \in Nat /\ Turned(k, n - 1)'
      BY <1>3, <2>3, <3>1, <3>6 DEF Turned, Past
    <3>9. Handled(k, n - 1)'
      BY <1>12, <1>17, <2>2, <3>7, <3>8
    <3> QED
      BY <3>8, <3>9
  <2>4. CASE k \in {10, 11}
    <3>1. n = 1 /\ Len(s[k - 1].ok) = 1 /\ k - 1 = (IF k = 10 THEN 9 ELSE 10)
      BY <1>17, <2>1, <2>4
    <3>2. PICK c \in Chans : c = IF k = 10 THEN TX ELSE RX
      BY TwoChans
    <3>3. s[k - 1].ok = <<SetCh(c, "ACTIVE")>>
      BY <1>4, <2>4, <3>1, <3>2
    <3>4. Head1 = SetCh(c, "ACTIVE")
      BY <1>17, <3>1, <3>3
    <3>5. Head1.do = "setCh" /\ Head1.ch = c /\ Head1.val = "ACTIVE"
      BY <3>4, Fields
    <3>6. Turned(k, 0)'
      <4>1. \A d \in Chans : cpm'[d] = IF d = c THEN "ACTIVE" ELSE cpm[d]
        BY <1>1, <3>5, RingsKept
      <4>2. k = 10 => Past(k, 0, 9) /\ ~Past(k, 0, 10) /\ ~Past(k, 1, 9) /\ ~Past(k, 1, 10)
        BY DEF Past
      <4>3. k = 11 => Past(k, 0, 9) /\ Past(k, 0, 10) /\ Past(k, 1, 9) /\ ~Past(k, 1, 10)
        BY DEF Past
      <4> QED
        BY <1>3, <2>4, <3>1, <3>2, <4>1, <4>2, <4>3, TwoChans DEF Turned
    <3>7. cl = "terminateTx" => Cleared(k, 0)'
      <4>1. Cleared(k, n)' => Cleared(k, 0)'
        BY <2>4, <3>1 DEF Cleared, Past
      <4> QED
        BY <1>3, <1>11, <4>1
    <3>8. At(s, k, 0)'
      BY <1>17, <3>1
    <3>9. Handled(k, 0)'
      BY <1>12, <2>2, <3>6, <3>7, <3>8
    <3> QED
      BY <3>9
  <2>5. k \in {6, 8} \/ k \in {10, 11}
    BY <1>17, <2>1
  <2> QED
    BY <2>3, <2>4, <2>5
<1>18. \/ /\ n = 0 /\ k \in 1 .. Len(s) /\ Head1 = s[k]
          /\ \/ Head1.do = "cmd" /\ ~sent /\ At(s, k, 0)'
             \/ Head1.do = "cmd" /\ sent /\ done /\ Confirmed(Head1) /\ At(s, k + 1, Len(s[k].ok))'
             \/ Head1.do = "cmd" /\ sent /\ ~(done /\ Confirmed(Head1)) /\ ~Head1.must /\ At(s, k + 1, 0)'
             \/ Head1.do # "cmd" /\ At(s, k + 1, 0)'
       \/ /\ n \in Nat /\ n > 0 /\ k \in 2 .. Len(s) + 1 /\ n <= Len(s[k - 1].ok)
          /\ Head1 = s[k - 1].ok[Len(s[k - 1].ok) - n + 1]
          /\ Head1.do \in {"resetRing", "wipe", "setCh"} /\ At(s, k, n - 1)'
  BY <1>1, <1>2, <1>4, <1>6, <1>8, Advance
<1> QED
  BY <1>13, <1>14, <1>15, <1>16, <1>17, <1>18

\* Steps that leave nothing to be done are taken one after the other.
LEMMA OneByOne ==
  ASSUME Typed, CtlNext, NEW S, script \in Seq(S),
         \A s \in S : s.ok = <<>> /\ s.bad = <<>> /\ s.do \notin {"others", "allocEv", "configIrq"}
  PROVE  script' \in Seq(S) /\ Head1 \in S
<1>1. script # <<>> /\ Head1 \in S /\ Tail(script) \in Seq(S)
  BY Effects, HeadTailProperties DEF Head1
<1>2. /\ Head1.ok = <<>> /\ Head1.bad = <<>> /\ <<>> \in Seq(S)
      /\ Head1.do \notin {"others", "allocEv", "configIrq"}
  BY <1>1, EmptySeq
<1>3. Head1.ok \o Tail(script) = Tail(script)
  BY <1>1, <1>2, ConcatEmptySeq
<1> QED
  BY <1>1, <1>2, <1>3, Effects

\* A step of a handler that pauses or resumes the channels.
LEMMA UseSteps ==
  ASSUME IInv, CtlNext, cl' = cl, cl \in InUse, NEW k \in Nat, NEW n \in Nat, Handled(k, n)
  PROVE  Handled(k, n)'
<1>1. Typed
  BY DEF IInv
<1>2. script \in Seq(PauseSteps) /\ Late(k) /\ \A c \in Chans : Agrees(c, k)
  BY DEF Handled, Place
<1>3. \A c \in Chans : ring[c].wp = hw[c].db /\ cpm[c] = "ACTIVE"
  BY DEF Handled, Stage
<1>4. script' \in Seq(PauseSteps) /\ Head1 \in PauseSteps
  <2>1. \A s \in PauseSteps : s.ok = <<>> /\ s.bad = <<>> /\ s.do \notin {"others", "allocEv", "configIrq"}
    BY DEF PauseSteps
  <2> HIDE DEF PauseSteps
  <2> QED
    BY <1>1, <1>2, <2>1, OneByOne
<1>5. /\ Head1.do \in {"disableIrq", "enableIrq", "killTasklet", "setPm", "cmd"}
      /\ Head1.do = "cmd" => Head1.val \in {"STOP", "START"}
  BY <1>4 DEF PauseSteps
<1>6. \A c \in Chans : Up(c, k)
  BY DEF Up
<1>7. Head1.ch \in Chans
  BY <1>1, Effects, ScriptFacts
<1>8. Late(k)' /\ \A c \in Chans : Agrees(c, k)'
  BY <1>1, <1>2, <1>5, <1>6, <1>7, CommandsKept
<1>9. ring' = ring /\ cpm' = cpm /\ hw' = hw
  BY <1>1, <1>5, Effects, MoreEffects
<1>10. Place(k, n)' /\ Stage(k, n)'
  BY <1>3, <1>4, <1>9 DEF Place, Stage, InUse, Running, Stopping
<1> QED
  BY <1>8, <1>10 DEF Handled

\* The steps that give back what both channels share.
LEMMA LastScript ==
  ASSUME NEW p
  PROVE  FreeingEv(p) \in Seq(LastSteps)
<1> DEFINE L == LastSteps
           a1 == SetPm("PREPARE_TERMINATE")
           a2 == Step("killTasklet", TX)
           a3 == Cmd("EV_DEALLOC", TX)
           a4 == Step("freeEv", TX)
           a5 == Step("irqOff", TX)
           a6 == SetPm("DISABLE")
<1>1. {a1, a2, a3, a4, a5, a6} \subseteq AnyStep
  <2>1. Steps(AllKinds) \subseteq AnyStep /\ a6 \in AnyStep
    BY DEF AnyStep
  <2>2. Plain(AllKinds) \subseteq AnyStep
    BY <2>1, StepSets
  <2>3. {"setPm", "killTasklet", "cmd", "freeEv", "irqOff"} \subseteq AllKinds
    BY DEF AllKinds, InitKinds, RunKinds
  <2>4. TX \in Chans /\ "PREPARE_TERMINATE" \in PmStates /\ RegAccessValid("PREPARE_TERMINATE")
    BY DEF Chans, PmStates, RegAccessValid
  <2>5. {a1, a2, a3, a4, a5} \subseteq Plain(AllKinds)
    BY <2>3, <2>4, PlainSteps, CmdNames
  <2> HIDE DEF a1, a2, a3, a4, a5, a6
  <2> QED
    BY <2>1, <2>2, <2>5
<1>2. /\ a1.ok = <<>> /\ a1.bad = <<>> /\ a1.do = "setPm"
      /\ a2.ok = <<>> /\ a2.bad = <<>> /\ a2.do = "killTasklet"
      /\ a3.ok = <<>> /\ a3.bad = <<>> /\ a3.do = "cmd" /\ a3.val = "EV_DEALLOC"
      /\ a4.ok = <<>> /\ a4.bad = <<>> /\ a4.do = "freeEv"
      /\ a5.ok = <<>> /\ a5.bad = <<>> /\ a5.do = "irqOff"
      /\ a6.ok = <<>> /\ a6.bad = <<>> /\ a6.do = "setPm"
  BY DEF SetPm, Step, Cmd
<1>3. FreeingEv(p) = <<a1, a2>> \o (IF p = "ACTIVE" THEN <<a3>> ELSE <<>>) \o <<a4>>
                       \o (IF p = "ACTIVE" THEN <<a5>> ELSE <<>>) \o <<a6>>
  BY DEF FreeingEv
<1> HIDE DEF a1, a2, a3, a4, a5, a6
<1>4. {a1, a2, a3, a4, a5, a6} \subseteq L
  BY <1>1, <1>2 DEF LastSteps
<1> HIDE DEF L
<1>5. /\ <<a1, a2>> \in Seq(L) /\ <<a3>> \in Seq(L) /\ <<a4>> \in Seq(L) /\ <<a5>> \in Seq(L)
      /\ <<a6>> \in Seq(L) /\ <<>> \in Seq(L)
  BY <1>4, EmptySeq
<1> DEFINE u == IF p = "ACTIVE" THEN <<a3>> ELSE <<>>
           v == IF p = "ACTIVE" THEN <<a5>> ELSE <<>>
           w == <<a1, a2>>
           x == <<a4>>
           y == <<a6>>
<1>6. u \in Seq(L) /\ v \in Seq(L) /\ w \in Seq(L) /\ x \in Seq(L) /\ y \in Seq(L)
  BY <1>5
<1>7. FreeingEv(p) = w \o u \o x \o v \o y
  BY <1>3
<1> HIDE DEF u, v, w, x, y
<1>8. w \o u \in Seq(L)
  BY <1>6, ConcatProperties
<1>9. w \o u \o x \in Seq(L)
  BY <1>6, <1>8, ConcatProperties
<1>10. w \o u \o x \o v \in Seq(L)
  BY <1>6, <1>9, ConcatProperties
<1>11. w \o u \o x \o v \o y \in Seq(L)
  BY <1>6, <1>10, ConcatProperties
<1> QED
  BY <1>7, <1>11 DEF L

\* A step of the handler that gives back what both channels share.
LEMMA LastKept ==
  ASSUME IInv, CtlNext, cl' = cl, cl = "freeTx", script \in Seq(LastSteps), Handled(9, 0)
  PROVE  Handled(9, 0)'
<1>1. Typed
  BY DEF IInv
<1>2. Late(9) /\ (\A c \in Chans : Agrees(c, 9)) /\ cpm[RX] = "DISABLE" /\ cpm[TX] = "DISABLE"
  BY DEF Handled, Stage
<1>3. script' \in Seq(LastSteps) /\ Head1 \in LastSteps
  <2>1. \A s \in LastSteps : s.ok = <<>> /\ s.bad = <<>> /\ s.do \notin {"others", "allocEv", "configIrq"}
    BY DEF LastSteps
  <2> HIDE DEF LastSteps
  <2> QED
    BY <1>1, <2>1, OneByOne
<1>4. /\ Head1.do \in {"setPm", "killTasklet", "freeEv", "irqOff", "cmd"}
      /\ Head1.do = "cmd" => Head1.val = "EV_DEALLOC"
  BY <1>3 DEF LastSteps
<1>5. Late(9)' /\ \A c \in Chans : Agrees(c, 9)'
  BY <1>1, <1>2, <1>4, CommandsKept
<1>6. cpm' = cpm
  BY <1>1, <1>4, Effects
<1>7. Place(9, 0)' /\ Stage(9, 0)'
  BY <1>2, <1>3, <1>6 DEF Place, Stage, InUse, Running, Stopping
<1> QED
  BY <1>5, <1>7 DEF Handled

\* A step of the handler that gives a channel back.
LEMMA FreeSteps ==
  ASSUME IInv, CtlNext, cl' = cl, NEW c \in Chans, cl = (IF c = RX THEN "freeRx" ELSE "freeTx"),
         Head1.do = "cmd" /\ sent => done /\ Confirmed(Head1),
         NEW k \in Nat, NEW n \in Nat, Handled(k, n), At(Freeing(c, "ACTIVE"), k, n)
  PROVE  \E k2 \in Nat, n2 \in Nat : Handled(k2, n2)'
<1> DEFINE s == Freeing(c, "ACTIVE")
<1>1. Typed /\ (cl = "freeRx" => ring[TX].on)
  BY DEF IInv, RingOn
<1>2. At(s, k, n) /\ Late(k) /\ \A d \in Chans : Agrees(d, k)
  BY DEF Handled
<1>3. /\ c = RX => cpm[TX] = "ACTIVE" /\ (k > 7 => cpm[RX] = "DISABLE")
      /\ c = TX => cpm[RX] = "DISABLE" /\ (k > 7 => cpm[TX] = "DISABLE")
  BY TwoChans DEF Handled, Stage
<1>4. /\ s \in Seq(AnyStep) /\ Len(s) = 8
      /\ s[1].do = "setCh" /\ s[1].ch = c
      /\ \A i \in {2, 3, 4} : s[i].do = "cmd" /\ s[i].ch = c /\ ~s[i].must
      /\ s[2].val = "STOP" /\ s[3].val = "RESET" /\ s[4].val = "DE_ALLOC"
      /\ s[4].ok = Wiped(c) /\ \A i \in {1, 2, 3, 5, 6, 7, 8} : s[i].ok = <<>>
      /\ s[5].do = "freeRing" /\ s[6].do = "freeVc"
      /\ s[7].do = "setCh" /\ s[7].ch = c /\ s[7].val = "DISABLE" /\ s[8].do = "others"
  BY FreeTable
<1> HIDE DEF s
<1>5. \A i \in 1 .. 8 : i = 4 \/ i \in {2, 3} \/ i \in {1, 5, 6, 7} \/ i = 8
  OBVIOUS
<1>6. \A i \in 1 .. Len(s) : s[i].ok \in Oks
  <2>1. s[4].ok \in Oks
    BY <1>4, TwoChans DEF Oks
  <2> QED
    BY <1>4, <1>5, <2>1 DEF Oks
<1>7. \A i \in 1 .. 8 : Len(s[i].ok) = IF i = 4 THEN 2 ELSE 0
  <2>1. Len(Wiped(c)) = 2
    BY DEF Wiped
  <2>2. Len(s[4].ok) = 2 /\ \A i \in {1, 2, 3, 5, 6, 7, 8} : Len(s[i].ok) = 0
    BY <1>4, <2>1
  <2> QED
    BY <1>5, <2>2
<1>8. Len(s) \in Nat /\ script # <<>> /\ Head1.ch \in Chans
  BY <1>1, <1>4, Effects, ScriptFacts
<1>9. s \in Seq(AnyStep)
  BY <1>4
<1>10. n = 0 => k \in 1 .. 8 /\ Head1 = s[k]
  BY <1>2, <1>4, <1>8, Position
<1>11. n > 0 => Head1.do \in {"resetRing", "wipe", "setCh"}
  <2> SUFFICES ASSUME n > 0 PROVE Head1.do \in {"resetRing", "wipe", "setCh"}
    OBVIOUS
  <2>1. /\ n \in Nat /\ k \in 2 .. Len(s) + 1 /\ n <= Len(s[k - 1].ok)
        /\ s[k - 1].ok \in Seq(AnyStep) => Head1 = s[k - 1].ok[Len(s[k - 1].ok) - n + 1]
    BY <1>2, <1>8, <1>9, Position
  <2>2. k - 1 \in 1 .. Len(s)
    BY <1>8, <2>1
  <2>3. s[k - 1].ok \in Oks
    BY <1>6, <2>2
  <2>4. PICK o \in Oks : o = s[k - 1].ok
    BY <2>3
  <2>5. o \in Seq(AnyStep) /\ Len(o) \in Nat
    BY OkFacts, LenProperties
  <2>6. Len(o) - n + 1 \in 1 .. Len(o) /\ Head1 = o[Len(o) - n + 1]
    BY <2>1, <2>4, <2>5
  <2> QED
    BY <2>6, OkFacts
\* What is left to show of where the handler is then.
<1>12. ASSUME NEW k2 \in Nat, NEW n2 \in Nat, At(s, k2, n2)' \/ (c = TX /\ k2 = 9 /\ n2 = 0 /\ script' \in Seq(LastSteps)),
             \A d \in Chans : d # c => cpm'[d] = cpm[d],
             k2 > 7 => cpm'[c] = "DISABLE",
             Late(k2)' /\ \A d \in Chans : Agrees(d, k2)'
      PROVE  Handled(k2, n2)'
  <2>1. Place(k2, n2)'
    BY <1>12, TwoChans DEF Place, s, InUse, Running, Stopping
  <2>2. Stage(k2, n2)'
    BY <1>3, <1>12, TwoChans DEF Stage, InUse, Running, Stopping
  <2> QED
    BY <1>12, <2>1, <2>2 DEF Handled
<1>13. \A d \in Chans, j \in Nat : Up(d, j) <=> (cl = "freeRx" /\ d = TX) \/ (d = c /\ j <= 3)
  BY TwoChans DEF Up, InUse, Running, Stopping
<1>14. CASE Head1.do = "others"
  <2>1. n = 0 /\ k = 8
    <3>1. CASE n = 0
      <4>1. k \in 1 .. 8 /\ Head1 = s[k]
        BY <1>10, <3>1
      <4>2. \A i \in 1 .. 7 : s[i].do # "others"
        <5>1. \A i \in 1 .. 7 : i = 1 \/ i \in {2, 3, 4} \/ i = 5 \/ i = 6 \/ i = 7
          OBVIOUS
        <5> QED
          BY <1>4, <5>1
      <4> QED
        BY <1>14, <3>1, <4>1, <4>2
    <3>2. CASE n # 0
      BY <1>2, <1>14, <1>11, <3>2 DEF At
    <3> QED
      BY <3>1, <3>2
  <2>2. Late(9)' /\ \A d \in Chans : Agrees(d, 9)'
    <3>1. \A d \in Chans : Up(d, 9) <=> Up(d, k)
      BY <1>13, <2>1
    <3>2. \A d \in Chans : ~(Up(d, 9) <=> Up(d, k)) =>
          /\ Head1.do = "cmd" /\ sent /\ Head1.ch = d
          /\ Head1.val = (IF Up(d, k) THEN "RESET" ELSE "START")
      BY <3>1
    <3> QED
      BY <1>1, <1>2, <1>14, <3>2, CommandsKept
  <2>3. script' = <<>> \/ (c = TX /\ script' \in Seq(LastSteps))
    <3>1. script' = IF \E d \in Chans : ring[d].on THEN <<>> ELSE FreeingEv(pm)
      BY <1>1, <1>14, Effects
    <3>2. FreeingEv(pm) \in Seq(LastSteps)
      BY LastScript
    <3> QED
      BY <1>1, <3>1, <3>2, TwoChans
  <2>4. At(s, 9, 0)' \/ (c = TX /\ script' \in Seq(LastSteps))
    <3>1. From(s, 9) = <<>>
      <4>1. Len(s) + 1 = 9
        BY <1>4
      <4>2. From(s, Len(s) + 1) = <<>>
        BY <1>4, NoneLeft
      <4> QED
        BY <4>1, <4>2
    <3>2. script' = <<>> => At(s, 9, 0)'
      BY <1>4, <3>1 DEF At, Rest
    <3> QED
      BY <2>3, <3>2
  <2>5. cpm' = cpm
    BY <1>1, <1>14, Effects
  <2>6. cpm'[c] = "DISABLE"
    BY <1>3, <2>1, <2>5, TwoChans
  <2>7. Handled(9, 0)'
    BY <1>12, <2>2, <2>4, <2>5, <2>6
  <2> QED
    BY <2>7
<1>15. CASE /\ n = 0 /\ k \in 1 .. Len(s) /\ Head1 = s[k]
            /\ Head1.do = "cmd" /\ ~sent /\ At(s, k, 0)'
  <2>1. k \in {2, 3, 4} /\ Head1.ch = c
    BY <1>4, <1>5, <1>15
  <2>2. Head1.val # "ALLOCATE" /\ (Head1.val = "RESET" => Up(Head1.ch, k))
    BY <1>4, <1>13, <1>15, <2>1
  <2>3. Late(k)' /\ \A d \in Chans : Agrees(d, k)'
    BY <1>1, <1>2, <1>15, <2>2, CommandsKept
  <2>4. cpm' = cpm
    BY <1>1, <1>15, Effects
  <2>5. Handled(k, 0)'
    BY <1>12, <1>15, <2>1, <2>3, <2>4
  <2> QED
    BY <2>5
<1>16. CASE /\ n = 0 /\ k \in 1 .. Len(s) /\ Head1 = s[k]
            /\ Head1.do = "cmd" /\ sent /\ Confirmed(Head1) /\ At(s, k + 1, Len(s[k].ok))'
  <2>1. k \in {2, 3, 4} /\ Head1.ch = c
    BY <1>4, <1>5, <1>16
  <2>2. \A d \in Chans : ~(Up(d, k + 1) <=> Up(d, k)) => d = c /\ k = 3
    BY <1>13, <2>1
  <2>3. k = 3 => Up(c, k) /\ ~Up(c, k + 1)
    BY <1>13, TwoChans
  <2>4. (k = 2 => Head1.val = "STOP") /\ (k = 3 => Head1.val = "RESET") /\ (k = 4 => Head1.val = "DE_ALLOC")
    BY <1>4, <1>16
  <2>5. \A d \in Chans : ~(Up(d, k + 1) <=> Up(d, k)) =>
          /\ Head1.do = "cmd" /\ sent /\ Head1.ch = d
          /\ Head1.val = (IF Up(d, k) THEN "RESET" ELSE "START")
    BY <1>16, <2>1, <2>2, <2>3, <2>4
  <2>6. Head1.do = "cmd" /\ sent /\ (Head1.val = "RESET" \/ (Head1.val = "START" /\ ~Up(Head1.ch, k))) =>
           /\ Confirmed(Head1) /\ ~(Up(Head1.ch, k + 1) <=> Up(Head1.ch, k))
           /\ Head1.val = "RESET" => Up(Head1.ch, k)
    BY <1>16, <2>1, <2>3, <2>4
  <2>7. Late(k + 1)' /\ \A d \in Chans : Agrees(d, k + 1)'
    BY <1>1, <1>2, <1>16, <2>5, <2>6, CommandsKept
  <2>8. cpm' = cpm
    BY <1>1, <1>16, Effects
  <2>9. k + 1 \in Nat /\ ~(k + 1 > 7) /\ Len(s[k].ok) \in Nat
    BY <1>7, <2>1
  <2>10. Handled(k + 1, Len(s[k].ok))'
    BY <1>12, <1>16, <2>7, <2>8, <2>9
  <2> QED
    BY <2>9, <2>10
<1>17. CASE /\ n = 0 /\ k \in 1 .. Len(s) /\ Head1 = s[k]
            /\ Head1.do \notin {"cmd", "others"} /\ At(s, k + 1, 0)'
  <2>1. k \in {1, 5, 6, 7}
    BY <1>4, <1>5, <1>17
  <2>2. \A d \in Chans : Up(d, k + 1) <=> Up(d, k)
    BY <1>13, <2>1
  <2>3. \A d \in Chans : ~(Up(d, k + 1) <=> Up(d, k)) =>
          /\ Head1.do = "cmd" /\ sent /\ Head1.ch = d
          /\ Head1.val = (IF Up(d, k) THEN "RESET" ELSE "START")
    BY <2>2
  <2>4. Late(k + 1)' /\ \A d \in Chans : Agrees(d, k + 1)'
    BY <1>1, <1>2, <1>17, <2>3, CommandsKept
  <2>5. /\ \A d \in Chans : d # c => cpm'[d] = cpm[d]
        /\ k = 7 => cpm'[c] = "DISABLE"
    <3>1. Head1.do = "setCh" => Head1.ch = c
      BY <1>4, <1>17, <2>1
    <3>2. k = 7 => Head1.do = "setCh" /\ Head1.ch = c /\ Head1.val = "DISABLE"
      BY <1>4, <1>17
    <3> QED
      BY <1>1, <3>1, <3>2, RingsKept
  <2>6. k + 1 \in Nat /\ (k + 1 > 7 => k = 7)
    BY <2>1
  <2>7. Handled(k + 1, 0)'
    BY <1>12, <1>17, <2>4, <2>5, <2>6
  <2> QED
    BY <2>6, <2>7
<1>18. CASE /\ n > 0 /\ k \in 2 .. Len(s) + 1 /\ n <= Len(s[k - 1].ok)
            /\ Head1 = s[k - 1].ok[Len(s[k - 1].ok) - n + 1]
            /\ Head1.do \in {"resetRing", "wipe", "setCh"} /\ At(s, k, n - 1)'
  <2>1. k = 5 /\ n \in {1, 2}
    <3>1. k - 1 \in 1 .. 8
      BY <1>4, <1>18
    <3>2. Len(s[k - 1].ok) = IF k - 1 = 4 THEN 2 ELSE 0
      BY <1>7, <3>1
    <3> QED
      BY <1>18, <3>1, <3>2
  <2>2. Late(k)' /\ \A d \in Chans : Agrees(d, k)'
    BY <1>1, <1>2, <1>18, CommandsKept
  <2>3. cpm' = cpm
    <3>1. s[k - 1].ok = <<Step("resetRing", c), Step("wipe", c)>>
      BY <1>4, <2>1 DEF Wiped
    <3>2. Head1 = Step("resetRing", c) \/ Head1 = Step("wipe", c)
      <4>1. PICK o : o = <<Step("resetRing", c), Step("wipe", c)>>
        OBVIOUS
      <4>2. Len(o) = 2 /\ o[1] = Step("resetRing", c) /\ o[2] = Step("wipe", c)
        BY <4>1
      <4>3. Head1 = o[Len(o) - n + 1]
        BY <1>18, <3>1, <4>1
      <4> QED
        BY <2>1, <4>2, <4>3
    <3>3. Head1.do # "setCh"
      BY <3>2, Fields
    <3> QED
      BY <1>1, <3>3, Effects
  <2>4. n - 1 \in Nat
    BY <2>1
  <2>5. Handled(k, n - 1)'
    BY <1>12, <1>18, <2>1, <2>2, <2>3, <2>4
  <2> QED
    BY <2>4, <2>5
<1>19. CASE Head1.do # "others"
  <2>1. Head1.do = "cmd" => ~Head1.must \/ n > 0
    <3>1. CASE n = 0
      <4>1. k \in 1 .. 8 /\ Head1 = s[k]
        BY <1>10, <3>1
      <4> QED
        BY <1>4, <1>5, <4>1
    <3> QED
      BY <3>1
  <2>2. Head1.do \in {"allocEv", "configIrq"} => n > 0
    <3>1. CASE n = 0
      <4>1. k \in 1 .. 8 /\ Head1 = s[k]
        BY <1>10, <3>1
      <4>2. \A i \in 1 .. 8 : s[i].do \notin {"allocEv", "configIrq"}
        <5>1. \A i \in 1 .. 8 : i = 1 \/ i \in {2, 3, 4} \/ i = 5 \/ i = 6 \/ i = 7 \/ i = 8
          OBVIOUS
        <5> QED
          BY <1>4, <5>1
      <4> QED
        BY <4>1, <4>2
    <3> QED
      BY <3>1
  <2>3. Head1.do \in {"allocEv", "configIrq"} \/ (Head1.do = "cmd" /\ Head1.must) => ret'
    BY <1>11, <2>1, <2>2
  <2>4. \/ /\ n = 0 /\ k \in 1 .. Len(s) /\ Head1 = s[k]
           /\ \/ Head1.do = "cmd" /\ ~sent /\ At(s, k, 0)'
              \/ Head1.do = "cmd" /\ sent /\ done /\ Confirmed(Head1) /\ At(s, k + 1, Len(s[k].ok))'
              \/ Head1.do = "cmd" /\ sent /\ ~(done /\ Confirmed(Head1)) /\ ~Head1.must /\ At(s, k + 1, 0)'
              \/ Head1.do # "cmd" /\ At(s, k + 1, 0)'
        \/ /\ n \in Nat /\ n > 0 /\ k \in 2 .. Len(s) + 1 /\ n <= Len(s[k - 1].ok)
           /\ Head1 = s[k - 1].ok[Len(s[k - 1].ok) - n + 1]
           /\ Head1.do \in {"resetRing", "wipe", "setCh"} /\ At(s, k, n - 1)'
    BY <1>1, <1>2, <1>4, <1>6, <1>19, <2>3, Advance
  <2> QED
    BY <1>15, <1>16, <1>17, <1>18, <1>19, <2>4
<1> QED
  BY <1>14, <1>19

-----------------------------------------------------------------------------
(* Steps that leave the transfers alone *)

\* A channel whose pointers are kept or made to agree has nothing new to do.
LEMMA CalmRings ==
  ASSUME UNCHANGED <<cl, cur, slot>>,
         \A c \in Chans : (hw'[c].at = hw[c].at /\ hw'[c].db = hw[c].db) \/ hw'[c].at = hw'[c].db,
         hw'[RX].links \in {hw[RX].links, 0}
  PROVE  (Idle => Idle') /\ \A c \in Chans : Arc(c) => Arc(c)'
<1>1. ASSUME NEW c \in Chans PROVE Settled(c) => Settled(c)'
  BY DEF Settled
<1>2. Idle => Idle'
  BY <1>1, TwoChans DEF Idle
<1>3. ASSUME NEW c \in Chans, Arc(c), ~Settled(c)' PROVE Arc(c)'
  <2>1. ~Settled(c) /\ hw'[c].at = hw[c].at /\ hw'[c].db = hw[c].db
    BY <1>3 DEF Settled
  <2> QED
    BY <1>3, <2>1 DEF Arc
<1>4. ASSUME NEW c \in Chans, Settled(c)' PROVE Arc(c)'
  BY <1>4 DEF Arc
<1> QED
  BY <1>2, <1>3, <1>4

LEMMA SortedKept ==
  ASSUME NEW c \in Chans, Sorted(c), vc'[c] = vc[c], cur' = cur, Settled(c) => Settled(c)',
         tk.pc = "unlink" => tk' = tk,
         sig = "none" /\ cl \in Busy => sig' = "none" /\ cl' \in Busy
  PROVE  Sorted(c)'
<1>1. Reads' <=> Reads
  BY DEF Reads
<1>2. \A i, j \in DOMAIN vc'[c].issued : i < j => vc'[c].issued[i].x < vc'[c].issued[j].x
  BY DEF Sorted
<1>3. ASSUME NEW i \in DOMAIN vc[c].issued, NEW d, d = vc[c].issued[i]
      PROVE  /\ d.x <= cur'.x /\ (vc'[c].submitted # <<>> => d.x < cur'.x)
             /\ d.x = cur'.x => d.cb = ((c = RX) = Reads')
             /\ d.cb => \/ tk'.pc = "unlink" /\ tk'.ch = c /\ tk'.x = d.x
                        \/ d.x = cur'.x /\ sig' = "none" /\ cl' \in Busy
  <2>1. /\ d.x <= cur.x /\ (vc[c].submitted # <<>> => d.x < cur.x)
        /\ d.x = cur.x => d.cb = ((c = RX) = Reads)
        /\ d.cb => \/ tk.pc = "unlink" /\ tk.ch = c /\ tk.x = d.x
                   \/ d.x = cur.x /\ sig = "none" /\ cl \in Busy
    BY <1>3 DEF Sorted
  <2> QED
    BY <1>1, <2>1
<1>4. ~Settled(c)' => \E i \in DOMAIN vc'[c].issued : vc'[c].issued[i].x = cur'.x
  BY DEF Sorted
<1> QED
  BY <1>2, <1>3, <1>4 DEF Sorted

LEMMA CalmTransfers ==
  ASSUME UNCHANGED <<cl, cur, sig, vc, evs, tk>>,
         \A c \in Chans : (hw'[c].at = hw[c].at /\ hw'[c].db = hw[c].db) \/ hw'[c].at = hw'[c].db,
         hw'[RX].links \in {hw[RX].links, 0}, Transfers
  PROVE  Transfers'
<1>1. ASSUME NEW c \in Chans PROVE Settled(c) => Settled(c)'
  BY DEF Settled
<1>2. (Reads' <=> Reads) /\ (Idle => Idle')
  BY <1>1, TwoChans DEF Idle, Reads
<1>3. Linked'
  BY <1>1, <1>2, TwoChans DEF Transfers, Linked
<1>4. Prepared'
  BY <1>2 DEF Transfers, Prepared
<1>5. ASSUME NEW c \in Chans PROVE Sorted(c)'
  BY <1>1, SortedKept DEF Transfers
<1>6. ASSUME NEW c \in Chans PROVE Events(c)'
  <2>1. \A i \in DOMAIN evs : Live(i, c)' <=> Live(i, c)
    BY DEF Live
  <2>2. hw[RX].links = 0 => hw'[RX].links = 0
    OBVIOUS
  <2>3. Events(c)
    BY DEF Transfers
  <2>4. \A i, j \in DOMAIN evs' : i < j /\ Live(i, c)' /\ Live(j, c)' => evs'[i].x < evs'[j].x
    BY <2>1, <2>3 DEF Events
  <2>5. ASSUME NEW i \in DOMAIN evs', Live(i, c)'
        PROVE  /\ \E j \in DOMAIN vc'[c].issued : vc'[c].issued[j].x = evs'[i].x
               /\ evs'[i].x = cur'.x => /\ cl' \notin {"issueRx", "issueTx"} /\ Settled(c)'
                                        /\ c = RX => Reads' /\ Settled(TX)' /\ hw'[RX].links = 0
    BY <1>1, <1>2, <2>1, <2>2, <2>3, <2>5, TwoChans DEF Events
  <2> QED
    BY <2>4, <2>5 DEF Events
<1>7. Answered' /\ Taken'
  BY <1>2 DEF Transfers, Answered, Taken
<1> QED
  BY <1>3, <1>4, <1>5, <1>6, <1>7 DEF Transfers

\* When all descriptors of a channel that has nothing to do are taken, its events are stale.
LEMMA WipedTransfers ==
  ASSUME Typed, Transfers, NEW c \in Chans, Settled(c), cl \notin {"issueRx", "issueTx"},
         UNCHANGED <<cl, cur, sig, hw, tk>>, tk.pc = "off",
         vc' = [vc EXCEPT ![c] = NoDescs], evs' = Stale(c)
  PROVE  Transfers'
<1>1. /\ vc \in [Chans -> Lists] /\ evs \in Seq(Event)
  BY DEF Typed, TypedRings
<1>2. \A d \in Chans : vc'[d] = IF d = c THEN NoDescs ELSE vc[d]
  BY <1>1
<1>3. /\ DOMAIN evs' = DOMAIN evs
      /\ \A i \in DOMAIN evs : evs'[i] = IF evs[i].ch = c THEN [evs[i] EXCEPT !.type = "stale"] ELSE evs[i]
  BY <1>1 DEF Stale
<1>4. \A i \in DOMAIN evs : evs[i] \in Event
  BY <1>1, Elems
<1>5. ASSUME NEW i \in DOMAIN evs
      PROVE  /\ evs'[i].x = evs[i].x /\ evs'[i].ch = evs[i].ch
             /\ evs'[i].type = IF evs[i].ch = c THEN "stale" ELSE evs[i].type
  BY <1>3, <1>4 DEF Event
<1>6. (Reads' <=> Reads) /\ (Idle' <=> Idle) /\ \A d \in Chans : Settled(d)' <=> Settled(d)
  BY DEF Reads, Idle, Settled
<1>7. Linked'
  BY <1>6, TwoChans DEF Transfers, Linked
<1>8. Prepared'
  BY <1>2, TwoChans DEF Transfers, Prepared, NoDescs
<1>9. ASSUME NEW d \in Chans PROVE Sorted(d)'
  <2>1. CASE d = c
    <3>1. vc'[d].issued = <<>> /\ Settled(d)'
      BY <1>2, <1>6, <2>1 DEF NoDescs
    <3> QED
      BY <3>1 DEF Sorted
  <2>2. CASE d # c
    <3>1. Sorted(d) /\ vc'[d] = vc[d]
      BY <1>2, <2>2 DEF Transfers
    <3> QED
      BY <1>6, <3>1, SortedKept
  <2> QED
    BY <2>1, <2>2
<1>10. ASSUME NEW d \in Chans PROVE Events(d)'
  <2>1. \A i \in DOMAIN evs : Live(i, d)' <=> Live(i, d) /\ d # c
    BY <1>5 DEF Live
  <2>2. CASE d = c
    BY <1>3, <2>1, <2>2 DEF Events
  <2>3. CASE d # c
    <3>1. Events(d) /\ vc'[d] = vc[d]
      BY <1>2, <2>3 DEF Transfers
    <3>2. \A i, j \in DOMAIN evs' : i < j /\ Live(i, d)' /\ Live(j, d)' => evs'[i].x < evs'[j].x
      BY <1>3, <1>5, <2>1, <2>3, <3>1 DEF Events
    <3>3. ASSUME NEW i \in DOMAIN evs', Live(i, d)'
          PROVE  /\ \E j \in DOMAIN vc'[d].issued : vc'[d].issued[j].x = evs'[i].x
                 /\ evs'[i].x = cur'.x => /\ cl' \notin {"issueRx", "issueTx"} /\ Settled(d)'
                                          /\ d = RX => Reads' /\ Settled(TX)' /\ hw'[RX].links = 0
      <4>1. i \in DOMAIN evs /\ Live(i, d) /\ evs'[i].x = evs[i].x
        BY <1>3, <1>5, <2>1, <3>3
      <4> QED
        BY <1>6, <3>1, <4>1, TwoChans DEF Events
    <3> QED
      BY <3>2, <3>3 DEF Events
  <2> QED
    BY <2>2, <2>3
<1>11. Answered' /\ Taken'
  BY <1>6 DEF Transfers, Answered, Taken, Held
<1> QED
  BY <1>7, <1>8, <1>9, <1>10, <1>11 DEF Transfers

\* Only a channel that has been reset is wiped while the channels are in use.
LEMMA WipesReset ==
  ASSUME IInv, CtlNext, cl \in Running, Head1.do = "wipe", NEW k \in Nat, NEW n \in Nat, Handled(k, n)
  PROVE  cl \in Stopping /\ Head1.ch \in Chans /\ Settled(Head1.ch)
<1> DEFINE s == Terminating
<1>1. Typed /\ script # <<>>
  BY Effects DEF IInv
<1>2. cl \in Stopping
  <2> SUFFICES ASSUME cl \in InUse PROVE FALSE
    BY DEF InUse
  <2>1. script \in Seq(PauseSteps)
    BY DEF Handled, Place
  <2>2. Head1 \in PauseSteps
    BY <1>1, <2>1, HeadTailProperties DEF Head1
  <2> QED
    BY <2>2 DEF PauseSteps
<1>3. At(s, k, n) /\ (cl = "terminateTx" => Cleared(k, n)) /\ (cl = "terminateRx" => Cleared(11, 0))
  BY <1>2 DEF Handled, Place, Stage
<1>4. /\ s \in Seq(AnyStep) /\ Len(s) = 10
      /\ s[1].do = "setCh" /\ s[3].do = "setCh" /\ s[6].do = "program" /\ s[8].do = "program"
      /\ \A i \in {2, 4, 5, 7, 9, 10} : s[i].do = "cmd"
      /\ \A i \in {1, 2, 3, 4, 6, 8} : s[i].ok = <<>>
      /\ s[5].ok = Wiped(TX) /\ s[7].ok = Wiped(RX)
      /\ s[9].ok = <<SetCh(TX, "ACTIVE")>> /\ s[10].ok = <<SetCh(RX, "ACTIVE")>>
  BY StopTable
<1> HIDE DEF s
<1>5. \A i \in 1 .. 10 : i \in {1, 2, 3, 4, 6, 8} \/ i = 5 \/ i = 7 \/ i = 9 \/ i = 10
  OBVIOUS
<1>6. n # 0
  <2> SUFFICES ASSUME n = 0 PROVE FALSE
    OBVIOUS
  <2>1. k \in 1 .. 10 /\ Head1 = s[k]
    BY <1>1, <1>3, <1>4, Position
  <2>2. s[k].do # "wipe"
    BY <1>4, <1>5, <2>1
  <2> QED
    BY <2>1, <2>2
<1>7. /\ k \in 2 .. 11 /\ n > 0 /\ n <= Len(s[k - 1].ok)
      /\ s[k - 1].ok \in Seq(AnyStep) => Head1 = s[k - 1].ok[Len(s[k - 1].ok) - n + 1]
  <2>1. s \in Seq(AnyStep) /\ Len(s) + 1 = 11
    BY <1>4
  <2>2. /\ k \in 2 .. Len(s) + 1 /\ n > 0 /\ n <= Len(s[k - 1].ok)
        /\ s[k - 1].ok \in Seq(AnyStep) => Head1 = s[k - 1].ok[Len(s[k - 1].ok) - n + 1]
    BY <1>1, <1>3, <1>6, <2>1, Position
  <2> QED
    BY <2>1, <2>2
<1>8. PICK o : o = s[k - 1].ok
  OBVIOUS
<1>9. k - 1 \in 1 .. 10
  BY <1>7
<1>10. o \in Oks
  BY <1>4, <1>5, <1>8, <1>9 DEF Oks
<1>11. o \in Seq(AnyStep) /\ Head1 = o[Len(o) - n + 1] /\ n <= Len(o)
  <2>1. o \in Seq(AnyStep)
    BY <1>10, OkFacts
  <2> QED
    BY <1>7, <1>8, <2>1
<1>12. ASSUME NEW c \in Chans, o = Wiped(c), Settled(c) PROVE Head1.ch \in Chans /\ Settled(Head1.ch)
  <2>1. Len(o) = 2 /\ o[1] = Step("resetRing", c) /\ o[2] = Step("wipe", c)
    BY <1>12 DEF Wiped
  <2>2. n \in {1, 2}
    BY <1>7, <1>11, <2>1
  <2>3. Head1.ch = c
    BY <1>11, <2>1, <2>2, Fields
  <2> QED
    BY <1>12, <2>3
<1>13. ASSUME NEW c \in Chans, o = <<SetCh(c, "ACTIVE")>> PROVE FALSE
  <2>1. Len(o) = 1 /\ o[1] = SetCh(c, "ACTIVE")
    BY <1>13
  <2>2. n = 1
    BY <1>7, <1>11, <2>1
  <2> QED
    BY <1>11, <2>1, <2>2, Fields
<1>14. o # <<>>
  BY <1>7, <1>11
<1>15. (k - 1 = 5 => Settled(TX)) /\ (k - 1 = 7 => Settled(RX))
  BY <1>2, <1>3, <1>9 DEF Cleared, Zero, Settled, Stopping
<1>16. k - 1 = 5 \/ k - 1 = 7
  BY <1>4, <1>5, <1>8, <1>9, <1>13, <1>14, TwoChans
<1> QED
  BY <1>2, <1>4, <1>8, <1>12, <1>15, <1>16, TwoChans

\* The handler at work keeps the invariant.
LEMMA ControlsKeep ==
  ASSUME IInv, RInv, Controls
  PROVE  RInv'
<1> SUFFICES ASSUME ~dirty'
             PROVE  /\ (cl' \notin Busy => Idle') /\ \A c \in Chans : Arc(c)'
                    /\ Clean' => \E k \in Nat, n \in Nat : Handled(k, n)'
                    /\ Clean' /\ cl' \in Running => Transfers'
  BY DEF RInv
<1>1. /\ Typed /\ CtlNext /\ UNCHANGED <<cl, cur, sig, grabs, pauses>> /\ ~dirty /\ ~ReleaseFails
      /\ script # <<>>
  BY Effects DEF IInv, Controls
<1>2. UNCHANGED <<slot, tk>>
  BY <1>1, Effects, MoreEffects
<1>3. /\ \A c \in Chans : (hw'[c].at = hw[c].at /\ hw'[c].db = hw[c].db) \/ hw'[c].at = hw'[c].db
      /\ hw'[RX].links \in {hw[RX].links, 0}
  BY <1>1, Programmed, TwoChans
<1>4. (cl' \notin Busy => Idle') /\ \A c \in Chans : Arc(c)'
  BY <1>1, <1>2, <1>3, CalmRings DEF RInv
<1>5. Clean' => Clean
  <2>1. ret' => ret
    <3>1. Head1.do \notin {"cmd", "allocEv", "configIrq"} => ret' = ret
      BY <1>1, MoreEffects
    <3>2. Head1.do \in {"allocEv", "configIrq"} /\ ret' => ret
      BY <1>1, MoreEffects
    <3>3. Head1.do = "cmd" /\ ~sent => ret' = ret
      BY <1>1, MoreEffects
    <3>4. Head1.do = "cmd" /\ sent => ret' = (ret /\ ((done /\ Confirmed(Head1)) \/ ~Head1.must))
      BY <1>1, MoreEffects
    <3> QED
      BY <3>1, <3>2, <3>3, <3>4
  <2> QED
    BY <1>1, <2>1 DEF Clean
<1>6. ASSUME Clean' PROVE \E k \in Nat, n \in Nat : Handled(k, n)'
  <2>1. PICK k \in Nat, n \in Nat : Handled(k, n)
    BY <1>1, <1>5, <1>6 DEF RInv
  <2>2. CASE cl \in {"off", "grabTx"}
    BY <1>1, <2>1, <2>2 DEF Handled, Place
  <2>3. CASE cl = "grabRx"
    <3>1. ret' /\ Idle
      BY <1>1, <1>6, <2>3 DEF Clean, RInv, Busy
    <3> QED
      BY <1>1, <2>1, <2>3, <3>1, GrabSteps
  <2>4. CASE cl \in InUse
    BY <1>1, <2>1, <2>4, UseSteps
  <2>5. CASE cl \in Stopping
    <3>1. ret'
      BY <1>1, <1>6, <2>5 DEF Clean
    <3> QED
      BY <1>1, <2>1, <2>5, <3>1, StopSteps
  <2>6. CASE cl \in {"freeRx", "freeTx"}
    <3>1. Head1.do = "cmd" /\ sent => done /\ Confirmed(Head1)
      <4>1. Head1.do = "cmd" /\ sent => ~sent'
        BY <1>1, MoreEffects
      <4> QED
        BY <1>1, <2>6, <4>1 DEF ReleaseFails
    <3>2. CASE cl = "freeRx"
      <4>1. At(Freeing(RX, "ACTIVE"), k, n)
        BY <2>1, <3>2 DEF Handled, Place
      <4> QED
        BY <1>1, <2>1, <3>1, <3>2, <4>1, FreeSteps, TwoChans
    <3>3. CASE cl = "freeTx" /\ At(Freeing(TX, "ACTIVE"), k, n)
      BY <1>1, <2>1, <3>1, <3>3, FreeSteps, TwoChans
    <3>4. CASE cl = "freeTx" /\ k = 9 /\ n = 0 /\ script \in Seq(LastSteps)
      <4>1. Handled(9, 0)'
        BY <1>1, <2>1, <3>4, LastKept
      <4> QED
        BY <4>1
    <3> QED
      BY <2>1, <2>6, <3>2, <3>3, <3>4 DEF Handled, Place
  <2>7. cl \in {"off", "grabTx"} \/ cl = "grabRx" \/ cl \in InUse \/ cl \in Stopping \/ cl \in {"freeRx", "freeTx"}
    BY <1>1 DEF Typed, TypedClient, InUse, Running
  <2> QED
    BY <2>2, <2>3, <2>4, <2>5, <2>6, <2>7
<1>7. ASSUME Clean', cl' \in Running PROVE Transfers'
  <2>1. PICK k \in Nat, n \in Nat : Handled(k, n)
    BY <1>1, <1>5, <1>7 DEF RInv
  <2>2. Transfers
    BY <1>1, <1>5, <1>7 DEF RInv
  <2>3. CASE Head1.do = "wipe"
    <3>1. cl \in Stopping /\ Head1.ch \in Chans /\ Settled(Head1.ch)
      BY <1>1, <1>7, <2>1, <2>3, WipesReset
    <3>2. vc' = [vc EXCEPT ![Head1.ch] = NoDescs] /\ evs' = Stale(Head1.ch) /\ tk.pc = "off"
      BY <1>1, <2>3, Effects
    <3>3. hw' = hw
      BY <1>1, <2>3, MoreEffects
    <3>4. cl \notin {"issueRx", "issueTx"}
      BY <3>1 DEF Stopping
    <3>5. PICK c \in Chans : c = Head1.ch
      BY <3>1
    <3>6. Settled(c) /\ vc' = [vc EXCEPT ![c] = NoDescs] /\ evs' = Stale(c)
      BY <3>1, <3>2, <3>5
    <3> QED
      BY <1>1, <1>2, <2>2, <3>2, <3>3, <3>4, <3>6, WipedTransfers
  <2>4. CASE Head1.do # "wipe"
    <3>1. Head1.do \notin {"freeVc", "allocEv", "freeEv"}
      <4>1. script \in Seq(Steps(RunKinds)) /\ "others" \notin RunKinds /\ "configIrq" \notin RunKinds
        BY <1>1, <1>7 DEF IInv, Handlers, RunKinds
      <4>2. Head1 \in Steps(RunKinds)
        BY <1>1, <4>1, KindsKept
      <4> QED
        BY <4>2 DEF Steps, RunKinds
    <3>2. vc' = vc /\ evs' = evs
      BY <1>1, <2>4, <3>1, Effects
    <3> QED
      BY <1>1, <1>2, <1>3, <2>2, <3>2, CalmTransfers
  <2> QED
    BY <2>3, <2>4
<1> QED
  BY <1>4, <1>6, <1>7

-----------------------------------------------------------------------------
(* The interrupt handler, and the hardware that obeys *)

\* The interrupt handler may read the state of a channel late.
LEMMA IrqKeepsRings ==
  ASSUME IInv, RInv, HandleIrq, UNCHANGED clVars
  PROVE  RInv'
<1> SUFFICES ASSUME ~dirty'
             PROVE  /\ (cl' \notin Busy => Idle') /\ \A c \in Chans : Arc(c)'
                    /\ Clean' => \E k \in Nat, n \in Nat : Handled(k, n)'
                    /\ Clean' /\ cl' \in Running => Transfers'
  BY DEF RInv
<1>1. /\ UNCHANGED <<cl, cur, sig, dirty, slot, ring, vc, script, sent, ret, cpm, tk, hw, cmds, evs>>
      /\ chState' = [c \in Chans |-> IF c \in stat.ch THEN ReadState(c) ELSE chState[c]]
  BY DEF HandleIrq, clVars, pmVars, listVars, ctlVars, hwVars
<1>2. (cl' \notin Busy => Idle') /\ \A c \in Chans : Arc(c)'
  BY <1>1, CalmRings DEF RInv
<1>3. Clean' <=> Clean
  BY <1>1 DEF Clean
<1>4. ASSUME Clean' PROVE \E k \in Nat, n \in Nat : Handled(k, n)'
  <2>1. PICK k \in Nat, n \in Nat : Handled(k, n)
    BY <1>1, <1>3, <1>4 DEF RInv
  <2>2. Place(k, n)'
    BY <1>1, <2>1 DEF Handled, Place, At
  <2>3. Late(k)' /\ Stage(k, n)'
    <3>1. Late(k)'
      BY <1>1, <2>1 DEF Handled, Late, Up, Sent, Head1
    <3>2. \A i, j : (Cleared(i, j) => Cleared(i, j)') /\ (Turned(i, j) => Turned(i, j)')
      BY <1>1 DEF Cleared, Turned, Zero, Still
    <3>3. \A c \in Chans : (Still(c)' <=> Still(c)) /\ (Zero(c)' <=> Zero(c))
      BY <1>1 DEF Still, Zero
    <3>4. Stage(k, n)
      BY <2>1 DEF Handled
    <3> HIDE DEF Cleared, Turned
    <3> QED
      BY <1>1, <3>1, <3>2, <3>3, <3>4, TwoChans DEF Stage
  <2>4. ASSUME NEW c \in Chans PROVE Agrees(c, k)'
    <3>1. Agrees(c, k) /\ (Up(c, k)' <=> Up(c, k)) /\ (HwUp(c)' <=> HwUp(c)) /\ (Zero(c)' <=> Zero(c))
      BY <1>1, <2>1 DEF Handled, Up, HwUp, Zero
    <3>2. \A cmd : Sent(cmd, c)' <=> Sent(cmd, c)
      BY <1>1 DEF Sent, Head1
    <3>3. chState'[c] \in {chState[c], hw[c].state, "NOT_ALLOCATED"}
      BY <1>1 DEF ReadState
    <3>4. (HwUp(c) => hw[c].state # "ALLOCATED") /\ (~HwUp(c) => hw[c].state # "STARTED")
      BY DEF HwUp
    <3>5. CASE Up(c, k)
      BY <1>1, <3>1, <3>2, <3>3, <3>4, <3>5 DEF Agrees
    <3>6. CASE ~Up(c, k)
      BY <1>1, <3>1, <3>2, <3>3, <3>4, <3>6 DEF Agrees
    <3> QED
      BY <3>5, <3>6
  <2> QED
    BY <2>2, <2>3, <2>4 DEF Handled
<1>5. Clean' /\ cl' \in Running => Transfers'
  BY <1>1, <1>3, CalmTransfers DEF RInv
<1> QED
  BY <1>2, <1>4, <1>5

\* What a command does to a channel.
LEMMA ObeyedFacts ==
  ASSUME NEW h \in [state : ChStates, ctx : BOOLEAN, at : Slots, db : Slots, links : Nat],
         NEW cmd \in Cmds, IsChanCmd(cmd)
  PROVE  LET g == Obeyed(h, cmd)
             U == {"STARTED", "STOPPED", "STOP_IN_PROC"}
         IN  /\ cmd \in {"STOP", "DE_ALLOC", "START"} => g.at = h.at /\ g.db = h.db /\ g.links = h.links
             /\ cmd \in {"ALLOCATE", "RESET"} => g.at = 0 /\ g.db = 0 /\ g.links = 0 /\ g.state = "ALLOCATED"
             /\ cmd \in {"STOP", "DE_ALLOC"} => (g.state \in U <=> h.state \in U)
             /\ cmd = "START" /\ h.state \in U => g.state \in U
<1>1. cmd \in {"ALLOCATE", "START", "STOP", "RESET", "DE_ALLOC"}
  BY CmdNames DEF IsChanCmd
<1>2. CASE cmd = "ALLOCATE" \/ cmd = "RESET"
  <2>1. Obeyed(h, cmd) = [IdleHw EXCEPT !.state = "ALLOCATED"]
    BY <1>2 DEF Obeyed
  <2> QED
    BY <1>2, <2>1 DEF IdleHw
<1>3. CASE cmd = "START"
  <2>1. Obeyed(h, cmd) = IF h.state \in {"ALLOCATED", "STOPPED"} THEN [h EXCEPT !.state = "STARTED"] ELSE h
    BY <1>3 DEF Obeyed
  <2> QED
    BY <1>3, <2>1
<1>4. CASE cmd = "STOP"
  <2>1. Obeyed(h, cmd) = IF h.state = "STARTED" THEN [h EXCEPT !.state = "STOP_IN_PROC"] ELSE h
    BY <1>4 DEF Obeyed
  <2> QED
    BY <1>4, <2>1
<1>5. CASE cmd = "DE_ALLOC"
  <2>1. Obeyed(h, cmd) = [h EXCEPT !.ctx = FALSE]
    BY <1>5 DEF Obeyed
  <2> QED
    BY <1>5, <2>1
<1> QED
  BY <1>1, <1>2, <1>3, <1>4, <1>5

\* What a command, or the end of a stop, does to the channels.
LEMMA HwEffects ==
  ASSUME Typed, HwCommand \/ HwStopped
  PROVE  /\ UNCHANGED <<slot, ring, vc, script, sent, ret, cpm, chState, tk, evs>>
         /\ \A c \in Chans :
              \/ /\ hw'[c].at = hw[c].at /\ hw'[c].db = hw[c].db /\ hw'[c].links = hw[c].links
                 /\ HwUp(c)' <=> HwUp(c)
              \/ /\ HwCommand /\ cmds # <<>> /\ Head(cmds).ch = c
                 /\ \/ /\ Head(cmds).cmd = "START" /\ (HwUp(c) => HwUp(c)')
                       /\ hw'[c].at = hw[c].at /\ hw'[c].db = hw[c].db /\ hw'[c].links = hw[c].links
                    \/ Head(cmds).cmd \in {"ALLOCATE", "RESET"} /\ ~HwUp(c)' /\ Zero(c)' /\ hw'[c].links = 0
<1> DEFINE H == [state : ChStates, ctx : BOOLEAN, at : Slots, db : Slots, links : Nat]
<1>1. hw \in [Chans -> H] /\ cmds \in Seq(Command)
  BY DEF Typed, TypedRings
<1>2. CASE HwStopped
  <2>1. UNCHANGED <<slot, ring, vc, script, sent, ret, cpm, chState, tk, evs>>
    BY <1>2 DEF HwStopped, HwFrame, pmVars, listVars, ctlVars
  <2>2. PICK d \in Chans : hw[d].state = "STOP_IN_PROC" /\ hw' = [hw EXCEPT ![d].state = "STOPPED"]
    BY <1>2 DEF HwStopped
  <2>3. ASSUME NEW c \in Chans
        PROVE  /\ hw'[c].at = hw[c].at /\ hw'[c].db = hw[c].db /\ hw'[c].links = hw[c].links
               /\ HwUp(c)' <=> HwUp(c)
    <3>1. CASE c = d
      BY <1>1, <2>2, <3>1 DEF HwUp
    <3>2. CASE c # d
      BY <1>1, <2>2, <3>2 DEF HwUp
    <3> QED
      BY <3>1, <3>2
  <2> QED
    BY <2>1, <2>3
<1>3. CASE HwCommand
  <2>1. UNCHANGED <<slot, ring, vc, script, sent, ret, cpm, chState, tk, evs>> /\ cmds # <<>>
    BY <1>3 DEF HwCommand, HwFrame, pmVars, listVars, ctlVars
  <2>2. PICK e \in Command : e = Head(cmds)
    BY <1>1, <2>1, HeadTailProperties
  <2>3. e.cmd \in Cmds /\ e.ch \in Chans
    BY DEF Command
  <2>4. CASE ~IsChanCmd(e.cmd)
    <3>1. hw' = hw
      BY <1>3, <2>2, <2>4 DEF HwCommand
    <3> QED
      BY <2>1, <3>1 DEF HwUp
  <2>5. CASE IsChanCmd(e.cmd)
    <3>1. hw' = [hw EXCEPT ![e.ch] = Obeyed(@, e.cmd)]
      BY <1>3, <2>2, <2>5 DEF HwCommand
    <3>2. \A c \in Chans : hw'[c] = IF c = e.ch THEN Obeyed(hw[c], e.cmd) ELSE hw[c]
      BY <1>1, <2>3, <3>1
    <3>3. ASSUME NEW c \in Chans, c # e.ch
          PROVE  /\ hw'[c].at = hw[c].at /\ hw'[c].db = hw[c].db /\ hw'[c].links = hw[c].links
                 /\ HwUp(c)' <=> HwUp(c)
      BY <3>2, <3>3 DEF HwUp
    <3>4. e.cmd \in {"ALLOCATE", "START", "STOP", "RESET", "DE_ALLOC"}
      BY <2>3, <2>5, CmdNames DEF IsChanCmd
    <3>5. PICK c \in Chans : c = e.ch
      BY <2>3
    <3>6. hw[c] \in H /\ hw'[c] = Obeyed(hw[c], e.cmd)
      BY <1>1, <3>2, <3>5
    <3>7. /\ e.cmd \in {"STOP", "DE_ALLOC", "START"} =>
               hw'[c].at = hw[c].at /\ hw'[c].db = hw[c].db /\ hw'[c].links = hw[c].links
          /\ e.cmd \in {"ALLOCATE", "RESET"} =>
               hw'[c].at = 0 /\ hw'[c].db = 0 /\ hw'[c].links = 0 /\ hw'[c].state = "ALLOCATED"
          /\ e.cmd \in {"STOP", "DE_ALLOC"} => (HwUp(c)' <=> HwUp(c))
          /\ e.cmd = "START" /\ HwUp(c) => HwUp(c)'
      BY <2>3, <2>5, <3>6, ObeyedFacts DEF HwUp
    <3>8. e.cmd \in {"ALLOCATE", "RESET"} => ~HwUp(c)' /\ Zero(c)'
      BY <3>7 DEF HwUp, Zero
    <3>9. \/ /\ hw'[c].at = hw[c].at /\ hw'[c].db = hw[c].db /\ hw'[c].links = hw[c].links
             /\ HwUp(c)' <=> HwUp(c)
          \/ /\ HwCommand /\ cmds # <<>> /\ Head(cmds).ch = c
             /\ \/ /\ Head(cmds).cmd = "START" /\ (HwUp(c) => HwUp(c)')
                   /\ hw'[c].at = hw[c].at /\ hw'[c].db = hw[c].db /\ hw'[c].links = hw[c].links
                \/ Head(cmds).cmd \in {"ALLOCATE", "RESET"} /\ ~HwUp(c)' /\ Zero(c)' /\ hw'[c].links = 0
      BY <1>3, <2>1, <2>2, <3>4, <3>5, <3>7, <3>8
    <3> QED
      BY <2>1, <3>3, <3>5, <3>9
  <2> QED
    BY <2>4, <2>5
<1> QED
  BY <1>2, <1>3

\* The hardware may obey a command late.
LEMMA ObeyKeeps ==
  ASSUME IInv, RInv, HwCommand \/ HwStopped, UNCHANGED clVars
  PROVE  RInv'
<1> SUFFICES ASSUME ~dirty'
             PROVE  /\ (cl' \notin Busy => Idle') /\ \A c \in Chans : Arc(c)'
                    /\ Clean' => \E k \in Nat, n \in Nat : Handled(k, n)'
                    /\ Clean' /\ cl' \in Running => Transfers'
  BY DEF RInv
<1>1. /\ Typed /\ UNCHANGED <<cl, cur, sig, dirty>>
      /\ UNCHANGED <<slot, ring, vc, script, sent, ret, cpm, chState, tk, evs>>
  BY HwEffects DEF IInv, clVars
<1>2. \A c \in Chans :
        \/ /\ hw'[c].at = hw[c].at /\ hw'[c].db = hw[c].db /\ hw'[c].links = hw[c].links
           /\ HwUp(c)' <=> HwUp(c)
        \/ /\ HwCommand /\ cmds # <<>> /\ Head(cmds).ch = c
           /\ \/ /\ Head(cmds).cmd = "START" /\ (HwUp(c) => HwUp(c)')
                 /\ hw'[c].at = hw[c].at /\ hw'[c].db = hw[c].db /\ hw'[c].links = hw[c].links
              \/ Head(cmds).cmd \in {"ALLOCATE", "RESET"} /\ ~HwUp(c)' /\ Zero(c)' /\ hw'[c].links = 0
  BY <1>1, HwEffects
<1>3. /\ \A c \in Chans : (hw'[c].at = hw[c].at /\ hw'[c].db = hw[c].db) \/ hw'[c].at = hw'[c].db
      /\ hw'[RX].links \in {hw[RX].links, 0}
  BY <1>2, TwoChans DEF Zero
<1>4. (cl' \notin Busy => Idle') /\ \A c \in Chans : Arc(c)'
  BY <1>1, <1>3, CalmRings DEF RInv
<1>5. Clean' <=> Clean
  BY <1>1 DEF Clean
<1>6. Clean' /\ cl' \in Running => Transfers'
  BY <1>1, <1>3, <1>5, CalmTransfers DEF RInv
<1>7. ASSUME Clean' PROVE \E k \in Nat, n \in Nat : Handled(k, n)'
  <2>1. PICK k \in Nat, n \in Nat : Handled(k, n)
    BY <1>1, <1>5, <1>7 DEF RInv
  <2>2. Place(k, n)'
    BY <1>1, <2>1 DEF Handled, Place, At
  <2>3. /\ Late(k) /\ \A c \in Chans : Agrees(c, k)
        /\ \A c \in Chans : Up(c, k)' <=> Up(c, k)
        /\ \A cmd, c : Sent(cmd, c)' <=> Sent(cmd, c)
    BY <1>1, <2>1 DEF Handled, Up, Sent, Head1
\* The command that is obeyed.
  <2>4. ASSUME HwCommand
        PROVE  /\ cmds # <<>> /\ cmds' = Tail(cmds) /\ Head(cmds).cmd \in Cmds /\ Head(cmds).ch \in Chans
               /\ Len(cmds) \in Nat /\ Len(cmds') = Len(cmds) - 1 /\ DOMAIN cmds' = 1 .. Len(cmds')
               /\ \A i \in 1 .. Len(cmds') : i + 1 \in DOMAIN cmds /\ cmds'[i] = cmds[i + 1]
               /\ 1 \in DOMAIN cmds /\ cmds[1] = Head(cmds)
               /\ Len(cmds) = 1 => cmds' = <<>>
    <3>1. cmds \in Seq(Command) /\ cmds # <<>> /\ cmds' = Tail(cmds)
      BY <1>1, <2>4 DEF Typed, TypedRings, HwCommand
    <3>2. /\ Head(cmds) \in Command /\ Tail(cmds) \in Seq(Command) /\ Len(Tail(cmds)) = Len(cmds) - 1
          /\ \A i \in 1 .. Len(Tail(cmds)) : Tail(cmds)[i] = cmds[i + 1]
      BY <3>1, HeadTailProperties
    <3>3. Len(cmds) \in Nat /\ Len(cmds) # 0 /\ DOMAIN cmds = 1 .. Len(cmds) /\ cmds[1] = Head(cmds)
      BY <3>1, LenProperties, EmptySeq
    <3>4. Len(cmds) = 1 => cmds' = <<>>
      BY <3>1, <3>2, EmptySeq
    <3>5. Head(cmds).cmd \in Cmds /\ Head(cmds).ch \in Chans
      BY <3>2 DEF Command
    <3>6. DOMAIN cmds' = 1 .. Len(cmds')
      BY <3>1, <3>2, LenProperties
    <3>7. \A i \in 1 .. Len(cmds') : i + 1 \in DOMAIN cmds /\ cmds'[i] = cmds[i + 1]
      BY <3>1, <3>2, <3>3
    <3> QED
      BY <3>1, <3>2, <3>3, <3>4, <3>5, <3>6, <3>7
  <2>5. ~HwCommand => cmds' = cmds
    BY DEF HwStopped
  <2>6. Late(k)'
    <3>1. CASE HwCommand
      <4> SUFFICES ASSUME NEW i \in DOMAIN cmds', NEW cmd \in Cmds, NEW c \in Chans,
                          cmds'[i].cmd = cmd, cmds'[i].ch = c
                   PROVE  \/ cmd \in {"STOP", "EV_ALLOCATE", "EV_DEALLOC", "DE_ALLOC"}
                          \/ cmd = "START" /\ (Up(c, k)' \/ (i = Len(cmds') /\ Sent(cmd, c)'))
                          \/ cmd = "RESET" /\ Up(c, k)' /\ i = Len(cmds') /\ Sent(cmd, c)'
                          \/ cmd = "ALLOCATE" /\ ~Up(c, k)'
        BY DEF Late
      <4>1. i + 1 \in DOMAIN cmds /\ cmds[i + 1].cmd = cmd /\ cmds[i + 1].ch = c
        BY <2>4, <3>1
      <4>2. i + 1 = Len(cmds) => i = Len(cmds')
        BY <2>4, <3>1
      <4>3. \/ cmd \in {"STOP", "EV_ALLOCATE", "EV_DEALLOC", "DE_ALLOC"}
            \/ cmd = "START" /\ (Up(c, k) \/ (i + 1 = Len(cmds) /\ Sent(cmd, c)))
            \/ cmd = "RESET" /\ Up(c, k) /\ i + 1 = Len(cmds) /\ Sent(cmd, c)
            \/ cmd = "ALLOCATE" /\ ~Up(c, k)
        BY <2>3, <4>1 DEF Late
      <4> QED
        BY <2>3, <4>2, <4>3
    <3>2. CASE ~HwCommand
      BY <2>3, <2>5, <3>2 DEF Late
    <3> QED
      BY <3>1, <3>2
  <2>7. ASSUME HwCommand, NEW c \in Chans, Head(cmds).ch = c
        PROVE  LET cmd == Head(cmds).cmd
                   last == Len(cmds) = 1 /\ Sent(cmd, c)
               IN  \/ cmd \in {"STOP", "EV_ALLOCATE", "EV_DEALLOC", "DE_ALLOC"}
                   \/ cmd = "START" /\ (Up(c, k) \/ last)
                   \/ cmd = "RESET" /\ Up(c, k) /\ last
                   \/ cmd = "ALLOCATE" /\ ~Up(c, k)
    <3>1. 1 \in DOMAIN cmds /\ cmds[1] = Head(cmds) /\ Head(cmds).cmd \in Cmds
      BY <2>4, <2>7
    <3> QED
      BY <2>3, <2>7, <3>1 DEF Late
  <2>8. ASSUME NEW c \in Chans PROVE Agrees(c, k)'
    <3>1. CASE ~HwCommand
      <4>1. /\ hw'[c].at = hw[c].at /\ hw'[c].db = hw[c].db /\ hw'[c].links = hw[c].links
            /\ HwUp(c)' <=> HwUp(c)
        BY <1>2, <3>1
      <4>2. Zero(c)' <=> Zero(c)
        BY <4>1 DEF Zero
      <4> QED
        BY <1>1, <2>3, <2>5, <3>1, <4>1, <4>2 DEF Agrees
    <3>2. CASE HwCommand
      <4>1. cmds # <<>>
        BY <2>4, <3>2
      <4>2. IF Up(c, k) THEN chState[c] # "ALLOCATED" /\ HwUp(c) ELSE chState[c] # "STARTED" /\ ~HwUp(c)
        BY <2>3, <4>1 DEF Agrees
      <4>3. CASE HwUp(c)' <=> HwUp(c)
        BY <1>1, <2>3, <4>2, <4>3 DEF Agrees
      <4>4. CASE ~(HwUp(c)' <=> HwUp(c))
        <5>1. /\ Head(cmds).ch = c
              /\ \/ Head(cmds).cmd = "START" /\ (HwUp(c) => HwUp(c)')
                 \/ Head(cmds).cmd \in {"ALLOCATE", "RESET"} /\ ~HwUp(c)' /\ Zero(c)'
          BY <1>2, <4>4
        <5>2. CASE Head(cmds).cmd = "START"
          <6>1. ~Up(c, k) /\ Sent("START", c) /\ Len(cmds) = 1 /\ HwUp(c)'
            BY <2>7, <3>2, <4>2, <4>4, <5>1, <5>2
          <6> QED
            BY <2>3, <2>4, <3>2, <6>1 DEF Agrees
        <5>3. CASE Head(cmds).cmd = "RESET"
          <6>1. Up(c, k) /\ Sent("RESET", c) /\ Len(cmds) = 1 /\ ~HwUp(c)' /\ Zero(c)'
            BY <2>7, <3>2, <5>1, <5>3
          <6> QED
            BY <2>3, <2>4, <3>2, <6>1 DEF Agrees
        <5>4. CASE Head(cmds).cmd = "ALLOCATE"
          BY <2>7, <3>2, <4>2, <4>4, <5>1, <5>4
        <5> QED
          BY <5>1, <5>2, <5>3, <5>4
      <4> QED
        BY <4>3, <4>4
    <3> QED
      BY <3>1, <3>2
  <2>9. \A c \in Chans : Zero(c) => Zero(c)'
    BY <1>2 DEF Zero
  <2>10. ASSUME cl \in InUse, NEW c \in Chans PROVE hw'[c].db = hw[c].db
    <3>1. Up(c, k) /\ ~Sent("RESET", c)
      <4>1. script \in Seq(PauseSteps)
        BY <2>1, <2>10 DEF Handled, Place
      <4>2. sent => script # <<>>
        BY <1>1 DEF Typed, TypedScript
      <4>3. script # <<>> => Head1 \in PauseSteps
        BY <4>1, HeadTailProperties DEF Head1
      <4>4. ~Sent("RESET", c)
        BY <4>2, <4>3 DEF Sent, PauseSteps
      <4> QED
        BY <2>10, <4>4 DEF Up
    <3>2. HwCommand /\ Head(cmds).ch = c => Head(cmds).cmd \notin {"ALLOCATE", "RESET"}
      BY <2>7, <3>1
    <3> QED
      BY <1>2, <3>2
  <2>11. Stage(k, n)'
    <3>1. Stage(k, n)
      BY <2>1 DEF Handled
    <3>2. /\ \A i, j : (Cleared(i, j) => Cleared(i, j)') /\ (Turned(i, j) => Turned(i, j)')
          /\ \A c \in Chans : Still(c)' <=> Still(c)
      BY <1>1, <2>9, TwoChans DEF Cleared, Turned, Past, Still
    <3>3. cl \in InUse => \A c \in Chans : ring'[c].wp = hw'[c].db /\ cpm'[c] = "ACTIVE"
      BY <1>1, <2>10, <3>1 DEF Stage
    <3> HIDE DEF Cleared
    <3>4. cl = "grabRx" =>
            /\ \A c \in Chans : Still(c)'
            /\ k > 1 => evs' = <<>>
            /\ (k > 7 => Zero(TX)') /\ (k > 9 => Zero(RX)')
            /\ (Past(k, n, 10) => cpm'[TX] = "ACTIVE") /\ (Past(k, n, 11) => cpm'[RX] = "ACTIVE")
      BY <1>1, <2>9, <3>1, <3>2, TwoChans DEF Stage
    <3> HIDE DEF Turned
    <3> QED
      BY <1>1, <3>1, <3>2, <3>3, <3>4, TwoChans DEF Stage
  <2> QED
    BY <2>2, <2>6, <2>8, <2>11 DEF Handled
<1> QED
  BY <1>4, <1>6, <1>7

-----------------------------------------------------------------------------
(* The hardware that moves data *)

\* Fewer elements than the ring has end in different places.
LEMMA Apart ==
  ASSUME NEW i \in Slots, NEW a \in Nat, NEW b \in Nat, a < b, b < Elements
  PROVE  After(i, a) # After(i, b)
<1> DEFINE u == i + a
           v == i + b
<1>1. i \in Nat /\ i < Elements /\ Elements \in Nat
  BY SlotFacts
<1>2. /\ Elements \in Nat
      /\ u \in Nat /\ v \in Nat /\ u < v /\ v < Elements + Elements /\ v - u < Elements
  BY <1>1
<1>3. After(i, a) = u % Elements /\ After(i, b) = v % Elements
  BY DEF After
<1> HIDE DEF u, v
<1>4. CASE v < Elements
  <2>1. u < Elements
    BY <1>2, <1>4
  <2>2. u % Elements = u /\ v % Elements = v
    BY <1>2, <1>4, <2>1, Below
  <2> QED
    BY <1>2, <1>3, <2>2
<1>5. CASE u < Elements /\ Elements <= v
  <2>1. u % Elements = u /\ v % Elements = v - Elements
    BY <1>2, <1>5, Below, Above
  <2> QED
    BY <1>2, <1>3, <2>1
<1>6. CASE Elements <= u
  <2>0. Elements <= v /\ u < Elements + Elements
    BY <1>2, <1>6
  <2>1. u % Elements = u - Elements /\ v % Elements = v - Elements
    BY <1>2, <1>6, <2>0, Above
  <2> QED
    BY <1>2, <1>3, <2>1
<1> QED
  BY <1>2, <1>4, <1>5, <1>6

\* The flags of the elements of a transfer.
LEMMA TresFlags ==
  ASSUME NEW c \in Chans, NEW t \in Xfers, NEW j \in 1 .. NrTre(c)
  PROVE  /\ Tres(c, t)[j].x = t.x
         /\ "CHAIN" \in Tres(c, t)[j].flags <=> j < NrTre(c)
         /\ "IEOT" \in Tres(c, t)[j].flags <=> j = NrTre(c)
         /\ "LINK" \in Tres(c, t)[j].flags <=> c = TX /\ j = 2 /\ t.cmd = "SPI_TX_RX"
<1> DEFINE E(kind, flags) == [kind |-> kind, flags |-> flags, x |-> t.x]
           go  == E("go", {"CHAIN"} \cup (IF t.cmd = "SPI_TX_RX" THEN {"LINK"} ELSE {}))
           dma == E(IF c = TX /\ t.imm THEN "imm" ELSE "dma", {"IEOT"})
           conf == E("config", {"CHAIN"})
<1>1. Tres(c, t) = IF c = TX THEN <<conf, go, dma>> ELSE <<dma>>
  BY DEF Tres
<1>2. /\ go.x = t.x /\ dma.x = t.x /\ conf.x = t.x
      /\ conf.flags = {"CHAIN"} /\ dma.flags = {"IEOT"}
      /\ go.flags = {"CHAIN"} \cup (IF t.cmd = "SPI_TX_RX" THEN {"LINK"} ELSE {})
  OBVIOUS
<1> HIDE DEF go, dma, conf
<1>3. CASE c = TX
  <2>1. NrTre(c) = 3 /\ (j = 1 \/ j = 2 \/ j = 3)
    BY <1>3 DEF NrTre
  <2>2. Tres(c, t) = <<conf, go, dma>>
    BY <1>1, <1>3
  <2>3. CASE j = 1
    BY <1>2, <2>1, <2>2, <2>3
  <2>4. CASE j = 2
    BY <1>2, <1>3, <2>1, <2>2, <2>4
  <2>5. CASE j = 3
    BY <1>2, <2>1, <2>2, <2>5
  <2> QED
    BY <2>1, <2>3, <2>4, <2>5
<1>4. CASE c # TX
  <2>1. NrTre(c) = 1 /\ j = 1
    BY <1>4 DEF NrTre
  <2>2. Tres(c, t) = <<dma>>
    BY <1>1, <1>4
  <2> QED
    BY <1>2, <1>4, <2>1, <2>2
<1> QED
  BY <1>3, <1>4

\* A channel that finds the first elements of the transfer obeys them all at once.
LEMMA ChainIs ==
  ASSUME Typed, NEW c \in Chans, NEW n \in 1 .. NrTre(c), n < Elements, hw[c].db = After(hw[c].at, n),
         \A i \in 0 .. n - 1 : slot[c][After(hw[c].at, i)] = Tres(c, cur)[i + 1]
  PROVE  /\ Chain(c) = [i \in 1 .. n |-> Tres(c, cur)[i]]
         /\ Len(Chain(c)) = n /\ Last(Chain(c)) = Tres(c, cur)[n]
<1> DEFINE at == hw[c].at
           Ends(k) == \/ "CHAIN" \notin slot[c][After(at, k - 1)].flags
                      \/ After(at, k) = hw[c].db
           IsFirst(k) == Ends(k) /\ \A j \in 1 .. k - 1 : ~Ends(j)
           k == CHOOSE k \in 1 .. Elements : IsFirst(k)
<1>1. /\ at \in Slots /\ cur \in Xfers /\ Elements \in Nat /\ NrTre(c) \in 1 .. 3 /\ n \in Nat
  BY SlotFacts, TresTyped DEF Typed, TypedRings, TypedClient
<1>2. \A j \in 1 .. n : slot[c][After(at, j - 1)] = Tres(c, cur)[j]
  <2> TAKE j \in 1 .. n
  <2>1. j - 1 \in 0 .. n - 1 /\ (j - 1) + 1 = j
    BY <1>1
  <2> QED
    BY <2>1
<1>3. Ends(n)
  OBVIOUS
<1>4. ASSUME NEW j \in 1 .. n - 1 PROVE ~Ends(j)
  <2>1. j \in Nat /\ j < n /\ j \in 1 .. n /\ j \in 1 .. NrTre(c) /\ j < NrTre(c)
    BY <1>1
  <2>2. "CHAIN" \in slot[c][After(at, j - 1)].flags
    BY <1>1, <1>2, <2>1, TresFlags
  <2>3. After(at, j) # hw[c].db
    BY <1>1, <2>1, Apart
  <2> QED
    BY <2>2, <2>3
<1>5. n \in 1 .. Elements
  BY <1>1
<1> HIDE DEF Ends
<1>6. \E i \in 1 .. Elements : IsFirst(i)
  BY <1>3, <1>4, <1>5
<1>7. k \in 1 .. Elements /\ IsFirst(k)
  BY <1>6
<1>8. Chain(c) = [i \in 1 .. k |-> slot[c][After(at, i - 1)]]
  BY DEF Chain, Ends
<1> HIDE DEF k
<1>9. k = n
  <2>1. ~(k < n)
    <3>1. k < n => k \in 1 .. n - 1
      BY <1>1, <1>7
    <3> QED
      BY <1>4, <1>7, <3>1
  <2>2. ~(n < k)
    <3>1. n < k => n \in 1 .. k - 1
      BY <1>1, <1>7
    <3> QED
      BY <1>3, <1>7, <3>1
  <2> QED
    BY <1>1, <1>7, <2>1, <2>2
<1>10. Chain(c) = [i \in 1 .. n |-> Tres(c, cur)[i]]
  BY <1>2, <1>8, <1>9
<1>11. Len(Chain(c)) = n
  BY <1>1, <1>10
<1>12. Last(Chain(c)) = Tres(c, cur)[n]
  BY <1>1, <1>10, <1>11 DEF Last
<1> QED
  BY <1>10, <1>11, <1>12

\* A channel that runs obeys all that is before it, and says so when its last element is among it; the
\* transmit channel may leave a link behind, for a read, and the receive channel takes it.
LEMMA RunEffects ==
  ASSUME Typed, NEW c \in Chans, HwElements(c), Arc(c)
  PROVE  /\ UNCHANGED <<slot, ring, vc, script, sent, ret, cpm, chState, tk, cmds>>
         /\ ~Settled(c) /\ (c = RX => hw[RX].links > 0)
         /\ hw'[c].at = hw[c].db
         /\ \A d \in Chans : hw'[d].state = hw[d].state /\ hw'[d].db = hw[d].db
         /\ \A d \in Chans : d # c => hw'[d].at = hw[d].at
         /\ c = RX => hw'[RX].links = hw[RX].links - 1
         /\ c = TX => \/ hw'[RX].links = hw[RX].links
                      \/ hw'[RX].links = hw[RX].links + 1 /\ Reads
         /\ \/ evs' = evs
            \/ \E e \in Event : evs' = Append(evs, e) /\ e.ch = c /\ e.x = cur.x /\ e.type # "stale"
<1> DEFINE H == [state : ChStates, ctx : BOOLEAN, at : Slots, db : Slots, links : Nat]
           ch == Chain(c)
           t == Last(ch)
           linked == {i \in DOMAIN ch : "LINK" \in ch[i].flags}
           links == Cardinality(linked) - (IF c = RX THEN 1 ELSE 0)
           e(good) == [ch |-> c, slot |-> After(hw[c].at, Len(ch) - 1), x |-> t.x,
                       type |-> IF t.kind = "imm" THEN "imed" ELSE "xfer", ok |-> good]
<1>1. hw \in [Chans -> H] /\ evs \in Seq(Event) /\ cur \in Xfers
  BY DEF Typed, TypedRings, TypedClient
<1>2. HwRuns(c) /\ UNCHANGED <<slot, ring, vc, script, sent, ret, cpm, chState, tk, cmds>>
  BY DEF HwElements, HwFrame, pmVars, listVars, ctlVars
<1>3. ~Settled(c) /\ (c = RX => hw[RX].links > 0)
  BY <1>2 DEF HwRuns, Settled
<1>4. /\ hw' = [hw EXCEPT ![c].at = After(@, Len(ch)), ![RX].links = @ + links]
      /\ IF "IEOT" \in t.flags THEN \E good \in BOOLEAN : evs' = Append(evs, e(good)) ELSE evs' = evs
  BY DEF HwElements
<1>5. PICK n \in 1 .. NrTre(c) :
        /\ n < Elements /\ hw[c].db = After(hw[c].at, n)
        /\ \A i \in 0 .. n - 1 : slot[c][After(hw[c].at, i)] = Tres(c, cur)[i + 1]
  BY <1>3 DEF Arc
<1>6. /\ Chain(c) = [i \in 1 .. n |-> Tres(c, cur)[i]]
      /\ Len(Chain(c)) = n /\ Last(Chain(c)) = Tres(c, cur)[n]
  BY <1>5, ChainIs
<1>7. n \in Nat /\ n \in 1 .. 3 /\ NrTre(c) \in 1 .. 3
  BY <1>1, TresTyped
<1>8. t.x = cur.x
  BY <1>1, <1>6, TresFlags
<1>9. linked = {i \in 1 .. n : c = TX /\ i = 2 /\ Reads}
  <2>1. \A i \in 1 .. n : i \in 1 .. NrTre(c)
    BY <1>7
  <2>2. ASSUME NEW i \in 1 .. n PROVE "LINK" \in ch[i].flags <=> c = TX /\ i = 2 /\ Reads
    <3>1. ch[i] = Tres(c, cur)[i] /\ i \in 1 .. NrTre(c)
      BY <1>6, <2>1
    <3> HIDE DEF ch
    <3> QED
      BY <1>1, <3>1, TresFlags DEF Reads
  <2>3. DOMAIN ch = 1 .. n
    BY <1>6
  <2> HIDE DEF ch
  <2> QED
    BY <2>2, <2>3
<1>10. /\ Cardinality(linked) \in {0, 1}
       /\ Cardinality(linked) = 1 => c = TX /\ Reads
  <2>1. linked = {} \/ (linked = {2} /\ c = TX /\ Reads)
    BY <1>7, <1>9
  <2> HIDE DEF linked
  <2> QED
    BY <2>1, FS_EmptySet, FS_Singleton
<1>11. links \in Int /\ (c = RX => links = -1) /\ (c = TX => links = 0 \/ (links = 1 /\ Reads))
  BY <1>10, TwoChans
<1>12. hw[RX].links \in Nat /\ hw[c].at \in Slots /\ After(hw[c].at, Len(ch)) = hw[c].db
  BY <1>1, <1>5, <1>6, TwoChans
<1> HIDE DEF links, ch
<1>13. /\ hw'[c].at = hw[c].db
       /\ \A d \in Chans : hw'[d].state = hw[d].state /\ hw'[d].db = hw[d].db
       /\ \A d \in Chans : d # c => hw'[d].at = hw[d].at
       /\ hw'[RX].links = hw[RX].links + links
  <2> DEFINE A == After(hw[c].at, Len(ch))
             f == [hw EXCEPT ![c].at = A]
  <2>1. hw' = [f EXCEPT ![RX].links = @ + links]
    BY <1>4
  <2>2. /\ \A d \in Chans : f[d] = IF d = c THEN [hw[d] EXCEPT !.at = A] ELSE hw[d]
        /\ DOMAIN f = Chans
    BY <1>1
  <2>3. A = hw[c].db
    BY <1>12
  <2> HIDE DEF A, f
  <2>4. \A d \in Chans : hw'[d] = IF d = RX THEN [f[d] EXCEPT !.links = @ + links] ELSE f[d]
    BY <2>1, <2>2
  <2>5. ASSUME NEW d \in Chans
        PROVE  /\ f[d].state = hw[d].state /\ f[d].db = hw[d].db /\ f[d].links = hw[d].links
               /\ f[d].at = IF d = c THEN A ELSE hw[d].at
               /\ DOMAIN f[d] = {"state", "ctx", "at", "db", "links"}
    BY <1>1, <2>2
  <2>6. ASSUME NEW d \in Chans
        PROVE  /\ hw'[d].state = hw[d].state /\ hw'[d].db = hw[d].db
               /\ hw'[d].at = IF d = c THEN A ELSE hw[d].at
               /\ d = RX => hw'[d].links = hw[d].links + links
    <3>1. CASE d = RX
      <4>1. hw'[d] = [f[d] EXCEPT !.links = @ + links]
        BY <2>4, <3>1
      <4> QED
        BY <2>5, <4>1
    <3>2. CASE d # RX
      BY <2>4, <2>5, <3>2
    <3> QED
      BY <3>1, <3>2
  <2> QED
    BY <2>3, <2>6, TwoChans
<1>14. \/ evs' = evs
       \/ \E f \in Event : evs' = Append(evs, f) /\ f.ch = c /\ f.x = cur.x /\ f.type # "stale"
  <2>1. CASE "IEOT" \in t.flags
    <3>1. PICK good \in BOOLEAN : evs' = Append(evs, e(good))
      BY <1>4, <2>1
    <3>2. /\ e(good).ch = c /\ e(good).x = cur.x /\ e(good).type # "stale"
          /\ e(good) \in [ch : Chans, slot : Slots, x : Xs, type : {"xfer", "imed", "stale"}, ok : BOOLEAN]
      <4>1. Len(ch) - 1 \in Nat
        BY <1>6, <1>7 DEF ch
      <4>2. After(hw[c].at, Len(ch) - 1) \in Slots
        BY <1>12, <4>1, SlotFacts
      <4>3. cur.x \in Xs
        BY <1>1 DEF Xfers
      <4> QED
        BY <1>8, <4>2, <4>3
    <3> QED
      BY <3>1, <3>2 DEF Event
  <2> QED
    BY <1>4, <2>1
<1> QED
  BY <1>2, <1>3, <1>11, <1>12, <1>13, <1>14

\* The reset of the receive channel is sent only when the transmit channel has been reset.
LEMMA ResetsInOrder ==
  ASSUME Typed, cl \in Busy, Sent("RESET", RX), NEW k \in Nat, NEW n \in Nat, Handled(k, n)
  PROVE  Zero(TX)
<1>1. script # <<>> /\ Head1.do = "cmd" /\ Head1.val = "RESET" /\ Head1.ch = RX
  BY DEF Sent, Typed, TypedScript
<1>2. cl = "terminateTx"
  <2> SUFFICES ASSUME cl \in InUse PROVE FALSE
    BY DEF InUse, Busy, Running, Stopping
  <2>1. script \in Seq(PauseSteps)
    BY DEF Handled, Place
  <2>2. Head1 \in PauseSteps
    BY <1>1, <2>1, HeadTailProperties DEF Head1
  <2> QED
    BY <1>1, <2>2 DEF PauseSteps
<1> DEFINE s == Terminating
<1>3. At(s, k, n) /\ Cleared(k, n)
  BY <1>2 DEF Handled, Place, Stage, Stopping
<1>4. /\ s \in Seq(AnyStep) /\ Len(s) = 10
      /\ s[1].do = "setCh" /\ s[3].do = "setCh" /\ s[6].do = "program" /\ s[8].do = "program"
      /\ s[2].val = "STOP" /\ s[4].val = "STOP" /\ s[5].ch = TX
      /\ s[9].val = "START" /\ s[10].val = "START"
      /\ \A i \in {1, 2, 3, 4, 6, 8} : s[i].ok = <<>>
      /\ s[5].ok = Wiped(TX) /\ s[7].ok = Wiped(RX)
      /\ s[9].ok = <<SetCh(TX, "ACTIVE")>> /\ s[10].ok = <<SetCh(RX, "ACTIVE")>>
  BY StopTable
<1> HIDE DEF s
<1>5. \A i \in 1 .. 10 : i \in {1, 2, 3, 4, 6, 8} \/ i = 5 \/ i = 7 \/ i = 9 \/ i = 10
  OBVIOUS
<1>6. \A i \in 1 .. 10 : s[i].ok \in Oks
  BY <1>4, <1>5, TwoChans DEF Oks
<1>7. n = 0 /\ k \in 1 .. 10 /\ Head1 = s[k]
  <2>1. \/ n = 0 /\ k \in 1 .. Len(s) /\ Head1 = s[k]
        \/ /\ n > 0 /\ k \in 2 .. Len(s) + 1 /\ n <= Len(s[k - 1].ok)
           /\ s[k - 1].ok \in Seq(AnyStep) => Head1 = s[k - 1].ok[Len(s[k - 1].ok) - n + 1]
    <3>1. s \in Seq(AnyStep) /\ At(s, k, n) /\ script # <<>>
      BY <1>1, <1>3, <1>4
    <3> QED
      BY <3>1, Position
  <2>2. SUFFICES ASSUME n > 0, k \in 2 .. 11, n <= Len(s[k - 1].ok),
                        s[k - 1].ok \in Seq(AnyStep) => Head1 = s[k - 1].ok[Len(s[k - 1].ok) - n + 1]
                 PROVE  FALSE
    BY <1>4, <2>1
  <2>3. PICK o : o = s[k - 1].ok
    OBVIOUS
  <2>4. o \in Oks
    <3>1. k - 1 \in 1 .. 10
      BY <2>2
    <3> QED
      BY <1>6, <2>3, <3>1
  <2>5. o \in Seq(AnyStep) /\ \A j \in 1 .. Len(o) : o[j].do \in {"resetRing", "wipe", "setCh"}
    BY <2>4, OkFacts
  <2>6. Len(o) - n + 1 \in 1 .. Len(o)
    <3>1. Len(o) \in Nat
      BY <2>5, LenProperties
    <3>2. n > 0 /\ n <= Len(o)
      BY <2>2, <2>3
    <3> QED
      BY <3>1, <3>2
  <2> QED
    BY <1>1, <2>2, <2>3, <2>5, <2>6
<1>8. k = 7
  BY <1>1, <1>4, <1>7, TwoChans
<1> QED
  BY <1>3, <1>8 DEF Cleared

\* The hardware that moves data keeps the invariant.
LEMMA RunKeeps ==
  ASSUME IInv, RInv, NEW c \in Chans, HwElements(c), UNCHANGED clVars
  PROVE  RInv'
<1> SUFFICES ASSUME ~dirty'
             PROVE  /\ (cl' \notin Busy => Idle') /\ \A d \in Chans : Arc(d)'
                    /\ Clean' => \E k \in Nat, n \in Nat : Handled(k, n)'
                    /\ Clean' /\ cl' \in Running => Transfers'
  BY DEF RInv
<1>1. Typed /\ UNCHANGED <<cl, cur, sig, dirty>> /\ ~dirty
  BY DEF IInv, clVars
<1>2. (cl \notin Busy => Idle) /\ \A d \in Chans : Arc(d)
  BY <1>1 DEF RInv
<1>3. /\ UNCHANGED <<slot, ring, vc, script, sent, ret, cpm, chState, tk, cmds>>
      /\ ~Settled(c) /\ (c = RX => hw[RX].links > 0)
      /\ hw'[c].at = hw[c].db
      /\ \A d \in Chans : hw'[d].state = hw[d].state /\ hw'[d].db = hw[d].db
      /\ \A d \in Chans : d # c => hw'[d].at = hw[d].at
      /\ c = RX => hw'[RX].links = hw[RX].links - 1
      /\ c = TX => \/ hw'[RX].links = hw[RX].links
                   \/ hw'[RX].links = hw[RX].links + 1 /\ Reads
      /\ \/ evs' = evs
         \/ \E e \in Event : evs' = Append(evs, e) /\ e.ch = c /\ e.x = cur.x /\ e.type # "stale"
  BY <1>1, <1>2, RunEffects
<1>4. cl \in Busy /\ (c = TX => cl # "issueTx")
  BY <1>2, <1>3, TwoChans DEF Idle, Arc
<1>5. Settled(c)' /\ \A d \in Chans : d # c => (Settled(d)' <=> Settled(d))
  BY <1>3 DEF Settled
<1>6. ASSUME NEW d \in Chans PROVE Arc(d)'
  <2>1. CASE d = c
    BY <1>5, <2>1 DEF Arc
  <2>2. CASE d # c
    <3>1. Arc(d) /\ hw'[d].at = hw[d].at /\ hw'[d].db = hw[d].db
      BY <1>2, <1>3, <2>2
    <3> QED
      BY <1>1, <1>3, <1>5, <2>2, <3>1 DEF Arc
  <2> QED
    BY <2>1, <2>2
<1>7. Clean' <=> Clean
  BY <1>1, <1>3 DEF Clean
<1>8. ASSUME Clean' PROVE \E k \in Nat, n \in Nat : Handled(k, n)'
  <2>1. PICK k \in Nat, n \in Nat : Handled(k, n)
    BY <1>1, <1>7, <1>8 DEF RInv
  <2>2. Place(k, n)'
    BY <1>1, <1>3, <2>1 DEF Handled, Place, At
  <2>3. \A d \in Chans : (Up(d, k)' <=> Up(d, k)) /\ (HwUp(d)' <=> HwUp(d))
    BY <1>1, <1>3 DEF Up, HwUp
  <2>4. \A cmd, d : Sent(cmd, d)' <=> Sent(cmd, d)
    BY <1>3 DEF Sent, Head1
  <2>5. Late(k)'
    BY <1>3, <2>1, <2>3, <2>4 DEF Handled, Late
  <2>6. ~Zero(c) /\ (c = RX => (Zero(TX)' <=> Zero(TX)))
    BY <1>3, TwoChans DEF Zero, Settled
  <2>7. Stage(k, n)'
    <3>1. Stage(k, n)
      BY <2>1 DEF Handled
    <3>2. (Cleared(k, n) => Cleared(k, n)') /\ (Turned(k, n) => Turned(k, n)')
      BY <1>3, <2>6, TwoChans DEF Cleared, Turned, Past, Still
    <3>3. cl \in InUse \/ cl = "terminateTx"
      BY <1>4 DEF Busy, InUse, Running, Stopping
    <3> QED
      BY <1>1, <1>3, <1>4, <3>1, <3>2, <3>3 DEF Stage, Busy
  <2>8. ASSUME NEW d \in Chans PROVE Agrees(d, k)'
    <3>1. Agrees(d, k)
      BY <2>1 DEF Handled
    <3>2. Sent("RESET", d) /\ Zero(d) => Zero(d)'
      <4>1. CASE d = c
        BY <2>6, <4>1
      <4>2. CASE d = TX /\ c = RX
        BY <2>6, <4>2
      <4>3. CASE d = RX /\ c = TX
        BY <1>1, <1>4, <2>1, <2>6, <4>3, ResetsInOrder
      <4> QED
        BY <4>1, <4>2, <4>3, TwoChans
    <3> QED
      BY <1>3, <2>3, <2>4, <3>1, <3>2 DEF Agrees
  <2> QED
    BY <2>2, <2>5, <2>7, <2>8 DEF Handled
<1>9. ASSUME Clean', cl' \in Running PROVE Transfers'
  <2>1. Transfers
    BY <1>1, <1>7, <1>9 DEF RInv
  <2>2. (Reads' <=> Reads) /\ sig = "none"
    BY <1>1, <1>3, <2>1, TwoChans DEF Reads, Transfers, Answered, Idle
  <2>3. /\ hw[RX].links \in {0, 1} /\ (~Settled(RX) => Reads)
        /\ hw[RX].links = 1 => Reads /\ Settled(TX) /\ cl \in {"wait", "failed", "terminateTx"}
    BY <2>1 DEF Transfers, Linked
  <2>4. /\ cl \in {"wait", "failed", "terminateTx"}
        /\ c = TX => hw[RX].links = 0
        /\ c = RX => hw[RX].links = 1 /\ hw'[RX].links = 0 /\ Reads /\ Settled(TX)
    BY <1>3, <1>4, <2>3, TwoChans DEF Busy
  <2>5. Linked'
    BY <1>1, <1>3, <1>5, <2>2, <2>3, <2>4, TwoChans DEF Linked
  <2>6. Prepared'
    BY <1>1, <1>3, <2>1, <2>2 DEF Transfers, Prepared
  <2>7. ASSUME NEW d \in Chans PROVE Sorted(d)'
    <3>1. Sorted(d) /\ vc'[d] = vc[d] /\ (Settled(d) => Settled(d)')
      BY <1>3, <1>5, <2>1 DEF Transfers
    <3> QED
      BY <1>1, <1>3, <3>1, SortedKept
  <2>8. ASSUME NEW d \in Chans PROVE Events(d)'
    <3>1. Sorted(d) /\ Events(d)
      BY <2>1 DEF Transfers
    <3>2. CASE evs' = evs
      <4>1. \A i \in DOMAIN evs : Live(i, d)' <=> Live(i, d)
        BY <3>2 DEF Live
      <4>2. ASSUME NEW i \in DOMAIN evs, Live(i, d), evs[i].x = cur.x
            PROVE  /\ cl \notin {"issueRx", "issueTx"} /\ Settled(d)'
                   /\ d = RX => Reads /\ Settled(TX)' /\ hw'[RX].links = 0
        BY <1>3, <1>5, <2>4, <3>1, <4>2, TwoChans DEF Events
      <4>3. \A i, j \in DOMAIN evs' : i < j /\ Live(i, d)' /\ Live(j, d)' => evs'[i].x < evs'[j].x
        BY <3>1, <3>2, <4>1 DEF Events
      <4>4. ASSUME NEW i \in DOMAIN evs', Live(i, d)'
            PROVE  /\ \E j \in DOMAIN vc'[d].issued : vc'[d].issued[j].x = evs'[i].x
                   /\ evs'[i].x = cur'.x => /\ cl' \notin {"issueRx", "issueTx"} /\ Settled(d)'
                                            /\ d = RX => Reads' /\ Settled(TX)' /\ hw'[RX].links = 0
        <5>1. i \in DOMAIN evs /\ Live(i, d) /\ evs'[i] = evs[i]
          BY <3>2, <4>1, <4>4
        <5>2. \E j \in DOMAIN vc[d].issued : vc[d].issued[j].x = evs[i].x
          BY <3>1, <5>1 DEF Events
        <5> QED
          BY <1>1, <1>3, <2>2, <4>2, <5>1, <5>2
      <4> QED
        BY <4>3, <4>4 DEF Events
    <3>3. ASSUME NEW e \in Event, evs' = Append(evs, e), e.ch = c, e.x = cur.x, e.type # "stale"
          PROVE  Events(d)'
      <4>0. PICK m : m = Len(evs) + 1
        OBVIOUS
      <4>1. /\ DOMAIN evs = 1 .. m - 1 /\ m \in Nat /\ DOMAIN evs' = 1 .. m
            /\ \A i \in DOMAIN evs : evs'[i] = evs[i]
            /\ evs'[m] = e
        <5>1. /\ DOMAIN evs = 1 .. Len(evs) /\ Len(evs) \in Nat /\ DOMAIN evs' = 1 .. Len(evs) + 1
              /\ \A i \in DOMAIN evs : evs'[i] = evs[i]
              /\ evs'[Len(evs) + 1] = e
          BY <1>1, <3>3, AppendProperties, LenProperties DEF Typed, TypedRings
        <5> QED
          BY <4>0, <5>1
      <4>2. \A i \in DOMAIN evs' : i \in DOMAIN evs \/ i = m
        BY <4>1
      <4>3. \A i \in DOMAIN evs : Live(i, d)' <=> Live(i, d)
        BY <4>1 DEF Live
      <4>4. Live(m, d)' => d = c
        BY <3>3, <4>1 DEF Live
      <4>5. ASSUME NEW i \in DOMAIN evs, Live(i, d)
            PROVE  /\ \E j \in DOMAIN vc[d].issued : vc[d].issued[j].x = evs[i].x
                   /\ evs[i].x = cur.x => /\ cl \notin {"issueRx", "issueTx"} /\ Settled(d)
                                          /\ d = RX => Reads /\ Settled(TX) /\ hw[RX].links = 0
        BY <3>1, <4>5 DEF Events
      <4>6. ASSUME NEW i \in DOMAIN evs, Live(i, d), d = c PROVE evs[i].x < cur.x
        <5>1. PICK j \in DOMAIN vc[d].issued : vc[d].issued[j].x = evs[i].x
          BY <4>5, <4>6
        <5>2. evs[i].x <= cur.x
          BY <3>1, <5>1 DEF Sorted
        <5>3. evs[i].x # cur.x
          BY <1>3, <4>5, <4>6
        <5>4. evs[i].x \in Nat /\ cur.x \in Nat
          <6>1. evs[i] \in Event
            BY <1>1, Elems DEF Typed, TypedRings
          <6> QED
            BY <1>1, <6>1 DEF Event, Xs, Typed, TypedClient, Xfers
        <5> QED
          BY <5>2, <5>3, <5>4
      <4>7. ASSUME NEW i \in DOMAIN evs', NEW j \in DOMAIN evs', i < j, Live(i, d)', Live(j, d)'
            PROVE  evs'[i].x < evs'[j].x
        <5>1. i \in DOMAIN evs
          BY <4>1, <4>7
        <5>2. CASE j \in DOMAIN evs
          BY <3>1, <4>1, <4>3, <4>7, <5>1, <5>2 DEF Events
        <5>3. CASE j = m
          BY <3>3, <4>1, <4>3, <4>4, <4>6, <4>7, <5>1, <5>3
        <5> QED
          BY <4>2, <5>2, <5>3
      <4>8. ASSUME NEW i \in DOMAIN evs', Live(i, d)'
            PROVE  /\ \E j \in DOMAIN vc'[d].issued : vc'[d].issued[j].x = evs'[i].x
                   /\ evs'[i].x = cur'.x => /\ cl' \notin {"issueRx", "issueTx"} /\ Settled(d)'
                                            /\ d = RX => Reads' /\ Settled(TX)' /\ hw'[RX].links = 0
        <5>1. CASE i \in DOMAIN evs
          <6>1. Live(i, d) /\ evs'[i] = evs[i]
            BY <4>1, <4>3, <4>8, <5>1
          <6>2. evs[i].x = cur.x => /\ cl \notin {"issueRx", "issueTx"} /\ Settled(d)'
                                    /\ d = RX => Reads /\ Settled(TX)' /\ hw'[RX].links = 0
            BY <1>3, <1>5, <2>4, <4>5, <5>1, <6>1, TwoChans
          <6>3. \E j \in DOMAIN vc[d].issued : vc[d].issued[j].x = evs[i].x
            BY <4>5, <5>1, <6>1
          <6>4. \E j \in DOMAIN vc'[d].issued : vc'[d].issued[j].x = evs'[i].x
            BY <1>3, <6>1, <6>3
          <6>5. evs'[i].x = cur'.x => /\ cl' \notin {"issueRx", "issueTx"} /\ Settled(d)'
                                      /\ d = RX => Reads' /\ Settled(TX)' /\ hw'[RX].links = 0
            <7>1. (evs'[i].x = cur'.x) = (evs[i].x = cur.x)
              BY <1>1, <6>1
            <7> QED
              BY <1>1, <2>2, <6>2, <7>1
          <6> QED
            BY <6>4, <6>5
        <5>2. CASE i = m
          <6>1. d = c /\ evs'[i] = e
            BY <4>1, <4>4, <4>8, <5>2
          <6>2. \E j \in DOMAIN vc[d].issued : vc[d].issued[j].x = cur.x
            BY <1>3, <3>1, <6>1 DEF Sorted
          <6>3. /\ cl \notin {"issueRx", "issueTx"} /\ Settled(d)'
                /\ d = RX => Reads /\ Settled(TX)' /\ hw'[RX].links = 0
            BY <1>5, <2>4, <6>1, TwoChans
          <6> QED
            BY <1>1, <1>3, <2>2, <3>3, <6>1, <6>2, <6>3
        <5> QED
          BY <4>2, <5>1, <5>2
      <4> QED
        BY <4>7, <4>8 DEF Events
    <3> QED
      BY <1>3, <3>2, <3>3
  <2>9. Answered' /\ Taken'
    BY <1>1, <1>3, <2>1, <2>2 DEF Transfers, Answered, Taken
  <2> QED
    BY <2>5, <2>6, <2>7, <2>8, <2>9 DEF Transfers
<1> QED
  BY <1>1, <1>4, <1>6, <1>8, <1>9

-----------------------------------------------------------------------------
(* The tasklet *)

\* The first one of descriptors in order leaves the others as they were.
LEMMA UnlinksHead ==
  ASSUME NEW ds \in Seq(Descs), ds # <<>>, \A i, j \in DOMAIN ds : i < j => ds[i].x < ds[j].x
  PROVE  LET r == Unlinked(ds, Head(ds).x)
         IN  /\ DOMAIN r = 1 .. Len(ds) - 1 /\ \A i \in 1 .. Len(ds) - 1 : r[i] = ds[i + 1]
             /\ DOMAIN ds = 1 .. Len(ds) /\ Len(ds) \in Nat /\ Len(ds) > 0 /\ Head(ds) = ds[1]
<1> DEFINE k == CHOOSE k \in DOMAIN ds : ds[k].x = Head(ds).x
           m == Len(ds)
           a == SubSeq(ds, 1, 0)
           b == SubSeq(ds, 2, m)
<1>1. DOMAIN ds = 1 .. m /\ m \in Nat /\ m > 0 /\ Head(ds) = ds[1]
  BY LenProperties, EmptySeq
<1>2. 1 \in DOMAIN ds /\ ds[1].x = Head(ds).x
  BY <1>1
<1>3. k \in DOMAIN ds /\ ds[k].x = Head(ds).x
  BY <1>2
<1>4. Unlinked(ds, Head(ds).x) = RemoveAt(ds, k)
  BY <1>2 DEF Unlinked
<1>5. \A i \in DOMAIN ds : ds[i].x \in Nat
  <2>1. \A i \in DOMAIN ds : ds[i] \in Descs
    BY Elems
  <2> QED
    BY <2>1, DescTyped DEF Xs
<1> HIDE DEF k
<1>6. k = 1
  <2>1. ~(1 < k)
    BY <1>1, <1>2, <1>3, <1>5
  <2> QED
    BY <1>1, <1>3, <2>1
<1> HIDE DEF m
<1>7. RemoveAt(ds, k) = a \o b
  BY <1>6 DEF RemoveAt, m
<1>8. a = <<>> /\ a \in Seq(Descs) /\ Len(a) = 0
  BY SubSeqEmpty, EmptySeq
<1>9. b \in Seq(Descs) /\ Len(b) = m - 1 /\ \A i \in 1 .. m - 1 : b[i] = ds[i + 1]
  <2>1. \A i \in 2 .. m : ds[i] \in Descs
    BY <1>1, Elems
  <2>2. /\ b \in Seq(Descs) /\ Len(b) = IF 2 <= m THEN m - 2 + 1 ELSE 0
        /\ \A i \in 1 .. m - 2 + 1 : b[i] = ds[2 + i - 1]
    BY <1>1, <2>1, SubSeqProperties
  <2> HIDE DEF b
  <2> QED
    BY <1>1, <2>2
<1> HIDE DEF a, b
<1>10. a \o b = b
  BY <1>8, <1>9, ConcatEmptySeq
<1>11. DOMAIN b = 1 .. m - 1
  BY <1>9, LenProperties
<1> QED
  BY <1>1, <1>4, <1>7, <1>9, <1>10, <1>11 DEF m

\* What a step of the tasklet changes.
LEMMA TkEffects ==
  ASSUME IInv, Tasklet
  PROVE  /\ UNCHANGED <<hw, slot, script, sent, ret, cpm, chState, cmds, cl, cur, dirty>>
         /\ \A c \in Chans : /\ ring'[c].wp = ring[c].wp
                             /\ ring'[c] = ring[c] \/ (cpm[c] = "ACTIVE" /\ vc[c].issued # <<>>)
         /\ \A c \in Chans : vc[c] = NoDescs => vc'[c] = NoDescs
         /\ evs = <<>> => evs' = <<>>
         /\ \/ UNCHANGED <<vc, evs, sig>> /\ tk.pc # "unlink" /\ tk'.pc \notin Held
            \/ /\ UNCHANGED <<vc, sig>> /\ tk.pc # "unlink" /\ tk'.pc \notin Held
               /\ evs # <<>> /\ evs' = Tail(evs)
            \/ /\ UNCHANGED <<vc, evs, sig>> /\ tk.pc # "unlink" /\ tk'.pc = "complete"
               /\ tk'.cb = Head(vc[tk'.ch].issued).cb
            \/ /\ UNCHANGED <<vc, evs>> /\ tk.pc = "complete" /\ tk'.pc = "unlink"
               /\ tk'.ch = tk.ch /\ tk'.x = tk.x /\ tk'.cb = tk.cb
               /\ ~tk.cb => sig' = sig
            \/ /\ UNCHANGED sig /\ tk.pc = "unlink" /\ tk'.pc \notin Held
               /\ vc' = [vc EXCEPT ![tk.ch].issued = Unlinked(@, tk.x)] /\ evs' = Tail(evs)
<1> USE DEF TkFrame, ctlVars, hwVars, pmVars, clVars
<1>1. /\ vc \in [Chans -> Lists] /\ evs \in Seq(Event)
      /\ ring \in [Chans -> [on : BOOLEAN, rp : Slots, wp : Slots]]
      /\ tk \in [pc : {"off", "scan", "complete", "unlink", "reread", "unmask"}, n : Nat, ch : Chans, x : Xs,
                 cb : BOOLEAN]
  BY DEF IInv, Typed, TypedRings, TypedTk
<1>2. UNCHANGED <<hw, slot, script, sent, ret, cpm, chState, cmds, cl, cur, dirty>>
  BY DEF Tasklet, Complete, TkCallback, TkUnlink, TkStart, TkEvent, TkClear, TkReread, TkUnmask
<1>3. ASSUME NEW c \in Chans
      PROVE  /\ ring'[c].wp = ring[c].wp
             /\ ring'[c] = ring[c] \/ (cpm[c] = "ACTIVE" /\ vc[c].issued # <<>>)
  <2>1. CASE TkEvent
    <3>1. evs # <<>>
      BY <2>1 DEF TkEvent
    <3>2. Head(evs).ch \in Chans
      <4>1. Head(evs) \in Event
        BY <1>1, <3>1, HeadTailProperties
      <4> QED
        BY <4>1 DEF Event
    <3>3. \/ ring' = ring
          \/ /\ ring' = [ring EXCEPT ![Head(evs).ch].rp = After(Head(evs).slot, 1)]
             /\ cpm[Head(evs).ch] = "ACTIVE" /\ vc[Head(evs).ch].issued # <<>>
      BY <2>1 DEF TkEvent
    <3> QED
      BY <1>1, <3>2, <3>3
  <2>2. CASE ~TkEvent
    BY <2>2 DEF Tasklet, Complete, TkCallback, TkUnlink, TkStart, TkClear, TkReread, TkUnmask
  <2> QED
    BY <2>1, <2>2
<1>4. ASSUME NEW c \in Chans, vc[c] = NoDescs PROVE vc'[c] = NoDescs
  <2>1. CASE TkUnlink
    <3>1. vc[tk.ch].issued # <<>>
      BY <2>1 DEF TkUnlink, IInv, DescriptorStays
    <3>2. c # tk.ch
      BY <1>4, <3>1 DEF NoDescs
    <3> QED
      BY <1>1, <1>4, <2>1, <3>2 DEF TkUnlink
  <2>2. CASE ~TkUnlink
    BY <1>4, <2>2 DEF Tasklet, Complete, TkCallback, TkStart, TkEvent, TkClear, TkReread, TkUnmask
  <2> QED
    BY <2>1, <2>2
<1>5. evs = <<>> => evs' = <<>>
  <2>1. evs' = evs \/ evs # <<>>
    BY DEF Tasklet, Complete, TkCallback, TkUnlink, TkStart, TkEvent, TkClear, TkReread, TkUnmask, IInv, DescriptorStays
  <2> QED
    BY <2>1
<1>6. \A n : [IdleTk EXCEPT !.pc = "scan", !.n = n].pc = "scan" /\ IdleTk.pc = "off"
  BY DEF IdleTk
<1>7. Recycled(tk).pc = "scan"
  BY <1>6 DEF Recycled
<1>8. CASE TkStart \/ TkClear \/ TkReread \/ TkUnmask
  <2>1. UNCHANGED <<vc, evs, sig>> /\ tk.pc # "unlink"
    BY <1>8 DEF Tasklet, TkStart, TkClear, TkReread, TkUnmask, Complete, TkCallback
  <2>2. tk'.pc \notin Held
    BY <1>1, <1>6, <1>8 DEF TkStart, TkClear, TkReread, TkUnmask, Held
  <2> QED
    BY <1>2, <1>3, <1>4, <1>5, <2>1, <2>2
<1>9. CASE TkEvent
  <2> DEFINE e == Head(evs)
             live == e.type # "stale" /\ cpm[e.ch] = "ACTIVE" /\ vc[e.ch].issued # <<>>
             vd == Head(vc[e.ch].issued)
  <2>1. UNCHANGED <<vc, sig>> /\ tk.pc = "scan" /\ evs # <<>>
    BY <1>9 DEF TkEvent, Tasklet, Complete, TkCallback
  <2>2. CASE live
    <3>1. tk' = [tk EXCEPT !.pc = "complete", !.ch = e.ch, !.x = vd.x, !.cb = vd.cb] /\ UNCHANGED evs
      BY <1>9, <2>2 DEF TkEvent
    <3>2. PICK ch, x, cb : ch = e.ch /\ x = vd.x /\ cb = vd.cb
      OBVIOUS
    <3>3. tk' = [tk EXCEPT !.pc = "complete", !.ch = ch, !.x = x, !.cb = cb]
      BY <3>1, <3>2
    <3>4. tk'.pc = "complete" /\ tk'.ch = ch /\ tk'.cb = cb
      BY <1>1, <3>3
    <3>5. tk'.cb = Head(vc[tk'.ch].issued).cb
      BY <3>2, <3>4
    <3> HIDE DEF live
    <3> QED
      BY <1>2, <1>3, <1>4, <1>5, <2>1, <3>1, <3>4, <3>5
  <2>3. CASE ~live
    <3>1. tk' = Recycled(tk) /\ evs' = Tail(evs)
      BY <1>9, <2>3 DEF TkEvent
    <3> HIDE DEF live
    <3> QED
      BY <1>2, <1>3, <1>4, <1>5, <1>7, <2>1, <3>1 DEF Held
  <2> QED
    BY <2>2, <2>3
<1>10. CASE Complete
  <2>1. /\ evs' = evs /\ vc' = vc /\ tk.pc = "complete"
        /\ tk'.pc = "unlink" /\ tk'.ch = tk.ch /\ tk'.x = tk.x /\ tk'.cb = tk.cb
    BY <1>1, <1>10 DEF Complete, TkCallback
  <2>2. ~tk.cb => sig' = sig
    BY <1>10 DEF Complete
  <2> QED
    BY <1>2, <1>3, <1>4, <1>5, <2>1, <2>2
<1>11. CASE TkUnlink
  <2>1. /\ UNCHANGED sig /\ tk.pc = "unlink" /\ tk'.pc \notin Held
        /\ vc' = [vc EXCEPT ![tk.ch].issued = Unlinked(@, tk.x)] /\ evs' = Tail(evs)
    BY <1>7, <1>11 DEF TkUnlink, Tasklet, Complete, TkCallback, Held
  <2> QED
    BY <1>2, <1>3, <1>4, <1>5, <2>1
<1> QED
  BY <1>8, <1>9, <1>10, <1>11 DEF Tasklet

\* Of the transfers of a channel only a later one has an event after the first.
LEMMA FirstEvent ==
  ASSUME IInv, Transfers, tk.pc \in Held
  PROVE  LET c == tk.ch
             ds == vc[c].issued
         IN  /\ c \in Chans /\ ds \in Seq(Descs) /\ ds # <<>> /\ Head(ds).x = tk.x
             /\ 1 \in DOMAIN ds /\ ds[1] = Head(ds) /\ 1 \in DOMAIN evs /\ evs[1] = Head(evs) /\ Live(1, c)
             /\ \A i \in DOMAIN evs : i > 1 /\ Live(i, c) => evs[i].x > tk.x
             /\ tk.x = cur.x =>
                  /\ cl \notin {"issueRx", "issueTx"} /\ Settled(c) /\ Len(ds) = 1
                  /\ c = RX => Reads /\ Settled(TX) /\ hw[RX].links = 0
<1> DEFINE c == tk.ch
           ds == vc[c].issued
<1>1. /\ vc \in [Chans -> Lists] /\ evs \in Seq(Event) /\ c \in Chans /\ tk.x \in Nat /\ cur.x \in Nat
  BY DEF IInv, Typed, TypedRings, TypedTk, TypedClient, Xfers, Xs
<1>2. /\ evs # <<>> /\ Head(evs).ch = c /\ Head(evs).type # "stale"
      /\ ds # <<>> /\ Head(ds).x = tk.x
  BY DEF IInv, DescriptorStays, Held
<1>3. ds \in Seq(Descs)
  BY <1>1 DEF Lists
<1>4. Sorted(c) /\ Events(c)
  BY <1>1 DEF Transfers
<1>5. 1 \in DOMAIN evs /\ evs[1] = Head(evs) /\ DOMAIN evs = 1 .. Len(evs) /\ Len(evs) \in Nat
  BY <1>1, <1>2, LenProperties, EmptySeq
<1>6. Live(1, c)
  BY <1>2, <1>5 DEF Live
<1> HIDE DEF ds, c
<1>7. 1 \in DOMAIN ds /\ ds[1] = Head(ds) /\ DOMAIN ds = 1 .. Len(ds) /\ Len(ds) \in Nat
  BY <1>2, <1>3, LenProperties, EmptySeq
<1>8. \A i \in DOMAIN ds : ds[i].x \in Nat
  <2>1. \A i \in DOMAIN ds : ds[i] \in Descs
    BY <1>3, Elems
  <2> QED
    BY <2>1, DescTyped DEF Xs
<1>9. \A i \in DOMAIN evs : evs[i].x \in Nat
  <2>1. \A i \in DOMAIN evs : evs[i] \in Event
    BY <1>1, Elems
  <2> QED
    BY <2>1 DEF Event, Xs
<1>10. \A j \in DOMAIN ds : tk.x <= ds[j].x /\ ds[j].x <= cur.x
  <2> TAKE j \in DOMAIN ds
  <2>1. ds[j].x <= cur.x
    BY <1>4 DEF Sorted, ds
  <2>2. 1 < j => ds[1].x < ds[j].x
    BY <1>4, <1>7 DEF Sorted, ds
  <2>3. j = 1 \/ 1 < j
    BY <1>7
  <2> QED
    BY <1>1, <1>2, <1>7, <1>8, <2>1, <2>2, <2>3
<1>11. PICK j \in DOMAIN ds : ds[j].x = evs[1].x
  BY <1>4, <1>5, <1>6 DEF Events, ds
<1>12. tk.x <= evs[1].x /\ evs[1].x <= cur.x
  BY <1>10, <1>11
<1>13. ASSUME NEW i \in DOMAIN evs, i > 1, Live(i, c) PROVE evs[i].x > tk.x
  <2>1. evs[1].x < evs[i].x
    BY <1>4, <1>5, <1>6, <1>13 DEF Events
  <2> QED
    BY <1>1, <1>5, <1>9, <1>12, <2>1
<1>14. ASSUME tk.x = cur.x
       PROVE  /\ cl \notin {"issueRx", "issueTx"} /\ Settled(c) /\ Len(ds) = 1
              /\ c = RX => Reads /\ Settled(TX) /\ hw[RX].links = 0
  <2>1. evs[1].x = cur.x
    BY <1>1, <1>5, <1>9, <1>12, <1>14
  <2>2. ~(1 < Len(ds))
    <3> SUFFICES ASSUME 1 < Len(ds) PROVE FALSE
      OBVIOUS
    <3>1. Len(ds) \in DOMAIN ds
      BY <1>7
    <3>2. ds[1].x < ds[Len(ds)].x
      BY <1>4, <1>7, <3>1 DEF Sorted, ds
    <3> QED
      BY <1>1, <1>2, <1>7, <1>8, <1>10, <1>14, <3>1, <3>2
  <2>3. Len(ds) = 1
    BY <1>7, <2>2
  <2> QED
    BY <1>4, <1>5, <1>6, <2>1, <2>3 DEF Events
<1> QED
  BY <1>1, <1>2, <1>3, <1>5, <1>6, <1>7, <1>13, <1>14 DEF c, ds

\* An event has been read: the others have come forward.
LEMMA EventsForward ==
  ASSUME Typed, NEW c \in Chans, Events(c), evs # <<>>, evs' = Tail(evs), UNCHANGED <<cl, cur, hw>>,
         \A i \in DOMAIN evs : i > 1 /\ Live(i, c) =>
            \E j \in DOMAIN vc'[c].issued : vc'[c].issued[j].x = evs[i].x
  PROVE  Events(c)'
<1>1. /\ Tail(evs) \in Seq(Event) /\ Len(Tail(evs)) = Len(evs) - 1
      /\ \A i \in 1 .. Len(Tail(evs)) : Tail(evs)[i] = evs[i + 1]
  BY HeadTailProperties DEF Typed, TypedRings
<1>2. DOMAIN evs = 1 .. Len(evs) /\ Len(evs) \in Nat /\ DOMAIN Tail(evs) = 1 .. Len(Tail(evs))
  BY <1>1, LenProperties DEF Typed, TypedRings
<1>3. ASSUME NEW i \in DOMAIN evs'
      PROVE  /\ i \in Nat /\ i + 1 \in DOMAIN evs /\ i + 1 > 1 /\ evs'[i] = evs[i + 1]
             /\ Live(i, c)' <=> Live(i + 1, c)
  <2>1. i \in Nat /\ i + 1 \in DOMAIN evs /\ i + 1 > 1 /\ evs'[i] = evs[i + 1]
    BY <1>1, <1>2, <1>3
  <2> QED
    BY <2>1 DEF Live
<1>4. (Reads' <=> Reads) /\ \A d \in Chans : Settled(d)' <=> Settled(d)
  BY DEF Reads, Settled
<1>5. ASSUME NEW i \in DOMAIN evs', NEW j \in DOMAIN evs', i < j, Live(i, c)', Live(j, c)'
      PROVE  evs'[i].x < evs'[j].x
  <2>1. i + 1 < j + 1
    BY <1>3, <1>5
  <2> QED
    BY <1>3, <1>5, <2>1 DEF Events
<1>6. ASSUME NEW i \in DOMAIN evs', Live(i, c)'
      PROVE  /\ \E j \in DOMAIN vc'[c].issued : vc'[c].issued[j].x = evs'[i].x
             /\ evs'[i].x = cur'.x => /\ cl' \notin {"issueRx", "issueTx"} /\ Settled(c)'
                                      /\ c = RX => Reads' /\ Settled(TX)' /\ hw'[RX].links = 0
  <2>1. PICK m : m = i + 1
    OBVIOUS
  <2>2. m \in DOMAIN evs /\ m > 1 /\ Live(m, c) /\ evs'[i] = evs[m]
    BY <1>3, <1>6, <2>1
  <2>3. evs[m].x = cur.x => /\ cl \notin {"issueRx", "issueTx"} /\ Settled(c)
                            /\ c = RX => Reads /\ Settled(TX) /\ hw[RX].links = 0
    BY <2>2 DEF Events
  <2>4. \E j \in DOMAIN vc'[c].issued : vc'[c].issued[j].x = evs[m].x
    BY <2>2
  <2> QED
    BY <1>4, <2>2, <2>3, <2>4, TwoChans
<1> QED
  BY <1>5, <1>6 DEF Events

\* What the tasklet does to the transfers: nothing, an event skipped, a descriptor found, its
\* callback, its end.
LEMMA TaskletTransfers ==
  ASSUME IInv, Transfers, Tasklet
  PROVE  Transfers'
<1>1. /\ Typed /\ vc \in [Chans -> Lists] /\ evs \in Seq(Event) /\ cur.x \in Nat
      /\ UNCHANGED <<hw, cl, cur>>
      /\ \/ UNCHANGED <<vc, evs, sig>> /\ tk.pc # "unlink" /\ tk'.pc \notin Held
         \/ /\ UNCHANGED <<vc, sig>> /\ tk.pc # "unlink" /\ tk'.pc \notin Held
            /\ evs # <<>> /\ evs' = Tail(evs)
         \/ /\ UNCHANGED <<vc, evs, sig>> /\ tk.pc # "unlink" /\ tk'.pc = "complete"
            /\ tk'.cb = Head(vc[tk'.ch].issued).cb
         \/ /\ UNCHANGED <<vc, evs>> /\ tk.pc = "complete" /\ tk'.pc = "unlink"
            /\ tk'.ch = tk.ch /\ tk'.x = tk.x /\ tk'.cb = tk.cb
            /\ ~tk.cb => sig' = sig
         \/ /\ UNCHANGED sig /\ tk.pc = "unlink" /\ tk'.pc \notin Held
            /\ vc' = [vc EXCEPT ![tk.ch].issued = Unlinked(@, tk.x)] /\ evs' = Tail(evs)
  BY TkEffects DEF IInv, Typed, TypedRings, TypedClient, Xfers, Xs
<1>2. /\ (Reads' <=> Reads) /\ (Idle' <=> Idle) /\ Linked /\ Prepared /\ Answered /\ Taken
      /\ \A c \in Chans : (Settled(c)' <=> Settled(c)) /\ Sorted(c) /\ Events(c)
  BY <1>1 DEF Reads, Idle, Settled, Transfers
<1>3. Reads' = Reads /\ cur' = cur /\ cl' = cl
  BY <1>1 DEF Reads
<1>4. Linked'
  BY <1>1, <1>2, TwoChans DEF Linked
\* Nothing is done to a descriptor.
<1>5. CASE UNCHANGED <<vc, sig>> /\ tk.pc # "unlink" /\ (evs' = evs \/ (evs # <<>> /\ evs' = Tail(evs))) /\ Taken'
  <2>1. Prepared'
    BY <1>1, <1>2, <1>5 DEF Prepared
  <2>2. ASSUME NEW c \in Chans PROVE Sorted(c)'
    BY <1>1, <1>2, <1>5, SortedKept
  <2>3. ASSUME NEW c \in Chans PROVE Events(c)'
    <3>1. CASE evs' = evs
      <4>1. \A i \in DOMAIN evs : Live(i, c)' <=> Live(i, c)
        BY <3>1 DEF Live
      <4>2. \A i, j \in DOMAIN evs' : i < j /\ Live(i, c)' /\ Live(j, c)' => evs'[i].x < evs'[j].x
        BY <1>2, <3>1, <4>1 DEF Events
      <4>3. ASSUME NEW i \in DOMAIN evs', Live(i, c)'
            PROVE  /\ \E j \in DOMAIN vc'[c].issued : vc'[c].issued[j].x = evs'[i].x
                   /\ evs'[i].x = cur'.x => /\ cl' \notin {"issueRx", "issueTx"} /\ Settled(c)'
                                            /\ c = RX => Reads' /\ Settled(TX)' /\ hw'[RX].links = 0
        BY <1>1, <1>2, <1>5, <3>1, <4>1, <4>3, TwoChans DEF Events
      <4> QED
        BY <4>2, <4>3 DEF Events
    <3>2. CASE evs # <<>> /\ evs' = Tail(evs)
      BY <1>1, <1>2, <1>5, <3>2, EventsForward DEF Events
    <3> QED
      BY <1>5, <3>1, <3>2
  <2>4. Answered'
    BY <1>2, <1>5 DEF Answered
  <2> QED
    BY <1>4, <1>5, <2>1, <2>2, <2>3, <2>4 DEF Transfers
\* The callback: that of the transfer in progress, which the hardware has finished.
<1>6. CASE /\ UNCHANGED <<vc, evs>> /\ tk.pc = "complete" /\ tk'.pc = "unlink"
           /\ tk'.ch = tk.ch /\ tk'.x = tk.x /\ tk'.cb = tk.cb
           /\ ~tk.cb => sig' = sig
  <2> DEFINE h == Head(vc[tk.ch].issued)
  <2>1. tk.pc \in Held
    BY <1>6 DEF Held
  <2>2. /\ tk.ch \in Chans /\ vc[tk.ch].issued \in Seq(Descs) /\ h.x = tk.x
        /\ 1 \in DOMAIN vc[tk.ch].issued /\ vc[tk.ch].issued[1] = h
        /\ tk.x = cur.x =>
             /\ cl \notin {"issueRx", "issueTx"} /\ Settled(tk.ch)
             /\ tk.ch = RX => Reads /\ Settled(TX) /\ hw[RX].links = 0
    BY <2>1, FirstEvent
  <2>3. h.cb = tk.cb
    BY <1>2, <2>1 DEF Taken
  <2> HIDE DEF h
  <2>4. tk.cb => tk.x = cur.x /\ (tk.ch = RX) = Reads
    BY <1>2, <1>6, <2>2, <2>3 DEF Sorted
  <2>5. tk.cb => Idle /\ cl \notin {"issueRx", "issueTx"}
    <3>1. CASE tk.cb /\ tk.ch = RX
      BY <2>2, <2>4, <3>1 DEF Idle
    <3>2. CASE tk.cb /\ tk.ch = TX
      <4>1. ~Reads /\ Settled(TX) /\ cl \notin {"issueRx", "issueTx"}
        BY <2>2, <2>4, <3>2, TwoChans
      <4> QED
        BY <1>2, <4>1 DEF Linked, Idle
    <3> QED
      BY <2>2, <3>1, <3>2, TwoChans
  <2>6. Prepared'
    BY <1>1, <1>2, <1>6, <2>5 DEF Prepared
  <2>7. Answered' /\ Taken'
    BY <1>1, <1>2, <1>6, <2>1, <2>5 DEF Answered, Taken
  <2>8. ASSUME NEW c \in Chans PROVE Sorted(c)'
    <3>1. Sorted(c)
      BY <1>2
    <3>2. \A i, j \in DOMAIN vc'[c].issued : i < j => vc'[c].issued[i].x < vc'[c].issued[j].x
      BY <1>6, <3>1 DEF Sorted
    <3>3. ASSUME NEW i \in DOMAIN vc[c].issued, NEW d, d = vc[c].issued[i]
          PROVE  /\ d.x <= cur'.x /\ (vc'[c].submitted # <<>> => d.x < cur'.x)
                 /\ d.x = cur'.x => d.cb = ((c = RX) = Reads')
                 /\ d.cb => \/ tk'.pc = "unlink" /\ tk'.ch = c /\ tk'.x = d.x
                            \/ d.x = cur'.x /\ sig' = "none" /\ cl' \in Busy
      <4>1. /\ d.x <= cur.x /\ (vc[c].submitted # <<>> => d.x < cur.x)
            /\ d.x = cur.x => d.cb = ((c = RX) = Reads)
            /\ d.cb => d.x = cur.x /\ sig = "none" /\ cl \in Busy
        BY <1>6, <3>1, <3>3 DEF Sorted
      <4>2. d.cb /\ tk.cb => tk.ch = c /\ tk.x = d.x
        BY <2>2, <2>4, <4>1, TwoChans
      <4>3. d.x <= cur'.x /\ (vc'[c].submitted # <<>> => d.x < cur'.x)
        BY <1>1, <1>6, <4>1
      <4>4. d.x = cur'.x => d.cb = ((c = RX) = Reads')
        BY <1>3, <4>1
      <4>5. d.cb => \/ tk'.pc = "unlink" /\ tk'.ch = c /\ tk'.x = d.x
                    \/ d.x = cur'.x /\ sig' = "none" /\ cl' \in Busy
        <5>1. CASE tk.cb
          BY <1>6, <4>2, <5>1
        <5>2. CASE ~tk.cb
          BY <1>1, <1>6, <4>1, <5>2
        <5> QED
          BY <5>1, <5>2
      <4> QED
        BY <4>3, <4>4, <4>5
    <3>4. ~Settled(c)' => \E i \in DOMAIN vc'[c].issued : vc'[c].issued[i].x = cur'.x
      BY <1>1, <1>2, <1>6, <3>1 DEF Sorted
    <3> QED
      BY <1>6, <3>2, <3>3, <3>4 DEF Sorted
  <2>9. ASSUME NEW c \in Chans PROVE Events(c)'
    <3>1. \A i \in DOMAIN evs : Live(i, c)' <=> Live(i, c)
      BY <1>6 DEF Live
    <3>2. \A i, j \in DOMAIN evs' : i < j /\ Live(i, c)' /\ Live(j, c)' => evs'[i].x < evs'[j].x
      BY <1>2, <1>6, <3>1 DEF Events
    <3>3. ASSUME NEW i \in DOMAIN evs', Live(i, c)'
          PROVE  /\ \E j \in DOMAIN vc'[c].issued : vc'[c].issued[j].x = evs'[i].x
                 /\ evs'[i].x = cur'.x => /\ cl' \notin {"issueRx", "issueTx"} /\ Settled(c)'
                                          /\ c = RX => Reads' /\ Settled(TX)' /\ hw'[RX].links = 0
      BY <1>1, <1>2, <1>6, <3>1, <3>3, TwoChans DEF Events
    <3> QED
      BY <3>2, <3>3 DEF Events
  <2> QED
    BY <1>4, <2>6, <2>7, <2>8, <2>9 DEF Transfers
\* The first descriptor goes, and its event with it.
<1>7. CASE /\ UNCHANGED sig /\ tk.pc = "unlink" /\ tk'.pc \notin Held
           /\ vc' = [vc EXCEPT ![tk.ch].issued = Unlinked(@, tk.x)] /\ evs' = Tail(evs)
  <2>0. PICK c \in Chans : c = tk.ch
    BY <1>1 DEF Typed, TypedTk
  <2> DEFINE ds == vc[c].issued
             r == Unlinked(ds, tk.x)
  <2>1. tk.pc \in Held
    BY <1>7 DEF Held
  <2>2. /\ c \in Chans /\ ds \in Seq(Descs) /\ ds # <<>> /\ Head(ds).x = tk.x
        /\ 1 \in DOMAIN evs
        /\ \A i \in DOMAIN evs : i > 1 /\ Live(i, c) => evs[i].x > tk.x
        /\ tk.x = cur.x => Settled(c)
    BY <2>0, <2>1, FirstEvent
  <2>3. \A d \in Chans : /\ vc'[d].submitted = vc[d].submitted
                         /\ vc'[d].issued = IF d = c THEN r ELSE vc[d].issued
    <3>1. vc[c] \in Lists
      BY <1>1, <2>2
    <3>2. \A d \in Chans : vc'[d] = IF d = c THEN [vc[c] EXCEPT !.issued = r] ELSE vc[d]
      BY <1>1, <1>7, <2>0
    <3> HIDE DEF r
    <3>3. [vc[c] EXCEPT !.issued = r].issued = r /\ [vc[c] EXCEPT !.issued = r].submitted = vc[c].submitted
      BY <3>1 DEF Lists
    <3> QED
      BY <3>2, <3>3
  <2>4. \A i, j \in DOMAIN ds : i < j => ds[i].x < ds[j].x
    BY <1>2, <2>2 DEF Sorted
  <2>5. PICK m : m = Len(ds)
    OBVIOUS
  <2>6. /\ DOMAIN r = 1 .. m - 1 /\ \A i \in 1 .. m - 1 : r[i] = ds[i + 1]
        /\ DOMAIN ds = 1 .. m /\ m \in Nat /\ m > 0 /\ ds[1].x = tk.x
    <3>1. /\ DOMAIN r = 1 .. Len(ds) - 1 /\ \A i \in 1 .. Len(ds) - 1 : r[i] = ds[i + 1]
          /\ DOMAIN ds = 1 .. Len(ds) /\ Len(ds) \in Nat /\ Len(ds) > 0 /\ Head(ds) = ds[1]
      BY <2>2, <2>4, UnlinksHead
    <3> QED
      BY <2>2, <2>5, <3>1
  <2> HIDE DEF r, ds
  <2>7. \A i \in DOMAIN r : i + 1 \in DOMAIN ds /\ i + 1 > 1 /\ r[i] = ds[i + 1] /\ i \in Nat
    BY <2>6
  <2>8. \A j \in DOMAIN ds : j # 1 => j - 1 \in DOMAIN r /\ r[j - 1] = ds[j]
    <3> SUFFICES ASSUME NEW j \in DOMAIN ds, j # 1 PROVE j - 1 \in DOMAIN r /\ r[j - 1] = ds[j]
      OBVIOUS
    <3>1. j \in Nat /\ j - 1 \in 1 .. m - 1 /\ (j - 1) + 1 = j
      BY <2>6
    <3> QED
      BY <2>6, <3>1
  <2>9. \A i \in DOMAIN ds : ds[i].x \in Nat
    <3>1. \A i \in DOMAIN ds : ds[i] \in Descs
      BY <2>2, Elems
    <3> QED
      BY <3>1, DescTyped DEF Xs
  <2>10. tk.x \in Nat
    BY <1>1 DEF Typed, TypedTk, Xs
  <2>11. Prepared'
    BY <1>1, <1>2, <1>7, <2>3, TwoChans DEF Prepared
  <2>12. Answered' /\ Taken'
    BY <1>1, <1>2, <1>7 DEF Answered, Taken
  <2>13. ASSUME NEW d \in Chans PROVE Sorted(d)'
    <3>1. Sorted(d)
      BY <1>2
    <3>2. CASE d = c
      <4>1. Sorted(c) /\ vc'[c].issued = r /\ vc'[c].submitted = vc[c].submitted
        BY <2>3, <3>1, <3>2
      <4>2. ASSUME NEW i \in DOMAIN r, NEW j \in DOMAIN r, i < j PROVE r[i].x < r[j].x
        <5>1. i + 1 < j + 1
          BY <2>7, <4>2
        <5> QED
          BY <2>4, <2>7, <4>2, <5>1
      <4>3. ASSUME NEW i \in DOMAIN r, NEW e, e = r[i]
            PROVE  /\ e.x <= cur'.x /\ (vc'[c].submitted # <<>> => e.x < cur'.x)
                   /\ e.x = cur'.x => e.cb = ((c = RX) = Reads')
                   /\ e.cb => \/ tk'.pc = "unlink" /\ tk'.ch = c /\ tk'.x = e.x
                              \/ e.x = cur'.x /\ sig' = "none" /\ cl' \in Busy
        <5>1. PICK j : j = i + 1
          OBVIOUS
        <5>2. j \in DOMAIN ds /\ j > 1 /\ e = ds[j]
          BY <2>7, <4>3, <5>1
        <5>3. e.x # tk.x
          <6>1. 1 \in DOMAIN ds /\ ds[1].x < ds[j].x
            BY <2>4, <2>6, <5>2
          <6> QED
            BY <2>6, <2>9, <2>10, <5>2, <6>1
        <5>4. /\ e.x <= cur.x /\ (vc[c].submitted # <<>> => e.x < cur.x)
              /\ e.x = cur.x => e.cb = ((c = RX) = Reads)
              /\ e.cb => e.x = cur.x /\ sig = "none" /\ cl \in Busy
          BY <4>1, <5>2, <5>3 DEF Sorted, ds
        <5>5. e.x = cur'.x => e.cb = ((c = RX) = Reads')
          BY <1>3, <5>4
        <5>6. e.x <= cur'.x /\ (vc'[c].submitted # <<>> => e.x < cur'.x)
          BY <1>3, <4>1, <5>4
        <5>7. e.cb => e.x = cur'.x /\ sig' = "none" /\ cl' \in Busy
          BY <1>3, <1>7, <5>4
        <5> QED
          BY <5>5, <5>6, <5>7
      <4>4. ASSUME ~Settled(c)' PROVE \E i \in DOMAIN r : r[i].x = cur'.x
        <5>1. ~Settled(c) /\ tk.x # cur.x
          BY <1>2, <2>2, <4>4
        <5>2. PICK j \in DOMAIN ds : ds[j].x = cur.x
          BY <4>1, <5>1 DEF Sorted, ds
        <5>3. j # 1
          BY <2>6, <5>1, <5>2
        <5> QED
          BY <1>1, <2>8, <5>2, <5>3
      <4>5. Sorted(c)'
        BY <4>1, <4>2, <4>3, <4>4 DEF Sorted
      <4> QED
        BY <3>2, <4>5
    <3>3. CASE d # c
      <4>1. vc'[d].issued = vc[d].issued /\ vc'[d].submitted = vc[d].submitted
        BY <2>3, <3>3
      <4>2. \A i, j \in DOMAIN vc'[d].issued : i < j => vc'[d].issued[i].x < vc'[d].issued[j].x
        BY <3>1, <4>1 DEF Sorted
      <4>3. ASSUME NEW i \in DOMAIN vc[d].issued, NEW e, e = vc[d].issued[i]
            PROVE  /\ e.x <= cur'.x /\ (vc'[d].submitted # <<>> => e.x < cur'.x)
                   /\ e.x = cur'.x => e.cb = ((d = RX) = Reads')
                   /\ e.cb => \/ tk'.pc = "unlink" /\ tk'.ch = d /\ tk'.x = e.x
                              \/ e.x = cur'.x /\ sig' = "none" /\ cl' \in Busy
        <5>1. /\ e.x <= cur.x /\ (vc[d].submitted # <<>> => e.x < cur.x)
              /\ e.x = cur.x => e.cb = ((d = RX) = Reads)
              /\ e.cb => \/ tk.pc = "unlink" /\ tk.ch = d /\ tk.x = e.x
                         \/ e.x = cur.x /\ sig = "none" /\ cl \in Busy
          BY <3>1, <4>3 DEF Sorted
        <5>2. tk.ch # d
          BY <2>0, <3>3
        <5>3. e.x = cur'.x => e.cb = ((d = RX) = Reads')
          BY <1>3, <5>1
        <5>4. e.x <= cur'.x /\ (vc'[d].submitted # <<>> => e.x < cur'.x)
          BY <1>3, <4>1, <5>1
        <5>5. e.cb => e.x = cur'.x /\ sig' = "none" /\ cl' \in Busy
          BY <1>7, <1>3, <2>0, <5>1, <5>2
        <5> QED
          BY <5>3, <5>4, <5>5
      <4>4. ~Settled(d)' => \E i \in DOMAIN vc'[d].issued : vc'[d].issued[i].x = cur'.x
        BY <1>1, <1>2, <3>1, <4>1 DEF Sorted
      <4> QED
        BY <4>1, <4>2, <4>3, <4>4 DEF Sorted
    <3> QED
      BY <3>2, <3>3
  <2>14. ASSUME NEW d \in Chans PROVE Events(d)'
    <3>1. evs # <<>>
      BY <1>1, <2>2, EmptySeq
    <3>2. ASSUME NEW i \in DOMAIN evs, i > 1, Live(i, d)
          PROVE  \E j \in DOMAIN vc'[d].issued : vc'[d].issued[j].x = evs[i].x
      <4>1. PICK j \in DOMAIN vc[d].issued : vc[d].issued[j].x = evs[i].x
        BY <1>2, <3>2 DEF Events
      <4>2. CASE d # c
        BY <2>3, <4>1, <4>2
      <4>3. CASE d = c
        <5>1. evs[i].x > tk.x
          BY <2>2, <3>2, <4>3
        <5>2. j \in DOMAIN ds /\ ds[j].x = evs[i].x
          BY <4>1, <4>3 DEF ds
        <5>3. j # 1
          BY <2>6, <2>10, <5>1, <5>2
        <5>4. vc'[d].issued = r
          BY <2>3, <4>3
        <5> QED
          BY <2>8, <5>2, <5>3, <5>4
      <4> QED
        BY <4>2, <4>3
    <3> QED
      BY <1>1, <1>2, <1>7, <3>1, <3>2, EventsForward
  <2> QED
    BY <1>4, <2>11, <2>12, <2>13, <2>14 DEF Transfers
<1>8. \/ UNCHANGED <<vc, sig>> /\ tk.pc # "unlink" /\ (evs' = evs \/ (evs # <<>> /\ evs' = Tail(evs))) /\ Taken'
      \/ tk.pc = "complete" /\ tk'.pc = "unlink"
      \/ tk.pc = "unlink"
  BY <1>1 DEF Taken, Held
<1> QED
  BY <1>1, <1>5, <1>6, <1>7, <1>8 DEF Held

\* The tasklet keeps the invariant.
LEMMA TaskletKeepsRings ==
  ASSUME IInv, RInv, Tasklet
  PROVE  RInv'
<1> SUFFICES ASSUME ~dirty'
             PROVE  /\ (cl' \notin Busy => Idle') /\ \A d \in Chans : Arc(d)'
                    /\ Clean' => \E k \in Nat, n \in Nat : Handled(k, n)'
                    /\ Clean' /\ cl' \in Running => Transfers'
  BY DEF RInv
<1>1. /\ UNCHANGED <<hw, slot, script, sent, ret, cpm, chState, cmds, cl, cur, dirty>>
      /\ \A c \in Chans : /\ ring'[c].wp = ring[c].wp
                          /\ ring'[c] = ring[c] \/ (cpm[c] = "ACTIVE" /\ vc[c].issued # <<>>)
      /\ \A c \in Chans : vc[c] = NoDescs => vc'[c] = NoDescs
      /\ evs = <<>> => evs' = <<>>
  BY TkEffects
<1>2. (cl' \notin Busy => Idle') /\ \A d \in Chans : Arc(d)'
  BY <1>1, CalmRings DEF RInv
<1>3. Clean' <=> Clean
  BY <1>1 DEF Clean
<1>4. ASSUME Clean' PROVE \E k \in Nat, n \in Nat : Handled(k, n)'
  <2>1. PICK k \in Nat, n \in Nat : Handled(k, n)
    BY <1>1, <1>3, <1>4 DEF RInv
  <2>2. Place(k, n)'
    BY <1>1, <2>1 DEF Handled, Place, At
  <2>3. /\ \A c \in Chans : (Up(c, k)' <=> Up(c, k)) /\ (HwUp(c)' <=> HwUp(c)) /\ (Zero(c)' <=> Zero(c))
        /\ \A cmd, c : Sent(cmd, c)' <=> Sent(cmd, c)
    BY <1>1 DEF Up, HwUp, Zero, Sent, Head1
  <2>4. Late(k)'
    BY <1>1, <2>1, <2>3 DEF Handled, Late
  <2>5. \A c \in Chans : Agrees(c, k)'
    BY <1>1, <2>1, <2>3 DEF Handled, Agrees
  <2>6. Stage(k, n)'
    <3>0. ASSUME NEW c \in Chans, Still(c), cpm[c] # "ACTIVE" \/ vc[c].issued = <<>> PROVE Still(c)'
      BY <1>1, <3>0 DEF Still
    <3>1. Stage(k, n) /\ NoDescs.issued = <<>>
      BY <2>1 DEF Handled, NoDescs
    <3>2. cl \in Taking => \A c \in Chans : Still(c) => Still(c)'
      BY <3>0, <3>1, TwoChans DEF IInv, Empty
    <3>3. Cleared(11, 0) => Cleared(11, 0)'
      BY <1>1, <2>3, <3>0, <3>1, TwoChans DEF Cleared, Past
    <3>4. cl = "terminateTx" => Cleared(k, n)'
      <4> SUFFICES ASSUME cl = "terminateTx" PROVE Cleared(k, n)'
        OBVIOUS
      <4>1. Turned(k, n) /\ Cleared(k, n)
        BY <3>1 DEF Stage, Stopping
      <4>2. (k > 6 \/ (k = 6 /\ n < 2)) => cpm[TX] # "ACTIVE" \/ vc[TX].issued = <<>>
        BY <3>1, <4>1 DEF Turned, Cleared, Past
      <4>3. (k > 8 \/ (k = 8 /\ n < 2)) => cpm[RX] # "ACTIVE" \/ vc[RX].issued = <<>>
        BY <3>1, <4>1 DEF Turned, Cleared, Past
      <4> QED
        BY <1>1, <2>3, <3>0, <4>1, <4>2, <4>3, TwoChans DEF Cleared
    <3>5. Turned(k, n) => Turned(k, n)'
      BY <1>1 DEF Turned
    <3> HIDE DEF Cleared
    <3> QED
      BY <1>1, <2>3, <3>1, <3>2, <3>3, <3>4, <3>5, TwoChans DEF Stage, Taking
  <2> QED
    BY <2>2, <2>4, <2>5, <2>6 DEF Handled
<1>5. Clean' /\ cl' \in Running => Transfers'
  BY <1>1, <1>3, TaskletTransfers DEF RInv
<1> QED
  BY <1>2, <1>4, <1>5

-----------------------------------------------------------------------------
(* The controller *)

\* Between two handlers, and when none moves, what is known of the channels stays.
LEMMA CalmCommands ==
  ASSUME NEW k, NEW k2, Late(k), \A c \in Chans : Agrees(c, k), UNCHANGED <<cmds, chState, hw>>,
         (~sent /\ ~sent') \/ UNCHANGED <<script, sent>>,
         \A c \in Chans : Up(c, k2)' <=> Up(c, k)
  PROVE  Late(k2)' /\ \A c \in Chans : Agrees(c, k2)'
<1>1. \A cmd, c : Sent(cmd, c)' <=> Sent(cmd, c)
  BY DEF Sent, Head1
<1>2. \A c \in Chans : (HwUp(c)' <=> HwUp(c)) /\ (Zero(c)' <=> Zero(c))
  BY DEF HwUp, Zero
<1>3. Late(k2)'
  BY <1>1 DEF Late
<1>4. ASSUME NEW c \in Chans PROVE Agrees(c, k2)'
  BY <1>1, <1>2 DEF Agrees
<1> QED
  BY <1>3, <1>4

\* A handler starts at the first step of its script.
LEMMA Starts ==
  ASSUME NEW s \in Seq(AnyStep), script' = s
  PROVE  At(s, 1, 0)'
<1>1. Len(s) \in Nat
  BY LenProperties
<1>2. 1 \in 1 .. Len(s) + 1 /\ 0 \in Nat /\ ~(0 > 0)
  BY <1>1
<1>3. From(s, 1) = s
  BY AllLeft
<1>4. Rest(s, 1, 0) = s
  BY <1>3 DEF Rest
<1> QED
  BY <1>2, <1>4 DEF At

\* The controller moves between two transfers, or waits for one in another place.
LEMMA MovedTransfers ==
  ASSUME Transfers, UNCHANGED <<hw, vc, evs, tk, cur, sig>>,
         cl \notin {"issueRx", "issueTx"}, cl' \notin {"issueRx", "issueTx"},
         Idle \/ cl' \in {"wait", "failed", "terminateTx"},
         (sig = "none" /\ cl \in Busy => cl' \in Busy) \/ \A c \in Chans : vc[c] = NoDescs
  PROVE  Transfers'
<1>1. /\ (Reads' <=> Reads) /\ (Idle' <=> Idle) /\ Linked /\ Prepared /\ Answered /\ Taken
      /\ \A c \in Chans : (Settled(c)' <=> Settled(c)) /\ Sorted(c) /\ Events(c)
  BY DEF Reads, Idle, Settled, Transfers
<1>2. Linked'
  BY <1>1, TwoChans DEF Linked, Idle
<1>3. Prepared' /\ Answered' /\ Taken'
  BY <1>1 DEF Prepared, Answered, Taken
<1>4. ASSUME NEW c \in Chans PROVE Sorted(c)'
  <2>1. CASE sig = "none" /\ cl \in Busy => cl' \in Busy
    BY <1>1, <2>1, SortedKept
  <2>2. CASE vc[c] = NoDescs
    <3>1. vc'[c].issued = <<>> /\ vc[c].issued = <<>>
      BY <2>2 DEF NoDescs
    <3>2. Settled(c)'
      BY <1>1, <3>1 DEF Sorted
    <3> QED
      BY <3>1, <3>2 DEF Sorted
  <2> QED
    BY <2>1, <2>2
<1>5. ASSUME NEW c \in Chans PROVE Events(c)'
  <2>1. \A i \in DOMAIN evs : Live(i, c)' <=> Live(i, c)
    BY DEF Live
  <2>2. \A i, j \in DOMAIN evs' : i < j /\ Live(i, c)' /\ Live(j, c)' => evs'[i].x < evs'[j].x
    BY <1>1, <2>1 DEF Events
  <2>3. ASSUME NEW i \in DOMAIN evs', Live(i, c)'
        PROVE  /\ \E j \in DOMAIN vc'[c].issued : vc'[c].issued[j].x = evs'[i].x
               /\ evs'[i].x = cur'.x => /\ cl' \notin {"issueRx", "issueTx"} /\ Settled(c)'
                                        /\ c = RX => Reads' /\ Settled(TX)' /\ hw'[RX].links = 0
    BY <1>1, <2>1, <2>3, TwoChans DEF Events
  <2> QED
    BY <2>2, <2>3 DEF Events
<1> QED
  BY <1>2, <1>3, <1>4, <1>5 DEF Transfers

\* A channel is taken.
LEMMA GrabKeepsRings ==
  ASSUME IInv, RInv, GrabTx \/ GrabTxFailed \/ GrabRx, ~dirty'
  PROVE  RInv'
<1>1. /\ Typed /\ script = <<>> /\ ~sent /\ ~dirty /\ cl \in {"off", "grabTx"} /\ cl' \in {"off", "grabTx", "grabRx"}
      /\ UNCHANGED <<hw, slot, chState, cmds, cur>> /\ ~sent' /\ Clean
      /\ cpm \in [Chans -> PmStates] /\ ring \in [Chans -> [on : BOOLEAN, rp : Slots, wp : Slots]]
  <2>1. Typed /\ (sent => script # <<>>)
    BY DEF IInv, Typed, TypedScript
  <2>2. script = <<>> /\ cl \in {"off", "grabTx"} /\ ~dirty
    BY DEF GrabTx, GrabTxFailed, GrabRx, Calls, Returns, Alloc, AllocFails, Enter, Client
  <2>3. cl' \in {"off", "grabTx", "grabRx"}
    BY DEF GrabTx, GrabTxFailed, GrabRx, Calls
  <2>4. UNCHANGED <<hw, slot, chState, cmds, cur>>
    BY DEF GrabTx, GrabTxFailed, GrabRx, Alloc, AllocFails, Quiet, hwVars, Client, gpiVars
  <2>5. ~sent'
    BY <2>1, <2>2 DEF GrabTx, GrabTxFailed, GrabRx, Alloc, AllocFails, Enter, Client, gpiVars
  <2> QED
    BY <2>1, <2>2, <2>3, <2>4, <2>5 DEF Clean, Stopping, Typed, TypedRegs, TypedRings
<1>2. Idle /\ PmStates # {} /\ (\A c \in Chans : Arc(c)) /\ \E k \in Nat, n \in Nat : Handled(k, n)
  BY <1>1 DEF RInv, Busy, PmStates
<1>3. Idle' /\ \A c \in Chans : Arc(c)'
  <2>1. Idle' /\ \A c \in Chans : Settled(c)'
    BY <1>1, <1>2, TwoChans DEF Idle, Settled
  <2> QED
    BY <2>1 DEF Arc
<1>4. PICK k \in Nat, n \in Nat : Handled(k, n)
  BY <1>2
<1>5. Late(k) /\ Stage(k, n) /\ \A c \in Chans : Agrees(c, k)
  BY <1>4 DEF Handled
<1>6. \A c \in Chans : Up(c, 1)' <=> Up(c, k)
  <2>1. \A c \in Chans : ~Up(c, k) /\ ~Up(c, 1)'
    BY <1>1, TwoChans DEF Up, InUse, Running, Stopping
  <2> QED
    BY <2>1
<1>7. Late(1)' /\ \A c \in Chans : Agrees(c, 1)'
  BY <1>1, <1>5, <1>6, CalmCommands
<1>8. CASE GrabTx
  <2>1. cl = "off" /\ cl' = "grabTx" /\ \A c \in Chans : cpm[c] = "DISABLE"
    BY <1>5, <1>8 DEF Stage, GrabTx, Calls
  <2>2. /\ script' = <<>> /\ cpm'[RX] = "DISABLE" /\ cpm'[TX] = (IF ret' THEN "CONFIG" ELSE "DISABLE")
        /\ ret' => Still(TX)'
    <3>1. CASE Alloc(TX)
      <4>1. /\ ring' = [ring EXCEPT ![TX] = [on |-> TRUE, rp |-> 0, wp |-> 0]]
            /\ cpm' = [cpm EXCEPT ![TX] = "CONFIG"]
        BY <3>1 DEF Alloc
      <4>2. cpm'[RX] = "DISABLE" /\ cpm'[TX] = "CONFIG" /\ Still(TX)'
        BY <1>1, <2>1, <4>1, TwoChans DEF Still
      <4>3. ~\A d \in Chans : cpm'[d] = "CONFIG"
        BY <4>2, TwoChans
      <4>4. script' = <<>> /\ ret' = TRUE
        BY <3>1, <4>3 DEF Alloc, Enter
      <4> QED
        BY <4>2, <4>4
    <3>2. CASE AllocFails
      BY <1>1, <2>1, <3>2, TwoChans DEF AllocFails
    <3> QED
      BY <1>8, <3>1, <3>2 DEF GrabTx
  <2>3. Place(1, 0)' /\ Stage(1, 0)'
    BY <2>1, <2>2 DEF Place, Stage, InUse, Running, Stopping
  <2> QED
    BY <1>3, <1>7, <2>1, <2>3 DEF Handled, RInv, Running
<1>9. CASE GrabTxFailed
  <2>1. cl = "grabTx" /\ cl' = "off" /\ ~ret /\ script' = script /\ cpm' = cpm
    BY <1>9 DEF GrabTxFailed, Returns, Client, gpiVars, pmVars, ctlVars
  <2>2. \A c \in Chans : cpm'[c] = "DISABLE"
    BY <1>5, <2>1, TwoChans DEF Stage
  <2>3. Place(1, 0)' /\ Stage(1, 0)'
    BY <1>1, <2>1, <2>2 DEF Place, Stage, InUse, Running, Stopping
  <2> QED
    BY <1>3, <1>7, <2>1, <2>3 DEF Handled, RInv, Running
<1>10. CASE GrabRx
  <2>1. /\ cl = "grabTx" /\ cl' = "grabRx" /\ cpm[TX] = "CONFIG" /\ Still(TX)
        /\ Alloc(RX) \/ AllocFails
    BY <1>5, <1>10 DEF Stage, GrabRx, Returns
  <2>2. CASE Alloc(RX)
    <3>1. /\ ring' = [ring EXCEPT ![RX] = [on |-> TRUE, rp |-> 0, wp |-> 0]]
          /\ cpm' = [cpm EXCEPT ![RX] = "CONFIG"]
      BY <2>2 DEF Alloc
    <3>2. \A c \in Chans : cpm'[c] = "CONFIG" /\ Still(c)'
      BY <1>1, <2>1, <3>1, TwoChans DEF Still
    <3>3. script' = ChInit(RX)
      BY <2>2, <3>2 DEF Alloc, Enter
    <3>4. At(ChInit(RX), 1, 0)'
      BY <3>3, InitTable, Starts
    <3>5. Place(1, 0)'
      BY <2>1, <3>4 DEF Place, InUse, Running, Stopping
    <3>6. Stage(1, 0)'
      BY <2>1, <3>2 DEF Stage, InUse, Running, Stopping, Past
    <3> QED
      BY <1>3, <1>7, <2>1, <3>5, <3>6 DEF Handled, RInv, Running
  <2>3. CASE AllocFails
    <3>1. ~Clean'
      BY <2>1, <2>3 DEF AllocFails, Clean
    <3> QED
      BY <1>3, <3>1 DEF RInv
  <2> QED
    BY <2>1, <2>2, <2>3
<1> QED
  BY <1>8, <1>9, <1>10

\* A handler that is done has come to the end of its script.
LEMMA Finished ==
  ASSUME script = <<>>, NEW k, NEW n
  PROVE  /\ At(ChInit(RX), k, n) => k = 12 /\ n = 0
         /\ At(Terminating, k, n) => k = 11 /\ n = 0
         /\ \A c \in Chans : At(Freeing(c, "ACTIVE"), k, n) => k = 9 /\ n = 0
<1>1. ASSUME At(ChInit(RX), k, n) PROVE k = 12 /\ n = 0
  <2> DEFINE s == ChInit(RX)
  <2>1. /\ s \in Seq(AnyStep) /\ Len(s) = 11 /\ \A i \in 1 .. 9 : s[i].ok = <<>>
        /\ s[10].ok = <<SetCh(TX, "ACTIVE")>> /\ s[11].ok = <<SetCh(RX, "ACTIVE")>>
    BY InitTable
  <2>2. At(s, k, n)
    BY <1>1
  <2> HIDE DEF s
  <2>3. \A i \in 1 .. 11 : i \in 1 .. 9 \/ i = 10 \/ i = 11
    OBVIOUS
  <2>4. \A i \in 1 .. Len(s) : s[i].ok \in Oks
    BY <2>1, <2>3 DEF Oks
  <2>5. k = Len(s) + 1 /\ n = 0
    BY <2>1, <2>2, <2>4, Arrived
  <2> QED
    BY <2>1, <2>5
<1>2. ASSUME At(Terminating, k, n) PROVE k = 11 /\ n = 0
  <2> DEFINE s == Terminating
  <2>1. /\ s \in Seq(AnyStep) /\ Len(s) = 10 /\ \A i \in {1, 2, 3, 4, 6, 8} : s[i].ok = <<>>
        /\ s[5].ok = Wiped(TX) /\ s[7].ok = Wiped(RX)
        /\ s[9].ok = <<SetCh(TX, "ACTIVE")>> /\ s[10].ok = <<SetCh(RX, "ACTIVE")>>
    BY StopTable
  <2>2. At(s, k, n)
    BY <1>2
  <2> HIDE DEF s
  <2>3. \A i \in 1 .. 10 : i \in {1, 2, 3, 4, 6, 8} \/ i = 5 \/ i = 7 \/ i = 9 \/ i = 10
    OBVIOUS
  <2>4. \A i \in 1 .. Len(s) : s[i].ok \in Oks
    BY <2>1, <2>3 DEF Oks
  <2>5. k = Len(s) + 1 /\ n = 0
    BY <2>1, <2>2, <2>4, Arrived
  <2> QED
    BY <2>1, <2>5
<1>3. ASSUME NEW c \in Chans, At(Freeing(c, "ACTIVE"), k, n) PROVE k = 9 /\ n = 0
  <2> DEFINE s == Freeing(c, "ACTIVE")
  <2>1. /\ s \in Seq(AnyStep) /\ Len(s) = 8
        /\ s[4].ok = Wiped(c) /\ \A i \in {1, 2, 3, 5, 6, 7, 8} : s[i].ok = <<>>
    BY FreeTable
  <2>2. At(s, k, n)
    BY <1>3
  <2> HIDE DEF s
  <2>3. \A i \in 1 .. 8 : i \in {1, 2, 3, 5, 6, 7, 8} \/ i = 4
    OBVIOUS
  <2>4. s[4].ok \in Oks
    BY <2>1, TwoChans DEF Oks
  <2>5. \A i \in 1 .. Len(s) : s[i].ok \in Oks
    BY <2>1, <2>3, <2>4 DEF Oks
  <2>6. k = Len(s) + 1 /\ n = 0
    BY <2>1, <2>2, <2>5, Arrived
  <2> QED
    BY <2>1, <2>6
<1> QED
  BY <1>1, <1>2, <1>3

\* The controller goes on while neither the rings nor the channels move.
LEMMA MovesOn ==
  ASSUME RInv, ~dirty, NEW k \in Nat, Late(k), \A c \in Chans : Agrees(c, k), NEW k2 \in Nat,
         UNCHANGED <<hw, slot, cur, cmds, chState>>,
         (~sent /\ ~sent') \/ UNCHANGED <<script, sent>>,
         \A c \in Chans : Up(c, k2)' <=> Up(c, k),
         Place(k2, 0)', Stage(k2, 0)',
         Idle \/ cl' \in {"wait", "failed", "terminateTx"},
         cl' \in Running => Transfers'
  PROVE  RInv'
<1>1. Late(k2)' /\ \A c \in Chans : Agrees(c, k2)'
  BY CalmCommands
<1>2. Handled(k2, 0)'
  BY <1>1 DEF Handled
<1>3. 0 \in Nat
  OBVIOUS
<1>4. (Idle' <=> Idle) /\ \A c \in Chans : (Settled(c)' <=> Settled(c)) /\ Arc(c)
  BY DEF Idle, Settled, RInv
<1>5. (cl' \notin Busy => Idle')
  BY <1>4 DEF Busy
<1>6. ASSUME NEW c \in Chans PROVE Arc(c)'
  <2>1. CASE Idle
    <3>1. Settled(c)
      BY <2>1, TwoChans DEF Idle
    <3> QED
      BY <1>4, <3>1 DEF Arc
  <2>2. CASE cl' \in {"wait", "failed", "terminateTx"}
    BY <1>4, <2>2 DEF Arc, Busy
  <2> QED
    BY <2>1, <2>2
<1> QED
  BY <1>2, <1>3, <1>5, <1>6 DEF RInv

\* Both channels have been taken, or one is given back.
LEMMA BordersKeepRings ==
  ASSUME IInv, RInv, Grabbed \/ ReleaseRx \/ ReleaseTx \/ Released, ~dirty'
  PROVE  RInv'
<1>1. /\ Typed /\ script = <<>> /\ ~sent /\ ~sent' /\ ~dirty /\ Idle /\ cl \notin Stopping
      /\ UNCHANGED <<hw, slot, cur, cmds, chState, cpm, ring, vc, evs, tk, sig>>
  <2>1. Typed /\ (sent => script # <<>>)
    BY DEF IInv, Typed, TypedScript
  <2>2. /\ script = <<>> /\ ~dirty
        /\ UNCHANGED <<hw, slot, cur, cmds, chState, cpm, ring, vc, evs, tk, sig>>
    BY DEF Grabbed, ReleaseRx, ReleaseTx, Released, Calls, Returns, Free, Enter, Quiet, hwVars,
           Client, gpiVars
  <2>3. cl \in {"grabRx", "ready", "freeRx", "freeTx"}
    BY DEF Grabbed, ReleaseRx, ReleaseTx, Released, Calls, Returns
  <2>4. ~sent'
    BY <2>1, <2>2 DEF Grabbed, ReleaseRx, ReleaseTx, Released, Free, Enter, Client, gpiVars
  <2> QED
    BY <2>1, <2>2, <2>3, <2>4 DEF RInv, Busy, Stopping
<1>2. CASE Grabbed
  <2>1. cl = "grabRx" /\ cl' = "ready" /\ ret /\ script' = <<>>
    BY <1>2, <1>1 DEF Grabbed, Returns, Client, gpiVars
  <2>2. Clean
    BY <1>1, <2>1 DEF Clean
  <2>3. PICK k \in Nat, n \in Nat : Handled(k, n)
    BY <1>1, <2>2 DEF RInv
  <2>4. Place(k, n) /\ Late(k) /\ Stage(k, n) /\ \A c \in Chans : Agrees(c, k)
    BY <2>3 DEF Handled
  <2>5. k = 12 /\ n = 0
    BY <1>1, <2>1, <2>4, Finished DEF Place
  <2>6. /\ \A c \in Chans : ring[c].wp = 0 /\ Zero(c) /\ cpm[c] = "ACTIVE"
        /\ evs = <<>>
    BY <2>1, <2>4, <2>5, TwoChans DEF Stage, Past, Still
  <2>7. \A c \in Chans : Up(c, 1)' <=> Up(c, k)
    BY <2>1, <2>5 DEF Up, InUse, Running, Stopping
  <2>8. Place(1, 0)'
    BY <2>1, EmptySeq DEF Place, InUse, Running, Stopping
  <2>9. Stage(1, 0)'
    BY <1>1, <2>1, <2>6 DEF Stage, Zero, InUse, Running, Stopping
  <2>10. Transfers'
    <3>1. \A c \in Chans : vc'[c] = NoDescs
      BY <1>1, <2>1, TwoChans DEF IInv, Empty, Taking
    <3>2. \A c \in Chans : vc'[c].submitted = <<>> /\ vc'[c].issued = <<>>
      BY <3>1 DEF NoDescs
    <3>3. Idle' /\ \A c \in Chans : Settled(c)'
      BY <1>1, TwoChans DEF Idle, Settled
    <3>4. Linked'
      BY <3>3, TwoChans DEF Linked, Idle
    <3>5. Prepared' /\ Answered'
      BY <2>1, <3>2, <3>3, TwoChans DEF Prepared, Answered
    <3>6. \A c \in Chans : Sorted(c)' /\ Events(c)'
      BY <1>1, <2>6, <3>2, <3>3 DEF Sorted, Events
    <3>7. Taken'
      BY <1>1, <2>6 DEF Taken, IInv, DescriptorStays, Held
    <3> QED
      BY <3>4, <3>5, <3>6, <3>7 DEF Transfers
  <2> QED
    BY <1>1, <2>4, <2>7, <2>8, <2>9, <2>10, MovesOn
<1>3. ASSUME ~Grabbed
      PROVE  RInv'
  <2>0. cl \notin {"grabRx"} \cup Stopping /\ cl' \notin Running
    BY <1>1, <1>3 DEF ReleaseRx, ReleaseTx, Released, Calls, Returns, Stopping, Running
  <2>1. Clean
    BY <1>1, <2>0 DEF Clean
  <2>2. PICK k \in Nat, n \in Nat : Handled(k, n)
    BY <1>1, <2>1 DEF RInv
  <2>3. Place(k, n) /\ Late(k) /\ Stage(k, n) /\ \A c \in Chans : Agrees(c, k)
    BY <2>2 DEF Handled
  <2>4. SUFFICES (\A c \in Chans : Up(c, 1)' <=> Up(c, k)) /\ Place(1, 0)' /\ Stage(1, 0)'
    BY <1>1, <2>0, <2>3, MovesOn
  <2>5. CASE ReleaseRx
    <3>1. cl = "ready" /\ cl' = "freeRx" /\ script' = Freeing(RX, cpm[RX])
      BY <2>5 DEF ReleaseRx, Calls, Free, Enter
    <3>2. \A c \in Chans : cpm[c] = "ACTIVE"
      BY <2>3, <3>1 DEF Stage, InUse, Running, Stopping
    <3>3. At(Freeing(RX, "ACTIVE"), 1, 0)'
      BY <3>1, <3>2, FreeTable, Starts, TwoChans
    <3>4. Place(1, 0)'
      BY <3>1, <3>3 DEF Place, InUse, Running, Stopping
    <3>5. Stage(1, 0)'
      BY <1>1, <3>1, <3>2, TwoChans DEF Stage, InUse, Running, Stopping
    <3>6. \A c \in Chans : Up(c, 1)' <=> Up(c, k)
      BY <3>1 DEF Up, InUse, Running, Stopping
    <3> QED
      BY <3>4, <3>5, <3>6
  <2>6. CASE ReleaseTx
    <3>1. cl = "freeRx" /\ cl' = "freeTx" /\ script' = Freeing(TX, cpm[TX])
      BY <2>6 DEF ReleaseTx, Returns, Free, Enter
    <3>2. k = 9 /\ n = 0
      BY <1>1, <2>3, <3>1, Finished, TwoChans DEF Place
    <3>3. cpm[TX] = "ACTIVE" /\ cpm[RX] = "DISABLE"
      BY <2>3, <3>1, <3>2 DEF Stage
    <3>4. At(Freeing(TX, "ACTIVE"), 1, 0)'
      BY <3>1, <3>3, FreeTable, Starts, TwoChans
    <3>5. Place(1, 0)'
      BY <3>1, <3>4 DEF Place, InUse, Running, Stopping
    <3>6. Stage(1, 0)'
      BY <1>1, <3>1, <3>3 DEF Stage, InUse, Running, Stopping
    <3>7. \A c \in Chans : Up(c, 1)' <=> Up(c, k)
      BY <3>1, <3>2 DEF Up, InUse, Running, Stopping
    <3> QED
      BY <3>5, <3>6, <3>7
  <2>7. CASE Released
    <3>1. cl = "freeTx" /\ cl' = "off" /\ script' = <<>>
      BY <1>1, <2>7 DEF Released, Returns, Client, gpiVars
    <3>2. k = 9 /\ n = 0
      BY <1>1, <2>3, <3>1, Finished, TwoChans DEF Place
    <3>3. cpm[TX] = "DISABLE" /\ cpm[RX] = "DISABLE"
      BY <2>3, <3>1, <3>2 DEF Stage
    <3>4. Place(1, 0)'
      BY <3>1 DEF Place, InUse, Running, Stopping
    <3>5. Stage(1, 0)'
      BY <1>1, <3>1, <3>3, TwoChans DEF Stage, InUse, Running, Stopping
    <3>6. \A c \in Chans : Up(c, 1)' <=> Up(c, k)
      BY <3>1, <3>2 DEF Up, InUse, Running, Stopping
    <3> QED
      BY <3>4, <3>5, <3>6
  <2> QED
    BY <1>3, <2>5, <2>6, <2>7
<1> QED
  BY <1>2, <1>3

\* What pauses and resumes the channels.
LEMMA PauseScripts ==
  Pausing \in Seq(PauseSteps) /\ Resuming \in Seq(PauseSteps)
<1> DEFINE P == PauseSteps
           a1 == Must(StopChan(TX), <<>>)
           a2 == Must(StopChan(RX), <<>>)
           a3 == Step("disableIrq", TX)
           a4 == Step("killTasklet", TX)
           a5 == SetPm("PAUSE")
           b1 == Step("enableIrq", TX)
           b2 == Must(Cmd("START", TX), <<>>)
           b3 == Must(Cmd("START", RX), <<>>)
           b4 == SetPm("ACTIVE")
<1>1. {a1, a2, a3, a4, a5, b1, b2, b3, b4} \subseteq AnyStep
  <2>1. Steps(AllKinds) \subseteq AnyStep
    BY DEF AnyStep
  <2>2. Plain(AllKinds) \subseteq AnyStep /\ <<>> \in Seq(Undo(AllKinds))
    BY <2>1, StepSets, EmptySeq
  <2>3. {"setPm", "setCh", "cmd", "killTasklet", "disableIrq", "enableIrq", "resetRing", "wipe"} \subseteq AllKinds
    BY DEF AllKinds, InitKinds, RunKinds
  <2>4. /\ TX \in Chans /\ RX \in Chans /\ {"PAUSE", "ACTIVE"} \subseteq PmStates
        /\ RegAccessValid("PAUSE") /\ RegAccessValid("ACTIVE")
    BY DEF Chans, PmStates, RegAccessValid
  <2>5. {a3, a4, a5, b1, b4} \subseteq Plain(AllKinds)
    BY <2>3, <2>4, PlainSteps
  <2>6. {a1, a2, b2, b3} \subseteq Steps(AllKinds)
    <3>1. \A c \in Chans, cmd \in Cmds : Must(Cmd(cmd, c), <<>>) \in Steps(AllKinds)
      BY <2>2, <2>3, CmdSteps
    <3> QED
      BY <2>4, <3>1, CmdNames DEF StopChan
  <2> HIDE DEF a1, a2, a3, a4, a5, b1, b2, b3, b4
  <2> QED
    BY <2>1, <2>2, <2>5, <2>6
<1>2. /\ a1.ok = <<>> /\ a1.bad = <<>> /\ a1.do = "cmd" /\ a1.val = "STOP"
      /\ a2.ok = <<>> /\ a2.bad = <<>> /\ a2.do = "cmd" /\ a2.val = "STOP"
      /\ a3.ok = <<>> /\ a3.bad = <<>> /\ a3.do = "disableIrq"
      /\ a4.ok = <<>> /\ a4.bad = <<>> /\ a4.do = "killTasklet"
      /\ a5.ok = <<>> /\ a5.bad = <<>> /\ a5.do = "setPm"
      /\ b1.ok = <<>> /\ b1.bad = <<>> /\ b1.do = "enableIrq"
      /\ b2.ok = <<>> /\ b2.bad = <<>> /\ b2.do = "cmd" /\ b2.val = "START"
      /\ b3.ok = <<>> /\ b3.bad = <<>> /\ b3.do = "cmd" /\ b3.val = "START"
      /\ b4.ok = <<>> /\ b4.bad = <<>> /\ b4.do = "setPm"
  BY DEF Must, StopChan, SetPm, Step, Cmd
<1>3. Pausing = <<a1, a2, a3, a4, a5>> /\ Resuming = <<b1, b2, b3, b4>>
  BY DEF Pausing, Resuming
<1> HIDE DEF a1, a2, a3, a4, a5, b1, b2, b3, b4
<1>4. {a1, a2, a3, a4, a5, b1, b2, b3, b4} \subseteq P
  BY <1>1, <1>2 DEF PauseSteps
<1> HIDE DEF P
<1>5. <<a1, a2, a3, a4, a5>> \in Seq(P) /\ <<b1, b2, b3, b4>> \in Seq(P)
  BY <1>4
<1> QED
  BY <1>3, <1>5 DEF P

\* A transfer ends, and the channels are terminated, or another user pauses them.
LEMMA WaitsKeepRings ==
  ASSUME IInv, RInv, WaitEnds \/ TerminateTx \/ TerminateRx \/ Terminated \/ PauseOrResume, ~dirty'
  PROVE  RInv'
<1>1. /\ Typed /\ ~dirty /\ cl \in {"wait", "failed", "terminateTx", "terminateRx"}
      /\ UNCHANGED <<hw, slot, cur, cmds, chState, cpm, ring, vc, evs, tk, sig>>
      /\ (~sent /\ ~sent') \/ UNCHANGED <<script, sent>>
      /\ cl \in Stopping => ret /\ script = <<>>
  <2>1. Typed /\ (sent => script # <<>>)
    BY DEF IInv, Typed, TypedScript
  <2>2. ~dirty /\ UNCHANGED <<hw, slot, cur, cmds, chState, cpm, ring, vc, evs, tk, sig>>
    <3>0. WaitEnds \/ TerminateTx \/ PauseOrResume => dirty' = dirty
      BY DEF WaitEnds, TerminateTx, PauseOrResume, Client
    <3>1. ~dirty /\ UNCHANGED <<cur, sig>>
      <4>1. WaitEnds \/ TerminateTx \/ PauseOrResume => UNCHANGED <<cur, sig>>
        BY DEF WaitEnds, TerminateTx, PauseOrResume, Client
      <4>2. TerminateRx \/ Terminated => ~dirty /\ UNCHANGED <<cur, sig>>
        BY DEF TerminateRx, Terminated, Client
      <4>3. CASE WaitEnds \/ TerminateTx \/ PauseOrResume
        BY <3>0, <4>1, <4>3
      <4>4. CASE TerminateRx \/ Terminated
        BY <4>2, <4>4
      <4> QED
        BY <4>3, <4>4
    <3>2. CASE Terminate \/ Pause \/ Resume
      BY <3>1, <3>2 DEF Terminate, Pause, Resume, Quiet, hwVars
    <3>3. CASE UNCHANGED <<gpiVars>>
      BY <3>1, <3>3 DEF gpiVars
    <3> QED
      BY <3>2, <3>3 DEF WaitEnds, TerminateTx, TerminateRx, Terminated, PauseOrResume, Client
  <2>3. cl \in {"wait", "failed", "terminateTx", "terminateRx"}
    BY DEF WaitEnds, TerminateTx, TerminateRx, Terminated, PauseOrResume, Calls, Returns
  <2>4. (~sent /\ ~sent') \/ UNCHANGED <<script, sent>>
    BY <2>1 DEF WaitEnds, TerminateTx, TerminateRx, Terminated, PauseOrResume, Terminate, Pause,
                Resume, Enter, Client, gpiVars
  <2>5. cl \in Stopping => ret /\ script = <<>>
    BY <2>2 DEF WaitEnds, TerminateTx, TerminateRx, Terminated, PauseOrResume, Calls, Returns, Stopping
  <2> QED
    BY <2>1, <2>2, <2>3, <2>4, <2>5
<1>2. Clean /\ cl \in Running
  BY <1>1 DEF Clean, Stopping, Running
<1>3. PICK k \in Nat, n \in Nat : Handled(k, n)
  BY <1>1, <1>2 DEF RInv
<1>4. Place(k, n) /\ Late(k) /\ Stage(k, n) /\ \A c \in Chans : Agrees(c, k)
  BY <1>3 DEF Handled
<1>5. Transfers
  BY <1>1, <1>2 DEF RInv
<1>6. cl \notin {"issueRx", "issueTx"}
  BY <1>1
<1>7. cl \in Stopping => k = 11 /\ n = 0
  BY <1>1, <1>4, Finished DEF Place
<1>8. cl = "terminateTx" => Idle /\ \A c \in Chans : vc[c] = NoDescs
  BY <1>4, <1>7, TwoChans DEF Stage, Cleared, Past, Zero, Idle, Settled, Stopping
<1>9. CASE WaitEnds
  <2>1. cl = "wait" /\ cl' = (IF sig = "ok" THEN "ready" ELSE "failed") /\ script' = script
    BY <1>9 DEF WaitEnds, Client, gpiVars
  <2>2. cl' = "ready" => Idle
    BY <1>5, <2>1 DEF Transfers, Answered
  <2>3. cl' \in {"ready", "failed"} /\ (Idle \/ cl' \in {"wait", "failed", "terminateTx"})
    BY <2>1, <2>2
  <2>4. sig = "none" /\ cl \in Busy => cl' \in Busy
    BY <2>1 DEF Busy
  <2>5. Transfers'
    BY <1>1, <1>5, <1>6, <2>3, <2>4, MovedTransfers
  <2>6. \A c \in Chans : Up(c, k)' <=> Up(c, k)
    BY <2>1, <2>3 DEF Up, InUse, Running, Stopping
  <2>7. Place(k, 0)'
    BY <1>4, <2>1, <2>3 DEF Place, InUse, Running, Stopping
  <2>8. Stage(k, 0)'
    BY <1>1, <1>4, <2>1, <2>3 DEF Stage, InUse, Running, Stopping
  <2> QED
    BY <1>1, <1>4, <2>3, <2>5, <2>6, <2>7, <2>8, MovesOn
<1>10. CASE TerminateTx
  <2>1. cl = "failed" /\ cl' = "terminateTx" /\ script' = Terminating
    BY <1>10 DEF TerminateTx, Calls, Terminate, Enter
  <2>2. Transfers'
    BY <1>1, <1>5, <1>6, <2>1, MovedTransfers DEF Busy
  <2>3. \A c \in Chans : Up(c, 1)' <=> Up(c, k)
    BY <2>1 DEF Up, InUse, Running, Stopping
  <2>4. Place(1, 0)'
    BY <2>1, StopTable, Starts DEF Place, InUse, Running, Stopping
  <2>5. Stage(1, 0)'
    BY <2>1 DEF Stage, Turned, Cleared, Past, InUse, Running, Stopping
  <2> QED
    BY <1>1, <1>4, <2>1, <2>2, <2>3, <2>4, <2>5, MovesOn
<1>11. CASE TerminateRx
  <2>1. cl = "terminateTx" /\ cl' = "terminateRx" /\ script' = Terminating
    BY <1>11 DEF TerminateRx, Returns, Terminate, Enter
  <2>2. Transfers'
    BY <1>1, <1>5, <1>6, <1>8, <2>1, MovedTransfers
  <2>3. \A c \in Chans : Up(c, 1)' <=> Up(c, k)
    BY <1>7, <2>1 DEF Up, InUse, Running, Stopping
  <2>4. Place(1, 0)'
    BY <2>1, StopTable, Starts DEF Place, InUse, Running, Stopping
  <2>5. Cleared(11, 0)
    BY <1>4, <1>7, <2>1 DEF Stage, Stopping
  <2>6. Cleared(11, 0)'
    BY <1>1, <2>5 DEF Cleared, Zero, Still
  <2>7. Stage(1, 0)'
    BY <2>1, <2>6 DEF Stage, Turned, Past, InUse, Running, Stopping
  <2> QED
    BY <1>1, <1>4, <1>8, <2>1, <2>2, <2>3, <2>4, <2>7, MovesOn
<1>12. CASE Terminated
  <2>1. cl = "terminateRx" /\ cl' = "ready" /\ script' = <<>>
    BY <1>1, <1>12 DEF Terminated, Returns, Client, gpiVars, Stopping
  <2>2. /\ \A c \in Chans : ring[c].wp = 0 /\ Zero(c) /\ cpm[c] = "ACTIVE" /\ vc[c] = NoDescs
        /\ Idle
    BY <1>4, <1>7, <2>1, TwoChans DEF Stage, Turned, Cleared, Past, Still, Zero, Idle, Settled, Stopping
  <2>3. Transfers'
    BY <1>1, <1>5, <1>6, <2>1, <2>2, MovedTransfers
  <2>4. \A c \in Chans : Up(c, 1)' <=> Up(c, k)
    BY <1>7, <2>1 DEF Up, InUse, Running, Stopping
  <2>5. Place(1, 0)'
    BY <2>1, EmptySeq DEF Place, InUse, Running, Stopping
  <2>6. Stage(1, 0)'
    BY <1>1, <2>1, <2>2 DEF Stage, Zero, InUse, Running, Stopping
  <2> QED
    BY <1>1, <1>4, <2>1, <2>2, <2>3, <2>4, <2>5, <2>6, MovesOn
<1>13. CASE PauseOrResume
  <2>1. cl = "wait" /\ cl' = "wait" /\ script' \in {<<>>, Pausing, Resuming}
    BY <1>13 DEF PauseOrResume, Pause, Resume, Enter
  <2>2. Pausing \in Seq(PauseSteps) /\ Resuming \in Seq(PauseSteps)
    BY PauseScripts
  <2>3. Transfers'
    BY <1>1, <1>5, <1>6, <2>1, MovedTransfers
  <2>4. \A c \in Chans : Up(c, k)' <=> Up(c, k)
    BY <2>1 DEF Up, InUse, Running, Stopping
  <2>5. Place(k, 0)'
    BY <2>1, <2>2, EmptySeq DEF Place, InUse, Running, Stopping
  <2>6. Stage(k, 0)'
    BY <1>1, <1>4, <2>1 DEF Stage, InUse, Running, Stopping
  <2> QED
    BY <1>1, <1>4, <2>1, <2>3, <2>4, <2>5, <2>6, MovesOn
<1> QED
  BY <1>9, <1>10, <1>11, <1>12, <1>13

\* A transfer is prepared.
LEMMA SetupKeepsRings ==
  ASSUME IInv, RInv, SetupGsiXfer, ~dirty'
  PROVE  RInv'
<1>1. /\ Typed /\ cl = "ready" /\ ~dirty /\ Clean /\ Idle /\ Transfers
      /\ UNCHANGED <<hw, slot, ring, evs, tk, cmds, chState, cpm, script, sent, ret, dirty>>
  <2>1. /\ cl = "ready" /\ ~dirty
        /\ UNCHANGED <<hw, slot, ring, evs, tk, cmds, chState, cpm, script, sent, ret, dirty>>
    BY DEF SetupGsiXfer, hwVars, pmVars, ctlVars
  <2>2. Typed
    BY DEF IInv
  <2>3. Clean /\ cl \in Running /\ cl \notin Busy
    BY <2>1 DEF Clean, Stopping, Running, Busy
  <2> QED
    BY <2>1, <2>2, <2>3 DEF RInv
<1>2. PICK t \in Xfers :
        /\ cur' = t /\ t.x = cur.x + 1 /\ sig' = "none"
        /\ \/ /\ cl' = IF t.cmd = "SPI_TX_RX" THEN "issueRx" ELSE "issueTx"
              /\ vc' = [c \in Chans |->
                          IF c = TX \/ t.cmd = "SPI_TX_RX"
                          THEN [vc[c] EXCEPT !.submitted = Append(@, Desc(c, t))] ELSE vc[c]]
           \/ /\ cl' = "failed"
              /\ vc' = vc \/ vc' = [vc EXCEPT ![RX].allocated = Append(@, Desc(RX, t))]
  <2>1. PICK s \in Shapes :
          LET t == [x |-> cur.x + 1, cmd |-> s.cmd, imm |-> s.imm]
              reads == t.cmd = "SPI_TX_RX"
          IN  /\ cur' = t /\ sig' = "none"
              /\ \/ /\ vc' = [c \in Chans |->
                                IF c = TX \/ reads
                                THEN [vc[c] EXCEPT !.submitted = Append(@, Desc(c, t))] ELSE vc[c]]
                    /\ cl' = IF reads THEN "issueRx" ELSE "issueTx"
                 \/ /\ vc' = vc \/ vc' = [vc EXCEPT ![RX].allocated = Append(@, Desc(RX, t))]
                    /\ cl' = "failed"
    BY DEF SetupGsiXfer
  <2> DEFINE t == [x |-> cur.x + 1, cmd |-> s.cmd, imm |-> s.imm]
  <2>2. Typed'
    BY <1>1, SetUp
  <2>3. cur' = t /\ t.x = cur.x + 1
    BY <2>1
  <2>4. t \in Xfers
    BY <2>2, <2>3 DEF Typed, TypedClient
  <2> QED
    BY <2>1, <2>3, <2>4
<1>3. /\ cl' \in {"issueRx", "issueTx", "failed"} /\ (cl' = "issueRx" => t.cmd = "SPI_TX_RX")
      /\ \A c \in Chans : vc[c] \in Lists /\ vc[c].submitted = <<>>
  <2>1. vc \in [Chans -> Lists]
    BY <1>1 DEF Typed, TypedRings
  <2>2. \A c \in Chans : vc[c].submitted = <<>>
    BY <1>1, TwoChans DEF Transfers, Prepared
  <2> QED
    BY <1>2, <2>1, <2>2
<1>4. ASSUME NEW c \in Chans
      PROVE  /\ vc'[c].issued = vc[c].issued
             /\ vc'[c].submitted = IF cl' = "issueRx" \/ (cl' = "issueTx" /\ c = TX)
                                   THEN <<Desc(c, t)>> ELSE <<>>
  <2>1. vc[c] \in Lists /\ vc[c].submitted = <<>> /\ vc \in [Chans -> Lists]
    BY <1>1, <1>3 DEF Typed, TypedRings
  <2>2. Append(<<>>, Desc(c, t)) = <<Desc(c, t)>>
    OBVIOUS
  <2>3. CASE cl' = "failed"
    <3>1. vc' = vc \/ vc' = [vc EXCEPT ![RX].allocated = Append(@, Desc(RX, t))]
      BY <1>2, <2>3
    <3>2. vc'[c].issued = vc[c].issued /\ vc'[c].submitted = vc[c].submitted
      <4>1. CASE vc' = vc
        BY <4>1
      <4>2. CASE vc' = [vc EXCEPT ![RX].allocated = Append(@, Desc(RX, t))]
        <5> DEFINE a == Append(vc[RX].allocated, Desc(RX, t))
        <5>1. vc' = [vc EXCEPT ![RX].allocated = a]
          BY <4>2
        <5> HIDE DEF a
        <5> QED
          BY <2>1, <5>1 DEF Lists
      <4> QED
        BY <3>1, <4>1, <4>2
    <3> QED
      BY <2>1, <2>3, <3>2
  <2>4. CASE cl' # "failed"
    <3>1. /\ cl' = IF t.cmd = "SPI_TX_RX" THEN "issueRx" ELSE "issueTx"
          /\ vc'[c] = IF c = TX \/ t.cmd = "SPI_TX_RX"
                      THEN [vc[c] EXCEPT !.submitted = Append(@, Desc(c, t))] ELSE vc[c]
      BY <1>2, <2>4
    <3>2. CASE c = TX \/ t.cmd = "SPI_TX_RX"
      <4>1. vc'[c] = [vc[c] EXCEPT !.submitted = Append(<<>>, Desc(c, t))]
        BY <2>1, <3>1, <3>2
      <4>2. vc'[c] = [vc[c] EXCEPT !.submitted = <<Desc(c, t)>>]
        BY <2>2, <4>1
      <4>3. vc'[c].issued = vc[c].issued /\ vc'[c].submitted = <<Desc(c, t)>>
        BY <2>1, <4>2 DEF Lists
      <4> QED
        BY <3>1, <3>2, <4>3
    <3>3. CASE ~(c = TX \/ t.cmd = "SPI_TX_RX")
      <4>1. vc'[c] = vc[c] /\ cl' = "issueTx" /\ c # TX
        BY <3>1, <3>3
      <4> QED
        BY <2>1, <4>1
    <3> QED
      BY <3>2, <3>3
  <2> QED
    BY <2>3, <2>4
<1>5. Idle' /\ \A c \in Chans : Settled(c)'
  BY <1>1, TwoChans DEF Idle, Settled
<1>6. PICK k \in Nat, n \in Nat : Handled(k, n)
  BY <1>1 DEF RInv
<1>7. Place(k, n) /\ Late(k) /\ Stage(k, n) /\ \A c \in Chans : Agrees(c, k)
  BY <1>6 DEF Handled
<1>8. Handled(k, n)'
  <2>1. \A c \in Chans : Up(c, k)' <=> Up(c, k)
    BY <1>1, <1>3 DEF Up, InUse, Running, Stopping
  <2>2. Late(k)' /\ \A c \in Chans : Agrees(c, k)'
    BY <1>1, <1>7, <2>1, CalmCommands
  <2>3. Place(k, n)'
    BY <1>1, <1>3, <1>7 DEF Place, InUse, Running, Stopping
  <2>4. Stage(k, n)'
    BY <1>1, <1>3, <1>7 DEF Stage, InUse, Running, Stopping
  <2> QED
    BY <2>2, <2>3, <2>4 DEF Handled
<1>9. Transfers'
  <2>1. Linked'
    BY <1>1, <1>5, TwoChans DEF Linked, Idle
  <2>2. Prepared'
    <3>1. Reads' <=> t.cmd = "SPI_TX_RX"
      BY <1>2 DEF Reads
    <3> QED
      BY <1>2, <1>3, <1>4, <3>1, TwoChans DEF Prepared
  <2>3. Answered'
    BY <1>2 DEF Answered
  <2>4. Taken'
    <3>1. Taken /\ (tk.pc \in Held => tk.ch \in Chans)
      BY <1>1 DEF Transfers, Typed, TypedTk
    <3> QED
      BY <1>1, <1>4, <3>1 DEF Taken
  <2>5. ASSUME NEW c \in Chans PROVE Sorted(c)' /\ Events(c)'
    <3>1. Sorted(c) /\ Events(c) /\ vc'[c].issued = vc[c].issued /\ evs' = evs
      BY <1>1, <1>4 DEF Transfers
    <3>2. \A i \in DOMAIN vc[c].issued : vc[c].issued[i].x \in Nat /\ vc[c].issued[i].x < cur'.x
      <4>1. cur.x \in Nat /\ cur'.x = cur.x + 1
        BY <1>1, <1>2 DEF Typed, TypedClient, Xfers, Xs
      <4>2. vc[c].issued \in Seq(Descs)
        BY <1>3 DEF Lists
      <4>3. \A i \in DOMAIN vc[c].issued : vc[c].issued[i].x \in Nat
        BY <4>2, Elems, DescTyped DEF Xs
      <4>4. \A i \in DOMAIN vc[c].issued : vc[c].issued[i].x <= cur.x
        BY <3>1 DEF Sorted
      <4> QED
        BY <4>1, <4>3, <4>4
    <3>3. \A i \in DOMAIN vc[c].issued : vc[c].issued[i].x <= cur'.x /\ vc[c].issued[i].x # cur'.x
      <4>1. cur'.x \in Nat
        BY <1>1, <1>2 DEF Typed, TypedClient, Xfers, Xs
      <4> QED
        BY <3>2, <4>1
    <3>4. \A i \in DOMAIN vc[c].issued :
            vc[c].issued[i].cb => tk.pc = "unlink" /\ tk.ch = c /\ tk.x = vc[c].issued[i].x
      BY <1>1, <3>1 DEF Sorted, Busy
    <3>5. Sorted(c)'
      <4>1. \A i, j \in DOMAIN vc'[c].issued : i < j => vc'[c].issued[i].x < vc'[c].issued[j].x
        BY <3>1 DEF Sorted
      <4> QED
        BY <1>1, <1>5, <3>1, <3>2, <3>3, <3>4, <4>1 DEF Sorted
    <3>6. \A i \in DOMAIN evs : Live(i, c)' <=> Live(i, c)
      BY <3>1 DEF Live
    <3>7. \A i, j \in DOMAIN evs' : i < j /\ Live(i, c)' /\ Live(j, c)' => evs'[i].x < evs'[j].x
      BY <3>1, <3>6 DEF Events
    <3>8. ASSUME NEW i \in DOMAIN evs', Live(i, c)'
          PROVE  (\E j \in DOMAIN vc'[c].issued : vc'[c].issued[j].x = evs'[i].x) /\ evs'[i].x # cur'.x
      <4>1. PICK j \in DOMAIN vc[c].issued : vc[c].issued[j].x = evs[i].x
        BY <3>1, <3>6, <3>8 DEF Events
      <4> QED
        BY <3>1, <3>3, <4>1
    <3> QED
      BY <3>5, <3>7, <3>8 DEF Events
  <2> QED
    BY <2>1, <2>2, <2>3, <2>4, <2>5 DEF Transfers
<1> QED
  BY <1>5, <1>8, <1>9 DEF RInv, Arc

\* The elements of a descriptor go into the ring one after the other, as far as there is room.
LEMMA QueuedIs ==
  ASSUME Typed, NEW c \in Chans, NEW d \in Descs, Len(d.tres) = NrTre(c)
  PROVE  \E m \in 0 .. NrTre(c) :
           /\ m < Elements /\ Queued(c, d).wp = After(ring[c].wp, m) /\ (HasRoom(c) => m = NrTre(c))
           /\ \A i \in 0 .. m - 1 : Queued(c, d).slot[After(ring[c].wp, i)] = d.tres[i + 1]
<1> DEFINE v == Avail(ring[c])
           l == Len(d.tres)
           m == IF l <= v THEN l ELSE v
<1>1. PICK wp, rp \in Slots : ring[c].wp = wp /\ ring[c].rp = rp /\ wp \in Slots
  BY DEF Typed, TypedRings
<1>2. /\ wp \in Nat /\ wp < Elements /\ rp \in Nat /\ rp < Elements /\ Elements \in Nat /\ Elements > 1
      /\ l \in 1 .. 3 /\ l = NrTre(c)
  BY <1>1, SlotFacts, DescTyped
<1>3. v \in Nat /\ v < Elements
  <2>1. v = IF wp < rp THEN (rp - wp) - 1 ELSE rp + (Elements - wp) - 1
    BY <1>1 DEF Avail
  <2> HIDE DEF v
  <2> QED
    BY <1>2, <2>1
<1> DEFINE q == Queued(c, d)
<1>4. /\ q.wp = After(wp, m)
      /\ q.slot = [i \in Slots |-> LET o == (i - wp + Elements) % Elements
                                   IN  IF o < m THEN d.tres[o + 1] ELSE slot[c][i]]
  BY <1>1 DEF Queued
<1>7. HasRoom(c) => v >= NrTre(c)
  BY DEF HasRoom
<1> HIDE DEF q, v, l
<1>5. m \in 0 .. NrTre(c) /\ m < Elements /\ (HasRoom(c) => m = NrTre(c))
  BY <1>2, <1>3, <1>7
<1> HIDE DEF m
<1>6. ASSUME NEW i \in 0 .. m - 1 PROVE q.slot[After(wp, i)] = d.tres[i + 1]
  <2>1. i \in Nat /\ i < Elements /\ i < m /\ After(wp, i) \in Slots
    BY <1>1, <1>5, <1>2, SlotFacts
  <2>2. (After(wp, i) - wp + Elements) % Elements = i
    <3>1. PICK a \in Nat : a = wp + i
      BY <1>2, <2>1
    <3>2. After(wp, i) = a % Elements
      BY <3>1 DEF After
    <3>3. CASE a < Elements
      <4>1. a % Elements = a
        BY <1>2, <3>3, Below
      <4>2. PICK b \in Nat : b = After(wp, i) - wp + Elements /\ b = i + Elements
        BY <1>2, <2>1, <3>1, <3>2, <4>1
      <4>3. Elements <= b /\ b < Elements + Elements
        BY <1>2, <2>1, <4>2
      <4>4. b % Elements = b - Elements
        BY <1>2, <4>3, Above
      <4>5. b % Elements = i
        BY <1>2, <2>1, <4>2, <4>4
      <4> QED
        BY <4>2, <4>5
    <3>4. CASE ~(a < Elements)
      <4>1. Elements <= a /\ a < Elements + Elements
        BY <1>2, <2>1, <3>1, <3>4
      <4>2. a % Elements = a - Elements
        BY <1>2, <4>1, Above
      <4>3. After(wp, i) - wp + Elements = i
        BY <1>2, <2>1, <3>1, <3>2, <4>2
      <4>4. i % Elements = i
        BY <1>2, <2>1, Below
      <4> QED
        BY <4>3, <4>4
    <3> QED
      BY <3>3, <3>4
  <2> QED
    BY <1>4, <2>1, <2>2
<1> QED
  BY <1>1, <1>4, <1>5, <1>6 DEF q

\* What the issue of a transfer does to the ring of its channel.
LEMMA IssueEffects ==
  ASSUME IInv, Transfers, NEW c \in Chans, Issue(c),
         cl = (IF c = RX THEN "issueRx" ELSE "issueTx")
  PROVE  /\ UNCHANGED <<evs, tk, cmds, chState, cpm, script, sent, ret>>
         /\ vc'[c].issued = vc[c].issued \o <<Desc(c, cur)>> /\ vc'[c].submitted = <<>>
         /\ ring'[c].wp = hw'[c].db /\ hw'[c].at = hw[c].at
         /\ \A d \in Chans : hw'[d].state = hw[d].state /\ hw'[d].links = hw[d].links
         /\ \A d \in Chans : d # c =>
              hw'[d] = hw[d] /\ slot'[d] = slot[d] /\ ring'[d] = ring[d] /\ vc'[d] = vc[d]
         /\ \E m \in 0 .. NrTre(c) :
              /\ m < Elements /\ hw'[c].db = After(ring[c].wp, m) /\ (HasRoom(c) => m = NrTre(c))
              /\ \A i \in 0 .. m - 1 : slot'[c][After(ring[c].wp, i)] = Tres(c, cur)[i + 1]
<1>1. /\ Typed /\ vc \in [Chans -> Lists] /\ cur \in Xfers
      /\ ring \in [Chans -> [on : BOOLEAN, rp : Slots, wp : Slots]]
      /\ slot \in [Chans -> [Slots -> Tre]]
      /\ hw \in [Chans -> [state : ChStates, ctx : BOOLEAN, at : Slots, db : Slots, links : Nat]]
  BY DEF IInv, Typed, TypedRings, TypedClient
<1>2. vc[c].submitted = <<Desc(c, cur)>> /\ vc[c].issued \in Seq(Descs)
  BY <1>1, TwoChans DEF Transfers, Prepared, Lists
<1> DEFINE D == Desc(c, cur)
           issued == vc[c].issued \o <<D>>
           q == Queued(c, D)
<1>3. D \in Descs /\ D.tres = Tres(c, cur) /\ Len(D.tres) = NrTre(c)
  BY <1>1, DescTyped, TresTyped DEF Desc
<1> HIDE DEF D
<1>4. issued # <<>> /\ Last(issued) = D
  <2>1. /\ issued \in Seq(Descs) /\ Len(issued) = Len(vc[c].issued) + 1
        /\ issued[Len(vc[c].issued) + 1] = D /\ Len(vc[c].issued) \in Nat
    BY <1>2, <1>3, OneMore, LenProperties
  <2> HIDE DEF issued
  <2>2. Len(issued) # 0
    BY <2>1
  <2>3. issued # <<>>
    BY <2>2
  <2> QED
    BY <2>1, <2>3 DEF Last
<1>5. /\ vc' = [vc EXCEPT ![c].issued = issued, ![c].submitted = <<>>]
      /\ ring' = [ring EXCEPT ![c].wp = q.wp]
      /\ slot' = [slot EXCEPT ![c] = q.slot]
      /\ hw' = [hw EXCEPT ![c].db = q.wp]
  <2>1. vc[c].issued \o vc[c].submitted = issued
    BY <1>2 DEF D
  <2> QED
    BY <1>4, <2>1 DEF Issue
<1>6. UNCHANGED <<evs, tk, cmds, chState, cpm, script, sent, ret>>
  BY DEF Issue, pmVars, ctlVars
<1>7. PICK m \in 0 .. NrTre(c) :
        /\ m < Elements /\ q.wp = After(ring[c].wp, m) /\ (HasRoom(c) => m = NrTre(c))
        /\ \A i \in 0 .. m - 1 : q.slot[After(ring[c].wp, i)] = D.tres[i + 1]
  BY <1>1, <1>3, QueuedIs
<1> HIDE DEF q, issued
<1>8. vc'[c].issued = issued /\ vc'[c].submitted = <<>>
  BY <1>1, <1>5 DEF Lists
<1>9. ring'[c].wp = q.wp /\ hw'[c].db = q.wp /\ hw'[c].at = hw[c].at /\ slot'[c] = q.slot
  BY <1>1, <1>5
<1>10. \A d \in Chans : hw'[d].state = hw[d].state /\ hw'[d].links = hw[d].links
  BY <1>1, <1>5
<1>11. \A d \in Chans : d # c =>
         hw'[d] = hw[d] /\ slot'[d] = slot[d] /\ ring'[d] = ring[d] /\ vc'[d] = vc[d]
  BY <1>1, <1>5
<1>12. vc'[c].issued = vc[c].issued \o <<Desc(c, cur)>>
  BY <1>8 DEF issued, D
<1> QED
  BY <1>3, <1>6, <1>7, <1>8, <1>9, <1>10, <1>11, <1>12

\* A transfer is issued to one of its channels.
LEMMA IssueKeepsRings ==
  ASSUME IInv, RInv, IssueRx \/ IssueTx, ~dirty'
  PROVE  RInv'
<1>1. PICK c \in Chans : /\ Issue(c) /\ cl = (IF c = RX THEN "issueRx" ELSE "issueTx")
                         /\ cl' = (IF c = RX THEN "issueTx" ELSE "wait")
                         /\ UNCHANGED <<cur, sig, grabs, pauses, dirty>>
  BY TwoChans DEF IssueRx, IssueTx, Calls
<1>2. Typed /\ ~dirty /\ Clean /\ Transfers /\ cl \in InUse
  <2>1. Clean /\ cl \in InUse /\ cl \in Running
    BY <1>1 DEF Clean, Stopping, Running, InUse
  <2> QED
    BY <1>1, <2>1 DEF IInv, RInv
<1>3. /\ UNCHANGED <<evs, tk, cmds, chState, cpm, script, sent, ret>>
      /\ vc'[c].issued = vc[c].issued \o <<Desc(c, cur)>> /\ vc'[c].submitted = <<>>
      /\ ring'[c].wp = hw'[c].db /\ hw'[c].at = hw[c].at
      /\ \A d \in Chans : hw'[d].state = hw[d].state /\ hw'[d].links = hw[d].links
      /\ \A d \in Chans : d # c =>
           hw'[d] = hw[d] /\ slot'[d] = slot[d] /\ ring'[d] = ring[d] /\ vc'[d] = vc[d]
      /\ \E m \in 0 .. NrTre(c) :
           /\ m < Elements /\ hw'[c].db = After(ring[c].wp, m)
           /\ \A i \in 0 .. m - 1 : slot'[c][After(ring[c].wp, i)] = Tres(c, cur)[i + 1]
  BY <1>1, <1>2, IssueEffects
<1>4. PICK k \in Nat, n \in Nat : Handled(k, n)
  BY <1>2 DEF RInv
<1>5. Place(k, n) /\ Late(k) /\ Stage(k, n) /\ \A d \in Chans : Agrees(d, k)
  BY <1>4 DEF Handled
<1>6. /\ cl \in {"issueRx", "issueTx"} /\ cl' \in InUse /\ cl' \in {"issueTx", "wait"} /\ cl' \in Busy
      /\ \A d \in Chans : ring[d].wp = hw[d].db /\ cpm[d] = "ACTIVE"
  BY <1>1, <1>2, <1>5 DEF Stage, InUse, Running, Stopping, Busy
<1>7. Settled(c)
  <2>1. CASE c = RX
    BY <1>1, <1>2, <2>1 DEF RInv, Busy, Idle
  <2>2. CASE c = TX
    BY <1>1, <1>2, <2>2, TwoChans DEF RInv, Arc
  <2> QED
    BY <2>1, <2>2, TwoChans
<1>8. \A d \in Chans : d # c => (Settled(d)' <=> Settled(d))
  BY <1>3 DEF Settled
<1>9. ASSUME NEW d \in Chans PROVE Arc(d)'
  <2>1. CASE d = c
    <3>1. hw[c].at = ring[c].wp /\ hw'[c].at = ring[c].wp
      BY <1>3, <1>6, <1>7 DEF Settled
    <3>2. PICK m \in 0 .. NrTre(c) :
            /\ m < Elements /\ hw'[c].db = After(ring[c].wp, m)
            /\ \A i \in 0 .. m - 1 : slot'[c][After(ring[c].wp, i)] = Tres(c, cur)[i + 1]
      BY <1>3
    <3>3. ASSUME ~Settled(c)' PROVE m # 0
      <4>1. hw'[c].at # hw'[c].db
        BY <3>3 DEF Settled
      <4>2. hw[c].at \in Nat /\ hw[c].at < Elements /\ Elements \in Nat
        BY <1>2, SlotFacts DEF Typed, TypedRings
      <4>3. After(hw[c].at, 0) = hw[c].at
        BY <4>2, Below DEF After
      <4> QED
        BY <3>1, <3>2, <4>1, <4>3
    <3>4. c = TX => cl' # "issueTx"
      BY <1>1, TwoChans
    <3>5. NrTre(c) \in Nat
      BY DEF NrTre
    <3>6. ASSUME ~Settled(c)' PROVE m \in 1 .. NrTre(c)
      BY <3>2, <3>3, <3>5, <3>6
    <3>7. \A i \in 0 .. m - 1 : slot'[c][After(hw'[c].at, i)] = Tres(c, cur')[i + 1]
      BY <1>1, <3>1, <3>2
    <3>8. hw'[c].db = After(hw'[c].at, m)
      BY <3>1, <3>2
    <3> QED
      BY <1>6, <2>1, <3>2, <3>4, <3>6, <3>7, <3>8 DEF Arc
  <2>2. CASE d # c
    <3>1. Arc(d) /\ (c = RX => Settled(d))
      BY <1>1, <1>2, <2>2, TwoChans DEF RInv, Busy, Idle
    <3>2. (Settled(d)' <=> Settled(d)) /\ hw'[d] = hw[d] /\ slot'[d] = slot[d] /\ cur' = cur
      BY <1>1, <1>3, <1>8, <2>2
    <3>3. ~Settled(d) => cl' = "wait"
      BY <1>1, <3>1
    <3> QED
      BY <1>6, <3>1, <3>2, <3>3 DEF Arc
  <2> QED
    BY <2>1, <2>2
<1>10. Handled(k, n)'
  <2>1. Place(k, n)'
    BY <1>3, <1>5, <1>2, <1>6 DEF Place, InUse, Running, Stopping
  <2>2. \A d \in Chans : ring'[d].wp = hw'[d].db /\ cpm'[d] = "ACTIVE"
    BY <1>3, <1>6
  <2>3. Stage(k, n)'
    BY <1>6, <2>2 DEF Stage, InUse, Running, Stopping
  <2>4. \A cmd, d : Sent(cmd, d)' <=> Sent(cmd, d)
    BY <1>3 DEF Sent, Head1
  <2>5. \A d \in Chans : Up(d, k) /\ Up(d, k)'
    BY <1>2, <1>6 DEF Up
  <2>6. Late(k)'
    BY <1>3, <1>5, <2>4, <2>5 DEF Late
  <2>7. \A d \in Chans : ~Sent("RESET", d)
    <3>1. script \in Seq(PauseSteps) /\ (sent => script # <<>>)
      BY <1>2, <1>5 DEF Place, Typed, TypedScript
    <3>2. sent => Head1 \in PauseSteps
      BY <3>1, HeadTailProperties DEF Head1
    <3> QED
      BY <3>2 DEF Sent, PauseSteps
  <2>8. \A d \in Chans : HwUp(d)' <=> HwUp(d)
    BY <1>3 DEF HwUp
  <2>9. \A d \in Chans : Agrees(d, k)'
    BY <1>3, <1>5, <2>5, <2>7, <2>8 DEF Agrees
  <2> QED
    BY <2>1, <2>3, <2>6, <2>9 DEF Handled
<1>11. /\ sig = "none" /\ sig' = "none" /\ cur' = cur /\ (c = RX => Reads)
       /\ vc[c].submitted # <<>> /\ vc[c].issued \in Seq(Descs) /\ Desc(c, cur) \in Descs
  <2>1. vc[c].submitted = <<Desc(c, cur)>> /\ sig = "none" /\ (c = RX => Reads)
    BY <1>1, <1>2, TwoChans DEF Transfers, Prepared
  <2>2. vc[c].submitted # <<>>
    BY <2>1
  <2>3. vc[c].issued \in Seq(Descs) /\ cur \in Xfers
    BY <1>2 DEF Typed, TypedRings, TypedClient, Lists
  <2> QED
    BY <1>1, <2>1, <2>2, <2>3, DescTyped
<1> DEFINE D == Desc(c, cur)
           l == Len(vc[c].issued)
<1>12. /\ l \in Nat /\ DOMAIN vc[c].issued = 1 .. l /\ DOMAIN vc'[c].issued = 1 .. l + 1
       /\ vc'[c].issued[l + 1] = D /\ \A i \in 1 .. l : vc'[c].issued[i] = vc[c].issued[i]
       /\ D.x = cur.x /\ (D.cb <=> (c = RX <=> Reads))
  <2>1. /\ vc'[c].issued \in Seq(Descs) /\ Len(vc'[c].issued) = l + 1
        /\ \A i \in 1 .. l : vc'[c].issued[i] = vc[c].issued[i]
        /\ vc'[c].issued[l + 1] = D
    BY <1>3, <1>11, OneMore
  <2>2. l \in Nat /\ DOMAIN vc[c].issued = 1 .. l
    BY <1>11, LenProperties
  <2>3. D.x = cur.x /\ (D.cb <=> (c = RX <=> Reads))
    BY DEF Desc, Reads
  <2> HIDE DEF D, l
  <2>4. DOMAIN vc'[c].issued = 1 .. l + 1
    BY <2>1, LenProperties
  <2> QED
    BY <2>1, <2>2, <2>3, <2>4
<1> HIDE DEF D, l
<1>13. \A i \in 1 .. l : vc[c].issued[i].x \in Nat /\ vc[c].issued[i].x < cur.x /\ cur.x \in Nat
  <2>1. cur.x \in Nat
    BY <1>2 DEF Typed, TypedClient, Xfers, Xs
  <2>2. \A i \in 1 .. l : vc[c].issued[i].x \in Nat
    BY <1>11, <1>12, Elems, DescTyped DEF Xs
  <2>3. \A i \in 1 .. l : vc[c].issued[i].x < cur.x
    BY <1>2, <1>11, <1>12 DEF Transfers, Sorted
  <2> QED
    BY <2>1, <2>2, <2>3
<1>14. Reads' = Reads /\ tk' = tk /\ evs' = evs /\ hw'[RX].links = hw[RX].links
  BY <1>3, <1>11, TwoChans DEF Reads
<1>15. Linked'
  <2>1. Linked
    BY <1>2 DEF Transfers
  <2>2. hw'[RX].links = 0
    BY <1>6, <1>14, <2>1 DEF Linked
  <2>3. ~Settled(RX)' => Reads'
    <3>1. CASE c = RX
      BY <1>11, <1>14, <3>1
    <3>2. CASE c = TX
      BY <1>8, <1>14, <2>1, <3>2, TwoChans DEF Linked
    <3> QED
      BY <3>1, <3>2, TwoChans
  <2> QED
    BY <2>2, <2>3 DEF Linked
<1>16. Prepared'
  <2>1. Prepared
    BY <1>2 DEF Transfers
  <2>2. CASE c = RX
    <3>1. cl' = "issueTx" /\ vc'[RX].submitted = <<>> /\ vc'[TX] = vc[TX]
      BY <1>1, <1>3, <2>2, TwoChans
    <3>2. vc[TX].submitted = <<Desc(TX, cur)>>
      BY <1>6, <2>1 DEF Prepared
    <3> QED
      BY <1>11, <3>1, <3>2 DEF Prepared
  <2>3. CASE c = TX
    <3>1. cl = "issueTx" /\ cl' = "wait" /\ vc'[TX].submitted = <<>> /\ vc'[RX] = vc[RX]
      BY <1>1, <1>3, <2>3, TwoChans
    <3>2. vc[RX].submitted = <<>>
      BY <2>1, <3>1 DEF Prepared
    <3> QED
      BY <3>1, <3>2 DEF Prepared
  <2> QED
    BY <2>2, <2>3, TwoChans
<1>17. Sorted(c)'
  <2>1. Sorted(c) /\ sig' = "none"
    BY <1>2, <1>11 DEF Transfers
  <2>2. \A i \in 1 .. l + 1 : (i \in 1 .. l \/ i = l + 1)
    BY <1>12
  <2>3. \A i, j \in DOMAIN vc'[c].issued : i < j => vc'[c].issued[i].x < vc'[c].issued[j].x
    <3> SUFFICES ASSUME NEW i \in 1 .. l + 1, NEW j \in 1 .. l + 1, i < j
                 PROVE  vc'[c].issued[i].x < vc'[c].issued[j].x
      BY <1>12
    <3>1. i \in 1 .. l
      BY <1>12
    <3>2. CASE j \in 1 .. l
      BY <1>12, <2>1, <3>1, <3>2 DEF Sorted
    <3>3. CASE j = l + 1
      BY <1>12, <1>13, <3>1, <3>3
    <3> QED
      BY <2>2, <3>2, <3>3
  <2>4. ASSUME NEW i \in DOMAIN vc'[c].issued
        PROVE  /\ vc'[c].issued[i].x <= cur'.x
               /\ vc'[c].issued[i].x = cur'.x => vc'[c].issued[i].cb = ((c = RX) = Reads')
               /\ vc'[c].issued[i].cb =>
                    \/ tk'.pc = "unlink" /\ tk'.ch = c /\ tk'.x = vc'[c].issued[i].x
                    \/ vc'[c].issued[i].x = cur'.x /\ sig' = "none" /\ cl' \in Busy
    <3>1. CASE i \in 1 .. l
      <4>1. vc'[c].issued[i] = vc[c].issued[i] /\ vc[c].issued[i].x < cur.x
            /\ vc[c].issued[i].x \in Nat /\ cur.x \in Nat
        BY <1>12, <1>13, <3>1
      <4>2. vc[c].issued[i].x <= cur.x /\ vc[c].issued[i].x # cur.x
        BY <4>1
      <4>3. vc[c].issued[i].cb => tk.pc = "unlink" /\ tk.ch = c /\ tk.x = vc[c].issued[i].x
        BY <1>12, <2>1, <3>1, <4>2 DEF Sorted
      <4> QED
        BY <1>11, <1>14, <4>1, <4>2, <4>3
    <3>2. CASE i = l + 1
      <4>1. vc'[c].issued[i].x = cur.x /\ cur.x <= cur.x
        <5>1. cur.x \in Nat
          BY <1>2 DEF Typed, TypedClient, Xfers, Xs
        <5> QED
          BY <1>12, <3>2, <5>1
      <4>2. vc'[c].issued[i].cb = ((c = RX) = Reads)
        <5>1. vc'[c].issued[i].cb = ((c = RX) = (cur.cmd = "SPI_TX_RX"))
          BY <1>12, <3>2 DEF D, Desc
        <5> QED
          BY <5>1 DEF Reads
      <4> QED
        BY <1>6, <1>11, <1>14, <4>1, <4>2
    <3> QED
      BY <1>12, <2>2, <3>1, <3>2
  <2>5. \E i \in DOMAIN vc'[c].issued : vc'[c].issued[i].x = cur'.x
    <3>1. l + 1 \in DOMAIN vc'[c].issued
      BY <1>12
    <3> QED
      BY <1>11, <1>12, <3>1
  <2> QED
    BY <1>3, <2>3, <2>4, <2>5 DEF Sorted
<1>18. Events(c)'
  <2>1. Events(c) /\ \A i \in DOMAIN evs : Live(i, c)' <=> Live(i, c)
    BY <1>2, <1>14 DEF Transfers, Live
  <2>2. \A i, j \in DOMAIN evs' : i < j /\ Live(i, c)' /\ Live(j, c)' => evs'[i].x < evs'[j].x
    BY <1>14, <2>1 DEF Events
  <2>3. ASSUME NEW i \in DOMAIN evs', Live(i, c)'
        PROVE  (\E j \in DOMAIN vc'[c].issued : vc'[c].issued[j].x = evs'[i].x) /\ evs'[i].x # cur'.x
    <3>1. PICK j \in 1 .. l : vc[c].issued[j].x = evs[i].x
      BY <1>12, <1>14, <2>1, <2>3 DEF Events
    <3>2. j \in DOMAIN vc'[c].issued
      BY <1>12, <3>1
    <3>3. vc[c].issued[j].x # cur.x
      BY <1>13
    <3> QED
      BY <1>11, <1>12, <1>14, <3>1, <3>2, <3>3
  <2> QED
    BY <2>2, <2>3 DEF Events
<1>19. ASSUME NEW d \in Chans, d # c PROVE Sorted(d)' /\ Events(d)'
  <2>1. /\ Sorted(d) /\ Events(d) /\ vc'[d] = vc[d] /\ (Settled(d) => Settled(d)') /\ tk' = tk
        /\ cur' = cur /\ evs' = evs /\ sig' = "none" /\ cl' \in Busy
    BY <1>2, <1>3, <1>6, <1>8, <1>11, <1>14, <1>19 DEF Transfers
  <2>2. Sorted(d)'
    BY <2>1, SortedKept
  <2>3. \A i \in DOMAIN evs : Live(i, d)' <=> Live(i, d)
    BY <2>1 DEF Live
  <2>4. \A i, j \in DOMAIN evs' : i < j /\ Live(i, d)' /\ Live(j, d)' => evs'[i].x < evs'[j].x
    BY <2>1, <2>3 DEF Events
  <2>5. ASSUME NEW i \in DOMAIN evs', Live(i, d)'
        PROVE  (\E j \in DOMAIN vc'[d].issued : vc'[d].issued[j].x = evs'[i].x) /\ evs'[i].x # cur'.x
    <3>1. (\E j \in DOMAIN vc[d].issued : vc[d].issued[j].x = evs[i].x) /\ evs[i].x # cur.x
      BY <1>6, <2>1, <2>3, <2>5 DEF Events
    <3> QED
      BY <2>1, <3>1
  <2> QED
    BY <2>2, <2>4, <2>5 DEF Events
<1>20. Answered' /\ Taken'
  <2>1. Answered'
    BY <1>11 DEF Answered
  <2>2. ASSUME tk.pc \in Held PROVE Head(vc'[tk.ch].issued) = Head(vc[tk.ch].issued)
    <3>1. vc[tk.ch].issued # <<>> /\ tk.ch \in Chans
      BY <1>2, <2>2 DEF IInv, DescriptorStays, Typed, TypedTk, Held
    <3>2. CASE tk.ch = c
      <4>1. vc[c].issued # <<>> /\ l # 0
        BY <1>11, <3>1, <3>2, EmptySeq DEF l
      <4>2. 1 \in 1 .. l /\ vc'[c].issued[1] = vc[c].issued[1]
        BY <1>12, <4>1
      <4> QED
        BY <3>2, <4>2
    <3>3. CASE tk.ch # c
      BY <1>3, <3>1, <3>3
    <3> QED
      BY <3>2, <3>3
  <2> QED
    BY <1>2, <1>14, <2>1, <2>2 DEF Transfers, Taken
<1>21. Transfers'
  BY <1>15, <1>16, <1>17, <1>18, <1>19, <1>20 DEF Transfers
<1> QED
  BY <1>6, <1>9, <1>10, <1>21 DEF RInv

-----------------------------------------------------------------------------
(* The theorem *)

LEMMA RInvInit == Init => RInv
<1> SUFFICES ASSUME Init PROVE RInv
  OBVIOUS
<1>1. /\ cl = "off" /\ script = <<>> /\ ~sent /\ cmds = <<>>
      /\ cpm = [c \in Chans |-> "DISABLE"] /\ chState = [c \in Chans |-> "NOT_ALLOCATED"]
      /\ hw = [c \in Chans |-> IdleHw]
  BY DEF Init, GpiInit
<1>2. \A c \in Chans : /\ hw[c].at = 0 /\ hw[c].db = 0 /\ hw[c].links = 0 /\ hw[c].state = "NOT_ALLOCATED"
                       /\ cpm[c] = "DISABLE" /\ chState[c] = "NOT_ALLOCATED"
  BY <1>1 DEF IdleHw
<1>3. Idle /\ \A c \in Chans : Arc(c)
  BY <1>2, TwoChans DEF Idle, Settled, Arc
<1>4. Place(1, 0) /\ Stage(1, 0)
  BY <1>1, <1>2 DEF Place, Stage, InUse, Running, Stopping
<1>5. \A c \in Chans : ~Up(c, 1) /\ ~HwUp(c)
  BY <1>1, <1>2 DEF Up, HwUp, InUse, Running, Stopping
<1>6. \A c \in Chans : Agrees(c, 1)
  BY <1>2, <1>5 DEF Agrees
<1>7. Late(1)
  BY <1>1 DEF Late
<1>8. 0 \in Nat /\ 1 \in Nat /\ cl \notin Running
  BY <1>1 DEF Running
<1> QED
  BY <1>3, <1>4, <1>6, <1>7, <1>8 DEF Handled, RInv

LEMMA RInvStep == IInv /\ RInv /\ [Next]_vars => RInv'
<1> SUFFICES ASSUME IInv, RInv, [Next]_vars PROVE RInv'
  OBVIOUS
<1>1. CASE ClientNext
  <2>1. CASE dirty'
    BY <2>1 DEF RInv
  <2>2. CASE ~dirty'
    <3>1. ~GrabFailed
      BY <2>2 DEF GrabFailed
    <3> QED
      BY <1>1, <2>2, <3>1, GrabKeepsRings, BordersKeepRings, SetupKeepsRings, IssueKeepsRings,
         WaitsKeepRings DEF ClientNext
  <2> QED
    BY <2>1, <2>2
<1>2. CASE Tasklet
  BY <1>2, TaskletKeepsRings
<1>3. CASE Controls
  BY <1>3, ControlsKeep
<1>4. CASE (HandleIrq \/ HwNext) /\ UNCHANGED clVars
  BY <1>4, IrqKeepsRings, ObeyKeeps, RunKeeps DEF HwNext
<1>5. CASE Ended \/ UNCHANGED vars
  <2>1. UNCHANGED <<cl, cur, sig, dirty, script, sent, ret, cmds, hw, chState, cpm, ring, slot, vc, evs, tk>>
    BY <1>5 DEF Ended, vars, gpiVars, clVars
  <2>2. CASE dirty
    BY <2>1, <2>2 DEF RInv
  <2>3. CASE ~dirty
    <3>1. (cl' \notin Busy => Idle') /\ \A c \in Chans : Arc(c)'
      BY <2>1, <2>3 DEF RInv, Idle, Settled, Arc
    <3>2. Clean' => Clean
      BY <2>1 DEF Clean
    <3>3. ASSUME Clean' PROVE \E k \in Nat, n \in Nat : Handled(k, n)'
      <4>1. PICK k \in Nat, n \in Nat : Handled(k, n)
        BY <2>3, <3>2, <3>3 DEF RInv
      <4>2. Handled(k, n)'
        <5>1. Place(k, n)'
          BY <2>1, <4>1 DEF Handled, Place, At
        <5>2. Late(k)' /\ \A c \in Chans : Agrees(c, k)'
          BY <2>1, <4>1 DEF Handled, Late, Agrees, Sent, Head1, Up, HwUp, Zero
        <5>3. Stage(k, n)'
          BY <2>1, <4>1 DEF Handled, Stage, Turned, Cleared, Still, Zero
        <5> QED
          BY <5>1, <5>2, <5>3 DEF Handled
      <4> QED
        BY <4>2
    <3>4. ASSUME Clean', cl' \in Running PROVE Transfers'
      <4>1. Transfers
        BY <2>1, <2>3, <3>2, <3>4 DEF RInv
      <4> QED
        BY <2>1, <4>1, CalmTransfers
    <3> QED
      BY <3>1, <3>3, <3>4 DEF RInv
  <2> QED
    BY <2>2, <2>3
<1> QED
  BY <1>1, <1>2, <1>3, <1>4, <1>5 DEF Next

\* Whatever the interrupt handler, the tasklet, the hardware and the holder of ctrl_lock do meanwhile,
\* late and unanswered commands included, the controller's transfers, its rings and its commands
\* stay together (gpi.c, spi-geni-qcom.c).
THEOREM RingInvariance == Spec => []RInv
<1>1. Init => RInv
  BY RInvInit
<1>2. IInv /\ RInv /\ [Next]_vars => RInv'
  BY RInvStep
<1> QED
  BY <1>1, <1>2, Invariance, PTL DEF Spec

\* As long as no grab, no termination and no command of a release has failed, the hardware runs only
\* for the transfer in progress, however often transfers fail, time out, are terminated while the
\* hardware is at work on them or are paused, and whatever commands are late or lost
\* (gpi_terminate_all, gpi_reset_chan, handle_gpi_timeout).
THEOREM OnlyCurrentRuns == Spec => []OnlyCurrent
<1>1. IInv /\ RInv => OnlyCurrent
  <2> SUFFICES ASSUME IInv, RInv, NEW c \in Chans, HwRuns(c), ~dirty
               PROVE  slot[c][hw[c].at].x = cur.x /\ cl # "ready"
    BY DEF OnlyCurrent
  <2>1. ~Settled(c) /\ Arc(c) /\ Typed
    BY DEF HwRuns, Settled, RInv, IInv
  <2>2. cl # "ready"
    BY <2>1 DEF Arc, Busy
  <2>3. PICK n \in 1 .. NrTre(c) :
          \A i \in 0 .. n - 1 : slot[c][After(hw[c].at, i)] = Tres(c, cur)[i + 1]
    BY <2>1 DEF Arc
  <2>4. NrTre(c) \in Nat
    BY DEF NrTre
  <2>5. 0 \in 0 .. n - 1 /\ 1 \in 1 .. NrTre(c)
    BY <2>3, <2>4
  <2>6. slot[c][After(hw[c].at, 0)] = Tres(c, cur)[1]
    BY <2>3, <2>5
  <2>7. After(hw[c].at, 0) = hw[c].at
    <3>1. hw[c].at \in Nat /\ hw[c].at < Elements /\ Elements \in Nat
      BY <2>1, SlotFacts DEF Typed, TypedRings
    <3> QED
      BY <3>1, Below DEF After
  <2>8. Tres(c, cur)[1].x = cur.x
    <3>1. cur \in Xfers
      BY <2>1 DEF Typed, TypedClient
    <3> QED
      BY <2>5, <3>1, TresFlags
  <2> QED
    BY <2>2, <2>6, <2>7, <2>8
<1> QED
  BY <1>1, Invariance, RingInvariance, PTL

-----------------------------------------------------------------------------
(* What a release frees *)

\* Nothing keeps a channel running, and nothing starts it.
Down(c) ==
  /\ ~HwUp(c)
  /\ \A i \in DOMAIN cmds : ~(cmds[i].cmd = "START" /\ cmds[i].ch = c)

\* One of three is in charge of the events: the interrupt, which is not masked, the tasklet about to
\* run, or the tasklet at work.
Guarded ==
  /\ ieobOn \/ sched \/ tk.pc # "off"
  /\ ~(ieobOn /\ sched)
  /\ tk.pc # "off" => ~ieobOn /\ ~sched

Tended == evOn /\ RegAccessValid(pm) /\ Guarded

\* The tasklet has yet to clear the pending interrupt.
ToClear == sched \/ tk.pc \in {"scan", "complete", "unlink"}

\* A pending interrupt of an event is somebody's, and is the tasklet's once the handler has seen it.
Minded == stat.ieob => ieobOn \/ ToClear
Seen   == stat.ieob => ~ieobOn /\ ToClear

\* No event will start the tasklet.
AtRest == ~stat.ieob /\ ~sched /\ tk.pc = "off"

\* What has been done of the event ring when the channels are taken, and when they are given back.
Grabbing(k, n) ==
  /\ At(ChInit(RX), k, n)
  /\ (k > 1 => evOn) /\ (k > 2 => RegAccessValid(pm)) /\ (k > 3 => ieobOn)
GivingRx(k, n) ==
  /\ At(Freeing(RX, "ACTIVE"), k, n)
  /\ Tended /\ (k > 1 => Minded) /\ (k > 2 \/ (k = 2 /\ sent /\ done) => Seen)
  /\ k > 5 => ~ring[RX].on
GivingTx(k, n) ==
  /\ At(Freeing(TX, "ACTIVE"), k, n)
  /\ Tended /\ Seen /\ ~ring[RX].on
  /\ k < 9 /\ (k > 5 => ~ring[TX].on)
GivingEv(p) == script \in {FreeingEv(p), From(FreeingEv(p), 2)} /\ Tended /\ Seen

\* While nothing has failed, a ring that is not there is not in use, and neither is the event ring.
LiveRings ==
  /\ \A c \in Chans : ~ring[c].on => Down(c)
  /\ cl \in Running => ring[RX].on
  /\ cl = "grabRx" => ring[RX].on \/ (~ret /\ script = <<>>)
LiveEvents ==
  /\ cl \in {"off", "grabTx", "grabRx"} => AtRest
  /\ cl = "grabRx" /\ ret => \E k \in Nat, n \in Nat : Grabbing(k, n)
  /\ cl \in Running => Tended
  /\ cl = "freeRx" => \E k \in Nat, n \in Nat : GivingRx(k, n)
  /\ cl = "freeTx" => \/ \E k \in Nat, n \in Nat : GivingTx(k, n)
                      \/ \E p \in PmStates : GivingEv(p)
                      \/ AtRest /\ script \in Seq(LastSteps)

LInv == ~dirty => LiveRings /\ LiveEvents

-----------------------------------------------------------------------------
(* The rings *)

\* Which steps of a handler touch what is there of a ring.
LEMMA RingStays ==
  ASSUME Typed, CtlNext, NEW c \in Chans
  PROVE  \/ ring'[c].on = ring[c].on
         \/ Head1.do = "freeRing" /\ Head1.ch = c /\ ~ring'[c].on
<1> DEFINE R == [on : BOOLEAN, rp : Slots, wp : Slots]
<1>1. ring \in [Chans -> R] /\ Head1.ch \in Chans
  BY Effects, ScriptFacts DEF Typed, TypedRings
<1>2. CASE Head1.do \notin {"resetRing", "freeRing"}
  BY <1>2, Effects
<1>3. CASE Head1.do = "resetRing"
  <2>1. ring' = [ring EXCEPT ![Head1.ch].rp = 0, ![Head1.ch].wp = 0]
    BY <1>3, Effects
  <2> QED
    BY <1>1, <2>1
<1>4. CASE Head1.do = "freeRing"
  <2>1. ring' = [ring EXCEPT ![Head1.ch] = NoRing]
    BY <1>4, Effects
  <2> QED
    BY <1>1, <1>4, <2>1 DEF NoRing
<1> QED
  BY <1>2, <1>3, <1>4

\* A channel that is down stays down as long as no START is sent to it.
LEMMA DownKept ==
  ASSUME Typed, NEW c \in Chans, Down(c), cmds' = cmds, HwUp(c)' <=> HwUp(c)
  PROVE  Down(c)'
BY DEF Down

LEMMA DownHandler ==
  ASSUME Typed, CtlNext, NEW c \in Chans, Down(c),
         Head1.do = "cmd" /\ ~sent => Head1.val # "START" \/ Head1.ch # c
  PROVE  Down(c)'
<1>1. HwUp(c)' <=> HwUp(c)
  BY Programmed DEF HwUp
<1>2. cmds \in Seq(Command)
  BY DEF Typed, TypedRings
<1>3. CASE Head1.do = "cmd" /\ ~sent
  <2> DEFINE e == [cmd |-> Head1.val, ch |-> Head1.ch]
  <2>1. cmds' = Append(cmds, e) /\ e \in Command
    BY <1>3, Effects, MoreEffects, ScriptFacts DEF Command
  <2>2. e.cmd # "START" \/ e.ch # c
    BY <1>3
  <2> HIDE DEF e
  <2>3. /\ Len(cmds) \in Nat /\ DOMAIN cmds' = 1 .. Len(cmds) + 1
        /\ \A i \in 1 .. Len(cmds) : cmds'[i] = cmds[i]
        /\ cmds'[Len(cmds) + 1] = e
    BY <1>2, <2>1, AppendProperties, LenProperties
  <2>4. \A i \in 1 .. Len(cmds) + 1 : i \in 1 .. Len(cmds) \/ i = Len(cmds) + 1
    BY <2>3
  <2>5. DOMAIN cmds = 1 .. Len(cmds)
    BY <1>2, LenProperties
  <2>6. ASSUME NEW i \in DOMAIN cmds' PROVE ~(cmds'[i].cmd = "START" /\ cmds'[i].ch = c)
    <3>1. CASE i \in 1 .. Len(cmds)
      BY <2>3, <2>5, <3>1 DEF Down
    <3>2. CASE i = Len(cmds) + 1
      BY <2>2, <2>3, <3>2
    <3> QED
      BY <2>3, <2>4, <3>1, <3>2
  <2> QED
    BY <1>1, <2>6 DEF Down
<1>4. CASE ~(Head1.do = "cmd" /\ ~sent)
  <2>1. cmds' = cmds
    BY <1>4, MoreEffects
  <2> QED
    BY <1>1, <2>1 DEF Down
<1> QED
  BY <1>3, <1>4

LEMMA DownHardware ==
  ASSUME Typed, NEW c \in Chans, Down(c), HwCommand \/ HwStopped
  PROVE  Down(c)'
<1>1. cmds \in Seq(Command)
  BY DEF Typed, TypedRings
<1>2. CASE HwStopped
  <2>1. cmds' = cmds
    BY <1>2 DEF HwStopped
  <2>2. ~HwCommand \/ cmds' # cmds \/ cmds = <<>>
    <3>1. ASSUME cmds # <<>> PROVE Tail(cmds) # cmds
      <4>1. Len(Tail(cmds)) = Len(cmds) - 1 /\ Len(cmds) \in Nat
        BY <1>1, <3>1, HeadTailProperties, LenProperties
      <4> QED
        BY <4>1
    <3> QED
      BY <3>1 DEF HwCommand
  <2>3. HwUp(c)' <=> HwUp(c)
    BY <1>2, <2>1, <2>2, HwEffects
  <2> QED
    BY <2>1, <2>3, DownKept
<1>3. CASE HwCommand
  <2>1. cmds # <<>> /\ cmds' = Tail(cmds)
    BY <1>3 DEF HwCommand
  <2>2. /\ Head(cmds) = cmds[1] /\ Len(cmds) \in Nat /\ DOMAIN cmds = 1 .. Len(cmds)
        /\ DOMAIN cmds' = 1 .. Len(cmds) - 1
        /\ \A i \in 1 .. Len(cmds) - 1 : cmds'[i] = cmds[i + 1]
    BY <1>1, <2>1, HeadTailProperties, LenProperties
  <2>3. 1 \in DOMAIN cmds /\ \A i \in 1 .. Len(cmds) - 1 : i + 1 \in DOMAIN cmds
    BY <1>1, <2>1, <2>2, EmptySeq
  <2>4. ~(Head(cmds).cmd = "START" /\ Head(cmds).ch = c)
    BY <2>2, <2>3 DEF Down
  <2>5. ~HwUp(c)'
    <3>1. \/ HwUp(c)' <=> HwUp(c)
          \/ Head(cmds).ch = c /\ (Head(cmds).cmd = "START" \/ ~HwUp(c)')
      BY <1>3, HwEffects
    <3> QED
      BY <2>4, <3>1 DEF Down
  <2>6. \A i \in DOMAIN cmds' : ~(cmds'[i].cmd = "START" /\ cmds'[i].ch = c)
    BY <2>2, <2>3 DEF Down
  <2> QED
    BY <2>5, <2>6 DEF Down
<1> QED
  BY <1>2, <1>3

\* How the handler that gives channel c back goes on.
LEMMA FreeMoves ==
  ASSUME Typed, CtlNext, NEW c \in Chans, NEW k, NEW n, At(Freeing(c, "ACTIVE"), k, n)
  PROVE  LET s == Freeing(c, "ACTIVE")
         IN  \/ n = 0 /\ k = 1 /\ Head1.do = "setCh" /\ At(s, 2, 0)'
             \/ /\ n = 0 /\ k \in {2, 3, 4} /\ Head1.do = "cmd" /\ Head1.val # "START"
                /\ (~sent /\ At(s, k, 0)') \/ (sent /\ \E m \in Nat : At(s, k + 1, m)')
             \/ n \in Nat \ {0} /\ k = 5 /\ Head1.do \in {"resetRing", "wipe"} /\ At(s, 5, n - 1)'
             \/ n = 0 /\ k = 5 /\ Head1.do = "freeRing" /\ Head1.ch = c /\ At(s, 6, 0)'
             \/ n = 0 /\ k = 6 /\ Head1.do = "freeVc" /\ At(s, 7, 0)'
             \/ n = 0 /\ k = 7 /\ Head1.do = "setCh" /\ At(s, 8, 0)'
             \/ n = 0 /\ k = 8 /\ Head1.do = "others"
<1> DEFINE s == Freeing(c, "ACTIVE")
<1>1. /\ s \in Seq(AnyStep) /\ Len(s) = 8
      /\ s[1].do = "setCh"
      /\ \A i \in {2, 3, 4} : s[i].do = "cmd" /\ ~s[i].must
      /\ s[2].val = "STOP" /\ s[3].val = "RESET" /\ s[4].val = "DE_ALLOC"
      /\ s[4].ok = Wiped(c) /\ \A i \in {1, 2, 3, 5, 6, 7, 8} : s[i].ok = <<>>
      /\ s[6].do = "freeVc" /\ s[7].do = "setCh" /\ s[8].do = "others"
  BY FreeTable
<1>2. s[5].do = "freeRing" /\ s[5].ch = c
  <2>1. Len(s) \in {5, 8} /\ s[Len(s) - 3] = Step("freeRing", c)
    BY FreeScript DEF PmStates
  <2>2. Len(s) - 3 = 5
    BY <1>1
  <2>3. s[5] = Step("freeRing", c)
    BY <2>1, <2>2
  <2> HIDE DEF s
  <2> QED
    BY <2>3, Fields
<1>3. At(s, k, n) /\ script # <<>>
  BY Effects
<1> HIDE DEF s
<1>4. s \in Seq(AnyStep) /\ Len(s) = 8
  BY <1>1
<1>5. \A i \in 1 .. 8 : i = 4 \/ i \in {1, 2, 3, 5, 6, 7, 8}
  OBVIOUS
<1>6. \A i \in 1 .. Len(s) : s[i].ok \in Oks
  <2>1. s[4].ok \in Oks
    BY <1>1, TwoChans DEF Oks
  <2> QED
    BY <1>1, <1>5, <2>1 DEF Oks
<1>7. /\ n = 0 => k \in 1 .. Len(s) /\ Head1 = s[k]
      /\ n # 0 => /\ n \in Nat /\ n > 0 /\ k \in 2 .. Len(s) + 1 /\ n <= Len(s[k - 1].ok)
                  /\ s[k - 1].ok \in Seq(AnyStep) => Head1 = s[k - 1].ok[Len(s[k - 1].ok) - n + 1]
  BY <1>3, <1>4, Position
<1>8. CASE n = 0
  <2>1. k \in 1 .. 8 /\ Head1 = s[k]
    BY <1>4, <1>7, <1>8
  <2>2. k = 1 \/ k \in {2, 3, 4} \/ k = 5 \/ k = 6 \/ k = 7 \/ k = 8
    BY <2>1
  <2>3. CASE k = 8
    BY <1>1, <1>8, <2>1, <2>3
  <2>4. CASE k # 8
    <3>1. Head1.do # "others" /\ Head1.do \notin {"allocEv", "configIrq"} /\ (Head1.do = "cmd" => ~Head1.must)
      BY <1>1, <1>2, <2>1, <2>2, <2>4
    <3>2. \/ Head1.do = "cmd" /\ ~sent /\ At(s, k, 0)'
          \/ Head1.do = "cmd" /\ sent /\ At(s, k + 1, Len(s[k].ok))'
          \/ Head1.do = "cmd" /\ sent /\ At(s, k + 1, 0)'
          \/ Head1.do # "cmd" /\ At(s, k + 1, 0)'
      BY <1>3, <1>4, <1>6, <1>8, <3>1, Advance
    <3>3. CASE k \in {2, 3, 4}
      <4>1. Head1.do = "cmd" /\ Head1.val # "START"
        BY <1>1, <2>1, <3>3
      <4>2. Len(s[k].ok) \in Nat
        BY <1>4, <1>6, <2>1, OkFacts, LenProperties
      <4>3. PICK m \in Nat : m = Len(s[k].ok)
        BY <4>2
      <4>4. sent => At(s, k + 1, m)' \/ At(s, k + 1, 0)'
        BY <3>2, <4>1, <4>3
      <4> QED
        BY <1>8, <3>2, <3>3, <4>1, <4>4 DEF s
    <3>4. CASE k = 1
      BY <1>1, <1>8, <2>1, <3>2, <3>4 DEF s
    <3>5. CASE k = 5
      BY <1>2, <1>8, <2>1, <3>2, <3>5 DEF s
    <3>6. CASE k = 6
      BY <1>1, <1>8, <2>1, <3>2, <3>6 DEF s
    <3>7. CASE k = 7
      BY <1>1, <1>8, <2>1, <3>2, <3>7 DEF s
    <3> QED
      BY <2>2, <2>4, <3>3, <3>4, <3>5, <3>6, <3>7
  <2> QED
    BY <2>3, <2>4
<1>9. CASE n # 0
  <2>1. n \in Nat /\ n > 0 /\ k \in 2 .. 9 /\ n <= Len(s[k - 1].ok)
    BY <1>4, <1>7, <1>9
  <2>2. k = 5
    <3>1. k - 1 \in 1 .. 8
      BY <2>1
    <3>2. \A i \in {1, 2, 3, 5, 6, 7, 8} : Len(s[i].ok) = 0
      BY <1>1
    <3>3. k - 1 = 4
      BY <1>5, <2>1, <3>1, <3>2
    <3> QED
      BY <2>1, <3>3
  <2>3. s[4].ok = Wiped(c) /\ k - 1 = 4
    BY <1>1, <2>2
  <2>4. s[4].ok \in Oks
    BY <1>4, <1>6
  <2>5. s[4].ok \in Seq(AnyStep)
    BY <2>4, OkFacts
  <2>6. Len(Wiped(c)) = 2 /\ Wiped(c)[1] = Step("resetRing", c) /\ Wiped(c)[2] = Step("wipe", c)
    BY DEF Wiped
  <2>7. Head1 = Wiped(c)[2 - n + 1] /\ n \in {1, 2}
    <3>1. s[k - 1].ok = Wiped(c)
      BY <2>2, <2>3
    <3>2. n \in {1, 2}
      <4>1. Len(s[k - 1].ok) = 2
        BY <2>6, <3>1
      <4>2. n \in Nat /\ n > 0 /\ n <= 2
        BY <2>1, <4>1
      <4> QED
        BY <4>2
    <3>3. Head1 = s[k - 1].ok[Len(s[k - 1].ok) - n + 1]
      BY <1>7, <1>9, <2>3, <2>5
    <3> QED
      BY <2>6, <3>1, <3>2, <3>3
  <2>8. Head1 = Step("resetRing", c) \/ Head1 = Step("wipe", c)
    BY <2>6, <2>7
  <2>9. Head1.do \in {"resetRing", "wipe"}
    BY <2>8, Fields
  <2>10. At(s, k, n - 1)'
    BY <1>3, <1>4, <1>6, <1>9, <2>9, Advance
  <2> QED
    BY <2>1, <2>2, <2>9, <2>10 DEF s
<1> QED
  BY <1>8, <1>9

\* A ring is freed under a channel that is down, its RESET having been believed, and a release starts
\* no channel.
LEMMA RingGoes ==
  ASSUME IInv, RInv, CtlNext, ~dirty, cl \in {"freeRx", "freeTx"}
  PROVE  /\ Head1.do = "freeRing" /\ ~sent => Down(Head1.ch)
         /\ Head1.do = "cmd" => Head1.val # "START"
<1>1. Clean /\ Typed
  BY DEF Clean, Stopping, IInv
<1>2. PICK k \in Nat, n \in Nat : Handled(k, n)
  BY <1>1 DEF RInv
<1>3. CASE script \in Seq(LastSteps)
  <2>1. \A s \in LastSteps : s.do # "freeRing" /\ (s.do = "cmd" => s.val # "START")
    BY DEF LastSteps
  <2>2. script # <<>>
    BY <1>1, Effects
  <2> HIDE DEF LastSteps
  <2> QED
    BY <1>3, <2>1, <2>2, HeadTailProperties DEF Head1
<1>4. CASE script \notin Seq(LastSteps)
  <2>1. PICK c \in Chans : At(Freeing(c, "ACTIVE"), k, n) /\ cl = (IF c = RX THEN "freeRx" ELSE "freeTx")
    BY <1>2, <1>4, TwoChans DEF Handled, Place
  <2>2. Head1.do = "cmd" => Head1.val # "START"
    BY <1>1, <2>1, FreeMoves
  <2>3. ASSUME Head1.do = "freeRing", ~sent PROVE Down(Head1.ch)
    <3>1. k = 5 /\ Head1.ch = c
      BY <1>1, <2>1, <2>3, FreeMoves
    <3>2. ~Up(c, k)
      BY <2>1, <3>1, TwoChans DEF Up, InUse, Running, Stopping
    <3>3. \A cmd, d : ~Sent(cmd, d)
      BY <2>3 DEF Sent
    <3>4. ~HwUp(c)
      BY <1>2, <3>2, <3>3 DEF Handled, Agrees
    <3>5. \A i \in DOMAIN cmds : ~(cmds[i].cmd = "START" /\ cmds[i].ch = c)
      <4>1. "START" \in Cmds
        BY CmdNames
      <4> QED
        BY <1>2, <3>2, <3>3, <4>1 DEF Handled, Late
    <3> QED
      BY <3>1, <3>4, <3>5 DEF Down
  <2> QED
    BY <2>2, <2>3
<1> QED
  BY <1>3, <1>4

-----------------------------------------------------------------------------
(* The event ring, and who looks after it *)

\* The tasklet leaves the interrupt in charge when it is done.
LEMMA TaskletTends ==
  ASSUME IInv, Tasklet
  PROVE  /\ UNCHANGED <<cl, script, sent, ret, done, pm, evOn, cmds, dirty>>
         /\ \A c \in Chans : ring'[c].on = ring[c].on /\ (HwUp(c)' <=> HwUp(c))
         /\ ~AtRest
         /\ Tended => /\ Tended' /\ (Minded => Minded') /\ (Seen => Seen')
<1> USE DEF TkFrame, ctlVars, hwVars, pmVars, clVars
<1>1. /\ ring \in [Chans -> [on : BOOLEAN, rp : Slots, wp : Slots]]
      /\ tk \in [pc : {"off", "scan", "complete", "unlink", "reread", "unmask"}, n : Nat, ch : Chans, x : Xs,
                 cb : BOOLEAN]
      /\ stat \in [ieob : BOOLEAN, ch : SUBSET Chans, ev : BOOLEAN] /\ evs \in Seq(Event)
  BY DEF IInv, Typed, TypedRegs, TypedRings, TypedTk
<1>2. UNCHANGED <<cl, script, sent, ret, done, pm, evOn, cmds, dirty, hw>>
  BY DEF Tasklet, Complete, TkCallback, TkUnlink, TkStart, TkEvent, TkClear, TkReread, TkUnmask
<1>3. ASSUME NEW c \in Chans PROVE ring'[c].on = ring[c].on /\ (HwUp(c)' <=> HwUp(c))
  <2>1. HwUp(c)' <=> HwUp(c)
    BY <1>2 DEF HwUp
  <2>2. CASE TkEvent
    <3>1. evs # <<>>
      BY <2>2 DEF TkEvent
    <3>2. Head(evs).ch \in Chans
      <4>1. Head(evs) \in Event
        BY <1>1, <3>1, HeadTailProperties
      <4> QED
        BY <4>1 DEF Event
    <3>3. ring' = ring \/ ring' = [ring EXCEPT ![Head(evs).ch].rp = After(Head(evs).slot, 1)]
      BY <2>2 DEF TkEvent
    <3> QED
      BY <1>1, <2>1, <3>2, <3>3
  <2>3. CASE ~TkEvent
    <3>1. ring' = ring
      BY <2>3 DEF Tasklet, Complete, TkCallback, TkUnlink, TkStart, TkClear, TkReread, TkUnmask
    <3> QED
      BY <2>1, <3>1
  <2> QED
    BY <2>2, <2>3
<1>4. ~AtRest
  BY DEF AtRest, Tasklet, Complete, TkCallback, TkUnlink, TkStart, TkEvent, TkClear, TkReread, TkUnmask
<1>5. ASSUME Tended PROVE Tended' /\ (Minded => Minded') /\ (Seen => Seen')
  <2>0. Guarded /\ evOn /\ RegAccessValid(pm) /\ evOn' /\ RegAccessValid(pm)'
    BY <1>2, <1>5 DEF Tended
  <2> USE DEF Guarded, Minded, Seen, ToClear
  <2>1. CASE TkStart
    <3>1. tk' = [IdleTk EXCEPT !.pc = "scan", !.n = Len(evs)]
      BY <2>0, <2>1 DEF TkStart
    <3>2. tk'.pc = "scan"
      BY <3>1 DEF IdleTk
    <3>3. sched /\ ~sched' /\ UNCHANGED <<ieobOn, stat>>
      BY <2>1 DEF TkStart
    <3> QED
      BY <2>0, <3>2, <3>3 DEF Tended
  <2>2. CASE TkEvent \/ Complete \/ TkUnlink
    <3>1. UNCHANGED <<ieobOn, stat, sched>>
      BY <2>2 DEF TkEvent, Complete, TkCallback, TkUnlink
    <3>2. tk.pc \in {"scan", "complete", "unlink"}
      BY <2>2 DEF TkEvent, Complete, TkCallback, TkUnlink
    <3>3. tk'.pc \in {"scan", "complete", "unlink"}
      BY <1>1, <2>2 DEF TkEvent, Complete, TkCallback, TkUnlink, Recycled, IdleTk
    <3> QED
      BY <2>0, <3>1, <3>2, <3>3 DEF Tended
  <2>3. CASE TkClear
    <3>1. UNCHANGED <<ieobOn, sched>> /\ ~stat'.ieob /\ tk.pc = "scan" /\ tk'.pc = "reread"
      BY <1>1, <2>3 DEF TkClear
    <3> QED
      BY <2>0, <3>1 DEF Tended
  <2>4. CASE TkReread
    <3>1. UNCHANGED <<ieobOn, sched, stat>> /\ tk.pc = "reread" /\ tk'.pc \in {"scan", "unmask"}
      BY <1>1, <2>4 DEF TkReread
    <3> QED
      BY <2>0, <3>1 DEF Tended
  <2>5. CASE TkUnmask
    <3>1. UNCHANGED <<sched, stat>> /\ ieobOn' /\ tk.pc = "unmask" /\ tk'.pc = "off"
      BY <2>5 DEF TkUnmask, IdleTk
    <3> QED
      BY <2>0, <3>1 DEF Tended
  <2> QED
    BY <2>1, <2>2, <2>3, <2>4, <2>5 DEF Tasklet
<1> QED
  BY <1>2, <1>3, <1>4, <1>5

\* The interrupt handler hands what is pending to the tasklet.
LEMMA IrqTends ==
  ASSUME Typed, HandleIrq
  PROVE  /\ UNCHANGED <<script, sent, ret, pm, evOn, cmds, ring, hw>>
         /\ AtRest => AtRest'
         /\ Tended => /\ Tended' /\ (Minded => Minded' /\ Seen') /\ (Seen => Seen')
<1>1. /\ UNCHANGED <<script, sent, ret, pm, evOn, cmds, ring, hw, tk>>
      /\ ieobOn' = (ieobOn /\ ~(stat.ieob /\ ieobOn)) /\ sched' = (sched \/ (stat.ieob /\ ieobOn))
      /\ stat'.ieob = (stat.ieob /\ ~ieobOn)
  BY DEF HandleIrq, HandleIeob, pmVars, listVars, ctlVars, hwVars
<1>2. ieobOn \in BOOLEAN /\ sched \in BOOLEAN /\ stat.ieob \in BOOLEAN
  BY DEF Typed, TypedRegs
<1>3. AtRest => AtRest'
  BY <1>1, <1>2 DEF AtRest
<1>4. Tended => Tended'
  BY <1>1, <1>2 DEF Tended, Guarded
<1>5. Tended => (Minded => Minded' /\ Seen')
  BY <1>1, <1>2 DEF Tended, Guarded, Minded, Seen, ToClear
<1>6. Seen => Minded
  BY DEF Seen, Minded
<1> QED
  BY <1>1, <1>3, <1>4, <1>5, <1>6

\* The hardware adds an interrupt, of an event only when it runs a channel.
LEMMA HwTends ==
  ASSUME Typed, HwNext
  PROVE  /\ UNCHANGED <<script, sent, ret, done, pm, evOn, ring>>
         /\ Tended => Tended'
         /\ HwCommand \/ HwStopped =>
              (AtRest => AtRest') /\ (Minded => Minded') /\ (Seen => Seen')
<1>1. UNCHANGED <<script, sent, ret, done, pm, evOn, ring, ieobOn, sched, tk>>
  BY DEF HwNext, HwCommand, HwStopped, HwElements, HwFrame, pmVars, listVars, ctlVars, irqVars
<1>2. Tended => Tended'
  BY <1>1 DEF Tended, Guarded
<1>3. ASSUME HwCommand \/ HwStopped PROVE stat'.ieob = stat.ieob
  <2>1. stat \in [ieob : BOOLEAN, ch : SUBSET Chans, ev : BOOLEAN]
    BY DEF Typed, TypedRegs
  <2>2. CASE HwCommand
    BY <2>1, <2>2 DEF HwCommand
  <2>3. CASE HwStopped
    BY <2>1, <2>3 DEF HwStopped
  <2> QED
    BY <1>3, <2>2, <2>3
<1> QED
  BY <1>1, <1>2, <1>3 DEF AtRest, Minded, Seen, ToClear

-----------------------------------------------------------------------------
(* The other processes *)

\* What they do while the handler and the controller wait.
LEMMA MeanwhileKept ==
  ASSUME LInv, UNCHANGED <<cl, dirty, script, sent, ret, pm, evOn>>,
         \A c \in Chans : ring'[c].on = ring[c].on /\ (Down(c) => Down(c)'),
         ~dirty /\ AtRest => AtRest',
         Tended => Tended',
         ~dirty /\ cl \in {"freeRx", "freeTx"} /\ Tended => (Minded => Minded') /\ (Seen => Seen'),
         ~dirty /\ cl = "freeRx" /\ Tended /\ Minded => Seen' \/ (done' => done),
         ~dirty /\ cl = "grabRx" /\ AtRest /\ ieobOn => ieobOn'
  PROVE  LInv'
<1> SUFFICES ASSUME ~dirty' PROVE LiveRings' /\ LiveEvents'
  BY DEF LInv
<1>1. ~dirty /\ LiveRings /\ LiveEvents
  BY DEF LInv
<1>2. LiveRings'
  BY <1>1, TwoChans DEF LiveRings
<1>3. \A s, k, n : At(s, k, n) => At(s, k, n)'
  BY DEF At
<1>4. cl' \in {"off", "grabTx", "grabRx"} => AtRest'
  BY <1>1 DEF LiveEvents
<1>5. ASSUME cl' = "grabRx", ret' PROVE \E k \in Nat, n \in Nat : Grabbing(k, n)'
  <2>1. PICK k \in Nat, n \in Nat : Grabbing(k, n)
    BY <1>1, <1>5 DEF LiveEvents
  <2>2. ieobOn => ieobOn'
    BY <1>1, <1>5 DEF LiveEvents
  <2>3. Grabbing(k, n)'
    BY <1>3, <2>1, <2>2 DEF Grabbing
  <2> QED
    BY <2>3
<1>6. cl' \in Running => Tended'
  BY <1>1 DEF LiveEvents
<1>7. ASSUME cl' = "freeRx" PROVE \E k \in Nat, n \in Nat : GivingRx(k, n)'
  <2>1. PICK k \in Nat, n \in Nat : GivingRx(k, n)
    BY <1>1, <1>7 DEF LiveEvents
  <2>2. At(Freeing(RX, "ACTIVE"), k, n)' /\ Tended' /\ (k > 5 => ~ring'[RX].on)
    BY <1>3, <2>1, TwoChans DEF GivingRx
  <2>3. k > 1 => Minded'
    BY <1>1, <1>7, <2>1 DEF GivingRx
  <2>4. k > 2 \/ (k = 2 /\ sent' /\ done') => Seen'
    BY <1>1, <1>7, <2>1 DEF GivingRx
  <2>5. GivingRx(k, n)'
    BY <2>2, <2>3, <2>4 DEF GivingRx
  <2> QED
    BY <2>5
<1>8. ASSUME cl' = "freeTx"
      PROVE  \/ \E k \in Nat, n \in Nat : GivingTx(k, n)'
             \/ \E p \in PmStates : GivingEv(p)'
             \/ AtRest' /\ script' \in Seq(LastSteps)
  <2>1. CASE \E k \in Nat, n \in Nat : GivingTx(k, n)
    <3>1. PICK k \in Nat, n \in Nat : GivingTx(k, n)
      BY <2>1
    <3>2. At(Freeing(TX, "ACTIVE"), k, n)' /\ Tended' /\ Seen'
      BY <1>1, <1>3, <1>8, <3>1 DEF GivingTx
    <3>3. ~ring'[RX].on /\ k < 9 /\ (k > 5 => ~ring'[TX].on)
      BY <3>1, TwoChans DEF GivingTx
    <3>4. GivingTx(k, n)'
      BY <3>2, <3>3 DEF GivingTx
    <3> QED
      BY <3>4
  <2>2. CASE \E p \in PmStates : GivingEv(p)
    <3>1. PICK p \in PmStates : GivingEv(p)
      BY <2>2
    <3>2. GivingEv(p)'
      BY <1>1, <1>8, <3>1 DEF GivingEv
    <3> QED
      BY <3>2
  <2>3. CASE AtRest /\ script \in Seq(LastSteps)
    BY <1>1, <2>3
  <2> QED
    BY <1>1, <1>8, <2>1, <2>2, <2>3 DEF LiveEvents
<1>9. LiveEvents'
  BY <1>4, <1>5, <1>6, <1>7, <1>8 DEF LiveEvents
<1> QED
  BY <1>2, <1>9

\* What the processes beside the handler and the controller keep.
LEMMA MeanwhileLives ==
  ASSUME IInv, RInv, LInv, Tasklet \/ ((HandleIrq \/ HwNext) /\ UNCHANGED clVars)
  PROVE  LInv'
<1>1. Typed
  BY DEF IInv
<1>2. CASE Tasklet
  <2>1. \A c \in Chans : ring'[c].on = ring[c].on /\ (Down(c) => Down(c)')
    BY <1>1, <1>2, TaskletTends, DownKept
  <2>2. /\ UNCHANGED <<cl, dirty, script, sent, ret, pm, evOn>> /\ done' = done /\ ~AtRest
        /\ Tended => Tended' /\ (Minded => Minded') /\ (Seen => Seen')
    BY <1>2, TaskletTends
  <2> QED
    BY <2>1, <2>2, MeanwhileKept
<1>3. CASE HandleIrq /\ UNCHANGED clVars
  <2>1. /\ UNCHANGED <<cl, dirty, script, sent, ret, pm, evOn, ring, hw, cmds>>
    BY <1>1, <1>3, IrqTends DEF clVars
  <2>2. \A c \in Chans : ring'[c].on = ring[c].on /\ (Down(c) => Down(c)')
    BY <1>1, <2>1, DownKept DEF HwUp
  <2>3. /\ AtRest => AtRest'
        /\ Tended => Tended' /\ (Minded => Minded' /\ Seen') /\ (Seen => Seen')
    BY <1>1, <1>3, IrqTends
  <2>4. AtRest /\ ieobOn => ieobOn'
    BY <1>3 DEF HandleIrq, HandleIeob, AtRest
  <2> QED
    BY <2>1, <2>2, <2>3, <2>4, MeanwhileKept
<1>4. CASE (HwCommand \/ HwStopped) /\ UNCHANGED clVars
  <2>1. HwNext
    BY <1>4 DEF HwNext
  <2>2. /\ UNCHANGED <<cl, dirty, script, sent, ret, pm, evOn, ring, done>>
    BY <1>1, <1>4, <2>1, HwTends DEF clVars
  <2>3. \A c \in Chans : ring'[c].on = ring[c].on /\ (Down(c) => Down(c)')
    BY <1>1, <1>4, <2>2, DownHardware
  <2>4. /\ AtRest => AtRest'
        /\ Tended => Tended' /\ (Minded => Minded') /\ (Seen => Seen')
    BY <1>1, <1>4, <2>1, HwTends
  <2>5. ieobOn' = ieobOn
    BY <1>4 DEF HwCommand, HwStopped, HwFrame, irqVars
  <2> QED
    BY <2>2, <2>3, <2>4, <2>5, MeanwhileKept
<1>5. CASE (\E d \in Chans : HwElements(d)) /\ UNCHANGED clVars
  <2>0. PICK d \in Chans : HwElements(d)
    BY <1>5
  <2>1. HwNext
    BY <2>0 DEF HwNext
  <2>2. UNCHANGED <<cl, dirty, script, sent, ret, pm, evOn, ring>>
    BY <1>1, <1>5, <2>1, HwTends DEF clVars
  <2>3. hw \in [Chans -> [state : ChStates, ctx : BOOLEAN, at : Slots, db : Slots, links : Nat]]
    BY <1>1 DEF Typed, TypedRings
  <2>4. CASE dirty
    BY <2>2, <2>4 DEF LInv
  <2>5. CASE ~dirty
    <3>1. Arc(d) /\ ~Settled(d) /\ cl \in Busy
      BY <2>0, <2>5, TwoChans DEF RInv, HwElements, HwRuns, Settled, Idle
    <3>2. \A c \in Chans : hw'[c].state = hw[c].state
      BY <1>1, <2>0, <3>1, RunEffects
    <3>3. cmds' = cmds
      BY <2>0 DEF HwElements
    <3>4. \A c \in Chans : ring'[c].on = ring[c].on /\ (Down(c) => Down(c)')
      BY <1>1, <2>2, <3>2, <3>3, DownKept DEF HwUp
    <3>5. cl \in Running /\ cl \notin {"off", "grabTx", "grabRx", "freeRx", "freeTx"}
      BY <3>1 DEF Busy, Running
    <3>6. Tended /\ Tended'
      BY <1>1, <2>1, <2>5, <3>5, HwTends DEF LInv, LiveEvents
    <3>7. LiveRings'
      BY <2>2, <2>5, <3>4, <3>5, TwoChans DEF LInv, LiveRings
    <3>8. LiveEvents'
      BY <2>2, <3>5, <3>6 DEF LiveEvents
    <3> QED
      BY <3>7, <3>8 DEF LInv
  <2> QED
    BY <2>4, <2>5
<1> QED
  BY <1>2, <1>3, <1>4, <1>5 DEF HwNext

-----------------------------------------------------------------------------
(* The handlers *)

\* What more a step of a handler changes (Effects, MoreEffects), of what the events depend on.
LEMMA IrqEffects ==
  ASSUME Typed, CtlNext
  PROVE  /\ Head1.do \notin {"irqOff", "configIrq"} => ieobOn' = ieobOn
         /\ Head1.do = "configIrq" /\ ret' => ieobOn'
         /\ Head1.do = "allocEv" /\ ret' => evOn'
         /\ Head1.do = "cmd" /\ ~sent => ~done'
         /\ ~(Head1.do = "cmd" /\ ~sent) => done' = done
         /\ Head1.do = "killTasklet" => ~sched /\ tk.pc = "off"
<1> USE DEF Next1, Moves, ctlVars, irqVars, listVars, hwVars, pmVars, Head1
<1>1. CASE SendCmd
  BY <1>1 DEF SendCmd
<1>2. CASE CmdAnswered \/ CmdTimesOut
  <2>1. sent /\ Head1.do = "cmd"
    BY <1>2 DEF CmdAnswered, CmdTimesOut, Typed, TypedScript
  <2>2. UNCHANGED <<ieobOn, done>>
    BY <1>2 DEF CmdAnswered, CmdTimesOut, CmdEnds
  <2> QED
    BY <2>1, <2>2
<1>3. CASE SetState
  BY <1>3 DEF SetState
<1>4. CASE ResetRing
  BY <1>4 DEF ResetRing
<1>5. CASE Wipe
  BY <1>5 DEF Wipe
<1>6. CASE Program
  BY <1>6 DEF Program
<1>7. CASE AllocEvRing
  BY <1>7 DEF AllocEvRing
<1>8. CASE ConfigIrq
  BY <1>8 DEF ConfigIrq
<1>9. CASE SwitchIrq
  <2>1. Head1.do \in {"irqOff", "disableIrq", "enableIrq"} /\ UNCHANGED <<done, evOn>>
    BY <1>9 DEF SwitchIrq
  <2>2. ieobOn' = (ieobOn /\ Head1.do # "irqOff")
    BY <1>9 DEF SwitchIrq
  <2>3. ieobOn \in BOOLEAN
    BY DEF Typed, TypedRegs
  <2> QED
    BY <2>1, <2>2, <2>3
<1>10. CASE KillTasklet
  BY <1>10 DEF KillTasklet
<1>11. CASE FreeMemory
  BY <1>11 DEF FreeMemory
<1>12. CASE FreeShared
  BY <1>12 DEF FreeShared
<1> QED
  BY <1>1, <1>2, <1>3, <1>4, <1>5, <1>6, <1>7, <1>8, <1>9, <1>10, <1>11, <1>12 DEF CtlNext

\* A handler leaves alone who is in charge of the events, unless it sets the interrupt or the event
\* ring up, or takes them down.
LEMMA HandlerTends ==
  ASSUME Typed, CtlNext
  PROVE  /\ AtRest => AtRest'
         /\ /\ Tended /\ Head1.do \notin {"irqOff", "configIrq", "allocEv", "freeEv"}
            /\ Head1.do = "setPm" => RegAccessValid(Head1.val)
            => Tended' /\ (Minded => Minded') /\ (Seen => Seen')
<1>1. tk' = tk /\ sched' = sched /\ stat' = stat
  BY Effects
<1>2. AtRest => AtRest'
  BY <1>1 DEF AtRest
<1>3. ASSUME Tended, Head1.do \notin {"irqOff", "configIrq", "allocEv", "freeEv"},
             Head1.do = "setPm" => RegAccessValid(Head1.val)
      PROVE  Tended' /\ (Minded => Minded') /\ (Seen => Seen')
  <2>1. ieobOn' = ieobOn
    BY <1>3, IrqEffects
  <2>2. evOn' = evOn /\ RegAccessValid(pm)'
    <3>1. /\ Head1.do = "setPm" => pm' = Head1.val
          /\ Head1.do # "setPm" => pm' = pm
      BY Effects
    <3>2. evOn' = evOn
      BY <1>3, Effects
    <3> QED
      BY <1>3, <3>1, <3>2 DEF Tended
  <2> QED
    BY <1>1, <1>3, <2>1, <2>2 DEF Tended, Guarded, Minded, Seen, ToClear
<1> QED
  BY <1>2, <1>3

\* The handler that takes the channels.
LEMMA GrabLives ==
  ASSUME IInv, LInv, Controls, ~dirty', cl = "grabRx"
  PROVE  LiveRings' /\ LiveEvents'
<1>1. Typed /\ CtlNext /\ ~dirty /\ cl' = cl
  BY DEF IInv, Controls
<1>2. LiveRings /\ LiveEvents /\ script # <<>>
  BY <1>1, Effects DEF LInv
<1>3. Head1 \in Steps(InitKinds)
  <2>1. script \in Seq(Steps(InitKinds)) /\ "others" \notin InitKinds
    BY DEF IInv, Handlers, Taking, InitKinds
  <2> QED
    BY <1>1, <2>1, TwoChans, InitScripts, KindsKept
<1>4. /\ Head1.do \notin {"freeRing", "others"}
      /\ Head1.do = "setPm" => RegAccessValid(Head1.val)
  BY <1>3 DEF Steps, InitKinds, Harmless
<1>5. \A c \in Chans : ring'[c].on
  <2>1. \A c \in Chans : ring[c].on
    BY <1>2, TwoChans DEF LiveRings, IInv, RingOn
  <2> QED
    BY <1>1, <1>4, <2>1, RingStays
<1>6. LiveRings'
  BY <1>1, <1>5, TwoChans DEF LiveRings, Running
<1>7. AtRest'
  BY <1>1, <1>2, HandlerTends DEF LiveEvents
<1>8. ASSUME ret' PROVE \E k \in Nat, n \in Nat : Grabbing(k, n)'
  <2> DEFINE s == ChInit(RX)
  <2>1. ret
    BY <1>1, <1>8, MoreEffects DEF Typed, TypedScript
  <2>2. PICK k \in Nat, n \in Nat : Grabbing(k, n)
    BY <1>2, <2>1 DEF LiveEvents
  <2>3. /\ s \in Seq(AnyStep) /\ Len(s) = 11
        /\ s[1].do = "allocEv" /\ s[2].do = "setPm" /\ s[3].do = "configIrq" /\ s[5].do = "setPm"
        /\ s[7].do = "program" /\ s[9].do = "program"
        /\ \A i \in {4, 6, 8, 10, 11} : s[i].do = "cmd"
        /\ \A i \in 1 .. 9 : s[i].ok = <<>>
        /\ s[10].ok = <<SetCh(TX, "ACTIVE")>> /\ s[11].ok = <<SetCh(RX, "ACTIVE")>>
    BY InitTable
  <2>4. At(s, k, n) /\ (k > 1 => evOn) /\ (k > 2 => RegAccessValid(pm)) /\ (k > 3 => ieobOn)
    BY <2>2 DEF Grabbing
  <2> SUFFICES \E k2 \in Nat, n2 \in Nat :
                 At(s, k2, n2)' /\ (k2 > 1 => evOn') /\ (k2 > 2 => RegAccessValid(pm')) /\ (k2 > 3 => ieobOn')
    BY DEF Grabbing
  <2> HIDE DEF s
  <2>5. \A i \in 1 .. Len(s) : s[i].ok \in Oks
    <3>1. \A i \in 1 .. 11 : i \in 1 .. 9 \/ i = 10 \/ i = 11
      OBVIOUS
    <3> QED
      BY <2>3, <3>1 DEF Oks
  <2>6. s \in Seq(AnyStep) /\ Len(s) = 11
    BY <2>3
  <2>7. \/ /\ n = 0 /\ k \in 1 .. Len(s) /\ Head1 = s[k]
           /\ \/ Head1.do = "cmd" /\ At(s, k, 0)'
              \/ Head1.do = "cmd" /\ At(s, k + 1, Len(s[k].ok))'
              \/ At(s, k + 1, 0)'
        \/ /\ n \in Nat /\ n > 0 /\ k \in 2 .. Len(s) + 1
           /\ Head1.do \in {"resetRing", "wipe", "setCh"} /\ At(s, k, n - 1)'
    BY <1>1, <1>4, <1>8, <2>4, <2>5, <2>6, Advance
  <2>8. CASE n # 0
    <3>1. n - 1 \in Nat /\ k \in Nat /\ Head1.do \in {"resetRing", "wipe", "setCh"} /\ At(s, k, n - 1)'
      BY <2>7, <2>8
    <3>2. evOn' = evOn /\ pm' = pm /\ ieobOn' = ieobOn
      BY <1>1, <3>1, Effects, IrqEffects
    <3>3. (k > 1 => evOn') /\ (k > 2 => RegAccessValid(pm')) /\ (k > 3 => ieobOn')
      BY <2>4, <3>2
    <3> QED
      BY <3>1, <3>3
  <2>9. CASE n = 0
    <3>1. k \in 1 .. 11 /\ Head1 = s[k]
      BY <2>6, <2>7, <2>9
    <3>2. k = 1 \/ k = 2 \/ k = 3 \/ k = 5 \/ k \in {7, 9} \/ k \in {4, 6, 8, 10, 11}
      BY <3>1
    <3>3. /\ k = 1 => Head1.do = "allocEv"
          /\ k \in {2, 5} => Head1.do = "setPm"
          /\ k = 3 => Head1.do = "configIrq"
          /\ k \in {7, 9} => Head1.do = "program"
          /\ k \in {4, 6, 8, 10, 11} => Head1.do = "cmd"
      BY <2>3, <3>1
    <3>4. Head1.do \in {"allocEv", "setPm", "configIrq", "program", "cmd"}
      BY <3>2, <3>3
    <3>5. /\ Head1.do # "allocEv" => evOn' = evOn
          /\ Head1.do # "setPm" => pm' = pm
          /\ Head1.do = "setPm" => RegAccessValid(pm')
      BY <1>1, <1>4, <3>4, Effects
    <3>6. /\ Head1.do = "allocEv" => evOn'
          /\ Head1.do = "configIrq" => ieobOn'
          /\ Head1.do # "configIrq" => ieobOn' = ieobOn
      BY <1>1, <1>8, <3>4, IrqEffects
    <3>7. evOn' /\ (k > 1 => RegAccessValid(pm')) /\ (k > 2 => ieobOn')
      <4>0. k = 1 \/ k > 1
        BY <3>1
      <4>1. k = 1 \/ (k > 1 /\ evOn /\ Head1.do # "allocEv")
        <5>1. k # 1 => Head1.do # "allocEv"
          BY <3>2, <3>3
        <5> QED
          BY <2>4, <4>0, <5>1
      <4>2. k > 1 => k = 2 \/ (k > 2 /\ RegAccessValid(pm))
        BY <2>4, <3>1
      <4>3. k > 2 => k = 3 \/ (k > 3 /\ ieobOn /\ Head1.do # "configIrq")
        BY <2>4, <3>2, <3>3
      <4>4. evOn'
        BY <3>3, <3>5, <3>6, <4>1
      <4>5. k > 1 => RegAccessValid(pm')
        BY <3>3, <3>5, <4>2
      <4>6. k > 2 => ieobOn'
        BY <3>3, <3>6, <4>3
      <4> QED
        BY <4>4, <4>5, <4>6
    <3>8. \E k2 \in {k, k + 1}, n2 \in Nat : At(s, k2, n2)' /\ (k2 = k => k > 3)
      <4>1. Len(s[k].ok) \in Nat
        BY <2>5, <2>6, <3>1, OkFacts, LenProperties
      <4>2. Head1.do = "cmd" => k > 3
        BY <3>2, <3>3
      <4>3. k + 1 # k
        BY <3>1
      <4> QED
        BY <2>7, <2>9, <4>1, <4>2, <4>3
    <3>9. PICK k2 \in {k, k + 1}, n2 \in Nat : At(s, k2, n2)' /\ (k2 = k => k > 3)
      BY <3>8
    <3>10. k2 \in Nat /\ (k2 > 1 => evOn') /\ (k2 > 2 => RegAccessValid(pm')) /\ (k2 > 3 => ieobOn')
      <4>1. k2 \in Nat /\ (k2 > 2 => k > 1) /\ (k2 > 3 => k > 2)
        BY <3>1, <3>9
      <4> QED
        BY <3>7, <4>1
    <3> QED
      BY <3>9, <3>10
  <2> QED
    BY <2>8, <2>9
<1> QED
  BY <1>1, <1>6, <1>7, <1>8 DEF LiveEvents, Running

\* The handlers of a controller that has both channels.
LEMMA RunLives ==
  ASSUME IInv, LInv, Controls, ~dirty', cl \in Running
  PROVE  LiveRings' /\ LiveEvents'
<1>1. Typed /\ CtlNext /\ ~dirty /\ cl' = cl
  BY DEF IInv, Controls
<1>2. LiveRings /\ LiveEvents
  BY <1>1 DEF LInv
<1>3. Head1 \in Steps(RunKinds)
  <2>1. script \in Seq(Steps(RunKinds)) /\ "others" \notin RunKinds /\ "configIrq" \notin RunKinds
    BY DEF IInv, Handlers, RunKinds
  <2> QED
    BY <1>1, <2>1, KindsKept
<1>4. /\ Head1.do \notin {"freeRing", "irqOff", "configIrq", "allocEv", "freeEv"}
      /\ Head1.do = "setPm" => RegAccessValid(Head1.val)
  BY <1>3 DEF Steps, RunKinds, Harmless
<1>5. \A c \in Chans : ring'[c].on
  <2>1. \A c \in Chans : ring[c].on
    BY <1>2, TwoChans DEF LiveRings, IInv, RingOn
  <2> QED
    BY <1>1, <1>4, <2>1, RingStays
<1>6. LiveRings'
  BY <1>1, <1>5, TwoChans DEF LiveRings, Running
<1>7. Tended'
  BY <1>1, <1>2, <1>4, HandlerTends DEF LiveEvents
<1> QED
  BY <1>1, <1>6, <1>7 DEF LiveEvents, Running

\* What a release leaves of the rings.
LEMMA ReleaseRings ==
  ASSUME IInv, RInv, LInv, Controls, ~dirty', cl \in {"freeRx", "freeTx"}
  PROVE  LiveRings'
<1>1. Typed /\ CtlNext /\ ~dirty /\ cl' = cl
  BY DEF IInv, Controls
<1>2. LiveRings
  BY <1>1 DEF LInv
<1>3. ASSUME NEW c \in Chans, ~ring'[c].on PROVE Down(c)'
  <2>1. Down(c)
    <3>1. CASE ~ring[c].on
      BY <1>2, <3>1 DEF LiveRings
    <3>2. CASE ring[c].on
      <4>1. Head1.do = "freeRing" /\ Head1.ch = c
        BY <1>1, <1>3, <3>2, RingStays
      <4>2. ~sent
        BY <1>1, <4>1, MoreEffects
      <4> QED
        BY <1>1, <4>1, <4>2, RingGoes
    <3> QED
      BY <3>1, <3>2
  <2>2. Head1.do = "cmd" => Head1.val # "START"
    BY <1>1, RingGoes
  <2> QED
    BY <1>1, <2>1, <2>2, DownHandler
<1> QED
  BY <1>1, <1>3 DEF LiveRings, Running

\* The end of the handler that gives a channel back.
LEMMA LastOfFree ==
  ASSUME Typed, NEW c \in Chans, script' = <<>>
  PROVE  At(Freeing(c, "ACTIVE"), 9, 0)'
<1> DEFINE s == Freeing(c, "ACTIVE")
<1>1. s \in Seq(AnyStep) /\ Len(s) = 8
  BY FreeTable
<1> HIDE DEF s
<1>2. From(s, 9) = <<>>
  <2>1. From(s, Len(s) + 1) = <<>>
    BY <1>1, NoneLeft
  <2>2. Len(s) + 1 = 9
    BY <1>1
  <2> QED
    BY <2>1, <2>2
<1>3. At(s, 9, 0)'
  BY <1>1, <1>2 DEF At, Rest
<1> QED
  BY <1>3 DEF s

\* The handler that gives the receive channel back.
LEMMA FreeRxLives ==
  ASSUME IInv, LInv, Controls, ~dirty', cl = "freeRx"
  PROVE  LiveEvents'
<1>1. Typed /\ CtlNext /\ ~dirty /\ cl' = cl /\ ~ReleaseFails
  BY DEF IInv, Controls
<1>2. PICK k \in Nat, n \in Nat : GivingRx(k, n)
  BY <1>1 DEF LInv, LiveEvents
<1>3. /\ At(Freeing(RX, "ACTIVE"), k, n)
      /\ Tended /\ (k > 1 => Minded) /\ (k > 2 \/ (k = 2 /\ sent /\ done) => Seen)
      /\ (k > 5 => ~ring[RX].on)
  BY <1>2 DEF GivingRx
<1> DEFINE s == Freeing(RX, "ACTIVE")
<1>4. \/ n = 0 /\ k = 1 /\ Head1.do = "setCh" /\ At(s, 2, 0)'
      \/ /\ n = 0 /\ k \in {2, 3, 4} /\ Head1.do = "cmd" /\ Head1.val # "START"
         /\ (~sent /\ At(s, k, 0)') \/ (sent /\ \E m \in Nat : At(s, k + 1, m)')
      \/ n \in Nat \ {0} /\ k = 5 /\ Head1.do \in {"resetRing", "wipe"} /\ At(s, 5, n - 1)'
      \/ n = 0 /\ k = 5 /\ Head1.do = "freeRing" /\ Head1.ch = RX /\ At(s, 6, 0)'
      \/ n = 0 /\ k = 6 /\ Head1.do = "freeVc" /\ At(s, 7, 0)'
      \/ n = 0 /\ k = 7 /\ Head1.do = "setCh" /\ At(s, 8, 0)'
      \/ n = 0 /\ k = 8 /\ Head1.do = "others"
  BY <1>1, <1>3, TwoChans, FreeMoves
<1>5. Head1.do \in {"setCh", "cmd", "resetRing", "wipe", "freeRing", "freeVc", "others"}
  BY <1>4
<1>6. Tended' /\ (Minded => Minded') /\ (Seen => Seen')
  BY <1>1, <1>3, <1>5, HandlerTends
<1>7. Head1.do # "cmd" => ~sent'
  BY <1>1, MoreEffects
<1> SUFFICES \E k2 \in Nat, n2 \in Nat :
               /\ At(s, k2, n2)' /\ (k2 > 1 => Minded') /\ (k2 > 2 \/ (k2 = 2 /\ sent' /\ done') => Seen')
               /\ (k2 > 5 => ~ring'[RX].on)
  BY <1>1, <1>6 DEF LiveEvents, GivingRx, Running
<1> HIDE DEF s
<1>8. CASE n = 0 /\ k = 1 /\ Head1.do = "setCh" /\ At(s, 2, 0)'
  <2>1. tk.pc = "off"
    BY <1>1, <1>8, Effects
  <2>2. Minded
    BY <1>3, <2>1 DEF Tended, Guarded, Minded, ToClear
  <2> QED
    BY <1>6, <1>7, <1>8, <2>2
<1>9. CASE /\ n = 0 /\ k \in {2, 3, 4} /\ Head1.do = "cmd"
           /\ (~sent /\ At(s, k, 0)') \/ (sent /\ \E m \in Nat : At(s, k + 1, m)')
  <2>1. CASE ~sent
    <3>1. ~done' /\ At(s, k, 0)'
      BY <1>1, <1>9, <2>1, IrqEffects
    <3>2. Minded' /\ (k > 2 => Seen')
      BY <1>3, <1>6, <1>9
    <3>3. k \in Nat /\ 0 \in Nat /\ ~(k > 5)
      BY <1>9
    <3> QED
      BY <3>1, <3>2, <3>3
  <2>2. CASE sent
    <3>1. PICK m \in Nat : At(s, k + 1, m)'
      BY <1>9, <2>2
    <3>2. done
      <4>1. ~sent'
        BY <1>1, <1>9, <2>2, MoreEffects
      <4> QED
        BY <1>1, <2>2, <4>1 DEF ReleaseFails
    <3>3. Seen' /\ Minded'
      <4>1. k = 2 \/ k > 2
        BY <1>9
      <4>2. Seen /\ Minded
        BY <1>3, <1>9, <2>2, <3>2, <4>1
      <4> QED
        BY <1>6, <4>2
    <3>4. k + 1 \in Nat /\ ~(k + 1 > 5)
      BY <1>9
    <3> QED
      BY <3>1, <3>3, <3>4
  <2> QED
    BY <2>1, <2>2
<1>10. CASE n \in Nat \ {0} /\ k = 5 /\ At(s, 5, n - 1)'
  <2>1. n - 1 \in Nat /\ Seen' /\ Minded'
    BY <1>3, <1>6, <1>10
  <2> QED
    BY <1>10, <2>1
<1>11. CASE n = 0 /\ k = 5 /\ Head1.do = "freeRing" /\ Head1.ch = RX /\ At(s, 6, 0)'
  <2>1. ~ring'[RX].on
    <3>1. ring' = [ring EXCEPT ![RX] = NoRing]
      BY <1>1, <1>11, Effects
    <3>2. ring \in [Chans -> [on : BOOLEAN, rp : Slots, wp : Slots]]
      BY <1>1 DEF Typed, TypedRings
    <3> QED
      BY <3>1, <3>2, TwoChans DEF NoRing
  <2>2. Seen' /\ Minded'
    BY <1>3, <1>6, <1>11
  <2> QED
    BY <1>11, <2>1, <2>2
<1>12. ASSUME k \in {6, 7, 8}, Head1.do # "cmd", At(s, k + 1, 0)'
       PROVE  \E k2 \in Nat, n2 \in Nat :
                /\ At(s, k2, n2)' /\ (k2 > 1 => Minded') /\ (k2 > 2 \/ (k2 = 2 /\ sent' /\ done') => Seen')
                /\ (k2 > 5 => ~ring'[RX].on)
  <2>1. Seen' /\ Minded' /\ ~ring[RX].on
    BY <1>3, <1>6, <1>12
  <2>2. ~ring'[RX].on
    BY <1>1, <2>1, TwoChans, RingStays
  <2>3. k + 1 \in Nat /\ 0 \in Nat
    OBVIOUS
  <2> QED
    BY <1>12, <2>1, <2>2, <2>3
<1>13. CASE n = 0 /\ k = 6 /\ Head1.do = "freeVc" /\ At(s, 7, 0)'
  BY <1>12, <1>13
<1>14. CASE n = 0 /\ k = 7 /\ Head1.do = "setCh" /\ At(s, 8, 0)'
  BY <1>12, <1>14
<1>15. CASE n = 0 /\ k = 8 /\ Head1.do = "others"
  <2>1. ring[TX].on
    BY DEF IInv, RingOn
  <2>2. script' = <<>>
    BY <1>1, <1>15, <2>1, TwoChans, Effects
  <2>3. At(s, 9, 0)'
    BY <1>1, <2>2, TwoChans, LastOfFree DEF s
  <2> QED
    BY <1>12, <1>15, <2>3
<1> QED
  BY <1>4, <1>8, <1>9, <1>10, <1>11, <1>13, <1>14, <1>15

\* The handler that gives the transmit channel back, and what both share.
LEMMA FreeTxLives ==
  ASSUME IInv, LInv, Controls, ~dirty', cl = "freeTx"
  PROVE  LiveEvents'
<1>1. Typed /\ CtlNext /\ ~dirty /\ cl' = cl
  BY DEF IInv, Controls
<1>2. \/ \E k \in Nat, n \in Nat : GivingTx(k, n)
      \/ \E p \in PmStates : GivingEv(p)
      \/ AtRest /\ script \in Seq(LastSteps)
  BY <1>1 DEF LInv, LiveEvents
<1> SUFFICES \/ \E k \in Nat, n \in Nat : GivingTx(k, n)'
             \/ \E p \in PmStates : GivingEv(p)'
             \/ AtRest' /\ script' \in Seq(LastSteps)
  BY <1>1 DEF LiveEvents, Running
<1>3. ASSUME script \in Seq(LastSteps) PROVE script' \in Seq(LastSteps)
  <2>1. \A s \in LastSteps : s.ok = <<>> /\ s.bad = <<>> /\ s.do \notin {"others", "allocEv", "configIrq"}
    BY DEF LastSteps
  <2> HIDE DEF LastSteps
  <2> QED
    BY <1>1, <1>3, <2>1, OneByOne
<1>4. CASE AtRest /\ script \in Seq(LastSteps)
  BY <1>1, <1>3, <1>4, HandlerTends
<1>5. CASE \E p \in PmStates : GivingEv(p)
  <2>1. PICK p \in PmStates : GivingEv(p)
    BY <1>5
  <2> DEFINE s == FreeingEv(p)
             S == LastSteps
  <2>2. script \in {s, From(s, 2)} /\ Tended /\ Seen
    BY <2>1 DEF GivingEv
  <2>3. s \in Seq(S) /\ 1 \in 1 .. Len(s) /\ 2 \in 1 .. Len(s)
    <3>1. Len(s) = (IF p = "ACTIVE" THEN 6 ELSE 4)
      BY FreeEvScript
    <3>2. s \in Seq(S)
      BY LastScript
    <3> QED
      BY <3>1, <3>2
  <2>4. s[1] = SetPm("PREPARE_TERMINATE") /\ s[2] = Step("killTasklet", TX)
    BY FreeEvScript
  <2> HIDE DEF s, S
  <2>5. From(s, 1) = s /\ Head(s) = s[1] /\ Tail(s) = From(s, 2)
    <3>1. From(s, 1) = s
      BY <2>3, AllLeft
    <3>2. Head(From(s, 1)) = s[1] /\ Tail(From(s, 1)) = From(s, 1 + 1)
      BY <2>3, Left
    <3> QED
      BY <3>1, <3>2
  <2>6. Head(From(s, 2)) = s[2] /\ From(s, 2) \in Seq(S)
    BY <2>3, Left
  <2>7. CASE script = s
    <3>1. Head1 = SetPm("PREPARE_TERMINATE")
      BY <2>4, <2>5, <2>7 DEF Head1
    <3>2. Head1.do = "setPm" /\ RegAccessValid(Head1.val)
      BY <3>1, Fields DEF RegAccessValid
    <3>3. script' = From(s, 2)
      BY <1>1, <2>5, <2>7, <3>2, Effects
    <3>4. Tended' /\ Seen'
      BY <1>1, <2>2, <3>2, HandlerTends
    <3>5. GivingEv(p)'
      BY <3>3, <3>4 DEF GivingEv, s
    <3> QED
      BY <3>5
  <2>8. CASE script = From(s, 2)
    <3>1. Head1 = Step("killTasklet", TX)
      BY <2>4, <2>6, <2>8 DEF Head1
    <3>2. Head1.do = "killTasklet"
      BY <3>1, Fields
    <3>3. ~sched /\ tk.pc = "off"
      BY <1>1, <3>2, IrqEffects
    <3>4. AtRest
      BY <2>2, <3>3 DEF Tended, Guarded, Seen, ToClear, AtRest
    <3>5. script \in Seq(LastSteps)
      BY <2>6, <2>8 DEF S
    <3> QED
      BY <1>1, <1>3, <3>4, <3>5, HandlerTends
  <2> QED
    BY <2>2, <2>7, <2>8
<1>6. CASE \E k \in Nat, n \in Nat : GivingTx(k, n)
  <2>1. PICK k \in Nat, n \in Nat : GivingTx(k, n)
    BY <1>6
  <2> DEFINE s == Freeing(TX, "ACTIVE")
  <2>2. At(s, k, n) /\ Tended /\ Seen /\ ~ring[RX].on /\ k < 9 /\ (k > 5 => ~ring[TX].on)
    BY <2>1 DEF GivingTx
  <2>3. \/ n = 0 /\ k = 1 /\ Head1.do = "setCh" /\ At(s, 2, 0)'
        \/ /\ n = 0 /\ k \in {2, 3, 4} /\ Head1.do = "cmd" /\ Head1.val # "START"
           /\ (~sent /\ At(s, k, 0)') \/ (sent /\ \E m \in Nat : At(s, k + 1, m)')
        \/ n \in Nat \ {0} /\ k = 5 /\ Head1.do \in {"resetRing", "wipe"} /\ At(s, 5, n - 1)'
        \/ n = 0 /\ k = 5 /\ Head1.do = "freeRing" /\ Head1.ch = TX /\ At(s, 6, 0)'
        \/ n = 0 /\ k = 6 /\ Head1.do = "freeVc" /\ At(s, 7, 0)'
        \/ n = 0 /\ k = 7 /\ Head1.do = "setCh" /\ At(s, 8, 0)'
        \/ n = 0 /\ k = 8 /\ Head1.do = "others"
    BY <1>1, <2>2, TwoChans, FreeMoves
  <2>4. Head1.do \in {"setCh", "cmd", "resetRing", "wipe", "freeRing", "freeVc", "others"}
    BY <2>3
  <2>5. Tended' /\ Seen'
    BY <1>1, <2>2, <2>4, HandlerTends
  <2>6. ~ring'[RX].on
    BY <1>1, <2>2, TwoChans, RingStays
  <2>7. ASSUME NEW k2 \in Nat, NEW n2 \in Nat, At(s, k2, n2)', k2 < 9, k2 > 5 => ~ring'[TX].on
        PROVE  \E k3 \in Nat, n3 \in Nat : GivingTx(k3, n3)'
    <3>1. GivingTx(k2, n2)'
      BY <2>5, <2>6, <2>7 DEF GivingTx
    <3> QED
      BY <3>1
  <2> HIDE DEF s
  <2>8. CASE n = 0 /\ k = 1 /\ At(s, 2, 0)'
    BY <2>7, <2>8
  <2>9. CASE /\ n = 0 /\ k \in {2, 3, 4}
             /\ (~sent /\ At(s, k, 0)') \/ (sent /\ \E m \in Nat : At(s, k + 1, m)')
    <3>1. PICK k2 \in {k, k + 1}, m \in Nat : At(s, k2, m)'
      BY <2>9
    <3>2. k2 \in Nat /\ k2 < 9 /\ ~(k2 > 5)
      BY <2>9, <3>1
    <3> QED
      BY <2>7, <3>1, <3>2
  <2>10. CASE n \in Nat \ {0} /\ k = 5 /\ At(s, 5, n - 1)'
    <3>1. n - 1 \in Nat /\ 5 \in Nat /\ 5 < 9 /\ ~(5 > 5)
      BY <2>10
    <3> QED
      BY <2>7, <2>10, <3>1
  <2>11. CASE n = 0 /\ k = 5 /\ Head1.do = "freeRing" /\ Head1.ch = TX /\ At(s, 6, 0)'
    <3>1. ring' = [ring EXCEPT ![TX] = NoRing]
      BY <1>1, <2>11, Effects
    <3>2. ring \in [Chans -> [on : BOOLEAN, rp : Slots, wp : Slots]]
      BY <1>1 DEF Typed, TypedRings
    <3>3. ~ring'[TX].on
      BY <3>1, <3>2, TwoChans DEF NoRing
    <3> QED
      BY <2>7, <2>11, <3>3
  <2>12. k > 5 => ~ring'[TX].on
    BY <1>1, <2>2, TwoChans, RingStays
  <2>13. CASE n = 0 /\ k = 6 /\ At(s, 7, 0)'
    BY <2>7, <2>12, <2>13
  <2>14. CASE n = 0 /\ k = 7 /\ At(s, 8, 0)'
    BY <2>7, <2>12, <2>14
  <2>15. CASE n = 0 /\ k = 8 /\ Head1.do = "others"
    <3>1. ~\E c \in Chans : ring[c].on
      BY <2>2, <2>15, TwoChans
    <3>2. script' = FreeingEv(pm)
      BY <1>1, <2>15, <3>1, Effects
    <3>3. pm' = pm /\ pm \in PmStates
      BY <1>1, <2>15, Effects DEF Typed, TypedRegs
    <3>4. GivingEv(pm)'
      BY <2>5, <3>2, <3>3 DEF GivingEv
    <3> QED
      BY <3>3, <3>4
  <2> QED
    BY <2>3, <2>8, <2>9, <2>10, <2>11, <2>13, <2>14, <2>15
<1> QED
  BY <1>2, <1>4, <1>5, <1>6

\* The handler at work.
LEMMA ControlsLive ==
  ASSUME IInv, RInv, LInv, Controls
  PROVE  LInv'
<1> SUFFICES ASSUME ~dirty' PROVE LiveRings' /\ LiveEvents'
  BY DEF LInv
<1>1. Typed /\ CtlNext /\ ~dirty
  BY DEF IInv, Controls
<1>2. cl \in {"off", "grabTx"} => Clean
  BY <1>1 DEF Clean, Stopping
<1>3. cl \notin {"off", "grabTx"}
  <2>1. script # <<>>
    BY <1>1, Effects
  <2>2. ASSUME cl \in {"off", "grabTx"} PROVE script = <<>>
    <3>1. PICK k \in Nat, n \in Nat : Handled(k, n)
      BY <1>1, <1>2, <2>2 DEF RInv
    <3> QED
      BY <2>2, <3>1 DEF Handled, Place
  <2> QED
    BY <2>1, <2>2
<1>4. cl \in {"grabRx", "freeRx", "freeTx"} \cup Running
  BY <1>1, <1>3 DEF Typed, TypedClient, Running
<1> QED
  BY <1>4, GrabLives, RunLives, ReleaseRings, FreeRxLives, FreeTxLives

-----------------------------------------------------------------------------
(* The controller *)

\* What the controller's own steps leave alone.
LEMMA ClientCalm ==
  ASSUME Typed, ClientNext
  PROVE  /\ UNCHANGED <<pm, evOn, ieobOn, sched, tk, stat, cmds, done>>
         /\ \A c \in Chans : HwUp(c)' <=> HwUp(c)
         /\ \A c \in Chans : ring'[c].on = ring[c].on \/ ((GrabTx \/ GrabRx) /\ ring'[c].on)
<1> USE DEF Quiet, hwVars, irqVars, pmVars, ctlVars
<1> DEFINE Calm == UNCHANGED <<pm, evOn, ieobOn, sched, tk, stat, cmds, done>>
           Regs == \A d \in Chans : hw'[d].state = hw[d].state
           Same == \A d \in Chans : ring'[d].on = ring[d].on
<1>1. /\ ring \in [Chans -> [on : BOOLEAN, rp : Slots, wp : Slots]]
      /\ hw \in [Chans -> [state : ChStates, ctx : BOOLEAN, at : Slots, db : Slots, links : Nat]]
  BY DEF Typed, TypedRings
<1>2. ASSUME GrabTx \/ GrabRx
      PROVE  Calm /\ Regs /\ \A d \in Chans : ring'[d].on = ring[d].on \/ ring'[d].on
  <2>1. PICK c \in Chans : Alloc(c) \/ AllocFails
    BY <1>2, TwoChans DEF GrabTx, GrabRx
  <2>2. ring' = ring \/ ring' = [ring EXCEPT ![c] = [on |-> TRUE, rp |-> 0, wp |-> 0]]
    BY <2>1 DEF Alloc, AllocFails
  <2>3. \A d \in Chans : ring'[d].on = ring[d].on \/ ring'[d].on
    BY <1>1, <2>2
  <2>4. UNCHANGED <<pm, evOn, ieobOn, sched, tk, stat, cmds, done, hw>>
    BY <2>1 DEF Alloc, AllocFails
  <2> QED
    BY <2>3, <2>4
<1>3. ASSUME UNCHANGED <<gpiVars>> PROVE Calm /\ Regs /\ Same
  BY <1>3 DEF gpiVars
<1>4. ASSUME Terminate \/ Pause \/ Resume \/ \E c \in Chans : Free(c)
      PROVE  Calm /\ Regs /\ Same
  BY <1>4 DEF Terminate, Pause, Resume, Free
<1>5. ASSUME SetupGsiXfer PROVE Calm /\ Regs /\ Same
  BY <1>5 DEF SetupGsiXfer
<1>6. ASSUME IssueRx \/ IssueTx PROVE Calm /\ Regs /\ Same
  <2>1. PICK c \in Chans : Issue(c)
    BY <1>6, TwoChans DEF IssueRx, IssueTx
  <2>2. Calm
    BY <2>1 DEF Issue
  <2>3. \/ ring' = ring /\ hw' = hw
        \/ \E v : ring' = [ring EXCEPT ![c].wp = v] /\ hw' = [hw EXCEPT ![c].db = v]
    BY <2>1 DEF Issue
  <2>4. Regs
    BY <1>1, <2>3
  <2>5. Same
    <3>1. CASE ring' = ring
      BY <3>1
    <3>2. ASSUME NEW v, ring' = [ring EXCEPT ![c].wp = v] PROVE Same
      BY <1>1, <3>2
    <3> QED
      BY <2>3, <3>1, <3>2
  <2> QED
    BY <2>2, <2>4, <2>5
<1>7. Calm /\ Regs /\ (GrabTx \/ GrabRx \/ Same)
  <2>1. CASE \/ GrabTxFailed \/ Grabbed \/ Released \/ WaitEnds \/ Terminated
    BY <1>3, <2>1 DEF GrabTxFailed, Grabbed, Released, WaitEnds, Terminated, Client
  <2>2. CASE GrabFailed \/ ReleaseRx \/ ReleaseTx \/ TerminateTx \/ TerminateRx \/ PauseOrResume
    BY <1>4, <2>2, TwoChans DEF GrabFailed, ReleaseRx, ReleaseTx, TerminateTx, TerminateRx, PauseOrResume
  <2> QED
    BY <1>2, <1>5, <1>6, <2>1, <2>2 DEF ClientNext
<1>8. \A c \in Chans : HwUp(c)' <=> HwUp(c)
  BY <1>7 DEF HwUp
<1>9. \A c \in Chans : ring'[c].on = ring[c].on \/ ((GrabTx \/ GrabRx) /\ ring'[c].on)
  <2>1. CASE GrabTx \/ GrabRx
    BY <1>2, <2>1
  <2>2. CASE Same
    BY <2>2
  <2> QED
    BY <1>7, <2>1, <2>2
<1> QED
  BY <1>7, <1>8, <1>9

\* Where the controller goes.
LEMMA ClientMoves ==
  ASSUME Typed, ClientNext, ~dirty'
  PROVE  /\ ~dirty
         /\ \/ cl = "off" /\ cl' = "grabTx" /\ GrabTx
            \/ cl = "grabTx" /\ cl' = "off" /\ GrabTxFailed
            \/ cl = "grabTx" /\ cl' = "grabRx" /\ GrabRx
            \/ cl = "grabRx" /\ cl' = "ready" /\ Grabbed
            \/ cl = "ready" /\ cl' = "freeRx" /\ ReleaseRx
            \/ cl = "freeRx" /\ cl' = "freeTx" /\ ReleaseTx
            \/ cl = "freeTx" /\ cl' = "off" /\ Released
            \/ cl \in Running /\ cl' \in Running
<1>1. ~GrabFailed
  BY DEF GrabFailed
<1>2. CASE GrabTx \/ GrabTxFailed \/ GrabRx \/ Grabbed \/ ReleaseRx \/ ReleaseTx \/ Released
  BY <1>2 DEF GrabTx, GrabTxFailed, GrabRx, Grabbed, ReleaseRx, ReleaseTx, Released, Calls, Returns, Client
<1>3. CASE SetupGsiXfer
  BY <1>3 DEF SetupGsiXfer, Running
<1>4. ASSUME IssueRx \/ IssueTx \/ WaitEnds \/ TerminateTx \/ PauseOrResume
      PROVE  dirty' = dirty /\ cl \in Running /\ cl' \in Running
  <2>1. CASE IssueRx \/ IssueTx \/ TerminateTx
    BY <2>1 DEF IssueRx, IssueTx, TerminateTx, Calls, Running
  <2>2. CASE WaitEnds
    BY <2>2 DEF WaitEnds, Client, Running
  <2>3. CASE PauseOrResume
    BY <2>3 DEF PauseOrResume, Running
  <2> QED
    BY <1>4, <2>1, <2>2, <2>3
<1>5. ASSUME TerminateRx \/ Terminated PROVE ~dirty /\ cl \in Running /\ cl' \in Running
  <2>1. dirty' = (dirty \/ ~ret)
    BY <1>5 DEF TerminateRx, Terminated
  <2>2. cl \in Running /\ cl' \in Running
    BY <1>5 DEF TerminateRx, Terminated, Returns, Running
  <2> QED
    BY <2>1, <2>2
<1> QED
  BY <1>1, <1>2, <1>3, <1>4, <1>5 DEF ClientNext

\* While the event ring is given back there is something left to do.
LEMMA GivingGoesOn ==
  ASSUME NEW p \in PmStates, GivingEv(p)
  PROVE  script # <<>>
<1> DEFINE s == FreeingEv(p)
           S == LastSteps
<1>1. Len(s) = (IF p = "ACTIVE" THEN 6 ELSE 4)
  BY FreeEvScript
<1>2. s \in Seq(S)
  BY LastScript
<1> HIDE DEF s, S
<1>3. 1 \in 1 .. Len(s) /\ 2 \in 1 .. Len(s)
  BY <1>1
<1>4. From(s, 1) # <<>> /\ From(s, 2) # <<>> /\ From(s, 1) = s
  BY <1>2, <1>3, Left, AllLeft
<1>5. script \in {s, From(s, 2)}
  BY DEF GivingEv, s
<1> QED
  BY <1>4, <1>5

\* The controller goes on.
LEMMA ClientLives ==
  ASSUME IInv, RInv, LInv, ClientNext
  PROVE  LInv'
<1> SUFFICES ASSUME ~dirty' PROVE LiveRings' /\ LiveEvents'
  BY DEF LInv
<1>1. /\ Typed /\ ~dirty /\ LiveRings /\ LiveEvents
      /\ cpm \in [Chans -> PmStates] /\ ring \in [Chans -> [on : BOOLEAN, rp : Slots, wp : Slots]]
  <2>1. Typed
    BY DEF IInv
  <2> QED
    BY <2>1, ClientMoves DEF LInv, Typed, TypedRegs, TypedRings
<1>2. /\ UNCHANGED <<pm, evOn, ieobOn, sched, tk, stat, cmds, done>>
      /\ \A c \in Chans : HwUp(c)' <=> HwUp(c)
      /\ \A c \in Chans : ring'[c].on = ring[c].on \/ ((GrabTx \/ GrabRx) /\ ring'[c].on)
  BY <1>1, ClientCalm
<1>3. (AtRest' <=> AtRest) /\ (Tended' <=> Tended) /\ (Minded' <=> Minded) /\ (Seen' <=> Seen)
  BY <1>2 DEF AtRest, Tended, Guarded, Minded, Seen, ToClear
<1>4. \A c \in Chans : ~ring'[c].on => Down(c)'
  BY <1>1, <1>2, DownKept DEF LiveRings
<1>5. /\ ~dirty
      /\ \/ cl = "off" /\ cl' = "grabTx" /\ GrabTx
         \/ cl = "grabTx" /\ cl' = "off" /\ GrabTxFailed
         \/ cl = "grabTx" /\ cl' = "grabRx" /\ GrabRx
         \/ cl = "grabRx" /\ cl' = "ready" /\ Grabbed
         \/ cl = "ready" /\ cl' = "freeRx" /\ ReleaseRx
         \/ cl = "freeRx" /\ cl' = "freeTx" /\ ReleaseTx
         \/ cl = "freeTx" /\ cl' = "off" /\ Released
         \/ cl \in Running /\ cl' \in Running
  BY <1>1, ClientMoves
<1>6. cl \notin {"grabRx"} \cup Stopping => \E k \in Nat, n \in Nat : Handled(k, n)
  BY <1>1 DEF RInv, Clean
<1>7. CASE cl = "off" /\ cl' = "grabTx"
  BY <1>1, <1>3, <1>4, <1>7 DEF LiveRings, LiveEvents, Running
<1>8. CASE cl = "grabTx" /\ cl' = "off"
  BY <1>1, <1>3, <1>4, <1>8 DEF LiveRings, LiveEvents, Running
<1>9. CASE cl = "grabTx" /\ cl' = "grabRx" /\ GrabRx
  <2>1. script = <<>> /\ ret /\ (Alloc(RX) \/ AllocFails)
    BY <1>9 DEF GrabRx, Returns
  <2>2. AtRest'
    BY <1>1, <1>3, <1>9 DEF LiveEvents
  <2>3. CASE AllocFails
    <3>1. ~ret' /\ script' = <<>>
      BY <2>1, <2>3 DEF AllocFails
    <3> QED
      BY <1>4, <1>9, <2>2, <3>1 DEF LiveRings, LiveEvents, Running
  <2>4. CASE Alloc(RX)
    <3>1. PICK k \in Nat, n \in Nat : Handled(k, n)
      BY <1>6, <1>9 DEF Stopping
    <3>2. cpm[TX] = "CONFIG"
      BY <1>9, <2>1, <3>1 DEF Handled, Stage
    <3>3. cpm'[TX] = "CONFIG" /\ cpm'[RX] = "CONFIG" /\ ring'[RX].on
      BY <1>1, <2>4, <3>2, TwoChans DEF Alloc
    <3>4. \A d \in Chans : cpm'[d] = "CONFIG"
      BY <3>3, TwoChans
    <3>5. script' = ChInit(RX)
      BY <2>4, <3>4 DEF Alloc, Enter
    <3>6. At(ChInit(RX), 1, 0)'
      BY <3>5, InitTable, Starts
    <3>7. Grabbing(1, 0)'
      BY <3>6 DEF Grabbing
    <3>8. \E k2 \in Nat, n2 \in Nat : Grabbing(k2, n2)'
      BY <3>7
    <3> QED
      BY <1>4, <1>9, <2>2, <3>3, <3>8 DEF LiveRings, LiveEvents, Running
  <2> QED
    BY <2>1, <2>3, <2>4
<1>10. CASE cl = "grabRx" /\ cl' = "ready" /\ Grabbed
  <2>1. script = <<>> /\ ret
    BY <1>10 DEF Grabbed, Returns
  <2>2. ring'[RX].on
    BY <1>1, <1>2, <1>10, <2>1, TwoChans DEF LiveRings
  <2>3. PICK k \in Nat, n \in Nat : Grabbing(k, n)
    BY <1>1, <1>10, <2>1 DEF LiveEvents
  <2>4. k = 12
    BY <2>1, <2>3, Finished DEF Grabbing
  <2>5. evOn /\ RegAccessValid(pm) /\ ieobOn /\ AtRest
    BY <1>1, <1>10, <2>3, <2>4 DEF Grabbing, LiveEvents
  <2>6. Tended'
    BY <1>3, <2>5 DEF Tended, Guarded, AtRest
  <2> QED
    BY <1>4, <1>10, <2>2, <2>6 DEF LiveRings, LiveEvents, Running
<1>11. CASE cl = "ready" /\ cl' = "freeRx" /\ ReleaseRx
  <2>1. PICK k \in Nat, n \in Nat : Handled(k, n)
    BY <1>6, <1>11 DEF Stopping
  <2>2. cpm[RX] = "ACTIVE"
    BY <1>11, <2>1, TwoChans DEF Handled, Stage, InUse, Running, Stopping
  <2>3. script' = Freeing(RX, "ACTIVE")
    BY <1>11, <2>2 DEF ReleaseRx, Free, Enter
  <2>4. At(Freeing(RX, "ACTIVE"), 1, 0)'
    BY <2>3, FreeTable, Starts, TwoChans
  <2>5. Tended'
    BY <1>1, <1>3, <1>11 DEF LiveEvents, Running
  <2>6. GivingRx(1, 0)'
    BY <2>4, <2>5 DEF GivingRx
  <2>7. \E k2 \in Nat, n2 \in Nat : GivingRx(k2, n2)'
    BY <2>6
  <2> QED
    BY <1>4, <1>11, <2>7 DEF LiveRings, LiveEvents, Running
<1>12. CASE cl = "freeRx" /\ cl' = "freeTx" /\ ReleaseTx
  <2>0. script = <<>>
    BY <1>12 DEF ReleaseTx, Returns
  <2>1. PICK k \in Nat, n \in Nat : Handled(k, n)
    BY <1>6, <1>12 DEF Stopping
  <2>2. cpm[TX] = "ACTIVE"
    BY <1>12, <2>1 DEF Handled, Stage
  <2>3. script' = Freeing(TX, "ACTIVE")
    BY <1>12, <2>2 DEF ReleaseTx, Free, Enter
  <2>4. At(Freeing(TX, "ACTIVE"), 1, 0)'
    BY <2>3, FreeTable, Starts, TwoChans
  <2>5. PICK j \in Nat, m \in Nat : GivingRx(j, m)
    BY <1>1, <1>12 DEF LiveEvents
  <2>6. j = 9
    BY <2>0, <2>5, Finished, TwoChans DEF GivingRx
  <2>7. Tended' /\ Seen' /\ ~ring[RX].on
    BY <1>3, <2>5, <2>6 DEF GivingRx
  <2>8. ~ring'[RX].on
    <3>1. ~GrabTx /\ ~GrabRx
      BY <1>12 DEF GrabTx, GrabRx, Calls, Returns
    <3> QED
      BY <1>2, <2>7, <3>1, TwoChans
  <2>9. GivingTx(1, 0)'
    BY <2>4, <2>7, <2>8 DEF GivingTx
  <2>10. \E k2 \in Nat, n2 \in Nat : GivingTx(k2, n2)'
    BY <2>9
  <2> QED
    BY <1>4, <1>12, <2>10 DEF LiveRings, LiveEvents, Running
<1>13. CASE cl = "freeTx" /\ cl' = "off" /\ Released
  <2>0. script = <<>>
    BY <1>13 DEF Released, Returns
  <2>1. \A k \in Nat, n \in Nat : ~GivingTx(k, n)
    <3> SUFFICES ASSUME NEW k \in Nat, NEW n \in Nat, GivingTx(k, n) PROVE FALSE
      OBVIOUS
    <3>1. At(Freeing(TX, "ACTIVE"), k, n) /\ k < 9
      BY DEF GivingTx
    <3>2. k = 9
      BY <2>0, <3>1, Finished, TwoChans
    <3> QED
      BY <3>1, <3>2
  <2>2. \A p \in PmStates : ~GivingEv(p)
    BY <2>0, GivingGoesOn
  <2>3. AtRest'
    BY <1>1, <1>3, <1>13, <2>1, <2>2 DEF LiveEvents
  <2> QED
    BY <1>4, <1>13, <2>3 DEF LiveRings, LiveEvents, Running
<1>14. CASE cl \in Running /\ cl' \in Running
  <2>1. ring'[RX].on /\ Tended'
    BY <1>1, <1>2, <1>3, <1>14, TwoChans DEF LiveRings, LiveEvents
  <2> QED
    BY <1>4, <1>14, <2>1 DEF LiveRings, LiveEvents, Running
<1> QED
  BY <1>5, <1>7, <1>8, <1>9, <1>10, <1>11, <1>12, <1>13, <1>14

-----------------------------------------------------------------------------
(* The rings live *)

LEMMA LInvInit == Init => LInv
<1> SUFFICES ASSUME Init PROVE LInv
  OBVIOUS
<1>1. /\ cl = "off" /\ cmds = <<>> /\ hw = [c \in Chans |-> IdleHw]
      /\ stat.ieob = FALSE /\ sched = FALSE /\ tk.pc = "off"
  BY DEF Init, GpiInit, IdleTk
<1>2. \A c \in Chans : Down(c)
  BY <1>1 DEF Down, HwUp, IdleHw
<1> QED
  BY <1>1, <1>2 DEF LInv, LiveRings, LiveEvents, AtRest, Running

LEMMA LInvStep == IInv /\ RInv /\ LInv /\ [Next]_vars => LInv'
<1> SUFFICES ASSUME IInv, RInv, LInv, [Next]_vars PROVE LInv'
  OBVIOUS
<1>1. CASE ClientNext
  BY <1>1, ClientLives
<1>2. CASE Controls
  BY <1>2, ControlsLive
<1>3. CASE Tasklet \/ ((HandleIrq \/ HwNext) /\ UNCHANGED clVars)
  BY <1>3, MeanwhileLives
<1>4. CASE Ended \/ UNCHANGED vars
  <2>1. UNCHANGED <<cl, dirty, script, sent, ret, pm, evOn, done, ring, hw, cmds, stat, sched, tk, ieobOn>>
    BY <1>4 DEF Ended, vars, gpiVars, clVars
  <2>2. (AtRest => AtRest') /\ (Tended => Tended') /\ (Minded => Minded') /\ (Seen => Seen')
    BY <2>1 DEF AtRest, Tended, Guarded, Minded, Seen, ToClear
  <2>3. \A c \in Chans : ring'[c].on = ring[c].on /\ (Down(c) => Down(c)')
    BY <2>1 DEF Down, HwUp
  <2> QED
    BY <2>1, <2>2, <2>3, MeanwhileKept
<1> QED
  BY <1>1, <1>2, <1>3, <1>4 DEF Next

\* While no grab, no termination and no command of a release has failed, a channel without a ring is
\* neither running nor about to be started, and the events have one who looks after them until
\* their ring goes (gpi_ch_init, gpi_free_chan_resources, gpi_process_ieob).
THEOREM LiveInvariance == Spec => []LInv
<1>1. Init => LInv
  BY LInvInit
<1>2. IInv /\ RInv /\ LInv /\ [Next]_vars => LInv'
  BY LInvStep
<1> QED
  BY <1>1, <1>2, Invariance, RingInvariance, PTL DEF Spec

\* A transfer ring is freed only under a channel that the hardware no longer runs, and the event
\* ring outlives the tasklet, as long as no grab, no termination and no command of a release has
\* failed, wherever in a release the interrupt handler, the tasklet and the hardware come in
\* (gpi_free_chan_resources, gpi_free_ring).  A gpi_ch_init that fails, after which the hardware may
\* keep or even start a channel without a ring, is a grab that has failed.
THEOREM RingsStayLive == Spec => []RingsLive
<1>1. IInv /\ LInv => RingsLive
  <2> SUFFICES ASSUME IInv, LInv, ~dirty
               PROVE  /\ \A c \in Chans : hw[c].state = "STARTED" /\ hw[c].ctx => ring[c].on
                      /\ tk.pc # "off" => evOn
    BY DEF RingsLive
  <2>1. LiveRings /\ LiveEvents /\ Typed
    BY DEF LInv, IInv
  <2>2. \A c \in Chans : hw[c].state = "STARTED" => ring[c].on
    BY <2>1 DEF LiveRings, Down, HwUp
  <2>3. ASSUME tk.pc # "off" PROVE evOn
    <3>1. ~AtRest
      BY <2>3 DEF AtRest
    <3>2. cl \in Running \cup {"freeRx", "freeTx"}
      BY <2>1, <3>1 DEF LiveEvents, Typed, TypedClient, Running
    <3> QED
      BY <2>1, <3>1, <3>2 DEF LiveEvents, GivingRx, GivingTx, GivingEv, Tended
  <2> QED
    BY <2>2, <2>3
<1> QED
  BY <1>1, Invariance, LiveInvariance, PTL

-----------------------------------------------------------------------------
(* Whose event it is *)

\* The tasklet has finished with descriptor d of channel c, which it is about to unlink.
Leaves(c, d) == tk.pc = "unlink" /\ tk.ch = c /\ tk.x = d.x

\* No descriptor is left in a channel, but one that the tasklet has finished with.
Drained(c) ==
  \/ vc[c].issued = <<>>
  \/ Len(vc[c].issued) = 1 /\ Leaves(c, vc[c].issued[1])

\* The event that the tasklet works on is that of its descriptor, and the callback is that of the
\* transfer in progress.
Paired ==
  tk.pc \in Held => Head(evs).x = tk.x /\ (tk.pc = "complete" /\ tk.cb => tk.x = cur.x)

\* Between transfers, and from the callback on, nothing is left.
Over == cl \notin Running \/ cl = "ready" \/ (cl \in InUse /\ sig # "none")

\* A termination that fails leaves no descriptor that the tasklet would look at.
GivenUp ==
  cl \in Stopping /\ ~ret => script = <<>> /\ \A c \in Chans : cpm[c] = "ACTIVE" => vc[c].issued = <<>>

\* The descriptors are those of the transfer in progress, which uses the receive channel to read.
OwnOnly(c) ==
  \A j \in DOMAIN vc[c].issued :
    LET d == vc[c].issued[j]
    IN  /\ d.x = cur.x \/ Leaves(c, d)
        /\ c = RX /\ d.x = cur.x => Reads

\* A channel that has done all of the transfer in progress has said so.
Told(c) ==
  Settled(c) => \A j \in DOMAIN vc[c].issued : vc[c].issued[j].x = cur.x =>
                  \E i \in DOMAIN evs : Live(i, c) /\ evs[i].x = cur.x

\* The transmit channel says so before the receive channel does.
InTurn ==
  \A i, j \in DOMAIN evs :
    Live(i, TX) /\ Live(j, RX) /\ evs[i].x = cur.x /\ evs[j].x = cur.x => i < j

\* A channel has all of the transfer before it, or nothing.
Whole(c) == ~Settled(c) => NrTre(c) < Elements /\ hw[c].db = After(hw[c].at, NrTre(c))

\* What has been submitted has room.
Fits(c) == vc[c].submitted # <<>> => HasRoom(c)

InOrder == InTurn /\ \A c \in Chans : Told(c) /\ Whole(c) /\ Fits(c)

AInv ==
  ~dirty =>
    /\ Paired /\ GivenUp
    /\ Over => \A c \in Chans : Drained(c)
    /\ Clean /\ cl \in Running => \A c \in Chans : OwnOnly(c)
    /\ cl \in InUse => InOrder

-----------------------------------------------------------------------------
\* A sequence of nothing.
LEMMA NoneIn ==
  ASSUME NEW S, NEW s \in Seq(S), \A j \in DOMAIN s : FALSE
  PROVE  s = <<>>
<1>1. DOMAIN s = 1 .. Len(s) /\ Len(s) \in Nat
  BY LenProperties
<1>2. Len(s) = 0
  <2>1. Len(s) > 0 => 1 \in DOMAIN s
    BY <1>1
  <2> QED
    BY <1>1, <2>1
<1> QED
  BY <1>2, EmptySeq

\* A descriptor that is in the way of nothing.
LEMMA DrainedFacts ==
  ASSUME Typed, DescriptorStays, NEW c \in Chans, Drained(c)
  PROVE  /\ \A j \in DOMAIN vc[c].issued : Leaves(c, vc[c].issued[j])
         /\ tk.pc # "unlink" \/ tk.ch # c => vc[c].issued = <<>>
         /\ vc[c].issued # <<>> => 1 \in DOMAIN vc[c].issued
<1>1. vc[c].issued \in Seq(Descs)
  BY DEF Typed, TypedRings, Lists
<1>2. CASE vc[c].issued = <<>>
  BY <1>2
<1>3. CASE Len(vc[c].issued) = 1 /\ Leaves(c, vc[c].issued[1])
  <2>1. DOMAIN vc[c].issued = 1 .. 1
    BY <1>1, <1>3, LenProperties
  <2> QED
    BY <1>3, <2>1 DEF Leaves
<1> QED
  BY <1>2, <1>3 DEF Drained

\* When nothing is left, the events are in order.
LEMMA DrainedIs ==
  IInv /\ RInv /\ ~dirty /\ Paired /\ cl = "ready" /\ (\A c \in Chans : Drained(c)) => AInv
<1> SUFFICES ASSUME IInv, RInv, ~dirty, Paired, cl = "ready", \A c \in Chans : Drained(c)
             PROVE  AInv
  OBVIOUS
<1>1. Typed /\ DescriptorStays /\ Clean /\ cl \in Running /\ cl \notin Stopping /\ cl \in InUse
  BY DEF IInv, Clean, Stopping, Running, InUse
<1>2. Transfers /\ Idle
  BY <1>1 DEF RInv, Busy
<1>3. evs # <<>> => 1 \in DOMAIN evs /\ Head(evs) = evs[1]
  BY <1>1, LenProperties, EmptySeq DEF Typed, TypedRings
<1>4. ASSUME NEW c \in Chans, NEW j \in DOMAIN vc[c].issued
      PROVE  Leaves(c, vc[c].issued[j]) /\ 1 \in DOMAIN evs /\ Live(1, c) /\ evs[1].x = vc[c].issued[j].x
  <2>1. Leaves(c, vc[c].issued[j])
    BY <1>1, <1>4, DrainedFacts
  <2>2. tk.pc = "unlink" /\ tk.ch = c /\ tk.x = vc[c].issued[j].x
    BY <2>1 DEF Leaves
  <2>3. evs # <<>> /\ Head(evs).ch = c /\ Head(evs).type # "stale"
    BY <1>1, <2>2 DEF DescriptorStays
  <2>4. Head(evs).x = tk.x
    BY <2>2 DEF Paired, Held
  <2> QED
    BY <1>3, <2>1, <2>2, <2>3, <2>4 DEF Live
<1>5. ASSUME NEW c \in Chans
      PROVE  OwnOnly(c) /\ Told(c) /\ Whole(c) /\ Fits(c)
  <2>1. Settled(c)
    BY <1>2, TwoChans DEF Idle
  <2>2. vc[c].submitted = <<>>
    BY <1>2, TwoChans DEF Transfers, Prepared
  <2>3. ASSUME NEW j \in DOMAIN vc[c].issued, c = RX, vc[c].issued[j].x = cur.x PROVE Reads
    <3>1. 1 \in DOMAIN evs /\ Live(1, c) /\ evs[1].x = cur.x
      BY <1>4, <2>3
    <3> QED
      BY <1>2, <2>3, <3>1 DEF Transfers, Events
  <2>4. OwnOnly(c)
    BY <1>4, <2>3 DEF OwnOnly
  <2>5. Told(c)
    BY <1>4 DEF Told
  <2> QED
    BY <2>1, <2>2, <2>4, <2>5 DEF Whole, Fits
<1>6. InTurn
  <2> SUFFICES ASSUME NEW i \in DOMAIN evs, NEW j \in DOMAIN evs, Live(i, TX), Live(j, RX),
                      evs[i].x = cur.x, evs[j].x = cur.x
               PROVE  FALSE
    BY DEF InTurn
  <2>1. PICK a \in DOMAIN vc[TX].issued : vc[TX].issued[a].x = evs[i].x
    BY <1>2, TwoChans DEF Transfers, Events
  <2>2. PICK b \in DOMAIN vc[RX].issued : vc[RX].issued[b].x = evs[j].x
    BY <1>2, TwoChans DEF Transfers, Events
  <2> QED
    BY <1>4, <2>1, <2>2, TwoChans DEF Leaves
<1>7. GivenUp
  BY <1>1 DEF GivenUp
<1> QED
  BY <1>1, <1>5, <1>6, <1>7 DEF AInv, InOrder

\* When nothing of it moves, the account is kept.
LEMMA CalmEvents ==
  ASSUME AInv, UNCHANGED <<cl, cur, sig, dirty, vc, evs, tk, ret, ring>>,
         cl \in Stopping => UNCHANGED <<script, cpm>>,
         cl \in InUse => \A c \in Chans : hw'[c].at = hw[c].at /\ hw'[c].db = hw[c].db
  PROVE  AInv'
<1> SUFFICES ASSUME ~dirty' PROVE AInv'
  BY DEF AInv
<1>1. /\ Paired /\ GivenUp
      /\ Over => \A c \in Chans : Drained(c)
      /\ Clean /\ cl \in Running => \A c \in Chans : OwnOnly(c)
      /\ cl \in InUse => InOrder
  BY DEF AInv
<1>2. Paired' /\ GivenUp'
  BY <1>1 DEF Paired, GivenUp
<1>3. Over' => \A c \in Chans : Drained(c)'
  BY <1>1 DEF Over, Drained, Leaves
<1>4. Clean' /\ cl' \in Running => \A c \in Chans : OwnOnly(c)'
  BY <1>1 DEF Clean, OwnOnly, Leaves, Reads
<1>5. ASSUME cl' \in InUse PROVE InOrder'
  <2>1. InOrder /\ \A c \in Chans : hw'[c].at = hw[c].at /\ hw'[c].db = hw[c].db
    BY <1>1, <1>5
  <2>2. InTurn'
    BY <2>1 DEF InOrder, InTurn, Live
  <2>3. ASSUME NEW c \in Chans PROVE Told(c)' /\ Whole(c)' /\ Fits(c)'
    <3>1. Told(c) /\ Whole(c) /\ Fits(c) /\ hw'[c].at = hw[c].at /\ hw'[c].db = hw[c].db
      BY <2>1 DEF InOrder
    <3>2. Told(c)'
      BY <3>1 DEF Told, Settled, Live
    <3>3. Whole(c)'
      BY <3>1 DEF Whole, Settled
    <3> QED
      BY <3>1, <3>2, <3>3 DEF Fits, HasRoom
  <2> QED
    BY <2>2, <2>3 DEF InOrder
<1> QED
  BY <1>2, <1>3, <1>4, <1>5 DEF AInv

\* The events after the first come forward.
LEMMA Forward ==
  ASSUME Typed, evs # <<>>, evs' = Tail(evs)
  PROVE  \A i \in DOMAIN evs' : /\ i + 1 \in DOMAIN evs /\ i \in Nat /\ evs'[i] = evs[i + 1]
                                /\ \A c \in Chans : Live(i, c)' <=> Live(i + 1, c)
<1>1. /\ Tail(evs) \in Seq(Event) /\ Len(Tail(evs)) = Len(evs) - 1
      /\ \A i \in 1 .. Len(Tail(evs)) : Tail(evs)[i] = evs[i + 1]
  BY HeadTailProperties DEF Typed, TypedRings
<1>2. DOMAIN evs = 1 .. Len(evs) /\ Len(evs) \in Nat /\ DOMAIN Tail(evs) = 1 .. Len(Tail(evs))
  BY <1>1, LenProperties DEF Typed, TypedRings
<1>3. ASSUME NEW i \in DOMAIN evs'
      PROVE  i + 1 \in DOMAIN evs /\ i \in Nat /\ evs'[i] = evs[i + 1]
  BY <1>1, <1>2, <1>3
<1> QED
  BY <1>3 DEF Live

\* An event is read: what is announced still is, if it was not that event.
LEMMA ReadOn ==
  ASSUME Typed, evs # <<>>, evs' = Tail(evs), UNCHANGED <<cl, cur, hw>>
  PROVE  /\ InTurn => InTurn'
         /\ \A c \in Chans :
              /\ Told(c)
              /\ \A j \in DOMAIN vc'[c].issued : vc'[c].issued[j].x = cur.x =>
                   /\ \E k \in DOMAIN vc[c].issued : vc[c].issued[k].x = cur.x
                   /\ ~(Live(1, c) /\ evs[1].x = cur.x)
              => Told(c)'
<1>1. \A i \in DOMAIN evs' : /\ i + 1 \in DOMAIN evs /\ i \in Nat /\ evs'[i] = evs[i + 1]
                             /\ \A c \in Chans : Live(i, c)' <=> Live(i + 1, c)
  BY Forward
<1>2. ASSUME InTurn PROVE InTurn'
  <2> SUFFICES ASSUME NEW i \in DOMAIN evs', NEW j \in DOMAIN evs', Live(i, TX)', Live(j, RX)',
                      evs'[i].x = cur.x, evs'[j].x = cur.x
               PROVE  i < j
    BY DEF InTurn
  <2>1. i + 1 < j + 1
    BY <1>1, <1>2, TwoChans DEF InTurn
  <2> QED
    BY <1>1, <2>1
<1>3. ASSUME NEW c \in Chans, Told(c),
             \A j \in DOMAIN vc'[c].issued : vc'[c].issued[j].x = cur.x =>
               /\ \E k \in DOMAIN vc[c].issued : vc[c].issued[k].x = cur.x
               /\ ~(Live(1, c) /\ evs[1].x = cur.x)
      PROVE  Told(c)'
  <2> SUFFICES ASSUME Settled(c)', NEW j \in DOMAIN vc'[c].issued, vc'[c].issued[j].x = cur.x
               PROVE  \E i \in DOMAIN evs' : Live(i, c)' /\ evs'[i].x = cur.x
    BY DEF Told
  <2>1. Settled(c)
    BY DEF Settled
  <2>2. PICK i \in DOMAIN evs : Live(i, c) /\ evs[i].x = cur.x
    BY <1>3, <2>1 DEF Told
  <2>3. i # 1
    BY <1>3, <2>2
  <2>4. i - 1 \in DOMAIN evs' /\ (i - 1) + 1 = i
    <3>1. /\ Tail(evs) \in Seq(Event) /\ Len(Tail(evs)) = Len(evs) - 1
      BY HeadTailProperties DEF Typed, TypedRings
    <3>2. DOMAIN evs = 1 .. Len(evs) /\ Len(evs) \in Nat /\ DOMAIN Tail(evs) = 1 .. Len(Tail(evs))
      BY <3>1, LenProperties DEF Typed, TypedRings
    <3> QED
      BY <2>3, <3>1, <3>2
  <2>5. Live(i - 1, c)' /\ evs'[i - 1].x = cur.x
    BY <1>1, <2>2, <2>4
  <2> QED
    BY <2>4, <2>5
<1> QED
  BY <1>2, <1>3

\* An event that the tasklet completes is that of the descriptor it finds.
LEMMA FoundPairs ==
  ASSUME IInv, RInv, AInv, ~dirty, NEW c \in Chans, tk.pc \notin Held, evs # <<>>, Live(1, c),
         cpm[c] = "ACTIVE", vc[c].issued # <<>>
  PROVE  /\ ~Over /\ Clean /\ cl \in Running /\ Transfers
         /\ \A j \in DOMAIN vc[c].issued : vc[c].issued[j].x = cur.x
         /\ Head(evs).x = cur.x /\ Head(vc[c].issued).x = cur.x
<1>1. Typed /\ DescriptorStays /\ vc[c].issued \in Seq(Descs) /\ evs \in Seq(Event)
  BY DEF IInv, Typed, TypedRings, Lists
<1>2. ~Over
  BY <1>1, DrainedFacts DEF AInv, Held
<1>3. cl \in Running
  BY <1>2 DEF Over
<1>4. Clean
  BY <1>3 DEF Clean, AInv, GivenUp, Running
<1>5. Transfers /\ OwnOnly(c)
  BY <1>3, <1>4 DEF RInv, AInv
<1>6. \A j \in DOMAIN vc[c].issued : vc[c].issued[j].x = cur.x
  BY <1>5 DEF OwnOnly, Leaves, Held
<1>7. 1 \in DOMAIN evs /\ Head(evs) = evs[1] /\ 1 \in DOMAIN vc[c].issued /\ Head(vc[c].issued) = vc[c].issued[1]
  BY <1>1, LenProperties, EmptySeq
<1>8. PICK j \in DOMAIN vc[c].issued : vc[c].issued[j].x = evs[1].x
  BY <1>5, <1>7 DEF Transfers, Events
<1> QED
  BY <1>2, <1>3, <1>4, <1>5, <1>6, <1>7, <1>8

\* The tasklet finds a descriptor, or skips an event.
LEMMA EventPairs ==
  ASSUME IInv, RInv, AInv, TkEvent, UNCHANGED clVars, ~dirty
  PROVE  AInv'
<1> DEFINE e == Head(evs)
           live == e.type # "stale" /\ cpm[e.ch] = "ACTIVE" /\ vc[e.ch].issued # <<>>
           vd == Head(vc[e.ch].issued)
<1>1. /\ tk.pc = "scan" /\ evs # <<>> /\ UNCHANGED <<cl, cur, sig, dirty, vc, script, ret, cpm, hw>>
      /\ tk.pc \notin Held /\ Typed /\ evs \in Seq(Event)
  BY DEF TkEvent, TkFrame, clVars, ctlVars, pmVars, hwVars, Held, IInv, Typed, TypedRings
<1>2. /\ 1 \in DOMAIN evs /\ e = evs[1] /\ e.ch \in Chans
  <2>1. e \in Event
    BY <1>1, HeadTailProperties
  <2> QED
    BY <1>1, <2>1, LenProperties, EmptySeq DEF Event
<1>3. /\ Paired /\ GivenUp
      /\ Over => \A c \in Chans : Drained(c)
      /\ Clean /\ cl \in Running => \A c \in Chans : OwnOnly(c)
      /\ cl \in InUse => InOrder
  BY DEF AInv
<1>4. GivenUp' /\ (Over' <=> Over) /\ (Clean' <=> Clean)
  BY <1>1, <1>3 DEF GivenUp, Over, Clean
<1>5. CASE live
  <2>1. PICK c \in Chans : c = e.ch
    BY <1>2
  <2>2. Live(1, c) /\ cpm[c] = "ACTIVE" /\ vc[c].issued # <<>>
    BY <1>2, <1>5, <2>1 DEF Live
  <2>3. /\ ~Over /\ Clean /\ cl \in Running /\ Transfers
        /\ \A j \in DOMAIN vc[c].issued : vc[c].issued[j].x = cur.x
        /\ Head(evs).x = cur.x /\ Head(vc[c].issued).x = cur.x
    BY <1>1, <2>2, FoundPairs
  <2>4. /\ tk' = [tk EXCEPT !.pc = "complete", !.ch = e.ch, !.x = vd.x, !.cb = vd.cb] /\ UNCHANGED evs
        /\ ring' = [ring EXCEPT ![e.ch].rp = After(e.slot, 1)]
    BY <1>5 DEF TkEvent
  <2>5. tk'.pc = "complete" /\ tk'.x = cur.x
    <3>1. PICK ch, x, cb : ch = e.ch /\ x = vd.x /\ cb = vd.cb
      OBVIOUS
    <3>2. tk' = [tk EXCEPT !.pc = "complete", !.ch = ch, !.x = x, !.cb = cb] /\ x = cur.x
      BY <2>1, <2>3, <2>4, <3>1
    <3> QED
      BY <1>1, <3>2 DEF Typed, TypedTk
  <2> HIDE DEF live, vd
  <2>6. Paired'
    BY <1>1, <2>3, <2>4, <2>5 DEF Paired
  <2>7. \A d \in Chans : OwnOnly(d)'
    BY <1>1, <1>3, <2>3, <2>5 DEF OwnOnly, Leaves, Reads
  <2>8. ASSUME cl \in InUse PROVE InOrder'
    <3>1. InTurn' /\ \A d \in Chans : Told(d)' /\ Whole(d)'
      BY <1>1, <1>3, <2>4, <2>8 DEF InOrder, InTurn, Told, Whole, Settled, Live
    <3>2. ASSUME NEW d \in Chans PROVE Fits(d)'
      <4>1. CASE d = c
        <5>1. vc[c].submitted = <<>>
          <6>1. 1 \in DOMAIN vc[c].issued /\ cur.x \in Nat
            BY <1>1, <2>2, LenProperties, EmptySeq DEF Typed, TypedRings, TypedClient, Lists, Xfers, Xs
          <6>2. vc[c].issued[1].x = cur.x
            BY <2>3, <6>1
          <6> QED
            BY <2>3, <6>1, <6>2 DEF Transfers, Sorted
        <5> QED
          BY <1>1, <4>1, <5>1 DEF Fits
      <4>2. CASE d # c
        <5>1. ring'[d] = ring[d]
          BY <1>1, <2>1, <2>4, <4>2 DEF Typed, TypedRings
        <5> QED
          BY <1>1, <1>3, <2>8, <5>1 DEF InOrder, Fits, HasRoom
      <4> QED
        BY <4>1, <4>2
    <3> QED
      BY <3>1, <3>2 DEF InOrder
  <2> QED
    BY <1>1, <1>4, <2>3, <2>6, <2>7, <2>8 DEF AInv
<1>6. CASE ~live
  <2>1. tk' = Recycled(tk) /\ evs' = Tail(evs) /\ ring' = ring
    BY <1>6 DEF TkEvent
  <2>2. tk'.pc = "scan"
    BY <2>1 DEF Recycled, IdleTk
  <2>3. Paired'
    BY <2>2 DEF Paired, Held
  <2>4. Over => \A c \in Chans : Drained(c)'
    BY <1>1, <1>3, <2>2 DEF Drained, Leaves
  <2>5. Clean /\ cl \in Running => \A c \in Chans : OwnOnly(c)'
    BY <1>1, <1>3, <2>2 DEF OwnOnly, Leaves, Reads
  <2>6. ASSUME cl \in InUse PROVE InOrder'
    <3>1. Clean /\ cl \notin Stopping
      BY <1>1, <2>6 DEF Clean, InUse, Running, Stopping
    <3>2. \A c \in Chans : cpm[c] = "ACTIVE"
      BY <1>1, <2>6, <3>1 DEF RInv, Handled, Stage
    <3>3. ASSUME NEW c \in Chans PROVE Told(c)'
      <4>1. Told(c)
        BY <1>3, <2>6 DEF InOrder
      <4>2. \A j \in DOMAIN vc'[c].issued : ~Live(1, c)
        <5>1. Live(1, c) => vc[c].issued = <<>>
          BY <1>2, <1>6, <3>2 DEF Live
        <5> QED
          BY <1>1, <5>1
      <4> QED
        BY <1>1, <2>1, <4>1, <4>2, ReadOn
    <3>4. InTurn'
      BY <1>1, <1>3, <2>1, <2>6, ReadOn DEF InOrder
    <3>5. \A c \in Chans : Whole(c)' /\ Fits(c)'
      BY <1>1, <1>3, <2>1, <2>6 DEF InOrder, Whole, Settled, Fits, HasRoom
    <3> QED
      BY <3>3, <3>4, <3>5 DEF InOrder
  <2> QED
    BY <1>1, <1>4, <2>3, <2>4, <2>5, <2>6 DEF AInv
<1> QED
  BY <1>5, <1>6

\* When the callback of the transfer comes nothing else of it is left.
LEMMA LastOfAll ==
  ASSUME IInv, RInv, AInv, ~dirty, cl \in InUse, tk.pc = "complete", tk.cb, NEW c \in Chans
  PROVE  IF c = tk.ch THEN Len(vc[c].issued) = 1 /\ vc[c].issued[1].x = tk.x ELSE vc[c].issued = <<>>
<1>1. /\ Clean /\ cl \in Running /\ Typed /\ tk.pc \in Held
      /\ cur.x \in Nat /\ vc[c].issued \in Seq(Descs)
  BY DEF Clean, InUse, Stopping, Running, IInv, Held, Typed, TypedRings, TypedClient, Lists, Xfers, Xs
<1>2. Transfers /\ InOrder /\ (\A d \in Chans : OwnOnly(d)) /\ tk.x = cur.x /\ Head(evs).x = cur.x
  BY <1>1 DEF RInv, AInv, Paired
<1>3. /\ tk.ch \in Chans /\ vc[tk.ch].issued # <<>> /\ Head(vc[tk.ch].issued).x = tk.x
      /\ 1 \in DOMAIN vc[tk.ch].issued /\ vc[tk.ch].issued[1] = Head(vc[tk.ch].issued)
      /\ 1 \in DOMAIN evs /\ evs[1] = Head(evs) /\ Live(1, tk.ch)
      /\ Settled(tk.ch) /\ Len(vc[tk.ch].issued) = 1
      /\ tk.ch = RX => Reads /\ Settled(TX)
  BY <1>1, <1>2, FirstEvent
<1>4. CASE c = tk.ch
  BY <1>3, <1>4
<1>5. CASE c # tk.ch
  <2>1. SUFFICES ASSUME NEW j \in DOMAIN vc[c].issued PROVE FALSE
    BY <1>1, <1>5, NoneIn
  <2>2. vc[c].issued[j].x = cur.x /\ (c = RX => Reads)
    BY <1>2, <2>1 DEF OwnOnly, Leaves
  <2>3. CASE tk.ch = TX
    <3>1. Head(vc[TX].issued).cb
      BY <1>1, <1>2, <2>3 DEF Transfers, Taken
    <3>2. vc[TX].issued[1].cb = ((TX = RX) = Reads)
      BY <1>2, <1>3, <2>3, TwoChans DEF Transfers, Sorted
    <3> QED
      BY <1>3, <1>5, <2>2, <2>3, <3>1, <3>2, TwoChans
  <2>4. CASE tk.ch = RX
    <3>1. c = TX
      BY <1>5, <2>4, TwoChans
    <3>2. PICK i \in DOMAIN evs : Live(i, TX) /\ evs[i].x = cur.x
      BY <1>2, <1>3, <2>2, <2>4, <3>1 DEF InOrder, Told
    <3>3. i < 1
      BY <1>2, <1>3, <2>4, <3>2 DEF InOrder, InTurn
    <3>4. DOMAIN evs = 1 .. Len(evs)
      BY <1>1, LenProperties DEF Typed, TypedRings
    <3> QED
      BY <3>2, <3>3, <3>4
  <2> QED
    BY <1>3, <2>3, <2>4, TwoChans
<1> QED
  BY <1>4, <1>5

\* The callback runs.
LEMMA CallbackPairs ==
  ASSUME IInv, RInv, AInv, Complete, ~dirty
  PROVE  AInv'
<1>1. /\ UNCHANGED <<cl, cur, dirty, vc, evs, script, ret, cpm, hw, ring>> /\ tk.pc = "complete"
      /\ tk'.pc = "unlink" /\ tk'.ch = tk.ch /\ tk'.x = tk.x /\ tk'.cb = tk.cb
      /\ (~tk.cb => sig' = sig) /\ Typed /\ DescriptorStays
  BY DEF Complete, TkCallback, TkFrame, ctlVars, pmVars, hwVars, IInv, Typed, TypedTk
<1>2. /\ Paired /\ GivenUp
      /\ Over => \A c \in Chans : Drained(c)
      /\ Clean /\ cl \in Running => \A c \in Chans : OwnOnly(c)
      /\ cl \in InUse => InOrder
  BY DEF AInv
<1>3. Paired' /\ GivenUp' /\ (Clean' <=> Clean)
  BY <1>1, <1>2 DEF Paired, Held, GivenUp, Clean
<1>4. Clean /\ cl \in Running => \A c \in Chans : OwnOnly(c)'
  BY <1>1, <1>2 DEF OwnOnly, Leaves, Reads
<1>5. cl \in InUse => InOrder'
  BY <1>1, <1>2 DEF InOrder, InTurn, Told, Whole, Fits, Settled, HasRoom, Live
<1>6. ~Over
  <2>1. tk.ch \in Chans /\ vc[tk.ch].issued # <<>>
    BY <1>1 DEF Typed, TypedTk, DescriptorStays
  <2> QED
    BY <1>1, <1>2, <2>1, DrainedFacts
<1>7. ASSUME Over', NEW c \in Chans PROVE Drained(c)'
  <2>1. tk.cb /\ cl \in InUse
    BY <1>1, <1>6, <1>7 DEF Over
  <2>2. IF c = tk.ch THEN Len(vc[c].issued) = 1 /\ vc[c].issued[1].x = tk.x ELSE vc[c].issued = <<>>
    BY <1>1, <2>1, LastOfAll
  <2> QED
    BY <1>1, <2>2 DEF Drained, Leaves
<1> QED
  BY <1>1, <1>3, <1>4, <1>5, <1>7 DEF AInv

\* A descriptor is unlinked, and its event goes.
LEMMA UnlinkPairs ==
  ASSUME IInv, RInv, AInv, TkUnlink, UNCHANGED clVars, ~dirty
  PROVE  AInv'
<1> DEFINE a == tk.ch
<1>1. /\ UNCHANGED <<cl, cur, sig, dirty, script, ret, cpm, hw, ring>> /\ tk.pc = "unlink" /\ tk.pc \in Held
      /\ vc' = [vc EXCEPT ![a].issued = Unlinked(@, tk.x)] /\ evs' = Tail(evs)
      /\ Typed /\ DescriptorStays /\ a \in Chans /\ vc \in [Chans -> Lists]
  BY DEF TkUnlink, TkFrame, ctlVars, pmVars, hwVars, clVars, IInv, Typed, TypedTk, TypedRings, Held
<1>2. tk'.pc = "scan"
  BY DEF TkUnlink, Recycled, IdleTk
<1>3. /\ Paired /\ GivenUp
      /\ Over => \A c \in Chans : Drained(c)
      /\ Clean /\ cl \in Running => \A c \in Chans : OwnOnly(c)
      /\ cl \in InUse => InOrder
  BY DEF AInv
<1>4. /\ evs # <<>> /\ Head(evs).ch = a /\ vc[a].issued # <<>> /\ Head(vc[a].issued).x = tk.x
      /\ vc[a].issued \in Seq(Descs)
  BY <1>1 DEF DescriptorStays, Lists
<1>5. \A c \in Chans : c # a => vc'[c] = vc[c]
  BY <1>1
<1>6. vc'[a].issued = Unlinked(vc[a].issued, Head(vc[a].issued).x) /\ vc'[a].submitted = vc[a].submitted
  BY <1>1, <1>4 DEF Lists
<1>7. Paired' /\ GivenUp' /\ (Clean' <=> Clean) /\ (Over' <=> Over)
  <2>1. Paired'
    BY <1>2 DEF Paired, Held
  <2>2. cpm[a] = "ACTIVE"
    BY <1>1 DEF IInv, Works
  <2>3. ~(cl \in Stopping /\ ~ret)
    BY <1>1, <1>3, <1>4, <2>2 DEF GivenUp
  <2> QED
    BY <1>1, <2>1, <2>3 DEF GivenUp, Clean, Over
<1> HIDE DEF a
<1>8. ASSUME Over, NEW c \in Chans PROVE Drained(c)'
  <2>1. CASE c # a
    <3>1. vc[c].issued = <<>>
      BY <1>1, <1>3, <1>8, <2>1, DrainedFacts DEF a
    <3> QED
      BY <1>5, <2>1, <3>1 DEF Drained
  <2>2. CASE c = a
    <3>1. Len(vc[a].issued) = 1
      BY <1>3, <1>4, <1>8, <2>2 DEF Drained
    <3>2. \A i, j \in DOMAIN vc[a].issued : ~(i < j)
      <4>1. DOMAIN vc[a].issued = 1 .. 1
        BY <1>4, <3>1, LenProperties
      <4> QED
        BY <4>1
    <3>3. DOMAIN vc'[a].issued = 1 .. 0
      BY <1>4, <1>6, <3>1, <3>2, UnlinksHead
    <3>4. vc'[a].issued = <<>>
      <4>1. vc'[a].issued \in Seq(Descs)
        BY <1>4, <1>6, UnlinkedTyped
      <4>2. \A j \in DOMAIN vc'[a].issued : FALSE
        BY <3>3
      <4> QED
        BY <4>1, <4>2, NoneIn
    <3> QED
      BY <2>2, <3>4 DEF Drained
  <2> QED
    BY <2>1, <2>2
<1>9. ASSUME Clean, cl \in Running
      PROVE  /\ \A c \in Chans : Transfers /\ OwnOnly(c)'
             /\ \A j \in DOMAIN vc'[a].issued : /\ vc'[a].issued[j].x # tk.x
                                                /\ \E i \in DOMAIN vc[a].issued : vc'[a].issued[j] = vc[a].issued[i]
  <2>1. Transfers /\ \A c \in Chans : OwnOnly(c)
    BY <1>3, <1>9 DEF RInv
  <2>2. \A i, j \in DOMAIN vc[a].issued : i < j => vc[a].issued[i].x < vc[a].issued[j].x
    BY <1>1, <2>1 DEF Transfers, Sorted
  <2>3. /\ DOMAIN vc'[a].issued = 1 .. Len(vc[a].issued) - 1
        /\ \A i \in 1 .. Len(vc[a].issued) - 1 : vc'[a].issued[i] = vc[a].issued[i + 1]
        /\ DOMAIN vc[a].issued = 1 .. Len(vc[a].issued) /\ Len(vc[a].issued) \in Nat
        /\ Head(vc[a].issued) = vc[a].issued[1] /\ Len(vc[a].issued) > 0
    BY <1>4, <1>6, <2>2, UnlinksHead
  <2>4. ASSUME NEW j \in DOMAIN vc'[a].issued
        PROVE  /\ vc'[a].issued[j].x # tk.x
               /\ \E i \in DOMAIN vc[a].issued : vc'[a].issued[j] = vc[a].issued[i]
    <3>1. j + 1 \in DOMAIN vc[a].issued /\ 1 \in DOMAIN vc[a].issued /\ 1 < j + 1
          /\ vc'[a].issued[j] = vc[a].issued[j + 1]
      BY <2>3, <2>4
    <3>2. vc[a].issued[1].x < vc[a].issued[j + 1].x
      BY <2>2, <3>1
    <3>3. tk.x \in Nat
      BY <1>1 DEF Typed, TypedTk, Xs
    <3> QED
      BY <1>4, <2>3, <3>1, <3>2, <3>3
  <2>5. ASSUME NEW c \in Chans PROVE OwnOnly(c)'
    <3>1. CASE c = a
      BY <1>1, <2>1, <2>4, <3>1 DEF OwnOnly, Leaves, Reads
    <3>2. CASE c # a
      BY <1>1, <1>5, <2>1, <3>2 DEF OwnOnly, Leaves, Reads, a
    <3> QED
      BY <3>1, <3>2
  <2> QED
    BY <2>1, <2>4, <2>5
<1>10. ASSUME cl \in InUse PROVE InOrder'
  <2>1. Clean /\ cl \in Running
    BY <1>10 DEF Clean, InUse, Stopping, Running
  <2>2. InOrder /\ Head(evs).x = tk.x /\ 1 \in DOMAIN evs /\ evs[1] = Head(evs)
    BY <1>1, <1>3, <1>4, <1>10, LenProperties, EmptySeq DEF Paired, Typed, TypedRings
  <2>3. ASSUME NEW c \in Chans PROVE Told(c)'
    <3>1. Told(c)
      BY <2>2 DEF InOrder
    <3>2. ASSUME NEW j \in DOMAIN vc'[c].issued, vc'[c].issued[j].x = cur.x
          PROVE  /\ \E k \in DOMAIN vc[c].issued : vc[c].issued[k].x = cur.x
                 /\ ~(Live(1, c) /\ evs[1].x = cur.x)
      <4>1. CASE c = a
        BY <1>9, <2>1, <2>2, <3>2, <4>1
      <4>2. CASE c # a
        BY <1>4, <1>5, <2>2, <3>2, <4>2 DEF Live
      <4> QED
        BY <4>1, <4>2
    <3> QED
      BY <1>1, <1>4, <3>1, <3>2, ReadOn
  <2>4. InTurn'
    BY <1>1, <1>4, <2>2, ReadOn DEF InOrder
  <2>5. ASSUME NEW c \in Chans PROVE Whole(c)' /\ Fits(c)'
    <3>1. vc'[c].submitted = vc[c].submitted
      BY <1>5, <1>6
    <3> QED
      BY <1>1, <2>2, <3>1 DEF InOrder, Whole, Settled, Fits, HasRoom
  <2> QED
    BY <2>3, <2>4, <2>5 DEF InOrder
<1> QED
  BY <1>1, <1>7, <1>8, <1>9, <1>10 DEF AInv

\* The tasklet keeps the account.
LEMMA TaskletPairs ==
  ASSUME IInv, RInv, AInv, Tasklet
  PROVE  AInv'
<1>1. dirty' = dirty
  BY TkEffects
<1>2. CASE dirty
  BY <1>1, <1>2 DEF AInv
<1>3. CASE ~dirty /\ (TkStart \/ TkClear \/ TkReread \/ TkUnmask)
  <2>1. UNCHANGED <<cl, cur, sig, dirty, vc, evs, ret, ring, script, cpm, hw>> /\ tk.pc # "unlink" /\ tk.pc \notin Held
    BY <1>3 DEF Tasklet, TkStart, TkClear, TkReread, TkUnmask, TkFrame, clVars, ctlVars, pmVars, hwVars,
                Complete, TkCallback, Held
  <2>2. tk'.pc # "unlink" /\ tk'.pc \notin Held
    <3>1. tk \in [pc : {"off", "scan", "complete", "unlink", "reread", "unmask"}, n : Nat, ch : Chans, x : Xs,
                  cb : BOOLEAN]
      BY DEF IInv, Typed, TypedTk
    <3>2. \A n : [IdleTk EXCEPT !.pc = "scan", !.n = n].pc = "scan" /\ IdleTk.pc = "off"
      BY DEF IdleTk
    <3> QED
      BY <1>3, <3>1, <3>2 DEF TkStart, TkClear, TkReread, TkUnmask, Held
  <2>3. /\ Paired /\ GivenUp
        /\ Over => \A c \in Chans : Drained(c)
        /\ Clean /\ cl \in Running => \A c \in Chans : OwnOnly(c)
        /\ cl \in InUse => InOrder
    BY <1>3 DEF AInv
  <2>4. Paired' /\ GivenUp' /\ (Clean' <=> Clean) /\ (Over' <=> Over)
    BY <2>1, <2>2, <2>3 DEF Paired, GivenUp, Clean, Over
  <2>5. Over => \A c \in Chans : Drained(c)'
    BY <2>1, <2>3 DEF Drained, Leaves
  <2>6. Clean /\ cl \in Running => \A c \in Chans : OwnOnly(c)'
    BY <2>1, <2>3 DEF OwnOnly, Leaves, Reads
  <2>7. cl \in InUse => InOrder'
    BY <2>1, <2>3 DEF InOrder, InTurn, Told, Whole, Fits, Settled, HasRoom, Live
  <2> QED
    BY <2>1, <2>4, <2>5, <2>6, <2>7 DEF AInv
<1>4. CASE ~dirty /\ ~(TkStart \/ TkClear \/ TkReread \/ TkUnmask)
  BY <1>4, EventPairs, CallbackPairs, UnlinkPairs DEF Tasklet
<1> QED
  BY <1>2, <1>3, <1>4

\* While the channels are in use no command moves what is before them.
LEMMA ObeyInUse ==
  ASSUME IInv, RInv, ~dirty, cl \in InUse, HwCommand \/ HwStopped, NEW c \in Chans
  PROVE  hw'[c].at = hw[c].at /\ hw'[c].db = hw[c].db
<1>1. Typed /\ Clean
  BY DEF IInv, Clean, InUse, Running, Stopping
<1>2. PICK k \in Nat, n \in Nat : Handled(k, n)
  BY <1>1 DEF RInv
<1>3. SUFFICES ASSUME cmds # <<>>, Head(cmds).ch = c, Head(cmds).cmd \in {"ALLOCATE", "RESET"}
               PROVE  FALSE
  BY <1>1, HwEffects
<1>4. 1 \in DOMAIN cmds /\ cmds[1] = Head(cmds) /\ Head(cmds).cmd \in Cmds
  <2>1. cmds \in Seq(Command)
    BY <1>1 DEF Typed, TypedRings
  <2>2. Head(cmds) \in Command
    BY <1>3, <2>1, HeadTailProperties
  <2> QED
    BY <1>3, <2>1, <2>2, LenProperties, EmptySeq DEF Command
<1>5. Up(c, k)
  BY DEF Up
<1>6. Head(cmds).cmd = "RESET" /\ Sent("RESET", c)
  BY <1>2, <1>3, <1>4, <1>5 DEF Handled, Late
<1>7. script \in Seq(PauseSteps)
  BY <1>2 DEF Handled, Place
<1>8. script # <<>>
  BY <1>1, <1>6 DEF Sent, Typed, TypedScript
<1>9. Head1 \in PauseSteps
  BY <1>7, <1>8, HeadTailProperties DEF Head1
<1> QED
  BY <1>6, <1>9 DEF Sent, PauseSteps

\* The hardware obeys a command.
LEMMA ObeyPairs ==
  ASSUME IInv, RInv, AInv, HwCommand \/ HwStopped, UNCHANGED clVars
  PROVE  AInv'
<1>1. UNCHANGED <<cl, cur, sig, dirty, vc, evs, tk, ret, ring, script, cpm>>
  BY HwEffects DEF IInv, clVars
<1>2. CASE dirty
  BY <1>1, <1>2 DEF AInv
<1>3. CASE ~dirty
  BY <1>1, <1>3, ObeyInUse, CalmEvents
<1> QED
  BY <1>2, <1>3

\* A channel that has all of the transfer before it says so when it has done it, and where it ended.
LEMMA RunTells ==
  ASSUME Typed, NEW c \in Chans, HwElements(c), Arc(c), Whole(c)
  PROVE  \E e \in Event : /\ evs' = Append(evs, e) /\ e.ch = c /\ e.x = cur.x /\ e.type # "stale"
                          /\ After(e.slot, 1) = hw[c].db
<1> DEFINE ch == Chain(c)
           t == Last(ch)
           e(good) == [ch |-> c, slot |-> After(hw[c].at, Len(ch) - 1), x |-> t.x,
                       type |-> IF t.kind = "imm" THEN "imed" ELSE "xfer", ok |-> good]
           m == NrTre(c)
<1>1. /\ hw[c].at \in Slots /\ cur \in Xfers /\ m \in 1 .. 3 /\ m \in Nat /\ cur.x \in Xs
  BY TresTyped DEF Typed, TypedRings, TypedClient, Xfers
<1>2. ~Settled(c) /\ m < Elements /\ hw[c].db = After(hw[c].at, m)
  <2>1. ~Settled(c)
    BY DEF HwElements, HwRuns, Settled
  <2> QED
    BY <2>1 DEF Whole
<1>3. PICK n \in 1 .. m :
        /\ n < Elements /\ hw[c].db = After(hw[c].at, n)
        /\ \A i \in 0 .. n - 1 : slot[c][After(hw[c].at, i)] = Tres(c, cur)[i + 1]
  BY <1>2 DEF Arc
<1>4. n = m
  <2>1. n \in Nat /\ n <= m /\ After(hw[c].at, n) = After(hw[c].at, m)
    BY <1>1, <1>2, <1>3
  <2>2. ~(n < m)
    BY <1>1, <1>2, <2>1, Apart
  <2> QED
    BY <1>1, <2>1, <2>2
<1>5. Len(ch) = m /\ t = Tres(c, cur)[m]
  BY <1>3, <1>4, ChainIs
<1>6. t.x = cur.x /\ "IEOT" \in t.flags
  <2>1. m \in 1 .. m
    BY <1>1
  <2> QED
    BY <1>1, <1>5, <2>1, TresFlags
<1>7. PICK good \in BOOLEAN : evs' = Append(evs, e(good))
  BY <1>6 DEF HwElements
<1>8. m - 1 \in Nat /\ After(hw[c].at, m - 1) \in Slots
  <2>1. m - 1 \in Nat
    BY <1>1
  <2> QED
    BY <1>1, <2>1, SlotFacts
<1>9. e(good) \in Event
  BY <1>1, <1>5, <1>6, <1>8 DEF Event
<1>10. After(After(hw[c].at, m - 1), 1) = After(hw[c].at, m)
  <2> DEFINE at == hw[c].at
             p == at + (m - 1)
  <2>1. at \in Nat /\ at < Elements /\ Elements \in Nat /\ Elements > 1
    BY <1>1, SlotFacts
  <2>2. p \in Nat /\ p < Elements + Elements /\ p + 1 = at + m
    BY <1>1, <1>2, <2>1
  <2>3. After(at, m - 1) = p % Elements /\ After(at, m) = (p + 1) % Elements
    BY <2>2 DEF After
  <2> HIDE DEF p, at
  <2>4. ((p % Elements) + 1) % Elements = (p + 1) % Elements
    <3>1. CASE p < Elements
      BY <2>1, <2>2, <3>1, Below
    <3>2. CASE Elements <= p
      <4>1. p % Elements = p - Elements
        BY <2>1, <2>2, <3>2, Above
      <4>2. PICK q \in Nat : q = p - Elements /\ q < Elements /\ p + 1 = q + 1 + Elements
        BY <2>1, <2>2, <3>2
      <4>3. CASE q + 1 < Elements
        <5>1. (q + 1) % Elements = q + 1
          BY <2>1, <4>2, <4>3, Below
        <5>2. (p + 1) % Elements = (p + 1) - Elements
          <6>1. p + 1 \in Nat /\ Elements <= p + 1 /\ p + 1 < Elements + Elements
            BY <2>1, <2>2, <4>2, <4>3
          <6> QED
            BY <2>1, <6>1, Above
        <5> QED
          BY <2>1, <2>2, <4>1, <4>2, <5>1, <5>2
      <4>4. CASE q + 1 = Elements
        <5>1. p + 1 = 2 * Elements /\ q + 1 = Elements
          BY <2>1, <4>2, <4>4
        <5>2. (2 * Elements) % Elements = 0 /\ Elements % Elements = 0
          BY <2>1
        <5> QED
          BY <4>1, <4>2, <5>1, <5>2
      <4> QED
        BY <2>1, <4>2, <4>3, <4>4
    <3> QED
      BY <2>1, <2>2, <3>1, <3>2
  <2> QED
    BY <2>3, <2>4 DEF After, at
<1>11. /\ e(good).ch = c /\ e(good).x = cur.x /\ e(good).type # "stale"
       /\ After(e(good).slot, 1) = hw[c].db
  BY <1>2, <1>5, <1>6, <1>10
<1> QED
  BY <1>7, <1>9, <1>11

\* The hardware moves data.
LEMMA RunPairs ==
  ASSUME IInv, RInv, AInv, NEW c \in Chans, HwElements(c), UNCHANGED clVars
  PROVE  AInv'
<1> SUFFICES ASSUME ~dirty PROVE AInv'
  BY DEF AInv, clVars
<1>1. /\ Typed /\ DescriptorStays /\ UNCHANGED <<cl, cur, sig, dirty>> /\ Arc(c) /\ evs \in Seq(Event)
  BY DEF IInv, clVars, RInv, Typed, TypedRings
<1>2. /\ UNCHANGED <<ring, vc, script, ret, cpm, tk>>
      /\ ~Settled(c) /\ hw'[c].at = hw[c].db
      /\ \A d \in Chans : hw'[d].db = hw[d].db
      /\ \A d \in Chans : d # c => hw'[d].at = hw[d].at
      /\ \/ evs' = evs
         \/ \E e \in Event : evs' = Append(evs, e) /\ e.ch = c /\ e.x = cur.x /\ e.type # "stale"
  BY <1>1, RunEffects
<1>3. /\ Paired /\ GivenUp
      /\ Over => \A d \in Chans : Drained(d)
      /\ Clean /\ cl \in Running => \A d \in Chans : OwnOnly(d)
      /\ cl \in InUse => InOrder
  BY DEF AInv
<1>4. Paired'
  <2>1. evs # <<>> => Head(evs') = Head(evs)
    BY <1>1, <1>2, AppendProperties
  <2>2. tk.pc \in Held => evs # <<>>
    BY <1>1 DEF Held, DescriptorStays
  <2> QED
    BY <1>1, <1>2, <1>3, <2>1, <2>2 DEF Paired
<1>5. GivenUp' /\ (Clean' <=> Clean) /\ (Over' <=> Over)
  BY <1>1, <1>2, <1>3 DEF GivenUp, Clean, Over
<1>6. Over => \A d \in Chans : Drained(d)'
  BY <1>2, <1>3 DEF Drained, Leaves
<1>7. Clean /\ cl \in Running => \A d \in Chans : OwnOnly(d)'
  BY <1>1, <1>2, <1>3 DEF OwnOnly, Leaves, Reads
<1>8. ASSUME cl \in InUse PROVE InOrder'
  <2>1. InOrder /\ Transfers
    BY <1>1, <1>3, <1>8 DEF RInv, Clean, InUse, Running, Stopping
  <2>2. PICK e \in Event : evs' = Append(evs, e) /\ e.ch = c /\ e.x = cur.x /\ e.type # "stale"
    BY <1>1, <2>1, RunTells DEF InOrder
  <2>3. /\ DOMAIN evs = 1 .. Len(evs) /\ DOMAIN evs' = 1 .. Len(evs) + 1 /\ Len(evs) \in Nat
        /\ evs'[Len(evs) + 1] = e /\ \A i \in 1 .. Len(evs) : evs'[i] = evs[i]
    BY <1>1, <2>2, AppendProperties, LenProperties
  <2>4. \A d \in Chans, i \in DOMAIN evs : i \in DOMAIN evs' /\ (Live(i, d)' <=> Live(i, d)) /\ evs'[i] = evs[i]
    BY <2>3 DEF Live
  <2>5. ASSUME NEW d \in Chans PROVE Told(d)' /\ Whole(d)' /\ Fits(d)'
    <3>1. Told(d) /\ Whole(d) /\ Fits(d)
      BY <2>1 DEF InOrder
    <3>2. CASE d = c
      <4>1. PICK n \in Nat : n = Len(evs) + 1
        BY <2>3
      <4>2. Told(c)'
        <5>1. n \in DOMAIN evs' /\ Live(n, c)' /\ evs'[n].x = cur'.x
          BY <1>1, <2>2, <2>3, <4>1 DEF Live
        <5> QED
          BY <5>1 DEF Told
      <4>3. Settled(c)'
        BY <1>2 DEF Settled
      <4> QED
        BY <1>2, <3>1, <3>2, <4>2, <4>3 DEF Whole, Fits, HasRoom
    <3>3. CASE d # c
      <4>1. Told(d)'
        BY <1>1, <1>2, <2>4, <3>1, <3>3 DEF Told, Settled
      <4> QED
        BY <1>2, <3>1, <3>3, <4>1 DEF Whole, Settled, Fits, HasRoom
    <3> QED
      BY <3>2, <3>3
  <2>6. InTurn'
    <3> SUFFICES ASSUME NEW i \in DOMAIN evs', NEW j \in DOMAIN evs', Live(i, TX)', Live(j, RX)',
                        evs'[i].x = cur.x, evs'[j].x = cur.x
                 PROVE  i < j
      BY <1>1 DEF InTurn
    <3>1. CASE j \notin DOMAIN evs
      <4>1. j = Len(evs) + 1 /\ c = RX
        BY <2>2, <2>3, <3>1 DEF Live
      <4>2. i # j
        BY <4>1, TwoChans DEF Live
      <4> QED
        BY <2>3, <4>1, <4>2
    <3>2. CASE i \notin DOMAIN evs /\ j \in DOMAIN evs
      <4>1. i = Len(evs) + 1 /\ c = TX
        BY <2>2, <2>3, <3>2 DEF Live
      <4>2. Live(j, RX) /\ evs[j].x = cur.x
        BY <2>4, <3>2, TwoChans
      <4>3. Settled(TX)
        BY <2>1, <3>2, <4>2, TwoChans DEF Transfers, Events
      <4> QED
        BY <1>2, <4>1, <4>3
    <3>3. CASE i \in DOMAIN evs /\ j \in DOMAIN evs
      BY <2>1, <2>4, <3>3, TwoChans DEF InOrder, InTurn
    <3> QED
      BY <3>1, <3>2, <3>3
  <2> QED
    BY <2>5, <2>6 DEF InOrder
<1> QED
  BY <1>1, <1>4, <1>5, <1>6, <1>7, <1>8 DEF AInv

\* The interrupt handler reads states and masks the interrupt of the events.
LEMMA IrqPairs ==
  ASSUME IInv, AInv, HandleIrq, UNCHANGED clVars
  PROVE  AInv'
<1>1. UNCHANGED <<cl, cur, sig, dirty, vc, evs, tk, ret, ring, script, cpm, hw>>
  BY DEF HandleIrq, clVars, pmVars, listVars, ctlVars, hwVars
<1> QED
  BY <1>1, CalmEvents

\* A termination that gives up has nothing to undo.
LEMMA StopBad == \A i \in {5, 7, 9, 10} : Terminating[i].bad = <<>>
<1> DEFINE a1 == SetCh(TX, "PREPARE_TERMINATE")
           a2 == StopChan(TX)
           a3 == SetCh(RX, "PREPARE_TERMINATE")
           a4 == StopChan(RX)
           a5 == Must(ResetChan("RESET", TX), <<>>)
           a6 == Step("program", TX)
           a7 == Must(ResetChan("RESET", RX), <<>>)
           a8 == Step("program", RX)
           a9 == StartChan(TX, <<>>)
           a10 == StartChan(RX, <<>>)
           s == Terminating
<1>1. s = <<a1, a2, a3, a4, a5, a6, a7, a8, a9, a10>>
  BY DEF Terminating
<1>2. a5.bad = <<>> /\ a7.bad = <<>>
  BY DEF ResetChan, Must, Cmd, Step
<1>3. a9.bad = <<>> /\ a10.bad = <<>>
  BY DEF StartChan, Must, Cmd, Step
<1> HIDE DEF a1, a2, a3, a4, a5, a6, a7, a8, a9, a10, s
<1>4. s[5] = a5 /\ s[7] = a7 /\ s[9] = a9 /\ s[10] = a10
  BY <1>1
<1>5. \A i \in {5, 7, 9, 10} : s[i].bad = <<>>
  BY <1>2, <1>3, <1>4
<1> QED
  BY <1>5 DEF s

\* A termination fails with a command of a channel that it has not started again.
LEMMA GivesUp ==
  ASSUME IInv, CtlNext, cl \in Stopping, ret, ~ret', NEW k \in Nat, NEW n \in Nat, Handled(k, n)
  PROVE  script' = <<>> /\ \A c \in Chans : cpm'[c] = "ACTIVE" => vc'[c].issued = <<>>
<1> DEFINE s == Terminating
<1>1. Typed /\ script # <<>>
  BY Effects DEF IInv
<1>2. /\ At(s, k, n) /\ Turned(k, n)
      /\ (cl = "terminateTx" => Cleared(k, n)) /\ (cl = "terminateRx" => Cleared(11, 0))
  BY DEF Handled, Place, Stage
<1>3. /\ s \in Seq(AnyStep) /\ Len(s) = 10
      /\ s[1].do = "setCh" /\ s[3].do = "setCh" /\ s[6].do = "program" /\ s[8].do = "program"
      /\ \A i \in {2, 4} : ~s[i].must
      /\ \A i \in {1, 2, 3, 4, 6, 8} : s[i].ok = <<>>
      /\ s[5].ok = Wiped(TX) /\ s[7].ok = Wiped(RX)
      /\ s[9].ok = <<SetCh(TX, "ACTIVE")>> /\ s[10].ok = <<SetCh(RX, "ACTIVE")>>
      /\ \A i \in {5, 7, 9, 10} : s[i].bad = <<>>
  BY StopTable, StopBad
<1> HIDE DEF s
<1>4. \A i \in 1 .. 10 : i \in {1, 3, 6, 8} \/ i \in {2, 4} \/ i \in {5, 7, 9, 10}
  OBVIOUS
<1>5. Head1.do = "cmd" /\ sent /\ Head1.must
  <2>1. Head1.do \notin {"allocEv", "configIrq"}
    <3>1. script \in Seq(Steps(RunKinds)) /\ "others" \notin RunKinds /\ "configIrq" \notin RunKinds
      BY DEF IInv, Handlers, RunKinds, Stopping, Running
    <3>2. Head1 \in Steps(RunKinds)
      BY <1>1, <3>1, KindsKept
    <3> QED
      BY <3>2 DEF Steps, RunKinds
  <2> QED
    BY <1>1, <2>1, MoreEffects
<1>6. script' = Head1.bad /\ cpm' = cpm /\ vc' = vc
  BY <1>1, <1>5, Effects, MoreEffects
<1>7. n = 0
  <2> SUFFICES ASSUME n # 0 PROVE FALSE
    OBVIOUS
  <2>1. s \in Seq(AnyStep) /\ Len(s) + 1 = 11
    BY <1>3
  <2>2. /\ k \in 2 .. Len(s) + 1 /\ n > 0 /\ n <= Len(s[k - 1].ok)
        /\ s[k - 1].ok \in Seq(AnyStep) => Head1 = s[k - 1].ok[Len(s[k - 1].ok) - n + 1]
    BY <1>1, <1>2, <2>1, Position
  <2>3. k - 1 \in 1 .. 10
    BY <2>1, <2>2
  <2>4. PICK o \in Oks : o = s[k - 1].ok
    BY <1>3, <1>4, <2>3 DEF Oks
  <2>5. o \in Seq(AnyStep) /\ \A j \in 1 .. Len(o) : o[j].do \in {"resetRing", "wipe", "setCh"}
    BY OkFacts
  <2>6. n <= Len(o) /\ n > 0 /\ n \in Nat /\ Len(o) \in Nat /\ Head1 = o[Len(o) - n + 1]
    BY <2>2, <2>4, <2>5, LenProperties
  <2>7. Len(o) - n + 1 \in 1 .. Len(o)
    BY <2>6
  <2> QED
    BY <1>5, <2>5, <2>6, <2>7
<1>8. k \in 1 .. 10 /\ Head1 = s[k]
  BY <1>1, <1>2, <1>3, <1>7, Position
<1>9. k \in {5, 7, 9, 10}
  BY <1>3, <1>4, <1>5, <1>8
<1>10. cl = "terminateTx" => (Past(k, n, 5) => vc[TX] = NoDescs) /\ (Past(k, n, 7) => vc[RX] = NoDescs)
  BY <1>2 DEF Cleared
<1>11. cl = "terminateRx" => vc[TX] = NoDescs /\ vc[RX] = NoDescs
  BY <1>2 DEF Cleared, Past
<1>12. cpm[RX] # "ACTIVE" /\ (k # 10 => cpm[TX] # "ACTIVE")
  BY <1>2, <1>7, <1>9 DEF Turned, Past
<1>13. ASSUME NEW c \in Chans, cpm[c] = "ACTIVE" PROVE vc[c].issued = <<>>
  <2>1. c = TX /\ k = 10
    BY <1>12, <1>13, TwoChans
  <2>2. vc[TX] = NoDescs
    BY <1>7, <1>10, <1>11, <2>1 DEF Past, Stopping
  <2> QED
    BY <2>1, <2>2 DEF NoDescs
<1> QED
  BY <1>3, <1>6, <1>8, <1>9, <1>13

\* The handler at work keeps the account.
LEMMA ControlsPairs ==
  ASSUME IInv, IInv', RInv, AInv, Controls
  PROVE  AInv'
<1> SUFFICES ASSUME ~dirty' PROVE AInv'
  BY DEF AInv
<1>1. /\ Typed /\ CtlNext /\ UNCHANGED <<cl, cur, sig, tk>> /\ ~dirty /\ script # <<>>
  BY Effects DEF IInv, Controls
<1>2. /\ Paired /\ GivenUp
      /\ Over => \A c \in Chans : Drained(c)
      /\ Clean /\ cl \in Running => \A c \in Chans : OwnOnly(c)
      /\ cl \in InUse => InOrder
  BY <1>1 DEF AInv
<1>3. \A c \in Chans : vc'[c] = vc[c] \/ vc'[c].issued = <<>>
  <2>1. Head1.ch \in Chans /\ vc \in [Chans -> Lists]
    BY <1>1, ScriptFacts DEF Typed, TypedRings
  <2>2. vc' = vc \/ vc' = [vc EXCEPT ![Head1.ch] = NoDescs]
    BY <1>1, Effects
  <2>3. NoDescs.issued = <<>>
    BY DEF NoDescs
  <2> HIDE DEF NoDescs
  <2> QED
    BY <2>1, <2>2, <2>3
<1>4. Paired'
  <2> SUFFICES ASSUME tk.pc \in Held PROVE evs' = evs
    BY <1>1, <1>2 DEF Paired
  <2>1. evOn' /\ evs' # <<>> /\ tk.pc # "off"
    BY <1>1 DEF IInv, DescriptorStays, Held
  <2> QED
    BY <1>1, <2>1, Effects
<1>5. GivenUp'
  <2> SUFFICES ASSUME cl \in Stopping, ~ret'
               PROVE  script' = <<>> /\ \A c \in Chans : cpm'[c] = "ACTIVE" => vc'[c].issued = <<>>
    BY <1>1 DEF GivenUp
  <2>1. ret
    BY <1>1, <1>2 DEF GivenUp
  <2>2. PICK k \in Nat, n \in Nat : Handled(k, n)
    BY <1>1, <2>1 DEF RInv, Clean, Stopping
  <2> QED
    BY <1>1, <2>1, <2>2, GivesUp
<1>6. Over' => \A c \in Chans : Drained(c)'
  BY <1>1, <1>2, <1>3 DEF Over, Drained, Leaves
<1>7. ASSUME Clean', cl' \in Running, NEW c \in Chans PROVE OwnOnly(c)'
  <2>1. Clean
    <3>1. cl \in Stopping => ret
      BY <1>1, <1>2 DEF GivenUp
    <3>2. cl # "grabRx"
      BY <1>1, <1>7 DEF Running
    <3> QED
      BY <1>1, <3>1, <3>2 DEF Clean
  <2>2. OwnOnly(c)
    BY <1>1, <1>2, <1>7, <2>1
  <2> QED
    BY <1>1, <1>3, <2>2 DEF OwnOnly, Leaves, Reads
<1>8. ASSUME cl' \in InUse PROVE InOrder'
  <2>1. PICK k \in Nat, n \in Nat : Handled(k, n)
    BY <1>1, <1>8 DEF RInv, Clean, InUse, Running, Stopping
  <2>2. script \in Seq(PauseSteps)
    BY <1>1, <1>8, <2>1 DEF Handled, Place
  <2>3. Head1 \in PauseSteps
    BY <1>1, <2>2, HeadTailProperties DEF Head1
  <2>4. UNCHANGED <<vc, evs, ring, hw>>
    <3>1. Head1.do \in {"disableIrq", "enableIrq", "killTasklet", "setPm", "cmd"}
      BY <2>3 DEF PauseSteps
    <3> QED
      BY <1>1, <3>1, Effects, MoreEffects
  <2> QED
    BY <1>1, <1>2, <1>8, <2>4 DEF InOrder, InTurn, Told, Whole, Fits, Settled, HasRoom, Live
<1> QED
  BY <1>4, <1>5, <1>6, <1>7, <1>8 DEF AInv

\* The controller moves on, and what the channels hold stays.
LEMMA CalmMoves ==
  ASSUME AInv, ~dirty, UNCHANGED <<cur, sig, vc, evs, tk, ring, hw>>, GivenUp',
         Over' => \A c \in Chans : Drained(c),
         Clean' /\ cl' \in Running => Clean /\ cl \in Running,
         cl' \in InUse => cl \in InUse
  PROVE  AInv'
<1>1. /\ Paired
      /\ Clean /\ cl \in Running => \A c \in Chans : OwnOnly(c)
      /\ cl \in InUse => InOrder
  BY DEF AInv
<1>2. Paired'
  BY <1>1 DEF Paired
<1>3. Over' => \A c \in Chans : Drained(c)'
  BY DEF Drained, Leaves
<1>4. Clean' /\ cl' \in Running => \A c \in Chans : OwnOnly(c)'
  BY <1>1 DEF OwnOnly, Leaves, Reads
<1>5. cl' \in InUse => InOrder'
  BY <1>1 DEF InOrder, InTurn, Told, Whole, Fits, Settled, HasRoom, Live
<1> QED
  BY <1>2, <1>3, <1>4, <1>5 DEF AInv

\* The controller takes the channels, or gives them back.
LEMMA BordersPair ==
  ASSUME IInv, AInv, ~dirty', GrabTx \/ GrabTxFailed \/ GrabRx \/ ReleaseRx \/ ReleaseTx \/ Released
  PROVE  AInv'
<1>1. ~dirty /\ UNCHANGED <<vc, evs, tk, cur>> /\ cl' \notin Running /\ (cl \notin Running \/ cl = "ready")
  <2>1. CASE GrabTx \/ GrabRx
    BY <2>1 DEF GrabTx, GrabRx, Alloc, AllocFails, Quiet, Calls, Returns, Running
  <2>2. CASE ReleaseRx \/ ReleaseTx
    BY <2>2 DEF ReleaseRx, ReleaseTx, Free, Quiet, Calls, Returns, Running
  <2>3. CASE GrabTxFailed \/ Released
    BY <2>3 DEF GrabTxFailed, Released, Client, gpiVars, Returns, Running
  <2> QED
    BY <2>1, <2>2, <2>3
<1>2. Paired /\ \A c \in Chans : Drained(c)
  BY <1>1 DEF AInv, Over
<1>3. Paired'
  BY <1>1, <1>2 DEF Paired
<1>4. \A c \in Chans : Drained(c)'
  BY <1>1, <1>2 DEF Drained, Leaves
<1>5. cl' \notin Stopping /\ cl' \notin InUse
  BY <1>1 DEF Stopping, Running, InUse
<1>6. GivenUp'
  BY <1>5 DEF GivenUp
<1> QED
  BY <1>1, <1>3, <1>4, <1>5, <1>6 DEF AInv

\* The channels are the controller's, or its transfer is over.
LEMMA ReadyPairs ==
  ASSUME IInv, IInv', RInv, RInv', AInv, ~dirty', Grabbed \/ Terminated \/ WaitEnds, cl' = "ready"
  PROVE  AInv'
<1>1. UNCHANGED <<vc, evs, tk, cur, sig>> /\ ~dirty
  <2>1. CASE Grabbed
    BY <2>1 DEF Grabbed, Client, gpiVars
  <2>2. CASE Terminated
    BY <2>2 DEF Terminated, Client, gpiVars
  <2>3. CASE WaitEnds
    BY <2>3 DEF WaitEnds, Client, gpiVars
  <2> QED
    BY <2>1, <2>2, <2>3
<1>2. Paired'
  BY <1>1 DEF AInv, Paired
<1>3. \A c \in Chans : Drained(c)
  <2>1. CASE Grabbed
    <3>1. cl \notin Running
      BY <2>1 DEF Grabbed, Returns, Running
    <3> QED
      BY <1>1, <3>1 DEF AInv, Over
  <2>2. CASE WaitEnds
    <3>1. cl \in InUse /\ sig # "none"
      BY <2>2 DEF WaitEnds, InUse, Running, Stopping
    <3> QED
      BY <1>1, <3>1 DEF AInv, Over
  <2>3. CASE Terminated
    <3>1. cl = "terminateRx" /\ Clean
      BY <1>1, <2>3 DEF Terminated, Returns, Clean, Stopping
    <3>2. PICK k \in Nat, n \in Nat : Handled(k, n)
      BY <1>1, <3>1 DEF RInv
    <3>3. vc[TX] = NoDescs /\ vc[RX] = NoDescs
      BY <3>1, <3>2 DEF Handled, Stage, Cleared, Past
    <3> QED
      BY <3>3, TwoChans DEF Drained, NoDescs
  <2> QED
    BY <2>1, <2>2, <2>3
<1>4. \A c \in Chans : Drained(c)'
  BY <1>1, <1>3 DEF Drained, Leaves
<1>5. (IInv /\ RInv /\ ~dirty /\ Paired /\ cl = "ready" /\ (\A c \in Chans : Drained(c)) => AInv)'
  BY DrainedIs, PTL
<1> QED
  BY <1>2, <1>4, <1>5

\* The controller waits, terminates its channels, or shares them with one that pauses.
LEMMA WaitsPair ==
  ASSUME IInv, RInv, AInv, ~dirty', cl' # "ready",
         WaitEnds \/ TerminateTx \/ TerminateRx \/ PauseOrResume
  PROVE  AInv'
<1>1. UNCHANGED <<cur, sig, vc, evs, tk, ring, hw>> /\ ~dirty
  <2>1. CASE WaitEnds
    BY <2>1 DEF WaitEnds, Client, gpiVars
  <2>2. CASE TerminateTx
    BY <2>2 DEF TerminateTx, Terminate, Quiet, hwVars
  <2>3. CASE TerminateRx
    BY <2>3 DEF TerminateRx, Terminate, Quiet, hwVars
  <2>4. CASE PauseOrResume
    BY <2>4 DEF PauseOrResume, Pause, Resume, Quiet, hwVars
  <2> QED
    BY <2>1, <2>2, <2>3, <2>4
<1>2. CASE WaitEnds \/ PauseOrResume
  <2>1. cl = "wait" /\ cl' \in {"wait", "failed"}
    BY <1>2 DEF WaitEnds, PauseOrResume
  <2>2. cl \in InUse /\ cl' \in InUse /\ cl' \notin Stopping
    BY <2>1 DEF InUse, Running, Stopping
  <2>3. GivenUp' /\ (Over' => Over) /\ Clean /\ cl \in Running
    BY <1>1, <2>1, <2>2 DEF GivenUp, Over, Clean, Running, InUse
  <2>4. Over => \A c \in Chans : Drained(c)
    BY <1>1 DEF AInv
  <2> QED
    BY <1>1, <2>2, <2>3, <2>4, CalmMoves
<1>3. CASE TerminateTx \/ TerminateRx
  <2>1. /\ cl' \in Stopping /\ ret' /\ cl \in {"failed", "terminateTx"} /\ (cl \in Stopping => ret)
    <3>1. CASE TerminateTx
      BY <3>1 DEF TerminateTx, Terminate, Enter, Calls, Stopping
    <3>2. CASE TerminateRx
      BY <3>2 DEF TerminateRx, Terminate, Enter, Returns, Stopping
    <3> QED
      BY <1>3, <3>1, <3>2
  <2>2. GivenUp' /\ ~Over' /\ Clean /\ cl \in Running /\ cl' \notin InUse
    BY <1>1, <2>1 DEF GivenUp, Over, Clean, Running, InUse, Stopping
  <2> QED
    BY <1>1, <2>2, CalmMoves
<1> QED
  BY <1>2, <1>3

\* A transfer is prepared, with room for what it submits.
LEMMA SetupPairs ==
  ASSUME IInv, RInv, AInv, SetupGsiXfer
  PROVE  AInv'
<1> SUFFICES ASSUME ~dirty' PROVE AInv'
  BY DEF AInv
<1>1. /\ cl = "ready" /\ ~dirty /\ UNCHANGED <<hw, ring, evs, tk, dirty>>
      /\ cl' \in {"issueRx", "issueTx", "failed"} /\ sig' = "none"
  BY DEF SetupGsiXfer, hwVars
<1>2. /\ Typed /\ DescriptorStays /\ Idle /\ Transfers /\ Paired
      /\ \A c \in Chans : Drained(c) /\ vc[c] \in Lists /\ vc[c].submitted = <<>>
  <2>1. cl \notin Busy /\ cl \in Running /\ Clean
    BY <1>1 DEF Busy, Running, Clean, Stopping
  <2>2. Typed /\ Transfers /\ vc \in [Chans -> Lists]
    BY <1>1, <2>1 DEF IInv, RInv, Typed, TypedRings
  <2>3. \A c \in Chans : vc[c].submitted = <<>>
    BY <1>1, <2>2, TwoChans DEF Transfers, Prepared
  <2> QED
    BY <1>1, <2>1, <2>2, <2>3 DEF IInv, RInv, AInv, Over
<1>3. cur.x \in Nat /\ cur'.x = cur.x + 1
  BY <1>2 DEF Typed, TypedClient, Xfers, Xs, SetupGsiXfer
<1>4. ASSUME NEW c \in Chans
      PROVE  vc'[c].issued = vc[c].issued /\ (vc'[c].submitted # <<>> => HasRoom(c))
  <2>1. PICK t : \E rd \in BOOLEAN :
          \/ /\ HasRoom(TX) /\ (rd => HasRoom(RX))
             /\ vc' = [d \in Chans |-> IF d = TX \/ rd
                                       THEN [vc[d] EXCEPT !.submitted = Append(@, Desc(d, t))] ELSE vc[d]]
          \/ vc' = vc
          \/ vc' = [vc EXCEPT ![RX].allocated = Append(@, Desc(RX, t))]
    <3>1. PICK s \in Shapes :
            LET t == [x |-> cur.x + 1, cmd |-> s.cmd, imm |-> s.imm]
                reads == t.cmd = "SPI_TX_RX"
                room == HasRoom(TX) /\ (reads => HasRoom(RX))
            IN  \/ /\ room
                   /\ vc' = [d \in Chans |-> IF d = TX \/ reads
                                             THEN [vc[d] EXCEPT !.submitted = Append(@, Desc(d, t))] ELSE vc[d]]
                \/ vc' = IF reads /\ HasRoom(RX)
                         THEN [vc EXCEPT ![RX].allocated = Append(@, Desc(RX, t))] ELSE vc
      BY DEF SetupGsiXfer
    <3> DEFINE t == [x |-> cur.x + 1, cmd |-> s.cmd, imm |-> s.imm]
               rd == t.cmd = "SPI_TX_RX"
    <3>2. rd \in BOOLEAN
      OBVIOUS
    <3> HIDE DEF t
    <3>3. \/ /\ HasRoom(TX) /\ (rd => HasRoom(RX))
             /\ vc' = [d \in Chans |-> IF d = TX \/ rd
                                       THEN [vc[d] EXCEPT !.submitted = Append(@, Desc(d, t))] ELSE vc[d]]
          \/ vc' = IF rd /\ HasRoom(RX) THEN [vc EXCEPT ![RX].allocated = Append(@, Desc(RX, t))] ELSE vc
      BY <3>1 DEF t
    <3> HIDE DEF rd
    <3>4. \E b \in BOOLEAN :
            \/ /\ HasRoom(TX) /\ (b => HasRoom(RX))
               /\ vc' = [d \in Chans |-> IF d = TX \/ b
                                         THEN [vc[d] EXCEPT !.submitted = Append(@, Desc(d, t))] ELSE vc[d]]
            \/ vc' = vc
            \/ vc' = [vc EXCEPT ![RX].allocated = Append(@, Desc(RX, t))]
      <4> WITNESS rd \in BOOLEAN
      <4> QED
        BY <3>3
    <3> QED
      BY <3>4
  <2>2. vc[c] \in Lists /\ vc[c].submitted = <<>> /\ vc \in [Chans -> Lists]
    BY <1>2 DEF Typed, TypedRings
  <2>3. ASSUME NEW rd \in BOOLEAN, HasRoom(TX) /\ (rd => HasRoom(RX)),
             vc' = [d \in Chans |-> IF d = TX \/ rd
                                       THEN [vc[d] EXCEPT !.submitted = Append(@, Desc(d, t))] ELSE vc[d]]
        PROVE  vc'[c].issued = vc[c].issued /\ (vc'[c].submitted # <<>> => HasRoom(c))
    <3>1. CASE c = TX \/ rd
      <4>1. PICK v : v = Append(vc[c].submitted, Desc(c, t))
        OBVIOUS
      <4>2. vc'[c] = [vc[c] EXCEPT !.submitted = v]
        BY <2>3, <3>1, <4>1
      <4>3. vc'[c].issued = vc[c].issued
        BY <2>2, <4>2 DEF Lists
      <4>4. HasRoom(c)
        BY <2>3, <3>1, TwoChans
      <4> QED
        BY <4>3, <4>4
    <3>2. CASE ~(c = TX \/ rd)
      BY <2>2, <2>3, <3>2
    <3> QED
      BY <3>1, <3>2
  <2>4. CASE vc' = vc
    BY <2>2, <2>4
  <2>5. CASE vc' = [vc EXCEPT ![RX].allocated = Append(@, Desc(RX, t))]
    <3>1. PICK v : v = Append(vc[RX].allocated, Desc(RX, t))
      OBVIOUS
    <3>2. vc' = [vc EXCEPT ![RX].allocated = v]
      BY <2>5, <3>1
    <3> QED
      BY <2>2, <3>2 DEF Lists
  <2> QED
    BY <2>1, <2>3, <2>4, <2>5
<1>5. ASSUME NEW c \in Chans, NEW j \in DOMAIN vc'[c].issued
      PROVE  vc'[c].issued[j].x # cur'.x /\ Leaves(c, vc[c].issued[j])'
  <2>1. j \in DOMAIN vc[c].issued /\ vc'[c].issued[j] = vc[c].issued[j]
    BY <1>4, <1>5
  <2>2. vc[c].issued[j].x \in Nat
    <3>1. vc[c].issued \in Seq(Descs)
      BY <1>2 DEF Lists
    <3> QED
      BY <2>1, <3>1, Elems, DescTyped DEF Xs
  <2>3. vc[c].issued[j].x <= cur.x
    BY <1>2, <2>1 DEF Transfers, Sorted
  <2>4. Leaves(c, vc[c].issued[j])
    BY <1>2, <2>1, DrainedFacts
  <2> QED
    BY <1>1, <1>3, <2>1, <2>2, <2>3, <2>4 DEF Leaves
<1>6. ASSUME NEW i \in DOMAIN evs', NEW c \in Chans, Live(i, c)' PROVE evs'[i].x # cur'.x
  <2>1. i \in DOMAIN evs /\ Live(i, c) /\ evs' = evs
    BY <1>1, <1>6 DEF Live
  <2>2. PICK j \in DOMAIN vc[c].issued : vc[c].issued[j].x = evs[i].x
    BY <1>2, <2>1 DEF Transfers, Events
  <2>3. j \in DOMAIN vc'[c].issued /\ vc'[c].issued[j].x = evs'[i].x
    BY <1>4, <2>1, <2>2
  <2> QED
    BY <1>5, <2>3
<1>7. Paired'
  <2>1. tk.pc # "complete"
    <3>1. tk.pc = "complete" => tk.ch \in Chans /\ vc[tk.ch].issued # <<>>
      BY <1>2 DEF DescriptorStays, Typed, TypedTk
    <3>2. \A c \in Chans : vc[c].issued # <<>> => tk.pc = "unlink"
      BY <1>2, DrainedFacts
    <3> QED
      BY <3>1, <3>2
  <2> QED
    BY <1>1, <1>2, <2>1 DEF Paired
<1>8. GivenUp' /\ ~Over'
  BY <1>1 DEF GivenUp, Over, Stopping, Running, InUse
<1>9. ASSUME NEW c \in Chans PROVE OwnOnly(c)'
  <2>1. \A j \in DOMAIN vc'[c].issued : vc'[c].issued[j].x # cur'.x /\ Leaves(c, vc[c].issued[j])'
    BY <1>5
  <2> QED
    BY <2>1 DEF OwnOnly
<1>10. InOrder'
  <2>1. InTurn'
    BY <1>6, TwoChans DEF InTurn
  <2>2. \A c \in Chans : Told(c)'
    BY <1>5 DEF Told
  <2>3. \A c \in Chans : Whole(c)'
    BY <1>1, <1>2, TwoChans DEF Whole, Idle, Settled
  <2>4. \A c \in Chans : Fits(c)'
    BY <1>1, <1>4 DEF Fits, HasRoom
  <2> QED
    BY <2>1, <2>2, <2>3, <2>4 DEF InOrder
<1> QED
  BY <1>7, <1>8, <1>9, <1>10 DEF AInv

\* A transfer is issued to one of its channels, which then has all of it before it.
LEMMA IssuePairs ==
  ASSUME IInv, RInv, AInv, IssueRx \/ IssueTx
  PROVE  AInv'
<1> SUFFICES ASSUME ~dirty' PROVE AInv'
  BY DEF AInv
<1>1. PICK c \in Chans : /\ Issue(c) /\ cl = (IF c = RX THEN "issueRx" ELSE "issueTx")
                         /\ cl' = (IF c = RX THEN "issueTx" ELSE "wait")
                         /\ UNCHANGED <<cur, sig, grabs, pauses, dirty>>
  BY TwoChans DEF IssueRx, IssueTx, Calls
<1>2. /\ Typed /\ ~dirty /\ Clean /\ Transfers /\ cl \in InUse /\ cl' \in InUse /\ cl' # "ready"
      /\ Paired /\ InOrder /\ (\A d \in Chans : OwnOnly(d)) /\ cur \in Xfers
  <2>1. ~dirty /\ Clean /\ cl \in InUse /\ cl \in Running /\ cl' \in InUse /\ cl' # "ready"
    BY <1>1 DEF Clean, Stopping, Running, InUse
  <2> QED
    BY <2>1 DEF IInv, RInv, AInv, Typed, TypedClient
<1>3. /\ UNCHANGED <<evs, tk>>
      /\ vc'[c].issued = vc[c].issued \o <<Desc(c, cur)>> /\ vc'[c].submitted = <<>>
      /\ hw'[c].at = hw[c].at
      /\ \A d \in Chans : d # c => hw'[d] = hw[d] /\ ring'[d] = ring[d] /\ vc'[d] = vc[d]
      /\ \E m \in 0 .. NrTre(c) :
           m < Elements /\ hw'[c].db = After(ring[c].wp, m) /\ (HasRoom(c) => m = NrTre(c))
  BY <1>1, <1>2, IssueEffects
<1>4. /\ vc[c].submitted = <<Desc(c, cur)>> /\ (c = RX => Reads) /\ sig = "none"
      /\ vc[c].issued \in Seq(Descs)
  BY <1>1, <1>2, TwoChans DEF Transfers, Prepared, Typed, TypedRings, Lists
<1>5. HasRoom(c)
  BY <1>2, <1>4 DEF InOrder, Fits
<1>6. hw[c].at = ring[c].wp /\ ring[c].wp \in Slots
  <2>1. PICK k \in Nat, n \in Nat : Handled(k, n)
    BY <1>2 DEF RInv
  <2>2. ring[c].wp = hw[c].db
    BY <1>2, <2>1 DEF Handled, Stage
  <2>3. Settled(c)
    <3>1. CASE c = RX
      <4>1. cl \notin Busy
        BY <1>1, <3>1 DEF Busy
      <4> QED
        BY <1>2, <3>1, <4>1, TwoChans DEF RInv, Idle
    <3>2. CASE c = TX
      BY <1>1, <1>2, <3>2, TwoChans DEF RInv, Arc
    <3> QED
      BY <3>1, <3>2, TwoChans
  <2> QED
    BY <1>2, <2>2, <2>3 DEF Settled, Typed, TypedRings
<1>7. NrTre(c) < Elements /\ hw'[c].db = After(hw'[c].at, NrTre(c)) /\ hw'[c].at # hw'[c].db
  <2>1. NrTre(c) < Elements /\ hw'[c].db = After(ring[c].wp, NrTre(c))
    BY <1>3, <1>5
  <2>2. NrTre(c) \in Nat /\ 0 \in Nat /\ 0 < NrTre(c)
    BY DEF NrTre
  <2>3. After(ring[c].wp, 0) # After(ring[c].wp, NrTre(c))
    BY <1>6, <2>1, <2>2, Apart
  <2>4. After(ring[c].wp, 0) = ring[c].wp
    <3>1. PICK w \in Nat : w = ring[c].wp /\ w < Elements /\ Elements \in Nat
      BY <1>6, SlotFacts
    <3>2. w % Elements = w /\ w + 0 = w
      BY <3>1, Below
    <3> QED
      BY <3>1, <3>2 DEF After
  <2> QED
    BY <1>3, <1>6, <2>1, <2>3, <2>4
<1>8. Paired'
  BY <1>1, <1>2, <1>3 DEF Paired
<1>9. GivenUp' /\ ~Over'
  BY <1>1, <1>2, <1>4 DEF GivenUp, Over, InUse
<1>10. ASSUME NEW d \in Chans PROVE OwnOnly(d)'
  <2>1. CASE d # c
    BY <1>1, <1>2, <1>3, <2>1 DEF OwnOnly, Leaves, Reads
  <2>2. CASE d = c
    <3> SUFFICES ASSUME NEW j \in DOMAIN vc'[c].issued
                 PROVE  /\ vc'[c].issued[j].x = cur.x \/ Leaves(c, vc[c].issued[j])'
                        /\ c = RX /\ vc'[c].issued[j].x = cur.x => Reads
      BY <1>1, <2>2 DEF OwnOnly, Reads
    <3>1. Desc(c, cur) \in Descs /\ Desc(c, cur).x = cur.x
      <4>1. Desc(c, cur) \in Descs
        BY <1>2, DescTyped
      <4> QED
        BY <4>1 DEF Desc
    <3>2. PICK e : e = Desc(c, cur)
      OBVIOUS
    <3>3. /\ DOMAIN vc[c].issued = 1 .. Len(vc[c].issued) /\ Len(vc[c].issued) \in Nat
          /\ DOMAIN vc'[c].issued = 1 .. Len(vc[c].issued) + 1
          /\ vc'[c].issued[Len(vc[c].issued) + 1] = e
          /\ \A i \in 1 .. Len(vc[c].issued) : vc'[c].issued[i] = vc[c].issued[i]
      BY <1>3, <1>4, <3>1, <3>2, OneMore, LenProperties
    <3>4. CASE j \in DOMAIN vc[c].issued
      <4>1. vc'[c].issued[j] = vc[c].issued[j]
        BY <3>3, <3>4
      <4>2. vc[c].issued[j].x = cur.x \/ Leaves(c, vc[c].issued[j])
        BY <1>2, <3>4 DEF OwnOnly
      <4> QED
        BY <1>3, <1>4, <4>1, <4>2 DEF Leaves
    <3>5. CASE j \notin DOMAIN vc[c].issued
      <4>1. vc'[c].issued[j].x = cur.x
        BY <3>1, <3>2, <3>3, <3>5
      <4> QED
        BY <1>4, <4>1
    <3> QED
      BY <3>4, <3>5
  <2> QED
    BY <2>1, <2>2
<1>11. InOrder'
  <2>1. InTurn'
    BY <1>1, <1>2, <1>3 DEF InOrder, InTurn, Live
  <2>2. ASSUME NEW d \in Chans PROVE Told(d)' /\ Whole(d)' /\ Fits(d)'
    <3>1. CASE d # c
      <4>1. Told(d) /\ Whole(d) /\ Fits(d) /\ hw'[d] = hw[d] /\ ring'[d] = ring[d] /\ vc'[d] = vc[d]
        BY <1>2, <1>3, <3>1 DEF InOrder
      <4> QED
        BY <1>1, <1>3, <4>1 DEF Told, Whole, Fits, Settled, HasRoom, Live
    <3>2. CASE d = c
      BY <1>3, <1>7, <3>2 DEF Told, Whole, Fits, Settled
    <3> QED
      BY <3>1, <3>2
  <2> QED
    BY <2>1, <2>2 DEF InOrder
<1> QED
  BY <1>8, <1>9, <1>10, <1>11 DEF AInv

LEMMA AInvInit == Init => AInv
<1> SUFFICES ASSUME Init PROVE AInv
  OBVIOUS
<1>1. cl = "off" /\ tk.pc = "off" /\ \A c \in Chans : vc[c].issued = <<>>
  BY DEF Init, GpiInit, IdleTk, NoDescs
<1> QED
  BY <1>1 DEF AInv, Paired, Held, GivenUp, Stopping, Drained, Running, InUse

LEMMA AInvStep == IInv /\ RInv /\ AInv /\ [Next]_vars => AInv'
<1> SUFFICES ASSUME IInv, RInv, AInv, [Next]_vars PROVE AInv'
  OBVIOUS
<1>1. IInv' /\ RInv'
  BY IInvStep, RInvStep
<1>2. CASE ClientNext
  <2>1. CASE dirty'
    BY <2>1 DEF AInv
  <2>2. CASE ~dirty'
    <3>1. ~GrabFailed
      BY <2>2 DEF GrabFailed
    <3>2. cl' # "ready" => ~Grabbed /\ ~Terminated
      BY DEF Grabbed, Terminated
    <3>3. CASE cl' = "ready" /\ (Grabbed \/ Terminated \/ WaitEnds)
      BY <1>1, <2>2, <3>3, ReadyPairs
    <3>4. CASE cl' = "ready" /\ (TerminateTx \/ TerminateRx \/ PauseOrResume)
      BY <3>4 DEF TerminateTx, TerminateRx, PauseOrResume, Calls
    <3>5. CASE cl' # "ready" /\ (WaitEnds \/ TerminateTx \/ TerminateRx \/ PauseOrResume)
      BY <2>2, <3>5, WaitsPair
    <3>6. CASE GrabTx \/ GrabTxFailed \/ GrabRx \/ ReleaseRx \/ ReleaseTx \/ Released
      BY <2>2, <3>6, BordersPair
    <3> QED
      BY <1>2, <3>1, <3>2, <3>3, <3>4, <3>5, <3>6, SetupPairs, IssuePairs DEF ClientNext
  <2> QED
    BY <2>1, <2>2
<1>3. CASE Tasklet
  BY <1>3, TaskletPairs
<1>4. CASE Controls
  BY <1>1, <1>4, ControlsPairs
<1>5. CASE (HandleIrq \/ HwNext) /\ UNCHANGED clVars
  BY <1>5, IrqPairs, ObeyPairs, RunPairs DEF HwNext
<1>6. CASE Ended \/ UNCHANGED vars
  <2>1. UNCHANGED <<cl, cur, sig, dirty, vc, evs, tk, ret, ring, script, cpm, hw>>
    BY <1>6 DEF Ended, vars, gpiVars, clVars
  <2> QED
    BY <2>1, CalmEvents
<1> QED
  BY <1>2, <1>3, <1>4, <1>5, <1>6 DEF Next

\* The events are read one for one and in turn: those of the transmit channel before those of the
\* receive channel, and while the grab and every termination have succeeded none is left when a transfer has been
\* answered (gpi_process_xfer_compl_event, gpi_issue_pending, setup_gsi_xfer).
THEOREM AccountInvariance == Spec => []AInv
<1>1. Init => AInv
  BY AInvInit
<1>2. IInv /\ RInv /\ AInv /\ [Next]_vars => AInv'
  BY AInvStep
<1>3. Spec => []IInv /\ []RInv
  BY Invariance, RingInvariance
<1> QED
  BY <1>1, <1>2, <1>3, PTL DEF Spec

\* While the grab and every termination have succeeded, the tasklet completes a descriptor with its own event, and
\* the callback that ends a transfer is that of the transfer in progress.
THEOREM OwnEventsOnly == Spec => [](~dirty => CompletesItsOwn)
<1>1. AInv => (~dirty => CompletesItsOwn)
  BY DEF AInv, Paired, Held, CompletesItsOwn
<1>2. Spec => []AInv
  BY AccountInvariance
<1> QED
  BY <1>1, <1>2, PTL

=============================================================================
