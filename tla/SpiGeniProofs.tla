--------------------------- MODULE SpiGeniProofs ---------------------------
(***************************************************************************)
(* Theorems about the SPI controller (SpiGeni), for every depth and width  *)
(* of the FIFOs, every set of devices and of kinds of transfers, and every *)
(* number of transfers and faults: as long as no transfer is set up with   *)
(* the interrupt of a DMA reset still to be served, the interrupt handler  *)
(* finalizes a transfer only when the hardware has finished that very      *)
(* transfer, with every byte moved, the transmit FIFO never overflows, and *)
(* a command runs only with the settings of its device.                    *)
(***************************************************************************)
EXTENDS SpiGeni, TLAPS

\* The phases of the handler that hold the lock, and those before it takes the lock.
Serving == {"rx", "tx", "done", "forget", "complete", "ack"}
Reading == {"dma", "lock"}

\* The phases of the pump: cur_xfer is set and its command not started, a transfer is set up, a
\* command may run, nothing is left of the last transfer unless the abort failed.
Filling == {"lens", "mode", "select", "start"}
Setup   == {"clock", "rem", "cur"} \cup Filling
Running == {"wait", "error"}
After   == {"reset", "txReset", "reset2", "rxReset", "idle"}
Phases  == {"transfer", "setup", "cancel", "abort"} \cup Setup \cup Running \cup After

-----------------------------------------------------------------------------
(* The inductive invariant, in seven parts *)

\* The types of the records.
LastKind == [cs : 0 .. 3, high : BOOLEAN, phase : BOOLEAN, hz : Nat, sclk : Nat]
RegKind  == [cs : 0 .. 3, inv : SUBSET (0 .. 3), phase : BOOLEAN, hz : Nat]
FifoKind == [tx : Nat, rx : Nat, last : 0 .. Bpw, wm : BOOLEAN]
OpKind   == [x : 0 .. MaxXfers, tx : BOOLEAN, rx : BOOLEAN, dma : BOOLEAN, left : Nat,
             lastBytes : 0 .. Bpw]
MBits    == SUBSET {"DONE", "RX_WATERMARK", "RX_LAST", "TX_WATERMARK", "CANCEL", "ABORT"}
DmaBits  == SUBSET {"DONE", "RESET"}
IsrKind  == [pc : {"off"} \cup Serving \cup Reading, m : MBits, tx : DmaBits, rx : DmaBits]
XferKind == [x : 0 .. MaxXfers, s : [tx : BOOLEAN, rx : BOOLEAN, dma : BOOLEAN, len : Nat],
             d : Devices]

\* The variables have their types.
Kinds ==
  /\ last \in LastKind /\ reg \in RegKind /\ fifo \in FifoKind /\ op \in OpKind
  /\ isr \in IsrKind /\ xfer \in XferKind
  /\ cur \in 0 .. MaxXfers /\ hx \in 0 .. MaxXfers /\ ended \in 0 .. MaxXfers
  /\ mode \in {"FIFO", "DMA"} /\ hwMode \in {"FIFO", "DMA"}
  /\ txRem \in Nat /\ rxRem \in Nat
  /\ abortFailed \in BOOLEAN /\ sig \in BOOLEAN /\ lock \in {"none", "isr"}
  /\ power \in {"on", "off", "error"} /\ system \in {"awake", "asleep", "failed"}
  /\ cancelDone \in BOOLEAN /\ abortDone \in BOOLEAN
  /\ txResetDone \in BOOLEAN /\ rxResetDone \in BOOLEAN
  /\ pc \in Phases
  /\ mstat \in MBits /\ txStat \in DmaBits /\ rxStat \in DmaBits
  /\ faults \in 0 .. MaxFaults /\ late \in BOOLEAN

\* The last word received is partly filled only when there is one.
Tail == fifo.rx = 0 => fifo.last = 0

\* The registers hold what the driver remembers to have written, and during a transfer that is
\* what its device asked for.
Settings ==
  /\ reg.cs = last.cs /\ reg.phase = last.phase /\ last.hz = last.sclk
  /\ reg.inv = IF last.high THEN {last.cs} ELSE {}
  /\ pc # "idle" => power = "on"
  /\ system = "asleep" => power # "on"
  /\ system = "awake" /\ power = "on" => reg.hz = last.sclk
  /\ pc # "idle" => last.cs = xfer.d.cs /\ last.high = xfer.d.high /\ last.phase = xfer.d.phase
  /\ pc \in Setup \ {"clock"} \/ op.x # 0 => last.hz = xfer.d.hz

\* Who may do what: the lock, the mode, the transfer that cur_xfer and the command belong to.
Turns ==
  /\ lock = IF isr.pc \in Serving THEN "isr" ELSE "none"
  /\ isr.pc = "off" => isr = IdleIsr
  /\ isr.pc = "dma" => isr.tx = {} /\ isr.rx = {}
  /\ IF pc = "select" THEN mode = IF xfer.s.dma THEN "DMA" ELSE "FIFO" ELSE mode = hwMode
  /\ pc = "start" => ((hwMode = "DMA") <=> xfer.s.dma)
  /\ pc # "idle" => xfer.s \in Shapes /\ xfer.x # 0
  /\ pc \in Setup \cup {"setup"} => xfer.s.len > 0 /\ ~sig
  /\ abortFailed => pc \in After
  /\ isr.pc = "forget" => /\ cur # 0 /\ cur = ended /\ op.x = 0
                          /\ pc \in Running \cup {"idle", "transfer", "setup"}
  /\ isr.pc # "forget" /\ cur # 0 => cur = xfer.x /\ pc \in Filling \cup Running
  /\ pc \in Filling => cur = xfer.x
  /\ pc = "wait" /\ sig /\ cur # 0 => isr.pc = "forget"
  /\ op.x # 0 => /\ op.x = xfer.x /\ cur = xfer.x /\ pc \in Running /\ isr.pc # "forget" /\ ~sig
                 /\ op.dma <=> hwMode = "DMA"
                 /\ op.tx \/ op.rx
                 /\ op.tx => xfer.s.tx
                 /\ op.rx => xfer.s.rx
                 /\ op.left > 0 /\ op.lastBytes \in 1 .. Bpw
  /\ pc \in Running /\ cur # 0 /\ op.x = 0 => ended = cur

\* The interrupts that can act on a transfer, and that none is left but those being served.
Watched == IF hwMode = "FIFO" THEN {"DONE", "CANCEL", "ABORT", "TX_WATERMARK"}
           ELSE {"CANCEL", "ABORT"}

Calm ==
  /\ isr.pc \in Serving => mstat \cap Watched \subseteq isr.m
  /\ isr.pc \notin Serving => mstat \cap Watched = {}
  /\ isr.pc \in Reading => isr.m \cap Watched = {}

\* No interrupt of an earlier command is left when a transfer is set up.
Quiet ==
  /\ isr.pc \in Reading => isr.m \cap Watched \subseteq mstat
  /\ pc = "wait" /\ sig => Calm
  /\ pc \in {"transfer", "setup"} => Calm
  /\ pc \in Setup => (mstat \cup isr.m) \cap Watched = {}
  /\ pc \in Running => (mstat \cup isr.m) \cap {"CANCEL", "ABORT"} = {}
  /\ pc = "cancel" => "ABORT" \notin mstat \cup isr.m
  /\ pc \in After => Calm \/ abortFailed
  /\ pc = "cancel" /\ cancelDone => Calm
  /\ pc = "cancel" /\ ~cancelDone /\ "CANCEL" \in isr.m => mstat \cap Watched \subseteq isr.m
  /\ pc = "abort" /\ abortDone => Calm
  /\ pc = "abort" /\ ~abortDone /\ "ABORT" \in isr.m => mstat \cap Watched \subseteq isr.m
  /\ hwMode = "FIFO" /\ op.x # 0 => "DONE" \notin mstat \cup isr.m
  /\ "RX_LAST" \in mstat => "DONE" \in mstat
  /\ "RX_LAST" \in isr.m => "DONE" \in isr.m
  /\ "RX_LAST" \in mstat \ isr.m => "DONE" \notin isr.m

\* A DMA engine may have something to say: its transfer is not over, or its reset.
TxOpen ==
  \/ pc \in Running /\ cur # 0 /\ isr.pc # "forget" /\ hwMode = "DMA" /\ xfer.s.tx /\ txRem # 0
  \/ pc \in {"cancel", "abort", "reset"} /\ NeedsTxReset
  \/ "RESET" \in txStat

RxOpen ==
  \/ pc \in Running /\ cur # 0 /\ isr.pc # "forget" /\ hwMode = "DMA" /\ xfer.s.rx /\ rxRem # 0
  \/ pc \in {"cancel", "abort", "reset", "txReset", "reset2"} /\ NeedsRxReset
  \/ "RESET" \in rxStat

\* No status of an earlier command is left in the DMA engines when a transfer is set up.
Engines ==
  /\ txStat # {} \/ (isr.pc \in {"lock", "rx"} /\ isr.tx # {}) => TxOpen
  /\ rxStat # {} \/ (isr.pc \in {"lock", "rx"} /\ isr.rx # {}) => RxOpen
  /\ isr.pc \in {"lock", "rx"} => isr.tx \subseteq txStat /\ isr.rx \subseteq rxStat
  /\ isr.pc \in {"lock", "rx"} /\ "RESET" \in isr.tx => txStat \subseteq isr.tx
  /\ isr.pc \in {"lock", "rx"} /\ "RESET" \in isr.rx => rxStat \subseteq isr.rx
  /\ "RESET" \in txStat =>
       hwMode = "DMA" /\ pc \in {"txReset", "reset2", "rxReset", "idle", "transfer", "setup"}
  /\ "RESET" \in rxStat => hwMode = "DMA" /\ pc \in {"rxReset", "idle", "transfer", "setup"}
  /\ hwMode = "DMA" /\ isr.pc \in Reading =>
       Interrupts \/ pc \in {"start", "error"} \/ (pc = "wait" /\ ~sig)
  /\ hwMode = "DMA" /\ pc \in Setup \ {"start"} => isr.pc = "off"
  /\ op.x # 0 /\ op.dma /\ op.tx => txRem # 0 /\ "DONE" \notin txStat \cup isr.tx
  /\ op.x # 0 /\ op.dma /\ op.rx => rxRem # 0 /\ "DONE" \notin rxStat \cup isr.rx

\* What is left of the running command, in bytes.
Bytes == (op.left - 1) * Bpw + op.lastBytes

\* The budget of a transfer from SetRem to its start.
Budget ==
  pc \in {"mode", "select", "start"} =>
    /\ txRem = IF xfer.s.tx THEN xfer.s.len ELSE 0
    /\ IF xfer.s.rx THEN rxRem <= xfer.s.len ELSE rxRem = 0
    /\ xfer.s.rx /\ xfer.s.dma => rxRem > fifo.rx * Bpw

\* The words in the FIFOs and the bytes that are still to come.
Counts ==
  /\ fifo.rx <= Depth
  /\ fifo.tx <= Depth /\ (fifo.tx # 0 => op.x # 0 /\ op.tx /\ ~op.dma)
  /\ fifo.wm => hwMode = "FIFO" /\ cur # 0 /\ txRem # 0 /\ pc \in Running
  /\ Budget
  /\ hwMode = "FIFO" /\ op.x # 0 =>
       /\ IF op.tx THEN fifo.tx + Words(txRem) = op.left ELSE txRem = 0
       /\ IF op.rx THEN rxRem <= Bytes + fifo.rx * Bpw /\ fifo.last = 0 ELSE rxRem = 0
  /\ hwMode = "FIFO" /\ op.x = 0 /\ pc \in Running /\ cur # 0 => txRem = 0 /\ rxRem <= RxBytes
  /\ hwMode = "FIFO" /\ op.x = 0 /\ pc \in Running /\ cur # 0 /\ rxRem # 0 =>
       /\ "DONE" \in mstat => "RX_LAST" \in mstat
       /\ "DONE" \in isr.m => isr.pc \notin {"tx", "done"} /\ "RX_LAST" \in isr.m
  /\ hwMode = "FIFO" /\ pc \in Running /\ cur # 0 =>
       /\ "TX_WATERMARK" \in isr.m /\ isr.pc \in {"dma", "lock", "rx", "tx"} =>
            fifo.wm /\ fifo.tx = 0
       /\ "TX_WATERMARK" \in mstat =>
            \/ fifo.wm /\ fifo.tx = 0
            \/ "TX_WATERMARK" \in isr.m /\ isr.pc \in Serving \ {"rx", "tx"}
  /\ isr.pc = "forget" => txRem = 0 /\ rxRem = 0

Facts == Kinds /\ Tail /\ Settings /\ Turns /\ Quiet /\ Engines /\ Counts

\* All of it holds until a transfer is set up with the interrupt of a DMA reset still to be
\* served; the types hold throughout.
IInv == Kinds /\ Tail /\ (~late => Facts)

-----------------------------------------------------------------------------
(* Words and bytes *)

\* Arithmetic of a division: the quotient is what multiplies back.
LEMMA Quotient ==
  ASSUME NEW b \in Nat \ {0}, NEW q \in Nat, NEW r \in 0 .. b - 1
  PROVE  (q * b + r) \div b = q
OBVIOUS

\* A division with its remainder.
LEMMA Remainder ==
  ASSUME NEW b \in Nat \ {0}, NEW a \in Nat
  PROVE  /\ a \div b \in Nat /\ a % b \in 0 .. b - 1
         /\ a = (a \div b) * b + (a % b)
OBVIOUS

\* A smaller product has a smaller factor.
LEMMA Factor ==
  ASSUME NEW b \in Nat \ {0}, NEW x \in Nat, NEW y \in Nat, x * b < y * b + b
  PROVE  x <= y
OBVIOUS

\* Words(n) is the number of FIFO words that hold n bytes.
LEMMA WordsHold ==
  ASSUME NEW n \in Nat
  PROVE  /\ Words(n) \in Nat /\ Words(n) * Bpw >= n /\ Words(n) * Bpw < n + Bpw
         /\ Words(n) = 0 => n = 0
         /\ n = 0 => Words(n) = 0
<1> USE SpiGeniAssumption
<1>1. n + Bpw - 1 \in Nat
  OBVIOUS
<1>2. /\ Words(n) \in Nat /\ (n + Bpw - 1) % Bpw \in 0 .. Bpw - 1
      /\ n + Bpw - 1 = Words(n) * Bpw + ((n + Bpw - 1) % Bpw)
  BY <1>1, Remainder DEF Words
<1>3. Words(n) * Bpw \in Nat
  BY <1>2
<1>4. Words(n) * Bpw >= n /\ Words(n) * Bpw < n + Bpw
  BY <1>2, <1>3
<1>5. Words(n) = 0 => n = 0
  BY <1>4
<1>6. n = 0 => Words(n) = 0
  BY <1>4, <1>2, Factor
<1> QED
  BY <1>2, <1>4, <1>5, <1>6

\* w words and the part of one hold n bytes in w words.
LEMMA WordsOf ==
  ASSUME NEW n \in Nat, NEW w \in Nat, n <= w * Bpw, n + Bpw > w * Bpw
  PROVE  Words(n) = w
<1> USE SpiGeniAssumption
<1>1. /\ Words(n) \in Nat /\ Words(n) * Bpw >= n /\ Words(n) * Bpw < n + Bpw
  BY WordsHold
<1>2. w * Bpw \in Nat /\ Words(n) * Bpw \in Nat
  BY <1>1
<1>3. Words(n) <= w
  BY <1>1, <1>2, Factor
<1>4. w <= Words(n)
  BY <1>1, <1>2, Factor
<1> QED
  BY <1>1, <1>3, <1>4

\* No more bytes need no more words.
LEMMA WordsGrow ==
  ASSUME NEW n \in Nat, NEW w \in Nat, n <= w * Bpw
  PROVE  Words(n) <= w
<1> USE SpiGeniAssumption
<1>1. Words(n) \in Nat /\ Words(n) * Bpw < n + Bpw
  BY WordsHold
<1>2. w * Bpw \in Nat /\ Words(n) * Bpw \in Nat
  BY <1>1
<1> QED
  BY <1>1, <1>2, Factor

\* Full words taken away.
LEMMA WordsLess ==
  ASSUME NEW n \in Nat, NEW w \in Nat, n >= w * Bpw
  PROVE  Words(n) = w + Words(n - w * Bpw)
<1> USE SpiGeniAssumption
<1> DEFINE k == Words(n - w * Bpw)
<1>1. w * Bpw \in Nat /\ n - w * Bpw \in Nat
  OBVIOUS
<1>2. k \in Nat /\ k * Bpw >= n - w * Bpw /\ k * Bpw < n - w * Bpw + Bpw
  BY <1>1, WordsHold
<1>3. k * Bpw \in Nat
  BY <1>2
<1> HIDE DEF k
<1>4. w + k \in Nat /\ (w + k) * Bpw = w * Bpw + k * Bpw
  BY <1>2
<1>5. n <= (w + k) * Bpw /\ n + Bpw > (w + k) * Bpw
  BY <1>1, <1>2, <1>3, <1>4
<1>6. Words(n) = w + k
  BY <1>4, <1>5, WordsOf
<1> QED
  BY <1>6 DEF k

\* The last word of n bytes holds what its full words leave.
LEMMA WordsLast ==
  ASSUME NEW n \in Nat, n > 0
  PROVE  (Words(n) - 1) * Bpw + (((n - 1) % Bpw) + 1) = n
<1> USE SpiGeniAssumption
<1> DEFINE q == (n - 1) \div Bpw
           r == (n - 1) % Bpw
<1>1. n - 1 \in Nat
  OBVIOUS
<1>2. q \in Nat /\ r \in 0 .. Bpw - 1 /\ n - 1 = q * Bpw + r
  BY <1>1, Remainder
<1> HIDE DEF q, r
<1>3. q + 1 \in Nat /\ q * Bpw \in Nat /\ (q + 1) * Bpw = q * Bpw + Bpw
  BY <1>2
<1>4. Words(n) = q + 1
  BY <1>2, <1>3, WordsOf
<1>5. (Words(n) - 1) * Bpw = q * Bpw
  BY <1>2, <1>4
<1> QED
  BY <1>2, <1>3, <1>5 DEF r

\* geni_spi_handle_tx takes what the FIFO has room for, and never more.
LEMMA TxTaken ==
  ASSUME Kinds, NEW f \in FifoKind, NEW on \in BOOLEAN, HandleTx(f, on)
  PROVE  /\ txRem' \in Nat /\ fifo' \in FifoKind /\ fifo'.rx = f.rx /\ fifo'.last = f.last
         /\ cur = 0 => txRem' = txRem /\ fifo'.tx = f.tx /\ ~fifo'.wm
         /\ cur # 0 => /\ fifo'.tx + Words(txRem') = f.tx + Words(txRem)
                       /\ fifo'.tx <= f.tx + Depth - 1
                       /\ fifo'.wm => on /\ txRem' # 0
<1> USE SpiGeniAssumption
<1> DEFINE n == Least(Room, txRem)
<1>1. CASE cur = 0
  BY <1>1 DEF HandleTx, FifoKind, Kinds
<1>2. CASE cur # 0
  <2>1. /\ Room \in Nat /\ txRem \in Nat /\ n \in Nat /\ n <= txRem /\ n <= Room
        /\ n = Room \/ n = txRem
    BY DEF Room, Least, Kinds
  <2>2. Words(n) \in Nat /\ Words(n) <= Depth - 1
    BY <2>1, WordsHold, WordsGrow DEF Room
  <2>3. Words(txRem) = Words(n) + Words(txRem - n)
    <3>1. CASE n = txRem
      <4>1. Words(0) = 0 /\ txRem - n = 0
        BY <2>1, <3>1, WordsHold
      <4> QED
        BY <3>1, <4>1, <2>2
    <3>2. CASE n = Room
      <4>1. Words(txRem) = (Depth - 1) + Words(txRem - Room)
        BY <2>1, <3>2, WordsLess DEF Room
      <4>2. Words(Room) = Depth - 1
        BY <2>1, WordsOf DEF Room
      <4> QED
        BY <3>2, <4>1, <4>2
    <3> QED
      BY <2>1, <3>1, <3>2
  <2>4. txRem' = txRem - n /\ fifo' = [f EXCEPT !.tx = @ + Words(n), !.wm = on /\ n < txRem]
    BY <1>2 DEF HandleTx
  <2> HIDE DEF n
  <2> DEFINE w == f.tx + Words(n)
             more == on /\ n < txRem
  <2>8. w \in Nat /\ more \in BOOLEAN /\ fifo' = [f EXCEPT !.tx = w, !.wm = more]
    BY <2>2, <2>4 DEF FifoKind
  <2> HIDE DEF w, more
  <2>9. fifo' \in FifoKind
    BY <2>8, Zenon DEF FifoKind
  <2>10. fifo'.rx = f.rx /\ fifo'.last = f.last /\ fifo'.tx = w
    BY <2>8 DEF FifoKind
  <2>11. fifo'.wm <=> more
    BY <2>8 DEF FifoKind
  <2>5. /\ fifo' \in FifoKind /\ fifo'.rx = f.rx /\ fifo'.last = f.last
        /\ fifo'.tx = f.tx + Words(n) /\ (fifo'.wm => on /\ n < txRem)
    BY <2>9, <2>10, <2>11 DEF w, more
  <2>6. txRem' \in Nat /\ Words(txRem') \in Nat /\ f.tx \in Nat
    BY <2>1, <2>4, WordsHold DEF FifoKind
  <2>7. Words(txRem) = Words(n) + Words(txRem')
    BY <2>3, <2>4
  <2> QED
    BY <1>2, <2>1, <2>2, <2>4, <2>5, <2>6, <2>7
<1> QED
  BY <1>1, <1>2

\* The bytes in a receive FIFO fill its words, the last one perhaps not.
LEMMA BytesThere ==
  ASSUME NEW f \in FifoKind, f.rx = 0 => f.last = 0,
         NEW n, n = f.rx * Bpw - (IF f.last # 0 THEN Bpw - f.last ELSE 0)
  PROVE  n \in Nat /\ n <= f.rx * Bpw /\ Words(n) = f.rx
<1> USE SpiGeniAssumption
<1>1. f.rx \in Nat /\ f.last \in 0 .. Bpw /\ f.rx * Bpw \in Nat
  BY DEF FifoKind
<1>2. f.rx # 0 => f.rx * Bpw >= Bpw
  BY <1>1
<1>3. n \in Nat /\ n <= f.rx * Bpw /\ n + Bpw > f.rx * Bpw
  <2>1. CASE f.last = 0
    BY <1>1, <2>1
  <2>2. CASE f.last # 0
    <3>1. n = f.rx * Bpw - (Bpw - f.last) /\ f.rx # 0
      BY <2>2
    <3> QED
      BY <1>1, <1>2, <2>2, <3>1
  <2> QED
    BY <2>1, <2>2
<1> QED
  BY <1>1, <1>3, WordsOf

\* The bytes in the receive FIFO.
LEMMA RxThere ==
  ASSUME fifo \in FifoKind, fifo.rx = 0 => fifo.last = 0
  PROVE  RxBytes \in Nat /\ RxBytes <= fifo.rx * Bpw /\ Words(RxBytes) = fifo.rx
BY BytesThere DEF RxBytes

\* geni_spi_handle_rx takes what is in the FIFO, and no more than the transfer asks for.
LEMMA RxTaken ==
  ASSUME Kinds, fifo.rx = 0 => fifo.last = 0, HandleRx
  PROVE  /\ rxRem' \in Nat /\ fifo' \in FifoKind /\ fifo'.tx = fifo.tx /\ fifo'.wm = fifo.wm
         /\ fifo'.rx <= fifo.rx /\ (fifo'.rx = 0 => fifo'.last = 0)
         /\ fifo.last = 0 => fifo'.last = 0
         /\ cur = 0 => rxRem' = rxRem
         /\ cur # 0 => /\ rxRem' <= rxRem
                       /\ rxRem <= RxBytes => rxRem' = 0
                       /\ rxRem > RxBytes => rxRem' = rxRem - RxBytes /\ fifo'.rx = 0
<1> USE SpiGeniAssumption
<1> DEFINE n == Least(RxBytes, rxRem)
<1>1. CASE cur = 0
  <2>1. fifo \in FifoKind /\ rxRem \in Nat
    BY DEF Kinds
  <2>2. fifo' = [fifo EXCEPT !.rx = 0, !.last = 0] /\ rxRem' = rxRem
    BY <1>1 DEF HandleRx
  <2>3. fifo' \in FifoKind
    <3>1. 0 \in Nat /\ 0 \in 0 .. Bpw
      OBVIOUS
    <3> QED
      BY <2>1, <2>2, <3>1, Zenon DEF FifoKind
  <2>4. /\ fifo'.tx = fifo.tx /\ fifo'.wm = fifo.wm /\ fifo'.rx = 0 /\ fifo'.last = 0
        /\ fifo.rx \in Nat
    BY <2>1, <2>2 DEF FifoKind
  <2> QED
    BY <1>1, <2>1, <2>2, <2>3, <2>4
<1>2. CASE cur # 0
  <2>1. RxBytes \in Nat /\ RxBytes <= fifo.rx * Bpw /\ Words(RxBytes) = fifo.rx
    BY RxThere DEF Kinds
  <2>2. fifo.rx \in Nat /\ fifo.rx * Bpw \in Nat /\ rxRem \in Nat
    BY DEF Kinds, FifoKind
  <2>3. n \in Nat /\ n <= rxRem /\ n <= fifo.rx * Bpw
        /\ (rxRem <= RxBytes => n = rxRem) /\ (rxRem > RxBytes => n = RxBytes)
    BY <2>1, <2>2 DEF Least
  <2>4. Words(n) \in Nat /\ Words(n) <= fifo.rx
    BY <2>2, <2>3, WordsHold, WordsGrow
  <2>5. /\ rxRem' = rxRem - n
        /\ fifo' = [fifo EXCEPT !.rx = @ - Words(n), !.last = IF fifo.rx = Words(n) THEN 0 ELSE @]
    BY <1>2 DEF HandleRx
  <2>6. rxRem > RxBytes => Words(n) = fifo.rx
    BY <2>1, <2>3
  <2> HIDE DEF n
  <2> DEFINE w == fifo.rx - Words(n)
             rest == IF fifo.rx = Words(n) THEN 0 ELSE fifo.last
  <2>8. w \in Nat /\ rest \in 0 .. Bpw /\ fifo \in FifoKind
    BY <2>2, <2>4 DEF Kinds, FifoKind
  <2>9. fifo' = [fifo EXCEPT !.rx = w, !.last = rest]
    BY <2>5, <2>8 DEF FifoKind
  <2> HIDE DEF w, rest
  <2>10. fifo' \in FifoKind
    BY <2>8, <2>9, Zenon DEF FifoKind
  <2>11. fifo'.tx = fifo.tx /\ fifo'.wm = fifo.wm /\ fifo'.rx = w /\ fifo'.last = rest
    BY <2>8, <2>9 DEF FifoKind
  <2>7. /\ fifo' \in FifoKind /\ fifo'.tx = fifo.tx /\ fifo'.wm = fifo.wm
        /\ fifo'.rx = fifo.rx - Words(n)
        /\ fifo'.last = IF fifo.rx = Words(n) THEN 0 ELSE fifo.last
    BY <2>10, <2>11 DEF w, rest
  <2> QED
    BY <1>2, <2>1, <2>2, <2>3, <2>4, <2>5, <2>6, <2>7
<1> QED
  BY <1>1, <1>2

-----------------------------------------------------------------------------
(* What a step of the handler meets *)

\* When the handler finds the transfer at its end, the hardware has finished the transfer that
\* cur_xfer is: while one is set up, no bit of an earlier command can be taken for its end, and
\* the counters of a transfer by DMA are not zero.
LEMMA EndIsOwn ==
  ASSUME Facts, isr.pc = "done", AtEnd
  PROVE  cur = ended /\ op.x = 0 /\ pc \in Running
<1> USE SpiGeniAssumption
<1>1. cur # 0 /\ (pc \in Filling \/ pc \in Running)
  BY DEF Facts, Turns, AtEnd
<1>2. pc \notin Filling
  <2> SUFFICES ASSUME pc \in Filling PROVE FALSE
    OBVIOUS
  <2>1. CASE mode = "FIFO"
    <3>1. "DONE" \in isr.m
      BY <2>1 DEF AtEnd
    <3>2. hwMode = "FIFO"
      BY <2>1 DEF Facts, Kinds, Turns, Engines, Filling, Setup
    <3> QED
      BY <3>1, <3>2 DEF Facts, Quiet, Watched, Setup
  <2>2. CASE mode = "DMA"
    <3>1. txRem = 0 /\ rxRem = 0
      BY <2>2 DEF AtEnd
    <3>2. pc \in {"select", "start"} /\ xfer.s.dma
      BY <2>2 DEF Facts, Turns, Engines, Filling, Setup
    <3>3. (xfer.s.tx \/ xfer.s.rx) /\ xfer.s.len > 0
      BY <3>2 DEF Facts, Turns, Filling, Setup
    <3>4. fifo.rx * Bpw \in Nat
      BY DEF Facts, Kinds, FifoKind
    <3> QED
      BY <3>1, <3>2, <3>3, <3>4 DEF Facts, Counts, Budget
  <2> QED
    BY <2>1, <2>2 DEF Facts, Kinds
<1>3. op.x = 0
  <2> SUFFICES ASSUME op.x # 0 PROVE FALSE
    OBVIOUS
  <2>1. mode = hwMode /\ (op.dma <=> hwMode = "DMA") /\ (op.tx \/ op.rx)
    BY <1>1, <1>2 DEF Facts, Turns, Running
  <2>2. CASE mode = "FIFO"
    BY <2>1, <2>2 DEF Facts, Quiet, AtEnd
  <2>3. CASE mode = "DMA"
    BY <2>1, <2>3 DEF Facts, Engines, AtEnd
  <2> QED
    BY <2>2, <2>3 DEF Facts, Kinds
<1> QED
  BY <1>1, <1>2, <1>3 DEF Facts, Turns

-----------------------------------------------------------------------------
(* The invariant is inductive *)

\* Every step keeps the types.
LEMMA KindsStep ==
  ASSUME Kinds, Tail, [Next]_vars
  PROVE  Kinds'
<1> USE SpiGeniAssumption
<1>1. CASE RuntimeSuspend
  <2>1. reg' \in RegKind
    BY <1>1 DEF Kinds, masVars, doneVars, pumpVars, RuntimeSuspend, Unused, Fault, Power,
      RegKind
  <2> QED
    BY <1>1, <2>1 DEF Kinds, masVars, doneVars, pumpVars, RuntimeSuspend, Unused, Fault,
      Power
<1>2. CASE RuntimeResume
  <2>1. reg' \in RegKind
    BY <1>2 DEF Kinds, masVars, doneVars, pumpVars, RuntimeResume, Fault, Power, RegKind,
      LastKind
  <2> QED
    BY <1>2, <2>1 DEF Kinds, masVars, doneVars, pumpVars, RuntimeResume, Fault, Power
<1>3. CASE Suspend
  <2>1. reg' \in RegKind
    BY <1>3 DEF Kinds, masVars, doneVars, pumpVars, Suspend, Unused, Fault, Power, RegKind
  <2> QED
    BY <1>3, <2>1 DEF Kinds, masVars, doneVars, pumpVars, Suspend, Unused, Fault, Power
<1>4. CASE Resume
  <2>1. reg' \in RegKind
    BY <1>4 DEF Kinds, masVars, doneVars, pumpVars, Resume, Fault, Power, RegKind,
      LastKind
  <2> QED
    BY <1>4, <2>1 DEF Kinds, masVars, doneVars, pumpVars, Resume, Fault, Power
<1>5. CASE PrepareMessage
  <2>1. PICK s \in Shapes, d \in Devices :
          /\ xfer' = [x |-> xfer.x + 1, s |-> s, d |-> d]
          /\ IF AbortPending THEN pc' = "idle" /\ UNCHANGED <<abortFailed, last, reg>>
             ELSE pc' = "transfer" /\ abortFailed' = FALSE /\ SetupFifoParams(d)
    BY <1>5 DEF PrepareMessage
  <2>2. xfer' \in XferKind
    BY <1>5, <2>1 DEF Kinds, Phases, Setup, Filling, Running, After, masVars, doneVars,
      pumpVars, PrepareMessage, Pump, XferKind
  <2>3. d.cs \in 0 .. 3 /\ d.high \in BOOLEAN /\ d.phase \in BOOLEAN
    BY DEF Setting
  <2>4. last' \in LastKind
    <3>1. last' = last \/ last' = [last EXCEPT !.cs = d.cs, !.high = d.high, !.phase = d.phase]
      BY <2>1 DEF SetupFifoParams
    <3> QED
      BY <2>3, <3>1, Zenon DEF LastKind, Kinds
  <2>5. reg' \in RegKind
    <3> DEFINE c == IF d.cs # last.cs THEN d.cs ELSE reg.cs
               p == IF d.phase # last.phase THEN d.phase ELSE reg.phase
               v == IF d.high # last.high \/ (d.cs # last.cs /\ d.high)
                    THEN (IF d.high THEN {d.cs} ELSE {}) ELSE reg.inv
    <3>1. reg \in RegKind /\ c \in 0 .. 3 /\ p \in BOOLEAN /\ v \in SUBSET (0 .. 3)
      BY <2>3 DEF Kinds, RegKind
    <3>2. reg' = reg \/ reg' = [reg EXCEPT !.cs = c, !.phase = p, !.inv = v]
      BY <2>1, <3>1 DEF SetupFifoParams, RegKind
    <3> HIDE DEF c, p, v
    <3> QED
      BY <3>1, <3>2, Zenon DEF RegKind
  <2>6. pc' \in Phases /\ abortFailed' \in BOOLEAN
    BY <2>1 DEF Kinds, Phases, After
  <2> QED
    BY <1>5, <2>2, <2>4, <2>5, <2>6 DEF Kinds, Phases, Setup, Filling, Running, After,
      masVars, doneVars, pumpVars, PrepareMessage, Pump
<1>6. CASE TransferOne
  <2>1. pc' \in Phases
    BY <1>6 DEF Kinds, masVars, doneVars, pumpVars, TransferOne, AbortPending, Pump,
      Phases, Setup, Filling, Running, After
  <2>2. abortFailed' \in BOOLEAN
    BY <1>6 DEF Kinds, masVars, doneVars, pumpVars, TransferOne, AbortPending, Pump
  <2>3. sig' \in BOOLEAN
    BY <1>6 DEF Kinds, masVars, doneVars, pumpVars, TransferOne, AbortPending, Pump
  <2> QED
    BY <1>6, <2>1, <2>2, <2>3 DEF Kinds, masVars, doneVars, pumpVars, TransferOne,
      AbortPending, Pump
<1>7. CASE SetClock
  <2>1. pc' \in Phases
    BY <1>7 DEF Kinds, masVars, doneVars, pumpVars, SetClock, Fault, Pump, Phases, Setup,
      Filling, Running, After
  <2>2. faults' \in 0 .. MaxFaults
    BY <1>7 DEF Kinds, masVars, doneVars, pumpVars, SetClock, Fault, Pump
  <2>3. last' \in LastKind
    BY <1>7 DEF Kinds, masVars, doneVars, pumpVars, SetClock, Fault, Pump, LastKind,
      Setting, XferKind
  <2>4. reg' \in RegKind
    BY <1>7 DEF Kinds, masVars, doneVars, pumpVars, SetClock, Fault, Pump, RegKind,
      Setting, XferKind
  <2> QED
    BY <1>7, <2>1, <2>2, <2>3, <2>4 DEF Kinds, masVars, doneVars, pumpVars, SetClock,
      Fault, Pump
<1>8. CASE StartXfer
  <2>1. op' \in OpKind
    BY <1>8, WordsHold DEF Kinds, Phases, Setup, Filling, Running, After, masVars,
      doneVars, pumpVars, StartXfer, Pump, OpKind, XferKind
  <2>2. txRem' \in Nat /\ fifo' \in FifoKind
    <3> DEFINE f == [fifo EXCEPT !.rx = 0, !.last = 0]
    <3>1. f \in FifoKind
      <4>1. fifo \in FifoKind /\ 0 \in Nat /\ 0 \in 0 .. Bpw
        BY DEF Kinds
      <4> QED
        BY <4>1, Zenon DEF FifoKind
    <3>2. HandleTx(f, TRUE) \/ (fifo' = f /\ UNCHANGED txRem)
      BY <1>8 DEF StartXfer
    <3> HIDE DEF f
    <3> QED
      BY <3>1, <3>2, TxTaken DEF Kinds
  <2>3. pc' \in Phases
    BY <1>8 DEF StartXfer, Goes, Phases, Running
  <2> QED
    BY <1>8, <2>1, <2>2, <2>3 DEF Kinds, masVars, doneVars, pumpVars, StartXfer, Pump
<1>9. CASE Cancel
  <2>1. op' \in OpKind
    BY <1>9 DEF Kinds, Phases, Setup, Filling, Running, After, masVars, doneVars,
      pumpVars, Cancel, Pump, NoOp, OpKind
  <2>2. mstat' \in MBits
    BY <1>9 DEF Kinds, Phases, Setup, Filling, Running, After, masVars, doneVars,
      pumpVars, Cancel, MBits
  <2>3. fifo' \in FifoKind
    BY <1>9 DEF Kinds, Phases, Setup, Filling, Running, After, masVars, doneVars,
      pumpVars, Cancel, FifoKind
  <2>4. pc' = "cancel" /\ hx' = cur /\ cur' = 0 /\ cancelDone' = FALSE
    BY <1>9 DEF Cancel, Goes
  <2>5. hx' \in 0 .. MaxXfers /\ cur' \in 0 .. MaxXfers
    BY <2>4 DEF Kinds
  <2>6. pc' \in Phases
    BY <2>4 DEF Phases
  <2> QED
    BY <1>9, <2>1, <2>2, <2>3, <2>4, <2>5, <2>6 DEF Kinds, masVars, doneVars, pumpVars, Cancel,
      Pump
<1>10. CASE Abort
  <2>1. op' \in OpKind
    BY <1>10 DEF Kinds, masVars, doneVars, pumpVars, Abort, Goes, Fault, Pump, OpKind,
      NoOp
  <2>2. pc' \in Phases
    BY <1>10 DEF Kinds, masVars, doneVars, pumpVars, Abort, Goes, Fault, Pump, Phases,
      Setup, Filling, Running, After
  <2>3. mstat' \in MBits
    BY <1>10 DEF Kinds, masVars, doneVars, pumpVars, Abort, Goes, Fault, Pump, MBits
  <2>4. faults' \in 0 .. MaxFaults
    BY <1>10 DEF Kinds, masVars, doneVars, pumpVars, Abort, Goes, Fault, Pump
  <2> QED
    BY <1>10, <2>1, <2>2, <2>3, <2>4 DEF Kinds, masVars, doneVars, pumpVars, Abort, Goes,
      Fault, Pump
<1>11. CASE Aborted
  <2>1. pc' \in Phases
    BY <1>11 DEF Kinds, masVars, doneVars, pumpVars, Aborted, Goes, Fault, Pump, Phases,
      Setup, Filling, Running, After
  <2>2. abortFailed' \in BOOLEAN
    BY <1>11 DEF Kinds, masVars, doneVars, pumpVars, Aborted, Goes, Fault, Pump
  <2>3. faults' \in 0 .. MaxFaults
    BY <1>11 DEF Kinds, masVars, doneVars, pumpVars, Aborted, Goes, Fault, Pump
  <2> QED
    BY <1>11, <2>1, <2>2, <2>3 DEF Kinds, masVars, doneVars, pumpVars, Aborted, Goes,
      Fault, Pump
<1>12. CASE ResetTx
  <2>1. pc' \in Phases
    BY <1>12 DEF Kinds, masVars, doneVars, pumpVars, ResetTx, NeedsTxReset, Pump, Phases,
      Setup, Filling, Running, After
  <2>2. txResetDone' \in BOOLEAN
    BY <1>12 DEF Kinds, masVars, doneVars, pumpVars, ResetTx, NeedsTxReset, Pump
  <2>3. txStat' \in DmaBits
    BY <1>12 DEF Kinds, masVars, doneVars, pumpVars, ResetTx, NeedsTxReset, Pump, DmaBits
  <2> QED
    BY <1>12, <2>1, <2>2, <2>3 DEF Kinds, masVars, doneVars, pumpVars, ResetTx,
      NeedsTxReset, Pump
<1>13. CASE ResetRx
  <2>1. pc' \in Phases
    BY <1>13 DEF Kinds, masVars, doneVars, pumpVars, ResetRx, NeedsRxReset, Pump, Phases,
      Setup, Filling, Running, After
  <2>2. rxResetDone' \in BOOLEAN
    BY <1>13 DEF Kinds, masVars, doneVars, pumpVars, ResetRx, NeedsRxReset, Pump
  <2>3. rxStat' \in DmaBits
    BY <1>13 DEF Kinds, masVars, doneVars, pumpVars, ResetRx, NeedsRxReset, Pump, DmaBits
  <2> QED
    BY <1>13, <2>1, <2>2, <2>3 DEF Kinds, masVars, doneVars, pumpVars, ResetRx,
      NeedsRxReset, Pump
<1>14. CASE IsrReadM
  <2>1. isr' \in IsrKind
    BY <1>14 DEF Kinds, masVars, doneVars, pumpVars, IsrReadM, Isr, IsrKind, IdleIsr,
      Reading, MBits, DmaBits
  <2> QED
    BY <1>14, <2>1 DEF Kinds, masVars, doneVars, pumpVars, IsrReadM, Isr
<1>15. CASE IsrReadDma
  <2>1. isr' \in IsrKind
    BY <1>15 DEF Kinds, masVars, doneVars, pumpVars, IsrReadDma, Isr, IsrKind, IdleIsr,
      Reading, MBits, DmaBits
  <2> QED
    BY <1>15, <2>1 DEF Kinds, masVars, doneVars, pumpVars, IsrReadDma, Isr
<1>16. CASE IsrLock
  <2>1. isr' \in IsrKind
    BY <1>16 DEF Kinds, masVars, doneVars, pumpVars, IsrLock, Isr, IsrKind, Serving
  <2> QED
    BY <1>16, <2>1 DEF Kinds, masVars, doneVars, pumpVars, IsrLock, Isr
<1>17. CASE IsrRx
  <2>1. isr' \in IsrKind
    BY <1>17 DEF Kinds, Phases, Setup, Filling, Running, After, masVars, doneVars,
      pumpVars, IsrRx, Isr, IsrKind, Serving
  <2>2. txRem' \in Nat /\ rxRem' \in Nat /\ fifo' \in FifoKind
    <3>1. CASE mode = "FIFO" /\ MayRead
      BY <1>17, <3>1, RxTaken DEF Kinds, Phases, Setup, Filling, Running, After, masVars,
        doneVars, pumpVars, IsrRx, Tail
    <3>2. CASE ~(mode = "FIFO" /\ MayRead)
      BY <1>17, <3>2 DEF Kinds, Phases, Setup, Filling, Running, After, masVars, doneVars,
        pumpVars, IsrRx
    <3> QED
      BY <3>1, <3>2
  <2>3. txStat' \in DmaBits /\ rxStat' \in DmaBits
    BY <1>17 DEF Kinds, Phases, Setup, Filling, Running, After, masVars, doneVars,
      pumpVars, IsrRx, DmaBits
  <2>4. txResetDone' \in BOOLEAN /\ rxResetDone' \in BOOLEAN
    BY <1>17 DEF Kinds, Phases, Setup, Filling, Running, After, masVars, doneVars,
      pumpVars, IsrRx
  <2> QED
    BY <1>17, <2>1, <2>2, <2>3, <2>4 DEF Kinds, masVars, doneVars, pumpVars, IsrRx, Isr
<1>18. CASE IsrTx
  <2>1. isr' \in IsrKind
    BY <1>18 DEF Kinds, Phases, Setup, Filling, Running, After, masVars, doneVars,
      pumpVars, IsrTx, Isr, IsrKind, Serving
  <2>2. txRem' \in Nat /\ fifo' \in FifoKind
    <3>1. fifo \in FifoKind /\ fifo.wm \in BOOLEAN
      BY DEF Kinds, FifoKind
    <3>2. HandleTx(fifo, fifo.wm) \/ UNCHANGED <<txRem, fifo>>
      BY <1>18 DEF IsrTx
    <3> QED
      BY <3>1, <3>2, TxTaken DEF Kinds
  <2> QED
    BY <1>18, <2>1, <2>2 DEF Kinds, masVars,
      doneVars, pumpVars, IsrTx, Isr
<1>19. CASE IsrDone
  <2>1. isr' \in IsrKind
    BY <1>19 DEF Kinds, masVars, doneVars, pumpVars, IsrDone, AtEnd, Isr, IsrKind, Serving
  <2> QED
    BY <1>19, <2>1 DEF Kinds, masVars, doneVars, pumpVars, IsrDone, AtEnd, Isr
<1>20. CASE IsrForget
  <2>1. isr' \in IsrKind
    BY <1>20 DEF Kinds, masVars, doneVars, pumpVars, IsrForget, Isr, IsrKind, Serving
  <2>2. fifo' \in FifoKind
    BY <1>20 DEF Kinds, masVars, doneVars, pumpVars, IsrForget, Isr, FifoKind
  <2> QED
    BY <1>20, <2>1, <2>2 DEF Kinds, masVars, doneVars, pumpVars, IsrForget, Isr
<1>21. CASE IsrComplete
  <2>1. isr' \in IsrKind
    BY <1>21 DEF Kinds, masVars, doneVars, pumpVars, IsrComplete, Isr, IsrKind, Serving
  <2> QED
    BY <1>21, <2>1 DEF Kinds, masVars, doneVars, pumpVars, IsrComplete, Isr
<1>22. CASE IsrAck
  <2>1. isr' \in IsrKind
    BY <1>22 DEF Kinds, masVars, doneVars, pumpVars, IsrAck, Ack, Isr, IsrKind, IdleIsr,
      MBits, DmaBits
  <2>2. mstat' \in MBits
    BY <1>22 DEF Kinds, masVars, doneVars, pumpVars, IsrAck, Ack, Isr, MBits
  <2> QED
    BY <1>22, <2>1, <2>2 DEF Kinds, masVars, doneVars, pumpVars, IsrAck, Ack, Isr
<1>23. CASE HwWord
  <2>1. op' \in OpKind
    <3>1. op \in OpKind /\ op.left \in Nat
      BY DEF Kinds, OpKind
    <3>2. CASE op.left > 1
      BY <1>23, <3>1, <3>2 DEF HwWord, OpKind
    <3>3. CASE ~(op.left > 1)
      <4>1. op' = NoOp
        BY <1>23, <3>3 DEF HwWord
      <4> QED
        BY <4>1 DEF NoOp, OpKind
    <3> QED
      BY <3>2, <3>3
  <2>2. fifo' \in FifoKind
    <3> DEFINE t == IF op.tx THEN fifo.tx - 1 ELSE fifo.tx
               r == IF op.rx THEN fifo.rx + 1 ELSE fifo.rx
               l == IF op.rx /\ op.left = 1 THEN op.lastBytes ELSE fifo.last
    <3>1. /\ fifo \in FifoKind /\ fifo.tx \in Nat /\ fifo.rx \in Nat /\ fifo.last \in 0 .. Bpw
          /\ op.tx => fifo.tx > 0
      BY <1>23 DEF Kinds, FifoKind, HwWord
    <3>2. op.lastBytes \in 0 .. Bpw
      BY DEF Kinds, OpKind
    <3>3. t \in Nat /\ r \in Nat /\ l \in 0 .. Bpw
      BY <3>1, <3>2
    <3>4. fifo' = [fifo EXCEPT !.tx = t, !.rx = r, !.last = l]
      BY <1>23, <3>1 DEF HwWord, FifoKind
    <3> HIDE DEF t, r, l
    <3> QED
      BY <3>1, <3>3, <3>4, Zenon DEF FifoKind
  <2>3. mstat' \in MBits
    BY <1>23 DEF Kinds, Phases, Setup, Filling, Running, After, masVars, doneVars,
      pumpVars, HwWord, MBits
  <2>4. ended' \in 0 .. MaxXfers
    BY <1>23 DEF Kinds, Phases, Setup, Filling, Running, After, masVars, doneVars,
      pumpVars, HwWord, OpKind
  <2> QED
    BY <1>23, <2>1, <2>2, <2>3, <2>4 DEF Kinds, masVars, doneVars, pumpVars, HwWord, Hw
<1>24. CASE \E tx \in BOOLEAN : HwDma(tx)
  <2>1. PICK tx \in BOOLEAN : HwDma(tx)
    BY <1>24
  <2> DEFINE rest == IF tx THEN op.rx ELSE op.tx
  <2>2. op' \in OpKind
    <3>1. CASE rest
      <4>1. op' = [op EXCEPT !.tx = FALSE] \/ op' = [op EXCEPT !.rx = FALSE]
        BY <2>1, <3>1 DEF HwDma
      <4> QED
        BY <4>1 DEF Kinds, OpKind
    <3>2. CASE ~rest
      <4>1. op' = NoOp
        BY <2>1, <3>2 DEF HwDma
      <4> QED
        BY <4>1 DEF NoOp, OpKind
    <3> QED
      BY <3>1, <3>2
  <2>3. mstat' \in MBits /\ txStat' \in DmaBits /\ rxStat' \in DmaBits
    BY <2>1 DEF Kinds, Phases, Setup, Filling, Running, After, masVars, doneVars,
      pumpVars, HwDma, MBits, DmaBits
  <2>4. ended' \in 0 .. MaxXfers
    BY <2>1 DEF Kinds, Phases, Setup, Filling, Running, After, masVars, doneVars,
      pumpVars, HwDma, OpKind
  <2> QED
    BY <2>1, <2>2, <2>3, <2>4 DEF Kinds, masVars,
      doneVars, pumpVars, HwDma, Hw
<1> USE DEF Kinds, masVars, doneVars, pumpVars
<1>25. CASE SetupLock
  BY <1>25 DEF SetupLock, Goes, hwVars, Phases, Setup, Filling, Running, After
<1>26. CASE ClearRem
  BY <1>26 DEF ClearRem, Goes, Pump, Phases, Setup, Filling, Running, After, XferKind
<1>27. CASE SetCur
  BY <1>27 DEF SetCur, Goes, Pump, Phases, Setup, Filling, Running, After, XferKind
<1>28. CASE SetRem
  BY <1>28 DEF SetRem, Goes, Pump, Phases, Setup, Filling, Running, After, XferKind
<1>29. CASE SetMode
  BY <1>29 DEF SetMode, Goes, Pump, Phases, Setup, Filling, Running, After
<1>30. CASE SelectMode
  BY <1>30 DEF SelectMode, Goes, Pump, Phases, Setup, Filling, Running, After, MBits, DmaBits
<1>31. CASE Finalized
  BY <1>31 DEF Finalized, Goes, Pump, Phases, Setup, Filling, Running, After
<1>32. CASE TimesOut
  BY <1>32 DEF TimesOut, Goes, Fault, Pump, Phases, Setup, Filling, Running, After
<1>33. CASE Cancelled
  BY <1>33 DEF Cancelled, Goes, Pump, Phases, Setup, Filling, Running, After
<1>34. CASE ResetEnds
  BY <1>34 DEF ResetEnds, Goes, Fault, Pump, Phases, Setup, Filling, Running, After
<1>35. CASE HwLevels
  BY <1>35 DEF HwLevels, Hw, Phases, Setup, Filling, Running, After, MBits, DmaBits
<1>36. CASE UNCHANGED vars
  BY <1>36 DEF vars, hwVars
<1> QED
  BY <1>1, <1>2, <1>3, <1>4, <1>5, <1>6, <1>7, <1>8, <1>9, <1>10, <1>11, <1>12, <1>13, <1>14,
    <1>15, <1>16, <1>17, <1>18, <1>19, <1>20, <1>21, <1>22, <1>23, <1>24, <1>25, <1>26, <1>27,
    <1>28, <1>29, <1>30, <1>31, <1>32, <1>33, <1>34, <1>35, <1>36 DEF Next, PumpNext, IsrNext,
    HwNext, Ended

\* Every step keeps a word that is partly filled in the receive FIFO.
LEMMA TailStep ==
  ASSUME Kinds, Tail, [Next]_vars
  PROVE  Tail'
<1> USE SpiGeniAssumption
<1>1. CASE StartXfer
  <2> DEFINE f == [fifo EXCEPT !.rx = 0, !.last = 0]
  <2>1. f \in FifoKind /\ f.last = 0
    <3>1. fifo \in FifoKind /\ 0 \in Nat /\ 0 \in 0 .. Bpw
      BY DEF Kinds
    <3> QED
      BY <3>1 DEF FifoKind
  <2>2. HandleTx(f, TRUE) \/ fifo' = f
    BY <1>1 DEF StartXfer
  <2> HIDE DEF f
  <2>3. fifo'.last = 0
    BY <2>1, <2>2, TxTaken
  <2> QED
    BY <2>3 DEF Tail
<1>2. CASE IsrRx
  <2>1. HandleRx \/ fifo' = fifo
    BY <1>2 DEF IsrRx
  <2> QED
    BY <2>1, RxTaken DEF Tail
<1>3. CASE IsrTx
  <2>1. fifo \in FifoKind /\ fifo.wm \in BOOLEAN
    BY DEF Kinds, FifoKind
  <2>2. HandleTx(fifo, fifo.wm) \/ fifo' = fifo
    BY <1>3 DEF IsrTx
  <2>3. fifo'.rx = fifo.rx /\ fifo'.last = fifo.last
    BY <2>1, <2>2, TxTaken
  <2> QED
    BY <2>3 DEF Tail
<1>4. CASE Cancel \/ IsrForget
  <2>1. fifo'.rx = fifo.rx /\ fifo'.last = fifo.last
    BY <1>4 DEF Cancel, IsrForget, Kinds, FifoKind
  <2> QED
    BY <2>1 DEF Tail
<1>5. CASE HwWord
  <2>1. fifo \in FifoKind /\ fifo.rx \in Nat
    BY DEF Kinds, FifoKind
  <2>2. CASE op.rx
    <3>1. fifo'.rx = fifo.rx + 1
      BY <1>5, <2>1, <2>2 DEF HwWord, FifoKind
    <3> QED
      BY <2>1, <3>1 DEF Tail
  <2>3. CASE ~op.rx
    <3>1. fifo'.rx = fifo.rx /\ fifo'.last = fifo.last
      BY <1>5, <2>1, <2>3 DEF HwWord, FifoKind
    <3> QED
      BY <3>1 DEF Tail
  <2> QED
    BY <2>2, <2>3
<1>6. CASE UNCHANGED fifo
  BY <1>6 DEF Tail
<1>7. PumpNext \/ TimesOut => StartXfer \/ Cancel \/ UNCHANGED fifo
  BY DEF PumpNext, RuntimeResume, Power, PrepareMessage, TransferOne, SetupLock, hwVars, SetClock,
    ClearRem, SetCur, SetRem, SetMode, SelectMode, Finalized, Cancelled, Abort, Aborted, ResetTx,
    ResetRx, ResetEnds, TimesOut, Pump
<1>8. IsrNext => IsrRx \/ IsrTx \/ IsrForget \/ UNCHANGED fifo
  BY DEF IsrNext, IsrReadM, IsrReadDma, IsrLock, IsrDone, IsrComplete, IsrAck, Isr
<1>9. HwNext => HwWord \/ UNCHANGED fifo
  BY DEF HwNext, HwDma, HwLevels, Hw
<1>10. RuntimeSuspend \/ Suspend \/ Resume \/ Ended \/ UNCHANGED vars => UNCHANGED fifo
  BY DEF RuntimeSuspend, Suspend, Resume, Power, Ended, vars, hwVars
<1> QED
  BY <1>1, <1>2, <1>3, <1>4, <1>5, <1>6, <1>7, <1>8, <1>9, <1>10 DEF Next

\* Every step keeps what is known of the registers: what changes is written, and nothing else.
LEMMA SettingsStep ==
  ASSUME Facts, [Next]_vars, ~late'
  PROVE  Settings'
<1> USE SpiGeniAssumption
<1>1. CASE PrepareMessage
  <2>1. PICK s \in Shapes, d \in Devices :
          /\ xfer' = [x |-> xfer.x + 1, s |-> s, d |-> d]
          /\ IF AbortPending THEN pc' = "idle" /\ UNCHANGED <<abortFailed, last, reg>>
             ELSE pc' = "transfer" /\ abortFailed' = FALSE /\ SetupFifoParams(d)
    BY <1>1 DEF PrepareMessage
  <2>2. /\ pc = "idle" /\ power = "on" /\ power' = power /\ system' = system /\ op' = op
        /\ op.x = 0 /\ xfer'.d = d
    BY <1>1, <2>1 DEF Facts, Turns, Running, PrepareMessage, Pump
  <2>3. CASE AbortPending
    BY <2>1, <2>2, <2>3 DEF Facts, Settings, Setup, Filling
  <2>4. CASE ~AbortPending
    <3> DEFINE c == IF d.cs # last.cs THEN d.cs ELSE reg.cs
               p == IF d.phase # last.phase THEN d.phase ELSE reg.phase
               v == IF d.high # last.high \/ (d.cs # last.cs /\ d.high)
                    THEN (IF d.high THEN {d.cs} ELSE {}) ELSE reg.inv
    <3>1. reg \in RegKind /\ last \in LastKind /\ pc' = "transfer"
      BY <2>1, <2>4 DEF Facts, Kinds
    <3>2. /\ d.cs \in 0 .. 3 /\ d.high \in BOOLEAN /\ d.phase \in BOOLEAN
          /\ last.high \in BOOLEAN /\ last.phase \in BOOLEAN
      BY <3>1 DEF Setting, LastKind
    <3>3. c = d.cs /\ p = d.phase /\ v = IF d.high THEN {d.cs} ELSE {}
      BY <3>2 DEF Facts, Settings
    <3>4. reg' = [reg EXCEPT !.cs = c, !.phase = p, !.inv = v]
      BY <2>1, <2>4, <3>1 DEF SetupFifoParams, RegKind
    <3>5. last' = [last EXCEPT !.cs = d.cs, !.high = d.high, !.phase = d.phase]
      BY <2>1, <2>4 DEF SetupFifoParams
    <3>6. /\ last'.cs = d.cs /\ last'.high = d.high /\ last'.phase = d.phase
          /\ last'.hz = last.hz /\ last'.sclk = last.sclk
      BY <3>1, <3>5 DEF LastKind
    <3> HIDE DEF c, p, v
    <3>7. reg'.cs = c /\ reg'.phase = p /\ reg'.inv = v /\ reg'.hz = reg.hz
      BY <3>1, <3>4 DEF RegKind
    <3> QED
      BY <2>2, <3>1, <3>3, <3>6, <3>7 DEF Facts, Settings, Setup, Filling
  <2> QED
    BY <2>3, <2>4
<1>2. CASE SetClock
  <2>1. /\ pc = "clock" /\ pc' \in {"rem", "error"} /\ power' = power /\ system' = system
        /\ xfer' = xfer /\ op' = op /\ op.x = 0 /\ (pc' = "error" => xfer.d.hz # last.hz)
    BY <1>2 DEF Facts, Turns, Running, SetClock, Pump
  <2>2. CASE last' = last /\ reg' = reg
    <3>1. pc' = "rem" => last.hz = xfer.d.hz
      <4>1. SUFFICES ASSUME pc' = "rem", last.hz # xfer.d.hz PROVE FALSE
        OBVIOUS
      <4>2. last' = [last EXCEPT !.hz = xfer.d.hz, !.sclk = xfer.d.hz]
        BY <1>2, <4>1 DEF SetClock
      <4>3. last'.hz = xfer.d.hz
        BY <4>2 DEF Facts, Kinds, LastKind
      <4> QED
        BY <2>2, <4>1, <4>3
    <3> QED
      BY <2>1, <2>2, <3>1 DEF Facts, Settings, Setup, Filling
  <2>3. CASE /\ last' = [last EXCEPT !.hz = xfer.d.hz, !.sclk = xfer.d.hz]
             /\ reg' = [reg EXCEPT !.hz = xfer.d.hz]
    <3>1. /\ last'.hz = xfer.d.hz /\ last'.sclk = xfer.d.hz /\ last'.cs = last.cs
          /\ last'.high = last.high /\ last'.phase = last.phase
      BY <2>3 DEF Facts, Kinds, LastKind
    <3>2. reg'.hz = xfer.d.hz /\ reg'.cs = reg.cs /\ reg'.phase = reg.phase /\ reg'.inv = reg.inv
      BY <2>3 DEF Facts, Kinds, RegKind
    <3> QED
      BY <2>1, <3>1, <3>2 DEF Facts, Settings, Setup, Filling
  <2> QED
    BY <1>2, <2>2, <2>3 DEF SetClock
<1> USE DEF Facts, Kinds, Settings, Turns, LastKind, RegKind, XferKind, Setting, Serving,
  Reading, Filling, Setup, Running, After, masVars, doneVars, pumpVars
<1>3. CASE RuntimeSuspend
  BY <1>3 DEF RuntimeSuspend, Unused, Fault, Power
<1>4. CASE RuntimeResume
  BY <1>4 DEF RuntimeResume, Fault, Power
<1>5. CASE Suspend
  BY <1>5 DEF Suspend, Unused, Fault, Power
<1>6. CASE Resume
  BY <1>6 DEF Resume, Fault, Power
<1>7. CASE TransferOne
  BY <1>7 DEF TransferOne, AbortPending, Pump
<1>8. CASE SetupLock
  BY <1>8 DEF SetupLock, Goes, hwVars
<1>9. CASE ClearRem
  BY <1>9 DEF ClearRem, Goes, Pump
<1>10. CASE SetCur
  BY <1>10 DEF SetCur, Goes, Pump
<1>11. CASE SetRem
  BY <1>11 DEF SetRem, Goes, Pump
<1>12. CASE SetMode
  BY <1>12 DEF SetMode, Goes, Pump
<1>13. CASE SelectMode
  BY <1>13 DEF SelectMode, Goes, Pump
<1>14. CASE StartXfer
  BY <1>14 DEF StartXfer, Goes, Pump, HandleTx
<1>15. CASE Finalized
  BY <1>15 DEF Finalized, Goes, Pump
<1>16. CASE TimesOut
  BY <1>16 DEF TimesOut, Goes, Fault, Pump
<1>17. CASE Cancel
  BY <1>17 DEF Cancel, Goes, Pump, NoOp
<1>18. CASE Cancelled
  BY <1>18 DEF Cancelled, Goes, Pump
<1>19. CASE Abort
  BY <1>19 DEF Abort, Goes, Fault, Pump, NoOp
<1>20. CASE Aborted
  BY <1>20 DEF Aborted, Goes, Fault, Pump
<1>21. CASE ResetTx
  BY <1>21 DEF ResetTx, NeedsTxReset, Pump
<1>22. CASE ResetRx
  BY <1>22 DEF ResetRx, NeedsRxReset, Pump
<1>23. CASE ResetEnds
  BY <1>23 DEF ResetEnds, Goes, Fault, Pump
<1>24. CASE IsrReadM
  BY <1>24 DEF IsrReadM, Isr
<1>25. CASE IsrReadDma
  BY <1>25 DEF IsrReadDma, Isr
<1>26. CASE IsrLock
  BY <1>26 DEF IsrLock, Isr
<1>27. CASE IsrRx
  BY <1>27 DEF IsrRx, HandleRx, MayRead, Isr
<1>28. CASE IsrTx
  BY <1>28 DEF IsrTx, HandleTx, Isr
<1>29. CASE IsrDone
  BY <1>29 DEF IsrDone, AtEnd, Isr
<1>30. CASE IsrForget
  BY <1>30 DEF IsrForget, Isr
<1>31. CASE IsrComplete
  BY <1>31 DEF IsrComplete, Isr
<1>32. CASE IsrAck
  BY <1>32 DEF IsrAck, Ack, Isr
<1>33. CASE HwWord
  BY <1>33 DEF HwWord, Hw
<1>34. CASE \E tx \in BOOLEAN : HwDma(tx)
  BY <1>34 DEF HwDma, Hw
<1>35. CASE HwLevels
  BY <1>35 DEF HwLevels, Hw
<1>36. CASE UNCHANGED vars
  BY <1>36 DEF vars, hwVars
<1> QED
  BY <1>1, <1>2, <1>3, <1>4, <1>5, <1>6, <1>7, <1>8, <1>9, <1>10, <1>11, <1>12, <1>13, <1>14,
    <1>15, <1>16, <1>17, <1>18, <1>19, <1>20, <1>21, <1>22, <1>23, <1>24, <1>25, <1>26, <1>27,
    <1>28, <1>29, <1>30, <1>31, <1>32, <1>33, <1>34, <1>35, <1>36 DEF Next, PumpNext, IsrNext,
    HwNext, Ended

\* Every step keeps the turns of the pump, the handler and the hardware.
LEMMA TurnsStep ==
  ASSUME Facts, [Next]_vars, ~late'
  PROVE  Turns'
<1> USE SpiGeniAssumption
<1>1. CASE StartXfer
  <2>1. /\ op' = [x |-> xfer.x, tx |-> xfer.s.tx, rx |-> xfer.s.rx, dma |-> mode = "DMA",
                  left |-> Words(xfer.s.len), lastBytes |-> ((xfer.s.len - 1) % Bpw) + 1]
        /\ pc = "start" /\ pc' = "wait"
    BY <1>1 DEF StartXfer, Goes
  <2>2. /\ xfer.s \in Shapes /\ xfer.s.len \in Nat /\ xfer.s.len > 0
        /\ xfer.s.tx \in BOOLEAN /\ xfer.s.rx \in BOOLEAN
    BY <2>1 DEF Facts, Turns, Setup, Filling
  <2>3. op'.left > 0
    BY <2>1, <2>2, WordsHold
  <2>4. op'.lastBytes \in 1 .. Bpw
    <3>1. xfer.s.len - 1 \in Nat
      BY <2>2
    <3>2. (xfer.s.len - 1) % Bpw \in 0 .. Bpw - 1
      BY <3>1, Remainder
    <3> QED
      BY <2>1, <3>2
  <2>5. op'.tx \/ op'.rx
    BY <2>1, <2>2
  <2>6. op'.x = xfer.x /\ op'.tx = xfer.s.tx /\ op'.rx = xfer.s.rx /\ (op'.dma <=> mode = "DMA")
    BY <2>1
  <2> QED
    BY <1>1, <2>3, <2>4, <2>5, <2>6 DEF StartXfer, Pump, Goes, Facts, Turns, Serving, Reading,
      Filling, Setup, Running, After, masVars, doneVars, pumpVars, StartXfer, Goes, Pump,
      HandleTx
<1>2. CASE IsrDone
  <2>1. CASE AtEnd
    <3>1. cur = ended /\ op.x = 0 /\ pc \in Running
      BY <1>2, <2>1, EndIsOwn DEF IsrDone
    <3> QED
      BY <1>2, <2>1, <3>1 DEF Facts, Turns, Serving, Reading, Filling, Setup, Running, After,
        masVars, doneVars, pumpVars, IsrDone, AtEnd, Isr, Kinds, IsrKind
  <2>2. CASE ~AtEnd
    BY <1>2, <2>2 DEF Facts, Turns, Serving, Reading, Filling, Setup, Running, After, masVars,
      doneVars, pumpVars, IsrDone, Isr, Kinds, IsrKind
  <2> QED
    BY <2>1, <2>2
<1> USE DEF Facts, Turns, Serving, Reading, Filling, Setup, Running, After, masVars, doneVars,
  pumpVars
<1>3. CASE RuntimeSuspend
  BY <1>3 DEF RuntimeSuspend, Unused, Fault, Power
<1>4. CASE RuntimeResume
  BY <1>4 DEF RuntimeResume, Fault, Power
<1>5. CASE Suspend
  BY <1>5 DEF Suspend, Unused, Fault, Power
<1>6. CASE Resume
  BY <1>6 DEF Resume, Fault, Power
<1>7. CASE PrepareMessage
  BY <1>7 DEF PrepareMessage, AbortPending, SetupFifoParams, Pump, Kinds, XferKind
<1>8. CASE TransferOne
  BY <1>8 DEF TransferOne, AbortPending, Pump
<1>9. CASE SetupLock
  BY <1>9 DEF SetupLock, Goes, hwVars
<1>10. CASE SetClock
  BY <1>10 DEF SetClock, Fault, Pump
<1>11. CASE ClearRem
  BY <1>11 DEF ClearRem, Goes, Pump
<1>12. CASE SetCur
  BY <1>12 DEF SetCur, Goes, Pump
<1>13. CASE SetRem
  BY <1>13 DEF SetRem, Goes, Pump
<1>14. CASE SetMode
  BY <1>14 DEF SetMode, Goes, Pump
<1>15. CASE SelectMode
  BY <1>15 DEF SelectMode, Goes, Pump
<1>16. CASE Finalized
  BY <1>16 DEF Finalized, Goes, Pump
<1>17. CASE TimesOut
  BY <1>17 DEF TimesOut, Goes, Fault, Pump
<1>18. CASE Cancel
  BY <1>18 DEF Cancel, Goes, Pump, NoOp
<1>19. CASE Cancelled
  BY <1>19 DEF Cancelled, Goes, Pump
<1>20. CASE Abort
  BY <1>20 DEF Abort, Goes, Fault, Pump, NoOp
<1>21. CASE Aborted
  BY <1>21 DEF Aborted, Goes, Fault, Pump
<1>22. CASE ResetTx
  BY <1>22 DEF ResetTx, NeedsTxReset, Pump
<1>23. CASE ResetRx
  BY <1>23 DEF ResetRx, NeedsRxReset, Pump
<1>24. CASE ResetEnds
  BY <1>24 DEF ResetEnds, Goes, Fault, Pump
<1>25. CASE IsrReadM
  BY <1>25 DEF IsrReadM, Isr, IdleIsr, Kinds, IsrKind
<1>26. CASE IsrReadDma
  BY <1>26 DEF IsrReadDma, Isr, IdleIsr, Kinds, IsrKind
<1>27. CASE IsrLock
  BY <1>27 DEF IsrLock, Isr, Kinds, IsrKind
<1>28. CASE IsrRx
  BY <1>28 DEF IsrRx, HandleRx, MayRead, Isr, Kinds, IsrKind
<1>29. CASE IsrTx
  BY <1>29 DEF IsrTx, HandleTx, Isr, Kinds, IsrKind
<1>30. CASE IsrForget
  BY <1>30 DEF IsrForget, Isr, Kinds, IsrKind
<1>31. CASE IsrComplete
  BY <1>31 DEF IsrComplete, Isr, Kinds, IsrKind
<1>32. CASE IsrAck
  BY <1>32 DEF IsrAck, Ack, Isr, IdleIsr, Kinds, IsrKind
<1>33. CASE HwWord
  BY <1>33 DEF HwWord, Hw, NoOp, Kinds, OpKind
<1>34. CASE \E tx \in BOOLEAN : HwDma(tx)
  BY <1>34 DEF HwDma, Hw, NoOp, Kinds, OpKind
<1>35. CASE HwLevels
  BY <1>35 DEF HwLevels, Hw
<1>36. CASE UNCHANGED vars
  BY <1>36 DEF vars, hwVars
<1> QED
  BY <1>1, <1>2, <1>3, <1>4, <1>5, <1>6, <1>7, <1>8, <1>9, <1>10, <1>11, <1>12, <1>13, <1>14,
    <1>15, <1>16, <1>17, <1>18, <1>19, <1>20, <1>21, <1>22, <1>23, <1>24, <1>25, <1>26, <1>27,
    <1>28, <1>29, <1>30, <1>31, <1>32, <1>33, <1>34, <1>35, <1>36 DEF Next, PumpNext, IsrNext,
    HwNext, Ended

\* Every step keeps the transfers apart: no interrupt of one is left for the next.
LEMMA QuietStep ==
  ASSUME Facts, [Next]_vars, ~late'
  PROVE  Quiet'
<1> USE SpiGeniAssumption
<1>1. CASE SelectMode
  <2>1. /\ mstat' = {} /\ hwMode' = mode /\ isr' = isr /\ pc = "select" /\ pc' = "start"
        /\ op' = op /\ op.x = 0
    BY <1>1 DEF SelectMode, Goes, Pump, Facts, Turns, Running
  <2>2. isr.m \cap Watched' = {}
    <3>1. CASE hwMode = "FIFO"
      BY <2>1, <3>1 DEF Facts, Quiet, Watched, Setup, Filling
    <3>2. CASE hwMode = "DMA"
      <4>1. isr.m = {}
        BY <2>1, <3>2 DEF Facts, Engines, Turns, IdleIsr, Setup, Filling
      <4> QED
        BY <4>1
    <3> QED
      BY <3>1, <3>2 DEF Facts, Kinds
  <2> QED
    BY <2>1, <2>2 DEF Facts, Quiet, Setup, Filling, Running, After
<1>2. CASE IsrDone
  <2>1. CASE AtEnd
    <3>1. cur = ended /\ op.x = 0 /\ pc \in Running /\ isr.pc = "done"
      BY <1>2, <2>1, EndIsOwn DEF IsrDone
    <3>2. mstat \cap Watched \subseteq isr.m
      <4>1. mstat \cap {"CANCEL", "ABORT"} = {} /\ mode = hwMode
        BY <3>1 DEF Facts, Quiet, Turns, Running
      <4>2. CASE hwMode = "FIFO"
        <5>1. "DONE" \in isr.m /\ cur # 0
          BY <2>1, <4>1, <4>2 DEF AtEnd
        <5>2. "TX_WATERMARK" \in mstat => "TX_WATERMARK" \in isr.m
          BY <3>1, <4>2, <5>1 DEF Facts, Counts
        <5> QED
          BY <4>1, <4>2, <5>1, <5>2 DEF Watched
      <4>3. CASE hwMode # "FIFO"
        BY <4>1, <4>3 DEF Watched
      <4> QED
        BY <4>2, <4>3
    <3>3. /\ isr' = [isr EXCEPT !.pc = "forget"] /\ isr'.pc = "forget" /\ isr'.m = isr.m
          /\ mstat' = mstat /\ hwMode' = hwMode /\ pc' = pc /\ op' = op
      BY <1>2, <2>1 DEF IsrDone, Isr, pumpVars, Facts, Kinds, IsrKind
    <3> QED
      BY <3>1, <3>2, <3>3 DEF Facts, Quiet, Watched, Calm, Serving, Reading, Setup, Filling,
        Running, After
  <2>2. CASE ~AtEnd
    BY <1>2, <2>2 DEF Facts, Quiet, Turns, Kinds, IsrKind, Watched, Calm, Serving, Reading,
      Filling, Setup, Running, After, masVars, doneVars, pumpVars, IsrDone, Isr
  <2> QED
    BY <2>1, <2>2
<1>3. CASE HwLevels
  <2>1. /\ mstat' = mstat \cup (IF fifo.wm /\ fifo.tx = 0 THEN {"TX_WATERMARK"} ELSE {})
                          \cup (IF fifo.rx >= Depth - 2 THEN {"RX_WATERMARK"} ELSE {})
        /\ isr' = isr /\ hwMode' = hwMode /\ pc' = pc /\ op' = op /\ sig' = sig
        /\ cancelDone' = cancelDone /\ abortDone' = abortDone /\ abortFailed' = abortFailed
    BY <1>3 DEF HwLevels, Hw, masVars, pumpVars, doneVars
  <2>2. fifo.wm => pc \in Running /\ cur # 0 /\ isr.pc # "forget"
    BY DEF Facts, Counts, AllMoved
  <2>3. CASE fifo.wm
    BY <2>1, <2>2, <2>3 DEF Facts, Turns, Quiet, Watched, Calm, Serving, Reading, Filling, Setup,
      Running, After, masVars, doneVars, pumpVars
  <2>4. CASE ~fifo.wm
    BY <2>1, <2>4 DEF Facts, Quiet, Watched, Calm, Serving, Reading, Filling, Setup, Running,
      After, masVars, doneVars, pumpVars
  <2> QED
    BY <2>3, <2>4
<1> USE DEF Facts, Quiet, Turns, Watched, Calm, Serving, Reading, Filling, Setup, Running, After,
  masVars, doneVars, pumpVars
<1>4. CASE RuntimeSuspend
  BY <1>4 DEF RuntimeSuspend, Unused, Fault, Power
<1>5. CASE RuntimeResume
  BY <1>5 DEF RuntimeResume, Fault, Power
<1>6. CASE Suspend
  BY <1>6 DEF Suspend, Unused, Fault, Power
<1>7. CASE Resume
  BY <1>7 DEF Resume, Fault, Power
<1>8. CASE PrepareMessage
  BY <1>8 DEF PrepareMessage, AbortPending, SetupFifoParams, Pump, Enabled
<1>9. CASE TransferOne
  BY <1>9 DEF TransferOne, AbortPending, Pump
<1>10. CASE SetupLock
  BY <1>10 DEF SetupLock, Goes, hwVars, IdleIsr, Kinds, IsrKind
<1>11. CASE SetClock
  BY <1>11 DEF SetClock, Fault, Pump
<1>12. CASE ClearRem
  BY <1>12 DEF ClearRem, Goes, Pump
<1>13. CASE SetCur
  BY <1>13 DEF SetCur, Goes, Pump
<1>14. CASE SetRem
  BY <1>14 DEF SetRem, Goes, Pump
<1>15. CASE SetMode
  BY <1>15 DEF SetMode, Goes, Pump
<1>16. CASE StartXfer
  BY <1>16 DEF StartXfer, Goes, Pump, HandleTx
<1>17. CASE Finalized
  BY <1>17 DEF Finalized, Goes, Pump
<1>18. CASE TimesOut
  BY <1>18 DEF TimesOut, Goes, Fault, Pump
<1>19. CASE Cancel
  BY <1>19 DEF Cancel, Goes, Pump, NoOp
<1>20. CASE Cancelled
  BY <1>20 DEF Cancelled, Goes, Pump
<1>21. CASE Abort
  BY <1>21 DEF Abort, Goes, Fault, Pump, NoOp
<1>22. CASE Aborted
  BY <1>22 DEF Aborted, Goes, Fault, Pump
<1>23. CASE ResetTx
  BY <1>23 DEF ResetTx, NeedsTxReset, Pump
<1>24. CASE ResetRx
  BY <1>24 DEF ResetRx, NeedsRxReset, Pump
<1>25. CASE ResetEnds
  BY <1>25 DEF ResetEnds, Goes, Fault, Pump
<1>26. CASE IsrReadM
  BY <1>26 DEF IsrReadM, Isr, IdleIsr, Kinds, IsrKind
<1>27. CASE IsrReadDma
  BY <1>27 DEF IsrReadDma, Isr, IdleIsr, Kinds, IsrKind
<1>28. CASE IsrLock
  BY <1>28 DEF IsrLock, Isr, Kinds, IsrKind
<1>29. CASE IsrRx
  BY <1>29 DEF IsrRx, HandleRx, MayRead, Isr, Kinds, IsrKind
<1>30. CASE IsrTx
  BY <1>30 DEF IsrTx, HandleTx, Isr, Kinds, IsrKind
<1>31. CASE IsrForget
  BY <1>31 DEF IsrForget, Isr, Kinds, IsrKind
<1>32. CASE IsrComplete
  BY <1>32 DEF IsrComplete, Isr, Kinds, IsrKind
<1>33. CASE IsrAck
  BY <1>33 DEF IsrAck, Ack, Isr, IdleIsr, Kinds, IsrKind
<1>34. CASE HwWord
  BY <1>34 DEF HwWord, Hw, NoOp, Kinds, OpKind
<1>35. CASE \E tx \in BOOLEAN : HwDma(tx)
  BY <1>35 DEF HwDma, Hw, NoOp, Kinds, OpKind
<1>36. CASE UNCHANGED vars
  BY <1>36 DEF vars, hwVars
<1> QED
  BY <1>1, <1>2, <1>3, <1>4, <1>5, <1>6, <1>7, <1>8, <1>9, <1>10, <1>11, <1>12, <1>13, <1>14,
    <1>15, <1>16, <1>17, <1>18, <1>19, <1>20, <1>21, <1>22, <1>23, <1>24, <1>25, <1>26, <1>27,
    <1>28, <1>29, <1>30, <1>31, <1>32, <1>33, <1>34, <1>35, <1>36 DEF Next, PumpNext, IsrNext,
    HwNext, Ended

\* Every step keeps the DMA engines apart likewise.
LEMMA EnginesStep ==
  ASSUME Facts, [Next]_vars, ~late'
  PROVE  Engines'
<1> USE SpiGeniAssumption
<1>1. CASE SetupLock
  <2>1. hwMode = "DMA" => isr.pc = "off"
    <3>1. isr.pc \in {"off"} \cup Reading /\ pc = "setup"
      BY <1>1 DEF SetupLock, Goes, Facts, Turns, Kinds, IsrKind
    <3>2. txStat = {} /\ rxStat = {}
      <4>1. "RESET" \notin txStat /\ "RESET" \notin rxStat
        BY <1>1 DEF SetupLock
      <4> QED
        BY <3>1, <4>1 DEF Facts, Engines, TxOpen, RxOpen, Running
    <3>3. hwMode = "DMA" => Enabled = {}
      BY <3>1 DEF Facts, Quiet, Calm, Watched, Enabled, Serving, Reading
    <3>4. hwMode = "DMA" => isr.pc \notin Reading
      BY <3>1, <3>2, <3>3 DEF Facts, Engines, Interrupts
    <3> QED
      BY <3>1, <3>4
  <2> QED
    BY <1>1, <2>1 DEF Facts, Engines, Turns, TxOpen, RxOpen, NeedsTxReset, NeedsRxReset,
      Interrupts, Enabled, Serving, Reading, Filling, Setup, Running, After, masVars, doneVars,
      pumpVars, SetupLock, Goes, hwVars
<1>2. CASE StartXfer
  <2>1. /\ op' = [x |-> xfer.x, tx |-> xfer.s.tx, rx |-> xfer.s.rx, dma |-> mode = "DMA",
                  left |-> Words(xfer.s.len), lastBytes |-> ((xfer.s.len - 1) % Bpw) + 1]
        /\ pc = "start" /\ pc' = "wait" /\ isr.pc \notin Serving /\ mode = hwMode
    BY <1>2 DEF StartXfer, Goes, Facts, Turns
  <2>2. op'.tx = xfer.s.tx /\ op'.rx = xfer.s.rx /\ (op'.dma <=> hwMode = "DMA")
    BY <2>1
  <2>3. txStat = {} /\ rxStat = {}
    BY <2>1 DEF Facts, Engines, TxOpen, RxOpen, Running
  <2>4. isr.tx = {} /\ isr.rx = {}
    BY <2>1 DEF Facts, Engines, TxOpen, RxOpen, Running, Turns, IdleIsr, Kinds, IsrKind, Reading
  <2>5. hwMode = "DMA" => (xfer.s.tx => txRem' # 0) /\ (xfer.s.rx => rxRem' # 0)
    <3>1. SUFFICES ASSUME hwMode = "DMA"
                  PROVE  (xfer.s.tx => txRem' # 0) /\ (xfer.s.rx => rxRem' # 0)
      OBVIOUS
    <3>2. txRem' = txRem /\ rxRem' = rxRem
      BY <1>2, <2>1, <3>1 DEF StartXfer, Pump
    <3>3. xfer.s.dma /\ xfer.s.len > 0 /\ fifo.rx * Bpw \in Nat
      BY <2>1, <3>1 DEF Facts, Turns, Setup, Filling, Kinds, FifoKind
    <3> QED
      BY <2>1, <3>2, <3>3 DEF Facts, Counts, Budget
  <2>6. isr' = isr /\ txStat' = txStat /\ rxStat' = rxStat /\ hwMode' = hwMode /\ ~sig'
    BY <1>2, <2>1 DEF StartXfer, Pump, Facts, Turns, Setup, Filling
  <2> QED
    BY <2>1, <2>2, <2>3, <2>4, <2>5, <2>6 DEF Engines, Setup, Filling
<1>3. CASE IsrReadM
  <2>1. hwMode = "DMA" => pc \notin Setup \ {"start"}
    <3> SUFFICES ASSUME hwMode = "DMA", pc \in Setup \ {"start"} PROVE FALSE
      OBVIOUS
    <3>1. Interrupts
      BY <1>3 DEF IsrReadM
    <3>2. txStat = {} /\ rxStat = {}
      BY DEF Facts, Engines, TxOpen, RxOpen, Running, Setup, Filling
    <3>3. Enabled = {}
      BY DEF Facts, Quiet, Watched, Enabled
    <3> QED
      BY <3>1, <3>2, <3>3 DEF Interrupts
  <2> QED
    BY <1>3, <2>1 DEF Facts, Engines, Turns, TxOpen, RxOpen, NeedsTxReset, NeedsRxReset,
      Interrupts, Enabled, Serving, Reading, Filling, Setup, Running, After, masVars, doneVars,
      pumpVars, IsrReadM, Isr, IdleIsr
<1>4. CASE IsrRx
  <2>1. /\ isr.pc = "rx" /\ isr' = [isr EXCEPT !.pc = "tx"] /\ isr'.pc = "tx" /\ isr'.tx = isr.tx
        /\ isr'.rx = isr.rx /\ pc' = pc /\ mode' = mode /\ hwMode' = hwMode /\ cur' = cur
        /\ hx' = hx /\ xfer' = xfer /\ op' = op /\ sig' = sig
    BY <1>4 DEF IsrRx, Isr, pumpVars, Facts, Kinds, IsrKind
  <2>2. CASE mode = "FIFO"
    <3>1. /\ txStat' = txStat /\ rxStat' = rxStat
          /\ txResetDone' = txResetDone /\ rxResetDone' = rxResetDone
      BY <1>4, <2>2 DEF IsrRx
    <3>2. txStat = {} /\ rxStat = {}
      BY <2>2 DEF Facts, Engines, TxOpen, RxOpen, NeedsTxReset, NeedsRxReset, Turns, Running
    <3>3. ~(op.x # 0 /\ op.dma)
      BY <2>2 DEF Facts, Turns, Running
    <3> QED
      BY <2>1, <3>1, <3>2, <3>3 DEF Facts, Engines, Reading, Setup, Filling
  <2>3. CASE mode = "DMA"
    <3>1. /\ txStat' = txStat \ isr.tx /\ rxStat' = rxStat \ isr.rx
          /\ txRem' = (IF "DONE" \in isr.tx THEN 0 ELSE txRem)
          /\ rxRem' = (IF "DONE" \in isr.rx THEN 0 ELSE rxRem)
          /\ txResetDone' = (txResetDone \/ "RESET" \in isr.tx)
          /\ rxResetDone' = (rxResetDone \/ "RESET" \in isr.rx)
      BY <1>4, <2>3 DEF IsrRx
    <3>2. txStat' # {} => TxOpen'
      <4> SUFFICES ASSUME txStat' # {} PROVE TxOpen'
        OBVIOUS
      <4>1. TxOpen /\ "RESET" \notin isr.tx
        BY <2>1, <3>1 DEF Facts, Engines
      <4>2. CASE "RESET" \in txStat
        BY <3>1, <4>1, <4>2 DEF TxOpen
      <4>3. CASE "RESET" \notin txStat
        <5>1. "DONE" \notin isr.tx
          BY <3>1, <4>3 DEF Facts, Kinds, DmaBits
        <5> QED
          BY <2>1, <3>1, <4>1, <4>3, <5>1 DEF TxOpen, NeedsTxReset, Running, Facts, Kinds
      <4> QED
        BY <4>2, <4>3
    <3>3. rxStat' # {} => RxOpen'
      <4> SUFFICES ASSUME rxStat' # {} PROVE RxOpen'
        OBVIOUS
      <4>1. RxOpen /\ "RESET" \notin isr.rx
        BY <2>1, <3>1 DEF Facts, Engines
      <4>2. CASE "RESET" \in rxStat
        BY <3>1, <4>1, <4>2 DEF RxOpen
      <4>3. CASE "RESET" \notin rxStat
        <5>1. "DONE" \notin isr.rx
          BY <3>1, <4>3 DEF Facts, Kinds, DmaBits
        <5> QED
          BY <2>1, <3>1, <4>1, <4>3, <5>1 DEF RxOpen, NeedsRxReset, Running, Facts, Kinds
      <4> QED
        BY <4>2, <4>3
    <3> QED
      BY <2>1, <3>1, <3>2, <3>3 DEF Facts, Engines, Reading, Setup, Filling
  <2> QED
    BY <2>2, <2>3 DEF Facts, Kinds
<1> USE DEF Facts, Engines, Turns, TxOpen, RxOpen, NeedsTxReset, NeedsRxReset, Interrupts,
  Enabled, Serving, Reading, Filling, Setup, Running, After, masVars, doneVars, pumpVars
<1>5. CASE RuntimeSuspend
  BY <1>5 DEF RuntimeSuspend, Unused, Fault, Power
<1>6. CASE RuntimeResume
  BY <1>6 DEF RuntimeResume, Fault, Power
<1>7. CASE Suspend
  BY <1>7 DEF Suspend, Unused, Fault, Power
<1>8. CASE Resume
  BY <1>8 DEF Resume, Fault, Power
<1>9. CASE PrepareMessage
  BY <1>9 DEF PrepareMessage, AbortPending, SetupFifoParams, Pump
<1>10. CASE TransferOne
  BY <1>10 DEF TransferOne, AbortPending, Pump
<1>11. CASE SetClock
  BY <1>11 DEF SetClock, Fault, Pump
<1>12. CASE ClearRem
  BY <1>12 DEF ClearRem, Goes, Pump
<1>13. CASE SetCur
  BY <1>13 DEF SetCur, Goes, Pump
<1>14. CASE SetRem
  BY <1>14 DEF SetRem, Goes, Pump
<1>15. CASE SetMode
  BY <1>15 DEF SetMode, Goes, Pump
<1>16. CASE SelectMode
  BY <1>16 DEF SelectMode, Goes, Pump
<1>17. CASE Finalized
  BY <1>17 DEF Finalized, Goes, Pump
<1>18. CASE TimesOut
  BY <1>18 DEF TimesOut, Goes, Fault, Pump
<1>19. CASE Cancel
  BY <1>19 DEF Cancel, Goes, Pump, NoOp
<1>20. CASE Cancelled
  BY <1>20 DEF Cancelled, Goes, Pump
<1>21. CASE Abort
  BY <1>21 DEF Abort, Goes, Fault, Pump, NoOp
<1>22. CASE Aborted
  BY <1>22 DEF Aborted, Goes, Fault, Pump
<1>23. CASE ResetTx
  BY <1>23 DEF ResetTx, Pump
<1>24. CASE ResetRx
  BY <1>24 DEF ResetRx, Pump
<1>25. CASE ResetEnds
  BY <1>25 DEF ResetEnds, Goes, Fault, Pump
<1>26. CASE IsrReadDma
  BY <1>26 DEF IsrReadDma, Isr, IdleIsr, Kinds, IsrKind
<1>27. CASE IsrLock
  BY <1>27 DEF IsrLock, Isr, Kinds, IsrKind
<1>28. CASE IsrTx
  BY <1>28 DEF IsrTx, HandleTx, Isr, Kinds, IsrKind
<1>29. CASE IsrDone
  BY <1>29 DEF IsrDone, AtEnd, Isr, Kinds, IsrKind
<1>30. CASE IsrForget
  BY <1>30 DEF IsrForget, Isr, Kinds, IsrKind
<1>31. CASE IsrComplete
  BY <1>31 DEF IsrComplete, Isr, Kinds, IsrKind
<1>32. CASE IsrAck
  BY <1>32 DEF IsrAck, Ack, Isr, IdleIsr, Kinds, IsrKind
<1>33. CASE HwWord
  BY <1>33 DEF HwWord, Hw, NoOp, Kinds, OpKind
<1>34. CASE \E tx \in BOOLEAN : HwDma(tx)
  BY <1>34 DEF HwDma, Hw, NoOp, Kinds, OpKind
<1>35. CASE HwLevels
  BY <1>35 DEF HwLevels, Hw
<1>36. CASE UNCHANGED vars
  BY <1>36 DEF vars, hwVars
<1> QED
  BY <1>1, <1>2, <1>3, <1>4, <1>5, <1>6, <1>7, <1>8, <1>9, <1>10, <1>11, <1>12, <1>13, <1>14,
    <1>15, <1>16, <1>17, <1>18, <1>19, <1>20, <1>21, <1>22, <1>23, <1>24, <1>25, <1>26, <1>27,
    <1>28, <1>29, <1>30, <1>31, <1>32, <1>33, <1>34, <1>35, <1>36 DEF Next, PumpNext, IsrNext,
    HwNext, Ended

\* Every step keeps the account of words and bytes.
LEMMA CountsStep ==
  ASSUME Facts, [Next]_vars, ~late'
  PROVE  Counts'
<1> USE SpiGeniAssumption
<1>1. CASE SetRem
  <2>1. /\ pc = "lens" /\ pc' = "mode" /\ xfer' = xfer /\ fifo' = fifo /\ op' = op /\ op.x = 0
        /\ txRem' = (IF xfer.s.tx THEN xfer.s.len ELSE 0)
        /\ rxRem' = (IF xfer.s.rx THEN xfer.s.len ELSE 0)
        /\ isr' = isr /\ cur' = cur /\ mstat' = mstat
    BY <1>1 DEF SetRem, Goes, Pump, Facts, Turns, Running
  <2>2. xfer.s.dma => xfer.s.len > fifo.rx * Bpw
    <3>1. fifo.rx \in Nat /\ fifo.rx <= Depth /\ xfer.s \in Shapes
      BY <2>1 DEF Facts, Kinds, FifoKind, Counts, Turns
    <3>2. fifo.rx * Bpw <= Depth * Bpw /\ fifo.rx * Bpw \in Nat /\ Depth * Bpw \in Nat
      BY <3>1
    <3>3. xfer.s.dma => xfer.s.len > Depth * Bpw /\ xfer.s.len \in Nat
      BY <3>1 DEF CanDma
    <3> QED
      BY <3>2, <3>3
  <2>3. xfer.s.len \in Nat /\ isr.pc # "forget" /\ ~fifo.wm
    BY <2>1 DEF Facts, Turns, Counts, Running, Setup, Filling
  <2> QED
    BY <2>1, <2>2, <2>3 DEF Facts, Counts, Budget, AllMoved, Running
<1>2. CASE StartXfer
  <2> DEFINE f == [fifo EXCEPT !.rx = 0, !.last = 0]
  <2>1. /\ op' = [x |-> xfer.x, tx |-> xfer.s.tx, rx |-> xfer.s.rx, dma |-> mode = "DMA",
                  left |-> Words(xfer.s.len), lastBytes |-> ((xfer.s.len - 1) % Bpw) + 1]
        /\ pc = "start" /\ pc' = "wait" /\ isr.pc \notin Serving /\ mode = hwMode
        /\ hwMode' = hwMode /\ isr' = isr /\ cur' = cur /\ mstat' = mstat /\ rxRem' = rxRem
    BY <1>2 DEF StartXfer, Goes, Pump, Facts, Turns
  <2>2. /\ f \in FifoKind /\ f.tx = fifo.tx /\ f.rx = 0 /\ f.last = 0 /\ f.wm = fifo.wm
    <3>1. fifo \in FifoKind /\ 0 \in Nat /\ 0 \in 0 .. Bpw
      BY DEF Facts, Kinds
    <3>2. f \in FifoKind
      BY <3>1, Zenon DEF FifoKind
    <3> QED
      BY <3>1, <3>2 DEF FifoKind
  <2>3. /\ xfer.s \in Shapes /\ xfer.s.len \in Nat /\ xfer.s.len > 0 /\ cur = xfer.x /\ op.x = 0
        /\ xfer.s.tx \in BOOLEAN /\ xfer.s.rx \in BOOLEAN /\ isr.pc # "forget"
    BY <2>1 DEF Facts, Turns, Setup, Filling, Running
  <2>4. /\ txRem = (IF xfer.s.tx THEN xfer.s.len ELSE 0)
        /\ rxRem \in Nat /\ (IF xfer.s.rx THEN rxRem <= xfer.s.len ELSE rxRem = 0)
        /\ fifo.tx = 0 /\ ~fifo.wm
    BY <2>1, <2>3 DEF Facts, Counts, Budget, Kinds, Running, FifoKind
  <2>5. /\ op'.x = xfer.x /\ op'.tx = xfer.s.tx /\ op'.rx = xfer.s.rx /\ (op'.dma <=> mode = "DMA")
        /\ op'.left = Words(xfer.s.len) /\ op'.lastBytes = ((xfer.s.len - 1) % Bpw) + 1
    BY <2>1
  <2>6. Bytes' = xfer.s.len /\ Bytes' \in Nat
    <3>1. Bytes' = (Words(xfer.s.len) - 1) * Bpw + (((xfer.s.len - 1) % Bpw) + 1)
      BY <2>5 DEF Bytes
    <3> QED
      BY <2>3, <3>1, WordsLast
  <2>7. CASE mode = "FIFO" /\ xfer.s.tx
    <3>1. HandleTx(f, TRUE)
      BY <1>2, <2>7 DEF StartXfer
    <3> HIDE DEF f
    <3>2. /\ txRem' \in Nat /\ fifo' \in FifoKind /\ fifo'.rx = 0 /\ fifo'.last = 0
          /\ cur = 0 => txRem' = txRem /\ fifo'.tx = 0 /\ ~fifo'.wm
          /\ cur # 0 => /\ fifo'.tx + Words(txRem') = 0 + Words(txRem)
                        /\ fifo'.tx <= 0 + Depth - 1
                        /\ fifo'.wm => txRem' # 0
      BY <2>2, <2>4, <3>1, TxTaken DEF Facts
    <3>3. cur # 0 => fifo'.tx + Words(txRem') = Words(xfer.s.len)
      BY <2>4, <2>7, <2>3, <3>2, WordsHold
    <3>4. fifo'.tx \in Nat /\ fifo'.rx * Bpw = 0
      BY <3>2 DEF FifoKind
    <3>5. fifo'.tx <= Depth /\ (xfer.x = 0 => cur = 0)
      BY <2>3, <3>2, <3>4
    <3>6. xfer.x # 0
      BY <2>1 DEF Facts, Turns
    <3>7. (mstat \cup isr.m) \cap {"TX_WATERMARK"} = {}
      BY <2>1, <2>7 DEF Facts, Quiet, Watched, Setup, Filling
    <3> QED
      BY <2>1, <2>3, <2>4, <2>5, <2>6, <2>7, <3>2, <3>3, <3>4, <3>5, <3>6, <3>7 DEF Counts,
        Budget, AllMoved, Running
  <2>8. CASE ~(mode = "FIFO" /\ xfer.s.tx)
    <3>1. fifo' = f /\ txRem' = txRem
      BY <1>2, <2>8 DEF StartXfer
    <3> HIDE DEF f
    <3>2. fifo'.rx * Bpw = 0
      BY <2>2, <3>1
    <3>7. hwMode = "FIFO" => (mstat \cup isr.m) \cap {"TX_WATERMARK"} = {}
      BY <2>1 DEF Facts, Quiet, Watched, Setup, Filling
    <3>8. xfer.x # 0
      BY <2>1 DEF Facts, Turns
    <3> QED
      BY <2>1, <2>2, <2>3, <2>4, <2>5, <2>6, <2>8, <3>1, <3>2, <3>7, <3>8 DEF Counts, Budget,
        AllMoved, Running
  <2> QED
    BY <2>7, <2>8
<1>3. CASE IsrRx
  <2>1. /\ isr.pc = "rx" /\ isr' = [isr EXCEPT !.pc = "tx"] /\ isr'.pc = "tx" /\ isr'.m = isr.m
        /\ pc' = pc /\ mode' = mode /\ hwMode' = hwMode /\ cur' = cur /\ xfer' = xfer /\ op' = op
        /\ mstat' = mstat
    BY <1>3 DEF IsrRx, Isr, pumpVars, Facts, Kinds, IsrKind
  <2>2. CASE mode = "DMA"
    <3>1. /\ fifo' = fifo /\ txRem' = (IF "DONE" \in isr.tx THEN 0 ELSE txRem)
          /\ rxRem' = (IF "DONE" \in isr.rx THEN 0 ELSE rxRem)
      BY <1>3, <2>2 DEF IsrRx
    <3>2. pc \in {"mode", "select", "start"} => isr.tx = {} /\ isr.rx = {}
      BY <2>1 DEF Facts, Engines, TxOpen, RxOpen, Running
    <3>3. (pc \in Running => hwMode = "DMA") /\ (op.x # 0 => pc \in Running)
      BY <2>2 DEF Facts, Turns, Running
    <3> QED
      BY <2>1, <3>1, <3>2, <3>3 DEF Facts, Counts, Budget, AllMoved
  <2>3. CASE mode = "FIFO" /\ ~MayRead
    <3>1. fifo' = fifo /\ txRem' = txRem /\ rxRem' = rxRem
      BY <1>3, <2>3 DEF IsrRx
    <3>2. "RX_LAST" \notin isr.m
      BY <2>3 DEF MayRead
    <3> QED
      BY <2>1, <3>1, <3>2 DEF Facts, Counts, Budget, AllMoved, Bytes, RxBytes, Serving
  <2>4. CASE mode = "FIFO" /\ MayRead
    <3>1. /\ rxRem' \in Nat /\ fifo' \in FifoKind /\ fifo'.tx = fifo.tx /\ fifo'.wm = fifo.wm
          /\ fifo'.rx <= fifo.rx /\ (fifo'.rx = 0 => fifo'.last = 0)
          /\ fifo.last = 0 => fifo'.last = 0
          /\ cur = 0 => rxRem' = rxRem
          /\ cur # 0 => /\ rxRem' <= rxRem
                        /\ rxRem <= RxBytes => rxRem' = 0
                        /\ rxRem > RxBytes => rxRem' = rxRem - RxBytes /\ fifo'.rx = 0
      BY <1>3, <2>4, RxTaken DEF IsrRx, Facts, Tail
    <3>2. /\ RxBytes \in Nat /\ RxBytes <= fifo.rx * Bpw /\ fifo.rx \in Nat /\ fifo.rx * Bpw \in Nat
          /\ rxRem \in Nat /\ fifo'.rx \in Nat /\ fifo'.rx * Bpw \in Nat
          /\ (fifo'.rx = 0 => fifo'.rx * Bpw = 0)
      BY <3>1, RxThere DEF Facts, Kinds, Tail, FifoKind
    <3>3. RxBytes' \in Nat
      BY <3>1, BytesThere DEF RxBytes
    <3>4. txRem' = txRem
      BY <1>3, <2>4 DEF IsrRx
    <3>5. Budget'
      <4> SUFFICES ASSUME pc \in {"mode", "select", "start"} PROVE Budget'
        BY <2>1 DEF Budget
      <4>1. cur # 0
        BY DEF Facts, Turns, Filling
      <4>2. /\ txRem = (IF xfer.s.tx THEN xfer.s.len ELSE 0) /\ xfer.s.len \in Nat
            /\ IF xfer.s.rx THEN rxRem <= xfer.s.len ELSE rxRem = 0
            /\ xfer.s.rx /\ xfer.s.dma => rxRem > fifo.rx * Bpw
        BY DEF Budget, Facts, Counts, Kinds, XferKind
      <4>3. IF xfer.s.rx THEN rxRem' <= xfer.s.len ELSE rxRem' = 0
        BY <3>1, <3>2, <4>1, <4>2
      <4>4. xfer.s.rx /\ xfer.s.dma => rxRem' > fifo'.rx * Bpw
        BY <3>1, <3>2, <4>1, <4>2
      <4> QED
        BY <2>1, <3>4, <4>2, <4>3, <4>4 DEF Budget
    <3>6. hwMode = "FIFO" /\ op.x # 0 =>
            IF op.rx THEN rxRem' <= Bytes' + fifo'.rx * Bpw /\ fifo'.last = 0 ELSE rxRem' = 0
      <4> SUFFICES ASSUME hwMode = "FIFO", op.x # 0
                   PROVE  IF op.rx THEN rxRem' <= Bytes' + fifo'.rx * Bpw /\ fifo'.last = 0
                          ELSE rxRem' = 0
        OBVIOUS
      <4>1. Bytes \in Nat /\ Bytes' = Bytes
        <5>1. op.left \in Nat /\ op.left > 0 /\ op.lastBytes \in Nat
          BY DEF Facts, Turns, Kinds, OpKind
        <5>2. (op.left - 1) * Bpw \in Nat
          BY <5>1
        <5> QED
          BY <2>1, <5>1, <5>2 DEF Bytes
      <4>2. cur # 0
        BY DEF Facts, Turns
      <4>3. CASE op.rx
        <5>1. rxRem <= Bytes + fifo.rx * Bpw /\ fifo.last = 0
          BY <4>3 DEF Facts, Counts
        <5>2. RxBytes = fifo.rx * Bpw
          BY <3>2, <5>1 DEF RxBytes
        <5> QED
          BY <3>1, <3>2, <4>1, <4>2, <4>3, <5>1, <5>2
      <4>4. CASE ~op.rx
        BY <3>1, <3>2, <4>2, <4>4 DEF Facts, Counts
      <4> QED
        BY <4>3, <4>4
    <3>7. hwMode = "FIFO" /\ op.x = 0 /\ pc \in Running /\ cur # 0 => rxRem' = 0
      BY <3>1 DEF Facts, Counts
    <3>8. fifo'.rx <= Depth
      BY <3>1, <3>2 DEF Facts, Counts
    <3> HIDE DEF MayRead
    <3> QED
      BY <2>1, <3>1, <3>3, <3>4, <3>5, <3>6, <3>7, <3>8 DEF Facts, Counts, AllMoved, Serving
  <2> QED
    BY <2>2, <2>3, <2>4 DEF Facts, Kinds
<1>4. CASE IsrTx
  <2>1. /\ isr.pc = "tx" /\ isr' = [isr EXCEPT !.pc = "done"] /\ isr'.pc = "done" /\ isr'.m = isr.m
        /\ pc' = pc /\ mode' = mode /\ hwMode' = hwMode /\ cur' = cur /\ xfer' = xfer /\ op' = op
        /\ mstat' = mstat /\ rxRem' = rxRem
    BY <1>4 DEF IsrTx, Isr, pumpVars, Facts, Kinds, IsrKind
  <2>2. CASE mode = "FIFO" /\ "TX_WATERMARK" \in isr.m
    <3>1. HandleTx(fifo, fifo.wm) /\ fifo \in FifoKind /\ fifo.wm \in BOOLEAN
      BY <1>4, <2>2 DEF IsrTx, Facts, Kinds, FifoKind
    <3>2. /\ txRem' \in Nat /\ fifo' \in FifoKind /\ fifo'.rx = fifo.rx /\ fifo'.last = fifo.last
          /\ cur = 0 => txRem' = txRem /\ fifo'.tx = fifo.tx /\ ~fifo'.wm
          /\ cur # 0 => /\ fifo'.tx + Words(txRem') = fifo.tx + Words(txRem)
                        /\ fifo'.tx <= fifo.tx + Depth - 1
                        /\ fifo'.wm => fifo.wm /\ txRem' # 0
      BY <3>1, TxTaken DEF Facts
    <3>3. RxBytes' = RxBytes /\ Bytes' = Bytes
      BY <2>1, <3>2 DEF RxBytes, Bytes
    <3>4. CASE cur = 0
      <4>1. pc \notin Filling /\ op.x = 0
        BY <2>1, <3>4 DEF Facts, Turns, Filling
      <4> QED
        BY <2>1, <3>2, <3>3, <3>4, <4>1 DEF Facts, Counts, Budget, AllMoved, Filling
    <3>5. CASE cur # 0
      <4>1. pc \in Running /\ hwMode = "FIFO"
        <5>1. pc \in Filling \/ pc \in Running
          BY <2>1, <3>5 DEF Facts, Turns
        <5>2. pc \in Filling => hwMode = "FIFO"
          BY <2>1, <2>2 DEF Facts, Kinds, Turns, Engines, Setup, Filling
        <5>3. pc \notin Filling
          BY <2>2, <5>2 DEF Facts, Quiet, Watched, Setup
        <5> QED
          BY <2>2, <5>1, <5>3 DEF Facts, Turns, Running
      <4>2. fifo.wm /\ fifo.tx = 0 /\ txRem # 0
        BY <2>1, <2>2, <3>5, <4>1 DEF Facts, Counts
      <4>3. op.x # 0 /\ op.tx /\ ~op.dma
        BY <3>5, <4>1, <4>2 DEF Facts, Counts, Turns
      <4>4. fifo'.tx \in Nat /\ fifo'.tx <= Depth
        BY <3>2, <3>5, <4>2 DEF FifoKind
      <4> QED
        BY <2>1, <2>2, <3>2, <3>3, <3>5, <4>1, <4>2, <4>3, <4>4
        DEF Facts, Counts, Budget, AllMoved, Serving, Running
    <3> QED
      BY <3>4, <3>5
  <2>3. CASE ~(mode = "FIFO" /\ "TX_WATERMARK" \in isr.m)
    <3>1. fifo' = fifo /\ txRem' = txRem
      BY <1>4, <2>3 DEF IsrTx
    <3>2. RxBytes' = RxBytes /\ Bytes' = Bytes
      BY <2>1, <3>1 DEF RxBytes, Bytes
    <3> QED
      BY <2>1, <3>1, <3>2 DEF Facts, Counts, Budget, AllMoved, Serving
  <2> QED
    BY <2>2, <2>3
<1>5. CASE IsrDone
  <2>1. /\ isr.pc = "done" /\ isr'.m = isr.m /\ isr'.pc = IF AtEnd THEN "forget" ELSE "complete"
        /\ pc' = pc /\ mode' = mode /\ hwMode' = hwMode /\ cur' = cur /\ xfer' = xfer /\ op' = op
        /\ mstat' = mstat /\ rxRem' = rxRem /\ txRem' = txRem /\ fifo' = fifo
    BY <1>5 DEF IsrDone, Isr, pumpVars, Facts, Kinds, IsrKind
  <2>2. AtEnd => txRem = 0 /\ rxRem = 0
    <3> SUFFICES ASSUME AtEnd PROVE txRem = 0 /\ rxRem = 0
      OBVIOUS
    <3>1. op.x = 0 /\ pc \in Running /\ mode = hwMode /\ cur # 0
      BY <2>1, EndIsOwn DEF AtEnd, Facts, Turns, Running
    <3>2. CASE mode = "FIFO"
      BY <2>1, <3>1, <3>2 DEF Facts, Counts, AtEnd
    <3>3. CASE mode # "FIFO"
      BY <3>3 DEF AtEnd
    <3> QED
      BY <3>2, <3>3
  <2>3. RxBytes' = RxBytes /\ Bytes' = Bytes
    BY <2>1 DEF RxBytes, Bytes
  <2> HIDE DEF AtEnd
  <2> QED
    BY <2>1, <2>2, <2>3 DEF Facts, Counts, Budget, AllMoved, Serving
<1>6. CASE IsrForget
  <2>1. /\ isr.pc = "forget" /\ isr'.m = isr.m /\ isr'.pc = "complete"
        /\ pc' = pc /\ mode' = mode /\ hwMode' = hwMode /\ cur' = 0 /\ xfer' = xfer /\ op' = op
        /\ mstat' = mstat /\ rxRem' = rxRem /\ txRem' = txRem
    BY <1>6 DEF IsrForget, Isr, pumpVars, Facts, Kinds, IsrKind
  <2>2. ~fifo.wm /\ pc \notin Filling /\ op.x = 0
    BY <2>1 DEF Facts, Counts, AllMoved, Turns, Filling, Running
  <2>3. fifo'.rx = fifo.rx /\ fifo'.last = fifo.last /\ fifo'.tx = fifo.tx /\ ~fifo'.wm
    BY <1>6, <2>2 DEF IsrForget, Facts, Kinds, FifoKind
  <2> QED
    BY <2>1, <2>2, <2>3 DEF Facts, Counts, Budget, AllMoved, Filling
<1>7. CASE IsrAck
  <2>1. /\ isr.pc = "ack" /\ isr'.m = {} /\ isr'.pc = "off"
        /\ pc' = pc /\ mode' = mode /\ hwMode' = hwMode /\ cur' = cur /\ xfer' = xfer /\ op' = op
        /\ mstat' = mstat \ isr.m /\ rxRem' = rxRem /\ txRem' = txRem /\ fifo' = fifo
    BY <1>7 DEF IsrAck, Ack, IdleIsr, Isr, pumpVars
  <2>2. RxBytes' = RxBytes /\ Bytes' = Bytes
    BY <2>1 DEF RxBytes, Bytes
  <2>3. "RX_LAST" \in isr.m => "DONE" \in isr.m
    BY DEF Facts, Quiet
  <2> QED
    BY <2>1, <2>2, <2>3 DEF Facts, Counts, Budget, AllMoved, Serving
<1>8. CASE HwWord
  <2>1. /\ op.x # 0 /\ ~op.dma /\ (op.tx => fifo.tx > 0) /\ (op.rx => fifo.rx < Depth)
        /\ pc' = pc /\ hwMode' = hwMode /\ cur' = cur /\ xfer' = xfer /\ isr' = isr
        /\ rxRem' = rxRem /\ txRem' = txRem
    BY <1>8 DEF HwWord, Hw, masVars, pumpVars
  <2>2. /\ cur # 0 /\ pc \in Running /\ hwMode = "FIFO" /\ isr.pc # "forget"
        /\ op.left \in Nat /\ op.left > 0 /\ op.lastBytes \in 1 .. Bpw
        /\ fifo.tx \in Nat /\ fifo.rx \in Nat /\ txRem \in Nat /\ rxRem \in Nat
        /\ op.tx \in BOOLEAN /\ op.rx \in BOOLEAN
    BY <2>1 DEF Facts, Turns, Kinds, OpKind, FifoKind
  <2>3. /\ fifo'.tx = (IF op.tx THEN fifo.tx - 1 ELSE fifo.tx)
        /\ fifo'.rx = (IF op.rx THEN fifo.rx + 1 ELSE fifo.rx)
        /\ fifo'.last = (IF op.rx /\ op.left = 1 THEN op.lastBytes ELSE fifo.last)
        /\ fifo'.wm = fifo.wm
    BY <1>8 DEF HwWord, Facts, Kinds, FifoKind
  <2>4. /\ IF op.tx THEN fifo.tx + Words(txRem) = op.left ELSE txRem = 0
        /\ IF op.rx THEN rxRem <= Bytes + fifo.rx * Bpw /\ fifo.last = 0 ELSE rxRem = 0
    BY <2>1, <2>2 DEF Facts, Counts
  <2>5. /\ (fifo.rx + 1) * Bpw = fifo.rx * Bpw + Bpw /\ fifo.rx * Bpw \in Nat
        /\ Words(txRem) \in Nat /\ (Words(txRem) = 0 => txRem = 0)
    BY <2>2, WordsHold
  <2>6. fifo.tx # 0 => op.tx
    BY DEF Facts, Counts
  <2>7. fifo'.rx <= Depth /\ fifo'.tx <= Depth
    BY <2>1, <2>2, <2>3 DEF Facts, Counts
  <2>8. "TX_WATERMARK" \in mstat =>
          (fifo.wm /\ ~op.tx) \/ ("TX_WATERMARK" \in isr.m /\ isr.pc \in Serving \ {"rx", "tx"})
    BY <2>1, <2>2 DEF Facts, Counts
  <2>9. "TX_WATERMARK" \in isr.m /\ isr.pc \in {"dma", "lock", "rx", "tx"} => fifo.wm /\ ~op.tx
    BY <2>1, <2>2 DEF Facts, Counts
  <2>10. fifo.wm => op.tx
    BY <2>4 DEF Facts, Counts
  <2>11. CASE op.left > 1
    <3>1. op' = [op EXCEPT !.left = @ - 1] /\ mstat' = mstat
      BY <1>8, <2>11 DEF HwWord
    <3>2. /\ op'.left = op.left - 1 /\ op'.x = op.x /\ op'.tx = op.tx /\ op'.rx = op.rx
          /\ op'.dma = op.dma /\ op'.lastBytes = op.lastBytes
      BY <3>1 DEF Facts, Kinds, OpKind
    <3>3. op.rx => rxRem <= Bytes' + fifo'.rx * Bpw /\ fifo'.last = 0
      <4> SUFFICES ASSUME op.rx PROVE rxRem <= Bytes' + fifo'.rx * Bpw /\ fifo'.last = 0
        OBVIOUS
      <4>1. Bytes' = (op.left - 2) * Bpw + op.lastBytes
        BY <2>2, <3>2 DEF Bytes
      <4>2. (op.left - 2) * Bpw + Bpw = (op.left - 1) * Bpw
        BY <2>2, <2>11
      <4>3. (op.left - 2) * Bpw \in Int /\ (op.left - 1) * Bpw \in Int
        BY <2>2
      <4> QED
        BY <2>2, <2>3, <2>4, <2>5, <2>11, <4>1, <4>2, <4>3 DEF Bytes
    <3>4. op.tx => fifo'.tx + Words(txRem) = op'.left
      BY <2>1, <2>2, <2>3, <2>4, <2>5, <3>2
    <3>5. fifo'.tx # 0 => op.tx
      BY <2>3, <2>6
    <3> QED
      BY <2>1, <2>2, <2>3, <2>4, <2>7, <2>8, <2>9, <2>10, <3>1, <3>2, <3>3, <3>4, <3>5
      DEF Facts, Counts, Budget, AllMoved, Running
  <2>12. CASE ~(op.left > 1)
    <3>1. /\ op' = NoOp /\ op.left = 1
          /\ mstat' = mstat \cup {"DONE"} \cup (IF op.rx THEN {"RX_LAST"} ELSE {})
      BY <1>8, <2>2, <2>12 DEF HwWord
    <3>2. op'.x = 0
      BY <3>1 DEF NoOp
    <3>3. txRem = 0 /\ fifo'.tx = 0
      <4>1. CASE op.tx
        <5>1. fifo.tx + Words(txRem) = 1 /\ fifo.tx > 0
          BY <2>1, <2>4, <3>1, <4>1
        <5>2. fifo.tx = 1 /\ Words(txRem) = 0
          BY <2>2, <2>5, <5>1
        <5> QED
          BY <2>3, <2>5, <4>1, <5>2
      <4>2. CASE ~op.tx
        BY <2>3, <2>4, <2>6, <4>2
      <4> QED
        BY <4>1, <4>2
    <3>4. rxRem <= RxBytes'
      <4>1. CASE op.rx
        <5>1. RxBytes' = fifo'.rx * Bpw - (Bpw - op.lastBytes)
          BY <2>2, <2>3, <3>1, <4>1 DEF RxBytes
        <5>2. Bytes = op.lastBytes
          BY <2>2, <3>1 DEF Bytes
        <5> QED
          BY <2>2, <2>3, <2>4, <2>5, <4>1, <5>1, <5>2
      <4>2. CASE ~op.rx
        <5>1. RxBytes' = RxBytes
          BY <2>3, <4>2 DEF RxBytes
        <5>2. RxBytes \in Nat /\ rxRem = 0
          BY <2>4, <4>2, RxThere DEF Facts, Kinds, Tail, Counts
        <5> QED
          BY <5>1, <5>2
      <4> QED
        BY <4>1, <4>2
    <3>5. "DONE" \notin isr.m
      BY <2>1, <2>2 DEF Facts, Quiet
    <3>6. ~fifo.wm
      BY <3>3 DEF Facts, Counts
    <3> QED
      BY <2>1, <2>2, <2>3, <2>4, <2>7, <2>8, <2>9, <3>1, <3>2, <3>3, <3>4, <3>5, <3>6
      DEF Facts, Counts, Budget, AllMoved, Running
  <2> QED
    BY <2>11, <2>12
<1> USE DEF Facts, Counts, Turns, Budget, Bytes, AllMoved, RxBytes, Serving, Reading, Filling,
  Setup, Running, After, masVars, doneVars, pumpVars
<1>9. CASE RuntimeSuspend
  BY <1>9 DEF RuntimeSuspend, Unused, Fault, Power, Words
<1>10. CASE RuntimeResume
  BY <1>10 DEF RuntimeResume, Fault, Power, Words
<1>11. CASE Suspend
  BY <1>11 DEF Suspend, Unused, Fault, Power, Words
<1>12. CASE Resume
  BY <1>12 DEF Resume, Fault, Power, Words
<1>13. CASE PrepareMessage
  BY <1>13 DEF PrepareMessage, AbortPending, SetupFifoParams, Pump, Words
<1>14. CASE TransferOne
  BY <1>14 DEF TransferOne, AbortPending, Pump, Words
<1>15. CASE SetupLock
  BY <1>15 DEF SetupLock, Goes, hwVars, Words
<1>16. CASE SetClock
  BY <1>16 DEF SetClock, Fault, Pump, Words
<1>17. CASE ClearRem
  BY <1>17 DEF ClearRem, Goes, Pump, Words
<1>18. CASE SetCur
  BY <1>18 DEF SetCur, Goes, Pump, Words
<1>19. CASE SetMode
  BY <1>19 DEF SetMode, Goes, Pump, Words
<1>20. CASE SelectMode
  BY <1>20 DEF SelectMode, Goes, Pump, Words
<1>21. CASE Finalized
  BY <1>21 DEF Finalized, Goes, Pump, Words
<1>22. CASE TimesOut
  BY <1>22 DEF TimesOut, Goes, Fault, Pump, Words
<1>23. CASE Cancel
  BY <1>23 DEF Cancel, Goes, Pump, NoOp, Words
<1>24. CASE Cancelled
  BY <1>24 DEF Cancelled, Goes, Pump, Words
<1>25. CASE Abort
  BY <1>25 DEF Abort, Goes, Fault, Pump, NoOp, Words
<1>26. CASE Aborted
  BY <1>26 DEF Aborted, Goes, Fault, Pump, Words
<1>27. CASE ResetTx
  BY <1>27 DEF ResetTx, NeedsTxReset, Pump, Words
<1>28. CASE ResetRx
  BY <1>28 DEF ResetRx, NeedsRxReset, Pump, Words
<1>29. CASE ResetEnds
  BY <1>29 DEF ResetEnds, Goes, Fault, Pump, Words
<1>30. CASE IsrReadM
  BY <1>30 DEF IsrReadM, Isr, IdleIsr, Kinds, IsrKind, Words
<1>31. CASE IsrReadDma
  BY <1>31 DEF IsrReadDma, Isr, IdleIsr, Kinds, IsrKind, Words
<1>32. CASE IsrLock
  BY <1>32 DEF IsrLock, Isr, Kinds, IsrKind, Words
<1>33. CASE IsrComplete
  BY <1>33 DEF IsrComplete, Isr, Kinds, IsrKind, Words
<1>34. CASE \E tx \in BOOLEAN : HwDma(tx)
  BY <1>34 DEF HwDma, Hw, NoOp, Kinds, OpKind, Words
<1>35. CASE HwLevels
  BY <1>35 DEF HwLevels, Hw, Words
<1>36. CASE UNCHANGED vars
  BY <1>36 DEF vars, hwVars, Words
<1> QED
  BY <1>1, <1>2, <1>3, <1>4, <1>5, <1>6, <1>7, <1>8, <1>9, <1>10, <1>11, <1>12, <1>13, <1>14,
    <1>15, <1>16, <1>17, <1>18, <1>19, <1>20, <1>21, <1>22, <1>23, <1>24, <1>25, <1>26, <1>27,
    <1>28, <1>29, <1>30, <1>31, <1>32, <1>33, <1>34, <1>35, <1>36 DEF Next, PumpNext, IsrNext,
    HwNext, Ended

\* The invariant holds at the start.
LEMMA Start == Init => Facts
<1> SUFFICES ASSUME Init PROVE Facts
  OBVIOUS
<1> USE SpiGeniAssumption DEF Init
<1>1. Kinds
  <2>1. NoXfer \in XferKind
    <3>1. (CHOOSE d \in Devices : TRUE) \in Devices
      OBVIOUS
    <3> QED
      BY <3>1 DEF NoXfer, XferKind
  <2>2. NoOp \in OpKind
    BY DEF NoOp, OpKind
  <2>3. IdleIsr \in IsrKind
    BY DEF IdleIsr, IsrKind, MBits, DmaBits
  <2>4. last \in LastKind
    BY DEF LastKind
  <2>5. reg \in RegKind
    BY DEF RegKind
  <2>6. fifo \in FifoKind
    BY DEF FifoKind
  <2>7. {} \in MBits /\ {} \in DmaBits
    BY DEF MBits, DmaBits
  <2>8. pc \in Phases
    BY DEF Phases, After
  <2>9. op \in OpKind /\ isr \in IsrKind /\ xfer \in XferKind
    BY <2>1, <2>2, <2>3
  <2>10. mstat \in MBits /\ txStat \in DmaBits /\ rxStat \in DmaBits
    BY <2>7
  <2>11. /\ cur \in 0 .. MaxXfers /\ hx \in 0 .. MaxXfers /\ ended \in 0 .. MaxXfers
         /\ txRem \in Nat /\ rxRem \in Nat /\ faults \in 0 .. MaxFaults
    OBVIOUS
  <2>12. /\ abortFailed \in BOOLEAN /\ sig \in BOOLEAN /\ cancelDone \in BOOLEAN
         /\ abortDone \in BOOLEAN /\ txResetDone \in BOOLEAN /\ rxResetDone \in BOOLEAN
    OBVIOUS
  <2>13. /\ mode \in {"FIFO", "DMA"} /\ hwMode \in {"FIFO", "DMA"} /\ lock \in {"none", "isr"}
         /\ power \in {"on", "off", "error"} /\ system \in {"awake", "asleep", "failed"}
    OBVIOUS
  <2> QED
    BY <2>4, <2>5, <2>6, <2>8, <2>9, <2>10, <2>11, <2>12, <2>13, Zenon DEF Kinds
<1>7. Tail
  BY DEF Tail
<1>2. Settings
  BY DEF Settings, Setup, Filling, NoOp
<1>3. Turns
  BY DEF Turns, NoOp, IdleIsr, Serving, Setup, Filling, Running, After
<1>4. Quiet
  BY DEF Quiet, Calm, IdleIsr, NoOp, Serving, Reading, Setup, Filling, Running
<1>5. Engines
  BY DEF Engines, IdleIsr, NoOp, Reading, Setup, Filling
<1>6. Counts
  BY DEF Counts, Budget, AllMoved, IdleIsr, NoOp, Running
<1> QED
  BY <1>1, <1>2, <1>3, <1>4, <1>5, <1>6, <1>7 DEF Facts

\* What has come too late stays so.
LEMMA StaysLate == Kinds /\ late /\ [Next]_vars => late'
<1> SUFFICES ASSUME Kinds, late, [Next]_vars PROVE late'
  OBVIOUS
<1>1. CASE SetupLock
  BY <1>1 DEF SetupLock
<1>2. CASE UNCHANGED late
  BY <1>2
<1>3. PumpNext \/ TimesOut => SetupLock \/ UNCHANGED late
  BY DEF PumpNext, RuntimeResume, Power, PrepareMessage, TransferOne, SetClock, ClearRem, SetCur,
    SetRem, SetMode, SelectMode, StartXfer, Finalized, Cancel, Cancelled, Abort, Aborted, ResetTx,
    ResetRx, ResetEnds, TimesOut, Pump
<1>4. IsrNext => UNCHANGED late
  BY DEF IsrNext, IsrReadM, IsrReadDma, IsrLock, IsrRx, IsrTx, IsrDone, IsrForget, IsrComplete,
    IsrAck, Isr
<1>5. HwNext => UNCHANGED late
  BY DEF HwNext, HwWord, HwDma, HwLevels, Hw
<1>6. RuntimeSuspend \/ Suspend \/ Resume \/ Ended \/ UNCHANGED vars => UNCHANGED late
  BY DEF RuntimeSuspend, Suspend, Resume, Power, Ended, vars
<1> QED
  BY <1>1, <1>2, <1>3, <1>4, <1>5, <1>6 DEF Next

\* The invariant holds in every reachable state.
THEOREM Invariance == Spec => []IInv
<1>1. Init => IInv
  BY Start DEF IInv, Facts
<1>2. IInv /\ [Next]_vars => IInv'
  <2> SUFFICES ASSUME IInv, [Next]_vars PROVE IInv'
    OBVIOUS
  <2>1. Kinds' /\ Tail'
    BY KindsStep, TailStep DEF IInv
  <2>2. ASSUME ~late' PROVE Facts'
    <3>1. Facts
      BY <2>2, StaysLate DEF IInv
    <3>2. Settings' /\ Turns' /\ Quiet' /\ Engines' /\ Counts'
      BY <2>2, <3>1, SettingsStep, TurnsStep, QuietStep, EnginesStep, CountsStep
    <3> QED
      BY <2>1, <3>2 DEF Facts
  <2> QED
    BY <2>1, <2>2 DEF IInv
<1> QED
  BY <1>1, <1>2, PTL DEF Spec

\* The variables have their types.
THEOREM TypesCorrect == Spec => []TypeOK
<1>1. IInv => TypeOK
  <2> SUFFICES ASSUME IInv PROVE TypeOK
    OBVIOUS
  <2>1. /\ isr.pc \in {"off"} \cup Serving \cup Reading /\ isr.m \in MBits
        /\ isr.tx \in DmaBits /\ isr.rx \in DmaBits
    BY DEF IInv, Kinds, IsrKind
  <2>2. /\ fifo.tx \in Nat /\ fifo.rx \in Nat /\ fifo.last \in 0 .. Bpw /\ fifo.wm \in BOOLEAN
        /\ op.x \in 0 .. MaxXfers /\ op.left \in Nat /\ xfer.x \in 0 .. MaxXfers
    BY DEF IInv, Kinds, FifoKind, OpKind, XferKind
  <2> QED
    BY <2>1, <2>2
    DEF IInv, Kinds, TypeOK, MBits, DmaBits, Serving, Reading, Phases, Setup,
      Filling, Running, After
<1> QED
  BY <1>1, Invariance, PTL

\* The handler finalizes a transfer only when the hardware has finished that very transfer: no
\* interrupt of an earlier command, read before the lock was taken, ends a later one, unless the
\* transfer was set up with the interrupt of a DMA reset still to be served.
THEOREM FinalizesItsOwn == Spec => []FinalizeOwn
<1>1. IInv => FinalizeOwn
  BY DEF IInv, Facts, Turns, FinalizeOwn, EndsOwn
<1> QED
  BY <1>1, Invariance, PTL

\* A finalized transfer has moved every byte, whatever the depth and the width of the FIFOs, with
\* the same exception.
THEOREM MovesEveryByte == Spec => []AllMoved
<1>1. IInv => AllMoved
  BY DEF IInv, Facts, Counts, AllMoved
<1> QED
  BY <1>1, Invariance, PTL

\* The words written never exceed the transmit FIFO, with the same exception.
THEOREM NeverOverflows == Spec => [](late \/ FifoFits)
<1>1. IInv => late \/ FifoFits
  BY DEF IInv, Facts, Counts, FifoFits
<1> QED
  BY <1>1, Invariance, PTL

\* A command that the hardware runs is the pump's, and the bus is set up as its device asked, with
\* the same exception.
THEOREM RunsAsConfigured == Spec => []RunsConfigured
<1>1. IInv => RunsConfigured
  BY DEF IInv, Facts, Settings, Turns, RunsConfigured, Running
<1> QED
  BY <1>1, Invariance, PTL

=============================================================================
