---------------------------- MODULE SpiGsiProofs ----------------------------
(***************************************************************************)
(* Theorems about the SPI controller over the DMA engine (SpiGsi, with     *)
(* Gpi), for every length of the rings and every number of transfers,      *)
(* faults, requests of the channels and pauses: the event tasklet works on *)
(* a descriptor that nobody takes or frees meanwhile, although vc.lock is  *)
(* released for the callback, and an event that has reached the ring is    *)
(* always about to be read.                                                *)
(*                                                                         *)
(* The handlers are sequences of steps (script), so the invariant says of  *)
(* each how far it can have come: which of its steps are left, and what    *)
(* the steps before have established.                                      *)
(***************************************************************************)
EXTENDS SpiGsi, SequenceTheorems, WellFoundedInduction, NaturalsInduction, FiniteSetTheorems, TLAPS

-----------------------------------------------------------------------------
(* Sequences *)

\* What is left of a sequence from its k-th element on.
From(s, k) == SubSeq(s, k, Len(s))

\* One element in front of a sequence.
LEMMA Consed ==
  ASSUME NEW S, NEW a \in S, NEW t \in Seq(S)
  PROVE  /\ <<a>> \o t \in Seq(S) /\ <<a>> \o t # <<>>
         /\ Head(<<a>> \o t) = a /\ Tail(<<a>> \o t) = t
<1>1. <<a>> \in Seq(S) /\ Len(<<a>>) = 1 /\ <<a>>[1] = a
  OBVIOUS
<1> DEFINE u == <<a>> \o t
<1>2. /\ u \in Seq(S) /\ Len(u) = 1 + Len(t) /\ Len(t) \in Nat
      /\ \A i \in 1 .. 1 + Len(t) : u[i] = IF i <= 1 THEN <<a>>[i] ELSE t[i - 1]
  BY <1>1, ConcatProperties, LenProperties
<1> HIDE DEF u
<1>3. u # <<>> /\ Head(u) = a
  BY <1>1, <1>2
<1>4. Tail(u) \in Seq(S) /\ Len(Tail(u)) = Len(t) /\ \A i \in 1 .. Len(t) : Tail(u)[i] = u[i + 1]
  BY <1>2, <1>3, HeadTailProperties
<1>5. \A i \in 1 .. Len(t) : Tail(u)[i] = t[i]
  BY <1>2, <1>4
<1>6. Tail(u) = t
  BY <1>4, <1>5, SeqEqual
<1> QED
  BY <1>2, <1>3, <1>6 DEF u

\* Two elements in front of a sequence.
LEMMA ConsedTwice ==
  ASSUME NEW S, NEW v \in Seq(S), Len(v) = 2, NEW t \in Seq(S)
  PROVE  /\ v \o t # <<>> /\ Head(v \o t) = v[1]
         /\ Tail(v \o t) \in Seq(S) /\ Tail(v \o t) = <<v[2]>> \o t
<1> DEFINE u == v \o t
           w == <<v[2]>> \o t
<1>1. v[1] \in S /\ v[2] \in S /\ Len(t) \in Nat
  <2>1. 1 \in 1 .. Len(v) /\ 2 \in 1 .. Len(v)
    OBVIOUS
  <2> QED
    BY <2>1, LenProperties
<1>2. u \in Seq(S) /\ Len(u) = 2 + Len(t) /\ \A i \in 1 .. 2 + Len(t) : u[i] = IF i <= 2 THEN v[i] ELSE t[i - 2]
  <2>1. /\ u \in Seq(S) /\ Len(u) = Len(v) + Len(t)
        /\ \A i \in 1 .. Len(v) + Len(t) : u[i] = IF i <= Len(v) THEN v[i] ELSE t[i - Len(v)]
    BY ConcatProperties
  <2> QED
    BY <2>1
<1>3. w \in Seq(S) /\ w # <<>> /\ Head(w) = v[2] /\ Tail(w) = t
  BY <1>1, Consed
<1> HIDE DEF u, w
<1>4. Len(w) = 1 + Len(t) /\ w[1] = v[2] /\ \A i \in 1 .. Len(t) : t[i] = w[i + 1]
  <2>1. w[1] = v[2] /\ Len(w) \in Nat /\ Len(w) # 0
    BY <1>3, LenProperties, EmptySeq
  <2>2. /\ Len(Tail(w)) = Len(w) - 1
        /\ \A i \in 1 .. Len(Tail(w)) : Tail(w)[i] = w[i + 1]
    BY <1>3, HeadTailProperties
  <2>3. Len(t) = Len(w) - 1 /\ \A i \in 1 .. Len(t) : t[i] = w[i + 1]
    BY <1>3, <2>2
  <2> QED
    BY <1>1, <2>1, <2>3
<1>5. u # <<>> /\ Head(u) = v[1]
  BY <1>1, <1>2
<1>6. /\ Tail(u) \in Seq(S) /\ Len(Tail(u)) = 1 + Len(t)
      /\ \A i \in 1 .. 1 + Len(t) : Tail(u)[i] = u[i + 1]
  BY <1>1, <1>2, <1>5, HeadTailProperties
<1>7. \A i \in 1 .. 1 + Len(t) : Tail(u)[i] = w[i]
  <2> TAKE i \in 1 .. 1 + Len(t)
  <2>1. Tail(u)[i] = IF i + 1 <= 2 THEN v[i + 1] ELSE t[i + 1 - 2]
    BY <1>1, <1>2, <1>6
  <2>2. CASE i = 1
    <3>1. 1 + 1 = 2 /\ 1 \in 1 .. 1 + Len(t)
      BY <1>1
    <3>2. Tail(u)[1] = v[2]
      BY <1>1, <1>2, <1>6, <3>1
    <3> QED
      BY <1>4, <2>2, <3>2
  <2>3. CASE i # 1
    <3>1. i - 1 \in 1 .. Len(t) /\ i + 1 - 2 = i - 1 /\ ~(i + 1 <= 2) /\ (i - 1) + 1 = i
      BY <1>1, <2>3
    <3> QED
      BY <1>4, <2>1, <3>1
  <2> QED
    BY <2>2, <2>3
<1>8. Tail(u) = w
  BY <1>1, <1>3, <1>4, <1>6, <1>7, SeqEqual
<1> QED
  BY <1>5, <1>6, <1>8 DEF u, w

\* What is left begins with its k-th element.
LEMMA Left ==
  ASSUME NEW S, NEW s \in Seq(S), NEW k \in 1 .. Len(s)
  PROVE  /\ From(s, k) \in Seq(S) /\ From(s, k) # <<>>
         /\ Head(From(s, k)) = s[k] /\ Tail(From(s, k)) = From(s, k + 1)
<1>1. Len(s) \in Nat /\ \A i \in 1 .. Len(s) : s[i] \in S
  BY LenProperties
<1>2. /\ From(s, k) \in Seq(S) /\ Len(From(s, k)) = Len(s) - k + 1
      /\ \A i \in 1 .. Len(s) - k + 1 : From(s, k)[i] = s[k + i - 1]
  BY <1>1, SubSeqProperties DEF From
<1>3. /\ From(s, k + 1) \in Seq(S) /\ Len(From(s, k + 1)) = Len(s) - k
      /\ \A i \in 1 .. Len(s) - k : From(s, k + 1)[i] = s[k + i]
  BY <1>1, SubSeqProperties DEF From
<1>4. From(s, k) # <<>> /\ Head(From(s, k)) = s[k]
  BY <1>1, <1>2
<1>5. /\ Tail(From(s, k)) \in Seq(S) /\ Len(Tail(From(s, k))) = Len(s) - k
      /\ \A i \in 1 .. Len(s) - k : Tail(From(s, k))[i] = From(s, k)[i + 1]
  BY <1>1, <1>2, <1>4, HeadTailProperties
<1>6. \A i \in 1 .. Len(s) - k : Tail(From(s, k))[i] = From(s, k + 1)[i]
  <2> TAKE i \in 1 .. Len(s) - k
  <2>1. i + 1 \in 1 .. Len(s) - k + 1 /\ k + (i + 1) - 1 = k + i
    BY <1>1
  <2>2. From(s, k)[i + 1] = s[k + (i + 1) - 1]
    BY <1>2, <2>1
  <2> QED
    BY <1>3, <1>5, <2>1, <2>2
<1> QED
  BY <1>2, <1>3, <1>4, <1>5, <1>6, SeqEqual

\* Nothing is left after the last element.
LEMMA NoneLeft == \A S : \A s \in Seq(S) : From(s, Len(s) + 1) = <<>>
BY SubSeqEmpty, LenProperties DEF From

\* All is left at the first.
LEMMA AllLeft == \A S : \A s \in Seq(S) : From(s, 1) = s
BY SubSeqFull DEF From

-----------------------------------------------------------------------------
(* Scripts.  K is the kinds of steps that they may have; a step that sets pm_state leaves the      *)
(* registers accessible.                                                                           *)

Vals == PmStates \cup Cmds \cup {""}

Harmless(s) ==
  /\ s.do = "setPm" => RegAccessValid(s.val)
  /\ s.do = "setCh" => s.val \in PmStates
  /\ s.do = "cmd" => s.val \in Cmds

Plain(K) == {s \in [do : K, ch : Chans, val : Vals, ok : {<<>>}, must : BOOLEAN, bad : {<<>>}] :
               Harmless(s)}
Undo(K)  == {s \in [do : K, ch : Chans, val : Vals, ok : Seq(Plain(K)), must : BOOLEAN, bad : {<<>>}] :
               Harmless(s)}
Steps(K) == {s \in [do : K, ch : Chans, val : Vals, ok : Seq(Plain(K)), must : BOOLEAN,
                    bad : Seq(Undo(K))] : Harmless(s)}

\* What a command does to its handler leaves steps of the same kinds.
LEMMA StepSets ==
  ASSUME NEW K
  PROVE  /\ Plain(K) \subseteq Undo(K) /\ Undo(K) \subseteq Steps(K)
         /\ Seq(Plain(K)) \subseteq Seq(Steps(K)) /\ Seq(Undo(K)) \subseteq Seq(Steps(K))
<1>0. <<>> \in Seq(Plain(K)) /\ <<>> \in Seq(Undo(K))
  BY EmptySeq
<1>1. Plain(K) \subseteq Undo(K)
  BY <1>0 DEF Plain, Undo
<1>2. Undo(K) \subseteq Steps(K)
  BY <1>0 DEF Undo, Steps
<1> QED
  BY <1>1, <1>2, SeqMonotonic

\* More kinds, more steps.
LEMMA MoreKinds ==
  ASSUME NEW K, NEW L, K \subseteq L
  PROVE  Steps(K) \subseteq Steps(L) /\ Seq(Steps(K)) \subseteq Seq(Steps(L))
<1>1. Plain(K) \subseteq Plain(L)
  BY DEF Plain
<1>2. Seq(Plain(K)) \subseteq Seq(Plain(L))
  BY <1>1, SeqMonotonic
<1>3. Undo(K) \subseteq Undo(L)
  BY <1>2 DEF Undo
<1>4. Seq(Undo(K)) \subseteq Seq(Undo(L))
  BY <1>3, SeqMonotonic
<1>5. Steps(K) \subseteq Steps(L)
  BY <1>2, <1>4 DEF Steps
<1> QED
  BY <1>5, SeqMonotonic

LEMMA PlainSteps ==
  ASSUME NEW K
  PROVE  /\ \A k \in K, c \in Chans : k \notin {"setPm", "setCh", "cmd"} => Step(k, c) \in Plain(K)
         /\ \A p \in PmStates : "setPm" \in K /\ RegAccessValid(p) => SetPm(p) \in Plain(K)
         /\ \A c \in Chans, p \in PmStates : "setCh" \in K => SetCh(c, p) \in Plain(K)
         /\ \A c \in Chans, cmd \in Cmds : "cmd" \in K => Cmd(cmd, c) \in Plain(K)
<1>0. TX \in Chans /\ "" \in Vals /\ PmStates \subseteq Vals /\ Cmds \subseteq Vals
  BY DEF Chans, Vals
<1>1. ASSUME NEW k \in K, NEW c \in Chans, k \notin {"setPm", "setCh", "cmd"}
      PROVE  Step(k, c) \in Plain(K)
  BY <1>0, <1>1 DEF Step, Plain, Harmless
<1>2. ASSUME NEW p \in PmStates, "setPm" \in K, RegAccessValid(p) PROVE SetPm(p) \in Plain(K)
  BY <1>0, <1>2 DEF SetPm, Step, Plain, Harmless
<1>3. ASSUME NEW c \in Chans, NEW p \in PmStates, "setCh" \in K PROVE SetCh(c, p) \in Plain(K)
  BY <1>0, <1>3 DEF SetCh, Step, Plain, Harmless
<1>4. ASSUME NEW c \in Chans, NEW cmd \in Cmds, "cmd" \in K PROVE Cmd(cmd, c) \in Plain(K)
  BY <1>0, <1>4 DEF Cmd, Step, Plain, Harmless
<1> QED
  BY <1>1, <1>2, <1>3, <1>4

\* The commands, and what they are named.
LEMMA CmdNames == Cmds = {"ALLOCATE", "START", "STOP", "RESET", "DE_ALLOC", "EV_ALLOCATE", "EV_DEALLOC"}
BY DEF Cmds, CmdState

\* A command that resets a channel, and one that must succeed.
LEMMA CmdSteps ==
  ASSUME NEW K, {"cmd", "resetRing", "wipe", "setCh"} \subseteq K, NEW c \in Chans
  PROVE  /\ \A cmd \in Cmds : ResetChan(cmd, c) \in Undo(K)
         /\ \A cmd \in Cmds, bad \in Seq(Undo(K)) : Must(Cmd(cmd, c), bad) \in Steps(K)
         /\ \A cmd \in Cmds, bad \in Seq(Undo(K)) : Must(ResetChan(cmd, c), bad) \in Steps(K)
         /\ \A bad \in Seq(Undo(K)) : StartChan(c, bad) \in Steps(K)
         /\ StopChan(c) \in Plain(K)
         /\ Wiped(c) \in Seq(Plain(K)) /\ <<SetCh(c, "ACTIVE")>> \in Seq(Plain(K))
<1>0. Step("resetRing", c) \in Plain(K) /\ Step("wipe", c) \in Plain(K) /\ SetCh(c, "ACTIVE") \in Plain(K)
  BY PlainSteps DEF PmStates
<1>1. Wiped(c) \in Seq(Plain(K)) /\ <<SetCh(c, "ACTIVE")>> \in Seq(Plain(K)) /\ <<>> \in Seq(Plain(K))
  BY <1>0, EmptySeq DEF Wiped
<1>2. \A cmd \in Cmds : Cmd(cmd, c) \in Plain(K)
  BY PlainSteps
<1>3. ASSUME NEW cmd \in Cmds PROVE ResetChan(cmd, c) \in Undo(K)
  BY <1>1, <1>2 DEF ResetChan, Plain, Undo, Harmless
<1>4. ASSUME NEW s \in Undo(K), NEW bad \in Seq(Undo(K)) PROVE Must(s, bad) \in Steps(K)
  <2>1. /\ Must(s, bad) \in [do : K, ch : Chans, val : Vals, ok : Seq(Plain(K)), must : BOOLEAN,
                            bad : Seq(Undo(K))]
        /\ Must(s, bad).do = s.do /\ Must(s, bad).val = s.val
    BY DEF Must, Undo
  <2> QED
    BY <2>1 DEF Undo, Steps, Harmless
<1>5. ASSUME NEW cmd \in Cmds, NEW bad \in Seq(Undo(K)) PROVE Must(Cmd(cmd, c), bad) \in Steps(K)
  BY <1>2, <1>4, StepSets
<1>6. ASSUME NEW cmd \in Cmds, NEW bad \in Seq(Undo(K)) PROVE Must(ResetChan(cmd, c), bad) \in Steps(K)
  BY <1>3, <1>4
<1>7. ASSUME NEW bad \in Seq(Undo(K)) PROVE StartChan(c, bad) \in Steps(K)
  <2>1. Cmd("START", c) \in Plain(K)
    BY <1>2, CmdNames
  <2>2. [Cmd("START", c) EXCEPT !.ok = <<SetCh(c, "ACTIVE")>>] \in Undo(K)
    BY <1>1, <2>1 DEF Plain, Undo, Harmless
  <2> QED
    BY <1>4, <2>2 DEF StartChan
<1>8. StopChan(c) \in Plain(K)
  BY <1>2, CmdNames DEF StopChan
<1> QED
  BY <1>1, <1>3, <1>5, <1>6, <1>7, <1>8

\* The kinds of steps while the channels are taken, while they are in use, and while they go back.
InitKinds == {"setPm", "setCh", "cmd", "resetRing", "wipe", "program", "allocEv", "configIrq", "irqOff",
              "freeEv"}
RunKinds  == {"setPm", "setCh", "cmd", "resetRing", "wipe", "program", "disableIrq", "enableIrq",
              "killTasklet"}
FreeKinds == {"setCh", "cmd", "resetRing", "wipe", "freeRing", "freeVc", "others"}

\* What terminates, pauses and resumes the channels.
LEMMA RunScripts ==
  {Terminating, Pausing, Resuming} \subseteq Seq(Steps(RunKinds))
<1> DEFINE S == Steps(RunKinds)
<1>0. TX \in Chans /\ RX \in Chans /\ {"PREPARE_TERMINATE", "PAUSE", "ACTIVE"} \subseteq PmStates
  BY DEF Chans, PmStates
<1>1. Plain(RunKinds) \subseteq S /\ Undo(RunKinds) \subseteq S
  BY StepSets
<1>2. <<>> \in Seq(Undo(RunKinds))
  BY EmptySeq
<1>3. \A c \in Chans : /\ SetCh(c, "PREPARE_TERMINATE") \in S /\ StopChan(c) \in S
                       /\ Must(ResetChan("RESET", c), <<>>) \in S /\ StartChan(c, <<>>) \in S
                       /\ Must(Cmd("START", c), <<>>) \in S /\ Must(StopChan(c), <<>>) \in S
                       /\ Step("program", c) \in S
  BY <1>0, <1>1, <1>2, PlainSteps, CmdSteps, CmdNames DEF RunKinds, StopChan
<1>4. /\ Step("disableIrq", TX) \in S /\ Step("enableIrq", TX) \in S /\ Step("killTasklet", TX) \in S
      /\ SetPm("PAUSE") \in S /\ SetPm("ACTIVE") \in S
  BY <1>0, <1>1, PlainSteps DEF RunKinds, RegAccessValid
<1> HIDE DEF S
<1>5. Terminating \in Seq(S)
  BY <1>0, <1>3 DEF Terminating
<1>6. Pausing \in Seq(S)
  BY <1>0, <1>3, <1>4 DEF Pausing
<1>7. Resuming \in Seq(S)
  BY <1>0, <1>3, <1>4 DEF Resuming
<1> QED
  BY <1>5, <1>6, <1>7 DEF S

\* What takes the channels, and the labels of its failures.
LEMMA InitScripts ==
  /\ \A c \in Chans : ChInit(c) \in Seq(Steps(InitKinds))
  /\ ErrorConfigInt \in Seq(Steps(InitKinds))
<1> DEFINE P == Plain(InitKinds)
           U == Undo(InitKinds)
           S == Steps(InitKinds)
<1> SUFFICES ASSUME NEW c \in Chans
             PROVE  ChInit(c) \in Seq(S) /\ ErrorConfigInt \in Seq(S)
  <2>1. TX \in Chans
    BY DEF Chans
  <2> QED
    BY <2>1
<1>0. TX \in Chans /\ RX \in Chans /\ {"PREPARE_HARDWARE", "ACTIVE"} \subseteq PmStates
      /\ {"cmd", "resetRing", "wipe", "setCh"} \subseteq InitKinds
  BY DEF Chans, PmStates, InitKinds
<1>1. P \subseteq U /\ U \subseteq S /\ P \subseteq S
  BY StepSets
<1>2. /\ Step("freeEv", TX) \in U /\ Step("irqOff", TX) \in U
      /\ Step("allocEv", TX) \in S /\ Step("configIrq", TX) \in S
      /\ Step("program", TX) \in S /\ Step("program", RX) \in S
      /\ SetPm("PREPARE_HARDWARE") \in S /\ SetPm("ACTIVE") \in S
  BY <1>0, <1>1, PlainSteps DEF InitKinds, RegAccessValid
<1>3. ResetChan("DE_ALLOC", c) \in U /\ StopChan(TX) \in U /\ Cmd("RESET", c) \in U
  <2>1. Cmd("RESET", c) \in P
    BY <1>0, PlainSteps, CmdNames
  <2> QED
    BY <1>0, <1>1, <2>1, CmdSteps, CmdNames
<1>4. /\ \A cmd \in Cmds, bad \in Seq(U) : Must(Cmd(cmd, TX), bad) \in S /\ Must(Cmd(cmd, RX), bad) \in S
      /\ \A bad \in Seq(U) : StartChan(TX, bad) \in S /\ StartChan(RX, bad) \in S
  BY <1>0, CmdSteps
<1> HIDE DEF P, U, S
<1>5. ErrorConfigInt \in Seq(U) /\ <<Step("irqOff", TX)>> \in Seq(U)
  BY <1>2 DEF ErrorConfigInt
<1>6. ErrorAllocEvRing \in Seq(U)
  BY <1>5, ConcatProperties DEF ErrorAllocEvRing
<1>7. ASSUME NEW n \in Nat PROVE ErrorAllocChan(c, n) \in Seq(U)
  <2>1. [i \in 1 .. n |-> ResetChan("DE_ALLOC", c)] \in Seq(U)
    BY <1>3
  <2> QED
    BY <1>6, <2>1, ConcatProperties DEF ErrorAllocChan
<1>8. ASSUME NEW n \in Nat PROVE ErrorStartChan(c, n) \in Seq(U)
  <2>1. <<StopChan(TX), Cmd("RESET", c)>> \in Seq(U) /\ <<>> \in Seq(U)
    BY <1>3, EmptySeq
  <2> QED
    BY <1>7, <2>1, ConcatProperties DEF ErrorStartChan
<1>9. ChInit(c) \in Seq(S)
  <2>1. /\ Must(Cmd("EV_ALLOCATE", TX), ErrorAllocEvRing) \in S
        /\ Must(Cmd("ALLOCATE", TX), ErrorAllocChan(c, 0)) \in S
        /\ Must(Cmd("ALLOCATE", RX), ErrorAllocChan(c, 1)) \in S
        /\ StartChan(TX, ErrorStartChan(c, 0)) \in S /\ StartChan(RX, ErrorStartChan(c, 1)) \in S
    BY <1>4, <1>6, <1>7, <1>8, CmdNames
  <2> QED
    BY <1>2, <2>1 DEF ChInit
<1>10. ErrorConfigInt \in Seq(S)
  BY <1>1, <1>5, SeqMonotonic DEF P, U, S
<1> QED
  BY <1>9, <1>10

\* What gives a channel back: its commands come after pm_state is set and before its memory goes.
LEMMA FreeScript ==
  ASSUME NEW c \in Chans, NEW p
  PROVE  LET s == Freeing(c, p)
             n == Len(s)
         IN  /\ s \in Seq(Undo(FreeKinds)) /\ n \in {5, 8}
             /\ s[1] = SetCh(c, "PREPARE_TERMINATE")
             /\ s[n - 3] = Step("freeRing", c) /\ s[n - 2] = Step("freeVc", c)
             /\ s[n - 1] = SetCh(c, "DISABLE") /\ s[n] = Step("others", c)
             /\ \A i \in 2 .. n - 4 :
                  /\ s[i].do = "cmd" /\ s[i].bad = <<>> /\ ~s[i].must
                  /\ s[i].ok = <<>> \/ (s[i].ok = Wiped(c) /\ i = n - 4)
                  /\ s[i].ch = c
<1> DEFINE U == Undo(FreeKinds)
           a == <<SetCh(c, "PREPARE_TERMINATE")>>
           b == <<StopChan(c), Cmd("RESET", c), ResetChan("DE_ALLOC", c)>>
           d == <<Step("freeRing", c), Step("freeVc", c), SetCh(c, "DISABLE"), Step("others", c)>>
<1>0. /\ {"PREPARE_TERMINATE", "DISABLE"} \subseteq PmStates
      /\ {"cmd", "resetRing", "wipe", "setCh"} \subseteq FreeKinds
  BY DEF PmStates, FreeKinds
<1>1. Plain(FreeKinds) \subseteq U
  BY StepSets
<1>2. /\ SetCh(c, "PREPARE_TERMINATE") \in U /\ SetCh(c, "DISABLE") \in U
      /\ Step("freeRing", c) \in U /\ Step("freeVc", c) \in U /\ Step("others", c) \in U
  BY <1>0, <1>1, PlainSteps DEF FreeKinds
<1>3. StopChan(c) \in U /\ Cmd("RESET", c) \in U /\ ResetChan("DE_ALLOC", c) \in U
  BY <1>0, <1>1, PlainSteps, CmdSteps, CmdNames DEF StopChan
<1>4. /\ StopChan(c).ch = c /\ Cmd("RESET", c).ch = c /\ ResetChan("DE_ALLOC", c).ch = c
      /\ StopChan(c).do = "cmd" /\ StopChan(c).ok = <<>> /\ StopChan(c).bad = <<>> /\ ~StopChan(c).must
      /\ LET r == Cmd("RESET", c) IN r.do = "cmd" /\ r.ok = <<>> /\ r.bad = <<>> /\ ~r.must
      /\ LET r == ResetChan("DE_ALLOC", c)
         IN  r.do = "cmd" /\ r.ok = Wiped(c) /\ r.bad = <<>> /\ ~r.must
  BY DEF StopChan, Cmd, Step, ResetChan
<1> HIDE DEF U
<1>5. /\ a \in Seq(U) /\ b \in Seq(U) /\ d \in Seq(U) /\ <<>> \in Seq(U)
      /\ Len(a) = 1 /\ Len(b) = 3 /\ Len(d) = 4 /\ Len(<<>>) = 0
      /\ a[1] = SetCh(c, "PREPARE_TERMINATE")
      /\ b[1] = StopChan(c) /\ b[2] = Cmd("RESET", c) /\ b[3] = ResetChan("DE_ALLOC", c)
      /\ d[1] = Step("freeRing", c) /\ d[2] = Step("freeVc", c) /\ d[3] = SetCh(c, "DISABLE")
      /\ d[4] = Step("others", c)
  BY <1>2, <1>3, EmptySeq
<1>6. Freeing(c, p) = a \o (IF p = "ACTIVE" THEN b ELSE <<>>) \o d
  BY DEF Freeing
<1> HIDE DEF a, b, d
<1>7. CASE p = "ACTIVE"
  <2> DEFINE ab == a \o b
  <2>1. ab \in Seq(U) /\ Len(ab) = 4 /\ \A i \in 1 .. 4 : ab[i] = IF i <= 1 THEN a[i] ELSE b[i - 1]
    <3>1. /\ ab \in Seq(U) /\ Len(ab) = Len(a) + Len(b)
          /\ \A i \in 1 .. Len(a) + Len(b) : ab[i] = IF i <= Len(a) THEN a[i] ELSE b[i - Len(a)]
      BY <1>5, ConcatProperties
    <3> QED
      BY <1>5, <3>1
  <2> HIDE DEF ab
  <2> DEFINE s == ab \o d
  <2>2. s \in Seq(U) /\ Len(s) = 8 /\ \A i \in 1 .. 8 : s[i] = IF i <= 4 THEN ab[i] ELSE d[i - 4]
    <3>1. /\ s \in Seq(U) /\ Len(s) = Len(ab) + Len(d)
          /\ \A i \in 1 .. Len(ab) + Len(d) : s[i] = IF i <= Len(ab) THEN ab[i] ELSE d[i - Len(ab)]
      BY <1>5, <2>1, ConcatProperties
    <3> QED
      BY <1>5, <2>1, <3>1
  <2>3. Freeing(c, p) = s
    BY <1>6, <1>7 DEF ab
  <2> HIDE DEF s
  <2>4. /\ s[1] = a[1] /\ s[2] = b[1] /\ s[3] = b[2] /\ s[4] = b[3]
        /\ s[5] = d[1] /\ s[6] = d[2] /\ s[7] = d[3] /\ s[8] = d[4]
    BY <2>1, <2>2
  <2>5. /\ s[1] = SetCh(c, "PREPARE_TERMINATE")
        /\ s[5] = Step("freeRing", c) /\ s[6] = Step("freeVc", c)
        /\ s[7] = SetCh(c, "DISABLE") /\ s[8] = Step("others", c)
    BY <1>5, <2>4
  <2>6. /\ s[2] = StopChan(c) /\ s[3] = Cmd("RESET", c) /\ s[4] = ResetChan("DE_ALLOC", c)
    BY <1>5, <2>4
  <2>7. \A i \in 2 .. 4 : /\ s[i].do = "cmd" /\ s[i].bad = <<>> /\ ~s[i].must
                          /\ s[i].ok = <<>> \/ (s[i].ok = Wiped(c) /\ i = 4)
                          /\ s[i].ch = c
    <3>1. \A i \in 2 .. 4 : i = 2 \/ i = 3 \/ i = 4
      OBVIOUS
    <3> QED
      BY <1>4, <2>6, <3>1
  <2>8. s \in Seq(Undo(FreeKinds)) /\ Len(s) = 8
    BY <2>2 DEF U
  <2> QED
    BY <2>3, <2>5, <2>7, <2>8
<1>8. CASE p # "ACTIVE"
  <2>1. a \o <<>> = a
    BY <1>5, ConcatEmptySeq
  <2> DEFINE s == a \o d
  <2>2. s \in Seq(U) /\ Len(s) = 5 /\ \A i \in 1 .. 5 : s[i] = IF i <= 1 THEN a[i] ELSE d[i - 1]
    <3>1. /\ s \in Seq(U) /\ Len(s) = Len(a) + Len(d)
          /\ \A i \in 1 .. Len(a) + Len(d) : s[i] = IF i <= Len(a) THEN a[i] ELSE d[i - Len(a)]
      BY <1>5, ConcatProperties
    <3> QED
      BY <1>5, <3>1
  <2>3. Freeing(c, p) = s
    BY <1>6, <1>8, <2>1
  <2> HIDE DEF s
  <2>4. s[1] = a[1] /\ s[2] = d[1] /\ s[3] = d[2] /\ s[4] = d[3] /\ s[5] = d[4]
    BY <2>2
  <2>5. /\ s[1] = SetCh(c, "PREPARE_TERMINATE")
        /\ s[2] = Step("freeRing", c) /\ s[3] = Step("freeVc", c)
        /\ s[4] = SetCh(c, "DISABLE") /\ s[5] = Step("others", c)
    BY <1>5, <2>4
  <2>6. s \in Seq(Undo(FreeKinds)) /\ Len(s) = 5 /\ 2 .. 1 = {}
    BY <2>2 DEF U
  <2> QED
    BY <2>3, <2>5, <2>6
<1> QED
  BY <1>7, <1>8

\* One element behind a sequence.
LEMMA OneMore ==
  ASSUME NEW S, NEW s \in Seq(S), NEW e \in S
  PROVE  /\ s \o <<e>> \in Seq(S) /\ Len(s \o <<e>>) = Len(s) + 1
         /\ (\A i \in 1 .. Len(s) : (s \o <<e>>)[i] = s[i]) /\ (s \o <<e>>)[Len(s) + 1] = e
BY AppendIsConcat, AppendProperties

\* What then gives back what both channels share: the event ring goes before the registers do.
LEMMA FreeEvScript ==
  ASSUME NEW p
  PROVE  LET s == FreeingEv(p)
             m == Len(s)
             f == IF p = "ACTIVE" THEN 4 ELSE 3
         IN  /\ s \in Seq(Undo({"setPm", "killTasklet", "cmd", "freeEv", "irqOff"}) \cup {SetPm("DISABLE")})
             /\ m = (IF p = "ACTIVE" THEN 6 ELSE 4)
             /\ s[1] = SetPm("PREPARE_TERMINATE") /\ s[2] = Step("killTasklet", TX)
             /\ s[f] = Step("freeEv", TX) /\ s[m] = SetPm("DISABLE")
             /\ p = "ACTIVE" => s[3] = Cmd("EV_DEALLOC", TX) /\ s[5] = Step("irqOff", TX)
<1> DEFINE K == {"setPm", "killTasklet", "cmd", "freeEv", "irqOff"}
           U == Undo(K) \cup {SetPm("DISABLE")}
           a == <<SetPm("PREPARE_TERMINATE"), Step("killTasklet", TX)>>
           b == Cmd("EV_DEALLOC", TX)
           d == Step("freeEv", TX)
           e == Step("irqOff", TX)
           g == SetPm("DISABLE")
<1>0. TX \in Chans /\ "PREPARE_TERMINATE" \in PmStates /\ RegAccessValid("PREPARE_TERMINATE")
  BY DEF Chans, PmStates, RegAccessValid
<1>1. Plain(K) \subseteq U
  BY StepSets
<1>2. /\ SetPm("PREPARE_TERMINATE") \in U /\ Step("killTasklet", TX) \in U /\ Cmd("EV_DEALLOC", TX) \in U
      /\ Step("freeEv", TX) \in U /\ Step("irqOff", TX) \in U /\ SetPm("DISABLE") \in U
  BY <1>0, <1>1, PlainSteps, CmdNames
<1> HIDE DEF U
<1>3. /\ a \in Seq(U) /\ Len(a) = 2 /\ {b, d, e, g} \subseteq U
      /\ a[1] = SetPm("PREPARE_TERMINATE") /\ a[2] = Step("killTasklet", TX)
  BY <1>2
<1>4. FreeingEv(p) = a \o (IF p = "ACTIVE" THEN <<b>> ELSE <<>>) \o <<d>>
                       \o (IF p = "ACTIVE" THEN <<e>> ELSE <<>>) \o <<g>>
  BY DEF FreeingEv
<1> HIDE DEF a, b, d, e, g
<1>6. CASE p = "ACTIVE"
  <2> DEFINE ab == a \o <<b>>
             abd == ab \o <<d>>
             abde == abd \o <<e>>
             s == abde \o <<g>>
  <2>0. FreeingEv(p) = s
    BY <1>4, <1>6
  <2>1. ab \in Seq(U) /\ Len(ab) = 3 /\ ab[1] = a[1] /\ ab[2] = a[2] /\ ab[3] = b
    <3>1. /\ ab \in Seq(U) /\ Len(ab) = Len(a) + 1
          /\ (\A i \in 1 .. Len(a) : ab[i] = a[i]) /\ ab[Len(a) + 1] = b
      BY <1>3, OneMore
    <3> QED
      BY <3>1, <1>3
  <2> HIDE DEF ab
  <2>2. /\ abd \in Seq(U) /\ Len(abd) = 4
        /\ abd[1] = ab[1] /\ abd[2] = ab[2] /\ abd[3] = ab[3] /\ abd[4] = d
    <3>1. /\ abd \in Seq(U) /\ Len(abd) = Len(ab) + 1
          /\ (\A i \in 1 .. Len(ab) : abd[i] = ab[i]) /\ abd[Len(ab) + 1] = d
      BY <1>3, OneMore, <2>1
    <3> QED
      BY <3>1, <1>3, <2>1
  <2> HIDE DEF abd
  <2>3. /\ abde \in Seq(U) /\ Len(abde) = 5 /\ abde[1] = abd[1] /\ abde[2] = abd[2]
        /\ abde[3] = abd[3] /\ abde[4] = abd[4] /\ abde[5] = e
    <3>1. /\ abde \in Seq(U) /\ Len(abde) = Len(abd) + 1
          /\ (\A i \in 1 .. Len(abd) : abde[i] = abd[i]) /\ abde[Len(abd) + 1] = e
      BY <1>3, OneMore, <2>2
    <3> QED
      BY <3>1, <1>3, <2>2
  <2> HIDE DEF abde
  <2>4. /\ s \in Seq(U) /\ Len(s) = 6 /\ s[1] = abde[1] /\ s[2] = abde[2]
        /\ s[3] = abde[3] /\ s[4] = abde[4] /\ s[5] = abde[5] /\ s[6] = g
    <3>1. /\ s \in Seq(U) /\ Len(s) = Len(abde) + 1
          /\ (\A i \in 1 .. Len(abde) : s[i] = abde[i]) /\ s[Len(abde) + 1] = g
      BY <1>3, OneMore, <2>3
    <3> QED
      BY <3>1, <1>3, <2>3
  <2> HIDE DEF s
  <2>5. /\ s[1] = SetPm("PREPARE_TERMINATE") /\ s[2] = Step("killTasklet", TX)
        /\ s[3] = Cmd("EV_DEALLOC", TX) /\ s[4] = Step("freeEv", TX) /\ s[5] = Step("irqOff", TX)
        /\ s[6] = SetPm("DISABLE")
    BY <1>3, <2>1, <2>2, <2>3, <2>4 DEF b, d, e, g
  <2> QED
    BY <1>6, <2>0, <2>4, <2>5 DEF U
<1>7. CASE p # "ACTIVE"
  <2> DEFINE ad == a \o <<d>>
             s == ad \o <<g>>
  <2>0. ad \in Seq(U) /\ Len(ad) = 3 /\ ad[1] = a[1] /\ ad[2] = a[2] /\ ad[3] = d
    <3>1. /\ ad \in Seq(U) /\ Len(ad) = Len(a) + 1
          /\ (\A i \in 1 .. Len(a) : ad[i] = a[i]) /\ ad[Len(a) + 1] = d
      BY <1>3, OneMore
    <3> QED
      BY <3>1, <1>3
  <2>1. a \o <<>> = a /\ ad \o <<>> = ad
    BY <1>3, <2>0, ConcatEmptySeq
  <2>2. FreeingEv(p) = s
    BY <1>4, <1>7, <2>1
  <2> HIDE DEF ad
  <2>3. s \in Seq(U) /\ Len(s) = 4 /\ s[1] = ad[1] /\ s[2] = ad[2] /\ s[3] = ad[3] /\ s[4] = g
    <3>1. /\ s \in Seq(U) /\ Len(s) = Len(ad) + 1
          /\ (\A i \in 1 .. Len(ad) : s[i] = ad[i]) /\ s[Len(ad) + 1] = g
      BY <1>3, OneMore, <2>0
    <3> QED
      BY <3>1, <1>3, <2>0
  <2> HIDE DEF s
  <2>4. /\ s[1] = SetPm("PREPARE_TERMINATE") /\ s[2] = Step("killTasklet", TX)
        /\ s[3] = Step("freeEv", TX) /\ s[4] = SetPm("DISABLE")
    BY <1>3, <2>0, <2>3 DEF d, g
  <2> QED
    BY <1>7, <2>2, <2>3, <2>4 DEF U
<1> QED
  BY <1>6, <1>7

-----------------------------------------------------------------------------
(* Types *)

Xfers   == [x : Xs, cmd : {"SPI_TX", "SPI_TX_RX"}, imm : BOOLEAN]
Descs   == {Desc(c, t) : c \in Chans, t \in Xfers}
Lists   == [allocated : Seq(Descs), submitted : Seq(Descs), issued : Seq(Descs)]
Command == [cmd : Cmds, ch : Chans]
AllKinds == InitKinds \cup RunKinds \cup FreeKinds
AnyStep == Steps(AllKinds) \cup {SetPm("DISABLE")}

\* Types, part by part: the registers and what the driver knows of them, the rings and their
\* descriptors, the tasklet, the handler, the controller.
TypedRegs ==
  /\ pm \in PmStates /\ cpm \in [Chans -> PmStates]
  /\ evState \in EvStates /\ hwEv \in EvStates /\ chState \in [Chans -> ChStates]
  /\ evOn \in BOOLEAN /\ irq \in {"off", "on", "disabled"} /\ ieobOn \in BOOLEAN
  /\ gpiCmd \in Cmds /\ done \in BOOLEAN /\ sched \in BOOLEAN
  /\ stat \in [ieob : BOOLEAN, ch : SUBSET Chans, ev : BOOLEAN]
  /\ faults \in 0 .. MaxFaults

TypedRings ==
  /\ ring \in [Chans -> [on : BOOLEAN, rp : Slots, wp : Slots]]
  /\ slot \in [Chans -> [Slots -> Tre]]
  /\ hw \in [Chans -> [state : ChStates, ctx : BOOLEAN, at : Slots, db : Slots, links : Nat]]
  /\ vc \in [Chans -> Lists]
  /\ cmds \in Seq(Command) /\ evs \in Seq(Event)

\* The tasklet has a descriptor in its hands.
Held == {"complete", "unlink"}
USE DEF Held

TypedTk ==
  /\ tk \in [pc : {"off", "scan", "complete", "unlink", "reread", "unmask"}, n : Nat, ch : Chans,
              x : Xs, cb : BOOLEAN]
  /\ tk.pc \in Held => tk.n > 0

\* A command is awaited by the handler whose next step it is.
TypedScript ==
  /\ script \in Seq(AnyStep) /\ sent \in BOOLEAN /\ ret \in BOOLEAN
  /\ sent => script # <<>> /\ Head(script).do = "cmd"

TypedClient ==
  /\ cl \in {"off", "grabTx", "grabRx", "ready", "issueRx", "issueTx", "wait", "failed", "terminateTx",
              "terminateRx", "freeRx", "freeTx"}
  /\ cur \in Xfers /\ sig \in {"none", "ok", "error"} /\ dirty \in BOOLEAN
  /\ grabs \in 0 .. MaxGrabs /\ pauses \in 0 .. MaxPauses

Typed == TypedRegs /\ TypedRings /\ TypedTk /\ TypedScript /\ TypedClient

\* What the elements of a sequence are.
LEMMA Elems == \A S : \A s \in Seq(S) : \A i \in DOMAIN s : s[i] \in S
OBVIOUS

\* Remainders below the double of the divisor.
LEMMA Below == \A a, b \in Nat : a < b => a % b = a
OBVIOUS

LEMMA Above == \A a, b \in Nat : b <= a /\ a < b + b => a % b = a - b
OBVIOUS

\* Indices stay within the ring.
LEMMA SlotFacts ==
  /\ \A i \in Slots, k \in Nat : After(i, k) \in Slots
  /\ 0 \in Slots
  /\ \A i \in Slots : i \in Nat /\ i < Elements
  /\ Elements \in Nat /\ Elements > 1
BY GpiAssumption DEF After, Slots

\* What a transfer puts into a ring.
LEMMA TresTyped ==
  ASSUME NEW c \in Chans, NEW t \in Xfers
  PROVE  /\ Tres(c, t) \in Seq(Tre) /\ Len(Tres(c, t)) = NrTre(c) /\ NrTre(c) \in 1 .. 3
         /\ \A i \in DOMAIN Tres(c, t) : Tres(c, t)[i].x = t.x
<1> DEFINE E(kind, flags) == [kind |-> kind, flags |-> flags, x |-> t.x]
           go  == E("go", {"CHAIN"} \cup (IF t.cmd = "SPI_TX_RX" THEN {"LINK"} ELSE {}))
           dma == E(IF c = TX /\ t.imm THEN "imm" ELSE "dma", {"IEOT"})
           conf == E("config", {"CHAIN"})
<1>1. Tres(c, t) = IF c = TX THEN <<conf, go, dma>> ELSE <<dma>>
  BY DEF Tres
<1>2. go \in Tre /\ dma \in Tre /\ conf \in Tre /\ go.x = t.x /\ dma.x = t.x /\ conf.x = t.x
  BY DEF Tre, Flags, Xfers
<1> HIDE DEF go, dma, conf
<1> QED
  BY <1>1, <1>2 DEF NrTre

\* A descriptor, by its transfer.
LEMMA DescTyped ==
  /\ \A d \in Descs : d.x \in Xs /\ d.cb \in BOOLEAN /\ d.tres \in Seq(Tre) /\ Len(d.tres) \in 1 .. 3
  /\ \A c \in Chans, t \in Xfers : Desc(c, t) \in Descs
<1>1. ASSUME NEW c \in Chans, NEW t \in Xfers
      PROVE  /\ Desc(c, t).x \in Xs /\ Desc(c, t).cb \in BOOLEAN
             /\ Desc(c, t).tres \in Seq(Tre) /\ Len(Desc(c, t).tres) \in 1 .. 3
  BY TresTyped DEF Desc, Xfers
<1> QED
  BY <1>1 DEF Descs

\* Elements that are put into a ring, as far as they fit.
LEMMA QueuedTyped ==
  ASSUME Typed, NEW c \in Chans, NEW d \in Descs
  PROVE  Queued(c, d).wp \in Slots /\ Queued(c, d).slot \in [Slots -> Tre]
<1> DEFINE k == IF Len(d.tres) <= Avail(ring[c]) THEN Len(d.tres) ELSE Avail(ring[c])
           o(i) == (i - ring[c].wp + Elements) % Elements
<1>1. ring[c].wp \in Slots /\ ring[c].rp \in Slots /\ slot[c] \in [Slots -> Tre]
  BY DEF Typed, TypedRings
<1> DEFINE rp == ring[c].rp
           wp == ring[c].wp
<1>11. rp \in Nat /\ wp \in Nat /\ rp < Elements /\ wp < Elements /\ Elements \in Nat
  BY <1>1, SlotFacts
<1> HIDE DEF rp, wp
<1>12. Avail(ring[c]) = IF wp < rp THEN (rp - wp) - 1 ELSE rp + (Elements - wp) - 1
  BY DEF Avail, rp, wp
<1>2. Avail(ring[c]) \in Nat
  BY <1>11, <1>12
<1>3. Len(d.tres) \in Nat /\ d.tres \in Seq(Tre)
  BY DescTyped
<1>4. k \in Nat /\ k <= Len(d.tres)
  BY <1>2, <1>3
<1>5. ASSUME NEW i \in Slots PROVE o(i) \in Nat
  <2>1. i \in Nat
    BY SlotFacts
  <2>2. i - wp + Elements \in Nat /\ Elements > 0
    BY <1>11, <2>1
  <2>3. (i - wp + Elements) % Elements \in Nat
    BY <1>11, <2>2
  <2> QED
    BY <2>3 DEF wp
<1> HIDE DEF k, o
<1>6. \A i \in Slots : o(i) < k => d.tres[o(i) + 1] \in Tre
  BY <1>3, <1>4, <1>5
<1>7. Queued(c, d).wp = After(ring[c].wp, k)
  BY DEF Queued, k
<1>8. Queued(c, d).slot = [i \in Slots |-> IF o(i) < k THEN d.tres[o(i) + 1] ELSE slot[c][i]]
  BY DEF Queued, k, o
<1>9. Queued(c, d).wp \in Slots
  BY <1>1, <1>4, <1>7, SlotFacts
<1>10. \A i \in Slots : slot[c][i] \in Tre
  BY <1>1
<1> QED
  BY <1>6, <1>8, <1>9, <1>10

\* A nonempty set of numbers has a least element.
LEMMA Least ==
  ASSUME NEW S \in SUBSET Nat, S # {}
  PROVE  \E n \in S : \A m \in S : n <= m
<1> DEFINE R == {ss \in Nat \X Nat : ss[1] < ss[2]}
<1>0. IsWellFoundedOn(R, Nat)
  BY NatLessThanWellFounded DEF OpToRel
<1> HIDE DEF R
<1>1. \E n \in S : \A m \in S : ~(<<m, n>> \in R)
  BY <1>0, WFMin, ZenonT(30)
<1>2. PICK n \in S : \A m \in S : ~(<<m, n>> \in R)
  BY <1>1
<1>3. ASSUME NEW m \in S PROVE n <= m
  <2>1. m \in Nat /\ n \in Nat
    OBVIOUS
  <2>2. m < n => <<m, n>> \in R
    BY <2>1 DEF R
  <2> QED
    BY <1>2, <2>1, <2>2
<1> QED
  BY <1>3

\* The elements that a running channel obeys next.
LEMMA ChainTyped ==
  ASSUME Typed, NEW c \in Chans, HwRuns(c)
  PROVE  /\ Chain(c) \in Seq(Tre) /\ Len(Chain(c)) \in 1 .. Elements
         /\ Last(Chain(c)) = slot[c][After(hw[c].at, Len(Chain(c)) - 1)]
         /\ Last(Chain(c)) \in Tre
<1> DEFINE at == hw[c].at
           db == hw[c].db
           Ends(k) == \/ "CHAIN" \notin slot[c][After(at, k - 1)].flags
                      \/ After(at, k) = db
           IsFirst(k) == Ends(k) /\ \A j \in 1 .. k - 1 : ~Ends(j)
           K == {k \in 1 .. Elements : Ends(k)}
<1>1. at \in Slots /\ db \in Slots /\ at # db /\ slot[c] \in [Slots -> Tre]
  BY DEF Typed, TypedRings, HwRuns
<1>2. \E k \in 1 .. Elements : After(at, k) = db
  <2>0. at \in Nat /\ db \in Nat /\ at < Elements /\ db < Elements /\ Elements \in Nat
    BY <1>1, SlotFacts
  <2> HIDE DEF at, db
  <2>1. CASE at < db
    <3>1. db - at \in 1 .. Elements /\ at + (db - at) = db
      BY <2>0, <2>1
    <3>2. db % Elements = db
      BY <2>0, Below
    <3> QED
      BY <3>1, <3>2 DEF After
  <2>2. CASE db < at
    <3> DEFINE m == db + Elements - at
               s == db + Elements
    <3>1. m \in 1 .. Elements /\ at + m = s /\ s \in Nat /\ Elements <= s /\ s < Elements + Elements
      BY <2>0, <2>2
    <3>2. s - Elements = db
      BY <2>0
    <3> HIDE DEF m, s
    <3>3. s % Elements = db
      BY <2>0, <3>1, <3>2, Above
    <3> QED
      BY <3>1, <3>3 DEF After
  <2>3. at < db \/ db < at
    BY <1>1, <2>0
  <2> QED
    BY <2>1, <2>2, <2>3
<1>3. K # {} /\ K \in SUBSET Nat
  BY <1>2
<1>4. \E k \in 1 .. Elements : IsFirst(k)
  <2>1. PICK k \in K : \A m \in K : k <= m
    BY <1>3, Least
  <2>2. \A j \in 1 .. k - 1 : j \in 1 .. Elements /\ ~(k <= j)
    BY <2>1, SlotFacts
  <2> QED
    BY <2>1, <2>2
<1> DEFINE k == CHOOSE k \in 1 .. Elements : IsFirst(k)
<1>5. k \in 1 .. Elements
  BY <1>4
<1>6. Chain(c) = [i \in 1 .. k |-> slot[c][After(at, i - 1)]]
  BY DEF Chain
<1> HIDE DEF k
<1>7. ASSUME NEW i \in 1 .. k PROVE slot[c][After(at, i - 1)] \in Tre
  <2>1. i - 1 \in Nat
    BY <1>5
  <2>2. After(at, i - 1) \in Slots
    BY <1>1, <2>1, SlotFacts
  <2> QED
    BY <1>1, <2>2
<1>8. Chain(c) \in Seq(Tre) /\ Len(Chain(c)) = k
  BY <1>5, <1>6, <1>7
<1>9. Last(Chain(c)) = slot[c][After(at, k - 1)]
  BY <1>5, <1>6, <1>8 DEF Last
<1> QED
  BY <1>5, <1>7, <1>8, <1>9

-----------------------------------------------------------------------------
(* Types are kept *)

\* The parts imply the type invariant.
LEMMA TypedTypeOK == Typed => TypeOK
<1> SUFFICES ASSUME Typed PROVE TypeOK
  OBVIOUS
<1>1. \A i \in DOMAIN cmds : cmds[i] \in [cmd : Cmds, ch : Chans]
  BY Elems DEF Typed, TypedRings, Command
<1>2. \A i \in DOMAIN evs : evs[i] \in Event
  BY Elems DEF Typed, TypedRings
<1>3. cur.x \in Xs
  BY DEF Typed, TypedClient, Xfers
<1> QED
  BY <1>1, <1>2, <1>3 DEF Typed, TypedRegs, TypedRings, TypedTk, TypedScript, TypedClient, TypeOK

\* What follows a step of a handler, and what the step is.
LEMMA ScriptFacts ==
  ASSUME Typed, script # <<>>
  PROVE  /\ Head1 \in AnyStep /\ Tail(script) \in Seq(AnyStep)
         /\ Head1.ok \o Tail(script) \in Seq(AnyStep) /\ Head1.bad \in Seq(AnyStep)
         /\ Head1.ch \in Chans
         /\ Head1.do = "cmd" => Head1.val \in Cmds
         /\ Head1.do \in {"setPm", "setCh"} => Head1.val \in PmStates
<1>1. script \in Seq(AnyStep)
  BY DEF Typed, TypedScript
<1>2. Head1 \in AnyStep /\ Tail(script) \in Seq(AnyStep)
  BY <1>1, HeadTailProperties DEF Head1
<1>3. Steps(AllKinds) \subseteq AnyStep
  BY DEF AnyStep
<1>4. Seq(Plain(AllKinds)) \subseteq Seq(AnyStep) /\ Seq(Undo(AllKinds)) \subseteq Seq(AnyStep)
  BY <1>3, StepSets, SeqMonotonic
<1>5. <<>> \in Seq(AnyStep)
  BY EmptySeq
<1>6. CASE Head1 \in Steps(AllKinds)
  <2>1. /\ Head1.ok \in Seq(Plain(AllKinds)) /\ Head1.bad \in Seq(Undo(AllKinds))
        /\ Head1.ch \in Chans /\ Harmless(Head1)
    BY <1>6 DEF Steps
  <2>2. Head1.ok \in Seq(AnyStep) /\ Head1.bad \in Seq(AnyStep)
    BY <1>4, <2>1
  <2>3. Head1.ok \o Tail(script) \in Seq(AnyStep)
    BY <1>2, <2>2, ConcatProperties
  <2> QED
    BY <1>2, <2>1, <2>2, <2>3 DEF Harmless, RegAccessValid, PmStates
<1>7. CASE Head1 = SetPm("DISABLE")
  <2>1. /\ Head1.ok = <<>> /\ Head1.bad = <<>> /\ Head1.ch = TX /\ Head1.do = "setPm"
        /\ Head1.val = "DISABLE"
    BY <1>7 DEF SetPm, Step
  <2>2. <<>> \o Tail(script) = Tail(script)
    BY <1>2, ConcatEmptySeq
  <2> QED
    BY <1>2, <1>5, <2>1, <2>2 DEF Chans, PmStates
<1> QED
  BY <1>2, <1>6, <1>7 DEF AnyStep

\* The scripts that handlers begin with.
LEMMA Scripts ==
  /\ <<>> \in Seq(AnyStep)
  /\ {Terminating, Pausing, Resuming, ErrorConfigInt} \subseteq Seq(AnyStep)
  /\ \A c \in Chans : ChInit(c) \in Seq(AnyStep)
  /\ \A c \in Chans, p \in PmStates : Freeing(c, p) \in Seq(AnyStep)
  /\ \A p \in PmStates : FreeingEv(p) \in Seq(AnyStep)
<1>1. /\ InitKinds \subseteq AllKinds /\ RunKinds \subseteq AllKinds /\ FreeKinds \subseteq AllKinds
      /\ {"setPm", "killTasklet", "cmd", "freeEv", "irqOff"} \subseteq AllKinds
  BY DEF AllKinds, InitKinds, RunKinds
<1>2. Steps(AllKinds) \subseteq AnyStep
  BY DEF AnyStep
<1>3. ASSUME NEW K, K \subseteq AllKinds
      PROVE  Undo(K) \subseteq AnyStep /\ Seq(Steps(K)) \subseteq Seq(AnyStep) /\ Seq(Undo(K)) \subseteq Seq(AnyStep)
  <2>1. Steps(K) \subseteq AnyStep /\ Undo(K) \subseteq AnyStep
    BY <1>2, <1>3, MoreKinds, StepSets
  <2> QED
    BY <2>1, SeqMonotonic
<1>4. <<>> \in Seq(AnyStep)
  BY EmptySeq
<1>5. {Terminating, Pausing, Resuming} \subseteq Seq(AnyStep)
  BY <1>1, <1>3, RunScripts
<1>6. TX \in Chans /\ \A c \in Chans : ChInit(c) \in Seq(AnyStep)
  BY <1>1, <1>3, InitScripts DEF Chans
<1>7. ErrorConfigInt \in Seq(AnyStep)
  BY <1>1, <1>3, <1>6, InitScripts
<1>8. \A c \in Chans, p \in PmStates : Freeing(c, p) \in Seq(AnyStep)
  BY <1>1, <1>3, FreeScript
<1>9. ASSUME NEW p \in PmStates PROVE FreeingEv(p) \in Seq(AnyStep)
  <2> DEFINE K == {"setPm", "killTasklet", "cmd", "freeEv", "irqOff"}
  <2>1. FreeingEv(p) \in Seq(Undo(K) \cup {SetPm("DISABLE")})
    BY FreeEvScript
  <2>2. Undo(K) \cup {SetPm("DISABLE")} \subseteq AnyStep
    BY <1>1, <1>3 DEF AnyStep
  <2> HIDE DEF K
  <2> QED
    BY <2>1, <2>2, SeqMonotonic
<1> QED
  BY <1>4, <1>5, <1>6, <1>7, <1>8, <1>9

\* The values that the state begins with and that reset it.
LEMMA Zeroes ==
  /\ IdleHw \in [state : ChStates, ctx : BOOLEAN, at : Slots, db : Slots, links : Nat]
  /\ NoRing \in [on : BOOLEAN, rp : Slots, wp : Slots]
  /\ NoDescs \in Lists
  /\ NoTre \in Tre
  /\ NoXfer \in Xfers
  /\ IdleTk \in [pc : {"off", "scan", "complete", "unlink", "reread", "unmask"}, n : Nat, ch : Chans, x : Xs,
                 cb : BOOLEAN]
<1>1. 0 \in Slots /\ 0 \in Xs /\ 0 \in Nat /\ TX \in Chans
  BY SlotFacts, SpiGsiAssumption DEF Xs, Chans
<1>2. <<>> \in Seq(Descs)
  BY EmptySeq
<1> QED
  BY <1>1, <1>2 DEF IdleHw, NoRing, NoDescs, NoTre, NoXfer, IdleTk, ChStates, Lists, Tre, Flags, Xfers

\* Counters stay within their bounds.
LEMMA Counts ==
  /\ 0 \in 0 .. MaxFaults /\ 0 \in 0 .. MaxGrabs /\ 0 \in 0 .. MaxPauses
  /\ \A n \in 0 .. MaxFaults : n < MaxFaults => n + 1 \in 0 .. MaxFaults
  /\ \A n \in 0 .. MaxGrabs : n < MaxGrabs => n + 1 \in 0 .. MaxGrabs
  /\ \A n \in 0 .. MaxPauses : n < MaxPauses => n + 1 \in 0 .. MaxPauses
BY GpiAssumption, SpiGsiAssumption

LEMMA TypedInit == Init => Typed
<1> SUFFICES ASSUME Init PROVE Typed
  OBVIOUS
<1>1. TypedRegs
  <2>1. gpiCmd \in Cmds /\ faults \in 0 .. MaxFaults
    BY CmdNames, Counts DEF Init, GpiInit
  <2>2. cpm \in [Chans -> PmStates] /\ chState \in [Chans -> ChStates]
    BY DEF Init, GpiInit, PmStates, ChStates
  <2>3. stat \in [ieob : BOOLEAN, ch : SUBSET Chans, ev : BOOLEAN]
    BY DEF Init, GpiInit
  <2> QED
    BY <2>1, <2>2, <2>3 DEF Init, GpiInit, TypedRegs, PmStates, EvStates
<1>2. TypedRings
  <2>1. cmds \in Seq(Command) /\ evs \in Seq(Event)
    BY EmptySeq DEF Init, GpiInit
  <2> QED
    BY <2>1, Zeroes DEF Init, GpiInit, TypedRings
<1>3. TypedTk
  BY Zeroes DEF Init, GpiInit, TypedTk, IdleTk
<1>4. TypedScript
  BY Scripts DEF Init, GpiInit, TypedScript
<1>5. TypedClient
  BY Zeroes, Counts DEF Init, TypedClient
<1> QED
  BY <1>1, <1>2, <1>3, <1>4, <1>5 DEF Typed

\* A step of the holder of ctrl_lock.
LEMMA TypedCtl == Typed /\ Controls => Typed'
<1> SUFFICES ASSUME Typed, Controls PROVE Typed'
  OBVIOUS
<1> USE DEF Next1, Moves, ctlVars, irqVars, listVars, hwVars, pmVars
<1>1. TypedClient'
  <2>1. ReleaseFails \in BOOLEAN
    BY DEF ReleaseFails
  <2> QED
    BY <2>1 DEF Controls, Typed, TypedClient
<1>2. CASE SendCmd
  <2>0. script # <<>> /\ Head1.do = "cmd" /\ Head1.ch \in Chans /\ Head1.val \in Cmds
    BY <1>2, ScriptFacts DEF SendCmd, Head1
  <2> DEFINE e == [cmd |-> Head1.val, ch |-> Head1.ch]
  <2>1. e \in Command
    BY <2>0 DEF Command
  <2> HIDE DEF e
  <2>2. Append(cmds, e) \in Seq(Command)
    BY <2>1, AppendProperties DEF Typed, TypedRings
  <2>3. TypedRings'
    BY <1>2, <2>2 DEF SendCmd, Typed, TypedRings, e
  <2>4. TypedRegs'
    BY <1>2, <2>0 DEF SendCmd, Typed, TypedRegs
  <2>5. TypedScript'
    BY <1>2, <2>0 DEF SendCmd, Typed, TypedScript, Head1
  <2>6. TypedTk'
    BY <1>2 DEF SendCmd, Typed, TypedTk
  <2> QED
    BY <1>1, <2>3, <2>4, <2>5, <2>6 DEF Typed
<1>3. CASE CmdAnswered \/ CmdTimesOut
  <2>0. sent /\ script # <<>>
    BY <1>3 DEF CmdAnswered, CmdTimesOut, Typed, TypedScript
  <2>1. PICK good \in BOOLEAN : CmdEnds(good)
    BY <1>3 DEF CmdAnswered, CmdTimesOut, Confirmed
  <2>2. faults' \in 0 .. MaxFaults
    BY <1>3, Counts DEF CmdAnswered, CmdTimesOut, Typed, TypedRegs
  <2>3. /\ script' \in {Head1.ok \o Tail(script), Head1.bad, Tail(script)} /\ sent' = FALSE
        /\ ret' \in BOOLEAN
    BY <2>1 DEF CmdEnds
  <2>4. TypedScript'
    BY <2>0, <2>3, ScriptFacts DEF TypedScript
  <2>5. TypedRegs'
    BY <2>1, <2>2 DEF CmdEnds, Typed, TypedRegs
  <2>6. TypedRings' /\ TypedTk'
    BY <2>1 DEF CmdEnds, Typed, TypedRings, TypedTk
  <2> QED
    BY <1>1, <2>4, <2>5, <2>6 DEF Typed
<1>4. ASSUME script # <<>>, ~sent, Moves PROVE TypedScript'
  BY <1>4, ScriptFacts DEF Typed, TypedScript
<1>5. CASE SetState
  <2>0. script # <<>> /\ ~sent /\ Moves /\ Head1.ch \in Chans /\ Head1.val \in PmStates
    BY <1>5, ScriptFacts DEF SetState, Head1
  <2>1. TypedRegs'
    BY <1>5, <2>0 DEF SetState, Typed, TypedRegs
  <2>2. TypedRings' /\ TypedTk'
    BY <1>5 DEF SetState, Typed, TypedRings, TypedTk
  <2> QED
    BY <1>1, <1>4, <2>0, <2>1, <2>2 DEF Typed
<1>6. CASE ResetRing
  <2>0. script # <<>> /\ ~sent /\ Moves /\ Head1.ch \in Chans
    BY <1>6, ScriptFacts DEF ResetRing
  <2>1. TypedRings'
    BY <1>6, <2>0, SlotFacts DEF ResetRing, Typed, TypedRings
  <2>2. TypedRegs' /\ TypedTk'
    BY <1>6 DEF ResetRing, Typed, TypedRegs, TypedTk
  <2> QED
    BY <1>1, <1>4, <2>0, <2>1, <2>2 DEF Typed
<1>7. CASE Wipe
  <2>0. script # <<>> /\ ~sent /\ Moves /\ Head1.ch \in Chans
    BY <1>7, ScriptFacts DEF Wipe
  <2>1. ASSUME NEW c PROVE Stale(c) \in Seq(Event)
    <3>1. evs \in Seq(Event) /\ DOMAIN evs = 1 .. Len(evs) /\ Len(evs) \in Nat
      BY LenProperties DEF Typed, TypedRings
    <3>2. \A e \in Event : [e EXCEPT !.type = "stale"] \in Event
      BY DEF Event
    <3>3. \A i \in 1 .. Len(evs) : evs[i] \in Event
      BY <3>1, Elems
    <3> QED
      BY <3>1, <3>2, <3>3 DEF Stale
  <2>2. TypedRings'
    BY <1>7, <2>0, <2>1, Zeroes DEF Wipe, Typed, TypedRings
  <2>3. TypedRegs' /\ TypedTk'
    BY <1>7 DEF Wipe, Typed, TypedRegs, TypedTk
  <2> QED
    BY <1>1, <1>4, <2>0, <2>2, <2>3 DEF Typed
<1>8. CASE Program
  <2>0. script # <<>> /\ ~sent /\ Moves /\ Head1.ch \in Chans
    BY <1>8, ScriptFacts DEF Program
  <2>1. TypedRings'
    <3>1. \A h \in [state : ChStates, ctx : BOOLEAN, at : Slots, db : Slots, links : Nat] :
            [h EXCEPT !.ctx = TRUE, !.at = 0, !.db = 0]
              \in [state : ChStates, ctx : BOOLEAN, at : Slots, db : Slots, links : Nat]
      BY SlotFacts
    <3>2. hw' = [hw EXCEPT ![Head1.ch] = [@ EXCEPT !.ctx = TRUE, !.at = 0, !.db = 0]]
      BY <1>8, <2>0 DEF Program, Typed, TypedRings
    <3>3. hw' \in [Chans -> [state : ChStates, ctx : BOOLEAN, at : Slots, db : Slots, links : Nat]]
      BY <2>0, <3>1, <3>2 DEF Typed, TypedRings
    <3> QED
      BY <1>8, <3>3 DEF Program, Typed, TypedRings
  <2>2. TypedRegs' /\ TypedTk'
    BY <1>8 DEF Program, Typed, TypedRegs, TypedTk
  <2> QED
    BY <1>1, <1>4, <2>0, <2>1, <2>2 DEF Typed
<1>9. CASE AllocEvRing
  <2>0. script # <<>> /\ ~sent
    BY <1>9 DEF AllocEvRing
  <2>1. TypedScript'
    <3>1. CASE Moves
      BY <1>4, <2>0, <3>1
    <3>2. CASE script' \in {<<>>, ErrorConfigInt} /\ ret' = FALSE /\ sent' = sent
      BY <2>0, <3>2, Scripts DEF Typed, TypedScript
    <3> QED
      BY <1>9, <3>1, <3>2 DEF AllocEvRing
  <2>2. TypedRegs'
    BY <1>9, Counts DEF AllocEvRing, Typed, TypedRegs
  <2>3. TypedRings' /\ TypedTk'
    BY <1>9, EmptySeq DEF AllocEvRing, Typed, TypedRings, TypedTk
  <2> QED
    BY <1>1, <2>1, <2>2, <2>3 DEF Typed
<1>10. CASE ConfigIrq
  <2>0. script # <<>> /\ ~sent
    BY <1>10 DEF ConfigIrq
  <2>1. TypedScript'
    <3>1. CASE Moves
      BY <1>4, <2>0, <3>1
    <3>2. CASE script' \in {<<>>, ErrorConfigInt} /\ ret' = FALSE /\ sent' = sent
      BY <2>0, <3>2, Scripts DEF Typed, TypedScript
    <3> QED
      BY <1>10, <3>1, <3>2 DEF ConfigIrq
  <2>2. TypedRegs'
    BY <1>10, Counts DEF ConfigIrq, Typed, TypedRegs
  <2>3. TypedRings' /\ TypedTk'
    BY <1>10 DEF ConfigIrq, Typed, TypedRings, TypedTk
  <2> QED
    BY <1>1, <2>1, <2>2, <2>3 DEF Typed
<1>11. CASE SwitchIrq
  <2>0. script # <<>> /\ ~sent /\ Moves
    BY <1>11 DEF SwitchIrq
  <2>1. irq' \in {"off", "on", "disabled"}
    <3>1. Head1.do \in {"irqOff", "disableIrq", "enableIrq"}
      BY <1>11 DEF SwitchIrq, Head1
    <3> QED
      BY <1>11, <3>1 DEF SwitchIrq, Typed, TypedRegs
  <2>2. TypedRegs'
    BY <1>11, <2>1 DEF SwitchIrq, Typed, TypedRegs
  <2>3. TypedRings' /\ TypedTk'
    BY <1>11 DEF SwitchIrq, Typed, TypedRings, TypedTk
  <2> QED
    BY <1>1, <1>4, <2>0, <2>2, <2>3 DEF Typed
<1>12. CASE KillTasklet
  <2>0. script # <<>> /\ ~sent /\ Moves
    BY <1>12 DEF KillTasklet
  <2>1. TypedRegs' /\ TypedRings' /\ TypedTk'
    BY <1>12 DEF KillTasklet, Typed, TypedRegs, TypedRings, TypedTk
  <2> QED
    BY <1>1, <1>4, <2>0, <2>1 DEF Typed
<1>13. CASE FreeMemory
  <2>0. script # <<>> /\ ~sent /\ Moves /\ Head1.ch \in Chans
    BY <1>13, ScriptFacts DEF FreeMemory
  <2>1. TypedRings'
    <3>1. /\ ring' \in {ring, [ring EXCEPT ![Head1.ch] = NoRing]}
          /\ vc' \in {vc, [vc EXCEPT ![Head1.ch] = NoDescs]}
          /\ evs' \in {evs, <<>>}
      BY <1>13 DEF FreeMemory
    <3>2. ring' \in [Chans -> [on : BOOLEAN, rp : Slots, wp : Slots]]
      BY <2>0, <3>1, Zeroes DEF Typed, TypedRings
    <3>3. vc' \in [Chans -> Lists]
      BY <2>0, <3>1, Zeroes DEF Typed, TypedRings
    <3>4. (evs' = evs \/ evs' = <<>>) /\ <<>> \in Seq(Event)
      BY <3>1, EmptySeq
    <3>5. evs' \in Seq(Event)
      BY <3>4 DEF Typed, TypedRings
    <3> QED
      BY <1>13, <3>2, <3>3, <3>5 DEF FreeMemory, Typed, TypedRings
  <2>2. TypedRegs' /\ TypedTk'
    <3>1. evOn' \in BOOLEAN
      BY <1>13 DEF FreeMemory, Typed, TypedRegs
    <3> QED
      BY <1>13, <3>1 DEF FreeMemory, Typed, TypedRegs, TypedTk
  <2> QED
    BY <1>1, <1>4, <2>0, <2>1, <2>2 DEF Typed
<1>14. CASE FreeShared
  <2>0. script # <<>> /\ ~sent
    BY <1>14 DEF FreeShared
  <2>1. pm \in PmStates
    BY DEF Typed, TypedRegs
  <2>2. TypedScript'
    BY <1>14, <2>0, <2>1, Scripts DEF FreeShared, Typed, TypedScript
  <2>3. TypedRegs' /\ TypedRings' /\ TypedTk'
    BY <1>14 DEF FreeShared, Typed, TypedRegs, TypedRings, TypedTk
  <2> QED
    BY <1>1, <2>2, <2>3 DEF Typed
<1> QED
  BY <1>2, <1>3, <1>5, <1>6, <1>7, <1>8, <1>9, <1>10, <1>11, <1>12, <1>13, <1>14 DEF Controls, CtlNext

\* A list without the descriptor that list_del takes.
LEMMA UnlinkedTyped ==
  ASSUME NEW S, NEW ds \in Seq(S), NEW x
  PROVE  Unlinked(ds, x) \in Seq(S)
<1> DEFINE Has(k) == k \in DOMAIN ds /\ ds[k].x = x
           k == CHOOSE k \in DOMAIN ds : ds[k].x = x
<1>1. DOMAIN ds = 1 .. Len(ds) /\ Len(ds) \in Nat
  BY LenProperties
<1>2. Unlinked(ds, x) = IF \E i \in DOMAIN ds : ds[i].x = x THEN RemoveAt(ds, k) ELSE ds
  BY DEF Unlinked
<1>3. (\E i \in DOMAIN ds : ds[i].x = x) => k \in 1 .. Len(ds)
  BY <1>1
<1> HIDE DEF k
<1>4. ASSUME k \in 1 .. Len(ds) PROVE RemoveAt(ds, k) \in Seq(S)
  <2>1. /\ \A i \in 1 .. k - 1 : ds[i] \in S
        /\ \A i \in k + 1 .. Len(ds) : ds[i] \in S
    BY <1>1, <1>4, Elems
  <2>2. SubSeq(ds, 1, k - 1) \in Seq(S) /\ SubSeq(ds, k + 1, Len(ds)) \in Seq(S)
    BY <1>1, <1>4, <2>1, SubSeqProperties
  <2> QED
    BY <2>2, ConcatProperties DEF RemoveAt
<1> QED
  BY <1>2, <1>3, <1>4

\* A step of the interrupt handler.
LEMMA TypedIrq == Typed /\ HandleIrq /\ UNCHANGED clVars => Typed'
<1> SUFFICES ASSUME Typed, HandleIrq, UNCHANGED clVars PROVE Typed'
  OBVIOUS
<1> USE DEF HandleIrq, HandleIeob, ctlVars, listVars, hwVars, pmVars, clVars
<1>1. TypedRegs'
  <2>1. \A c \in Chans : ReadState(c) \in ChStates
    BY DEF ReadState, Typed, TypedRings, ChStates
  <2>2. chState' \in [Chans -> ChStates]
    BY <2>1 DEF Typed, TypedRegs
  <2>3. evState' \in EvStates
    BY DEF Typed, TypedRegs, EvStates
  <2>4. stat' \in [ieob : BOOLEAN, ch : SUBSET Chans, ev : BOOLEAN]
    BY DEF Typed, TypedRegs
  <2>5. ieobOn' \in BOOLEAN /\ sched' \in BOOLEAN
    BY DEF Typed, TypedRegs
  <2>6. done' \in BOOLEAN
    BY DEF Typed, TypedRegs, CompletesCmd
  <2> QED
    BY <2>2, <2>3, <2>4, <2>5, <2>6 DEF Typed, TypedRegs
<1>2. TypedRings' /\ TypedTk'
  BY DEF Typed, TypedRings, TypedTk
<1>3. TypedScript' /\ TypedClient'
  BY DEF Typed, TypedScript, TypedClient
<1> QED
  BY <1>1, <1>2, <1>3 DEF Typed

\* A step of the tasklet.
LEMMA TypedTasklet == Typed /\ DescriptorStays /\ Tasklet => Typed'
<1> SUFFICES ASSUME Typed, DescriptorStays, Tasklet PROVE Typed'
  OBVIOUS
<1> USE DEF TkFrame, ctlVars, hwVars, pmVars, clVars
<1> DEFINE T == [pc : {"off", "scan", "complete", "unlink", "reread", "unmask"}, n : Nat, ch : Chans, x : Xs,
                 cb : BOOLEAN]
<1>0. tk \in T /\ evs \in Seq(Event) /\ Len(evs) \in Nat
  BY LenProperties DEF Typed, TypedTk, TypedRings
<1>1. IdleTk \in T /\ \A n \in Nat : [IdleTk EXCEPT !.pc = "scan", !.n = n] \in T
  BY Zeroes
<1>2. TypedScript'
  BY DEF Tasklet, Complete, TkCallback, TkUnlink, TkStart, TkEvent, TkClear, TkReread, TkUnmask, Typed, TypedScript
<1>3. TypedClient'
  <2>1. cl' = cl /\ cur' = cur /\ grabs' = grabs /\ pauses' = pauses /\ dirty' = dirty
    BY DEF Tasklet, Complete
  <2>2. sig' \in {"none", "ok", "error"}
    BY DEF Tasklet, Complete, Typed, TypedClient
  <2> QED
    BY <2>1, <2>2 DEF Typed, TypedClient
<1>4. ASSUME evs # <<>> PROVE Head(evs) \in Event /\ Tail(evs) \in Seq(Event)
  BY <1>0, <1>4, HeadTailProperties
<1>5. ASSUME tk.n > 0 PROVE Recycled(tk) \in T /\ Recycled(tk).pc = "scan"
  <2>1. tk.n - 1 \in Nat
    BY <1>0, <1>5
  <2> QED
    BY <1>1, <2>1 DEF Recycled, IdleTk
<1>6. CASE TkUnlink
  <2>0. tk.n > 0 /\ tk.ch \in Chans
    BY <1>0, <1>6 DEF TkUnlink, Typed, TypedTk
  <2>1. TypedTk'
    BY <1>5, <1>6, <2>0 DEF TkUnlink, TypedTk
  <2>2. evs' \in Seq(Event)
    <3>1. evs' = Tail(evs)
      BY <1>6 DEF TkUnlink
    <3>2. evs # <<>>
      BY <1>6 DEF TkUnlink, DescriptorStays
    <3> QED
      BY <1>4, <3>1, <3>2
  <2>3. \A v \in Lists : [v EXCEPT !.issued = Unlinked(@, tk.x)] \in Lists
    <3>1. \A v \in Lists : Unlinked(v.issued, tk.x) \in Seq(Descs)
      BY UnlinkedTyped DEF Lists
    <3> QED
      BY <3>1 DEF Lists
  <2>4. vc' \in [Chans -> Lists]
    <3>1. vc' = [vc EXCEPT ![tk.ch].issued = Unlinked(@, tk.x)] /\ vc \in [Chans -> Lists]
      BY <1>6 DEF TkUnlink, Typed, TypedRings
    <3>2. vc[tk.ch] \in Lists
      BY <2>0, <3>1
    <3>3. [vc[tk.ch] EXCEPT !.issued = Unlinked(@, tk.x)] \in Lists
      BY <2>3, <3>2
    <3> QED
      BY <2>0, <3>1, <3>3
  <2>5. TypedRings'
    BY <1>6, <2>2, <2>4 DEF TkUnlink, Typed, TypedRings
  <2>6. TypedRegs'
    BY <1>6 DEF TkUnlink, Typed, TypedRegs
  <2> QED
    BY <1>2, <1>3, <2>1, <2>5, <2>6 DEF Typed
<1>7. CASE TkStart
  <2>1. TypedTk'
    BY <1>0, <1>1, <1>7 DEF TkStart, TypedTk, IdleTk
  <2>2. TypedRegs' /\ TypedRings'
    BY <1>7 DEF TkStart, Typed, TypedRegs, TypedRings
  <2> QED
    BY <1>2, <1>3, <2>1, <2>2 DEF Typed
<1>8. CASE TkEvent
  <2> DEFINE e == Head(evs)
             live == e.type # "stale" /\ cpm[e.ch] = "ACTIVE" /\ vc[e.ch].issued # <<>>
             vd == Head(vc[e.ch].issued)
  <2>0. e \in Event /\ Tail(evs) \in Seq(Event) /\ tk.n > 0
    BY <1>4, <1>8 DEF TkEvent
  <2>1. e.ch \in Chans /\ e.slot \in Slots /\ After(e.slot, 1) \in Slots
    BY <2>0, SlotFacts DEF Event
  <2>2. ASSUME live PROVE vd.x \in Xs /\ vd.cb \in BOOLEAN
    <3>1. vc[e.ch].issued \in Seq(Descs)
      BY <2>1 DEF Typed, TypedRings, Lists
    <3>2. vd \in Descs
      BY <2>2, <3>1, HeadTailProperties
    <3> QED
      BY <3>2, DescTyped
  <2>3. TypedTk' /\ TypedRings'
    <3>1. CASE live
      <4>1. /\ tk' = [tk EXCEPT !.pc = "complete", !.ch = e.ch, !.x = vd.x, !.cb = vd.cb]
            /\ ring' = [ring EXCEPT ![e.ch].rp = After(e.slot, 1)] /\ UNCHANGED evs
        BY <1>8, <3>1 DEF TkEvent
      <4> HIDE DEF e, vd
      <4>2. tk' \in T /\ tk'.n = tk.n
        BY <1>0, <2>1, <2>2, <3>1, <4>1
      <4>3. ring' \in [Chans -> [on : BOOLEAN, rp : Slots, wp : Slots]]
        BY <2>1, <4>1 DEF Typed, TypedRings
      <4> QED
        BY <1>8, <2>0, <4>1, <4>2, <4>3 DEF TkEvent, Typed, TypedTk, TypedRings
    <3>2. CASE ~live
      <4>1. tk' = Recycled(tk) /\ evs' = Tail(evs) /\ UNCHANGED ring
        BY <1>8, <3>2 DEF TkEvent
      <4> HIDE DEF e
      <4> QED
        BY <1>5, <1>8, <2>0, <4>1 DEF TkEvent, Typed, TypedTk, TypedRings
    <3> QED
      BY <3>1, <3>2
  <2>4. TypedRegs'
    BY <1>8 DEF TkEvent, Typed, TypedRegs
  <2> QED
    BY <1>2, <1>3, <2>3, <2>4 DEF Typed
<1>9. CASE TkClear
  <2>1. TypedRegs'
    BY <1>9 DEF TkClear, Typed, TypedRegs
  <2>2. TypedTk'
    BY <1>0, <1>9 DEF TkClear, TypedTk
  <2>3. TypedRings'
    BY <1>9 DEF TkClear, Typed, TypedRings
  <2> QED
    BY <1>2, <1>3, <2>1, <2>2, <2>3 DEF Typed
<1>10. CASE TkReread
  <2>1. TypedTk'
    BY <1>0, <1>10 DEF TkReread, TypedTk
  <2>2. TypedRegs' /\ TypedRings'
    BY <1>10 DEF TkReread, Typed, TypedRegs, TypedRings
  <2> QED
    BY <1>2, <1>3, <2>1, <2>2 DEF Typed
<1>11. CASE TkUnmask
  <2>1. TypedTk'
    BY <1>1, <1>11 DEF TkUnmask, TypedTk, IdleTk
  <2>2. TypedRegs' /\ TypedRings'
    BY <1>11 DEF TkUnmask, Typed, TypedRegs, TypedRings
  <2> QED
    BY <1>2, <1>3, <2>1, <2>2 DEF Typed
<1>12. CASE Complete
  <2>1. TypedTk'
    BY <1>0, <1>12 DEF Complete, TkCallback, Typed, TypedTk
  <2>2. TypedRegs' /\ TypedRings'
    BY <1>12 DEF Complete, TkCallback, Typed, TypedRegs, TypedRings
  <2> QED
    BY <1>2, <1>3, <2>1, <2>2 DEF Typed
<1> QED
  BY <1>6, <1>7, <1>8, <1>9, <1>10, <1>11, <1>12 DEF Tasklet

\* A step of the hardware.
LEMMA TypedHw == Typed /\ HwNext /\ UNCHANGED clVars => Typed'
<1> SUFFICES ASSUME Typed, HwNext, UNCHANGED clVars PROVE Typed'
  OBVIOUS
<1> USE DEF HwFrame, ctlVars, irqVars, listVars, pmVars, clVars
<1> DEFINE H == [state : ChStates, ctx : BOOLEAN, at : Slots, db : Slots, links : Nat]
<1>0. hw \in [Chans -> H] /\ RX \in Chans
  BY DEF Typed, TypedRings, Chans
<1>1. TypedScript' /\ TypedClient' /\ TypedTk'
  <2>1. HwFrame
    BY DEF HwNext, HwCommand, HwStopped, HwElements
  <2> QED
    BY <2>1 DEF Typed, TypedScript, TypedClient, TypedTk
<1>2. CASE HwCommand
  <2> DEFINE d == Head(cmds)
  <2>1. d \in Command /\ Tail(cmds) \in Seq(Command)
    BY <1>2, HeadTailProperties DEF HwCommand, Typed, TypedRings
  <2>2. ASSUME NEW h \in H, NEW cmd \in Cmds, IsChanCmd(cmd) PROVE Obeyed(h, cmd) \in H
    <3>1. \A s \in ChStates : [h EXCEPT !.state = s] \in H /\ [IdleHw EXCEPT !.state = s] \in H
      BY Zeroes
    <3>2. [h EXCEPT !.ctx = FALSE] \in H
      OBVIOUS
    <3>3. cmd \in {"ALLOCATE", "START", "STOP", "RESET", "DE_ALLOC"}
      BY <2>2, CmdNames DEF IsChanCmd
    <3> HIDE DEF H
    <3> QED
      BY <3>1, <3>2, <3>3 DEF Obeyed, ChStates
  <2>3. d.ch \in Chans /\ d.cmd \in Cmds
    BY <2>1 DEF Command
  <2>4. /\ cmds' = Tail(cmds)
        /\ IF IsChanCmd(d.cmd)
           THEN /\ hw' = [hw EXCEPT ![d.ch] = Obeyed(@, d.cmd)]
                /\ stat' = [stat EXCEPT !.ch = @ \cup {d.ch}]
                /\ UNCHANGED hwEv
           ELSE /\ hwEv' = IF d.cmd = "EV_ALLOCATE" THEN "ALLOCATED" ELSE hwEv
                /\ stat' = [stat EXCEPT !.ev = TRUE]
                /\ UNCHANGED hw
        /\ UNCHANGED evs /\ HwFrame
    BY <1>2 DEF HwCommand
  <2> HIDE DEF d
  <2>5. hw' \in [Chans -> H]
    <3>1. CASE IsChanCmd(d.cmd)
      <4>1. Obeyed(hw[d.ch], d.cmd) \in H
        BY <1>0, <2>2, <2>3, <3>1
      <4> HIDE DEF H
      <4> QED
        BY <1>0, <2>3, <2>4, <3>1, <4>1
    <3> QED
      BY <1>0, <2>4, <3>1
  <2>6. TypedRings'
    BY <2>1, <2>4, <2>5 DEF Typed, TypedRings
  <2>7. stat' \in [ieob : BOOLEAN, ch : SUBSET Chans, ev : BOOLEAN]
    <3>1. \A t \in [ieob : BOOLEAN, ch : SUBSET Chans, ev : BOOLEAN] :
            /\ [t EXCEPT !.ch = @ \cup {d.ch}] \in [ieob : BOOLEAN, ch : SUBSET Chans, ev : BOOLEAN]
            /\ [t EXCEPT !.ev = TRUE] \in [ieob : BOOLEAN, ch : SUBSET Chans, ev : BOOLEAN]
      BY <2>3
    <3>2. stat' = [stat EXCEPT !.ch = @ \cup {d.ch}] \/ stat' = [stat EXCEPT !.ev = TRUE]
      BY <2>4
    <3> QED
      BY <3>1, <3>2 DEF Typed, TypedRegs
  <2>8. hwEv' \in EvStates
    BY <2>4 DEF Typed, TypedRegs, EvStates
  <2>9. TypedRegs'
    BY <2>4, <2>7, <2>8 DEF Typed, TypedRegs
  <2> QED
    BY <1>1, <2>6, <2>9 DEF Typed
<1>3. CASE HwStopped
  <2>1. PICK c \in Chans : /\ hw' = [hw EXCEPT ![c].state = "STOPPED"]
                           /\ stat' = [stat EXCEPT !.ch = @ \cup {c}]
    BY <1>3 DEF HwStopped
  <2>2. hw' \in [Chans -> H]
    BY <1>0, <2>1 DEF ChStates
  <2>3. stat' \in [ieob : BOOLEAN, ch : SUBSET Chans, ev : BOOLEAN]
    BY <2>1 DEF Typed, TypedRegs
  <2>4. TypedRings'
    BY <1>3, <2>2 DEF HwStopped, Typed, TypedRings
  <2>5. TypedRegs'
    BY <1>3, <2>3 DEF HwStopped, Typed, TypedRegs
  <2> QED
    BY <1>1, <2>4, <2>5 DEF Typed
<1>4. ASSUME NEW c \in Chans, HwElements(c) PROVE Typed'
  <2> DEFINE ch == Chain(c)
             t == Last(ch)
             linked == {i \in DOMAIN ch : "LINK" \in ch[i].flags}
             links == Cardinality(linked) - (IF c = RX THEN 1 ELSE 0)
             e(good) == [ch |-> c, slot |-> After(hw[c].at, Len(ch) - 1), x |-> t.x,
                         type |-> IF t.kind = "imm" THEN "imed" ELSE "xfer", ok |-> good]
  <2>1. HwRuns(c) /\ UNCHANGED <<hwEv, cmds>> /\ HwFrame
    BY <1>4 DEF HwElements
  <2>2. /\ hw' = [hw EXCEPT ![c].at = After(@, Len(ch)), ![RX].links = @ + links]
        /\ IF "IEOT" \in t.flags
           THEN \E good \in BOOLEAN : /\ evs' = Append(evs, e(good))
                                      /\ stat' = [stat EXCEPT !.ieob = TRUE]
           ELSE UNCHANGED <<evs, stat>>
    BY <1>4 DEF HwElements
  <2>3. /\ ch \in Seq(Tre) /\ Len(ch) \in 1 .. Elements /\ t \in Tre
    BY <2>1, ChainTyped
  <2>4. Len(ch) \in Nat /\ Len(ch) - 1 \in Nat /\ DOMAIN ch = 1 .. Len(ch)
    BY <2>3, SlotFacts, LenProperties
  <2>5. hw[RX].links + links \in Nat
    <3>1. Cardinality(linked) \in Nat
      <4>1. IsFiniteSet(1 .. Len(ch))
        BY <2>4, FS_Interval
      <4>2. linked \in SUBSET (1 .. Len(ch))
        BY <2>4
      <4> HIDE DEF linked
      <4> QED
        BY <4>1, <4>2, FS_Subset, FS_CardinalityType
    <3>2. hw[RX].links \in Nat /\ (c = RX => hw[RX].links > 0)
      BY <1>0, <2>1 DEF HwRuns
    <3> HIDE DEF linked
    <3> QED
      BY <3>1, <3>2
  <2>6. hw[c].at \in Slots /\ After(hw[c].at, Len(ch)) \in Slots /\ After(hw[c].at, Len(ch) - 1) \in Slots
    BY <1>0, <2>4, SlotFacts
  <2>7. \A good \in BOOLEAN : e(good) \in Event
    BY <2>3, <2>6 DEF Event, Tre
  <2> HIDE DEF ch, t, links, e
  <2>8. hw' \in [Chans -> H]
    BY <1>0, <2>2, <2>5, <2>6
  <2>9. evs' \in Seq(Event) /\ stat' \in [ieob : BOOLEAN, ch : SUBSET Chans, ev : BOOLEAN]
    <3>1. CASE "IEOT" \in t.flags
      <4>1. PICK good \in BOOLEAN : evs' = Append(evs, e(good)) /\ stat' = [stat EXCEPT !.ieob = TRUE]
        BY <2>2, <3>1
      <4>2. e(good) \in Event
        BY <2>7
      <4> QED
        BY <4>1, <4>2, AppendProperties DEF Typed, TypedRings, TypedRegs
    <3> QED
      BY <2>2, <3>1 DEF Typed, TypedRings, TypedRegs
  <2>10. TypedRings'
    BY <2>1, <2>8, <2>9 DEF Typed, TypedRings
  <2>11. TypedRegs'
    BY <2>1, <2>9 DEF Typed, TypedRegs
  <2> QED
    BY <1>1, <2>10, <2>11 DEF Typed
<1> QED
  BY <1>2, <1>3, <1>4 DEF HwNext

\* A handler begins, or fails to.
LEMMA Entered ==
  ASSUME Typed, NEW s \in Seq(AnyStep), Enter(s) PROVE TypedScript'
BY DEF Enter, TypedScript

LEMMA Allocated ==
  ASSUME Typed, NEW c \in Chans, Alloc(c) \/ AllocFails
  PROVE  TypedRegs' /\ TypedRings' /\ TypedTk' /\ TypedScript'
<1> USE DEF Quiet, irqVars, hwVars
<1>1. TypedScript'
  <2>1. CASE Alloc(c)
    <3>1. PICK s \in Seq(AnyStep) : Enter(s)
      BY <2>1, Scripts DEF Alloc
    <3> QED
      BY <3>1, Entered
  <2>2. CASE AllocFails
    BY <2>2 DEF AllocFails, Typed, TypedScript
  <2> QED
    BY <2>1, <2>2
<1>2. cpm' \in [Chans -> PmStates]
  BY DEF Alloc, AllocFails, Typed, TypedRegs, PmStates
<1>3. faults' \in 0 .. MaxFaults
  BY Counts DEF Alloc, AllocFails, Typed, TypedRegs
<1>4. TypedRegs'
  BY <1>2, <1>3 DEF Alloc, AllocFails, Typed, TypedRegs
<1>5. ring' \in [Chans -> [on : BOOLEAN, rp : Slots, wp : Slots]]
  <2>1. [on |-> TRUE, rp |-> 0, wp |-> 0] \in [on : BOOLEAN, rp : Slots, wp : Slots]
    BY SlotFacts
  <2>2. \/ ring' = [ring EXCEPT ![c] = [on |-> TRUE, rp |-> 0, wp |-> 0]]
        \/ ring' = ring
    BY DEF Alloc, AllocFails
  <2> QED
    BY <2>1, <2>2 DEF Typed, TypedRings
<1>6. TypedRings' /\ TypedTk'
  BY <1>5 DEF Alloc, AllocFails, Typed, TypedRings, TypedTk
<1> QED
  BY <1>1, <1>4, <1>6

\* The handlers that begin with nothing else done.
LEMMA Began ==
  ASSUME Typed, Terminate \/ Pause \/ Resume \/ \E c \in Chans : Free(c)
  PROVE  TypedRegs' /\ TypedRings' /\ TypedTk' /\ TypedScript'
<1> USE DEF Quiet, irqVars, hwVars
<1>1. cpm \in [Chans -> PmStates]
  BY DEF Typed, TypedRegs
<1>2. /\ \E s \in Seq(AnyStep) : Enter(s)
      /\ UNCHANGED <<cpm, ring, faults>> /\ Quiet
  BY <1>1, Scripts DEF Terminate, Pause, Resume, Free
<1>3. TypedScript'
  BY <1>2, Entered
<1> QED
  BY <1>2, <1>3 DEF Typed, TypedRegs, TypedRings, TypedTk

\* The descriptors of a channel are issued.
LEMMA Issued ==
  ASSUME Typed, NEW c \in Chans, Issue(c)
  PROVE  TypedRegs' /\ TypedRings' /\ TypedTk' /\ TypedScript'
<1> USE DEF ctlVars, irqVars, pmVars
<1> DEFINE issued == vc[c].issued \o vc[c].submitted
           d == Last(issued)
           q == Queued(c, d)
           H == [state : ChStates, ctx : BOOLEAN, at : Slots, db : Slots, links : Nat]
<1>1. /\ vc' = [vc EXCEPT ![c].issued = issued, ![c].submitted = <<>>]
      /\ IF issued = <<>> THEN UNCHANGED <<ring, slot, hw>>
         ELSE /\ ring' = [ring EXCEPT ![c].wp = q.wp]
              /\ slot' = [slot EXCEPT ![c] = q.slot]
              /\ hw' = [hw EXCEPT ![c].db = q.wp]
  BY DEF Issue
<1>2. vc[c] \in Lists /\ vc \in [Chans -> Lists]
  BY DEF Typed, TypedRings
<1>3. issued \in Seq(Descs) /\ <<>> \in Seq(Descs)
  BY <1>2, ConcatProperties, EmptySeq DEF Lists
<1>4. ASSUME issued # <<>> PROVE q.wp \in Slots /\ q.slot \in [Slots -> Tre]
  <2> HIDE DEF issued
  <2>1. Len(issued) \in 1 .. Len(issued) /\ DOMAIN issued = 1 .. Len(issued)
    BY <1>3, <1>4, LenProperties, EmptySeq
  <2>2. d \in Descs
    BY <1>3, <2>1, Elems DEF Last
  <2> HIDE DEF d
  <2> QED
    BY <2>2, QueuedTyped
<1> HIDE DEF issued, d, q
<1>5. vc' \in [Chans -> Lists]
  <2>1. [vc[c] EXCEPT !.issued = issued, !.submitted = <<>>] \in Lists
    BY <1>2, <1>3 DEF Lists
  <2> QED
    BY <1>1, <1>2, <2>1
<1>6. /\ ring' \in [Chans -> [on : BOOLEAN, rp : Slots, wp : Slots]]
      /\ slot' \in [Chans -> [Slots -> Tre]] /\ hw' \in [Chans -> H]
  <2>1. CASE issued = <<>>
    BY <1>1, <2>1 DEF Typed, TypedRings
  <2>2. CASE issued # <<>>
    <3>1. q.wp \in Slots /\ q.slot \in [Slots -> Tre]
      BY <1>4, <2>2
    <3>2. /\ ring' = [ring EXCEPT ![c].wp = q.wp]
          /\ slot' = [slot EXCEPT ![c] = q.slot]
          /\ hw' = [hw EXCEPT ![c].db = q.wp]
      BY <1>1, <2>2
    <3>3. slot' \in [Chans -> [Slots -> Tre]]
      BY <3>1, <3>2 DEF Typed, TypedRings
    <3>4. ring' \in [Chans -> [on : BOOLEAN, rp : Slots, wp : Slots]] /\ hw' \in [Chans -> H]
      BY <3>1, <3>2 DEF Typed, TypedRings
    <3> QED
      BY <3>3, <3>4
  <2> QED
    BY <2>1, <2>2
<1>7. TypedRings'
  BY <1>5, <1>6 DEF Issue, Typed, TypedRings
<1>8. TypedRegs' /\ TypedTk' /\ TypedScript'
  BY DEF Issue, Typed, TypedRegs, TypedTk, TypedScript
<1> QED
  BY <1>7, <1>8

\* A transfer is prepared.
LEMMA SetUp ==
  ASSUME Typed, SetupGsiXfer
  PROVE  Typed'
<1> USE DEF ctlVars, irqVars, pmVars, hwVars
<1>1. PICK s \in Shapes :
       LET t == [x |-> cur.x + 1, cmd |-> s.cmd, imm |-> s.imm]
           reads == t.cmd = "SPI_TX_RX"
           room == HasRoom(TX) /\ (reads => HasRoom(RX))
       IN  /\ cur' = t
           /\ sig' = "none"
           /\ \/ /\ room
                 /\ vc' = [c \in Chans |->
                             IF c = TX \/ reads
                             THEN [vc[c] EXCEPT !.submitted = Append(@, Desc(c, t))] ELSE vc[c]]
                 /\ cl' = IF reads THEN "issueRx" ELSE "issueTx"
                 /\ UNCHANGED faults
              \/ /\ IF room THEN faults < MaxFaults /\ faults' = faults + 1 ELSE UNCHANGED faults
                 /\ vc' = IF reads /\ HasRoom(RX)
                          THEN [vc EXCEPT ![RX].allocated = Append(@, Desc(RX, t))] ELSE vc
                 /\ cl' = "failed"
  BY DEF SetupGsiXfer
<1> DEFINE t == [x |-> cur.x + 1, cmd |-> s.cmd, imm |-> s.imm]
<1>2. t \in Xfers
  <2>1. cur.x \in Xs /\ cur.x < MaxXfers
    BY DEF Typed, TypedClient, Xfers, SetupGsiXfer
  <2>2. cur.x + 1 \in Xs
    BY <2>1, SpiGsiAssumption DEF Xs
  <2>3. s.cmd \in {"SPI_TX", "SPI_TX_RX"} /\ s.imm \in BOOLEAN
    <3>1. CASE s = [cmd |-> "SPI_TX", imm |-> FALSE]
      BY <3>1
    <3>2. CASE s = [cmd |-> "SPI_TX_RX", imm |-> TRUE]
      BY <3>2
    <3> QED
      BY <3>1, <3>2 DEF Shapes
  <2> QED
    BY <2>2, <2>3 DEF t, Xfers
<1> HIDE DEF t
<1>3. vc \in [Chans -> Lists] /\ RX \in Chans
  BY DEF Typed, TypedRings, Chans
<1>4. ASSUME NEW c \in Chans
      PROVE  /\ [vc[c] EXCEPT !.submitted = Append(@, Desc(c, t))] \in Lists
             /\ [vc[c] EXCEPT !.allocated = Append(@, Desc(c, t))] \in Lists
  <2>1. Desc(c, t) \in Descs /\ vc[c] \in Lists
    BY <1>2, <1>3, DescTyped
  <2>2. Append(vc[c].submitted, Desc(c, t)) \in Seq(Descs) /\ Append(vc[c].allocated, Desc(c, t)) \in Seq(Descs)
    BY <2>1, AppendProperties DEF Lists
  <2> QED
    BY <2>1, <2>2 DEF Lists
<1>5. \/ vc' = [c \in Chans |->
                 IF c = TX \/ t.cmd = "SPI_TX_RX"
                 THEN [vc[c] EXCEPT !.submitted = Append(@, Desc(c, t))] ELSE vc[c]]
      \/ vc' = [vc EXCEPT ![RX].allocated = Append(@, Desc(RX, t))]
      \/ vc' = vc
  BY <1>1 DEF t
<1>6. vc' \in [Chans -> Lists]
  <2>1. CASE vc' = [c \in Chans |->
                     IF c = TX \/ t.cmd = "SPI_TX_RX"
                     THEN [vc[c] EXCEPT !.submitted = Append(@, Desc(c, t))] ELSE vc[c]]
    BY <1>3, <1>4, <2>1
  <2>2. CASE vc' = [vc EXCEPT ![RX].allocated = Append(@, Desc(RX, t))]
    <3>1. [vc[RX] EXCEPT !.allocated = Append(@, Desc(RX, t))] \in Lists
      BY <1>3, <1>4
    <3> QED
      BY <1>3, <2>2, <3>1
  <2> QED
    BY <1>3, <1>5, <2>1, <2>2
<1>7. faults' \in 0 .. MaxFaults
  BY <1>1, Counts DEF Typed, TypedRegs
<1>8. TypedClient'
  BY <1>1, <1>2 DEF t, SetupGsiXfer, Typed, TypedClient
<1>9. TypedRings'
  BY <1>6 DEF SetupGsiXfer, Typed, TypedRings
<1>10. TypedRegs' /\ TypedTk' /\ TypedScript'
  BY <1>7 DEF SetupGsiXfer, Typed, TypedRegs, TypedTk, TypedScript
<1> QED
  BY <1>8, <1>9, <1>10 DEF Typed

\* A step of the controller.
LEMMA TypedClientStep == Typed /\ ClientNext => Typed'
<1> SUFFICES ASSUME Typed, ClientNext PROVE Typed'
  OBVIOUS
<1> USE DEF Calls, Returns, Client
<1>1. TX \in Chans /\ RX \in Chans
  BY DEF Chans
<1>2. CASE SetupGsiXfer
  BY <1>2, SetUp
<1>3. ASSUME ~SetupGsiXfer PROVE TypedClient'
  <2>1. ret \in BOOLEAN
    BY DEF Typed, TypedScript
  <2>2. sig' = sig /\ cur' = cur
    BY <1>3 DEF ClientNext, GrabTx, GrabTxFailed, GrabRx, Grabbed, GrabFailed, ReleaseRx, ReleaseTx, Released,
          IssueRx, IssueTx, WaitEnds, TerminateTx, TerminateRx, Terminated, PauseOrResume
  <2>3. /\ cl' \in {cl, "off", "grabTx", "grabRx", "ready", "issueRx", "issueTx", "wait", "failed",
                   "terminateTx", "terminateRx", "freeRx", "freeTx"}
        /\ dirty' \in BOOLEAN
    BY <1>3, <2>1 DEF ClientNext, GrabTx, GrabTxFailed, GrabRx, Grabbed, GrabFailed, ReleaseRx, ReleaseTx,
          Released, IssueRx, IssueTx, WaitEnds, TerminateTx, TerminateRx, Terminated, PauseOrResume,
          Typed, TypedClient
  <2>4. grabs' \in 0 .. MaxGrabs /\ pauses' \in 0 .. MaxPauses
    BY <1>3, Counts DEF ClientNext, GrabTx, GrabTxFailed, GrabRx, Grabbed, GrabFailed, ReleaseRx, ReleaseTx,
          Released, IssueRx, IssueTx, WaitEnds, TerminateTx, TerminateRx, Terminated, PauseOrResume,
          Typed, TypedClient
  <2> QED
    BY <2>2, <2>3, <2>4 DEF Typed, TypedClient
<1>4. CASE GrabTx \/ GrabRx
  BY <1>1, <1>3, <1>4, Allocated DEF GrabTx, GrabRx, SetupGsiXfer, Typed
<1>5. CASE GrabFailed \/ ReleaseRx \/ ReleaseTx \/ TerminateTx \/ TerminateRx \/ PauseOrResume
  BY <1>1, <1>3, <1>5, Began
  DEF GrabFailed, ReleaseRx, ReleaseTx, TerminateTx, TerminateRx, PauseOrResume, SetupGsiXfer, Typed
<1>6. CASE IssueRx \/ IssueTx
  BY <1>1, <1>3, <1>6, Issued DEF IssueRx, IssueTx, SetupGsiXfer, Typed
<1>7. CASE GrabTxFailed \/ Grabbed \/ Released \/ WaitEnds \/ Terminated
  <2>1. UNCHANGED gpiVars /\ ~SetupGsiXfer
    BY <1>7 DEF GrabTxFailed, Grabbed, Released, WaitEnds, Terminated, SetupGsiXfer
  <2>2. TypedRegs' /\ TypedRings' /\ TypedTk' /\ TypedScript'
    BY <2>1 DEF gpiVars, Typed, TypedRegs, TypedRings, TypedTk, TypedScript
  <2> QED
    BY <1>3, <2>1, <2>2 DEF Typed
<1> QED
  BY <1>2, <1>4, <1>5, <1>6, <1>7 DEF ClientNext

\* Any step.
LEMMA TypedStep == Typed /\ DescriptorStays /\ [Next]_vars => Typed'
<1> SUFFICES ASSUME Typed, DescriptorStays, [Next]_vars PROVE Typed'
  OBVIOUS
<1>1. CASE Ended \/ UNCHANGED vars
  <2>1. UNCHANGED vars
    BY <1>1 DEF Ended
  <2> QED
    BY <2>1 DEF vars, gpiVars, clVars, Typed, TypedRegs, TypedRings, TypedTk, TypedScript, TypedClient
<1> QED
  BY <1>1, TypedCtl, TypedIrq, TypedTasklet, TypedHw, TypedClientStep DEF Next

-----------------------------------------------------------------------------
(* The invariant *)

Taking  == {"grabTx", "grabRx"}
Running == {"ready", "issueRx", "issueTx", "wait", "failed", "terminateTx", "terminateRx"}

\* How far the handler that gives channel c back has come.  Its commands have failed or have left
\* something to wipe; pm_state keeps the tasklet out from the first step to the last but one, and
\* the descriptors are gone before the last two.
GivesBack(c) ==
  \E p \in PmStates, pre \in {<<>>, Wiped(c), <<Step("wipe", c)>>} :
    LET s == Freeing(c, p)
        n == Len(s)
    IN  \E k \in 1 .. n + 1 :
          /\ script = pre \o From(s, k)
          /\ pre # <<>> => k = n - 3
          /\ 1 < k /\ k < n => cpm[c] = "PREPARE_TERMINATE"
          /\ n - 1 <= k => vc[c] = NoDescs

\* How far it then is with what both channels share.
GivesShared ==
  /\ vc[TX] = NoDescs
  /\ \E p \in PmStates :
       LET s == FreeingEv(p)
       IN  \E k \in 1 .. Len(s) + 1 :
             /\ script = From(s, k)
             /\ (IF p = "ACTIVE" THEN 4 ELSE 3) < k => ~evOn

\* The handlers, by what their caller is doing.
Handlers ==
  /\ cl = "off" => script = <<>>
  /\ cl \in Taking => script \in Seq(Steps(InitKinds))
  /\ cl \in Running => script \in Seq(Steps(RunKinds))
  /\ cl = "freeRx" => GivesBack(RX)
  /\ cl = "freeTx" => GivesBack(TX) \/ GivesShared

\* The transmit channel has its ring until it is given back, so what both channels share stays
\* when the receive channel goes.
RingOn ==
  /\ cl = "grabTx" => ring[TX].on \/ (~ret /\ script = <<>>)
  /\ cl \in {"grabRx", "freeRx"} \cup Running => ring[TX].on

\* A channel that nobody uses yet, or that has been given back, has no descriptors.
Empty ==
  /\ cl \in {"off"} \cup Taking => vc[TX] = NoDescs
  /\ cl \in {"off", "freeTx"} \cup Taking => vc[RX] = NoDescs

\* The tasklet works while the registers are accessible, on channels that are active.
Works ==
  /\ tk.pc # "off" => RegAccessValid(pm)
  /\ tk.pc \in Held => cpm[tk.ch] = "ACTIVE"

\* While the registers are not accessible nothing clears the pending interrupt of an event.
Pending == evOn /\ evs # <<>> /\ ~RegAccessValid(pm) => stat.ieob

IInv == Typed /\ Handlers /\ RingOn /\ Empty /\ Works /\ Pending /\ DescriptorStays /\ NoLostEvent

-----------------------------------------------------------------------------
(* The holder of ctrl_lock *)

\* What a step changes, by what it is.
LEMMA Effects ==
  ASSUME Typed, CtlNext
  PROVE  /\ script # <<>> /\ tk' = tk /\ sched' = sched /\ stat' = stat
         /\ Head1.do \notin {"wipe", "freeVc"} => vc' = vc
         /\ Head1.do # "setPm" => pm' = pm
         /\ Head1.do # "setCh" => cpm' = cpm
         /\ Head1.do \notin {"allocEv", "freeEv"} => evOn' = evOn
         /\ Head1.do \notin {"allocEv", "freeEv", "wipe"} => evs' = evs
         /\ Head1.do \notin {"resetRing", "freeRing"} => ring' = ring
         /\ Head1.do \notin {"cmd", "allocEv", "configIrq", "others"} => script' = Tail(script)
         /\ Head1.do = "setPm" => pm' = Head1.val /\ tk.pc = "off"
         /\ Head1.do = "setCh" => cpm' = [cpm EXCEPT ![Head1.ch] = Head1.val] /\ tk.pc = "off"
         /\ Head1.do = "wipe" =>
              vc' = [vc EXCEPT ![Head1.ch] = NoDescs] /\ evs' = Stale(Head1.ch) /\ tk.pc = "off"
         /\ Head1.do = "freeVc" => vc' = [vc EXCEPT ![Head1.ch] = NoDescs]
         /\ Head1.do = "resetRing" => ring' = [ring EXCEPT ![Head1.ch].rp = 0, ![Head1.ch].wp = 0]
         /\ Head1.do = "freeRing" => ring' = [ring EXCEPT ![Head1.ch] = NoRing]
         /\ Head1.do = "freeEv" => evOn' = FALSE
         /\ Head1.do = "allocEv" => evs' = <<>> \/ (evs' = evs /\ evOn' = evOn)
         /\ Head1.do = "cmd" =>
              script' \in {script, Head1.ok \o Tail(script), IF Head1.must THEN Head1.bad ELSE Tail(script)}
         /\ Head1.do = "allocEv" => script' \in {<<>>, Tail(script)}
         /\ Head1.do = "configIrq" => script' \in {ErrorConfigInt, Tail(script)}
         /\ Head1.do = "others" =>
              script' = IF \E c \in Chans : ring[c].on THEN <<>> ELSE FreeingEv(pm)
<1> USE DEF Next1, Moves, ctlVars, irqVars, listVars, hwVars, pmVars, Head1
<1>1. CASE SendCmd
  BY <1>1 DEF SendCmd
<1>2. CASE CmdAnswered \/ CmdTimesOut
  <2>1. script # <<>> /\ Head1.do = "cmd"
    BY <1>2 DEF CmdAnswered, CmdTimesOut, Typed, TypedScript
  <2>2. PICK good \in BOOLEAN : CmdEnds(good)
    BY <1>2 DEF CmdAnswered, CmdTimesOut, Confirmed
  <2> QED
    BY <2>1, <2>2 DEF CmdEnds
<1>3. CASE SetState
  BY <1>3 DEF SetState, Readers
<1>4. CASE ResetRing
  BY <1>4 DEF ResetRing
<1>5. CASE Wipe
  BY <1>5 DEF Wipe, Readers
<1>6. CASE Program
  BY <1>6 DEF Program
<1>7. CASE AllocEvRing
  BY <1>7 DEF AllocEvRing
<1>8. CASE ConfigIrq
  BY <1>8 DEF ConfigIrq
<1>9. CASE SwitchIrq
  BY <1>9 DEF SwitchIrq
<1>10. CASE KillTasklet
  BY <1>10 DEF KillTasklet
<1>11. CASE FreeMemory
  BY <1>11 DEF FreeMemory
<1>12. CASE FreeShared
  BY <1>12 DEF FreeShared
<1> QED
  BY <1>1, <1>2, <1>3, <1>4, <1>5, <1>6, <1>7, <1>8, <1>9, <1>10, <1>11, <1>12 DEF CtlNext

\* A handler keeps to its kinds of steps.
LEMMA KindsKept ==
  ASSUME Typed, CtlNext, NEW K, script \in Seq(Steps(K)), "others" \notin K,
         "configIrq" \in K => ErrorConfigInt \in Seq(Steps(K))
  PROVE  script' \in Seq(Steps(K)) /\ Head1 \in Steps(K)
<1>1. script # <<>> /\ Head1 \in Steps(K) /\ Tail(script) \in Seq(Steps(K))
  BY Effects, HeadTailProperties DEF Head1
<1>2. Head1.do \in K /\ Head1.ok \in Seq(Plain(K)) /\ Head1.bad \in Seq(Undo(K))
  BY <1>1 DEF Steps
<1>3. Head1.ok \in Seq(Steps(K)) /\ Head1.bad \in Seq(Steps(K)) /\ <<>> \in Seq(Steps(K))
  BY <1>2, StepSets, EmptySeq
<1>4. Head1.ok \o Tail(script) \in Seq(Steps(K))
  BY <1>1, <1>3, ConcatProperties
<1> QED
  BY <1>1, <1>2, <1>3, <1>4, Effects

\* The fields of a step.
LEMMA Fields ==
  /\ \A k, c : Step(k, c).do = k /\ Step(k, c).ch = c
  /\ \A c, p : SetCh(c, p).do = "setCh" /\ SetCh(c, p).ch = c /\ SetCh(c, p).val = p
  /\ \A p : SetPm(p).do = "setPm" /\ SetPm(p).val = p
  /\ \A cmd, c : Cmd(cmd, c).do = "cmd" /\ Cmd(cmd, c).ok = <<>> /\ ~Cmd(cmd, c).must
BY DEF Step, SetCh, SetPm, Cmd

\* The steps of the handler that gives channel c back.
LEMMA BackStep ==
  ASSUME Typed, CtlNext, NEW c \in Chans, GivesBack(c)
  PROVE  /\ Head1.ch = c /\ Head1.do \in FreeKinds
         /\ Head1.do = "freeVc" => cpm[c] = "PREPARE_TERMINATE"
         /\ \/ GivesBack(c)'
            \/ /\ \A d \in Chans : ~ring[d].on
               /\ vc[c] = NoDescs /\ vc' = vc /\ script' = FreeingEv(pm)
<1>1. PICK p \in PmStates, pre \in {<<>>, Wiped(c), <<Step("wipe", c)>>} :
        LET s == Freeing(c, p)
            n == Len(s)
        IN  \E k \in 1 .. n + 1 :
              /\ script = pre \o From(s, k)
              /\ pre # <<>> => k = n - 3
              /\ 1 < k /\ k < n => cpm[c] = "PREPARE_TERMINATE"
              /\ n - 1 <= k => vc[c] = NoDescs
  BY DEF GivesBack
<1> DEFINE s == Freeing(c, p)
           n == Len(s)
           U == Undo(FreeKinds)
<1>2. PICK k \in 1 .. n + 1 :
        /\ script = pre \o From(s, k)
        /\ pre # <<>> => k = n - 3
        /\ 1 < k /\ k < n => cpm[c] = "PREPARE_TERMINATE"
        /\ n - 1 <= k => vc[c] = NoDescs
  BY <1>1
<1>3. /\ s \in Seq(U) /\ n \in {5, 8}
      /\ s[1] = SetCh(c, "PREPARE_TERMINATE")
      /\ s[n - 3] = Step("freeRing", c) /\ s[n - 2] = Step("freeVc", c)
      /\ s[n - 1] = SetCh(c, "DISABLE") /\ s[n] = Step("others", c)
  BY FreeScript
<1>4. \A i \in 2 .. n - 4 : /\ s[i].do = "cmd" /\ ~s[i].must
                            /\ s[i].ok = <<>> \/ (s[i].ok = Wiped(c) /\ i = n - 4)
                            /\ s[i].ch = c
  BY FreeScript
<1>5. /\ script # <<>>
      /\ vc \in [Chans -> Lists] /\ cpm \in [Chans -> PmStates]
  BY Effects DEF Typed, TypedRings, TypedRegs
<1>6. /\ Step("resetRing", c) \in U /\ Step("wipe", c) \in U
  BY PlainSteps, StepSets DEF FreeKinds
<1>7. ASSUME NEW q \in {<<>>, Wiped(c), <<Step("wipe", c)>>}, NEW j \in 1 .. n + 1,
             script' = q \o From(s, j), q # <<>> => j = n - 3,
             1 < j /\ j < n => cpm'[c] = "PREPARE_TERMINATE",
             n - 1 <= j => vc'[c] = NoDescs
      PROVE  GivesBack(c)'
  BY <1>7 DEF GivesBack
<1> HIDE DEF s, n, U
<1>8. n \in Nat /\ n >= 5 /\ k \in Nat /\ 1 <= k /\ k <= n + 1
  BY <1>3
<1>9. From(s, n + 1) = <<>> /\ \A i \in 1 .. n + 1 : From(s, i) \in Seq(U) /\ <<>> \o From(s, i) = From(s, i)
  <2>1. From(s, n + 1) = <<>>
    BY <1>3, NoneLeft DEF n
  <2>2. \A i \in 1 .. n : From(s, i) \in Seq(U)
    BY <1>3, Left DEF n
  <2>3. ASSUME NEW i \in 1 .. n + 1 PROVE From(s, i) \in Seq(U)
    <3>1. i \in 1 .. n \/ i = n + 1
      BY <1>8
    <3> QED
      BY <2>1, <2>2, <3>1, EmptySeq
  <2> QED
    BY <2>1, <2>3, ConcatEmptySeq
\* The states that come next.
<1>10. ASSUME NEW j \in 1 .. n + 1, script' = From(s, j),
              1 < j /\ j < n => cpm'[c] = "PREPARE_TERMINATE",
              n - 1 <= j => vc'[c] = NoDescs
       PROVE  GivesBack(c)'
  <2>1. script' = <<>> \o From(s, j)
    BY <1>9, <1>10
  <2> QED
    BY <1>7, <1>10, <2>1
<1>11. ASSUME NEW q \in {Wiped(c), <<Step("wipe", c)>>}, script' = q \o From(s, n - 3),
              cpm'[c] = "PREPARE_TERMINATE"
       PROVE  GivesBack(c)'
  <2> DEFINE j == n - 3
  <2>1. j \in 1 .. n + 1 /\ ~(n - 1 <= j)
    BY <1>8
  <2>2. script' = q \o From(s, j) /\ j = n - 3
    BY <1>11
  <2> HIDE DEF j
  <2> QED
    BY <1>7, <1>11, <2>1, <2>2
<1>12. CASE pre = Wiped(c)
  <2>1. k = n - 3 /\ cpm[c] = "PREPARE_TERMINATE" /\ script = Wiped(c) \o From(s, k)
    <3>1. pre # <<>>
      BY <1>12 DEF Wiped
    <3> QED
      BY <1>2, <1>8, <1>12, <3>1
  <2> DEFINE t == From(s, k)
  <2>2. t \in Seq(U)
    BY <1>9
  <2>3. script = Wiped(c) \o t
    BY <2>1
  <2> HIDE DEF t
  <2>4. Wiped(c) \in Seq(U) /\ Len(Wiped(c)) = 2
        /\ Wiped(c)[1] = Step("resetRing", c) /\ Wiped(c)[2] = Step("wipe", c)
    BY <1>6 DEF Wiped
  <2>5. Head(script) = Wiped(c)[1] /\ Tail(script) = <<Wiped(c)[2]>> \o t
    BY <2>2, <2>3, <2>4, ConsedTwice
  <2>6. Head1 = Step("resetRing", c) /\ Tail(script) = <<Step("wipe", c)>> \o t
    BY <2>4, <2>5 DEF Head1
  <2>7. Head1.do = "resetRing" /\ Head1.ch = c
    BY <2>6, Fields
  <2>8. script' = Tail(script) /\ cpm' = cpm
    BY <2>7, Effects
  <2>9. GivesBack(c)'
    BY <1>11, <2>1, <2>6, <2>8 DEF t
  <2> QED
    BY <2>7, <2>9 DEF FreeKinds
<1>13. CASE pre = <<Step("wipe", c)>>
  <2>1. k = n - 3 /\ cpm[c] = "PREPARE_TERMINATE" /\ script = <<Step("wipe", c)>> \o From(s, k)
    BY <1>2, <1>8, <1>13
  <2>2. Head1 = Step("wipe", c) /\ Tail(script) = From(s, k)
    BY <1>6, <1>9, <2>1, Consed DEF Head1
  <2>3. Head1.do = "wipe" /\ Head1.ch = c
    BY <2>2, Fields
  <2>4. script' = Tail(script) /\ vc' = [vc EXCEPT ![c] = NoDescs] /\ cpm' = cpm
    BY <2>3, Effects
  <2>5. GivesBack(c)'
    BY <1>5, <1>10, <2>1, <2>2, <2>4
  <2> QED
    BY <2>3, <2>5 DEF FreeKinds
<1>14. CASE pre = <<>>
  <2>1. script = From(s, k)
    BY <1>2, <1>9, <1>14
  <2>2. k # n + 1
    BY <1>5, <1>9, <2>1
  <2>3. k <= n /\ k \in 1 .. n /\ k + 1 \in 1 .. n + 1
    BY <1>8, <2>2
  <2>4. Head1 = s[k] /\ Tail(script) = From(s, k + 1)
    BY <1>3, <2>1, <2>3, Left DEF Head1, n
  <2>5. 1 < k /\ k < n => cpm[c] = "PREPARE_TERMINATE"
    BY <1>2
  <2>6. n - 1 <= k => vc[c] = NoDescs
    BY <1>2
  <2>14. ASSUME script' = Tail(script), k + 1 < n => cpm'[c] = "PREPARE_TERMINATE",
                n - 1 <= k + 1 => vc'[c] = NoDescs
         PROVE  GivesBack(c)'
    <3> DEFINE j == k + 1
    <3>1. /\ j \in 1 .. n + 1 /\ script' = From(s, j)
          /\ 1 < j /\ j < n => cpm'[c] = "PREPARE_TERMINATE"
          /\ n - 1 <= j => vc'[c] = NoDescs
      BY <2>3, <2>4, <2>14
    <3> HIDE DEF j
    <3> QED
      BY <1>10, <3>1
  <2>7. CASE k = 1
    <3>1. Head1.do = "setCh" /\ Head1.ch = c /\ Head1.val = "PREPARE_TERMINATE"
      BY <1>3, <2>4, <2>7, Fields
    <3>2. script' = Tail(script) /\ cpm' = [cpm EXCEPT ![c] = "PREPARE_TERMINATE"]
      BY <3>1, Effects
    <3>3. k + 1 < n - 1
      BY <1>8, <2>7
    <3>4. GivesBack(c)'
      BY <1>5, <1>8, <2>14, <3>2, <3>3
    <3> QED
      BY <3>1, <3>4 DEF FreeKinds
  <2>8. CASE k \in 2 .. n - 4
    <3>1. /\ Head1.do = "cmd" /\ ~Head1.must /\ Head1.ch = c
          /\ Head1.ok = <<>> \/ (Head1.ok = Wiped(c) /\ k = n - 4)
      BY <1>4, <2>4, <2>8
    <3>2. /\ cpm' = cpm /\ vc' = vc
          /\ script' = script \/ script' = Head1.ok \o Tail(script) \/ script' = Tail(script)
      BY <3>1, Effects
    <3>3. cpm'[c] = "PREPARE_TERMINATE" /\ k + 1 < n - 1
      BY <1>8, <2>5, <2>8, <3>2
    <3>4. ASSUME script' = script PROVE GivesBack(c)'
      <4>1. script' = From(s, k) /\ k \in 1 .. n + 1 /\ ~(n - 1 <= k)
        BY <1>8, <2>1, <2>3, <3>3, <3>4
      <4> QED
        BY <1>10, <3>3, <4>1
    <3>5. ASSUME script' = Tail(script) PROVE GivesBack(c)'
      <4>1. ~(n - 1 <= k + 1)
        BY <1>8, <3>3
      <4> QED
        BY <2>14, <3>3, <3>5, <4>1
    <3>6. ASSUME script' = Head1.ok \o Tail(script) PROVE GivesBack(c)'
      <4>1. CASE Head1.ok = <<>>
        BY <1>9, <2>3, <2>4, <3>5, <3>6, <4>1
      <4>2. CASE Head1.ok = Wiped(c) /\ k = n - 4
        <5>1. k + 1 = n - 3
          BY <1>8, <4>2
        <5>2. script' = Wiped(c) \o From(s, n - 3)
          BY <2>4, <3>6, <4>2, <5>1
        <5> QED
          BY <1>11, <3>3, <5>2
      <4> QED
        BY <3>1, <4>1, <4>2
    <3>7. GivesBack(c)'
      BY <3>2, <3>4, <3>5, <3>6
    <3> QED
      BY <3>1, <3>7 DEF FreeKinds
  <2>9. CASE k = n - 3
    <3>1. Head1.do = "freeRing" /\ Head1.ch = c
      BY <1>3, <2>4, <2>9, Fields
    <3>2. script' = Tail(script) /\ cpm' = cpm
      BY <3>1, Effects
    <3>3. cpm'[c] = "PREPARE_TERMINATE" /\ k + 1 < n - 1
      BY <1>8, <2>5, <2>9, <3>2
    <3>4. GivesBack(c)'
      BY <1>8, <2>14, <3>2, <3>3
    <3> QED
      BY <3>1, <3>4 DEF FreeKinds
  <2>10. CASE k = n - 2
    <3>1. Head1.do = "freeVc" /\ Head1.ch = c
      BY <1>3, <2>4, <2>10, Fields
    <3>2. script' = Tail(script) /\ cpm' = cpm /\ vc' = [vc EXCEPT ![c] = NoDescs]
      BY <3>1, Effects
    <3>3. cpm[c] = "PREPARE_TERMINATE"
      BY <1>8, <2>5, <2>10
    <3>4. GivesBack(c)'
      BY <1>5, <2>14, <3>2, <3>3
    <3> QED
      BY <3>1, <3>3, <3>4 DEF FreeKinds
  <2>11. CASE k = n - 1
    <3>1. Head1.do = "setCh" /\ Head1.ch = c
      BY <1>3, <2>4, <2>11, Fields
    <3>2. script' = Tail(script) /\ vc' = vc
      BY <3>1, Effects
    <3>3. vc'[c] = NoDescs /\ ~(k + 1 < n)
      BY <1>8, <2>6, <2>11, <3>2
    <3>4. GivesBack(c)'
      BY <2>14, <3>2, <3>3
    <3> QED
      BY <3>1, <3>4 DEF FreeKinds
  <2>12. CASE k = n
    <3>1. Head1.do = "others" /\ Head1.ch = c
      BY <1>3, <2>4, <2>12, Fields
    <3>2. /\ script' = IF \E d \in Chans : ring[d].on THEN <<>> ELSE FreeingEv(pm)
          /\ vc' = vc
      BY <3>1, Effects
    <3>3. vc[c] = NoDescs
      BY <1>8, <2>6, <2>12
    <3>4. CASE \E d \in Chans : ring[d].on
      <4>1. script' = From(s, n + 1) /\ n + 1 \in 1 .. n + 1 /\ ~(n + 1 < n)
        BY <1>8, <1>9, <3>2, <3>4
      <4>2. GivesBack(c)'
        BY <1>10, <3>2, <3>3, <4>1
      <4> QED
        BY <3>1, <4>2 DEF FreeKinds
    <3>5. CASE ~\E d \in Chans : ring[d].on
      BY <3>1, <3>2, <3>3, <3>5 DEF FreeKinds
    <3> QED
      BY <3>4, <3>5
  <2>13. k = 1 \/ k \in 2 .. n - 4 \/ k = n - 3 \/ k = n - 2 \/ k = n - 1 \/ k = n
    BY <1>8, <2>3
  <2> QED
    BY <2>7, <2>8, <2>9, <2>10, <2>11, <2>12, <2>13
<1> QED
  BY <1>12, <1>13, <1>14

\* The steps of the handler that gives back what both channels share.
LEMMA SharedStep ==
  ASSUME Typed, CtlNext, GivesShared
  PROVE  /\ GivesShared' /\ vc' = vc
         /\ Head1.do \in {"setPm", "killTasklet", "cmd", "freeEv", "irqOff"}
         /\ Head1.do = "setPm" => RegAccessValid(Head1.val) \/ ~evOn
<1>1. PICK p \in PmStates :
       LET s == FreeingEv(p)
       IN  \E k \in 1 .. Len(s) + 1 :
             /\ script = From(s, k)
             /\ (IF p = "ACTIVE" THEN 4 ELSE 3) < k => ~evOn
  BY DEF GivesShared
<1> DEFINE s == FreeingEv(p)
           m == Len(s)
           f == IF p = "ACTIVE" THEN 4 ELSE 3
           K == {"setPm", "killTasklet", "cmd", "freeEv", "irqOff"}
           U == Undo(K) \cup {SetPm("DISABLE")}
<1>2. PICK k \in 1 .. m + 1 : script = From(s, k) /\ (f < k => ~evOn)
  BY <1>1
<1>3. /\ s \in Seq(U) /\ m = (IF p = "ACTIVE" THEN 6 ELSE 4)
      /\ s[1] = SetPm("PREPARE_TERMINATE") /\ s[2] = Step("killTasklet", TX)
      /\ s[f] = Step("freeEv", TX) /\ s[m] = SetPm("DISABLE")
      /\ p = "ACTIVE" => s[3] = Cmd("EV_DEALLOC", TX) /\ s[5] = Step("irqOff", TX)
  BY FreeEvScript
<1>4. script # <<>> /\ vc[TX] = NoDescs
  BY Effects DEF GivesShared
<1>5. ASSUME NEW j \in 1 .. m + 1, script' = From(s, j), f < j => ~evOn', vc' = vc
      PROVE  GivesShared'
  BY <1>4, <1>5 DEF GivesShared
<1> HIDE DEF s, m, U, f
<1>15. /\ s[1].do = "setPm" /\ s[1].val = "PREPARE_TERMINATE"
       /\ s[2].do = "killTasklet" /\ s[f].do = "freeEv" /\ s[m].do = "setPm"
       /\ p = "ACTIVE" => /\ s[3].do = "cmd" /\ s[3].ok = <<>> /\ ~s[3].must
                          /\ s[5].do = "irqOff"
  BY <1>3, Fields
<1>16. m = (IF p = "ACTIVE" THEN 6 ELSE 4) /\ f = (IF p = "ACTIVE" THEN 4 ELSE 3)
  BY <1>3 DEF f
<1>6. k \in 1 .. m
  <2>1. From(s, m + 1) = <<>>
    BY <1>3, NoneLeft DEF m
  <2> QED
    BY <1>2, <1>3, <1>4, <2>1 DEF f
<1>7. Head1 = s[k] /\ Tail(script) = From(s, k + 1) /\ k + 1 \in 1 .. m + 1
  BY <1>2, <1>3, <1>6, Left DEF Head1, m
<1>8. CASE k = 1
  <2>1. Head1.do = "setPm" /\ Head1.val = "PREPARE_TERMINATE"
    BY <1>15, <1>7, <1>8
  <2>2. script' = From(s, k + 1) /\ vc' = vc /\ ~(f < k + 1)
    BY <1>7, <1>8, <2>1, Effects DEF f
  <2> QED
    BY <1>5, <1>7, <2>1, <2>2 DEF RegAccessValid
<1>9. CASE k = 2
  <2>1. Head1.do = "killTasklet"
    BY <1>15, <1>7, <1>9
  <2>2. script' = From(s, k + 1) /\ vc' = vc /\ ~(f < k + 1)
    BY <1>7, <1>9, <2>1, Effects DEF f
  <2> QED
    BY <1>5, <1>7, <2>1, <2>2
<1>10. CASE k = f
  <2>1. Head1.do = "freeEv"
    BY <1>15, <1>7, <1>10
  <2>2. script' = From(s, k + 1) /\ vc' = vc /\ ~evOn'
    BY <1>7, <2>1, Effects
  <2> QED
    BY <1>5, <1>7, <2>1, <2>2
<1>11. CASE k = m
  <2>1. Head1.do = "setPm"
    BY <1>15, <1>7, <1>11
  <2>2. script' = From(s, k + 1) /\ vc' = vc /\ evOn' = evOn /\ ~evOn
    BY <1>2, <1>16, <1>7, <1>11, <2>1, Effects
  <2> QED
    BY <1>5, <1>7, <2>1, <2>2
<1>12. CASE p = "ACTIVE" /\ k = 3
  <2>1. Head1.do = "cmd" /\ Head1.ok = <<>> /\ ~Head1.must
    BY <1>15, <1>7, <1>12
  <2>2. Tail(script) \in Seq(U)
    BY <1>3, <1>6, <1>7, Left, HeadTailProperties, <1>2 DEF m
  <2>3. <<>> \o Tail(script) = Tail(script)
    BY <2>2, ConcatEmptySeq
  <2>4. script' \in {script, Tail(script)} /\ vc' = vc /\ ~(f < k + 1)
    BY <1>12, <2>1, <2>3, Effects DEF f
  <2>5. GivesShared'
    <3>1. ~(f < k) /\ k \in 1 .. m + 1 /\ k + 1 \in 1 .. m + 1
      BY <1>7, <1>12, <1>16
    <3>2. CASE script' = script
      BY <1>2, <1>5, <2>4, <3>1, <3>2
    <3>3. CASE script' = Tail(script)
      BY <1>5, <1>7, <2>4, <3>1, <3>3
    <3> QED
      BY <2>4, <3>2, <3>3
  <2> QED
    BY <2>1, <2>4, <2>5
<1>13. CASE p = "ACTIVE" /\ k = 5
  <2>1. Head1.do = "irqOff"
    BY <1>15, <1>7, <1>13
  <2>2. script' = From(s, k + 1) /\ vc' = vc /\ evOn' = evOn /\ ~evOn
    BY <1>2, <1>7, <1>13, <2>1, Effects DEF f
  <2> QED
    BY <1>5, <1>7, <2>1, <2>2
<1>14. \/ k = 1 \/ k = 2 \/ k = f \/ k = m
       \/ (p = "ACTIVE" /\ k = 3) \/ (p = "ACTIVE" /\ k = 5)
  BY <1>6, <1>16
<1> QED
  BY <1>8, <1>9, <1>10, <1>11, <1>12, <1>13, <1>14

\* What is known of the next step of a handler.
LEMMA HandlerStep ==
  ASSUME IInv, Controls
  PROVE  /\ Handlers'
         /\ Head1.do = "setPm" => RegAccessValid(Head1.val) \/ ~evOn
         /\ Head1.do = "freeVc" => cpm[Head1.ch] = "PREPARE_TERMINATE"
         /\ Head1.do \in {"allocEv", "freeEv"} => \A c \in Chans : vc[c] = NoDescs
         /\ Head1.do = "freeRing" => cl = "freeTx" \/ (cl = "freeRx" /\ Head1.ch = RX)
         /\ ring[TX].on \/ cl = "freeTx"
<1>1. Typed /\ CtlNext /\ cl' = cl
  BY DEF IInv, Controls
<1>2. script # <<>>
  BY <1>1, Effects
<1>3. TX \in Chans /\ RX \in Chans /\ \A c \in Chans : c = TX \/ c = RX
  BY DEF Chans
<1>4. CASE cl \in Taking
  <2>1. script \in Seq(Steps(InitKinds))
    BY <1>4 DEF IInv, Handlers
  <2>2. "others" \notin InitKinds /\ ErrorConfigInt \in Seq(Steps(InitKinds))
    BY <1>3, InitScripts DEF InitKinds
  <2>3. script' \in Seq(Steps(InitKinds)) /\ Head1 \in Steps(InitKinds)
    BY <1>1, <2>1, <2>2, KindsKept
  <2>4. Head1.do \in InitKinds /\ (Head1.do = "setPm" => RegAccessValid(Head1.val))
    BY <2>3 DEF Steps, Harmless
  <2>5. Handlers'
    BY <1>1, <1>4, <2>3 DEF Handlers, Taking, Running
  <2>6. \A c \in Chans : vc[c] = NoDescs
    BY <1>3, <1>4 DEF IInv, Empty
  <2>7. ring[TX].on
    BY <1>2, <1>4 DEF IInv, RingOn, Taking
  <2> QED
    BY <2>4, <2>5, <2>6, <2>7 DEF InitKinds
<1>5. CASE cl \in Running
  <2>1. script \in Seq(Steps(RunKinds))
    BY <1>5 DEF IInv, Handlers
  <2>2. "others" \notin RunKinds /\ "configIrq" \notin RunKinds
    BY DEF RunKinds
  <2>3. script' \in Seq(Steps(RunKinds)) /\ Head1 \in Steps(RunKinds)
    BY <1>1, <2>1, <2>2, KindsKept
  <2>4. Head1.do \in RunKinds /\ (Head1.do = "setPm" => RegAccessValid(Head1.val))
    BY <2>3 DEF Steps, Harmless
  <2>5. Handlers'
    BY <1>1, <1>5, <2>3 DEF Handlers, Taking, Running
  <2>6. ring[TX].on
    BY <1>5 DEF IInv, RingOn
  <2> QED
    BY <2>4, <2>5, <2>6 DEF RunKinds
<1>6. CASE cl = "freeRx"
  <2>1. GivesBack(RX) /\ ring[TX].on
    BY <1>6 DEF IInv, Handlers, RingOn
  <2>2. /\ Head1.ch = RX /\ Head1.do \in FreeKinds
        /\ Head1.do = "freeVc" => cpm[RX] = "PREPARE_TERMINATE"
        /\ GivesBack(RX)'
    BY <1>1, <1>3, <2>1, BackStep
  <2>3. Handlers'
    BY <1>1, <1>6, <2>2 DEF Handlers, Taking, Running
  <2> QED
    BY <1>6, <2>1, <2>2, <2>3 DEF FreeKinds
<1>7. CASE cl = "freeTx" /\ GivesBack(TX)
  <2>1. /\ Head1.ch = TX /\ Head1.do \in FreeKinds
        /\ Head1.do = "freeVc" => cpm[TX] = "PREPARE_TERMINATE"
        /\ GivesBack(TX)' \/ (vc[TX] = NoDescs /\ vc' = vc /\ script' = FreeingEv(pm))
    BY <1>1, <1>3, <1>7, BackStep
  <2>2. ASSUME vc[TX] = NoDescs, vc' = vc, script' = FreeingEv(pm) PROVE GivesShared'
    <3> DEFINE s == FreeingEv(pm)
               U == Undo({"setPm", "killTasklet", "cmd", "freeEv", "irqOff"}) \cup {SetPm("DISABLE")}
    <3>1. pm \in PmStates
      BY <1>1 DEF Typed, TypedRegs
    <3>2. s \in Seq(U) /\ Len(s) = (IF pm = "ACTIVE" THEN 6 ELSE 4)
      BY FreeEvScript
    <3> HIDE DEF U
    <3>3. s = From(s, 1) /\ 1 \in 1 .. Len(s) + 1
      BY <3>2, AllLeft
    <3>4. /\ script' = From(s, 1) /\ ~((IF pm = "ACTIVE" THEN 4 ELSE 3) < 1)
      BY <2>2, <3>3
    <3> QED
      BY <2>2, <3>1, <3>3, <3>4 DEF GivesShared
  <2>3. Handlers'
    BY <1>1, <1>7, <2>1, <2>2 DEF Handlers, Taking, Running
  <2> QED
    BY <1>7, <2>1, <2>3 DEF FreeKinds
<1>8. CASE cl = "freeTx" /\ GivesShared
  <2>1. /\ GivesShared' /\ vc[TX] = NoDescs
        /\ Head1.do \in {"setPm", "killTasklet", "cmd", "freeEv", "irqOff"}
        /\ Head1.do = "setPm" => RegAccessValid(Head1.val) \/ ~evOn
    BY <1>1, <1>8, SharedStep DEF GivesShared
  <2>2. Handlers'
    BY <1>1, <1>8, <2>1 DEF Handlers, Taking, Running
  <2>3. \A c \in Chans : vc[c] = NoDescs
    BY <1>3, <1>8, <2>1 DEF IInv, Empty
  <2> QED
    BY <1>8, <2>1, <2>2, <2>3
<1>9. cl \in Taking \/ cl \in Running \/ cl = "freeRx" \/ cl = "freeTx"
  BY <1>1, <1>2 DEF IInv, Handlers, Typed, TypedClient, Taking, Running
<1> QED
  BY <1>4, <1>5, <1>6, <1>7, <1>8, <1>9 DEF IInv, Handlers

\* A step of the holder of ctrl_lock preserves the invariant.
LEMMA CtlKeeps ==
  ASSUME IInv, Controls PROVE IInv'
<1>1. Typed /\ CtlNext /\ UNCHANGED <<cl, cur>> /\ tk' = tk /\ sched' = sched /\ stat' = stat
  BY Effects DEF IInv, Controls
<1>2. /\ vc \in [Chans -> Lists] /\ cpm \in [Chans -> PmStates] /\ evs \in Seq(Event)
      /\ ring \in [Chans -> [on : BOOLEAN, rp : Slots, wp : Slots]]
      /\ tk.ch \in Chans /\ TX \in Chans /\ RX \in Chans /\ TX # RX
  BY <1>1 DEF Typed, TypedRings, TypedRegs, TypedTk, Chans, TX, RX
<1>3. script # <<>> /\ Head1.ch \in Chans
  BY <1>1, Effects, ScriptFacts
<1>4. Typed'
  BY TypedStep DEF IInv, Next
<1>5. Handlers'
  BY HandlerStep
<1>6. RingOn'
  <2>1. Head1.do \notin {"resetRing", "freeRing"} => ring' = ring
    BY <1>1, Effects
  <2>2. Head1.do = "resetRing" => ring'[TX].on = ring[TX].on
    BY <1>1, <1>2, <1>3, Effects
  <2>3. Head1.do = "freeRing" => cl = "freeTx" \/ ring'[TX] = ring[TX]
    BY <1>1, <1>2, <1>3, Effects, HandlerStep
  <2>4. cl # "freeTx" => ring'[TX].on
    BY <2>1, <2>2, <2>3, HandlerStep
  <2> QED
    BY <1>1, <2>4 DEF RingOn, Running
<1>7. ASSUME NEW c \in Chans, vc[c] = NoDescs PROVE vc'[c] = NoDescs
  <2>1. vc' \in {vc, [vc EXCEPT ![Head1.ch] = NoDescs]}
    BY <1>1, Effects
  <2> QED
    BY <1>2, <1>3, <1>7, <2>1
<1>8. Empty'
  BY <1>1, <1>2, <1>7 DEF IInv, Empty
<1>9. tk.pc # "off" => pm' = pm \/ RegAccessValid(pm')
  BY <1>1, Effects
<1>10. tk.pc \in Held => cpm' = cpm
  BY <1>1, Effects
<1>11. Works'
  BY <1>1, <1>9, <1>10 DEF IInv, Works
<1>12. /\ evOn' /\ evs' # <<>> => evOn /\ evs # <<>>
       /\ evOn' /\ Head1.do = "setPm" => RegAccessValid(pm')
  <2>1. CASE Head1.do = "wipe"
    <3>1. evs' = Stale(Head1.ch) /\ evOn' = evOn
      BY <1>1, <2>1, Effects
    <3>2. evs = <<>> => evs' = <<>>
      <4>1. evs = <<>> => DOMAIN evs = 1 .. 0
        BY <1>2, LenProperties, EmptySeq
      <4>2. 1 .. 0 = {}
        OBVIOUS
      <4>3. evs' \in Seq(Event) /\ DOMAIN evs' = DOMAIN evs
        BY <1>4, <3>1 DEF Stale, Typed, TypedRings
      <4> QED
        BY <4>1, <4>2, <4>3, LenProperties, EmptySeq
    <3> QED
      BY <2>1, <3>1, <3>2
  <2>2. CASE Head1.do = "allocEv"
    BY <1>1, <2>2, Effects
  <2>3. CASE Head1.do = "freeEv"
    BY <1>1, <2>3, Effects
  <2>4. CASE Head1.do \notin {"wipe", "allocEv", "freeEv"}
    BY <1>1, <2>4, Effects, HandlerStep
  <2> QED
    BY <2>1, <2>2, <2>3, <2>4
<1>13. Pending'
  <2>1. CASE Head1.do = "setPm"
    BY <1>12, <2>1 DEF Pending
  <2>2. CASE Head1.do # "setPm"
    BY <1>1, <1>12, <2>2, Effects DEF IInv, Pending
  <2> QED
    BY <2>1, <2>2
<1>14. NoLostEvent'
  BY <1>1, <1>12 DEF IInv, NoLostEvent
<1>15. ASSUME tk.pc \in Held PROVE evOn' = evOn /\ evs' = evs /\ vc'[tk.ch] = vc[tk.ch]
  <2>1. vc[tk.ch].issued # <<>> /\ cpm[tk.ch] = "ACTIVE"
    BY <1>15 DEF IInv, Works, DescriptorStays
  <2>2. vc[tk.ch] # NoDescs
    BY <2>1 DEF NoDescs
  <2>3. Head1.do \notin {"allocEv", "freeEv", "wipe"}
    BY <1>1, <1>2, <1>15, <2>2, Effects, HandlerStep
  <2>4. Head1.do = "freeVc" => Head1.ch # tk.ch
    BY <2>1, HandlerStep
  <2>5. vc'[tk.ch] = vc[tk.ch]
    BY <1>1, <1>2, <1>3, <2>3, <2>4, Effects
  <2> QED
    BY <1>1, <2>3, <2>5, Effects
<1>16. DescriptorStays'
  BY <1>1, <1>15 DEF IInv, DescriptorStays
<1> QED
  BY <1>4, <1>5, <1>6, <1>8, <1>11, <1>13, <1>14, <1>16 DEF IInv

-----------------------------------------------------------------------------
(* The interrupt handler, the tasklet and the hardware *)

\* What leaves the handlers alone.
LEMMA HandlersKept ==
  ASSUME IInv, UNCHANGED <<cl, script, ret, cpm, evOn>>,
         \A c \in Chans : vc[c] = NoDescs => vc'[c] = NoDescs,
         \A c \in Chans : ring'[c].on = ring[c].on
  PROVE  Handlers' /\ RingOn' /\ Empty'
<1>1. TX \in Chans /\ RX \in Chans
  BY DEF Chans
<1>2. ASSUME NEW c \in Chans, GivesBack(c) PROVE GivesBack(c)'
  BY <1>2 DEF GivesBack
<1>3. GivesShared => GivesShared'
  BY <1>1 DEF GivesShared
<1>4. Handlers'
  BY <1>1, <1>2, <1>3 DEF IInv, Handlers
<1>5. RingOn' /\ Empty'
  BY <1>1 DEF IInv, RingOn, Empty
<1> QED
  BY <1>4, <1>5

LEMMA IrqKeeps ==
  ASSUME IInv, HandleIrq, UNCHANGED clVars PROVE IInv'
<1> USE DEF HandleIrq, HandleIeob, ctlVars, listVars, hwVars, pmVars, clVars
<1>1. Typed'
  BY TypedStep DEF IInv, Next
<1>2. Handlers' /\ RingOn' /\ Empty'
  BY HandlersKept
<1>3. Works' /\ DescriptorStays'
  BY DEF IInv, Works, DescriptorStays
<1>4. Pending'
  BY DEF Pending
<1>5. NoLostEvent'
  <2>1. stat.ieob \in BOOLEAN /\ ieobOn \in BOOLEAN
    BY DEF IInv, Typed, TypedRegs
  <2> QED
    BY <2>1 DEF IInv, NoLostEvent
<1> QED
  BY <1>1, <1>2, <1>3, <1>4, <1>5 DEF IInv

LEMMA HwKeeps ==
  ASSUME IInv, HwNext, UNCHANGED clVars PROVE IInv'
<1> USE DEF HwFrame, ctlVars, irqVars, listVars, pmVars, clVars
<1>1. Typed'
  BY TypedStep DEF IInv, Next
<1>2. HwFrame
  BY DEF HwNext, HwCommand, HwStopped, HwElements
<1>3. Handlers' /\ RingOn' /\ Empty'
  BY <1>2, HandlersKept
<1>4. Works'
  BY <1>2 DEF IInv, Works
<1>5. \/ evs' = evs /\ stat'.ieob = stat.ieob
      \/ stat'.ieob /\ \E e \in Event : evs' = Append(evs, e)
  <2>1. stat \in [ieob : BOOLEAN, ch : SUBSET Chans, ev : BOOLEAN]
    BY DEF IInv, Typed, TypedRegs
  <2>2. CASE HwCommand
    BY <2>1, <2>2 DEF HwCommand
  <2>3. CASE HwStopped
    BY <2>1, <2>3 DEF HwStopped
  <2>4. ASSUME NEW c \in Chans, HwElements(c), evs' # evs \/ stat' # stat
        PROVE  stat'.ieob /\ \E e \in Event : evs' = Append(evs, e)
    <3>1. PICK e : evs' = Append(evs, e) /\ stat' = [stat EXCEPT !.ieob = TRUE]
      BY <2>4 DEF HwElements
    <3>2. evs' \in Seq(Event) /\ evs \in Seq(Event)
      BY <1>1 DEF IInv, Typed, TypedRings
    <3>3. e \in Event
      <4>1. evs'[Len(evs) + 1] = e /\ Len(evs) + 1 \in DOMAIN evs'
        BY <3>1, <3>2, LenProperties
      <4> QED
        BY <3>2, <4>1, Elems
    <3> QED
      BY <2>1, <3>1, <3>3
  <2> QED
    BY <2>2, <2>3, <2>4 DEF HwNext
<1>6. evs # <<>> => evs' # <<>> /\ Head(evs') = Head(evs)
  <2>1. evs \in Seq(Event)
    BY DEF IInv, Typed, TypedRings
  <2>2. ASSUME NEW e \in Event, evs # <<>>
        PROVE  Append(evs, e) # <<>> /\ Head(Append(evs, e)) = Head(evs)
    BY <2>1, <2>2, AppendProperties
  <2> QED
    BY <1>5, <2>2
<1>7. DescriptorStays'
  BY <1>2, <1>6 DEF IInv, DescriptorStays
<1>8. Pending' /\ NoLostEvent'
  BY <1>2, <1>5 DEF IInv, Pending, NoLostEvent
<1> QED
  BY <1>1, <1>3, <1>4, <1>7, <1>8 DEF IInv

LEMMA TaskletKeeps ==
  ASSUME IInv, Tasklet PROVE IInv'
<1> USE DEF TkFrame, ctlVars, hwVars, pmVars, clVars
<1>1. Typed'
  BY TypedStep DEF IInv, Next
<1>2. /\ vc \in [Chans -> Lists] /\ evs \in Seq(Event)
      /\ ring \in [Chans -> [on : BOOLEAN, rp : Slots, wp : Slots]]
      /\ tk \in [pc : {"off", "scan", "complete", "unlink", "reread", "unmask"}, n : Nat, ch : Chans, x : Xs,
                 cb : BOOLEAN]
      /\ stat \in [ieob : BOOLEAN, ch : SUBSET Chans, ev : BOOLEAN]
  BY DEF IInv, Typed, TypedRings, TypedTk, TypedRegs
<1>3. UNCHANGED <<cl, script, ret, cpm, pm, evOn>>
  BY DEF Tasklet, Complete, TkCallback, TkUnlink, TkStart, TkEvent, TkClear, TkReread, TkUnmask
<1>4. ASSUME NEW c \in Chans, vc[c] = NoDescs PROVE vc'[c] = NoDescs
  <2>1. CASE TkUnlink
    <3>1. vc[tk.ch].issued # <<>>
      BY <2>1 DEF TkUnlink, IInv, DescriptorStays
    <3>2. c # tk.ch
      BY <1>4, <3>1 DEF NoDescs
    <3> QED
      BY <1>2, <1>4, <2>1, <3>2 DEF TkUnlink
  <2>2. CASE ~TkUnlink
    BY <1>4, <2>2 DEF Tasklet, Complete, TkCallback, TkStart, TkEvent, TkClear, TkReread, TkUnmask
  <2> QED
    BY <2>1, <2>2
<1>5. ASSUME NEW c \in Chans PROVE ring'[c].on = ring[c].on
  <2>1. CASE TkEvent
    <3>1. evs # <<>>
      BY <2>1 DEF TkEvent
    <3>2. Head(evs).ch \in Chans
      <4>1. Head(evs) \in Event
        BY <1>2, <3>1, HeadTailProperties
      <4> QED
        BY <4>1 DEF Event
    <3>3. ring' = ring \/ ring' = [ring EXCEPT ![Head(evs).ch].rp = After(Head(evs).slot, 1)]
      BY <2>1 DEF TkEvent
    <3> QED
      BY <1>2, <3>2, <3>3
  <2>2. CASE ~TkEvent
    BY <2>2 DEF Tasklet, Complete, TkCallback, TkUnlink, TkStart, TkClear, TkReread, TkUnmask
  <2> QED
    BY <2>1, <2>2
<1>6. Handlers' /\ RingOn' /\ Empty'
  BY <1>3, <1>4, <1>5, HandlersKept
<1>7. \A n : [IdleTk EXCEPT !.pc = "scan", !.n = n].pc = "scan" /\ IdleTk.pc = "off"
  BY DEF IdleTk
<1>8. Recycled(tk).pc = "scan"
  BY <1>7 DEF Recycled
<1>9. tk'.pc # "off" => RegAccessValid(pm)
  BY <1>7 DEF Tasklet, Complete, TkCallback, TkUnlink, TkStart, TkEvent, TkClear, TkReread, TkUnmask, IInv, Works
<1>10. ASSUME tk'.pc = "complete"
       PROVE  /\ cpm[tk'.ch] = "ACTIVE" /\ evs' = evs /\ vc' = vc
              /\ evOn /\ evs # <<>> /\ tk'.ch = Head(evs).ch /\ Head(evs).type # "stale"
              /\ vc[tk'.ch].issued # <<>> /\ Head(vc[tk'.ch].issued).x = tk'.x
  <2>1. TkEvent
    BY <1>2, <1>7, <1>8, <1>10 DEF Tasklet, Complete, TkCallback, TkUnlink, TkStart, TkClear, TkReread, TkUnmask
  <2> DEFINE e == Head(evs)
             live == e.type # "stale" /\ cpm[e.ch] = "ACTIVE" /\ vc[e.ch].issued # <<>>
             vd == Head(vc[e.ch].issued)
  <2>2. live
    BY <1>8, <1>10, <2>1 DEF TkEvent
  <2>3. /\ tk' = [tk EXCEPT !.pc = "complete", !.ch = e.ch, !.x = vd.x, !.cb = vd.cb]
        /\ UNCHANGED evs /\ evOn /\ evs # <<>> /\ UNCHANGED vc
    BY <2>1, <2>2 DEF TkEvent
  <2> HIDE DEF e, vd
  <2>4. tk'.ch = e.ch /\ tk'.x = vd.x
    BY <1>2, <2>3
  <2> QED
    BY <2>1, <2>2, <2>3, <2>4 DEF e, vd
<1>16. ASSUME tk'.pc = "unlink" PROVE Complete
  BY <1>2, <1>7, <1>8, <1>16 DEF Tasklet, TkUnlink, TkStart, TkEvent, TkClear, TkReread, TkUnmask
<1>17. ASSUME Complete
       PROVE  /\ evs' = evs /\ vc' = vc /\ tk.pc = "complete"
              /\ tk'.pc = "unlink" /\ tk'.ch = tk.ch /\ tk'.x = tk.x
  BY <1>2, <1>17 DEF Complete, TkCallback
<1>11. Works'
  BY <1>3, <1>9, <1>10, <1>16, <1>17 DEF IInv, Works
<1>12. DescriptorStays'
  BY <1>3, <1>10, <1>16, <1>17 DEF IInv, DescriptorStays
<1>13. evs' # <<>> => evs # <<>>
  <2>1. evs' = evs \/ (evs # <<>> /\ evs' = Tail(evs))
    BY DEF Tasklet, Complete, TkCallback, TkUnlink, TkStart, TkEvent, TkClear, TkReread, TkUnmask, IInv, DescriptorStays
  <2> QED
    BY <2>1
<1>14. Pending'
  <2>1. tk.pc # "off" => RegAccessValid(pm)
    BY DEF IInv, Works
  <2>2. tk.pc = "off" => UNCHANGED <<evs, stat>>
    BY DEF Tasklet, Complete, TkCallback, TkUnlink, TkStart, TkEvent, TkClear, TkReread, TkUnmask
  <2> QED
    BY <1>3, <2>1, <2>2 DEF IInv, Pending
<1>15. NoLostEvent'
  <2>1. CASE Complete
    BY <1>17, <2>1 DEF NoLostEvent
  <2>7. CASE TkUnlink
    BY <1>8, <2>7 DEF TkUnlink, NoLostEvent
  <2>2. CASE TkStart
    <3>1. UNCHANGED <<evs, stat>>
      BY <2>2 DEF TkStart
    <3>2. RegAccessValid(pm) => tk'.pc = "scan"
      BY <1>7, <2>2 DEF TkStart
    <3> QED
      BY <1>3, <3>1, <3>2 DEF IInv, Pending, NoLostEvent
  <2>3. CASE TkEvent
    BY <1>2, <1>8, <2>3 DEF TkEvent, NoLostEvent
  <2>4. CASE TkClear
    BY <1>2, <2>4 DEF TkClear, NoLostEvent
  <2>5. CASE TkReread
    <3>1. evs # <<>> => tk'.pc = "scan"
      BY <1>2, <2>5 DEF TkReread
    <3> QED
      BY <1>13, <3>1 DEF NoLostEvent
  <2>6. CASE TkUnmask
    BY <2>6 DEF TkUnmask, IInv, NoLostEvent
  <2> QED
    BY <2>1, <2>2, <2>3, <2>4, <2>5, <2>6, <2>7 DEF Tasklet
<1> QED
  BY <1>1, <1>6, <1>11, <1>12, <1>14, <1>15 DEF IInv

-----------------------------------------------------------------------------
(* The controller *)

\* A channel has been given back when its handler has nothing left to do.
LEMMA GivenBack ==
  ASSUME NEW c \in Chans, script = <<>>, GivesBack(c)
  PROVE  vc[c] = NoDescs
<1>1. PICK p \in PmStates, pre \in {<<>>, Wiped(c), <<Step("wipe", c)>>} :
        LET s == Freeing(c, p)
            n == Len(s)
        IN  \E k \in 1 .. n + 1 :
              /\ script = pre \o From(s, k)
              /\ pre # <<>> => k = n - 3
              /\ 1 < k /\ k < n => cpm[c] = "PREPARE_TERMINATE"
              /\ n - 1 <= k => vc[c] = NoDescs
  BY DEF GivesBack
<1> DEFINE s == Freeing(c, p)
           n == Len(s)
           U == Undo(FreeKinds)
<1>2. PICK k \in 1 .. n + 1 : /\ script = pre \o From(s, k)
                              /\ n - 1 <= k => vc[c] = NoDescs
  BY <1>1
<1>3. s \in Seq(U) /\ n \in {5, 8}
  BY FreeScript
<1>4. Step("resetRing", c) \in U /\ Step("wipe", c) \in U
  BY PlainSteps, StepSets DEF FreeKinds
<1>5. pre \in Seq(U)
  <2> HIDE DEF U
  <2>1. Wiped(c) \in Seq(U) /\ <<Step("wipe", c)>> \in Seq(U) /\ <<>> \in Seq(U)
    BY <1>4, EmptySeq DEF Wiped
  <2> QED
    BY <2>1
<1> HIDE DEF s, n, U
<1>6. CASE k \in 1 .. n
  <2>1. From(s, k) \in Seq(U) /\ From(s, k) # <<>>
    BY <1>3, <1>6, Left DEF n
  <2>2. Len(From(s, k)) \in Nat /\ Len(From(s, k)) # 0 /\ Len(pre) \in Nat
    BY <1>5, <2>1, LenProperties, EmptySeq
  <2>3. pre \o From(s, k) \in Seq(U) /\ Len(pre \o From(s, k)) = Len(pre) + Len(From(s, k))
    BY <1>5, <2>1, ConcatProperties
  <2>4. Len(pre \o From(s, k)) # 0
    BY <2>2, <2>3
  <2>5. Len(<<>>) = 0 /\ pre \o From(s, k) = <<>>
    BY <1>2
  <2> QED
    BY <2>4, <2>5
<1>7. CASE k = n + 1
  BY <1>2, <1>3, <1>7
<1> QED
  BY <1>2, <1>3, <1>6, <1>7

\* A channel begins to be given back.
LEMMA FreeBegins ==
  ASSUME Typed, NEW c \in Chans, Free(c)
  PROVE  GivesBack(c)'
<1> DEFINE s == Freeing(c, cpm[c])
           n == Len(s)
           U == Undo(FreeKinds)
<1>1. cpm[c] \in PmStates /\ script' = s
  BY DEF Free, Enter, Typed, TypedRegs
<1>2. s \in Seq(U) /\ n \in {5, 8}
  BY FreeScript
<1> HIDE DEF U
<1>3. s = From(s, 1) /\ <<>> \o s = s
  BY <1>2, AllLeft, ConcatEmptySeq
<1>4. /\ script' = <<>> \o From(s, 1) /\ 1 \in 1 .. n + 1 /\ ~(1 < 1) /\ ~(n - 1 <= 1)
      /\ <<>> \in {<<>>, Wiped(c), <<Step("wipe", c)>>}
  <2> HIDE DEF s, n
  <2>1. 1 \in 1 .. n + 1 /\ ~(n - 1 <= 1)
    BY <1>2
  <2> QED
    BY <1>1, <1>3, <2>1
<1> QED
  BY <1>1, <1>4 DEF GivesBack

\* What the controller leaves alone.
LEMMA ClientKept ==
  ASSUME IInv, UNCHANGED <<pm, cpm, evOn, evs, tk, sched, stat>>,
         \A c \in Chans : vc[c].issued # <<>> =>
           vc'[c].issued # <<>> /\ Head(vc'[c].issued) = Head(vc[c].issued)
  PROVE  Works' /\ Pending' /\ DescriptorStays' /\ NoLostEvent'
<1>1. tk.ch \in Chans
  BY DEF IInv, Typed, TypedTk
<1> QED
  BY <1>1 DEF IInv, Works, Pending, DescriptorStays, NoLostEvent

\* A step that begins with a ring or a handler, or moves the controller only.
LEMMA HandlerKept ==
  ASSUME IInv, UNCHANGED <<pm, evOn, evs, tk, sched, stat, vc>>,
         \/ UNCHANGED cpm
         \/ \E c \in Chans : vc[c] = NoDescs /\ cpm' = [cpm EXCEPT ![c] = "CONFIG"]
  PROVE  Works' /\ Pending' /\ DescriptorStays' /\ NoLostEvent'
<1>1. tk.ch \in Chans /\ cpm \in [Chans -> PmStates]
  BY DEF IInv, Typed, TypedTk, TypedRegs
<1>2. ASSUME tk.pc \in Held PROVE cpm'[tk.ch] = cpm[tk.ch]
  <2>1. vc[tk.ch] # NoDescs
    BY <1>2 DEF IInv, DescriptorStays, NoDescs
  <2> QED
    BY <1>1, <2>1
<1> QED
  BY <1>1, <1>2 DEF IInv, Works, Pending, DescriptorStays, NoLostEvent

\* A channel is taken.
LEMMA GrabKeeps ==
  ASSUME IInv, GrabTx \/ GrabRx PROVE IInv'
<1> USE DEF Calls, Returns, Quiet, irqVars, hwVars
<1>1. Typed'
  BY TypedStep DEF IInv, Next, ClientNext
<1>2. TX \in Chans /\ RX \in Chans /\ TX # RX
  BY DEF Chans, TX, RX
<1>3. cl \in {"off", "grabTx"} /\ vc[TX] = NoDescs /\ vc[RX] = NoDescs
  BY DEF GrabTx, GrabRx, IInv, Empty, Taking
<1>4. \E c \in Chans : Alloc(c) \/ AllocFails
  BY <1>2 DEF GrabTx, GrabRx
<1>5. /\ UNCHANGED <<pm, evOn, evs, tk, sched, stat, vc>>
      /\ UNCHANGED cpm \/ \E c \in Chans : vc[c] = NoDescs /\ cpm' = [cpm EXCEPT ![c] = "CONFIG"]
  BY <1>2, <1>3, <1>4 DEF Alloc, AllocFails, Chans
<1>6. Works' /\ Pending' /\ DescriptorStays' /\ NoLostEvent'
  BY <1>5, HandlerKept
<1>7. script' \in Seq(Steps(InitKinds))
  BY <1>4, InitScripts, EmptySeq DEF Alloc, AllocFails, Enter
<1>8. cl' \in Taking
  BY DEF GrabTx, GrabRx, Taking
<1>9. Handlers' /\ Empty'
  BY <1>3, <1>5, <1>7, <1>8 DEF Handlers, Empty, Taking, Running
<1>10. RingOn'
  <2>1. ring \in [Chans -> [on : BOOLEAN, rp : Slots, wp : Slots]]
    BY DEF IInv, Typed, TypedRings
  <2>2. CASE GrabTx
    <3>1. CASE Alloc(TX)
      BY <1>2, <2>1, <2>2, <3>1 DEF GrabTx, Alloc, RingOn, Running
    <3>2. CASE AllocFails
      BY <2>2, <3>2 DEF GrabTx, AllocFails, RingOn, Running
    <3> QED
      BY <2>2, <3>1, <3>2 DEF GrabTx
  <2>3. CASE GrabRx
    <3>1. ring[TX].on
      BY <2>3 DEF GrabRx, IInv, RingOn
    <3>2. ring'[TX] = ring[TX]
      BY <1>2, <2>1, <2>3 DEF GrabRx, Alloc, AllocFails
    <3> QED
      BY <2>3, <3>1, <3>2 DEF GrabRx, RingOn
  <2> QED
    BY <2>2, <2>3
<1> QED
  BY <1>1, <1>6, <1>9, <1>10 DEF IInv

\* A handler begins.
LEMMA EnterKeeps ==
  ASSUME IInv, GrabFailed \/ ReleaseRx \/ ReleaseTx \/ TerminateTx \/ TerminateRx \/ PauseOrResume
  PROVE  IInv'
<1> USE DEF Calls, Returns, Quiet, irqVars, hwVars
<1>1. Typed /\ Typed'
  BY TypedStep DEF IInv, Next, ClientNext
<1>2. TX \in Chans /\ RX \in Chans
  BY DEF Chans
<1>3. Terminate \/ Pause \/ Resume \/ \E c \in Chans : Free(c)
  BY <1>2 DEF GrabFailed, ReleaseRx, ReleaseTx, TerminateTx, TerminateRx, PauseOrResume
<1>4. UNCHANGED <<pm, cpm, evOn, evs, tk, sched, stat, vc, ring>>
  BY <1>3 DEF Terminate, Pause, Resume, Free
<1>5. Works' /\ Pending' /\ DescriptorStays' /\ NoLostEvent'
  BY <1>4, HandlerKept
<1>6. CASE GrabFailed \/ ReleaseTx
  <2>1. cl' = "freeTx" /\ GivesBack(TX)'
    BY <1>1, <1>2, <1>6, FreeBegins DEF GrabFailed, ReleaseTx
  <2>2. vc[RX] = NoDescs
    <3>1. CASE GrabFailed
      BY <3>1 DEF GrabFailed, IInv, Empty, Taking
    <3>2. CASE ReleaseTx
      BY <1>2, <3>2, GivenBack DEF ReleaseTx, IInv, Handlers
    <3> QED
      BY <1>6, <3>1, <3>2
  <2> QED
    BY <1>1, <1>4, <1>5, <2>1, <2>2 DEF IInv, Handlers, RingOn, Empty, Taking, Running
<1>7. CASE ReleaseRx
  <2>1. cl = "ready" /\ cl' = "freeRx" /\ GivesBack(RX)'
    BY <1>1, <1>2, <1>7, FreeBegins DEF ReleaseRx
  <2>2. ring[TX].on
    BY <2>1 DEF IInv, RingOn, Running
  <2> QED
    BY <1>1, <1>4, <1>5, <2>1, <2>2 DEF IInv, Handlers, RingOn, Empty, Taking, Running
<1>8. CASE TerminateTx \/ TerminateRx \/ PauseOrResume
  <2>1. cl \in Running /\ cl' \in Running
    BY <1>8 DEF TerminateTx, TerminateRx, PauseOrResume, Running
  <2>2. script' \in Seq(Steps(RunKinds))
    BY <1>8, RunScripts, EmptySeq
    DEF TerminateTx, TerminateRx, PauseOrResume, Terminate, Pause, Resume, Enter
  <2>3. ring[TX].on
    BY <2>1 DEF IInv, RingOn
  <2> QED
    BY <1>1, <1>4, <1>5, <2>1, <2>2, <2>3 DEF IInv, Handlers, RingOn, Empty, Taking, Running
<1> QED
  BY <1>6, <1>7, <1>8

\* Nothing but the controller moves.
LEMMA MoveKeeps ==
  ASSUME IInv, GrabTxFailed \/ Grabbed \/ Released \/ WaitEnds \/ Terminated
  PROVE  IInv'
<1> USE DEF Calls, Returns, Client
<1>1. Typed'
  BY TypedStep DEF IInv, Next, ClientNext
<1>2. TX \in Chans /\ RX \in Chans
  BY DEF Chans
<1>3. UNCHANGED <<pm, cpm, evOn, evs, tk, sched, stat, vc, ring, script, ret>>
  BY DEF GrabTxFailed, Grabbed, Released, WaitEnds, Terminated, gpiVars
<1>4. Works' /\ Pending' /\ DescriptorStays' /\ NoLostEvent'
  BY <1>3, HandlerKept
<1>5. CASE GrabTxFailed \/ Released
  <2>1. cl' = "off" /\ script = <<>>
    BY <1>5 DEF GrabTxFailed, Released
  <2>2. vc[TX] = NoDescs /\ vc[RX] = NoDescs
    <3>1. CASE GrabTxFailed
      BY <3>1 DEF GrabTxFailed, IInv, Empty, Taking
    <3>2. CASE Released
      BY <1>2, <2>1, <3>2, GivenBack DEF Released, IInv, Handlers, Empty, GivesShared
    <3> QED
      BY <1>5, <3>1, <3>2
  <2> QED
    BY <1>1, <1>3, <1>4, <2>1, <2>2 DEF IInv, Handlers, RingOn, Empty, Taking, Running
<1>6. CASE Grabbed
  <2>1. cl' = "ready" /\ script = <<>> /\ ring[TX].on
    BY <1>6 DEF Grabbed, IInv, RingOn
  <2>2. <<>> \in Seq(Steps(RunKinds))
    BY EmptySeq
  <2> QED
    BY <1>1, <1>3, <1>4, <2>1, <2>2 DEF IInv, Handlers, RingOn, Empty, Taking, Running
<1>7. CASE WaitEnds \/ Terminated
  <2>1. cl \in Running /\ cl' \in Running
    BY <1>7 DEF WaitEnds, Terminated, Running
  <2>2. script \in Seq(Steps(RunKinds)) /\ ring[TX].on
    BY <2>1 DEF IInv, Handlers, RingOn
  <2> QED
    BY <1>1, <1>3, <1>4, <2>1, <2>2 DEF IInv, Handlers, RingOn, Empty, Taking, Running
<1> QED
  BY <1>5, <1>6, <1>7

\* A transfer is prepared and issued.
LEMMA XferKeeps ==
  ASSUME IInv, SetupGsiXfer \/ IssueRx \/ IssueTx
  PROVE  IInv'
<1> USE DEF Calls, ctlVars, irqVars, pmVars
<1>1. Typed'
  BY TypedStep DEF IInv, Next, ClientNext
<1>2. TX \in Chans /\ RX \in Chans
  BY DEF Chans
<1>3. /\ vc \in [Chans -> Lists]
      /\ ring \in [Chans -> [on : BOOLEAN, rp : Slots, wp : Slots]]
  BY DEF IInv, Typed, TypedRings
<1>4. UNCHANGED <<pm, cpm, evOn, evs, tk, sched, stat, script>>
  BY DEF SetupGsiXfer, IssueRx, IssueTx, Issue
<1>5. ASSUME NEW c \in Chans, vc[c].issued # <<>>
      PROVE  vc'[c].issued # <<>> /\ Head(vc'[c].issued) = Head(vc[c].issued)
  <2>1. CASE SetupGsiXfer
    <3>1. vc'[c].issued = vc[c].issued
      <4>1. PICK t : \/ vc' = [d \in Chans |->
                               IF d = TX \/ t.cmd = "SPI_TX_RX"
                               THEN [vc[d] EXCEPT !.submitted = Append(@, Desc(d, t))] ELSE vc[d]]
                     \/ vc' = [vc EXCEPT ![RX].allocated = Append(@, Desc(RX, t))]
                     \/ vc' = vc
        BY <2>1 DEF SetupGsiXfer
      <4>2. \A v \in Lists : \A x : /\ [v EXCEPT !.submitted = x].issued = v.issued
                                    /\ [v EXCEPT !.allocated = x].issued = v.issued
        BY DEF Lists
      <4>3. CASE vc' = [d \in Chans |->
                         IF d = TX \/ t.cmd = "SPI_TX_RX"
                         THEN [vc[d] EXCEPT !.submitted = Append(@, Desc(d, t))] ELSE vc[d]]
        BY <1>3, <4>2, <4>3
      <4>4. CASE vc' = [vc EXCEPT ![RX].allocated = Append(@, Desc(RX, t))]
        BY <1>3, <4>2, <4>4
      <4> QED
        BY <4>1, <4>3, <4>4
    <3> QED
      BY <1>5, <3>1
  <2>2. ASSUME NEW d \in Chans, Issue(d)
        PROVE  vc'[c].issued # <<>> /\ Head(vc'[c].issued) = Head(vc[c].issued)
    <3>1. vc' = [vc EXCEPT ![d].issued = vc[d].issued \o vc[d].submitted, ![d].submitted = <<>>]
      BY <2>2 DEF Issue
    <3>2. vc'[c].issued = (IF c = d THEN vc[c].issued \o vc[c].submitted ELSE vc[c].issued)
      BY <1>3, <3>1 DEF Lists
    <3>3. vc[c].issued \in Seq(Descs) /\ vc[c].submitted \in Seq(Descs)
      BY <1>3 DEF Lists
    <3>4. ASSUME NEW a \in Seq(Descs), NEW b \in Seq(Descs), a # <<>>
          PROVE  a \o b # <<>> /\ Head(a \o b) = Head(a)
      <4>1. Len(a) \in Nat /\ Len(a) # 0 /\ Len(b) \in Nat
        BY <3>4, LenProperties, EmptySeq
      <4>2. /\ a \o b \in Seq(Descs) /\ Len(a \o b) = Len(a) + Len(b)
            /\ \A i \in 1 .. Len(a) + Len(b) : (a \o b)[i] = IF i <= Len(a) THEN a[i] ELSE b[i - Len(a)]
        BY ConcatProperties
      <4>3. 1 \in 1 .. Len(a) + Len(b) /\ 1 <= Len(a)
        BY <4>1
      <4>4. (a \o b)[1] = a[1] /\ a \o b # <<>>
        BY <4>1, <4>2, <4>3, EmptySeq
      <4> QED
        BY <3>4, <4>2, <4>4
    <3> QED
      BY <1>5, <3>2, <3>3, <3>4
  <2> QED
    BY <1>2, <2>1, <2>2 DEF IssueRx, IssueTx
<1>6. Works' /\ Pending' /\ DescriptorStays' /\ NoLostEvent'
  BY <1>4, <1>5, ClientKept
<1>7. cl \in Running /\ cl' \in Running
  BY DEF SetupGsiXfer, IssueRx, IssueTx, Running
<1>8. ring'[TX].on = ring[TX].on
  <2>1. CASE SetupGsiXfer
    BY <2>1 DEF SetupGsiXfer
  <2>2. ASSUME NEW d \in Chans, Issue(d) PROVE ring'[TX].on = ring[TX].on
    <3>1. PICK w : ring' = ring \/ ring' = [ring EXCEPT ![d].wp = w]
      BY <2>2 DEF Issue
    <3> QED
      BY <1>2, <1>3, <3>1
  <2> QED
    BY <1>2, <2>1, <2>2 DEF IssueRx, IssueTx
<1>9. Handlers' /\ RingOn' /\ Empty'
  BY <1>4, <1>7, <1>8 DEF IInv, Handlers, RingOn, Empty, Taking, Running
<1> QED
  BY <1>1, <1>6, <1>9 DEF IInv

-----------------------------------------------------------------------------
(* The theorems *)

LEMMA IInvInit == Init => IInv
<1> SUFFICES ASSUME Init PROVE IInv
  OBVIOUS
<1>1. Typed
  BY TypedInit
<1>2. Handlers /\ RingOn /\ Empty
  BY DEF Init, GpiInit, Handlers, RingOn, Empty, Taking, Running, Chans
<1>3. Works /\ Pending /\ DescriptorStays /\ NoLostEvent
  BY DEF Init, GpiInit, IdleTk, Works, Pending, DescriptorStays, NoLostEvent
<1> QED
  BY <1>1, <1>2, <1>3 DEF IInv

LEMMA IInvStep == IInv /\ [Next]_vars => IInv'
<1> SUFFICES ASSUME IInv, [Next]_vars PROVE IInv'
  OBVIOUS
<1>1. CASE ClientNext
  BY <1>1, GrabKeeps, EnterKeeps, MoveKeeps, XferKeeps DEF ClientNext
<1>2. CASE Tasklet
  BY <1>2, TaskletKeeps
<1>3. CASE Controls
  BY <1>3, CtlKeeps
<1>4. CASE (HandleIrq \/ HwNext) /\ UNCHANGED clVars
  BY <1>4, IrqKeeps, HwKeeps
<1>5. CASE Ended \/ UNCHANGED vars
  <2>1. UNCHANGED vars
    BY <1>5 DEF Ended
  <2>2. Typed'
    BY TypedStep DEF IInv
  <2>3. Handlers' /\ RingOn' /\ Empty'
    <3>1. UNCHANGED <<cl, script, ret, cpm, evOn, vc, ring>>
      BY <2>1 DEF vars, gpiVars, clVars
    <3> QED
      BY <3>1, HandlersKept
  <2>4. Works' /\ Pending' /\ DescriptorStays' /\ NoLostEvent'
    <3>1. UNCHANGED <<pm, cpm, evOn, evs, tk, sched, stat, vc>>
      BY <2>1 DEF vars, gpiVars, clVars
    <3> QED
      BY <3>1, HandlerKept
  <2> QED
    BY <2>2, <2>3, <2>4 DEF IInv
<1> QED
  BY <1>1, <1>2, <1>3, <1>4, <1>5 DEF Next

\* Whatever the controller, the tasklet, the interrupt handler and the hardware do, and in whichever
\* order, the parts of the invariant hold together (gpi.c, spi-geni-qcom.c).
THEOREM Invariance == Spec => []IInv
BY IInvInit, IInvStep, PTL DEF Spec

\* Every variable of the engine and of the controller keeps its type, for rings of any length and
\* any number of transfers, probes, pauses and failed commands (gpi.c, spi-geni-qcom.c).
THEOREM TypesCorrect == Spec => []TypeOK
<1>1. IInv => TypeOK
  BY TypedTypeOK DEF IInv
<1> QED
  BY <1>1, Invariance, PTL

\* The descriptor and the event that the tasklet works on while vc.lock is released for the
\* callback stay where they are until it takes them off, whatever the handlers of dmaengine, the
\* interrupt and the hardware do meanwhile (gpi_process_xfer_compl_event against gpi_reset_chan,
\* gpi_free_chan_resources and gpi_free_ring).
THEOREM DescriptorIsHeld == Spec => []DescriptorStays
<1>1. IInv => DescriptorStays
  BY DEF IInv
<1> QED
  BY <1>1, Invariance, PTL

\* No event is forgotten between its interrupt and the tasklet, however their steps and those of a
\* handler that gives the registers up interleave (gpi_process_ieob, gpi_process_events,
\* gpi_ev_tasklet).
THEOREM EventsAreRead == Spec => []NoLostEvent
<1>1. IInv => NoLostEvent
  BY DEF IInv
<1> QED
  BY <1>1, Invariance, PTL

=============================================================================
